------------------------------ MODULE MCDbEvent ------------------------------
(* One client with two subscriptions to one record, for TLC.               *)
EXTENDS DbEvent

CONSTANTS a, b, temperature

MCSubs == {a, b}
MCRecOf == [s \in MCSubs |-> temperature]
MCSymmetry == Permutations(MCSubs)

=============================================================================
