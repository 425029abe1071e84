------------------------------ MODULE MCDbScan ------------------------------
(* Two scan periods, and four records that are first on the faster list.  *)
EXTENDS DbScan

CONSTANTS s5, s10, a, b, c, d

MCLists == {s5, s10}
MCRecords == {a, b, c, d}
MCInitialList == [l \in MCLists |-> IF l = s5 THEN <<a, b, c, d>> ELSE <<>>]

=============================================================================
