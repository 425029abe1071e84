----------------------------- MODULE MCRackTemp -----------------------------
(* Small databases for TLC.  A record is named by its INP or OUT text.     *)
EXTENDS RackTemp

CONSTANTS main, s5, s10     \* iocInit, the 5 s and the 10 s scan thread

MCThreads == {main, s5, s10}

MCPins == {26, 46, 65}

\* Every call that read_ai, write_ao and init_record_ao can make.
MCCalls ==
  UNION {UNION {ReadCall(w, a) \cup WriteCall(w, a) : w \in Suffixes} :
           a \in UNION {{Inp[r].value, Inp[r].value \div 8} : r \in Records} \cap Nat}

InpOf(n, char) == [nconv |-> IF char = " " THEN 1 ELSE 2, value |-> n, char |-> char]

NoNumber == [nconv |-> 0, value |-> -1, char |-> " "]

Lists(l5, l10) == [t \in MCThreads |-> CASE t = s5 -> l5 [] t = s10 -> l10 [] OTHER -> <<>>]

-----------------------------------------------------------------------------
\* Two scan threads, whose records are all on stub 1: two probes there, and
\* an output.
SharedInp == [T |-> InpOf(9, " "), Y |-> InpOf(1, "Y"), aoL |-> InpOf(1, "L")]
SharedRecords == DOMAIN SharedInp
SharedKind == [r \in SharedRecords |-> IF r = "aoL" THEN "ao" ELSE "ai"]
SharedOrder == <<"T", "Y", "aoL">>
SharedLists == Lists(<<"T", "Y">>, <<"aoL">>)
SharedPresent == {<<1, 0>>, <<1, 1>>}

-----------------------------------------------------------------------------
\* One scan thread, and records on several stubs; "13" and "13 S" share a slot.
\* The last three are only initialised: an output to the temperature, an INP
\* out of range, no INP.
AloneInp ==
  [T |-> InpOf(2, " "), T13 |-> InpOf(13, " "), S |-> InpOf(13, "S"), H |-> InpOf(13, "H"),
   aoC |-> InpOf(2, "C"), aoT |-> InpOf(12, " "), big |-> InpOf(64, " "), empty |-> NoNumber]
AloneRecords == DOMAIN AloneInp
AloneKind == [r \in AloneRecords |-> IF r \in {"aoC", "aoT"} THEN "ao" ELSE "ai"]
AloneOrder == <<"T", "T13", "S", "H", "aoC", "aoT", "big", "empty">>
AloneLists == Lists(<<"T", "aoC", "T13", "S", "H">>, <<>>)
AlonePresent == {<<2, 0>>, <<5, 0>>, <<5, 1>>}

-----------------------------------------------------------------------------
\* Parts of RackmonIoc.db: temperatures are scanned every 5 s, the rest every
\* 10 s, and record n is on stub n.
ShippedInp == [temperature0 |-> InpOf(0, " "), configbyte1 |-> InpOf(1, "C")]
ShippedRecords == DOMAIN ShippedInp
ShippedKind == [r \in ShippedRecords |-> "ai"]
ShippedOrder == <<"temperature0", "configbyte1">>
ShippedLists == Lists(<<"temperature0">>, <<"configbyte1">>)
ShippedPresent == {<<0, 0>>, <<1, 0>>}

-----------------------------------------------------------------------------
\* An output on stub 1, with a probe there and one at address 1 of stub 0.
OutputInp == [config1 |-> InpOf(1, "C")]
OutputRecords == DOMAIN OutputInp
OutputKind == [r \in OutputRecords |-> "ao"]
OutputOrder == <<"config1">>
OutputLists == Lists(<<"config1">>, <<>>)
OutputPresent == {<<1, 0>>, <<0, 1>>}

=============================================================================
