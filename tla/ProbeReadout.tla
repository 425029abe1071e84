---------------------------- MODULE ProbeReadout ----------------------------
(***************************************************************************)
(* What the RackTemp device support promises for each of its records, as   *)
(* if nobody else used the bus: an input record takes the value of its own *)
(* register of its own probe or is marked undefined; an output record      *)
(* changes that register and no other, and is only reported as written     *)
(* when the register has been written.  Nothing is said about the value an *)
(* output starts with.                                                     *)
(***************************************************************************)
CONSTANTS
  Records,
  Kind,      \* "ai" or "ao"
  Own(_),    \* each record's <<probe, register>>
  Client,    \* a value that a client has put
  Garbage,   \* what an undefined record may show
  None       \* nobody has written this register yet

VARIABLES
  started,   \* the records are initialised, and are being scanned
  busy,      \* the records that are being processed
  val, udf,
  register   \* for each probe and register, the record that wrote it last

readoutVars == <<started, busy, val, udf, register>>

ReadoutInit ==
  /\ started = FALSE
  /\ busy = {}
  /\ val = [r \in Records |-> Garbage]
  /\ udf = [r \in Records |-> TRUE]
  /\ \A p \in DOMAIN register : \A f \in DOMAIN register[p] : register[p][f] = None

Start ==
  /\ ~started
  /\ started' = TRUE
  /\ UNCHANGED <<busy, val, udf, register>>

\* Before scanning starts an output may be given some value from a device.
Prepare(r) ==
  /\ ~started
  /\ Kind[r] = "ao"
  /\ started' => busy' = {}
  /\ busy' \subseteq {r}
  /\ \A q \in Records \ {r} : val'[q] = val[q] /\ udf'[q] = udf[q]
  /\ UNCHANGED register

Begin(r) ==
  /\ started /\ started'
  /\ r \notin busy
  /\ busy' = busy \cup {r}
  /\ \/ /\ Kind[r] = "ao"
        /\ val' = [val EXCEPT ![r] = Client]
        /\ udf' = [udf EXCEPT ![r] = FALSE]
     \/ Kind[r] = "ai" /\ UNCHANGED <<val, udf>>
  /\ UNCHANGED register

\* The end of processing, for better or worse.
Finish(r) ==
  /\ started /\ started'
  /\ r \in busy
  /\ busy' = busy \ {r}
  /\ UNCHANGED register

Read(r) ==
  /\ Finish(r)
  /\ Kind[r] = "ai"
  /\ val' = [val EXCEPT ![r] = Own(r)]
  /\ udf' = [udf EXCEPT ![r] = FALSE]

Acknowledge(r) ==
  /\ Finish(r)
  /\ Kind[r] = "ao"
  /\ register[Own(r)[1]][Own(r)[2]] # None
  /\ UNCHANGED <<val, udf>>

Fail(r) ==
  /\ Finish(r)
  /\ val' \in {val, [val EXCEPT ![r] = Garbage]}
  /\ udf' = [udf EXCEPT ![r] = TRUE]

Write(r) ==
  /\ started /\ started'
  /\ r \in busy
  /\ Kind[r] = "ao"
  /\ register' = [register EXCEPT ![Own(r)[1]][Own(r)[2]] = r]
  /\ UNCHANGED <<busy, val, udf>>

ReadoutNext ==
  \/ Start
  \/ \E r \in Records :
       Prepare(r) \/ Begin(r) \/ Read(r) \/ Acknowledge(r) \/ Fail(r) \/ Write(r)

ReadoutSpec == ReadoutInit /\ [][ReadoutNext]_readoutVars

=============================================================================
