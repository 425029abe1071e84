------------------------------- MODULE DbScan -------------------------------
(***************************************************************************)
(* The periodic scan lists of dbScan.c, which call the device support.     *)
(*                                                                         *)
(* There is a list for each scan period, and a thread that walks it once a *)
(* period and processes its records.  A put to a record's SCAN or PHAS     *)
(* field takes the record off its list, changes the field, and puts the    *)
(* record on the list it then belongs to.  This happens while lists are    *)
(* being walked: a walk holds the list's lock only from one record to the  *)
(* next, not while a record is processed.  It keeps three elements in hand *)
(* (prev, pse, next), and the list's flag "modified" tells it when not to  *)
(* trust them.                                                             *)
(*                                                                         *)
(* An action is a section under the list's lock, or the taking or giving   *)
(* back of a record's lock (dbScanLock).  A scan element is identified     *)
(* with its record.  Time is left out: a walk may begin whenever the last  *)
(* one is over.                                                            *)
(***************************************************************************)
EXTENDS Integers, Sequences, FiniteSets, FiniteSetsExt, SequencesExt

CONSTANTS
  Records,
  Lists,        \* the periodic choices of menuScan
  Passive,      \* the choice that is on no list
  Illegal,      \* a number that menuScan has no choice for
  NULL,
  Phases,       \* values of PHAS
  InitialList,  \* the records initially on each list, in the order of loading
  MaxChanges    \* bound on the puts to SCAN and PHAS

ASSUME DbScanAssumption ==
  /\ {Passive, Illegal, NULL} \cap Lists = {} /\ NULL \notin Records
  /\ Phases \subseteq Int /\ 0 \in Phases
  /\ InitialList \in [Lists -> Seq(Records)]
  /\ \A l \in Lists : IsInjective(InitialList[l])
  /\ \A l, m \in Lists :
       l # m => Range(InitialList[l]) \cap Range(InitialList[m]) = {}
  /\ MaxChanges \in Nat

VARIABLES
  scan, phas,     \* the fields SCAN and PHAS of each record
  pscan_list,     \* the list a record's element says it is on, or NULL
  list,           \* the elements of each list
  modified,       \* the list has changed since the walk last looked
  scanCtl,        \* "run" or "pause": whether the IOC is to scan
  listCtl,        \* the same, as each list's thread is told
  putting,        \* records with a put to SCAN or PHAS under way
  wpc,            \* where each list's walk is
  pse, prev, next,
  changes,        \* puts so far
  stayed, departed, returned, visits    \* history of the current walk

fieldVars == <<scan, phas, pscan_list, putting, changes>>
walkVars  == <<wpc, pse, prev, next>>
ctlVars   == <<scanCtl, listCtl>>
histVars  == <<stayed, departed, returned, visits>>
scanVars  == <<fieldVars, list, modified, ctlVars, walkVars, histVars>>

-----------------------------------------------------------------------------
\* What SCAN may hold.  A put of a string must name a choice; a put of a
\* number is not tested.
ScanValues == Lists \cup {Passive, Illegal}

On(l) == Range(list[l])

Place(L, r) == CHOOSE k \in DOMAIN L : L[k] = r

\* ellNext, ellPrevious, ellFirst and ellDelete in a list.
After(L, r) ==
  IF r \in Range(L) /\ Place(L, r) < Len(L) THEN L[Place(L, r) + 1] ELSE NULL

Before(L, r) ==
  IF r \in Range(L) /\ Place(L, r) > 1 THEN L[Place(L, r) - 1] ELSE NULL

First(L) == IF L = <<>> THEN NULL ELSE L[1]

Delete(L, r) == RemoveAt(L, Place(L, r))

\* Behind the last element of no higher phase; at the end, if there is none.
Insert(L, r, p) ==
  LET lower == {i \in DOMAIN L : phas[L[i]] <= p}
  IN  InsertAt(L, (IF lower = {} THEN Len(L) ELSE Max(lower)) + 1, r)

DbScanInit ==
  /\ list = InitialList
  /\ scan = [r \in Records |->
               IF \E l \in Lists : r \in On(l) THEN CHOOSE l \in Lists : r \in On(l) ELSE Passive]
  /\ phas = [r \in Records |-> 0]
  /\ pscan_list = [r \in Records |-> IF scan[r] \in Lists THEN scan[r] ELSE NULL]
  /\ modified = [l \in Lists |-> list[l] # <<>>]
  /\ scanCtl = "pause" /\ listCtl = [l \in Lists |-> "pause"]
  /\ putting = {}
  /\ wpc = [l \in Lists |-> "wait"]
  /\ pse = [l \in Lists |-> NULL] /\ prev = pse /\ next = pse
  /\ changes = 0
  /\ stayed = [l \in Lists |-> {}] /\ departed = stayed
  /\ returned = [l \in Lists |-> FALSE]
  /\ visits = [l \in Lists |-> [r \in Records |-> 0]]

-----------------------------------------------------------------------------
\* Variant: only lists with records on them are switched on.
scanRunNonEmpty ==
  /\ scanCtl = "pause"
  /\ scanCtl' = "run"
  /\ listCtl' = [l \in Lists |-> IF list[l] = <<>> THEN listCtl[l] ELSE "run"]
  /\ UNCHANGED <<fieldVars, list, modified, walkVars, histVars>>

\* From iocRun and iocPause.  Each walk looks at its own list's switch only,
\* so the order in which the lists are switched does not matter.
scanRun ==
  /\ scanCtl = "pause"
  /\ scanCtl' = "run" /\ listCtl' = [l \in Lists |-> "run"]
  /\ UNCHANGED <<fieldVars, list, modified, walkVars, histVars>>

scanPause ==
  /\ scanCtl = "run"
  /\ scanCtl' = "pause" /\ listCtl' = [l \in Lists |-> "pause"]
  /\ UNCHANGED <<fieldVars, list, modified, walkVars, histVars>>

\* Variant: the walk is not told.
deleteFromListQuietly(r, l) ==
  /\ pscan_list' = [pscan_list EXCEPT ![r] = NULL]
  /\ list' = [list EXCEPT ![l] = Delete(@, r)]
  /\ stayed' = [stayed EXCEPT ![l] = @ \ {r}]
  /\ departed' = [departed EXCEPT ![l] = @ \cup {r}]
  /\ UNCHANGED modified

\* deleteFromList, with its test that the element is on that list.
deleteFromList(r, l) ==
  IF pscan_list[r] = l
  THEN /\ pscan_list' = [pscan_list EXCEPT ![r] = NULL]
       /\ list' = [list EXCEPT ![l] = Delete(@, r)]
       /\ modified' = [modified EXCEPT ![l] = TRUE]
       /\ stayed' = [stayed EXCEPT ![l] = @ \ {r}]
       /\ departed' = [departed EXCEPT ![l] = @ \cup {r}]
  ELSE UNCHANGED <<pscan_list, list, modified, stayed, departed>>

addToList(r, l, p) ==
  /\ pscan_list' = [pscan_list EXCEPT ![r] = l]
  /\ list' = [list EXCEPT ![l] = Insert(@, r, p)]
  /\ modified' = [modified EXCEPT ![l] = TRUE]
  /\ returned' = [returned EXCEPT ![l] = @ \/ r \in departed[l]]

\* dbPut to SCAN or PHAS (dbAccess.c), with the record's lock held: scanDelete.
\* While the record is being processed, the put is one by that processing,
\* through a link.
PutBegins(r) ==
  /\ r \notin putting
  /\ changes < MaxChanges
  /\ changes' = changes + 1
  /\ putting' = putting \cup {r}
  /\ IF scan[r] \in Lists
     THEN deleteFromList(r, scan[r])
     ELSE UNCHANGED <<pscan_list, list, modified, stayed, departed>>
  /\ UNCHANGED <<scan, phas, ctlVars, walkVars, returned, visits>>

\* Variant: no scanAdd when the field could not be changed.
PutEndsEarly(r, s, p) ==
  /\ r \in putting
  /\ s = scan[r] \/ p = phas[r]
  /\ scan' = [scan EXCEPT ![r] = s]
  /\ phas' = [phas EXCEPT ![r] = p]
  /\ putting' = putting \ {r}
  /\ IF s \in Lists /\ (s # scan[r] \/ p # phas[r])
     THEN addToList(r, s, p)
     ELSE UNCHANGED <<pscan_list, list, modified, returned>>
  /\ UNCHANGED <<ctlVars, walkVars, changes, stayed, departed, visits>>

\* The rest of dbPut: the field changes, or its conversion fails and it does
\* not; scanAdd is called in either case.  It refuses an illegal number, but
\* the field keeps it; "I/O Intr", which these records do not support, it
\* changes to Passive.
PutEnds(r, s, p) ==
  /\ r \in putting
  /\ s = scan[r] \/ p = phas[r]
  /\ scan' = [scan EXCEPT ![r] = s]
  /\ phas' = [phas EXCEPT ![r] = p]
  /\ putting' = putting \ {r}
  /\ IF s \in Lists
     THEN addToList(r, s, p)
     ELSE UNCHANGED <<pscan_list, list, modified, returned>>
  /\ UNCHANGED <<ctlVars, walkVars, changes, stayed, departed, visits>>

-----------------------------------------------------------------------------
\* periodicTask calls scanList: its first locked section.
WalkBegins(l) ==
  /\ wpc[l] \in {"wait", "gave up"}
  /\ listCtl[l] = "run"
  /\ modified' = [modified EXCEPT ![l] = FALSE]
  /\ pse'  = [pse EXCEPT ![l] = First(list[l])]
  /\ prev' = [prev EXCEPT ![l] = NULL]
  /\ next' = [next EXCEPT ![l] = After(list[l], First(list[l]))]
  /\ wpc'  = [wpc EXCEPT ![l] = IF list[l] = <<>> THEN "wait" ELSE "lock"]
  /\ stayed'   = [stayed EXCEPT ![l] = On(l)]
  /\ departed' = [departed EXCEPT ![l] = {}]
  /\ returned' = [returned EXCEPT ![l] = FALSE]
  /\ visits'   = [visits EXCEPT ![l] = [r \in Records |-> 0]]
  /\ UNCHANGED <<fieldVars, list, ctlVars>>

\* dbScanLock and dbProcess.
ProcessBegins(l) ==
  /\ wpc[l] = "lock"
  /\ pse[l] \notin putting
  /\ \A m \in Lists : wpc[m] = "process" => pse[m] # pse[l]
  /\ wpc' = [wpc EXCEPT ![l] = "process"]
  /\ visits' = [visits EXCEPT ![l][pse[l]] = @ + 1]
  /\ UNCHANGED <<fieldVars, list, modified, ctlVars, pse, prev, next, stayed, departed, returned>>

\* dbScanUnlock; puts that the processing began are over.
ProcessEnds(l) ==
  /\ wpc[l] = "process"
  /\ pse[l] \notin putting
  /\ wpc' = [wpc EXCEPT ![l] = "step"]
  /\ UNCHANGED <<fieldVars, list, modified, ctlVars, pse, prev, next, histVars>>

\* Variant: the end of the list is not noticed.
GoOnBlindly(l, e, q) ==
  /\ pse' = [pse EXCEPT ![l] = e]
  /\ prev' = [prev EXCEPT ![l] = q]
  /\ next' = [next EXCEPT ![l] = After(list[l], e)]
  /\ modified' = [modified EXCEPT ![l] = FALSE]
  /\ wpc' = [wpc EXCEPT ![l] = "lock"]

\* The walk goes on with element e, coming from element q; or it is over.
GoOn(l, e, q) ==
  /\ pse' = [pse EXCEPT ![l] = e]
  /\ prev' = [prev EXCEPT ![l] = q]
  /\ next' = [next EXCEPT ![l] = IF e = NULL THEN @ ELSE After(list[l], e)]
  /\ modified' = [modified EXCEPT ![l] = FALSE]
  /\ wpc' = [wpc EXCEPT ![l] = IF e = NULL THEN "wait" ELSE "lock"]

IsOn(r, l) == r # NULL /\ pscan_list[r] = l

\* Variant: the walk resumes at prev, which it has processed.
StepOnAgain(l) ==
  /\ wpc[l] = "step"
  /\ \/ /\ ~modified[l] \/ IsOn(pse[l], l)
        /\ GoOn(l, After(list[l], pse[l]), pse[l])
     \/ /\ modified[l] /\ ~IsOn(pse[l], l) /\ IsOn(prev[l], l)
        /\ GoOn(l, prev[l], Before(list[l], prev[l]))
     \/ /\ modified[l] /\ ~IsOn(pse[l], l) /\ ~IsOn(prev[l], l) /\ IsOn(next[l], l)
        /\ GoOn(l, next[l], Before(list[l], next[l]))
  /\ UNCHANGED <<fieldVars, list, ctlVars, histVars>>

\* The locked section between two records.
StepOn(l) ==
  /\ wpc[l] = "step"
  /\ \/ /\ ~modified[l] \/ IsOn(pse[l], l)
        /\ GoOn(l, After(list[l], pse[l]), pse[l])
     \/ /\ modified[l] /\ ~IsOn(pse[l], l) /\ IsOn(prev[l], l)
        /\ GoOn(l, After(list[l], prev[l]), prev[l])
     \/ /\ modified[l] /\ ~IsOn(pse[l], l) /\ ~IsOn(prev[l], l) /\ IsOn(next[l], l)
        /\ GoOn(l, next[l], Before(list[l], next[l]))
  /\ UNCHANGED <<fieldVars, list, ctlVars, histVars>>

\* "Too many changes. Just wait till next period"
GiveUp(l) ==
  /\ wpc[l] = "step"
  /\ modified[l] /\ ~IsOn(pse[l], l) /\ ~IsOn(prev[l], l) /\ ~IsOn(next[l], l)
  /\ wpc' = [wpc EXCEPT ![l] = "gave up"]
  /\ UNCHANGED <<fieldVars, list, modified, ctlVars, pse, prev, next, histVars>>

-----------------------------------------------------------------------------
WalkStep(l) == WalkBegins(l) \/ ProcessBegins(l) \/ ProcessEnds(l) \/ StepOn(l) \/ GiveUp(l)

PutFinishes(r) == \E s \in ScanValues, p \in Phases : PutEnds(r, s, p)

DbScanNext ==
  \/ scanRun \/ scanPause
  \/ \E r \in Records : PutBegins(r) \/ PutFinishes(r)
  \/ \E l \in Lists : WalkStep(l)

DbScanSpec == DbScanInit /\ [][DbScanNext]_scanVars

\* Threads are scheduled, processing and puts come to an end.  A thread that
\* waits for a record's lock gets it if it is free again and again: the other
\* threads sleep between two walks (periodicTask, delay > 0).
DbScanFairSpec ==
  /\ DbScanSpec
  /\ \A r \in Records : WF_scanVars(PutFinishes(r))
  /\ \A l \in Lists : WF_scanVars(WalkStep(l)) /\ SF_scanVars(ProcessBegins(l))

-----------------------------------------------------------------------------
DbScanTypeOK ==
  /\ scan \in [Records -> ScanValues]
  /\ phas \in [Records -> Phases]
  /\ pscan_list \in [Records -> Lists \cup {NULL}]
  /\ list \in [Lists -> Seq(Records)]
  /\ modified \in [Lists -> BOOLEAN]
  /\ scanCtl \in {"run", "pause"}
  /\ listCtl \in [Lists -> {"run", "pause"}]
  /\ putting \subseteq Records
  /\ wpc \in [Lists -> {"wait", "lock", "process", "step", "gave up"}]
  /\ pse \in [Lists -> Records \cup {NULL}]
  /\ prev \in [Lists -> Records \cup {NULL}]
  /\ next \in [Lists -> Records \cup {NULL}]
  /\ changes \in 0..MaxChanges
  /\ \A l \in Lists : wpc[l] \in {"lock", "process", "step"} => pse[l] # NULL

(***************************************************************************)
(* A record is on the list its element names, once, and on no other; when  *)
(* no put is under way that is the list SCAN names, whatever became of the *)
(* put ("dbScan: Tried to delete record from wrong scan list!" is never    *)
(* printed).                                                               *)
(***************************************************************************)
OnListOfScan ==
  /\ \A l \in Lists : IsInjective(list[l])
  /\ \A l \in Lists, r \in Records : r \in On(l) <=> pscan_list[r] = l
  /\ \A r \in Records \ putting :
       pscan_list[r] = IF scan[r] \in Lists THEN scan[r] ELSE NULL

(***************************************************************************)
(* A walk that finds its list unmodified holds an element of that list, so *)
(* that ellNext leads to the list's next element and not along a pointer   *)
(* into another list (scanList, "if (!psl->modified)").                    *)
(***************************************************************************)
UnmodifiedMeansOnList ==
  \A l \in Lists : wpc[l] \in {"lock", "process", "step"} /\ ~modified[l] => pse[l] \in On(l)

(***************************************************************************)
(* A walk that reaches the end of its list has processed every record that *)
(* stayed on it exactly once, whatever else joined or left, unless a       *)
(* record left and came back meanwhile (scanList: after such a return the  *)
(* walk may go on from a place further down, or further up).               *)
(***************************************************************************)
EveryoneOnce ==
  \A l \in Lists :
    wpc[l] = "wait" /\ ~returned[l] => \A r \in stayed[l] : visits[l][r] = 1

(***************************************************************************)
(* A record that stays on a list while the IOC scans is processed again    *)
(* and again: no sequence of changes leaves a walk stuck or lost, or a     *)
(* list switched off (periodicTask).                                       *)
(***************************************************************************)
ProcessedForever ==
  \A l \in Lists, r \in Records :
    <>[](r \in On(l) /\ scanCtl = "run") => []<>(wpc[l] = "process" /\ pse[l] = r)

=============================================================================
