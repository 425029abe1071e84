---------------------------- MODULE DbEventProofs ----------------------------
(* For any subscriptions, records, rings and requests: the event queues of    *)
(* dbEvent.c free no block that is still used, lose no wakeup, keep their      *)
(* books, hold the newest value for every client, and implement MonitorQueue.  *)
(* The proofs build on each other: LifeInv (who uses which block), RingInv (a  *)
(* ring's events are in a row), WakeInv, BookInv, QuotaInv and LogTyped,       *)
(* TellInv, and EventInv, under which each step is mapped to one of            *)
(* MonitorQueue.                                                               *)
EXTENDS DbEvent, FiniteSetTheorems, TLAPS

-----------------------------------------------------------------------------
LEMMA QueueSize == EVENTQUESIZE \in Nat \ {0}
<1>1. \A m, n \in Nat \ {0} : m * n \in Nat \ {0}
  OBVIOUS
<1> QED BY <1>1, DbEventAssumption DEF EVENTQUESIZE

LEMMA NextSlot == \A i \in Slots : RNGINC(i) \in Slots
BY QueueSize DEF RNGINC, Slots

LEMMA QueueNumbers == /\ Queues \subseteq Nat \ {0} /\ 1 \in Queues /\ NULL \notin Queues
                      /\ \A q, p \in Queues : q < p => q + 1 \in Queues
BY DbEventAssumption DEF Queues, NULL

\* One slot of one ring is written.
LEMMA SlotWritten ==
  ASSUME NEW T, NEW ring \in [Queues -> [Slots -> T]], NEW q \in Queues, NEW i \in Slots,
         NEW v \in T, NEW new, new = [ring EXCEPT ![q][i] = v]
  PROVE  /\ new \in [Queues -> [Slots -> T]]
         /\ new[q][i] = v
         /\ \A p \in Queues, j \in Slots : p # q \/ j # i => new[p][j] = ring[p][j]
<1> DEFINE f == [ring[q] EXCEPT ![i] = v]
<1>1. f \in [Slots -> T] /\ f[i] = v /\ \A j \in Slots : j # i => f[j] = ring[q][j]
  OBVIOUS
<1>2. new = [ring EXCEPT ![q] = f]
  OBVIOUS
<1> HIDE DEF f
<1> QED BY <1>1, <1>2

\* What canceling does to the ring and to the books, with ev_que[s] and mine
\* written out.
LEMMA PurgeIs ==
  ASSUME NEW s, Purge(s)
  PROVE  /\ evque' = [evque EXCEPT ![ev_que[s]] =
                        [i \in Slots |-> IF i \in {j \in Slots : evque[ev_que[s]][j] = s}
                                         THEN "canceled" ELSE evque[ev_que[s]][i]]]
         /\ valque' = [valque EXCEPT ![ev_que[s]] =
                        [i \in Slots |-> IF i \in {j \in Slots : evque[ev_que[s]][j] = s}
                                         THEN "none" ELSE valque[ev_que[s]][i]]]
         /\ nCanceled' = [nCanceled EXCEPT ![ev_que[s]] =
                            @ + Cardinality({j \in Slots : evque[ev_que[s]][j] = s})]
         /\ nDuplicates' = [nDuplicates EXCEPT ![ev_que[s]] =
                 @ - Max({Cardinality({j \in Slots : evque[ev_que[s]][j] = s}) - 1, 0})]
         /\ npend' = [npend EXCEPT ![s] = 0]
         /\ pLastLog' = [pLastLog EXCEPT ![s] = NULL]
         /\ UNCHANGED <<putix, getix>>
         /\ WritelockFree(ev_que[s])
BY DEF Purge

(***************************************************************************)
(* The life of a subscription's block.  Where the client's thread works on *)
(* a subscription, and where the event task does:                          *)
(***************************************************************************)
Occupied == {"post", "post_signal", "enable", "purge", "flush", "flushed"}
Entered  == {"callback", "called", "self_purge"}

\* The event task is in a callback of s that has not canceled s.
InCallback(s) == epc \in Entered /\ es = s /\ pSuicideEvent # s

ControlTyped ==
  /\ nque \in Queues /\ eq \in Queues
  /\ ev_que \in [Subs -> Queues \cup {NULL}]
  /\ evque \in [Queues -> [Slots -> Subs \cup {"empty", "canceled"}]]
  /\ putix \in [Queues -> Slots] /\ getix \in [Queues -> Slots]
  /\ npend \in [Subs -> Int]
  /\ pflush_sem \in BOOLEAN
  /\ enabled \in [Subs -> BOOLEAN]
  /\ user_sub \in [Subs -> BOOLEAN]
  /\ callBackInProgress \in [Subs -> BOOLEAN]
  /\ rpc \in [Records -> {"idle", "changed", "posting", "signal"}]
  /\ todo \in [Records -> SUBSET Subs]
  /\ cpc \in Occupied \cup {"idle", "flow_signal", "close_signal", "join", "closed"}
  /\ IF cpc \in Occupied THEN cs \in Subs ELSE cs = "none"
  /\ epc \in Entered \cup {"wait", "read", "drain", "exit", "gone"}
  /\ IF epc \in Entered THEN es \in Subs ELSE es = "none"
  /\ pSuicideEvent # "none" => epc = "called" /\ es = pSuicideEvent

\* The client's thread works on a block that is allocated and not on any
\* record's list; when it waits, the block's events are gone.
ClientInv ==
  /\ cpc \in Occupied => ev_que[cs] # NULL /\ ~enabled[cs]
  /\ cpc \in {"flush", "flushed"} =>
       ~user_sub[cs] /\ npend[cs] = 0 /\ pSuicideEvent # cs

\* A block is given up in order: off the list, no callback set, freed; the
\* last only after its callback.
SubInv ==
  \A s \in Subs :
    /\ enabled[s] => user_sub[s]
    /\ user_sub[s] => ev_que[s] # NULL
    /\ ev_que[s] # NULL /\ ~user_sub[s] => cs = s /\ cpc \in {"flush", "flushed"}
    /\ callBackInProgress[s] <=> InCallback(s)
    /\ InCallback(s) => ev_que[s] # NULL

\* A scan thread posts to subscriptions on its record's list, which it locks.
TodoInv ==
  \A r \in Records :
    /\ rpc[r] \notin {"posting", "signal"} => todo[r] = {}
    /\ \A s \in todo[r] : enabled[s] /\ RecOf[s] = r

\* A callback that cancels its subscription does so alone.
SelfPurgeInv == epc = "self_purge" => ~enabled[es] /\ user_sub[es] /\ cs # es

\* A ring holds events only of subscriptions that use it.
OwnerInv ==
  \A q \in Queues, i \in Slots :
    evque[q][i] \in Subs => ev_que[evque[q][i]] = q /\ user_sub[evque[q][i]]

\* FlushSignalMatches, for every place of the client's thread.
FlushInv ==
  /\ cpc = "flush" => (pflush_sem <=> ~InCallback(cs))
  /\ cpc # "flush" => ~pflush_sem
  /\ cpc = "flushed" => ~InCallback(cs)

LifeInv ==
  ControlTyped /\ ClientInv /\ SubInv /\ TodoInv /\ SelfPurgeInv /\ OwnerInv /\ FlushInv

LEMMA PurgeEffect ==
  ASSUME LifeInv, NEW s \in Subs, ev_que[s] # NULL, Purge(s)
  PROVE  /\ evque' \in [Queues -> [Slots -> Subs \cup {"empty", "canceled"}]]
         /\ \A q \in Queues, i \in Slots :
              evque'[q][i] = IF evque[q][i] = s THEN "canceled" ELSE evque[q][i]
         /\ npend' = [npend EXCEPT ![s] = 0]
         /\ UNCHANGED <<putix, getix>>
<1> DEFINE q == ev_que[s]
<1>1. q \in Queues
  BY DEF LifeInv, ControlTyped
<1>2. /\ evque' = [evque EXCEPT ![q] =
                     [i \in Slots |-> IF i \in {j \in Slots : evque[q][j] = s}
                                      THEN "canceled" ELSE evque[q][i]]]
      /\ npend' = [npend EXCEPT ![s] = 0]
      /\ UNCHANGED <<putix, getix>>
  BY PurgeIs
<1>3. \A p \in Queues, i \in Slots : p # q => evque[p][i] # s
  BY <1>1 DEF LifeInv, OwnerInv
<1> HIDE DEF q
<1>4. evque \in [Queues -> [Slots -> Subs \cup {"empty", "canceled"}]]
  BY DEF LifeInv, ControlTyped
<1>5. /\ \A i \in Slots : evque'[q][i] = IF evque[q][i] = s THEN "canceled" ELSE evque[q][i]
      /\ \A p \in Queues : p # q => evque'[p] = evque[p]
  BY <1>1, <1>2, <1>4
<1>6. evque' \in [Queues -> [Slots -> Subs \cup {"empty", "canceled"}]]
  BY <1>1, <1>2, <1>4
<1> QED BY <1>2, <1>3, <1>5, <1>6

\* Every step keeps LifeInv: one lemma for each action.
USE DbEventAssumption DEF LifeInv, ControlTyped, ClientInv, SubInv, TodoInv, SelfPurgeInv,
    OwnerInv, FlushInv, InCallback, Occupied, Entered,
    ringVars, subVars, pendVars, userVars, semVars, taskVars

LEMMA LifeProcess ==
  ASSUME LifeInv, NEW r \in Records, Process(r)
  PROVE  LifeInv'
<1>1. /\ rpc[r] = "idle" /\ rpc' = [rpc EXCEPT ![r] = "changed"]
      /\ UNCHANGED <<evque, putix, getix, subVars, npend, pflush_sem, cpc, cs, todo, epc, eq, es,
                     pSuicideEvent>>
  BY DEF Process, ScanLockFree
<1> QED BY <1>1

LEMMA LifePostEvents ==
  ASSUME LifeInv, NEW r \in Records, db_post_events(r)
  PROVE  LifeInv'
BY DEF db_post_events

\* An event is put into the ring of a subscription that has a callback.
LEMMA LogEffect ==
  ASSUME LifeInv, NEW s \in Subs, user_sub[s], db_queue_event_log(s)
  PROVE  /\ evque' \in [Queues -> [Slots -> Subs \cup {"empty", "canceled"}]]
         /\ putix' \in [Queues -> Slots]
         /\ npend' \in [Subs -> Int]
         /\ \A t \in Subs : t # s => npend'[t] = npend[t]
         /\ OwnerInv'
         /\ UNCHANGED <<getix, subVars>>
<1>1. ev_que[s] \in Queues
  OBVIOUS
<1>2. CASE Replaces(s)
  BY <1>2 DEF db_queue_event_log
<1>3. CASE ~Replaces(s)
  <2>1. PICK q \in Queues : q = ev_que[s]
    BY <1>1
  <2>2. /\ evque' = [evque EXCEPT ![q][putix[q]] = s]
        /\ putix' = [putix EXCEPT ![q] = RNGINC(@)]
        /\ npend' = [npend EXCEPT ![s] = @ + 1]
        /\ UNCHANGED <<getix, subVars>>
    BY <1>3, <2>1 DEF db_queue_event_log, AppendEvent
  <2>3. /\ evque' \in [Queues -> [Slots -> Subs \cup {"empty", "canceled"}]]
        /\ evque'[q][putix[q]] = s
        /\ \A p \in Queues, j \in Slots : p # q \/ j # putix[q] => evque'[p][j] = evque[p][j]
    BY <2>2, SlotWritten
  <2>4. putix' \in [Queues -> Slots]
    BY <2>2, NextSlot
  <2>5. OwnerInv'
    <3> SUFFICES ASSUME NEW p \in Queues, NEW j \in Slots, evque'[p][j] \in Subs
                 PROVE  ev_que[evque'[p][j]] = p /\ user_sub[evque'[p][j]]
      BY <2>2
    <3>1. CASE p = q /\ j = putix[q]
      BY <2>1, <2>3, <3>1
    <3>2. CASE p # q \/ j # putix[q]
      BY <2>3, <3>2
    <3> QED BY <3>1, <3>2
  <2> QED BY <2>2, <2>3, <2>4, <2>5
<1> QED BY <1>2, <1>3

LEMMA LifePostOne ==
  ASSUME LifeInv, NEW r \in Records, NEW s \in Subs, PostOne(r, s)
  PROVE  LifeInv'
<1>0. PICK pc \in {"posting", "signal"} : rpc' = [rpc EXCEPT ![r] = pc]
  BY DEF PostOne
<1>1. /\ rpc[r] = "posting"
      /\ s \in todo[r] /\ todo' = [todo EXCEPT ![r] = @ \ {s}]
      /\ UNCHANGED <<semVars, cpc, cs, taskVars>>
      /\ db_queue_event_log(s)
  BY DEF PostOne
<1>2. user_sub[s] /\ (cpc \in Occupied => cs # s)
  BY <1>1
<1>3. /\ evque' \in [Queues -> [Slots -> Subs \cup {"empty", "canceled"}]]
      /\ putix' \in [Queues -> Slots]
      /\ npend' \in [Subs -> Int]
      /\ \A t \in Subs : t # s => npend'[t] = npend[t]
      /\ OwnerInv'
      /\ UNCHANGED <<getix, subVars>>
  BY <1>1, <1>2, LogEffect
<1>4. TodoInv'
  BY <1>0, <1>1, <1>3
<1>5. ControlTyped'
  <2>1. rpc' \in [Records -> {"idle", "changed", "posting", "signal"}]
    BY <1>0
  <2>2. todo' \in [Records -> SUBSET Subs]
    BY <1>1
  <2> QED BY <1>1, <1>3, <2>1, <2>2
<1>6. ClientInv' /\ SubInv'
  BY <1>1, <1>2, <1>3
<1>7. SelfPurgeInv' /\ FlushInv'
  BY <1>1, <1>3
<1> QED BY <1>3, <1>4, <1>5, <1>6, <1>7

LEMMA LifePostSignal ==
  ASSUME LifeInv, NEW r \in Records, PostSignal(r)
  PROVE  LifeInv'
BY DEF PostSignal

LEMMA LifePostEnds ==
  ASSUME LifeInv, NEW r \in Records, PostEnds(r)
  PROVE  LifeInv'
BY DEF PostEnds

LEMMA LifeAdd ==
  ASSUME LifeInv, NEW s \in Subs, db_add_event(s)
  PROVE  LifeInv'
<1>1. PICK q \in Queues : /\ q <= nque + 1 
                          /\ nque' = IF q > nque THEN q ELSE nque
                          /\ ev_que' = [ev_que EXCEPT ![s] = q]
  BY DEF db_add_event
<1>2. /\ cpc = "idle" /\ cs = "none" /\ ev_que[s] = NULL /\ cpc' = "post" /\ cs' = s
      /\ user_sub' = [user_sub EXCEPT ![s] = TRUE]
      /\ UNCHANGED <<ringVars, enabled, callBackInProgress, npend, semVars, rpc, todo, taskVars>>
  BY DEF db_add_event, ClientAt
<1>3. nque' \in Queues
  BY <1>1
<1>4. q # NULL
  BY QueueNumbers
<1>5. ~enabled[s] /\ ~user_sub[s] /\ ~InCallback(s)
  BY <1>2
<1>6. /\ user_sub' \in [Subs -> BOOLEAN] /\ user_sub'[s]
      /\ \A t \in Subs : t # s => user_sub'[t] = user_sub[t]
  BY <1>2
<1>7. ev_que' \in [Subs -> Queues \cup {NULL}]
      /\ ev_que'[s] = q /\ \A t \in Subs : t # s => ev_que'[t] = ev_que[t]
  BY <1>1
<1>8. ControlTyped'
  BY <1>2, <1>3, <1>6, <1>7
<1>9. ClientInv'
  BY <1>2, <1>4, <1>5, <1>7
<1>10. SubInv'
  <2> SUFFICES ASSUME NEW t \in Subs
               PROVE  (/\ enabled[t] => user_sub[t]
                       /\ user_sub[t] => ev_que[t] # NULL
                       /\ ev_que[t] # NULL /\ ~user_sub[t] =>
                            cs = t /\ cpc \in {"flush", "flushed"}
                       /\ callBackInProgress[t] <=> InCallback(t)
                       /\ InCallback(t) => ev_que[t] # NULL)'
    OBVIOUS
  <2>1. CASE t = s
    BY <1>2, <1>4, <1>5, <1>6, <1>7, <2>1
  <2>2. CASE t # s
    BY <1>2, <1>6, <1>7, <2>2
  <2> QED BY <2>1, <2>2
<1>11. OwnerInv'
  BY <1>2, <1>4, <1>6, <1>7
<1>12. TodoInv' /\ SelfPurgeInv' /\ FlushInv'
  BY <1>2, <1>5, <1>6
<1> QED BY <1>8, <1>9, <1>10, <1>11, <1>12

LEMMA LifeDisable ==
  ASSUME LifeInv, NEW s \in Subs, db_event_disable(s)
  PROVE  LifeInv'
BY DEF db_event_disable, ClientAt, MlokFree

LEMMA LifeFlow ==
  ASSUME LifeInv, NEW on \in BOOLEAN, flow_ctrl_mode(on)
  PROVE  LifeInv'
BY DEF flow_ctrl_mode, ClientAt

LEMMA LifeClose ==
  ASSUME LifeInv, db_close_events
  PROVE  LifeInv'
BY DEF db_close_events, ClientAt

LEMMA LifeSingle ==
  ASSUME LifeInv, db_post_single_event
  PROVE  LifeInv'
<1>1. /\ cpc = "post" /\ cpc' \in {"post_signal", "enable"} /\ cs' = cs
      /\ UNCHANGED <<semVars, rpc, todo, taskVars>>
      /\ db_queue_event_log(cs)
  BY DEF db_post_single_event, ClientAt
<1>2. cs \in Subs /\ user_sub[cs]
  BY <1>1
<1>3. /\ evque' \in [Queues -> [Slots -> Subs \cup {"empty", "canceled"}]]
      /\ putix' \in [Queues -> Slots]
      /\ npend' \in [Subs -> Int]
      /\ \A t \in Subs : t # cs => npend'[t] = npend[t]
      /\ OwnerInv'
      /\ UNCHANGED <<getix, subVars>>
  BY <1>1, <1>2, LogEffect
<1> HIDE DEF OwnerInv
<1> QED BY <1>1, <1>2, <1>3

LEMMA LifeSignals ==
  ASSUME LifeInv, ClientSignals
  PROVE  LifeInv'
<1>1. \/ cpc = "post_signal" /\ cpc' = "enable" /\ cs' = cs
      \/ cpc \in {"flow_signal", "close_signal"} /\ cpc' \in {"idle", "join"} /\ cs' = "none"
  BY DEF ClientSignals, ClientAt
<1>2. UNCHANGED <<ringVars, subVars, pendVars, pflush_sem, rpc, todo, taskVars>>
  BY DEF ClientSignals
<1> QED BY <1>1, <1>2

LEMMA LifeEnable ==
  ASSUME LifeInv, db_event_enable
  PROVE  LifeInv'
BY DEF db_event_enable, ClientAt

LEMMA LifeCancel ==
  ASSUME LifeInv, db_cancel_event
  PROVE  LifeInv'
<1>1. /\ cpc = "purge" /\ cs \in Subs /\ ev_que[cs] # NULL /\ Purge(cs)
      /\ user_sub' = [user_sub EXCEPT ![cs] = FALSE]
      /\ UNCHANGED <<nque, enabled, semVars, rpc, todo, taskVars>>
  BY DEF db_cancel_event, Free
<1>2. /\ evque' \in [Queues -> [Slots -> Subs \cup {"empty", "canceled"}]]
      /\ \A q \in Queues, i \in Slots :
           evque'[q][i] = IF evque[q][i] = cs THEN "canceled" ELSE evque[q][i]
      /\ npend' = [npend EXCEPT ![cs] = 0]
      /\ UNCHANGED <<putix, getix>>
  BY <1>1, PurgeEffect
<1>3. \A q \in Queues, i \in Slots :
        evque'[q][i] \in Subs => evque'[q][i] = evque[q][i] /\ evque'[q][i] # cs
  BY <1>2
<1>4. CASE callBackInProgress[cs]
  <2>1. cpc' = "flush" /\ cs' = cs /\ UNCHANGED <<ev_que, callBackInProgress>>
    BY <1>4 DEF db_cancel_event, ClientAt
  <2>2. ControlTyped'
    BY <1>1, <1>2, <2>1
  <2>3. ClientInv' /\ TodoInv' /\ SelfPurgeInv'
    BY <1>1, <1>2, <1>4, <2>1
  <2>4. SubInv'
    BY <1>1, <2>1
  <2>5. OwnerInv'
    BY <1>1, <1>3, <2>1
  <2>6. FlushInv'
    BY <1>1, <1>4, <2>1
  <2> QED BY <2>2, <2>3, <2>4, <2>5, <2>6
<1>5. CASE ~callBackInProgress[cs]
  <2>1. /\ cpc' = "idle" /\ cs' = "none" /\ ev_que' = [ev_que EXCEPT ![cs] = NULL]
        /\ callBackInProgress' = [callBackInProgress EXCEPT ![cs] = FALSE]
    BY <1>5 DEF db_cancel_event, ClientAt, Free
  <2>2. ControlTyped'
    BY <1>1, <1>2, <2>1
  <2>3. ClientInv' /\ TodoInv' /\ SelfPurgeInv'
    BY <1>1, <1>2, <2>1
  <2>4. SubInv'
    BY <1>1, <1>5, <2>1
  <2>5. OwnerInv'
    BY <1>1, <1>3, <2>1
  <2>6. FlushInv'
    BY <1>1, <2>1
  <2> QED BY <2>2, <2>3, <2>4, <2>5, <2>6
<1> QED BY <1>4, <1>5

LEMMA LifeFlushWait ==
  ASSUME LifeInv, FlushWait
  PROVE  LifeInv'
BY DEF FlushWait, ClientAt

LEMMA LifeFlushDone ==
  ASSUME LifeInv, FlushDone
  PROVE  LifeInv'
<1>1. cpc = "flushed" /\ cs \in Subs /\ ~callBackInProgress[cs] /\ ~user_sub[cs] /\ ~enabled[cs]
  BY DEF FlushDone
<1>2. /\ cpc' = "idle" /\ cs' = "none" /\ ev_que' = [ev_que EXCEPT ![cs] = NULL]
      /\ callBackInProgress' = [callBackInProgress EXCEPT ![cs] = FALSE]
      /\ UNCHANGED <<ringVars, user_sub, enabled, nque, pendVars, semVars, rpc, todo, taskVars>>
  BY <1>1 DEF FlushDone, ClientAt, Free
<1>3. ControlTyped'
  BY <1>2
<1>4. SubInv'
  BY <1>1, <1>2
<1>5. ClientInv' /\ TodoInv' /\ SelfPurgeInv' /\ OwnerInv' /\ FlushInv'
  BY <1>1, <1>2
<1> QED BY <1>3, <1>4, <1>5

LEMMA LifeJoin ==
  ASSUME LifeInv, Join
  PROVE  LifeInv'
BY DEF Join, ClientAt

LEMMA LifeWakes ==
  ASSUME LifeInv, event_task_wakes
  PROVE  LifeInv'
BY QueueNumbers DEF event_task_wakes, TaskAt

LEMMA LifeRead ==
  ASSUME LifeInv, event_read
  PROVE  LifeInv'
BY QueueNumbers DEF event_read, NextQueue, TaskAt

LEMMA LifeSkip ==
  ASSUME LifeInv, SkipCanceled
  PROVE  LifeInv'
<1>1. /\ evque' \in [Queues -> [Slots -> Subs \cup {"empty", "canceled"}]]
      /\ \A q \in Queues, i \in Slots : evque'[q][i] \in {evque[q][i], "empty"}
  <2>1. evque' = [evque EXCEPT ![eq][getix[eq]] = "empty"]
    BY DEF SkipCanceled
  <2> QED BY <2>1, SlotWritten
<1>2. getix' \in [Queues -> Slots]
  BY NextSlot DEF SkipCanceled
<1>3. UNCHANGED <<putix, npend, subVars, semVars, cpc, cs, rpc, todo, taskVars>>
  BY DEF SkipCanceled
<1> QED BY <1>1, <1>2, <1>3

LEMMA LifeTake ==
  ASSUME LifeInv, TakeEvent
  PROVE  LifeInv'
<1>1. PICK s \in Subs : s = evque[eq][getix[eq]]
  BY DEF TakeEvent, Oldest
<1>2. /\ epc = "drain" /\ epc' = "callback" /\ eq' = eq /\ es' = s
      /\ evque' = [evque EXCEPT ![eq][getix[eq]] = "empty"]
      /\ npend' = [npend EXCEPT ![s] = @ - 1]
      /\ getix' = [getix EXCEPT ![eq] = RNGINC(@)]
      /\ callBackInProgress' = [callBackInProgress EXCEPT ![s] = TRUE]
      /\ UNCHANGED <<putix, ev_que, user_sub, enabled, nque, semVars, cpc, cs, rpc, todo, pSuicideEvent>>
  BY <1>1 DEF TakeEvent, Oldest, TaskAt
<1>3. ev_que[s] = eq /\ user_sub[s] /\ eq # NULL /\ pSuicideEvent = "none"
  BY <1>1, <1>2, QueueNumbers
<1>4. /\ evque' \in [Queues -> [Slots -> Subs \cup {"empty", "canceled"}]]
      /\ \A q \in Queues, i \in Slots : evque'[q][i] \in {evque[q][i], "empty"}
  BY <1>2, SlotWritten
<1>5. getix' \in [Queues -> Slots]
  BY <1>2, NextSlot
<1>6. ControlTyped'
  BY <1>2, <1>3, <1>4, <1>5
<1>7. ClientInv' /\ FlushInv'
  BY <1>2, <1>3
<1>8. SubInv'
  BY <1>2, <1>3
<1>9. TodoInv' /\ SelfPurgeInv'
  BY <1>2
<1>10. OwnerInv'
  BY <1>1, <1>2, <1>4
<1> QED BY <1>6, <1>7, <1>8, <1>9, <1>10

LEMMA LifeEmpty ==
  ASSUME LifeInv, QueueEmpty
  PROVE  LifeInv'
BY QueueNumbers DEF QueueEmpty, NextQueue, TaskAt

LEMMA LifeCallback ==
  ASSUME LifeInv, Callback
  PROVE  LifeInv'
BY DEF Callback, TaskAt

LEMMA LifeSelfDisable ==
  ASSUME LifeInv, SelfDisable
  PROVE  LifeInv'
BY DEF SelfDisable, MlokFree, TaskAt

LEMMA LifeSelfPurge ==
  ASSUME LifeInv, SelfPurge
  PROVE  LifeInv'
BY DEF SelfPurge, Purge, Free, TaskAt

LEMMA LifeReturns ==
  ASSUME LifeInv, CallbackReturns
  PROVE  LifeInv'
<1>1. /\ epc = "called" /\ epc' = "drain" /\ es' = "none" /\ eq' = eq /\ pSuicideEvent' = "none"
      /\ UNCHANGED <<ringVars, ev_que, user_sub, enabled, quota, nque, pendVars, cpc, cs, rpc, todo>>
  BY DEF CallbackReturns, TaskAt
<1>2. callBackInProgress' \in [Subs -> BOOLEAN]
  <2>1. \/ callBackInProgress' = callBackInProgress
        \/ callBackInProgress' = [callBackInProgress EXCEPT ![es] = FALSE]
    BY DEF CallbackReturns
  <2>2. CASE callBackInProgress' = callBackInProgress
    BY <2>2
  <2>3. CASE callBackInProgress' = [callBackInProgress EXCEPT ![es] = FALSE]
    BY <2>3
  <2> QED BY <2>1, <2>2, <2>3
<1>3. ASSUME NEW s \in Subs PROVE ~callBackInProgress'[s]
  <2>1. CASE pSuicideEvent = es
    BY <1>1, <2>1 DEF CallbackReturns
  <2>2. CASE pSuicideEvent # es /\ s = es
    BY <1>1, <2>2 DEF CallbackReturns
  <2>3. CASE pSuicideEvent # es /\ s # es
    BY <1>1, <2>3 DEF CallbackReturns
  <2> QED BY <2>1, <2>2, <2>3
<1>4. FlushInv'
  <2>1. CASE pSuicideEvent = es
    BY <1>1, <2>1 DEF CallbackReturns
  <2>2. CASE pSuicideEvent # es /\ cpc = "flush" /\ cs = es
    BY <1>1, <2>2 DEF CallbackReturns
  <2>3. CASE pSuicideEvent # es /\ ~(cpc = "flush" /\ cs = es)
    <3>1. user_sub[es]
      BY <1>1, <2>3
    <3> QED BY <1>1, <2>3, <3>1 DEF CallbackReturns
  <2> QED BY <2>1, <2>2, <2>3
<1>5. pflush_sem' \in BOOLEAN
  BY DEF CallbackReturns
<1> QED BY <1>1, <1>2, <1>3, <1>4, <1>5

LEMMA LifeExits ==
  ASSUME LifeInv, event_task_exits
  PROVE  LifeInv'
BY QueueNumbers DEF event_task_exits, TaskAt

HIDE DbEventAssumption DEF LifeInv, ControlTyped, ClientInv, SubInv, TodoInv, SelfPurgeInv,
    OwnerInv, FlushInv, InCallback, Occupied, Entered,
    ringVars, subVars, pendVars, userVars, semVars, taskVars

LEMMA LifeUnchanged ==
  ASSUME LifeInv, UNCHANGED eventVars
  PROVE  LifeInv'
<1>1. UNCHANGED <<evque, putix, getix, nque, ev_que, user_sub, npend, enabled, callBackInProgress,
                  pSuicideEvent, pflush_sem, cpc, cs, rpc, todo, epc, eq, es>>
  BY DEF eventVars, ringVars, subVars, pendVars, semVars, taskVars
<1> QED BY <1>1 DEF LifeInv, ControlTyped, ClientInv, SubInv, TodoInv, SelfPurgeInv, OwnerInv,
                    FlushInv, InCallback

LEMMA LifeAlways == DbEventSpec => []LifeInv
<1>1. DbEventInit => LifeInv
  <2> SUFFICES ASSUME DbEventInit PROVE LifeInv
    OBVIOUS
  <2>1. ControlTyped
    <3>1. /\ enabled \in [Subs -> BOOLEAN] /\ user_sub \in [Subs -> BOOLEAN]
          /\ callBackInProgress \in [Subs -> BOOLEAN]
      BY DEF DbEventInit
    <3>2. 0 \in Slots
      BY QueueSize DEF Slots
    <3>3. /\ evque \in [Queues -> [Slots -> Subs \cup {"empty", "canceled"}]]
          /\ putix \in [Queues -> Slots] /\ getix \in [Queues -> Slots]
      BY <3>2 DEF DbEventInit
    <3>4. ev_que \in [Subs -> Queues \cup {NULL}] /\ npend \in [Subs -> Int]
          /\ rpc \in [Records -> {"idle", "changed", "posting", "signal"}]
          /\ todo \in [Records -> SUBSET Subs]
      BY DEF DbEventInit
    <3>5. /\ nque = 1 /\ eq = 1 /\ pflush_sem = FALSE /\ cpc = "idle" /\ cs = "none"
          /\ epc = "wait" /\ es = "none" /\ pSuicideEvent = "none"
      BY DEF DbEventInit
    <3> QED BY <3>1, <3>3, <3>4, <3>5, QueueNumbers DEF ControlTyped, Occupied, Entered
  <2> QED BY <2>1, DbEventAssumption DEF DbEventInit, LifeInv, ClientInv, SubInv, TodoInv,
             SelfPurgeInv, OwnerInv, FlushInv, InCallback, Occupied, Entered
<1>2. LifeInv /\ [DbEventNext]_eventVars => LifeInv'
  <2> SUFFICES ASSUME LifeInv, [DbEventNext]_eventVars PROVE LifeInv'
    OBVIOUS
  <2>1. ASSUME NEW r \in Records, Process(r) \/ ScanStep(r) PROVE LifeInv'
    BY <2>1, LifeProcess, LifePostEvents, LifePostOne, LifePostSignal, LifePostEnds DEF ScanStep
  <2>2. CASE ClientAsks
    BY <2>2, LifeAdd, LifeDisable, LifeFlow, LifeClose DEF ClientAsks
  <2>3. CASE ClientStep
    BY <2>3, LifeSingle, LifeSignals, LifeEnable, LifeCancel, LifeFlushWait, LifeFlushDone, LifeJoin
       DEF ClientStep
  <2>4. CASE TaskStep
    BY <2>4, LifeWakes, LifeRead, LifeSkip, LifeTake, LifeEmpty, LifeCallback, LifeSelfDisable,
       LifeSelfPurge, LifeReturns, LifeExits DEF TaskStep
  <2> QED BY <2>1, <2>2, <2>3, <2>4, LifeUnchanged DEF DbEventNext
<1> QED BY <1>1, <1>2, PTL DEF DbEventSpec

(***************************************************************************)
(* For any subscriptions, rings and requests: a subscription's block is    *)
(* not freed while the event task is in its callback, or a ring holds      *)
(* events of it (db_cancel_event).                                         *)
(***************************************************************************)
THEOREM EventNoUseAfterFree == DbEventSpec => []NoUseAfterFree
<1>1. LifeInv => NoUseAfterFree
  <2> SUFFICES ASSUME LifeInv PROVE NoUseAfterFree
    OBVIOUS
  <2>1. ASSUME epc \in {"callback", "called"}, pSuicideEvent # es PROVE ev_que[es] # NULL
    BY <2>1 DEF LifeInv, ControlTyped, SubInv, InCallback, Entered
  <2>2. \A q \in Queues, i \in Slots : evque[q][i] \in Subs => ev_que[evque[q][i]] = q
    BY DEF LifeInv, OwnerInv
  <2> QED BY <2>1, <2>2 DEF NoUseAfterFree
<1> QED BY <1>1, LifeAlways, PTL

(***************************************************************************)
(* A cancellation waits exactly as long as its subscription's callback     *)
(* runs, and no signal is left over for the next one (pflush_sem).         *)
(***************************************************************************)
THEOREM EventFlushSignalMatches == DbEventSpec => []FlushSignalMatches
<1>1. LifeInv => FlushSignalMatches
  <2> SUFFICES ASSUME LifeInv PROVE FlushSignalMatches
    OBVIOUS
  <2>1. CASE cpc # "flush"
    BY <2>1 DEF FlushSignalMatches, LifeInv, FlushInv
  <2>2. CASE cpc = "flush"
    <3>1. InCallback(cs) <=> epc \in {"callback", "called"} /\ es = cs
      BY <2>2 DEF LifeInv, ControlTyped, ClientInv, SelfPurgeInv, InCallback, Entered
    <3>2. pflush_sem \in BOOLEAN /\ (pflush_sem <=> ~InCallback(cs))
      BY <2>2 DEF LifeInv, ControlTyped, FlushInv
    <3> QED BY <2>2, <3>1, <3>2, Zenon DEF FlushSignalMatches
  <2> QED BY <2>1, <2>2
<1> QED BY <1>1, LifeAlways, PTL

-----------------------------------------------------------------------------
(***************************************************************************)
(* A ring f holds n events in a row: the oldest at g, the first free slot  *)
(* behind them at p.                                                       *)
(***************************************************************************)
AgeFrom(g, i) == IF i >= g THEN i - g ELSE i - g + EVENTQUESIZE

Advance(g, n) == IF g + n < EVENTQUESIZE THEN g + n ELSE g + n - EVENTQUESIZE

Holds(f, g, p, n) ==
  /\ n \in 0..EVENTQUESIZE
  /\ p = Advance(g, n)
  /\ \A i \in Slots : f[i] # "empty" <=> AgeFrom(g, i) < n

\* An event is added behind the row.
LEMMA RingAppend ==
  ASSUME NEW f, NEW h, NEW g \in Slots, NEW p \in Slots, NEW n, Holds(f, g, p, n),
         f[p] = "empty", h[p] # "empty", \A i \in Slots : i # p => h[i] = f[i]
  PROVE  /\ Holds(h, g, RNGINC(p), n + 1)
         /\ \A i \in Slots : AgeFrom(g, i) < n => AgeFrom(g, i) < AgeFrom(g, p)
<1>1. n \in Nat /\ n <= EVENTQUESIZE /\ p = Advance(g, n)
      /\ g \in Nat /\ g < EVENTQUESIZE /\ EVENTQUESIZE \in Nat \ {0} /\ p \in Nat
  BY QueueSize DEF Holds, Slots
<1>2. ~(AgeFrom(g, p) < n)
  BY DEF Holds
<1>3. n < EVENTQUESIZE /\ AgeFrom(g, p) = n
  BY <1>1, <1>2 DEF Advance, AgeFrom
<1>4. RNGINC(p) = Advance(g, n + 1)
  BY <1>1, <1>3 DEF RNGINC, Advance
<1>5. ASSUME NEW i \in Slots, i # p PROVE AgeFrom(g, i) < n + 1 <=> AgeFrom(g, i) < n
  <2>1. i \in Nat /\ i < EVENTQUESIZE
    BY <1>1 DEF Slots
  <2>2. AgeFrom(g, i) # n
    BY <1>1, <1>3, <1>5, <2>1 DEF AgeFrom, Advance
  <2> QED BY <1>1, <2>1, <2>2 DEF AgeFrom
<1>6. \A i \in Slots : h[i] # "empty" <=> AgeFrom(g, i) < n + 1
  <2> SUFFICES ASSUME NEW i \in Slots PROVE h[i] # "empty" <=> AgeFrom(g, i) < n + 1
    OBVIOUS
  <2>1. CASE i = p
    BY <1>1, <1>3, <2>1
  <2>2. CASE i # p
    BY <1>5, <2>2 DEF Holds
  <2> QED BY <2>1, <2>2
<1> QED BY <1>1, <1>3, <1>4, <1>6 DEF Holds

\* When the oldest event is taken, every other one gets nearer.
LEMMA AgeShift ==
  ASSUME NEW g \in Slots, NEW i \in Slots
  PROVE  /\ AgeFrom(g, i) \in Nat
         /\ AgeFrom(g, i) = 0 <=> i = g
         /\ i # g => AgeFrom(RNGINC(g), i) = AgeFrom(g, i) - 1
BY QueueSize DEF AgeFrom, RNGINC, Slots

\* The oldest event is taken off the row.
LEMMA RingTake ==
  ASSUME NEW f, NEW h, NEW g \in Slots, NEW p \in Slots, NEW n, Holds(f, g, p, n),
         f[g] # "empty", h[g] = "empty", \A i \in Slots : i # g => h[i] = f[i]
  PROVE  /\ Holds(h, RNGINC(g), p, n - 1)
         /\ \A i \in Slots : i # g => AgeFrom(RNGINC(g), i) = AgeFrom(g, i) - 1
<1>1. n \in Nat /\ n <= EVENTQUESIZE /\ p = Advance(g, n)
      /\ g \in Nat /\ g < EVENTQUESIZE /\ EVENTQUESIZE \in Nat \ {0} /\ p \in Nat
  BY QueueSize DEF Holds, Slots
<1>2. AgeFrom(g, g) < n /\ AgeFrom(g, g) = 0
  BY <1>1 DEF Holds, AgeFrom
<1>3. p = Advance(RNGINC(g), n - 1)
  BY <1>1, <1>2 DEF RNGINC, Advance
<1>4. ASSUME NEW i \in Slots, i # g PROVE AgeFrom(RNGINC(g), i) = AgeFrom(g, i) - 1
  BY <1>4, AgeShift
<1>5. AgeFrom(RNGINC(g), g) = EVENTQUESIZE - 1
  BY <1>1 DEF AgeFrom, RNGINC
<1>6. \A i \in Slots : h[i] # "empty" <=> AgeFrom(RNGINC(g), i) < n - 1
  <2> SUFFICES ASSUME NEW i \in Slots PROVE h[i] # "empty" <=> AgeFrom(RNGINC(g), i) < n - 1
    OBVIOUS
  <2>1. CASE i = g
    BY <1>1, <1>5, <2>1
  <2>2. CASE i # g
    <3>1. i \in Nat /\ AgeFrom(g, i) \in Int
      BY <1>1 DEF Slots, AgeFrom
    <3> QED BY <1>1, <1>4, <2>2, <3>1 DEF Holds
  <2> QED BY <2>1, <2>2
<1> QED BY <1>1, <1>2, <1>3, <1>4, <1>6 DEF Holds

\* The oldest slot is empty only if all are.
LEMMA RingEmpty ==
  ASSUME NEW f, NEW g \in Slots, NEW p, NEW n, Holds(f, g, p, n)
  PROVE  /\ f[g] = "empty" <=> n = 0
         /\ f[g] = "empty" => \A i \in Slots : f[i] = "empty"
         /\ f[p] = "empty" => (n = 0 <=> g = p)
<1>1. n \in Nat /\ n <= EVENTQUESIZE /\ p = Advance(g, n)
      /\ g \in Nat /\ g < EVENTQUESIZE /\ EVENTQUESIZE \in Nat \ {0}
  BY QueueSize DEF Holds, Slots
<1>2. AgeFrom(g, g) = 0 /\ (f[g] # "empty" <=> 0 < n)
  BY <1>1 DEF Holds, AgeFrom
<1>3. \A i \in Slots : AgeFrom(g, i) \in Nat
  BY <1>1 DEF AgeFrom, Slots
<1>4. n = 0 => \A i \in Slots : f[i] = "empty"
  BY <1>3 DEF Holds
<1>5. f[p] = "empty" => (n = 0 <=> g = p)
  BY <1>1, <1>2 DEF Advance
<1> QED BY <1>1, <1>2, <1>4, <1>5

-----------------------------------------------------------------------------
(***************************************************************************)
(* Every ring holds its events in a row; rings of queues that have not     *)
(* been created are empty, and no one uses them.                           *)
(***************************************************************************)
RingInv ==
  /\ eq <= nque
  /\ \A s \in Subs : ev_que[s] <= nque
  /\ \A q \in Queues : \E n : Holds(evque[q], getix[q], putix[q], n)
  /\ \A q \in Queues : q > nque => \A i \in Slots : evque[q][i] = "empty"

\* What posting does to the rings: an event replaces another, or is added
\* behind the last.
LEMMA AppendEffect ==
  ASSUME LifeInv, NEW s \in Subs, user_sub[s], ~Replaces(s), db_queue_event_log(s)
  PROVE  LET q == ev_que[s] IN
         /\ q \in Queues /\ q # NULL /\ putix[q] \in Slots
         /\ evque[q][putix[q]] = "empty" /\ evque'[q][putix[q]] = s
         /\ \A p \in Queues, j \in Slots : p # q \/ j # putix[q] => evque'[p][j] = evque[p][j]
         /\ putix'[q] = RNGINC(putix[q])
         /\ \A p \in Queues : p # q => putix'[p] = putix[p]
         /\ UNCHANGED <<getix, nCanceled, subVars, userVars>>
<1> DEFINE q == ev_que[s]
<1>0. /\ evque \in [Queues -> [Slots -> Subs \cup {"empty", "canceled"}]]
      /\ putix \in [Queues -> Slots] /\ s \in Subs \cup {"empty", "canceled"}
  BY DEF LifeInv, ControlTyped
<1>1. q \in Queues /\ q # NULL /\ putix[q] \in Slots
  BY <1>0 DEF LifeInv, ControlTyped, SubInv
<1>2. /\ evque[q][putix[q]] = "empty"
      /\ evque' = [evque EXCEPT ![q][putix[q]] = s]
      /\ putix' = [putix EXCEPT ![q] = RNGINC(@)]
      /\ UNCHANGED <<getix, nCanceled, subVars, userVars>>
  BY DEF db_queue_event_log, AppendEvent
<1> HIDE DEF q
<1>3. /\ evque'[q][putix[q]] = s
      /\ \A p \in Queues, j \in Slots : p # q \/ j # putix[q] => evque'[p][j] = evque[p][j]
  BY <1>0, <1>1, <1>2, SlotWritten
<1>4. putix'[q] = RNGINC(putix[q]) /\ \A p \in Queues : p # q => putix'[p] = putix[p]
  BY <1>0, <1>1, <1>2
<1>5. q = ev_que[s]
  BY DEF q
<1> QED BY <1>1, <1>2, <1>3, <1>4, <1>5

LEMMA ReplaceEffect ==
  ASSUME NEW s \in Subs, Replaces(s), db_queue_event_log(s)
  PROVE  UNCHANGED <<evque, putix, getix, nDuplicates, nCanceled, subVars, pendVars, userVars>>
BY DEF db_queue_event_log

LEMMA RingLog ==
  ASSUME LifeInv, RingInv, NEW s \in Subs, user_sub[s], db_queue_event_log(s),
         UNCHANGED eq
  PROVE  RingInv'
<1>1. CASE Replaces(s)
  BY <1>1, ReplaceEffect DEF RingInv, subVars
<1>2. CASE ~Replaces(s)
  <2> DEFINE q == ev_que[s]
  <2>1. /\ q \in Queues /\ q # NULL /\ putix[q] \in Slots
        /\ evque[q][putix[q]] = "empty" /\ evque'[q][putix[q]] = s
        /\ \A p \in Queues, j \in Slots : p # q \/ j # putix[q] => evque'[p][j] = evque[p][j]
        /\ putix'[q] = RNGINC(putix[q])
        /\ \A p \in Queues : p # q => putix'[p] = putix[p]
        /\ UNCHANGED <<getix, nCanceled, subVars, userVars>>
    BY <1>2, AppendEffect
  <2>2. q <= nque /\ UNCHANGED <<ev_que, nque>>
    BY <2>1 DEF RingInv, subVars
  <2> HIDE DEF q
  <2>3. getix[q] \in Slots /\ s # "empty"
    BY <2>1, DbEventAssumption DEF LifeInv, ControlTyped
  <2>4. PICK n : Holds(evque[q], getix[q], putix[q], n)
    BY <2>1 DEF RingInv
  <2>5. Holds(evque'[q], getix'[q], putix'[q], n + 1)
    <3>1. /\ evque'[q][putix[q]] # "empty"
          /\ \A i \in Slots : i # putix[q] => evque'[q][i] = evque[q][i]
      BY <2>1, <2>3
    <3> DEFINE f == evque[q]
               h == evque'[q]
               g == getix[q]
               p == putix[q]
    <3>2. /\ g \in Slots /\ p \in Slots /\ Holds(f, g, p, n) /\ f[p] = "empty" /\ h[p] # "empty"
          /\ \A i \in Slots : i # p => h[i] = f[i]
      BY <2>1, <2>3, <2>4, <3>1
    <3> HIDE DEF f, h, g, p
    <3>3. Holds(h, g, RNGINC(p), n + 1)
      BY <3>2, RingAppend
    <3> QED BY <2>1, <3>3 DEF f, h, g, p
  <2>6. ASSUME NEW p \in Queues, p # q, NEW m, Holds(evque[p], getix[p], putix[p], m)
        PROVE  Holds(evque'[p], getix'[p], putix'[p], m)
    BY <2>1, <2>6 DEF Holds
  <2>7. \A p \in Queues : \E m : Holds(evque'[p], getix'[p], putix'[p], m)
    BY <2>5, <2>6 DEF RingInv
  <2>8. \A p \in Queues : p > nque => p # q
    BY <2>1, <2>2, QueueNumbers DEF LifeInv, ControlTyped
  <2> QED BY <2>1, <2>2, <2>7, <2>8 DEF RingInv
<1> QED BY <1>1, <1>2

LEMMA RingDrain ==
  ASSUME LifeInv, RingInv, evque[eq][getix[eq]] # "empty",
         evque' = [evque EXCEPT ![eq][getix[eq]] = "empty"],
         getix' = [getix EXCEPT ![eq] = RNGINC(@)],
         UNCHANGED <<eq, putix, ev_que, nque>>
  PROVE  RingInv'
<1>0. /\ evque \in [Queues -> [Slots -> Subs \cup {"empty", "canceled"}]]
      /\ getix \in [Queues -> Slots] /\ putix \in [Queues -> Slots] /\ eq \in Queues
  BY DEF LifeInv, ControlTyped
<1>1. /\ evque'[eq][getix[eq]] = "empty"
      /\ \A p \in Queues, j \in Slots : p # eq \/ j # getix[eq] => evque'[p][j] = evque[p][j]
  BY <1>0, SlotWritten
<1>2. getix'[eq] = RNGINC(getix[eq]) /\ \A p \in Queues : p # eq => getix'[p] = getix[p]
  BY <1>0
<1>3. PICK n : Holds(evque[eq], getix[eq], putix[eq], n)
  BY <1>0 DEF RingInv
<1>4. Holds(evque'[eq], getix'[eq], putix'[eq], n - 1)
  <2> DEFINE f == evque[eq]
             h == evque'[eq]
             g == getix[eq]
             p == putix[eq]
  <2>1. /\ g \in Slots /\ p \in Slots /\ Holds(f, g, p, n) /\ f[g] # "empty" /\ h[g] = "empty"
        /\ \A i \in Slots : i # g => h[i] = f[i]
    BY <1>0, <1>1, <1>3
  <2> HIDE DEF f, h, g, p
  <2>2. Holds(h, RNGINC(g), p, n - 1)
    BY <2>1, RingTake
  <2> QED BY <1>2, <2>2 DEF f, h, g, p
<1>5. ASSUME NEW p \in Queues, p # eq, NEW m, Holds(evque[p], getix[p], putix[p], m)
      PROVE  Holds(evque'[p], getix'[p], putix'[p], m)
  BY <1>1, <1>2, <1>5 DEF Holds
<1>6. \A p \in Queues : \E m : Holds(evque'[p], getix'[p], putix'[p], m)
  BY <1>4, <1>5 DEF RingInv
<1>7. \A p \in Queues, i \in Slots : evque'[p][i] \in {evque[p][i], "empty"}
  BY <1>1
<1> QED BY <1>6, <1>7 DEF RingInv

LEMMA RingPurge ==
  ASSUME LifeInv, RingInv, NEW s \in Subs, ev_que[s] # NULL, Purge(s), UNCHANGED <<eq, nque>>,
         \A t \in Subs : ev_que'[t] \in {ev_que[t], NULL}
  PROVE  RingInv'
<1>1. /\ \A q \in Queues, i \in Slots :
           evque'[q][i] = IF evque[q][i] = s THEN "canceled" ELSE evque[q][i]
      /\ UNCHANGED <<putix, getix>>
  BY PurgeEffect
<1>2. \A q \in Queues, i \in Slots : evque'[q][i] # "empty" <=> evque[q][i] # "empty"
  BY <1>1, DbEventAssumption
<1>3. \A q \in Queues : \A n :
        Holds(evque[q], getix[q], putix[q], n) => Holds(evque'[q], getix'[q], putix'[q], n)
  BY <1>1, <1>2 DEF Holds
<1>4. nque \in Nat
  BY QueueNumbers DEF LifeInv, ControlTyped
<1>5. \A t \in Subs : ev_que'[t] <= nque
  BY <1>4 DEF RingInv, NULL
<1> QED BY <1>2, <1>3, <1>5 DEF RingInv

LEMMA RingSame ==
  ASSUME RingInv, UNCHANGED <<evque, putix, getix, nque, ev_que>>, eq' <= nque
  PROVE  RingInv'
BY DEF RingInv

LEMMA RingAdd ==
  ASSUME LifeInv, RingInv, NEW s \in Subs, db_add_event(s)
  PROVE  RingInv'
<1>1. PICK q \in Queues : /\ nque' = (IF q > nque THEN q ELSE nque)
                          /\ ev_que' = [ev_que EXCEPT ![s] = q]
  BY DEF db_add_event
<1>2. UNCHANGED <<evque, putix, getix, eq>>
  BY DEF db_add_event, ringVars, taskVars
<1>3. /\ nque \in Nat /\ eq \in Nat /\ q \in Nat /\ Queues \subseteq Nat
      /\ ev_que \in [Subs -> Queues \cup {NULL}]
  BY QueueNumbers DEF LifeInv, ControlTyped
<1>4. \A t \in Subs : ev_que'[t] <= nque'
  <2>1. ev_que'[s] = q /\ \A t \in Subs : t # s => ev_que'[t] = ev_que[t]
    BY <1>1, <1>3
  <2>2. \A t \in Subs : ev_que[t] \in Int /\ ev_que[t] <= nque
    <3>1. \A t \in Subs : ev_que[t] \in Queues \/ ev_que[t] = NULL
      BY <1>3
    <3>2. NULL \in Int
      BY DEF NULL
    <3>3. \A t \in Subs : ev_que[t] <= nque
      BY DEF RingInv
    <3>4. \A t \in Subs : ev_que[t] \in Int
      <4>1. Queues \subseteq Int
        BY <1>3
      <4> QED BY <3>1, <3>2, <4>1, Zenon
    <3> QED BY <3>3, <3>4, Zenon
  <2>3. nque' \in Nat /\ q <= nque' /\ nque <= nque'
    BY <1>1, <1>3
  <2> QED BY <1>3, <2>1, <2>2, <2>3
<1>5. eq' <= nque' /\ \A p \in Queues : p > nque' => p > nque
  BY <1>1, <1>2, <1>3 DEF RingInv
<1> QED BY <1>2, <1>4, <1>5 DEF RingInv

\* RingInv, step by step.
LEMMA RingScan ==
  ASSUME LifeInv, RingInv, NEW r \in Records, Process(r) \/ ScanStep(r)
  PROVE  RingInv'
<1>1. CASE Process(r) \/ db_post_events(r) \/ PostSignal(r) \/ PostEnds(r)
  <2>1. UNCHANGED <<evque, putix, getix, nque, ev_que, eq>>
    BY <1>1 DEF Process, db_post_events, PostSignal, PostEnds, ringVars, subVars, taskVars
  <2> QED BY <2>1, RingSame DEF RingInv
<1>2. ASSUME NEW s \in Subs, PostOne(r, s) PROVE RingInv'
  <2>1. user_sub[s] /\ db_queue_event_log(s) /\ UNCHANGED eq
    BY <1>2 DEF PostOne, taskVars, LifeInv, TodoInv, SubInv
  <2> QED BY <2>1, RingLog
<1> QED BY <1>1, <1>2 DEF ScanStep

LEMMA RingClient ==
  ASSUME LifeInv, RingInv, ClientAsks \/ ClientStep
  PROVE  RingInv'
<1>1. CASE \/ \E s \in Subs : db_event_disable(s)
           \/ \E on \in BOOLEAN : flow_ctrl_mode(on)
           \/ db_close_events \/ ClientSignals \/ db_event_enable \/ FlushWait \/ Join
  <2>1. UNCHANGED <<evque, putix, getix, nque, ev_que, eq>>
    BY <1>1 DEF db_event_disable, flow_ctrl_mode, db_close_events, ClientSignals, db_event_enable,
                FlushWait, Join, ringVars, subVars, taskVars
  <2> QED BY <2>1, RingSame DEF RingInv
<1>2. CASE db_post_single_event
  <2>1. /\ cs \in Subs /\ user_sub[cs] /\ db_queue_event_log(cs) /\ UNCHANGED eq
    BY <1>2 DEF db_post_single_event, taskVars, LifeInv, ControlTyped, ClientInv, SubInv, Occupied
  <2> QED BY <2>1, RingLog
<1>3. CASE db_cancel_event
  <2>1. /\ cs \in Subs /\ ev_que[cs] # NULL /\ Purge(cs)
        /\ UNCHANGED <<eq, nque>>
        /\ ev_que' \in {ev_que, [ev_que EXCEPT ![cs] = NULL]}
    BY <1>3 DEF db_cancel_event, Free, taskVars, LifeInv, ControlTyped, ClientInv, Occupied
  <2>2. \A t \in Subs : ev_que'[t] \in {ev_que[t], NULL}
    BY <2>1 DEF LifeInv, ControlTyped
  <2> QED BY <2>1, <2>2, RingPurge
<1>4. CASE FlushDone
  <2>1. /\ UNCHANGED <<evque, putix, getix, nque, eq>>
        /\ ev_que' \in {ev_que, [ev_que EXCEPT ![cs] = NULL]}
    BY <1>4 DEF FlushDone, Free, ringVars, taskVars
  <2>2. \A t \in Subs : ev_que'[t] \in {ev_que[t], NULL}
    BY <2>1 DEF LifeInv, ControlTyped
  <2>3. nque \in Nat
    BY QueueNumbers DEF LifeInv, ControlTyped
  <2>4. \A t \in Subs : ev_que'[t] <= nque
    BY <2>2, <2>3 DEF RingInv, NULL
  <2> QED BY <2>1, <2>4 DEF RingInv
<1> QED BY <1>1, <1>2, <1>3, <1>4, RingAdd DEF ClientAsks, ClientStep

LEMMA RingTask ==
  ASSUME LifeInv, RingInv, TaskStep
  PROVE  RingInv'
<1>0. nque \in Nat \ {0} /\ eq \in Nat
  BY QueueNumbers DEF LifeInv, ControlTyped
<1>1. CASE \/ event_task_wakes \/ event_read \/ QueueEmpty \/ Callback \/ SelfDisable
           \/ CallbackReturns \/ event_task_exits
  <2>1. UNCHANGED <<evque, putix, getix, nque, ev_que>>
    BY <1>1 DEF event_task_wakes, event_read, QueueEmpty, Callback, SelfDisable, CallbackReturns,
                event_task_exits, ringVars, subVars
  <2>2. eq' = 1 \/ eq' = eq \/ (eq < nque /\ eq' = eq + 1)
    BY <1>1 DEF event_task_wakes, event_read, QueueEmpty, Callback, SelfDisable, CallbackReturns,
                event_task_exits, NextQueue, TaskAt
  <2>3. eq' <= nque
    BY <1>0, <2>2 DEF RingInv
  <2> QED BY <2>1, <2>3, RingSame
<1>2. CASE SkipCanceled \/ TakeEvent
  <2>1. /\ evque[eq][getix[eq]] # "empty"
        /\ evque' = [evque EXCEPT ![eq][getix[eq]] = "empty"]
        /\ getix' = [getix EXCEPT ![eq] = RNGINC(@)]
        /\ UNCHANGED <<eq, putix, ev_que, nque>>
    BY <1>2, DbEventAssumption DEF SkipCanceled, TakeEvent, Oldest, TaskAt, subVars, taskVars
  <2> QED BY <2>1, RingDrain
<1>3. CASE SelfPurge
  <2>1. /\ es \in Subs /\ ev_que[es] # NULL /\ Purge(es)
        /\ UNCHANGED <<eq, nque>>
        /\ ev_que' = [ev_que EXCEPT ![es] = NULL]
    BY <1>3 DEF SelfPurge, Free, TaskAt, LifeInv, ControlTyped, SelfPurgeInv, SubInv, Entered
  <2>2. \A t \in Subs : ev_que'[t] \in {ev_que[t], NULL}
    BY <2>1 DEF LifeInv, ControlTyped
  <2> QED BY <2>1, <2>2, RingPurge
<1> QED BY <1>1, <1>2, <1>3 DEF TaskStep

LEMMA RingAlways == DbEventSpec => [](LifeInv /\ RingInv)
<1>1. DbEventInit => RingInv
  <2> SUFFICES ASSUME DbEventInit PROVE RingInv
    OBVIOUS
  <2>1. \A q \in Queues : Holds(evque[q], getix[q], putix[q], 0)
    <3>1. \A i \in Slots : AgeFrom(0, i) \in Nat
      BY QueueSize DEF AgeFrom, Slots
    <3> QED BY <3>1, QueueSize DEF DbEventInit, Holds, Advance
  <2> QED BY <2>1 DEF DbEventInit, RingInv, NULL
<1>2. LifeInv /\ RingInv /\ [DbEventNext]_eventVars => RingInv'
  <2>1. LifeInv /\ RingInv /\ UNCHANGED eventVars => RingInv'
    BY DEF RingInv, eventVars, ringVars, subVars, taskVars
  <2> QED BY <2>1, RingScan, RingClient, RingTask DEF DbEventNext
<1> QED BY <1>1, <1>2, LifeAlways, PTL DEF DbEventSpec

-----------------------------------------------------------------------------
(***************************************************************************)
(* NoLostWakeup, strengthened: what counts is that the ring is not empty,  *)
(* because the event task is not woken for an event that is added behind   *)
(* canceled ones.                                                          *)
(***************************************************************************)
NotEmpty(q) == \E i \in Slots : evque[q][i] # "empty"

Waiting(q) == NotEmpty(q) /\ (~flowCtrlMode \/ nDuplicates[q] > 0)

WakeInv ==
  /\ nDuplicates \in [Queues -> Int]
  /\ \A q \in Queues : Waiting(q) => WakeupUnderWay \/ (epc # "wait" /\ eq <= q)

\* Nothing new waits, and the event task does not pass a ring.
LEMMA WakeKeeps ==
  ASSUME WakeInv, nDuplicates' \in [Queues -> Int],
         \A q \in Queues : Waiting(q)' => Waiting(q),
         WakeupUnderWay => WakeupUnderWay',
         epc # "wait" => epc' # "wait" /\ eq' = eq
  PROVE  WakeInv'
BY DEF WakeInv

\* The ring, the flags and the wakeups are left alone.
LEMMA WakeSame ==
  ASSUME WakeInv, UNCHANGED <<evque, flowCtrlMode, nDuplicates>>,
         WakeupUnderWay => WakeupUnderWay',
         epc # "wait" => epc' # "wait" /\ eq' = eq
  PROVE  WakeInv'
<1>1. \A q \in Queues : Waiting(q)' => Waiting(q)
  BY DEF Waiting, NotEmpty
<1> QED BY <1>1, WakeKeeps DEF WakeInv

\* The first event of an empty ring wakes the event task.
LEMMA FirstEventOfEmpty ==
  ASSUME LifeInv, RingInv, NEW s \in Subs, user_sub[s], ~Replaces(s), db_queue_event_log(s)
  PROVE  FirstEvent(s) \/ NotEmpty(ev_que[s])
<1> DEFINE q == ev_que[s]
<1>1. /\ q \in Queues /\ putix[q] \in Slots /\ evque[q][putix[q]] = "empty"
  BY AppendEffect
<1>2. getix[q] \in Slots
  BY <1>1 DEF LifeInv, ControlTyped
<1>3. PICK n : Holds(evque[q], getix[q], putix[q], n)
  BY <1>1 DEF RingInv
<1>4. CASE getix[q] = putix[q]
  <2>1. ringSpace(q) = EVENTQUESIZE
    BY <1>1, <1>4, QueueSize DEF ringSpace, Slots
  <2> QED BY <2>1 DEF FirstEvent
<1>5. CASE getix[q] # putix[q]
  <2>1. evque[q][getix[q]] # "empty"
    BY <1>1, <1>2, <1>3, <1>5, RingEmpty
  <2> QED BY <1>2, <2>1 DEF NotEmpty
<1> QED BY <1>4, <1>5

LEMMA WakeLog ==
  ASSUME LifeInv, RingInv, WakeInv, NEW s \in Subs, user_sub[s], db_queue_event_log(s),
         UNCHANGED <<epc, eq>>, WakeupUnderWay => WakeupUnderWay',
         FirstEvent(s) => WakeupUnderWay'
  PROVE  WakeInv'
<1>1. CASE Replaces(s)
  <2>1. UNCHANGED <<evque, flowCtrlMode, nDuplicates>>
    BY <1>1, ReplaceEffect DEF userVars
  <2> QED BY <2>1, WakeSame
<1>2. CASE ~Replaces(s)
  <2> DEFINE q == ev_que[s]
  <2>1. /\ q \in Queues
        /\ \A p \in Queues, j \in Slots : p # q => evque'[p][j] = evque[p][j]
        /\ UNCHANGED <<flowCtrlMode>>
    BY <1>2, AppendEffect DEF userVars
  <2>2. nDuplicates' = [nDuplicates EXCEPT ![q] = IF npend[s] > 0 THEN @ + 1 ELSE @]
    BY <1>2 DEF db_queue_event_log, AppendEvent
  <2>3. flowCtrlMode => ~(npend[s] > 0)
    BY <1>2 DEF Replaces
  <2>4. FirstEvent(s) \/ NotEmpty(q)
    BY <1>2, FirstEventOfEmpty
  <2> HIDE DEF q
  <2>5. /\ nDuplicates' \in [Queues -> Int]
        /\ \A p \in Queues : flowCtrlMode \/ p # q => nDuplicates'[p] = nDuplicates[p]
    BY <2>1, <2>2, <2>3 DEF WakeInv
  <2>6. CASE FirstEvent(s)
    BY <2>5, <2>6 DEF WakeInv
  <2>7. CASE NotEmpty(q)
    <3>1. ASSUME NEW p \in Queues, Waiting(p)' PROVE Waiting(p)
      <4>1. NotEmpty(p)
        BY <2>1, <2>7, <3>1 DEF Waiting, NotEmpty
      <4>2. ~flowCtrlMode \/ nDuplicates[p] > 0
        BY <2>1, <2>5, <3>1 DEF Waiting
      <4> QED BY <4>1, <4>2 DEF Waiting
    <3> QED BY <2>5, <3>1, WakeKeeps
  <2> QED BY <2>4, <2>6, <2>7
<1> QED BY <1>1, <1>2

LEMMA SlotsFinite ==
  IsFiniteSet(Slots) /\ \A T : T \subseteq Slots => IsFiniteSet(T) /\ Cardinality(T) \in Nat
<1>1. IsFiniteSet(Slots)
  BY QueueSize, FS_Interval DEF Slots
<1>2. ASSUME NEW T, T \subseteq Slots PROVE IsFiniteSet(T) /\ Cardinality(T) \in Nat
  BY <1>1, <1>2, FS_Subset, FS_CardinalityType
<1> QED BY <1>1, <1>2

LEMMA MaxWithZero ==
  ASSUME NEW x \in Int
  PROVE  Max({x, 0}) = IF x > 0 THEN x ELSE 0
<1>1. \E y \in {x, 0} : \A z \in {x, 0} : y >= z
  OBVIOUS
<1>2. /\ Max({x, 0}) \in {x, 0} /\ \A z \in {x, 0} : Max({x, 0}) >= z
  BY <1>1 DEF Max
<1> QED BY <1>2

LEMMA WakePurge ==
  ASSUME LifeInv, WakeInv, NEW s \in Subs, ev_que[s] # NULL, Purge(s), UNCHANGED flowCtrlMode,
         WakeupUnderWay => WakeupUnderWay',
         epc # "wait" => epc' # "wait" /\ eq' = eq
  PROVE  WakeInv'
<1> DEFINE q == ev_que[s]
           mine == {j \in Slots : evque[q][j] = s}
           d == Max({Cardinality(mine) - 1, 0})
<1>1. q \in Queues
  BY DEF LifeInv, ControlTyped
<1>2. nDuplicates' = [nDuplicates EXCEPT ![q] = @ - d]
  BY PurgeIs
<1>3. d \in Nat
  <2>1. Cardinality(mine) - 1 \in Int
    BY SlotsFinite
  <2> HIDE DEF mine
  <2> QED BY <2>1, MaxWithZero
<1> HIDE DEF d, q
<1>4. /\ nDuplicates' \in [Queues -> Int]
      /\ \A p \in Queues : nDuplicates'[p] <= nDuplicates[p]
  BY <1>1, <1>2, <1>3 DEF WakeInv
<1>5. \A p \in Queues, i \in Slots : evque'[p][i] # "empty" => evque[p][i] # "empty"
  <2>1. \A p \in Queues, i \in Slots :
          evque'[p][i] = IF evque[p][i] = s THEN "canceled" ELSE evque[p][i]
    BY PurgeEffect
  <2> QED BY <2>1, DbEventAssumption
<1>6. ASSUME NEW p \in Queues, Waiting(p)' PROVE Waiting(p)
  <2>1. nDuplicates[p] \in Int /\ nDuplicates'[p] \in Int
    BY <1>4 DEF WakeInv
  <2> QED BY <1>4, <1>5, <1>6, <2>1 DEF Waiting, NotEmpty
<1> QED BY <1>4, <1>6, WakeKeeps

LEMMA WakeScan ==
  ASSUME LifeInv, RingInv, WakeInv, NEW r \in Records, Process(r) \/ ScanStep(r)
  PROVE  WakeInv'
<1>0. rpc \in [Records -> {"idle", "changed", "posting", "signal"}]
  BY DEF LifeInv, ControlTyped
<1>1. CASE Process(r) \/ db_post_events(r) \/ PostSignal(r) \/ PostEnds(r)
  <2>1. UNCHANGED <<evque, flowCtrlMode, nDuplicates, epc, eq, cpc>>
    BY <1>1 DEF Process, db_post_events, PostSignal, PostEnds, ringVars, userVars, taskVars
  <2>2. \/ UNCHANGED ppendsem /\ rpc[r] # "signal" /\ \E pc : rpc' = [rpc EXCEPT ![r] = pc]
        \/ ppendsem'
    BY <1>1 DEF Process, ScanLockFree, db_post_events, PostSignal, PostEnds, semVars
  <2>3. WakeupUnderWay => WakeupUnderWay'
    BY <1>0, <2>1, <2>2 DEF WakeupUnderWay
  <2> QED BY <2>1, <2>3, WakeSame
<1>2. ASSUME NEW s \in Subs, PostOne(r, s) PROVE WakeInv'
  <2>1. user_sub[s] /\ db_queue_event_log(s) /\ UNCHANGED <<epc, eq, cpc, ppendsem>>
    BY <1>2 DEF PostOne, taskVars, semVars, LifeInv, TodoInv, SubInv
  <2>2. rpc[r] = "posting" /\ rpc' = [rpc EXCEPT ![r] = IF FirstEvent(s) THEN "signal" ELSE @]
    BY <1>2 DEF PostOne
  <2>3. /\ \A t \in Records : t # r => rpc'[t] = rpc[t]
        /\ FirstEvent(s) => rpc'[r] = "signal"
    BY <1>0, <2>2
  <2>4. /\ WakeupUnderWay => WakeupUnderWay'
        /\ FirstEvent(s) => WakeupUnderWay'
    BY <2>1, <2>2, <2>3 DEF WakeupUnderWay
  <2> QED BY <2>1, <2>4, WakeLog
<1> QED BY <1>1, <1>2 DEF ScanStep

LEMMA WakeClient ==
  ASSUME LifeInv, RingInv, WakeInv, ClientAsks \/ ClientStep
  PROVE  WakeInv'
<1>1. CASE \/ \E s \in Subs : db_add_event(s) \/ db_event_disable(s)
           \/ db_close_events \/ db_event_enable \/ FlushWait \/ FlushDone \/ Join
  <2>1. /\ UNCHANGED <<evque, flowCtrlMode, nDuplicates, epc, eq, ppendsem, rpc>>
        /\ cpc \notin {"post_signal", "flow_signal"}
    BY <1>1 DEF db_add_event, db_event_disable, db_close_events, db_event_enable,
                FlushWait, FlushDone, Join, ringVars, userVars, taskVars, semVars
  <2>2. WakeupUnderWay => WakeupUnderWay'
    BY <2>1 DEF WakeupUnderWay
  <2> QED BY <2>1, <2>2, WakeSame
<1>2. CASE ClientSignals
  <2>1. UNCHANGED <<evque, flowCtrlMode, nDuplicates, epc, eq>> /\ ppendsem'
    BY <1>2 DEF ClientSignals, ringVars, userVars, taskVars
  <2> QED BY <2>1, WakeSame DEF WakeupUnderWay
<1>3. ASSUME NEW on \in BOOLEAN, flow_ctrl_mode(on) PROVE WakeInv'
  <2>1. cpc' = "flow_signal" /\ UNCHANGED nDuplicates
    BY <1>3 DEF flow_ctrl_mode, ClientAt, ringVars
  <2> QED BY <2>1 DEF WakeInv, WakeupUnderWay
<1>4. CASE db_post_single_event
  <2>1. /\ cs \in Subs /\ user_sub[cs] /\ db_queue_event_log(cs) /\ UNCHANGED <<epc, eq, ppendsem, rpc>>
        /\ cpc = "post" /\ (FirstEvent(cs) => cpc' = "post_signal")
    BY <1>4 DEF db_post_single_event, ClientAt, taskVars, semVars, LifeInv, ControlTyped, ClientInv,
                SubInv, Occupied
  <2>2. /\ WakeupUnderWay => WakeupUnderWay'
        /\ FirstEvent(cs) => WakeupUnderWay'
    BY <2>1 DEF WakeupUnderWay
  <2> QED BY <2>1, <2>2, WakeLog
<1>5. CASE db_cancel_event
  <2>1. /\ cs \in Subs /\ ev_que[cs] # NULL /\ Purge(cs) /\ cpc = "purge"
        /\ UNCHANGED <<flowCtrlMode, epc, eq, ppendsem, rpc>>
    BY <1>5 DEF db_cancel_event, userVars, semVars, taskVars, LifeInv, ControlTyped, ClientInv,
                Occupied
  <2>2. WakeupUnderWay => WakeupUnderWay'
    BY <2>1 DEF WakeupUnderWay
  <2> QED BY <2>1, <2>2, WakePurge
<1> QED BY <1>1, <1>2, <1>3, <1>4, <1>5 DEF ClientAsks, ClientStep

\* Going on to the next ring leaves one behind that has nothing to take.
LEMMA WakeNextQueue ==
  ASSUME LifeInv, RingInv, WakeInv, NextQueue, ~Waiting(eq), epc # "wait",
         UNCHANGED <<evque, flowCtrlMode, nDuplicates, ppendsem, cpc, rpc, nque>>
  PROVE  WakeInv'
<1>1. eq \in Nat /\ nque \in Nat /\ eq <= nque /\ Queues \subseteq Nat
  BY QueueNumbers DEF LifeInv, ControlTyped, RingInv
<1>2. /\ WakeupUnderWay => WakeupUnderWay'
      /\ \A q \in Queues : Waiting(q)' => Waiting(q)
  BY DEF WakeupUnderWay, Waiting, NotEmpty
<1>3. \A q \in Queues : Waiting(q) => q <= nque /\ q # eq
  <2>1. \A q \in Queues : NotEmpty(q) => ~(q > nque)
    BY DEF RingInv, NotEmpty
  <2>2. \A q \in Queues : Waiting(q) => NotEmpty(q) /\ q # eq
    BY DEF Waiting
  <2> HIDE DEF NotEmpty
  <2> QED BY <1>1, <2>1, <2>2
<1>4. CASE eq < nque
  <2>1. epc' = "read" /\ eq' = eq + 1
    BY <1>4 DEF NextQueue, TaskAt
  <2> QED BY <1>1, <1>2, <1>3, <2>1 DEF WakeInv
<1>5. CASE ~(eq < nque)
  <2>1. \A q \in Queues : Waiting(q) => WakeupUnderWay
    BY <1>1, <1>3, <1>5 DEF WakeInv
  <2> QED BY <1>2, <2>1 DEF WakeInv
<1> QED BY <1>4, <1>5

LEMMA WakeTask ==
  ASSUME LifeInv, RingInv, WakeInv, TaskStep
  PROVE  WakeInv'
<1>0. Queues \subseteq Nat \ {0} /\ eq \in Queues
  BY QueueNumbers DEF LifeInv, ControlTyped
<1>1. CASE Callback \/ SelfDisable \/ CallbackReturns
  <2>1. /\ UNCHANGED <<evque, flowCtrlMode, nDuplicates, eq, ppendsem, cpc, rpc>>
        /\ epc' # "wait"
    BY <1>1 DEF Callback, SelfDisable, CallbackReturns, TaskAt, ringVars, userVars, semVars
  <2> QED BY <2>1, WakeSame DEF WakeupUnderWay
<1>2. CASE event_task_wakes \/ event_task_exits
  <2>1. epc' # "wait" /\ eq' = 1 /\ UNCHANGED nDuplicates
    BY <1>2 DEF event_task_wakes, event_task_exits, TaskAt, ringVars
  <2> QED BY <1>0, <2>1 DEF WakeInv
<1>3. CASE event_read
  <2>1. UNCHANGED <<evque, flowCtrlMode, nDuplicates, ppendsem, cpc, rpc, nque>> /\ epc = "read"
    BY <1>3 DEF event_read, ringVars, subVars, userVars, semVars
  <2>2. CASE flowCtrlMode /\ nDuplicates[eq] = 0
    <3>1. NextQueue /\ ~Waiting(eq)
      BY <1>3, <2>2 DEF event_read, Waiting
    <3> QED BY <2>1, <3>1, WakeNextQueue
  <2>3. CASE ~(flowCtrlMode /\ nDuplicates[eq] = 0)
    <3>1. epc' # "wait" /\ eq' = eq
      BY <1>3, <2>3 DEF event_read, TaskAt
    <3> QED BY <2>1, <3>1, WakeSame DEF WakeupUnderWay
  <2> QED BY <2>2, <2>3
<1>4. CASE QueueEmpty
  <2>1. /\ UNCHANGED <<evque, flowCtrlMode, nDuplicates, ppendsem, cpc, rpc, nque>>
        /\ epc = "drain" /\ NextQueue /\ evque[eq][getix[eq]] = "empty"
    BY <1>4 DEF QueueEmpty, Oldest, ringVars, subVars, userVars, semVars
  <2>2. PICK n : Holds(evque[eq], getix[eq], putix[eq], n)
    BY <1>0 DEF RingInv
  <2>3. getix[eq] \in Slots
    BY <1>0 DEF LifeInv, ControlTyped
  <2>4. ~Waiting(eq)
    BY <2>1, <2>2, <2>3, RingEmpty DEF Waiting, NotEmpty
  <2> QED BY <2>1, <2>4, WakeNextQueue
<1>5. CASE SkipCanceled \/ TakeEvent
  <2>1. /\ evque' = [evque EXCEPT ![eq][getix[eq]] = "empty"]
        /\ UNCHANGED <<flowCtrlMode, ppendsem, cpc, rpc, eq>> /\ epc = "drain" /\ epc' # "wait"
    BY <1>5 DEF SkipCanceled, TakeEvent, TaskAt, userVars, semVars, taskVars
  <2>2. \E v \in {nDuplicates[eq], nDuplicates[eq] - 1} :
           nDuplicates' = [nDuplicates EXCEPT ![eq] = v]
    <3>1. CASE SkipCanceled
      BY <1>0, <3>1 DEF SkipCanceled, WakeInv
    <3>2. CASE TakeEvent
      <4> DEFINE v == IF npend[Oldest] = 1 THEN nDuplicates[eq] ELSE nDuplicates[eq] - 1
      <4>1. nDuplicates' = [nDuplicates EXCEPT ![eq] = v]
        BY <3>2 DEF TakeEvent
      <4> QED BY <4>1
    <3> QED BY <1>5, <3>1, <3>2
  <2>3. /\ nDuplicates' \in [Queues -> Int]
        /\ \A p \in Queues : nDuplicates[p] \in Int /\ nDuplicates'[p] <= nDuplicates[p]
    BY <1>0, <2>2 DEF WakeInv
  <2>4. \A p \in Queues, i \in Slots : evque'[p][i] # "empty" => evque[p][i] # "empty"
    <3>1. /\ evque \in [Queues -> [Slots -> Subs \cup {"empty", "canceled"}]]
          /\ getix[eq] \in Slots
      BY <1>0 DEF LifeInv, ControlTyped
    <3> QED BY <1>0, <2>1, <3>1, SlotWritten
  <2>5. ASSUME NEW p \in Queues, Waiting(p)' PROVE Waiting(p)
    <3>1. nDuplicates'[p] \in Int
      BY <2>3
    <3> QED BY <2>1, <2>3, <2>4, <2>5, <3>1 DEF Waiting, NotEmpty
  <2> QED BY <2>1, <2>3, <2>5, WakeKeeps DEF WakeupUnderWay
<1>6. CASE SelfPurge
  <2>1. /\ es \in Subs /\ ev_que[es] # NULL /\ Purge(es)
        /\ UNCHANGED <<flowCtrlMode, eq, ppendsem, cpc, rpc>> /\ epc' # "wait"
    BY <1>6 DEF SelfPurge, TaskAt, userVars, semVars, LifeInv, ControlTyped, SelfPurgeInv, SubInv,
                Entered
  <2> QED BY <2>1, WakePurge DEF WakeupUnderWay
<1> QED BY <1>1, <1>2, <1>3, <1>4, <1>5, <1>6 DEF TaskStep

LEMMA WakeAlways == DbEventSpec => []WakeInv
<1>1. DbEventInit => WakeInv
  BY DEF DbEventInit, WakeInv, Waiting, NotEmpty
<1>2. (LifeInv /\ RingInv) /\ WakeInv /\ [DbEventNext]_eventVars => WakeInv'
  <2>1. WakeInv /\ UNCHANGED eventVars => WakeInv'
    BY WakeSame DEF eventVars, ringVars, userVars, semVars, taskVars, WakeupUnderWay
  <2> QED BY <2>1, WakeScan, WakeClient, WakeTask DEF DbEventNext
<1> QED BY <1>1, <1>2, RingAlways, PTL DEF DbEventSpec

(***************************************************************************)
(* For any subscriptions, rings and requests, no wakeup is lost: while a   *)
(* ring holds an event that may be taken, the event task has still to look *)
(* at this ring, or is woken or about to be (firstEventFlag in             *)
(* db_queue_event_log, nDuplicates in event_read).                         *)
(***************************************************************************)
THEOREM EventNoLostWakeup == DbEventSpec => []NoLostWakeup
<1>1. WakeInv => NoLostWakeup
  BY DbEventAssumption DEF NoLostWakeup, MayBeTaken, WakeInv, Waiting, NotEmpty
<1> QED BY <1>1, WakeAlways, PTL

-----------------------------------------------------------------------------
(***************************************************************************)
(* What a ring f holds: the slots with x in them, the slots with events,   *)
(* the subscriptions that have some, and how many events there are beyond  *)
(* one of each.                                                            *)
(***************************************************************************)
IsRing(f) == f \in [Slots -> Subs \cup {"empty", "canceled"}]

SlotsOf(f, x) == {i \in Slots : f[i] = x}
EventsOf(f)   == {i \in Slots : f[i] \in Subs}
OwnersOf(f)   == {f[i] : i \in Slots} \cap Subs
Surplus(f)    == Cardinality(EventsOf(f)) - Cardinality(OwnersOf(f))

LEMMA OwnersProps ==
  ASSUME NEW f, IsRing(f)
  PROVE  /\ IsFiniteSet(OwnersOf(f)) /\ IsFiniteSet(EventsOf(f))
         /\ Cardinality(OwnersOf(f)) \in Nat /\ Cardinality(EventsOf(f)) \in Nat
         /\ Cardinality(OwnersOf(f)) <= Cardinality(EventsOf(f))
         /\ Surplus(f) \in Nat
         /\ \A s \in Subs : s \in OwnersOf(f) <=> SlotsOf(f, s) # {}
<1> DEFINE E == EventsOf(f)
           O == OwnersOf(f)
           own == [i \in E |-> f[i]]
<1>1. IsFiniteSet(E)
  BY SlotsFinite DEF EventsOf
<1>2. own \in Surjection(E, O)
  BY DEF EventsOf, OwnersOf, IsRing, Surjection
<1> HIDE DEF E, O, own
<1>3. IsFiniteSet(O) /\ Cardinality(O) <= Cardinality(E)
  BY <1>1, <1>2, FS_Surjection
<1>4. Cardinality(O) \in Nat /\ Cardinality(E) \in Nat
  BY <1>1, <1>3, FS_CardinalityType
<1>5. \A s \in Subs : s \in O <=> SlotsOf(f, s) # {}
  BY DEF O, OwnersOf, SlotsOf
<1>6. Cardinality(E) - Cardinality(O) \in Nat
  BY <1>3, <1>4
<1> QED BY <1>1, <1>3, <1>4, <1>5, <1>6 DEF E, O, Surplus

\* An event is put into an empty slot.
LEMMA PutSlot ==
  ASSUME NEW f, IsRing(f), NEW h, IsRing(h), NEW k \in Slots, NEW s \in Subs,
         f[k] = "empty", h[k] = s, \A i \in Slots : i # k => h[i] = f[i]
  PROVE  /\ SlotsOf(h, s) = SlotsOf(f, s) \cup {k}
         /\ Cardinality(SlotsOf(h, s)) = Cardinality(SlotsOf(f, s)) + 1
         /\ \A x : x \notin {s, "empty"} => SlotsOf(h, x) = SlotsOf(f, x)
         /\ Surplus(h) = IF SlotsOf(f, s) # {} THEN Surplus(f) + 1 ELSE Surplus(f)
<1>1. SlotsOf(h, s) = SlotsOf(f, s) \cup {k} /\ k \notin SlotsOf(f, s)
  BY DbEventAssumption DEF SlotsOf
<1>2. \A x : x \notin {s, "empty"} => SlotsOf(h, x) = SlotsOf(f, x)
  BY DEF SlotsOf
<1>3. EventsOf(h) = EventsOf(f) \cup {k} /\ k \notin EventsOf(f)
  BY DbEventAssumption DEF EventsOf
<1>4. OwnersOf(h) = OwnersOf(f) \cup {s}
  <2>1. ASSUME NEW x, x \in OwnersOf(h) PROVE x \in OwnersOf(f) \cup {s}
    BY <2>1 DEF OwnersOf
  <2>2. ASSUME NEW x, x \in OwnersOf(f) PROVE x \in OwnersOf(h)
    <3>1. PICK i \in Slots : f[i] = x /\ x \in Subs
      BY <2>2 DEF OwnersOf
    <3>2. i # k
      BY <3>1, DbEventAssumption
    <3> QED BY <3>1, <3>2 DEF OwnersOf
  <2>3. s \in OwnersOf(h)
    BY DEF OwnersOf
  <2> QED BY <2>1, <2>2, <2>3
<1>5. IsFiniteSet(SlotsOf(f, s))
  BY SlotsFinite DEF SlotsOf
<1>6. Cardinality(SlotsOf(h, s)) = Cardinality(SlotsOf(f, s)) + 1
  BY <1>1, <1>5, FS_AddElement
<1>7. Cardinality(EventsOf(h)) = Cardinality(EventsOf(f)) + 1
  BY <1>3, OwnersProps, FS_AddElement
<1>8. Cardinality(OwnersOf(h)) =
        IF SlotsOf(f, s) # {} THEN Cardinality(OwnersOf(f)) ELSE Cardinality(OwnersOf(f)) + 1
  <2>1. IsFiniteSet(OwnersOf(f)) /\ (s \in OwnersOf(f) <=> SlotsOf(f, s) # {})
    BY OwnersProps
  <2>2. Cardinality(OwnersOf(f) \cup {s}) =
          IF s \in OwnersOf(f) THEN Cardinality(OwnersOf(f)) ELSE Cardinality(OwnersOf(f)) + 1
    BY <2>1, FS_AddElement
  <2> QED BY <1>4, <2>1, <2>2
<1>9. Surplus(h) = IF SlotsOf(f, s) # {} THEN Surplus(f) + 1 ELSE Surplus(f)
  <2>1. Cardinality(OwnersOf(f)) \in Nat /\ Cardinality(EventsOf(f)) \in Nat
    BY OwnersProps
  <2> QED BY <1>7, <1>8, <2>1 DEF Surplus
<1> QED BY <1>1, <1>2, <1>6, <1>9

\* An event is taken out.
LEMMA ClearSlot ==
  ASSUME NEW f, IsRing(f), NEW h, IsRing(h), NEW k \in Slots, NEW s \in Subs,
         f[k] = s, h[k] = "empty", \A i \in Slots : i # k => h[i] = f[i]
  PROVE  /\ SlotsOf(h, s) = SlotsOf(f, s) \ {k} /\ k \in SlotsOf(f, s)
         /\ Cardinality(SlotsOf(h, s)) = Cardinality(SlotsOf(f, s)) - 1
         /\ Cardinality(SlotsOf(f, s)) = 1 <=> SlotsOf(h, s) = {}
         /\ \A x : x \notin {s, "empty"} => SlotsOf(h, x) = SlotsOf(f, x)
         /\ Surplus(h) = IF SlotsOf(h, s) = {} THEN Surplus(f) ELSE Surplus(f) - 1
<1>1. SlotsOf(h, s) = SlotsOf(f, s) \ {k} /\ k \in SlotsOf(f, s)
  BY DbEventAssumption DEF SlotsOf
<1>2. \A x : x \notin {s, "empty"} => SlotsOf(h, x) = SlotsOf(f, x)
  BY DEF SlotsOf
<1>3. EventsOf(h) = EventsOf(f) \ {k} /\ k \in EventsOf(f)
  BY DbEventAssumption DEF EventsOf
<1>4. OwnersOf(h) = IF SlotsOf(h, s) = {} THEN OwnersOf(f) \ {s} ELSE OwnersOf(f)
  <2>1. \A t \in Subs : t # s => (t \in OwnersOf(h) <=> t \in OwnersOf(f))
    <3> SUFFICES ASSUME NEW t \in Subs, t # s PROVE t \in OwnersOf(h) <=> t \in OwnersOf(f)
      OBVIOUS
    <3>1. SlotsOf(h, t) = SlotsOf(f, t)
      BY <1>2, DbEventAssumption
    <3> QED BY <3>1, OwnersProps
  <2>2. s \in OwnersOf(h) <=> SlotsOf(h, s) # {}
    BY OwnersProps
  <2>3. s \in OwnersOf(f)
    BY DEF OwnersOf
  <2>4. OwnersOf(h) \subseteq Subs /\ OwnersOf(f) \subseteq Subs
    BY DEF OwnersOf
  <2> QED BY <2>1, <2>2, <2>3, <2>4
<1>5. IsFiniteSet(SlotsOf(f, s)) /\ IsFiniteSet(SlotsOf(h, s))
      /\ Cardinality(SlotsOf(f, s)) \in Nat /\ Cardinality(SlotsOf(h, s)) \in Nat
  BY SlotsFinite DEF SlotsOf
<1>6. Cardinality(SlotsOf(h, s)) = Cardinality(SlotsOf(f, s)) - 1
  BY <1>1, <1>5, FS_RemoveElement
<1>7. Cardinality(EventsOf(h)) = Cardinality(EventsOf(f)) - 1
  BY <1>3, OwnersProps, FS_RemoveElement
<1>8. s \in OwnersOf(f)
  BY DEF OwnersOf
<1>9. Cardinality(OwnersOf(h)) =
        IF SlotsOf(h, s) = {} THEN Cardinality(OwnersOf(f)) - 1 ELSE Cardinality(OwnersOf(f))
  <2>1. IsFiniteSet(OwnersOf(f))
    BY OwnersProps
  <2>2. Cardinality(OwnersOf(f) \ {s}) = Cardinality(OwnersOf(f)) - 1
    BY <1>8, <2>1, FS_RemoveElement
  <2> QED BY <1>4, <2>2
<1>10. Surplus(h) = IF SlotsOf(h, s) = {} THEN Surplus(f) ELSE Surplus(f) - 1
  <2>1. Cardinality(OwnersOf(f)) \in Nat /\ Cardinality(EventsOf(f)) \in Nat
    BY OwnersProps
  <2> QED BY <1>7, <1>9, <2>1 DEF Surplus
<1>11. Cardinality(SlotsOf(f, s)) = 1 <=> SlotsOf(h, s) = {}
  BY <1>5, <1>6, FS_EmptySet
<1> QED BY <1>1, <1>2, <1>6, <1>10, <1>11

\* A canceled event is skipped.
LEMMA ClearCanceled ==
  ASSUME NEW f, IsRing(f), NEW h, IsRing(h), NEW k \in Slots,
         f[k] = "canceled", h[k] = "empty", \A i \in Slots : i # k => h[i] = f[i]
  PROVE  /\ Cardinality(SlotsOf(h, "canceled")) = Cardinality(SlotsOf(f, "canceled")) - 1
         /\ \A x \in Subs : SlotsOf(h, x) = SlotsOf(f, x)
         /\ Surplus(h) = Surplus(f)
<1>1. SlotsOf(h, "canceled") = SlotsOf(f, "canceled") \ {k} /\ k \in SlotsOf(f, "canceled")
  BY DEF SlotsOf
<1>2. IsFiniteSet(SlotsOf(f, "canceled"))
  BY SlotsFinite DEF SlotsOf
<1>3. \A x \in Subs : SlotsOf(h, x) = SlotsOf(f, x)
  BY DbEventAssumption DEF SlotsOf
<1>4. EventsOf(h) = EventsOf(f)
  BY DbEventAssumption DEF EventsOf
<1>5. OwnersOf(h) = OwnersOf(f)
  <2>1. OwnersOf(h) \subseteq Subs /\ OwnersOf(f) \subseteq Subs
    BY DEF OwnersOf
  <2>2. \A x \in Subs : x \in OwnersOf(h) <=> x \in OwnersOf(f)
    BY <1>3, OwnersProps
  <2> QED BY <2>1, <2>2
<1> QED BY <1>1, <1>2, <1>3, <1>4, <1>5, FS_RemoveElement DEF Surplus

\* The events of s are marked as canceled.
LEMMA MarkSlots ==
  ASSUME NEW f, IsRing(f), NEW h, IsRing(h), NEW s \in Subs,
         \A i \in Slots : h[i] = IF f[i] = s THEN "canceled" ELSE f[i]
  PROVE  /\ SlotsOf(h, s) = {}
         /\ \A x \in Subs : x # s => SlotsOf(h, x) = SlotsOf(f, x)
         /\ Cardinality(SlotsOf(h, "canceled")) =
              Cardinality(SlotsOf(f, "canceled")) + Cardinality(SlotsOf(f, s))
         /\ Surplus(h) = Surplus(f) - Max({Cardinality(SlotsOf(f, s)) - 1, 0})
<1> DEFINE M == SlotsOf(f, s)
           C == SlotsOf(f, "canceled")
<1>0. s # "canceled" /\ s # "empty" /\ "canceled" \notin Subs
  BY DbEventAssumption
<1>1. SlotsOf(h, s) = {} /\ \A x \in Subs : x # s => SlotsOf(h, x) = SlotsOf(f, x)
  BY <1>0 DEF SlotsOf
<1>2. SlotsOf(h, "canceled") = C \cup M /\ C \cap M = {}
  BY <1>0 DEF SlotsOf
<1>3. /\ IsFiniteSet(M) /\ IsFiniteSet(C) /\ Cardinality(M) \in Nat /\ Cardinality(C) \in Nat
  BY SlotsFinite DEF SlotsOf
<1>4. Cardinality(SlotsOf(h, "canceled")) = Cardinality(C) + Cardinality(M)
  <2> HIDE DEF M, C
  <2>1. Cardinality(C \cup M) = Cardinality(C) + Cardinality(M) - Cardinality(C \cap M)
    BY <1>3, FS_Union
  <2>2. Cardinality(C \cap M) = 0
    BY <1>2, FS_EmptySet
  <2>3. Cardinality(SlotsOf(h, "canceled")) = Cardinality(C \cup M)
    BY <1>2, Zenon
  <2> QED BY <1>3, <2>1, <2>2, <2>3
<1>5. EventsOf(f) = EventsOf(h) \cup M /\ EventsOf(h) \cap M = {}
  BY <1>0 DEF EventsOf, SlotsOf
<1>6. Cardinality(EventsOf(f)) = Cardinality(EventsOf(h)) + Cardinality(M)
  <2>1. IsFiniteSet(EventsOf(h)) /\ Cardinality(EventsOf(h)) \in Nat
    BY OwnersProps
  <2> HIDE DEF M
  <2>2. Cardinality(EventsOf(h) \cup M) =
          Cardinality(EventsOf(h)) + Cardinality(M) - Cardinality(EventsOf(h) \cap M)
    BY <1>3, <2>1, FS_Union
  <2>3. Cardinality(EventsOf(h) \cap M) = 0
    BY <1>5, FS_EmptySet
  <2>4. Cardinality(EventsOf(f)) = Cardinality(EventsOf(h) \cup M)
    BY <1>5, Zenon
  <2> QED BY <1>3, <2>1, <2>2, <2>3, <2>4
<1>7. OwnersOf(h) = OwnersOf(f) \ {s}
  <2>1. OwnersOf(h) \subseteq Subs /\ OwnersOf(f) \subseteq Subs
    BY DEF OwnersOf
  <2>2. \A x \in Subs : x \in OwnersOf(h) <=> x \in OwnersOf(f) /\ x # s
    BY <1>1, OwnersProps
  <2> QED BY <2>1, <2>2
<1>8. s \in OwnersOf(f) <=> M # {}
  BY OwnersProps
<1>9. Cardinality(OwnersOf(h)) =
        IF M = {} THEN Cardinality(OwnersOf(f)) ELSE Cardinality(OwnersOf(f)) - 1
  BY <1>7, <1>8, OwnersProps, FS_RemoveElement
<1>10. M = {} <=> Cardinality(M) = 0
  BY <1>3, FS_EmptySet
<1>11. Max({Cardinality(M) - 1, 0}) = IF Cardinality(M) > 1 THEN Cardinality(M) - 1 ELSE 0
  <2>1. Cardinality(M) - 1 \in Int
    BY <1>3
  <2> HIDE DEF M
  <2> QED BY <1>3, <2>1, MaxWithZero
<1>12. Surplus(h) = Surplus(f) - Max({Cardinality(M) - 1, 0})
  <2>1. /\ Cardinality(OwnersOf(f)) \in Nat /\ Cardinality(EventsOf(f)) \in Nat
        /\ Cardinality(OwnersOf(h)) \in Nat /\ Cardinality(EventsOf(h)) \in Nat
    BY OwnersProps
  <2> HIDE DEF M
  <2> QED BY <1>3, <1>6, <1>9, <1>10, <1>11, <2>1 DEF Surplus
<1> QED BY <1>1, <1>4, <1>12

(***************************************************************************)
(* BooksRight with its types, in the terms above.                          *)
(***************************************************************************)
BookTyped ==
  /\ pLastLog \in [Subs -> Slots \cup {NULL}]
  /\ nCanceled \in [Queues -> Int] /\ nDuplicates \in [Queues -> Int]

RingBooks(q) ==
  /\ nCanceled[q] = Cardinality(SlotsOf(evque[q], "canceled"))
  /\ nDuplicates[q] = Surplus(evque[q])

IsLast(M, g, last) ==
  IF M = {} THEN last = NULL
  ELSE last \in M /\ \A i \in M : AgeFrom(g, i) <= AgeFrom(g, last)

SubBooks(s) ==
  npend[s] = Cardinality(Mine(s)) /\ IsLast(Mine(s), getix[ev_que[s]], pLastLog[s])

BookInv == BookTyped /\ (\A q \in Queues : RingBooks(q)) /\ (\A s \in Subs : SubBooks(s))

LEMMA MineProps ==
  ASSUME LifeInv, NEW s \in Subs
  PROVE  /\ Mine(s) \subseteq Slots
         /\ ev_que[s] # NULL => ev_que[s] \in Queues /\ Mine(s) = SlotsOf(evque[ev_que[s]], s)
         /\ ev_que[s] = NULL => Mine(s) = {}
         /\ ~user_sub[s] => Mine(s) = {}
         /\ \A q \in Queues : q # ev_que[s] \/ ~user_sub[s] => SlotsOf(evque[q], s) = {}
<1>1. /\ Mine(s) \subseteq Slots
      /\ ev_que[s] # NULL => ev_que[s] \in Queues /\ Mine(s) = SlotsOf(evque[ev_que[s]], s)
      /\ ev_que[s] = NULL => Mine(s) = {}
  BY DEF Mine, SlotsOf, LifeInv, ControlTyped
<1>2. \A q \in Queues : q # ev_que[s] \/ ~user_sub[s] => SlotsOf(evque[q], s) = {}
  BY DEF SlotsOf, LifeInv, OwnerInv
<1> QED BY <1>1, <1>2

LEMMA RingsTyped ==
  ASSUME LifeInv, NEW q \in Queues
  PROVE  IsRing(evque[q]) /\ getix[q] \in Slots /\ putix[q] \in Slots
BY DEF LifeInv, ControlTyped, IsRing

LEMMA MineSame ==
  ASSUME LifeInv, NEW t \in Subs, UNCHANGED ev_que[t],
         \A q \in Queues, i \in Slots : evque'[q][i] = t <=> evque[q][i] = t
  PROVE  Mine(t)' = Mine(t)
<1>1. ev_que[t] \in Queues \cup {NULL}
  BY DEF LifeInv, ControlTyped
<1> QED BY <1>1 DEF Mine

\* A subscription whose events a step does not touch.
LEMMA SubSame ==
  ASSUME NEW t \in Subs, SubBooks(t), UNCHANGED <<ev_que[t], npend[t], pLastLog[t]>>,
         Mine(t)' = Mine(t), Mine(t) # {} => getix'[ev_que[t]] = getix[ev_que[t]]
  PROVE  SubBooks(t)'
BY DEF SubBooks, IsLast

LEMMA BooksSame ==
  ASSUME BookInv, UNCHANGED <<evque, getix, nCanceled, nDuplicates, npend, pLastLog, ev_que>>
  PROVE  BookInv'
BY DEF BookInv, BookTyped, RingBooks, SubBooks, Mine

\* An event is added to the books, or replaces one that is on them.
LEMMA BooksLog ==
  ASSUME LifeInv, LifeInv', RingInv, BookInv, NEW s \in Subs, user_sub[s], db_queue_event_log(s)
  PROVE  BookInv'
<1>1. CASE Replaces(s)
  BY <1>1, ReplaceEffect, BooksSame DEF subVars, pendVars
<1>2. CASE ~Replaces(s)
  <2> DEFINE q == ev_que[s]
             k == putix[q]
  <2>1. /\ q \in Queues /\ q # NULL /\ k \in Slots
        /\ evque[q][k] = "empty" /\ evque'[q][k] = s
        /\ \A p \in Queues, j \in Slots : p # q \/ j # k => evque'[p][j] = evque[p][j]
        /\ UNCHANGED <<getix, nCanceled, ev_que>>
    BY <1>2, AppendEffect DEF subVars
  <2>2. /\ npend' = [npend EXCEPT ![s] = @ + 1]
        /\ pLastLog' = [pLastLog EXCEPT ![s] = k]
        /\ nDuplicates' = [nDuplicates EXCEPT ![q] = IF npend[s] > 0 THEN @ + 1 ELSE @]
    BY <1>2 DEF db_queue_event_log, AppendEvent
  <2>3. Mine(s) = SlotsOf(evque[q], s) /\ Mine(s)' = SlotsOf(evque'[q], s)
    BY <2>1 DEF Mine, SlotsOf
  <2>4. q = ev_que[s]
    OBVIOUS
  <2> HIDE DEF q, k
  <2>5. /\ IsRing(evque[q]) /\ IsRing(evque'[q])
        /\ \A i \in Slots : i # k => evque'[q][i] = evque[q][i]
    BY <2>1, RingsTyped DEF LifeInv, ControlTyped, IsRing
  <2>6. /\ SlotsOf(evque'[q], s) = SlotsOf(evque[q], s) \cup {k}
        /\ Cardinality(SlotsOf(evque'[q], s)) = Cardinality(SlotsOf(evque[q], s)) + 1
        /\ \A x : x \notin {s, "empty"} => SlotsOf(evque'[q], x) = SlotsOf(evque[q], x)
        /\ Surplus(evque'[q]) = IF SlotsOf(evque[q], s) # {} THEN Surplus(evque[q]) + 1
                                ELSE Surplus(evque[q])
    BY <2>1, <2>5, PutSlot
  <2>7. npend[s] > 0 <=> SlotsOf(evque[q], s) # {}
    <3>1. npend[s] = Cardinality(SlotsOf(evque[q], s))
      BY <2>3 DEF BookInv, SubBooks
    <3>2. IsFiniteSet(SlotsOf(evque[q], s)) /\ Cardinality(SlotsOf(evque[q], s)) \in Nat
      BY SlotsFinite DEF SlotsOf
    <3> QED BY <3>1, <3>2, FS_EmptySet
  <2>8. BookTyped'
    BY <2>1, <2>2 DEF BookInv, BookTyped
  <2>9. ASSUME NEW p \in Queues PROVE RingBooks(p)'
    <3>1. CASE p = q
      <4>1. nDuplicates'[q] = IF npend[s] > 0 THEN nDuplicates[q] + 1 ELSE nDuplicates[q]
        BY <2>1, <2>2 DEF BookInv, BookTyped
      <4>2. "canceled" \notin {s, "empty"}
        BY DbEventAssumption
      <4>3. SlotsOf(evque'[q], "canceled") = SlotsOf(evque[q], "canceled")
        BY <2>6, <4>2
      <4> QED BY <2>1, <2>6, <2>7, <3>1, <4>1, <4>3 DEF BookInv, RingBooks
    <3>2. CASE p # q
      <4>1. nDuplicates'[p] = nDuplicates[p]
        BY <2>2, <3>2 DEF BookInv, BookTyped
      <4>2. evque'[p] = evque[p]
        <5>1. evque \in [Queues -> [Slots -> Subs \cup {"empty", "canceled"}]]
              /\ evque' \in [Queues -> [Slots -> Subs \cup {"empty", "canceled"}]]
          BY DEF LifeInv, ControlTyped
        <5> QED BY <2>1, <3>2, <5>1
      <4> QED BY <2>1, <4>1, <4>2 DEF BookInv, RingBooks
    <3> QED BY <3>1, <3>2
  <2>10. SubBooks(s)'
    <3>1. npend'[s] = npend[s] + 1 /\ pLastLog'[s] = k
      BY <2>2 DEF LifeInv, ControlTyped, BookInv, BookTyped
    <3>2. PICK n : Holds(evque[q], getix[q], putix[q], n)
      BY <2>1 DEF RingInv
    <3> DEFINE f == evque[q]
               h == evque'[q]
               g == getix[q]
    <3>3. /\ g \in Slots /\ k \in Slots /\ Holds(f, g, k, n) /\ f[k] = "empty" /\ h[k] # "empty"
          /\ \A i \in Slots : i # k => h[i] = f[i]
      BY <2>1, <2>5, <3>2, RingsTyped, DbEventAssumption DEF k
    <3>4. h = evque'[q] /\ f = evque[q] /\ g = getix[q]
      OBVIOUS
    <3> HIDE DEF f, h, g
    <3>5. \A i \in Slots : AgeFrom(g, i) < n => AgeFrom(g, i) < AgeFrom(g, k)
      BY <3>3, RingAppend
    <3>6. \A i \in SlotsOf(f, s) : i \in Slots /\ AgeFrom(g, i) < n
      BY <3>3, DbEventAssumption DEF Holds, SlotsOf
    <3>7. \A i \in Slots : AgeFrom(g, i) \in Int
      BY <3>3, QueueSize DEF AgeFrom, Slots
    <3>8. \A i \in SlotsOf(f, s) \cup {k} : AgeFrom(g, i) <= AgeFrom(g, k)
      BY <3>3, <3>5, <3>6, <3>7
    <3>9. Mine(s)' = SlotsOf(f, s) \cup {k}
      BY <2>3, <2>6, <3>4
    <3>10. IsLast(SlotsOf(f, s) \cup {k}, g, k)
      BY <3>8 DEF IsLast
    <3>11. getix'[ev_que'[s]] = g
      BY <2>1, <2>4, <3>4
    <3>12. Cardinality(Mine(s)') = Cardinality(Mine(s)) + 1
      BY <2>3, <2>6
    <3> QED BY <3>1, <3>9, <3>10, <3>11, <3>12 DEF BookInv, SubBooks
  <2>11. ASSUME NEW t \in Subs, t # s PROVE SubBooks(t)'
    <3>1. npend'[t] = npend[t] /\ pLastLog'[t] = pLastLog[t]
      BY <2>2, <2>11 DEF LifeInv, ControlTyped, BookInv, BookTyped
    <3>2. Mine(t)' = Mine(t)
      <4>1. \A p \in Queues, i \in Slots : evque'[p][i] = t <=> evque[p][i] = t
        BY <2>1, <2>11, DbEventAssumption
      <4> QED BY <2>1, <4>1, MineSame
    <3> QED BY <2>1, <3>1, <3>2, SubSame DEF BookInv
  <2> QED BY <2>8, <2>9, <2>10, <2>11 DEF BookInv
<1> QED BY <1>1, <1>2

\* A block that is allocated or freed has no events in the rings.
LEMMA BooksMoved ==
  ASSUME BookInv, UNCHANGED <<evque, getix, nCanceled, nDuplicates, npend, pLastLog>>,
         \A t \in Subs : UNCHANGED ev_que[t] \/ (Mine(t) = {} /\ Mine(t)' = {})
  PROVE  BookInv'
<1>1. BookTyped' /\ \A q \in Queues : RingBooks(q)'
  BY DEF BookInv, BookTyped, RingBooks
<1>2. ASSUME NEW t \in Subs PROVE SubBooks(t)'
  <2>1. CASE UNCHANGED ev_que[t]
    <3>1. Mine(t)' = Mine(t)
      BY <2>1 DEF Mine
    <3> QED BY <2>1, <3>1, SubSame DEF BookInv
  <2>2. CASE Mine(t) = {} /\ Mine(t)' = {}
    BY <2>2 DEF BookInv, SubBooks, IsLast
  <2> QED BY <1>2, <2>1, <2>2
<1> QED BY <1>1, <1>2 DEF BookInv

\* A cancellation takes its events off the books.
LEMMA BooksPurge ==
  ASSUME LifeInv, LifeInv', BookInv, NEW s \in Subs, ev_que[s] # NULL, Purge(s),
         ev_que' \in {ev_que, [ev_que EXCEPT ![s] = NULL]}
  PROVE  BookInv'
<1> DEFINE q == ev_que[s]
<1>1. q \in Queues /\ Mine(s) = SlotsOf(evque[q], s)
  BY DEF LifeInv, ControlTyped, Mine, SlotsOf
<1>2. /\ nCanceled' = [nCanceled EXCEPT ![q] = @ + Cardinality(SlotsOf(evque[q], s))]
      /\ nDuplicates' = [nDuplicates EXCEPT ![q] = @ - Max({Cardinality(SlotsOf(evque[q], s)) - 1, 0})]
      /\ npend' = [npend EXCEPT ![s] = 0]
      /\ pLastLog' = [pLastLog EXCEPT ![s] = NULL]
      /\ UNCHANGED getix
  BY PurgeIs DEF SlotsOf
<1>3. \A p \in Queues, i \in Slots :
        evque'[p][i] = IF evque[p][i] = s THEN "canceled" ELSE evque[p][i]
  BY PurgeEffect
<1>4. \A p \in Queues : p # q => \A i \in Slots : evque[p][i] # s
  BY <1>1 DEF LifeInv, OwnerInv
<1>5. ev_que'[s] \in {q, NULL} /\ \A t \in Subs : t # s => UNCHANGED ev_que[t]
  BY DEF LifeInv, ControlTyped
<1> HIDE DEF q
<1>6. IsRing(evque[q]) /\ IsRing(evque'[q])
  BY <1>1 DEF LifeInv, ControlTyped, IsRing
<1>7. /\ SlotsOf(evque'[q], s) = {}
      /\ \A x \in Subs : x # s => SlotsOf(evque'[q], x) = SlotsOf(evque[q], x)
      /\ Cardinality(SlotsOf(evque'[q], "canceled")) =
           Cardinality(SlotsOf(evque[q], "canceled")) + Cardinality(SlotsOf(evque[q], s))
      /\ Surplus(evque'[q]) = Surplus(evque[q]) - Max({Cardinality(SlotsOf(evque[q], s)) - 1, 0})
  <2> DEFINE f == evque[q]
             h == evque'[q]
  <2>1. IsRing(f) /\ IsRing(h) /\ \A i \in Slots : h[i] = IF f[i] = s THEN "canceled" ELSE f[i]
    BY <1>1, <1>3, <1>6
  <2> HIDE DEF f, h
  <2>2. /\ SlotsOf(h, s) = {}
        /\ \A x \in Subs : x # s => SlotsOf(h, x) = SlotsOf(f, x)
        /\ Cardinality(SlotsOf(h, "canceled")) =
             Cardinality(SlotsOf(f, "canceled")) + Cardinality(SlotsOf(f, s))
        /\ Surplus(h) = Surplus(f) - Max({Cardinality(SlotsOf(f, s)) - 1, 0})
    BY <2>1, MarkSlots
  <2> QED BY <2>2 DEF f, h
<1>8. /\ Cardinality(SlotsOf(evque[q], s)) \in Nat
      /\ Max({Cardinality(SlotsOf(evque[q], s)) - 1, 0}) \in Int
  <2>1. Cardinality(SlotsOf(evque[q], s)) \in Nat
    BY SlotsFinite DEF SlotsOf
  <2>2. Cardinality(SlotsOf(evque[q], s)) - 1 \in Int
    BY <2>1
  <2> QED BY <2>1, <2>2, MaxWithZero
<1>9. BookTyped'
  BY <1>1, <1>2, <1>8 DEF BookInv, BookTyped
<1>10. ASSUME NEW p \in Queues PROVE RingBooks(p)'
  <2>1. CASE p = q
    <3>1. /\ nCanceled'[q] = nCanceled[q] + Cardinality(SlotsOf(evque[q], s))
          /\ nDuplicates'[q] = nDuplicates[q] - Max({Cardinality(SlotsOf(evque[q], s)) - 1, 0})
      BY <1>1, <1>2 DEF BookInv, BookTyped
    <3> QED BY <1>1, <1>7, <2>1, <3>1 DEF BookInv, RingBooks
  <2>2. CASE p # q
    <3>1. nCanceled'[p] = nCanceled[p] /\ nDuplicates'[p] = nDuplicates[p]
      BY <1>2, <2>2 DEF BookInv, BookTyped
    <3>2. evque'[p] = evque[p]
      <4>1. evque \in [Queues -> [Slots -> Subs \cup {"empty", "canceled"}]]
            /\ evque' \in [Queues -> [Slots -> Subs \cup {"empty", "canceled"}]]
        BY DEF LifeInv, ControlTyped
      <4> QED BY <1>3, <1>4, <2>2, <4>1
    <3> QED BY <3>1, <3>2 DEF BookInv, RingBooks
  <2> QED BY <2>1, <2>2
<1>11. SubBooks(s)'
  <2>1. npend'[s] = 0 /\ pLastLog'[s] = NULL
    BY <1>2 DEF LifeInv, ControlTyped, BookInv, BookTyped
  <2>2. Mine(s)' = {}
    <3>1. \A i \in Slots : evque'[q][i] # s
      BY <1>7 DEF SlotsOf
    <3> QED BY <1>5, <3>1 DEF Mine
  <2> QED BY <2>1, <2>2, FS_EmptySet DEF SubBooks, IsLast
<1>12. ASSUME NEW t \in Subs, t # s PROVE SubBooks(t)'
  <2>1. npend'[t] = npend[t] /\ pLastLog'[t] = pLastLog[t]
    BY <1>2, <1>12 DEF LifeInv, ControlTyped, BookInv, BookTyped
  <2>2. \A p \in Queues, i \in Slots : evque'[p][i] = t <=> evque[p][i] = t
    BY <1>3, <1>12, DbEventAssumption
  <2>3. Mine(t)' = Mine(t)
    BY <1>5, <1>12, <2>2, MineSame
  <2> QED BY <1>2, <1>5, <1>12, <2>1, <2>3, SubSame DEF BookInv
<1> QED BY <1>9, <1>10, <1>11, <1>12 DEF BookInv

LEMMA LastShift ==
  ASSUME NEW g \in Slots, NEW M, M \subseteq Slots, g \notin M, NEW last, IsLast(M, g, last)
  PROVE  IsLast(M, RNGINC(g), last)
<1>1. \A i \in M : AgeFrom(RNGINC(g), i) = AgeFrom(g, i) - 1 /\ AgeFrom(g, i) \in Nat
  BY AgeShift
<1> QED BY <1>1 DEF IsLast

\* The last of a subscription's events is not the oldest of the ring, unless
\* it is the only one.
LEMMA LastTaken ==
  ASSUME NEW g \in Slots, NEW M, M \subseteq Slots, NEW last, IsLast(M, g, last), M \ {g} # {}
  PROVE  IsLast(M \ {g}, RNGINC(g), last)
<1>1. PICK i \in M : i # g
  OBVIOUS
<1>2. \A j \in M : AgeFrom(g, j) \in Nat /\ (AgeFrom(g, j) = 0 <=> j = g)
  BY AgeShift
<1>3. last \in M /\ AgeFrom(g, i) <= AgeFrom(g, last)
  BY <1>1 DEF IsLast
<1>4. last # g
  BY <1>1, <1>2, <1>3
<1>5. IsLast(M \ {g}, g, last)
  BY <1>3, <1>4 DEF IsLast
<1> QED BY <1>5, LastShift

\* A subscription none of whose events is taken from the ring q.
LEMMA SubShift ==
  ASSUME LifeInv, NEW q \in Queues, NEW t \in Subs, SubBooks(t),
         UNCHANGED <<ev_que[t], npend[t], pLastLog[t]>>, evque[q][getix[q]] # t, Mine(t)' = Mine(t),
         getix' = [getix EXCEPT ![q] = RNGINC(@)]
  PROVE  SubBooks(t)'
<1>1. CASE Mine(t) = {} \/ ev_que[t] # q
  <2>1. Mine(t) # {} => getix'[ev_que[t]] = getix[ev_que[t]]
    BY <1>1, MineProps DEF LifeInv, ControlTyped
  <2> QED BY <2>1, SubSame
<1>2. CASE Mine(t) # {} /\ ev_que[t] = q
  <2>1. /\ getix[q] \in Slots /\ getix'[q] = RNGINC(getix[q])
        /\ Mine(t) \subseteq Slots /\ getix[q] \notin Mine(t)
    BY <1>2, MineProps DEF LifeInv, ControlTyped, Mine
  <2>2. IsLast(Mine(t), RNGINC(getix[q]), pLastLog[t])
    BY <1>2, <2>1, LastShift DEF SubBooks
  <2> QED BY <1>2, <2>1, <2>2 DEF SubBooks
<1> QED BY <1>1, <1>2

\* The event task skips a canceled event, or takes one.
LEMMA BooksSkip ==
  ASSUME LifeInv, LifeInv', BookInv, SkipCanceled
  PROVE  BookInv'
<1>0. PICK q, k : q = eq /\ k = getix[q]
  OBVIOUS
<1>1. /\ evque \in [Queues -> [Slots -> Subs \cup {"empty", "canceled"}]]
      /\ evque' \in [Queues -> [Slots -> Subs \cup {"empty", "canceled"}]]
      /\ q \in Queues /\ k \in Slots
  BY <1>0 DEF LifeInv, ControlTyped
<1>2. /\ evque[q][k] = "canceled" /\ evque' = [evque EXCEPT ![q][k] = "empty"]
      /\ getix' = [getix EXCEPT ![q] = RNGINC(@)]
      /\ nCanceled' = [nCanceled EXCEPT ![q] = @ - 1]
      /\ UNCHANGED <<nDuplicates, npend, pLastLog, ev_que>>
  BY <1>0 DEF SkipCanceled, Oldest, subVars, pendVars
<1>3. /\ evque'[q][k] = "empty"
      /\ \A p \in Queues, j \in Slots : p # q \/ j # k => evque'[p][j] = evque[p][j]
  BY <1>1, <1>2, SlotWritten
<1>4. IsRing(evque[q]) /\ IsRing(evque'[q]) /\ \A j \in Slots : j # k => evque'[q][j] = evque[q][j]
  BY <1>1, <1>3 DEF IsRing
<1>5. /\ Cardinality(SlotsOf(evque'[q], "canceled")) = Cardinality(SlotsOf(evque[q], "canceled")) - 1
      /\ Surplus(evque'[q]) = Surplus(evque[q])
  <2> DEFINE f == evque[q]
             h == evque'[q]
  <2>1. /\ IsRing(f) /\ IsRing(h) /\ f[k] = "canceled" /\ h[k] = "empty"
        /\ \A j \in Slots : j # k => h[j] = f[j]
    BY <1>2, <1>3, <1>4
  <2> HIDE DEF f, h
  <2>2. /\ Cardinality(SlotsOf(h, "canceled")) = Cardinality(SlotsOf(f, "canceled")) - 1
        /\ Surplus(h) = Surplus(f)
    BY <1>1, <2>1, ClearCanceled
  <2> QED BY <2>2 DEF f, h
<1>6. BookTyped'
  BY <1>1, <1>2 DEF BookInv, BookTyped
<1>7. ASSUME NEW p \in Queues PROVE RingBooks(p)'
  <2>1. CASE p = q
    <3>1. nCanceled'[q] = nCanceled[q] - 1 /\ nDuplicates'[q] = nDuplicates[q]
      BY <1>1, <1>2 DEF BookInv, BookTyped
    <3> QED BY <1>1, <1>5, <2>1, <3>1 DEF BookInv, RingBooks
  <2>2. CASE p # q
    <3>1. nCanceled'[p] = nCanceled[p] /\ nDuplicates'[p] = nDuplicates[p]
      BY <1>2, <2>2 DEF BookInv, BookTyped
    <3>2. evque'[p] = evque[p]
      BY <1>1, <1>3, <2>2
    <3> QED BY <3>1, <3>2 DEF BookInv, RingBooks
  <2> QED BY <2>1, <2>2
<1>8. ASSUME NEW t \in Subs PROVE SubBooks(t)'
  <2>1. \A p \in Queues, i \in Slots : evque'[p][i] = t <=> evque[p][i] = t
    BY <1>2, <1>3, DbEventAssumption
  <2>2. Mine(t)' = Mine(t)
    BY <1>2, <2>1, MineSame
  <2>3. evque[q][getix[q]] # t
    BY <1>0, <1>2, DbEventAssumption
  <2> QED BY <1>1, <1>2, <2>2, <2>3, SubShift DEF BookInv
<1> QED BY <1>6, <1>7, <1>8 DEF BookInv

LEMMA BooksTake ==
  ASSUME LifeInv, LifeInv', BookInv, TakeEvent
  PROVE  BookInv'
<1>0. PICK q, k, s : q = eq /\ k = getix[q] /\ s = evque[q][k]
  OBVIOUS
<1>1. /\ evque \in [Queues -> [Slots -> Subs \cup {"empty", "canceled"}]]
      /\ evque' \in [Queues -> [Slots -> Subs \cup {"empty", "canceled"}]]
      /\ q \in Queues /\ k \in Slots
  BY <1>0 DEF LifeInv, ControlTyped
<1>2. /\ s \in Subs /\ evque' = [evque EXCEPT ![q][k] = "empty"]
      /\ getix' = [getix EXCEPT ![q] = RNGINC(@)]
      /\ pLastLog' = [pLastLog EXCEPT ![s] = IF npend[s] = 1 THEN NULL ELSE @]
      /\ nDuplicates' = [nDuplicates EXCEPT ![q] = IF npend[s] = 1 THEN @ ELSE @ - 1]
      /\ npend' = [npend EXCEPT ![s] = @ - 1]
      /\ UNCHANGED <<nCanceled, ev_que>>
  BY <1>0 DEF TakeEvent, Oldest
<1>3. /\ evque'[q][k] = "empty"
      /\ \A p \in Queues, j \in Slots : p # q \/ j # k => evque'[p][j] = evque[p][j]
  BY <1>1, <1>2, SlotWritten
<1>4. ev_que[s] = q /\ q # NULL
  BY <1>0, <1>1, <1>2, QueueNumbers DEF LifeInv, OwnerInv
<1>5. k = getix[q] /\ s = evque[q][k]
  BY <1>0
<1>6. IsRing(evque[q]) /\ IsRing(evque'[q]) /\ \A j \in Slots : j # k => evque'[q][j] = evque[q][j]
  BY <1>1, <1>3 DEF IsRing
<1>7. /\ SlotsOf(evque'[q], s) = SlotsOf(evque[q], s) \ {k}
      /\ Cardinality(SlotsOf(evque'[q], s)) = Cardinality(SlotsOf(evque[q], s)) - 1
      /\ Cardinality(SlotsOf(evque[q], s)) = 1 <=> SlotsOf(evque'[q], s) = {}
      /\ \A x : x \notin {s, "empty"} => SlotsOf(evque'[q], x) = SlotsOf(evque[q], x)
      /\ Surplus(evque'[q]) = IF SlotsOf(evque'[q], s) = {} THEN Surplus(evque[q])
                              ELSE Surplus(evque[q]) - 1
  <2> DEFINE f == evque[q]
             h == evque'[q]
  <2>1. /\ IsRing(f) /\ IsRing(h) /\ f[k] = s /\ h[k] = "empty"
        /\ \A j \in Slots : j # k => h[j] = f[j]
        /\ k \in Slots /\ s \in Subs
    BY <1>1, <1>2, <1>3, <1>5, <1>6
  <2> HIDE DEF f, h
  <2>2. /\ SlotsOf(h, s) = SlotsOf(f, s) \ {k}
        /\ Cardinality(SlotsOf(h, s)) = Cardinality(SlotsOf(f, s)) - 1
        /\ Cardinality(SlotsOf(f, s)) = 1 <=> SlotsOf(h, s) = {}
        /\ \A x : x \notin {s, "empty"} => SlotsOf(h, x) = SlotsOf(f, x)
        /\ Surplus(h) = IF SlotsOf(h, s) = {} THEN Surplus(f) ELSE Surplus(f) - 1
    BY <2>1, ClearSlot
  <2> QED BY <2>2 DEF f, h
<1>8. Mine(s) = SlotsOf(evque[q], s) /\ Mine(s)' = SlotsOf(evque'[q], s)
  BY <1>2, <1>4 DEF Mine, SlotsOf
<1>9. npend[s] = 1 <=> SlotsOf(evque'[q], s) = {}
  BY <1>2, <1>7, <1>8 DEF BookInv, SubBooks
<1>10. BookTyped'
  BY <1>1, <1>2 DEF BookInv, BookTyped
<1>11. ASSUME NEW p \in Queues PROVE RingBooks(p)'
  <2>1. CASE p = q
    <3>1. nDuplicates'[q] = IF npend[s] = 1 THEN nDuplicates[q] ELSE nDuplicates[q] - 1
      BY <1>1, <1>2 DEF BookInv, BookTyped
    <3>2. SlotsOf(evque'[q], "canceled") = SlotsOf(evque[q], "canceled")
      <4>1. "canceled" \notin {s, "empty"}
        BY <1>2, DbEventAssumption
      <4> QED BY <1>7, <4>1
    <3> QED BY <1>1, <1>2, <1>7, <1>9, <2>1, <3>1, <3>2 DEF BookInv, RingBooks
  <2>2. CASE p # q
    <3>1. nCanceled'[p] = nCanceled[p] /\ nDuplicates'[p] = nDuplicates[p]
      BY <1>2, <2>2 DEF BookInv, BookTyped
    <3>2. evque'[p] = evque[p]
      BY <1>1, <1>3, <2>2
    <3> QED BY <3>1, <3>2 DEF BookInv, RingBooks
  <2> QED BY <2>1, <2>2
<1>12. SubBooks(s)'
  <2>1. npend'[s] = npend[s] - 1 /\ pLastLog'[s] = IF npend[s] = 1 THEN NULL ELSE pLastLog[s]
    BY <1>2 DEF LifeInv, ControlTyped, BookInv, BookTyped
  <2>2. /\ npend[s] = Cardinality(Mine(s)) /\ IsLast(Mine(s), k, pLastLog[s])
    BY <1>2, <1>4, <1>5 DEF BookInv, SubBooks
  <2>3. npend'[s] = Cardinality(Mine(s)')
    BY <1>7, <1>8, <2>1, <2>2
  <2>4. getix'[ev_que'[s]] = RNGINC(k)
    BY <1>1, <1>2, <1>4, <1>5 DEF LifeInv, ControlTyped
  <2>5. IsLast(Mine(s)', RNGINC(k), pLastLog'[s])
    <3>1. CASE npend[s] = 1
      BY <1>8, <1>9, <2>1, <3>1 DEF IsLast
    <3>2. CASE npend[s] # 1
      <4>1. Mine(s) \subseteq Slots /\ Mine(s) \ {k} # {} /\ Mine(s)' = Mine(s) \ {k}
        BY <1>7, <1>8, <1>9, <3>2 DEF SlotsOf
      <4>2. IsLast(Mine(s) \ {k}, RNGINC(k), pLastLog[s])
        BY <1>1, <2>2, <4>1, LastTaken
      <4> QED BY <2>1, <3>2, <4>1, <4>2
    <3> QED BY <3>1, <3>2
  <2> QED BY <2>3, <2>4, <2>5 DEF SubBooks
<1>13. ASSUME NEW t \in Subs, t # s PROVE SubBooks(t)'
  <2>1. npend'[t] = npend[t] /\ pLastLog'[t] = pLastLog[t]
    BY <1>2, <1>13 DEF LifeInv, ControlTyped, BookInv, BookTyped
  <2>2. \A p \in Queues, i \in Slots : evque'[p][i] = t <=> evque[p][i] = t
    BY <1>3, <1>5, <1>13, DbEventAssumption
  <2>3. Mine(t)' = Mine(t)
    BY <1>2, <2>2, MineSame
  <2> QED BY <1>1, <1>2, <1>5, <1>13, <2>1, <2>3, SubShift DEF BookInv
<1> QED BY <1>10, <1>11, <1>12, <1>13 DEF BookInv

\* BookInv, step by step.
LEMMA BooksScan ==
  ASSUME LifeInv, LifeInv', RingInv, BookInv, NEW r \in Records, Process(r) \/ ScanStep(r)
  PROVE  BookInv'
<1>1. CASE Process(r) \/ db_post_events(r) \/ PostSignal(r) \/ PostEnds(r)
  <2>1. UNCHANGED <<evque, getix, nCanceled, nDuplicates, npend, pLastLog, ev_que>>
    BY <1>1 DEF Process, db_post_events, PostSignal, PostEnds, ringVars, subVars, pendVars
  <2> QED BY <2>1, BooksSame
<1>2. ASSUME NEW s \in Subs, PostOne(r, s) PROVE BookInv'
  <2>1. user_sub[s] /\ db_queue_event_log(s)
    BY <1>2 DEF PostOne, LifeInv, TodoInv, SubInv
  <2> QED BY <2>1, BooksLog
<1> QED BY <1>1, <1>2 DEF ScanStep

LEMMA BooksAdd ==
  ASSUME LifeInv, BookInv, NEW s \in Subs, db_add_event(s)
  PROVE  BookInv'
<1>1. PICK q \in Queues : ev_que' = [ev_que EXCEPT ![s] = q]
  BY DEF db_add_event
<1>2. /\ ev_que[s] = NULL
      /\ UNCHANGED <<evque, getix, nCanceled, nDuplicates, npend, pLastLog>>
  BY DEF db_add_event, ringVars, pendVars
<1>3. ev_que'[s] = q /\ \A t \in Subs : t # s => UNCHANGED ev_que[t]
  BY <1>1 DEF LifeInv, ControlTyped
<1>4. \A i \in Slots : evque[q][i] # s
  BY <1>2, QueueNumbers DEF LifeInv, OwnerInv
<1>5. Mine(s) = {} /\ Mine(s)' = {}
  BY <1>2, <1>3, <1>4 DEF Mine
<1> QED BY <1>2, <1>3, <1>5, BooksMoved

LEMMA BooksClient ==
  ASSUME LifeInv, LifeInv', RingInv, BookInv, ClientAsks \/ ClientStep
  PROVE  BookInv'
<1>1. CASE \/ \E s \in Subs : db_event_disable(s)
           \/ \E on \in BOOLEAN : flow_ctrl_mode(on)
           \/ db_close_events \/ ClientSignals \/ db_event_enable \/ FlushWait \/ Join
  <2>1. UNCHANGED <<evque, getix, nCanceled, nDuplicates, npend, pLastLog, ev_que>>
    BY <1>1 DEF db_event_disable, flow_ctrl_mode, db_close_events, ClientSignals, db_event_enable,
                FlushWait, Join, ringVars, subVars, pendVars
  <2> QED BY <2>1, BooksSame
<1>2. CASE db_post_single_event
  <2>1. cs \in Subs /\ user_sub[cs] /\ db_queue_event_log(cs)
    BY <1>2 DEF db_post_single_event, LifeInv, ControlTyped, ClientInv, SubInv, Occupied
  <2>2. PICK s \in Subs : s = cs
    BY <2>1
  <2> QED BY <2>1, <2>2, BooksLog
<1>3. CASE db_cancel_event
  <2>1. /\ cs \in Subs /\ ev_que[cs] # NULL /\ Purge(cs)
        /\ ev_que' \in {ev_que, [ev_que EXCEPT ![cs] = NULL]}
    BY <1>3 DEF db_cancel_event, Free, LifeInv, ControlTyped, ClientInv, Occupied
  <2> QED BY <2>1, BooksPurge
<1>4. CASE FlushDone
  <2>1. /\ UNCHANGED <<evque, getix, nCanceled, nDuplicates, npend, pLastLog>>
        /\ ev_que' \in {ev_que, [ev_que EXCEPT ![cs] = NULL]}
        /\ cs \in Subs /\ ~user_sub[cs]
    BY <1>4 DEF FlushDone, Free, ringVars, pendVars, LifeInv, ControlTyped, ClientInv, Occupied
  <2>2. PICK s \in Subs : s = cs
    BY <2>1
  <2>3. ev_que'[s] \in {ev_que[s], NULL} /\ \A t \in Subs : t # s => UNCHANGED ev_que[t]
    BY <2>1, <2>2 DEF LifeInv, ControlTyped
  <2>4. Mine(s) = {} /\ (ev_que'[s] = NULL => Mine(s)' = {})
    BY <2>1, <2>2, MineProps DEF Mine
  <2> QED BY <2>1, <2>3, <2>4, BooksMoved
<1> QED BY <1>1, <1>2, <1>3, <1>4, BooksAdd DEF ClientAsks, ClientStep

LEMMA BooksTask ==
  ASSUME LifeInv, LifeInv', BookInv, TaskStep
  PROVE  BookInv'
<1>1. CASE \/ event_task_wakes \/ event_read \/ QueueEmpty \/ Callback \/ SelfDisable
           \/ CallbackReturns \/ event_task_exits
  <2>1. UNCHANGED <<evque, getix, nCanceled, nDuplicates, npend, pLastLog, ev_que>>
    BY <1>1 DEF event_task_wakes, event_read, QueueEmpty, Callback, SelfDisable, CallbackReturns,
                event_task_exits, ringVars, subVars, pendVars
  <2> QED BY <2>1, BooksSame
<1>2. CASE SelfPurge
  <2>1. /\ es \in Subs /\ ev_que[es] # NULL /\ Purge(es)
        /\ ev_que' = [ev_que EXCEPT ![es] = NULL]
    BY <1>2 DEF SelfPurge, Free, LifeInv, ControlTyped, SelfPurgeInv, SubInv, Entered
  <2> QED BY <2>1, BooksPurge
<1> QED BY <1>1, <1>2, BooksSkip, BooksTake DEF TaskStep

LEMMA BooksAlways == DbEventSpec => []BookInv
<1>1. DbEventInit => BookInv
  <2> SUFFICES ASSUME DbEventInit PROVE BookInv
    OBVIOUS
  <2>1. BookTyped
    BY DEF DbEventInit, BookTyped
  <2>2. ASSUME NEW q \in Queues PROVE RingBooks(q)
    <3>1. /\ SlotsOf(evque[q], "canceled") = {} /\ EventsOf(evque[q]) = {}
          /\ OwnersOf(evque[q]) = {} /\ nCanceled[q] = 0 /\ nDuplicates[q] = 0
      BY DbEventAssumption DEF DbEventInit, SlotsOf, EventsOf, OwnersOf
    <3> QED BY <3>1, FS_EmptySet DEF RingBooks, Surplus
  <2>3. ASSUME NEW s \in Subs PROVE SubBooks(s)
    BY FS_EmptySet DEF DbEventInit, Mine, SubBooks, IsLast
  <2> QED BY <2>1, <2>2, <2>3 DEF BookInv
<1>2. LifeInv /\ LifeInv' /\ RingInv /\ BookInv /\ [DbEventNext]_eventVars => BookInv'
  <2>1. BookInv /\ UNCHANGED eventVars => BookInv'
    BY BooksSame DEF eventVars, ringVars, subVars, pendVars
  <2> QED BY <2>1, BooksScan, BooksClient, BooksTask DEF DbEventNext
<1> QED BY <1>1, <1>2, RingAlways, PTL DEF DbEventSpec

(***************************************************************************)
(* The counts and pLastLog agree with what is in the ring (BooksRight): a  *)
(* post, a take, a skip and a cancellation each keep them in step.         *)
(***************************************************************************)
THEOREM EventBooksRight == DbEventSpec => []BooksRight
<1>1. BookInv => BooksRight
  <2> SUFFICES ASSUME BookInv PROVE BooksRight
    OBVIOUS
  <2>1. \A q \in Queues : RingBooks(q)
    BY DEF BookInv
  <2>2. ASSUME NEW s \in Subs
        PROVE  /\ npend[s] = Cardinality(Mine(s))
               /\ IF Mine(s) = {} THEN pLastLog[s] = NULL
                  ELSE /\ pLastLog[s] \in Mine(s)
                       /\ \A i \in Mine(s) : Age(ev_que[s], i) <= Age(ev_que[s], pLastLog[s])
    BY DEF BookInv, SubBooks, IsLast, Age, AgeFrom
  <2> QED BY <2>1, <2>2 DEF BooksRight, RingBooks, SlotsOf, EventsOf, OwnersOf, Surplus
<1> QED BY <1>1, BooksAlways, PTL

-----------------------------------------------------------------------------
(***************************************************************************)
(* The quota a queue has given away is that of the blocks which use it, and *)
(* what is logged of a record's value has one of three meanings.           *)
(***************************************************************************)
Users(q) == {s \in Subs : ev_que[s] = q}

QuotaInv ==
  /\ quota \in [Queues -> Int]
  /\ \A q \in Queues : IsFiniteSet(Users(q)) /\ quota[q] = EVENTENTRIES * Cardinality(Users(q))

Logs == {"none", "current", "old"}

LogTyped ==
  /\ valque \in [Queues -> [Slots -> Logs]]
  /\ elog \in Logs
  /\ seen \in [Subs -> Logs]
  /\ missed \subseteq Subs

LEMMA Times == \A n \in Int : /\ EVENTENTRIES * (n + 1) = EVENTENTRIES * n + EVENTENTRIES
                              /\ EVENTENTRIES * (n - 1) = EVENTENTRIES * n - EVENTENTRIES
                              /\ EVENTENTRIES * n \in Int
BY DbEventAssumption

LEMMA QuotaSame ==
  ASSUME QuotaInv, UNCHANGED <<quota, ev_que>>
  PROVE  QuotaInv'
BY DEF QuotaInv, Users

LEMMA QuotaAdd ==
  ASSUME LifeInv, QuotaInv, NEW s \in Subs, db_add_event(s)
  PROVE  QuotaInv'
<1>1. PICK q \in Queues : /\ quota' = [quota EXCEPT ![q] = @ + EVENTENTRIES]
                          /\ ev_que' = [ev_que EXCEPT ![s] = q]
  BY DEF db_add_event
<1>2. ev_que[s] = NULL /\ NULL \notin Queues
  BY QueueNumbers DEF db_add_event
<1>3. ev_que \in [Subs -> Queues \cup {NULL}]
  BY DEF LifeInv, ControlTyped
<1>4. /\ Users(q)' = Users(q) \cup {s} /\ s \notin Users(q)
      /\ \A p \in Queues : p # q => Users(p)' = Users(p)
  BY <1>1, <1>2, <1>3 DEF Users
<1>5. IsFiniteSet(Users(q)) /\ Cardinality(Users(q)) \in Nat
  BY FS_CardinalityType DEF QuotaInv
<1>6. IsFiniteSet(Users(q)') /\ Cardinality(Users(q)') = Cardinality(Users(q)) + 1
  BY <1>4, <1>5, FS_AddElement
<1>7. /\ quota' \in [Queues -> Int] /\ quota'[q] = quota[q] + EVENTENTRIES
      /\ \A p \in Queues : p # q => quota'[p] = quota[p]
  BY <1>1, DbEventAssumption DEF QuotaInv
<1>8. quota'[q] = EVENTENTRIES * Cardinality(Users(q)')
  BY <1>5, <1>6, <1>7, Times DEF QuotaInv
<1> QED BY <1>4, <1>6, <1>7, <1>8 DEF QuotaInv

LEMMA QuotaFree ==
  ASSUME LifeInv, QuotaInv, NEW s \in Subs, ev_que[s] # NULL, Free(s)
  PROVE  QuotaInv'
<1>1. PICK q : q = ev_que[s]
  OBVIOUS
<1>2. /\ q \in Queues /\ NULL \notin Queues
      /\ quota' = [quota EXCEPT ![q] = @ - EVENTENTRIES]
      /\ ev_que' = [ev_que EXCEPT ![s] = NULL]
      /\ ev_que \in [Subs -> Queues \cup {NULL}]
  BY <1>1, QueueNumbers DEF Free, LifeInv, ControlTyped
<1>3. /\ Users(q)' = Users(q) \ {s} /\ s \in Users(q)
      /\ \A p \in Queues : p # q => Users(p)' = Users(p)
  BY <1>1, <1>2 DEF Users
<1>4. IsFiniteSet(Users(q)) /\ Cardinality(Users(q)) \in Nat
  BY <1>2, FS_CardinalityType DEF QuotaInv
<1>5. IsFiniteSet(Users(q)') /\ Cardinality(Users(q)') = Cardinality(Users(q)) - 1
  BY <1>3, <1>4, FS_RemoveElement
<1>6. /\ quota' \in [Queues -> Int] /\ quota'[q] = quota[q] - EVENTENTRIES
      /\ \A p \in Queues : p # q => quota'[p] = quota[p]
  BY <1>2, DbEventAssumption DEF QuotaInv
<1>7. quota'[q] = EVENTENTRIES * Cardinality(Users(q)')
  BY <1>2, <1>4, <1>5, <1>6, Times DEF QuotaInv
<1> QED BY <1>3, <1>5, <1>6, <1>7 DEF QuotaInv

LEMMA QuotaNext ==
  ASSUME LifeInv, QuotaInv, DbEventNext
  PROVE  QuotaInv'
<1>1. ASSUME NEW r \in Records, Process(r) \/ ScanStep(r) PROVE QuotaInv'
  <2>1. UNCHANGED <<quota, ev_que>>
    BY <1>1 DEF Process, ScanStep, db_post_events, PostOne, PostSignal, PostEnds, db_queue_event_log,
                subVars
  <2> QED BY <2>1, QuotaSame
<1>2. CASE \/ \E s \in Subs : db_event_disable(s)
           \/ \E on \in BOOLEAN : flow_ctrl_mode(on)
           \/ db_close_events \/ db_post_single_event \/ ClientSignals \/ db_event_enable
           \/ FlushWait \/ Join
  <2>1. UNCHANGED <<quota, ev_que>>
    BY <1>2 DEF db_event_disable, flow_ctrl_mode, db_close_events, ClientSignals, db_event_enable,
                FlushWait, Join, db_post_single_event, db_queue_event_log, subVars
  <2> QED BY <2>1, QuotaSame
<1>3. CASE db_cancel_event \/ FlushDone
  <2>1. cs \in Subs /\ ev_que[cs] # NULL /\ (Free(cs) \/ UNCHANGED <<quota, ev_que>>)
    BY <1>3 DEF db_cancel_event, FlushDone, LifeInv, ControlTyped, ClientInv, Occupied
  <2> QED BY <2>1, QuotaFree, QuotaSame
<1>4. CASE TaskStep /\ ~SelfPurge
  <2>1. UNCHANGED <<quota, ev_que>>
    BY <1>4 DEF TaskStep, event_task_wakes, event_read, QueueEmpty, Callback, SelfDisable,
                CallbackReturns, event_task_exits, SkipCanceled, TakeEvent, subVars
  <2> QED BY <2>1, QuotaSame
<1>5. CASE SelfPurge
  <2>1. es \in Subs /\ ev_que[es] # NULL /\ Free(es)
    BY <1>5 DEF SelfPurge, LifeInv, ControlTyped, SelfPurgeInv, SubInv, Entered
  <2> QED BY <2>1, QuotaFree
<1> QED BY <1>1, <1>2, <1>3, <1>4, <1>5, QuotaAdd DEF DbEventNext, ClientAsks, ClientStep

LEMMA QuotaAlways == DbEventSpec => []QuotaInv
<1>1. DbEventInit => QuotaInv
  <2> SUFFICES ASSUME DbEventInit PROVE QuotaInv
    OBVIOUS
  <2>1. \A q \in Queues : Users(q) = {} /\ quota[q] = 0
    BY QueueNumbers DEF DbEventInit, Users
  <2>2. IsFiniteSet({}) /\ Cardinality({}) = 0 /\ EVENTENTRIES * 0 = 0
    BY FS_EmptySet, DbEventAssumption
  <2>3. quota \in [Queues -> Int]
    BY DEF DbEventInit
  <2> QED BY <2>1, <2>2, <2>3 DEF QuotaInv
<1>2. LifeInv /\ QuotaInv /\ [DbEventNext]_eventVars => QuotaInv'
  BY QuotaNext, QuotaSame DEF eventVars, subVars
<1> QED BY <1>1, <1>2, LifeAlways, PTL DEF DbEventSpec

\* A subscription with events has its last one in pLastLog's slot.
LEMMA LastSlot ==
  ASSUME LifeInv, BookInv, NEW s \in Subs
  PROVE  /\ npend[s] \in Nat /\ (npend[s] = 0 <=> Mine(s) = {})
         /\ npend[s] > 0 => /\ ev_que[s] \in Queues /\ pLastLog[s] \in Slots
                            /\ evque[ev_que[s]][pLastLog[s]] = s /\ user_sub[s]
<1>1. Mine(s) \subseteq Slots /\ (Mine(s) # {} => ev_que[s] \in Queues /\ user_sub[s])
  BY MineProps
<1>2. IsFiniteSet(Mine(s)) /\ Cardinality(Mine(s)) \in Nat
  BY <1>1, SlotsFinite
<1>3. npend[s] = Cardinality(Mine(s)) /\ (Mine(s) # {} => pLastLog[s] \in Mine(s))
  BY DEF BookInv, SubBooks, IsLast
<1>4. npend[s] = 0 <=> Mine(s) = {}
  BY <1>2, <1>3, FS_EmptySet
<1>5. pLastLog[s] \in Mine(s) => evque[ev_que[s]][pLastLog[s]] = s
  BY DEF Mine
<1> QED BY <1>1, <1>2, <1>3, <1>4, <1>5

\* What is logged keeps its meaning, step by step.
LEMMA LogPost ==
  ASSUME LifeInv, BookInv, LogTyped, NEW s \in Subs, user_sub[s], db_queue_event_log(s),
         UNCHANGED <<elog, seen>>
  PROVE  LogTyped'
<1>1. missed' \subseteq Subs
  BY DEF db_queue_event_log, LogTyped
<1>2. PICK q, i : q \in Queues /\ i \in Slots /\ valque' = [valque EXCEPT ![q][i] = "current"]
  <2>1. CASE Replaces(s)
    <3>1. npend[s] > 0 /\ valque' = [valque EXCEPT ![ev_que[s]][pLastLog[s]] = "current"]
      BY <2>1 DEF Replaces, db_queue_event_log, ReplaceLast
    <3>2. ev_que[s] \in Queues /\ pLastLog[s] \in Slots
      BY <3>1, LastSlot
    <3> QED BY <3>1, <3>2
  <2>2. CASE ~Replaces(s)
    <3>1. valque' = [valque EXCEPT ![ev_que[s]][putix[ev_que[s]]] = "current"]
      BY <2>2 DEF db_queue_event_log, AppendEvent
    <3>2. ev_que[s] \in Queues /\ putix[ev_que[s]] \in Slots
      BY DEF LifeInv, ControlTyped, SubInv
    <3> QED BY <3>1, <3>2
  <2> QED BY <2>1, <2>2
<1>3. valque \in [Queues -> [Slots -> Logs]] /\ "current" \in Logs
  BY DEF LogTyped, Logs
<1> HIDE DEF Logs
<1>4. valque' \in [Queues -> [Slots -> Logs]]
  BY <1>2, <1>3, SlotWritten
<1> QED BY <1>1, <1>4 DEF LogTyped

LEMMA LogPurge ==
  ASSUME LifeInv, LogTyped, NEW s \in Subs, Purge(s)
  PROVE  valque' \in [Queues -> [Slots -> Logs]]
<1> DEFINE q == ev_que[s]
           mine == {j \in Slots : evque[q][j] = s}
<1>1. valque' = [valque EXCEPT ![q] =
                   [i \in Slots |-> IF i \in mine THEN "none" ELSE valque[q][i]]]
  BY PurgeIs
<1> HIDE DEF q, mine
<1>2. CASE q \in Queues
  BY <1>1, <1>2 DEF LogTyped, Logs
<1>3. CASE q \notin Queues
  BY <1>1, <1>3 DEF LogTyped
<1> QED BY <1>2, <1>3

LEMMA LogScan ==
  ASSUME LifeInv, BookInv, LogTyped, NEW r \in Records, Process(r) \/ ScanStep(r)
  PROVE  LogTyped'
<1>1. CASE Process(r)
  <2>1. \A x \in Logs : Aged(x) \in Logs
    BY DEF Aged, Logs
  <2>2. /\ \A q \in Queues, i \in Slots : valque[q][i] \in Logs
        /\ elog \in Logs /\ missed \subseteq Subs /\ \A s \in Subs : seen[s] \in Logs
    BY DEF LogTyped
  <2>3. valque' \in [Queues -> [Slots -> Logs]]
    BY <1>1, <2>1, <2>2 DEF Process
  <2>4. seen' \in [Subs -> Logs]
    BY <1>1, <2>1, <2>2 DEF Process
  <2>5. elog' \in Logs
    BY <1>1, <2>1, <2>2 DEF Process
  <2>6. UNCHANGED missed
    BY <1>1 DEF Process
  <2> QED BY <2>2, <2>3, <2>4, <2>5, <2>6 DEF LogTyped
<1>2. CASE db_post_events(r)
  <2>1. cpc = "enable" => cs \in Subs
    BY DEF LifeInv, ControlTyped, Occupied
  <2> QED BY <1>2, <2>1 DEF db_post_events, LogTyped, ringVars, taskVars
<1>3. CASE PostSignal(r) \/ PostEnds(r)
  BY <1>3 DEF PostSignal, PostEnds, LogTyped, ringVars, taskVars
<1>4. ASSUME NEW s \in Subs, PostOne(r, s) PROVE LogTyped'
  <2>1. user_sub[s] /\ db_queue_event_log(s) /\ UNCHANGED <<elog, seen>>
    BY <1>4 DEF PostOne, taskVars, LifeInv, TodoInv, SubInv
  <2> QED BY <2>1, LogPost
<1> QED BY <1>1, <1>2, <1>3, <1>4 DEF ScanStep

LEMMA LogClient ==
  ASSUME LifeInv, BookInv, LogTyped, ClientAsks \/ ClientStep
  PROVE  LogTyped'
<1>1. CASE \/ \E s \in Subs : db_event_disable(s)
           \/ \E on \in BOOLEAN : flow_ctrl_mode(on)
           \/ db_close_events \/ ClientSignals \/ db_event_enable \/ FlushWait \/ Join
  BY <1>1 DEF db_event_disable, flow_ctrl_mode, db_close_events, ClientSignals, db_event_enable,
              FlushWait, Join, ringVars, taskVars, LogTyped
<1>2. ASSUME NEW s \in Subs, db_add_event(s) PROVE LogTyped'
  <2>1. /\ UNCHANGED <<valque, elog>> /\ seen' = [seen EXCEPT ![s] = "none"]
        /\ missed' = missed \ {s}
    BY <1>2 DEF db_add_event, ringVars, taskVars
  <2> QED BY <2>1 DEF LogTyped, Logs
<1>3. CASE db_post_single_event
  <2>1. cs \in Subs /\ user_sub[cs] /\ db_queue_event_log(cs) /\ UNCHANGED <<elog, seen>>
    BY <1>3 DEF db_post_single_event, taskVars, LifeInv, ControlTyped, ClientInv, SubInv, Occupied
  <2> QED BY <2>1, LogPost
<1>4. CASE db_cancel_event
  <2>1. cs \in Subs /\ Purge(cs) /\ UNCHANGED <<elog, seen>> /\ missed' \in {missed, missed \ {cs}}
    BY <1>4 DEF db_cancel_event, Free, taskVars, LifeInv, ControlTyped, Occupied
  <2> QED BY <2>1, LogPurge DEF LogTyped
<1>5. CASE FlushDone
  BY <1>5 DEF FlushDone, Free, ringVars, taskVars, LogTyped
<1> QED BY <1>1, <1>2, <1>3, <1>4, <1>5 DEF ClientAsks, ClientStep

LEMMA LogTask ==
  ASSUME LifeInv, LogTyped, TaskStep
  PROVE  LogTyped'
<1>1. CASE event_task_wakes \/ event_read \/ QueueEmpty \/ CallbackReturns \/ event_task_exits
  <2>1. UNCHANGED <<valque, seen, missed>> /\ elog' = "none"
    BY <1>1 DEF event_task_wakes, event_read, QueueEmpty, CallbackReturns, event_task_exits,
                NextQueue, TaskAt, ringVars
  <2> QED BY <2>1 DEF LogTyped, Logs
<1>2. CASE SkipCanceled \/ SelfDisable
  BY <1>2 DEF SkipCanceled, SelfDisable, TaskAt, ringVars, taskVars, LogTyped
<1>3. CASE Callback
  <2>1. UNCHANGED <<valque, missed>> /\ elog' = "none" /\ seen' = [seen EXCEPT ![es] = elog]
    BY <1>3 DEF Callback, TaskAt, ringVars
  <2> QED BY <2>1 DEF LogTyped, Logs
<1>4. CASE SelfPurge
  <2>1. es \in Subs /\ Purge(es) /\ UNCHANGED <<elog, seen>> /\ missed' = missed \ {es}
    BY <1>4 DEF SelfPurge, Free, TaskAt, LifeInv, ControlTyped, Entered
  <2> QED BY <2>1, LogPurge DEF LogTyped
<1>5. CASE TakeEvent
  <2>1. /\ valque' = [valque EXCEPT ![eq][getix[eq]] = "none"]
        /\ elog' = valque[eq][getix[eq]] /\ UNCHANGED <<seen, missed>>
    BY <1>5 DEF TakeEvent, TaskAt
  <2>2. /\ eq \in Queues /\ getix[eq] \in Slots /\ "none" \in Logs
        /\ valque \in [Queues -> [Slots -> Logs]]
    BY DEF LifeInv, ControlTyped, LogTyped, Logs
  <2> HIDE DEF Logs
  <2>3. valque' \in [Queues -> [Slots -> Logs]]
    BY <2>1, <2>2, SlotWritten
  <2> QED BY <2>1, <2>2, <2>3 DEF LogTyped
<1> QED BY <1>1, <1>2, <1>3, <1>4, <1>5 DEF TaskStep

LEMMA LogAlways == DbEventSpec => []LogTyped
<1>1. DbEventInit => LogTyped
  BY DEF DbEventInit, LogTyped, Logs
<1>2. LifeInv /\ BookInv /\ LogTyped /\ [DbEventNext]_eventVars => LogTyped'
  <2>1. LogTyped /\ UNCHANGED eventVars => LogTyped'
    BY DEF LogTyped, eventVars, ringVars, taskVars
  <2> QED BY <2>1, LogScan, LogClient, LogTask DEF DbEventNext
<1> QED BY <1>1, <1>2, LifeAlways, BooksAlways, PTL DEF DbEventSpec

(***************************************************************************)
(* Every variable of dbEvent.c's queues keeps its type; in particular the  *)
(* counts nDuplicates, nCanceled, npend and quota, unsigned in the code,   *)
(* are never taken below zero.                                             *)
(***************************************************************************)
THEOREM EventTypes == DbEventSpec => []DbEventTypeOK
<1>1. LifeInv /\ BookInv /\ QuotaInv /\ LogTyped => DbEventTypeOK
  <2> SUFFICES ASSUME LifeInv, BookInv, QuotaInv, LogTyped PROVE DbEventTypeOK
    OBVIOUS
  <2>1. quota \in [Queues -> Nat]
    <3>1. \A q \in Queues : quota[q] \in Nat
      <4> SUFFICES ASSUME NEW q \in Queues PROVE quota[q] \in Nat
        OBVIOUS
      <4>1. Cardinality(Users(q)) \in Nat /\ quota[q] = EVENTENTRIES * Cardinality(Users(q))
        BY FS_CardinalityType DEF QuotaInv
      <4> QED BY <4>1, DbEventAssumption
    <3> QED BY <3>1 DEF QuotaInv
  <2>2. nCanceled \in [Queues -> Nat] /\ nDuplicates \in [Queues -> Nat]
    <3>1. ASSUME NEW q \in Queues PROVE nCanceled[q] \in Nat /\ nDuplicates[q] \in Nat
      <4>1. Surplus(evque[q]) \in Nat
        BY RingsTyped, OwnersProps
      <4>2. Cardinality(SlotsOf(evque[q], "canceled")) \in Nat
        BY SlotsFinite DEF SlotsOf
      <4> QED BY <4>1, <4>2 DEF BookInv, RingBooks
    <3> QED BY <3>1 DEF BookInv, BookTyped
  <2>3. npend \in [Subs -> Nat]
    <3>1. \A s \in Subs : npend[s] \in Nat
      BY LastSlot
    <3> QED BY <3>1 DEF LifeInv, ControlTyped
  <2> QED BY <2>1, <2>2, <2>3 DEF LifeInv, ControlTyped, BookInv, BookTyped, LogTyped, Logs,
                                  DbEventTypeOK
<1> QED BY <1>1, LifeAlways, BooksAlways, QuotaAlways, LogAlways, PTL

-----------------------------------------------------------------------------
(***************************************************************************)
(* The newest event of a subscription that has had its first event carries *)
(* the record's value, from the time its record has posted a change to it; *)
(* between the first event and its signal the record is locked.            *)
(***************************************************************************)
Posted(s) == cs = s /\ cpc \in {"post_signal", "enable"}

Told(s) == Posted(s) \/ (enabled[s] /\ s \notin todo[RecOf[s]])

TellInv ==
  /\ \A s \in Subs : s \notin missed /\ rpc[RecOf[s]] # "changed" /\ Told(s) => Newest(s) = "current"
  /\ cpc = "post_signal" => rpc[RecOf[cs]] = "idle"

LEMMA NewestIs ==
  ASSUME NEW s \in Subs, npend[s] \in Nat
  PROVE  /\ npend[s] > 0 => Newest(s) = valque[ev_que[s]][pLastLog[s]]
         /\ npend[s] = 0 /\ epc = "callback" /\ es = s => Newest(s) = elog
         /\ npend[s] = 0 /\ ~(epc = "callback" /\ es = s) => Newest(s) = seen[s]
BY DEF Newest

LEMMA NewestIsThen ==
  ASSUME NEW s \in Subs, npend'[s] \in Nat
  PROVE  /\ npend'[s] > 0 => Newest(s)' = valque'[ev_que'[s]][pLastLog'[s]]
         /\ npend'[s] = 0 /\ epc' = "callback" /\ es' = s => Newest(s)' = elog'
         /\ npend'[s] = 0 /\ ~(epc' = "callback" /\ es' = s) => Newest(s)' = seen'[s]
BY DEF Newest

\* A subscription none of whose events a step touches.
LEMMA NewestSame ==
  ASSUME LifeInv, BookInv, NEW t \in Subs, UNCHANGED <<ev_que[t], npend[t], pLastLog[t], seen[t]>>,
         npend[t] > 0 => valque'[ev_que[t]][pLastLog[t]] = valque[ev_que[t]][pLastLog[t]],
         epc' = "callback" /\ es' = t <=> epc = "callback" /\ es = t,
         epc = "callback" /\ es = t => UNCHANGED elog
  PROVE  Newest(t)' = Newest(t)
<1>1. npend[t] \in Nat
  BY LastSlot
<1> QED BY <1>1, NewestIs, NewestIsThen

\* A step that makes no new subscription one that has been told.
LEMMA TellKeeps ==
  ASSUME TellInv, UNCHANGED <<rpc, todo>>,
         cpc' = "post_signal" => cpc = "post_signal" /\ UNCHANGED cs,
         \A t \in Subs : t \notin missed' /\ Told(t)' =>
           t \notin missed /\ Told(t) /\ Newest(t)' = Newest(t)
  PROVE  TellInv'
BY DEF TellInv

\* Of an event that is logged: it is the newest of its subscription.
LEMMA NewestLogged ==
  ASSUME LifeInv, LifeInv', BookInv, BookInv', LogTyped, NEW s \in Subs, user_sub[s],
         db_queue_event_log(s), UNCHANGED <<epc, es, elog, seen>>
  PROVE  Newest(s)' = "current" /\ \A t \in Subs : t # s => Newest(t)' = Newest(t)
<1>0. /\ UNCHANGED ev_que /\ valque \in [Queues -> [Slots -> Logs]] /\ "current" \in Logs
      /\ npend \in [Subs -> Int] /\ pLastLog \in [Subs -> Slots \cup {NULL}]
  BY DEF db_queue_event_log, subVars, LogTyped, Logs, LifeInv, ControlTyped, BookInv, BookTyped
<1> HIDE DEF Logs
<1>1. PICK q, k :
        /\ q = ev_que[s] /\ q \in Queues /\ k \in Slots /\ evque[q][k] \in {s, "empty"}
        /\ valque' = [valque EXCEPT ![q][k] = "current"]
        /\ pLastLog'[s] = k /\ npend'[s] > 0
        /\ \A t \in Subs : t # s => UNCHANGED <<npend[t], pLastLog[t]>>
  <2>1. CASE Replaces(s)
    <3>1. /\ npend[s] > 0 /\ valque' = [valque EXCEPT ![ev_que[s]][pLastLog[s]] = "current"]
          /\ UNCHANGED <<npend, pLastLog>>
      BY <2>1 DEF Replaces, db_queue_event_log, ReplaceLast, pendVars
    <3>2. ev_que[s] \in Queues /\ pLastLog[s] \in Slots /\ evque[ev_que[s]][pLastLog[s]] = s
      BY <3>1, LastSlot
    <3> QED BY <3>1, <3>2
  <2>2. CASE ~Replaces(s)
    <3>1. /\ valque' = [valque EXCEPT ![ev_que[s]][putix[ev_que[s]]] = "current"]
          /\ pLastLog' = [pLastLog EXCEPT ![s] = putix[ev_que[s]]]
          /\ npend' = [npend EXCEPT ![s] = @ + 1]
          /\ evque[ev_que[s]][putix[ev_que[s]]] = "empty"
      BY <2>2 DEF db_queue_event_log, AppendEvent
    <3>2. ev_que[s] \in Queues /\ putix[ev_que[s]] \in Slots
      BY DEF LifeInv, ControlTyped, SubInv
    <3>3. npend[s] \in Nat
      BY LastSlot
    <3>4. /\ pLastLog'[s] = putix[ev_que[s]] /\ npend'[s] > 0
          /\ \A t \in Subs : t # s => UNCHANGED <<npend[t], pLastLog[t]>>
      BY <1>0, <3>1, <3>3
    <3> QED BY <3>1, <3>2, <3>4
  <2> QED BY <2>1, <2>2
<1>2. /\ valque'[q][k] = "current"
      /\ \A p \in Queues, j \in Slots : p # q \/ j # k => valque'[p][j] = valque[p][j]
  BY <1>0, <1>1, SlotWritten
<1>3. Newest(s)' = "current"
  <2>1. npend'[s] \in Nat
    BY <1>0, <1>1 DEF LifeInv, ControlTyped
  <2> QED BY <1>0, <1>1, <1>2, <2>1, NewestIsThen
<1>4. ASSUME NEW t \in Subs, t # s PROVE Newest(t)' = Newest(t)
  <2>1. npend[t] > 0 => valque'[ev_que[t]][pLastLog[t]] = valque[ev_que[t]][pLastLog[t]]
    <3> SUFFICES ASSUME npend[t] > 0
                 PROVE  valque'[ev_que[t]][pLastLog[t]] = valque[ev_que[t]][pLastLog[t]]
      OBVIOUS
    <3>1. /\ ev_que[t] \in Queues /\ pLastLog[t] \in Slots
          /\ evque[ev_que[t]][pLastLog[t]] = t
      BY LastSlot
    <3>2. ev_que[t] # q \/ pLastLog[t] # k
      BY <1>1, <1>4, <3>1, DbEventAssumption
    <3> QED BY <1>2, <3>1, <3>2
  <2> QED BY <1>0, <1>1, <1>4, <2>1, NewestSame
<1> QED BY <1>3, <1>4

\* A cancellation leaves the other subscriptions their events.
LEMMA NewestPurged ==
  ASSUME LifeInv, BookInv, LogTyped, NEW s \in Subs, ev_que[s] # NULL, Purge(s),
         NEW t \in Subs, t # s, UNCHANGED <<ev_que[t], seen, elog, es>>,
         epc' = "callback" <=> epc = "callback"
  PROVE  Newest(t)' = Newest(t)
<1> DEFINE q == ev_que[s]
           mine == {j \in Slots : evque[q][j] = s}
<1>1. /\ valque' = [valque EXCEPT ![q] =
                      [i \in Slots |-> IF i \in mine THEN "none" ELSE valque[q][i]]]
      /\ npend' = [npend EXCEPT ![s] = 0] /\ pLastLog' = [pLastLog EXCEPT ![s] = NULL]
  BY PurgeIs
<1>2. UNCHANGED <<npend[t], pLastLog[t]>>
  BY <1>1 DEF LifeInv, ControlTyped, BookInv, BookTyped
<1>3. q = ev_que[s] /\ q \in Queues /\ \A i \in mine : evque[q][i] = s
  BY DEF LifeInv, ControlTyped
<1>4. npend[t] > 0 => valque'[ev_que[t]][pLastLog[t]] = valque[ev_que[t]][pLastLog[t]]
  <2> SUFFICES ASSUME npend[t] > 0
               PROVE  valque'[ev_que[t]][pLastLog[t]] = valque[ev_que[t]][pLastLog[t]]
    OBVIOUS
  <2> HIDE DEF q, mine
  <2>1. PICK p, i : p = ev_que[t] /\ i = pLastLog[t]
    OBVIOUS
  <2>2. p \in Queues /\ i \in Slots /\ evque[p][i] = t
    BY <2>1, LastSlot
  <2>3. p # q \/ i \notin mine
    BY <1>3, <2>2
  <2>4. valque'[p][i] = valque[p][i]
    BY <1>1, <1>3, <2>2, <2>3 DEF LogTyped
  <2> QED BY <2>1, <2>4
<1> QED BY <1>2, <1>4, NewestSame

\* A change of a record ages only what is logged of it.
LEMMA NewestAged ==
  ASSUME LifeInv, BookInv, LogTyped, NEW r \in Records, Process(r), NEW t \in Subs, RecOf[t] # r
  PROVE  Newest(t)' = Newest(t)
<1>1. /\ UNCHANGED <<ev_que, npend, pLastLog, epc, es>>
      /\ valque' = [q \in Queues |-> [i \in Slots |->
                      IF evque[q][i] \in Subs /\ RecOf[evque[q][i]] = r
                      THEN Aged(valque[q][i]) ELSE valque[q][i]]]
      /\ elog' = IF es \in Subs /\ RecOf[es] = r THEN Aged(elog) ELSE elog
      /\ seen' = [s \in Subs |-> IF RecOf[s] = r THEN Aged(seen[s]) ELSE seen[s]]
  BY DEF Process, subVars, pendVars
<1>2. UNCHANGED seen[t] /\ (es = t => UNCHANGED elog)
  BY <1>1
<1>3. npend[t] > 0 => valque'[ev_que[t]][pLastLog[t]] = valque[ev_que[t]][pLastLog[t]]
  <2> SUFFICES ASSUME npend[t] > 0
               PROVE  valque'[ev_que[t]][pLastLog[t]] = valque[ev_que[t]][pLastLog[t]]
    OBVIOUS
  <2>1. PICK p, i : p = ev_que[t] /\ i = pLastLog[t]
    OBVIOUS
  <2>2. p \in Queues /\ i \in Slots /\ evque[p][i] = t
    BY <2>1, LastSlot
  <2>3. valque'[p][i] = valque[p][i]
    BY <1>1, <2>2
  <2> QED BY <2>1, <2>3
<1> QED BY <1>1, <1>2, <1>3, NewestSame

LEMMA TellScan ==
  ASSUME LifeInv, LifeInv', BookInv, BookInv', LogTyped, TellInv,
         NEW r \in Records, Process(r) \/ ScanStep(r)
  PROVE  TellInv'
<1>0. /\ rpc \in [Records -> {"idle", "changed", "posting", "signal"}]
      /\ todo \in [Records -> SUBSET Subs] /\ RecOf \in [Subs -> Records]
  BY DbEventAssumption DEF LifeInv, ControlTyped
<1>1. CASE Process(r)
  <2>1. /\ rpc' = [rpc EXCEPT ![r] = "changed"] /\ UNCHANGED <<cpc, cs, todo, enabled, missed>>
        /\ ~(cpc = "post_signal" /\ RecOf[cs] = r)
    BY <1>1 DEF Process, ScanLockFree, subVars
  <2>2. \A s \in Subs : Told(s)' = Told(s)
    BY <2>1 DEF Told, Posted
  <2>3. /\ rpc'[r] = "changed" /\ \A p \in Records : p # r => rpc'[p] = rpc[p]
    BY <1>0, <2>1
  <2>4. cpc = "post_signal" => cs \in Subs
    BY DEF LifeInv, ControlTyped, Occupied
  <2>5. \A s \in Subs : RecOf[s] \in Records
    BY <1>0
  <2>6. \A s \in Subs : RecOf[s] # r => Newest(s)' = Newest(s)
    BY <1>1, NewestAged
  <2> QED BY <2>1, <2>2, <2>3, <2>4, <2>5, <2>6 DEF TellInv
<1>2. CASE db_post_events(r)
  <2>1. /\ rpc[r] = "changed" /\ rpc' = [rpc EXCEPT ![r] = "posting"]
        /\ todo' = [todo EXCEPT ![r] = {s \in Subs : enabled[s] /\ RecOf[s] = r}]
        /\ missed' = (IF cpc = "enable" /\ RecOf[cs] = r THEN missed \cup {cs} ELSE missed)
        /\ UNCHANGED <<cpc, cs, enabled, valque, ev_que, npend, pLastLog, seen, epc, es, elog>>
    BY <1>2 DEF db_post_events, subVars, pendVars, ringVars, taskVars
  <2>2. \A s \in Subs : Newest(s)' = Newest(s)
    BY <2>1, NewestSame
  <2>3. /\ rpc'[r] = "posting" /\ todo'[r] = {s \in Subs : enabled[s] /\ RecOf[s] = r}
        /\ \A p \in Records : p # r => rpc'[p] = rpc[p] /\ todo'[p] = todo[p]
    BY <1>0, <2>1
  <2>4. cpc = "post_signal" => cs \in Subs /\ RecOf[cs] # r
    BY <2>1 DEF LifeInv, ControlTyped, Occupied, TellInv
  <2>5. ASSUME NEW s \in Subs, s \notin missed', rpc'[RecOf[s]] # "changed", Told(s)'
        PROVE  Newest(s) = "current"
    <3>1. CASE RecOf[s] = r
      <4>1. ~enabled[s] \/ s \in todo'[r]
        BY <2>3, <3>1
      <4>2. cs = s /\ cpc \in {"post_signal", "enable"}
        BY <2>1, <2>5, <3>1, <4>1 DEF Told, Posted
      <4>3. cpc = "enable" => s \in missed'
        BY <2>1, <3>1, <4>2
      <4> QED BY <2>4, <2>5, <3>1, <4>2, <4>3
    <3>2. CASE RecOf[s] # r
      <4>1. RecOf[s] \in Records
        BY <1>0
      <4>2. rpc[RecOf[s]] # "changed" /\ Told(s) /\ s \notin missed
        BY <2>1, <2>3, <2>5, <3>2, <4>1 DEF Told, Posted
      <4> QED BY <4>2 DEF TellInv
    <3> QED BY <3>1, <3>2
  <2>6. cpc = "post_signal" => rpc'[RecOf[cs]] = "idle"
    BY <1>0, <2>3, <2>4 DEF TellInv
  <2> QED BY <2>1, <2>2, <2>5, <2>6 DEF TellInv
<1>3. CASE PostSignal(r) \/ PostEnds(r)
  <2>1. /\ rpc[r] \in {"posting", "signal"}
        /\ rpc' \in {[rpc EXCEPT ![r] = "posting"], [rpc EXCEPT ![r] = "idle"]}
        /\ UNCHANGED <<todo, missed, cpc, cs, enabled, valque, ev_que, npend, pLastLog, seen, epc, es,
                       elog>>
    BY <1>3 DEF PostSignal, PostEnds, subVars, pendVars, ringVars, taskVars
  <2>2. \A s \in Subs : Newest(s)' = Newest(s)
    BY <2>1, NewestSame
  <2>3. /\ rpc'[r] # "changed" /\ \A p \in Records : p # r => rpc'[p] = rpc[p]
    BY <1>0, <2>1
  <2>4. \A s \in Subs : RecOf[s] \in Records
    BY <1>0
  <2>5. cpc = "post_signal" => cs \in Subs /\ RecOf[cs] # r
    BY <2>1 DEF LifeInv, ControlTyped, Occupied, TellInv
  <2>6. \A s \in Subs : /\ Told(s)' => Told(s)
                       /\ (rpc'[RecOf[s]] # "changed" => rpc[RecOf[s]] # "changed")
    BY <2>1, <2>3, <2>4 DEF Told, Posted
  <2>7. cpc = "post_signal" => rpc'[RecOf[cs]] = "idle"
    BY <2>3, <2>4, <2>5 DEF TellInv
  <2> QED BY <2>1, <2>2, <2>6, <2>7 DEF TellInv
<1>4. ASSUME NEW s \in Subs, PostOne(r, s) PROVE TellInv'
  <2>1. /\ rpc[r] = "posting" /\ s \in todo[r] /\ db_queue_event_log(s)
        /\ rpc' = [rpc EXCEPT ![r] = IF FirstEvent(s) THEN "signal" ELSE @]
        /\ todo' = [todo EXCEPT ![r] = @ \ {s}]
        /\ missed' = missed \ {s}
        /\ UNCHANGED <<cpc, cs, enabled, seen, epc, es, elog>>
    BY <1>4 DEF PostOne, db_queue_event_log, subVars, taskVars
  <2>2. user_sub[s] /\ RecOf[s] = r
    BY <2>1 DEF LifeInv, TodoInv, SubInv
  <2>3. Newest(s)' = "current" /\ \A t \in Subs : t # s => Newest(t)' = Newest(t)
    BY <2>1, <2>2, NewestLogged
  <2>4. /\ rpc'[r] # "changed" /\ \A p \in Records : p # r => rpc'[p] = rpc[p]
        /\ \A p \in Records, t \in Subs : t # s => (t \in todo'[p] <=> t \in todo[p])
    BY <1>0, <2>1
  <2>5. \A t \in Subs : RecOf[t] \in Records
    BY <1>0
  <2>6. cpc = "post_signal" => cs \in Subs /\ RecOf[cs] # r
    BY <2>1 DEF LifeInv, ControlTyped, Occupied, TellInv
  <2>7. \A t \in Subs : t # s /\ Told(t)' => Told(t)
    BY <2>1, <2>4, <2>5 DEF Told, Posted
  <2>8. \A t \in Subs : rpc'[RecOf[t]] # "changed" => rpc[RecOf[t]] # "changed"
    BY <2>1, <2>4, <2>5
  <2>9. cpc = "post_signal" => rpc'[RecOf[cs]] = "idle"
    BY <2>4, <2>5, <2>6 DEF TellInv
  <2> QED BY <2>1, <2>3, <2>7, <2>8, <2>9 DEF TellInv
<1> QED BY <1>1, <1>2, <1>3, <1>4 DEF ScanStep

\* A step that leaves the events and what the client was told alone.
LEMMA TellQuiet ==
  ASSUME LifeInv, BookInv, TellInv, UNCHANGED <<valque, ev_que, npend, pLastLog, seen, rpc, todo>>,
         cpc' = "post_signal" => cpc = "post_signal" /\ UNCHANGED cs,
         cpc' = "enable" => cpc \in {"post_signal", "enable"} /\ UNCHANGED cs,
         \A t \in Subs : t \in missed \ missed' => ~enabled'[t] /\ cs' # t,
         \A t \in Subs : enabled'[t] => enabled[t] \/ (cpc = "enable" /\ cs = t),
         epc' = "callback" => epc = "callback" /\ UNCHANGED <<es, elog>>,
         epc = "callback" => epc' = "callback"
  PROVE  TellInv'
<1>1. ASSUME NEW t \in Subs PROVE Newest(t)' = Newest(t)
  BY NewestSame
<1>2. ASSUME NEW t \in Subs, t \notin missed', Told(t)' PROVE t \notin missed /\ Told(t)
  BY <1>2 DEF Told, Posted
<1> QED BY <1>1, <1>2, TellKeeps

LEMMA TellAdd ==
  ASSUME LifeInv, BookInv, TellInv, NEW s \in Subs, db_add_event(s)
  PROVE  TellInv'
<1>1. PICK q \in Queues : ev_que' = [ev_que EXCEPT ![s] = q]
  BY DEF db_add_event
<1>2. /\ ev_que[s] = NULL /\ cpc' = "post"
      /\ seen' = [seen EXCEPT ![s] = "none"] /\ missed' = missed \ {s}
      /\ UNCHANGED <<valque, npend, pLastLog, enabled, rpc, todo, epc, es, elog>>
  BY DEF db_add_event, ClientAt, ringVars, pendVars, taskVars
<1>3. ~enabled[s]
  BY <1>2 DEF LifeInv, SubInv
<1>4. ASSUME NEW t \in Subs, t # s PROVE Newest(t)' = Newest(t)
  <2>1. UNCHANGED <<ev_que[t], seen[t]>>
    BY <1>1, <1>2, <1>4 DEF LifeInv, ControlTyped
  <2> QED BY <1>2, <2>1, NewestSame
<1>5. ASSUME NEW t \in Subs, t \notin missed', Told(t)'
      PROVE  t \notin missed /\ Told(t) /\ Newest(t)' = Newest(t)
  <2>1. enabled[t] /\ t \notin todo[RecOf[t]] /\ t # s
    BY <1>2, <1>3, <1>5 DEF Told, Posted
  <2> QED BY <1>2, <1>4, <1>5, <2>1 DEF Told
<1> QED BY <1>2, <1>5, TellKeeps

LEMMA TellPurge ==
  ASSUME LifeInv, BookInv, LogTyped, TellInv, NEW s \in Subs, ev_que[s] # NULL, Purge(s),
         ~enabled[s], ~Posted(s), UNCHANGED <<rpc, todo, enabled, seen, elog, es>>,
         epc' = "callback" <=> epc = "callback",
         cpc' \in {"post_signal", "enable"} => UNCHANGED <<cpc, cs>>,
         ev_que' \in {ev_que, [ev_que EXCEPT ![s] = NULL]}, missed' \in {missed, missed \ {s}}
  PROVE  TellInv'
<1>1. ASSUME NEW t \in Subs, t # s PROVE Newest(t)' = Newest(t)
  <2>1. UNCHANGED ev_que[t]
    BY <1>1 DEF LifeInv, ControlTyped
  <2> QED BY <1>1, <2>1, NewestPurged
<1>2. ASSUME NEW t \in Subs, t \notin missed', Told(t)'
      PROVE  t \notin missed /\ Told(t) /\ Newest(t)' = Newest(t)
  <2>1. Told(t) /\ t # s
    BY <1>2 DEF Told, Posted
  <2> QED BY <1>1, <1>2, <2>1
<1> QED BY <1>2, TellKeeps

LEMMA TellClient ==
  ASSUME LifeInv, LifeInv', BookInv, BookInv', LogTyped, TellInv, ClientAsks \/ ClientStep
  PROVE  TellInv'
<1>1. CASE \/ \E s \in Subs : db_event_disable(s)
           \/ \E on \in BOOLEAN : flow_ctrl_mode(on)
           \/ db_close_events \/ ClientSignals \/ FlushWait \/ Join
  <2>1. /\ UNCHANGED <<valque, ev_que, npend, pLastLog, seen, rpc, todo, missed, epc, es, elog>>
        /\ cpc' # "post_signal" /\ (cpc' = "enable" => cpc = "post_signal" /\ UNCHANGED cs)
    BY <1>1 DEF db_event_disable, flow_ctrl_mode, db_close_events, ClientSignals, FlushWait, Join,
                ClientAt, ringVars, subVars, pendVars, taskVars
  <2>2. \A t \in Subs : enabled'[t] => enabled[t]
    <3>1. UNCHANGED enabled \/ \E s \in Subs : enabled' = [enabled EXCEPT ![s] = FALSE]
      BY <1>1 DEF db_event_disable, flow_ctrl_mode, db_close_events, ClientSignals, FlushWait, Join,
                  subVars
    <3>2. enabled \in [Subs -> BOOLEAN]
      BY DEF LifeInv, ControlTyped
    <3> QED BY <3>1, <3>2
  <2> QED BY <2>1, <2>2, TellQuiet
<1>2. CASE db_post_single_event
  <2>1. /\ cs \in Subs /\ user_sub[cs] /\ db_queue_event_log(cs) /\ rpc[RecOf[cs]] = "idle"
        /\ cpc = "post" /\ UNCHANGED <<cs, enabled, rpc, todo, seen, epc, es, elog>>
        /\ missed' = missed \ {cs}
    BY <1>2 DEF db_post_single_event, db_queue_event_log, ScanLockFree, ClientAt, subVars, taskVars,
                LifeInv, ControlTyped, ClientInv, SubInv, Occupied
  <2>2. PICK s \in Subs : s = cs
    BY <2>1
  <2>3. Newest(s)' = "current" /\ \A t \in Subs : t # s => Newest(t)' = Newest(t)
    BY <2>1, <2>2, NewestLogged
  <2>4. \A t \in Subs : t # s /\ Told(t)' => Told(t)
    BY <2>1, <2>2 DEF Told, Posted
  <2> QED BY <2>1, <2>2, <2>3, <2>4 DEF TellInv
<1>3. CASE db_event_enable
  <2>1. /\ UNCHANGED <<valque, ev_que, npend, pLastLog, seen, rpc, todo, missed, epc, es, elog>>
        /\ cpc = "enable" /\ cpc' = "idle" /\ cs \in Subs
        /\ enabled' = [enabled EXCEPT ![cs] = TRUE]
    BY <1>3 DEF db_event_enable, ClientAt, ringVars, pendVars, taskVars, LifeInv, ControlTyped, Occupied
  <2>2. \A t \in Subs : enabled'[t] => enabled[t] \/ cs = t
    BY <2>1 DEF LifeInv, ControlTyped
  <2> QED BY <2>1, <2>2, TellQuiet
<1>4. CASE db_cancel_event
  <2>1. /\ cs \in Subs /\ ev_que[cs] # NULL /\ Purge(cs) /\ ~enabled[cs] /\ cpc = "purge"
        /\ UNCHANGED <<rpc, todo, enabled, seen, elog, es, epc>>
        /\ cpc' \in {"flush", "idle"}
        /\ ev_que' \in {ev_que, [ev_que EXCEPT ![cs] = NULL]} /\ missed' \in {missed, missed \ {cs}}
    BY <1>4 DEF db_cancel_event, Free, ClientAt, taskVars, LifeInv, ControlTyped, ClientInv, Occupied
  <2>2. ~Posted(cs)
    BY <2>1 DEF Posted
  <2> QED BY <2>1, <2>2, TellPurge
<1>5. CASE FlushDone
  <2>1. /\ cs \in Subs /\ ~enabled[cs] /\ cpc = "flushed"
        /\ UNCHANGED <<valque, npend, pLastLog, rpc, todo, enabled, seen, elog, es, epc>>
        /\ cpc' \in {"flush", "idle"}
        /\ ev_que' \in {ev_que, [ev_que EXCEPT ![cs] = NULL]} /\ missed' \in {missed, missed \ {cs}}
    BY <1>5 DEF FlushDone, Free, ClientAt, ringVars, pendVars, taskVars, LifeInv, ControlTyped,
                ClientInv, Occupied
  <2>2. ASSUME NEW t \in Subs, t \notin missed', Told(t)'
        PROVE  t \notin missed /\ Told(t) /\ Newest(t)' = Newest(t)
    <3>1. Told(t) /\ t # cs
      BY <2>1, <2>2 DEF Told, Posted
    <3>2. UNCHANGED ev_que[t]
      BY <2>1, <3>1 DEF LifeInv, ControlTyped
    <3>3. Newest(t)' = Newest(t)
      BY <2>1, <3>2, NewestSame
    <3> QED BY <2>1, <2>2, <3>1, <3>3
  <2> QED BY <2>1, <2>2, TellKeeps
<1> QED BY <1>1, <1>2, <1>3, <1>4, <1>5, TellAdd DEF ClientAsks, ClientStep

\* The event task moves the newest event to the callback if it is the only one.
LEMMA TellTake ==
  ASSUME LifeInv, BookInv, BookInv', LifeInv', LogTyped, TellInv, TakeEvent
  PROVE  TellInv'
<1>0. PICK q, k, s : q = eq /\ k = getix[q] /\ s = evque[q][k]
  OBVIOUS
<1>1. q \in Queues /\ k \in Slots /\ valque \in [Queues -> [Slots -> Logs]] /\ "none" \in Logs
  BY <1>0 DEF LifeInv, ControlTyped, LogTyped, Logs
<1> HIDE DEF Logs
<1>2. /\ s \in Subs /\ epc = "drain" /\ valque' = [valque EXCEPT ![q][k] = "none"]
      /\ pLastLog' = [pLastLog EXCEPT ![s] = IF npend[s] = 1 THEN NULL ELSE @]
      /\ npend' = [npend EXCEPT ![s] = @ - 1]
      /\ epc' = "callback" /\ es' = s /\ elog' = valque[q][k]
      /\ UNCHANGED <<ev_que, enabled, cpc, cs, rpc, todo, seen, missed>>
  BY <1>0 DEF TakeEvent, Oldest, TaskAt
<1>3. /\ valque'[q][k] = "none"
      /\ \A p \in Queues, j \in Slots : p # q \/ j # k => valque'[p][j] = valque[p][j]
  BY <1>1, <1>2, SlotWritten
<1>4. ev_que[s] = q /\ k \in Mine(s) /\ evque[q][k] = s
  BY <1>0, <1>1, <1>2, QueueNumbers DEF LifeInv, OwnerInv, Mine
<1>5. ASSUME NEW t \in Subs, t # s PROVE Newest(t)' = Newest(t)
  <2>1. UNCHANGED <<npend[t], pLastLog[t]>>
    BY <1>2, <1>5 DEF LifeInv, ControlTyped, BookInv, BookTyped
  <2>2. npend[t] > 0 => valque'[ev_que[t]][pLastLog[t]] = valque[ev_que[t]][pLastLog[t]]
    BY <1>3, <1>4, <1>5, LastSlot
  <2> QED BY <1>2, <1>5, <2>1, <2>2, NewestSame
<1>6. Newest(s)' = Newest(s)
  <2>1. npend[s] \in Nat /\ npend[s] > 0 /\ npend'[s] = npend[s] - 1
    BY <1>2, <1>4, LastSlot DEF LifeInv, ControlTyped
  <2>2. Newest(s) = valque[q][pLastLog[s]]
    BY <1>2, <1>4, <2>1, NewestIs
  <2>3. CASE npend[s] = 1
    <3>1. Mine(s) = {k} /\ pLastLog[s] \in Mine(s)
      <4>1. Cardinality(Mine(s)) = 1 /\ IsLast(Mine(s), getix[ev_que[s]], pLastLog[s])
        BY <1>2, <2>3 DEF BookInv, SubBooks
      <4>2. IsFiniteSet(Mine(s))
        BY <1>2, SlotsFinite, MineProps
      <4>3. PICK x : Mine(s) = {x}
        BY <4>1, <4>2, FS_Singleton
      <4> QED BY <1>4, <4>1, <4>3 DEF IsLast
    <3>2. npend'[s] \in Nat /\ npend'[s] = 0
      BY <2>1, <2>3
    <3>3. Newest(s)' = elog'
      BY <1>2, <3>2, NewestIsThen
    <3> QED BY <1>2, <2>2, <3>1, <3>3
  <2>4. CASE npend[s] # 1
    <3>1. npend'[s] \in Nat /\ npend'[s] > 0
      BY <2>1, <2>4
    <3>2. pLastLog'[s] = pLastLog[s] /\ pLastLog[s] \in Slots
      BY <1>2, <2>1, <2>4, LastSlot DEF BookInv, BookTyped
    <3>3. pLastLog'[s] # k
      <4>1. pLastLog'[s] \in Mine(s)'
        <5>1. npend'[s] = Cardinality(Mine(s)') /\ IsLast(Mine(s)', getix'[ev_que'[s]], pLastLog'[s])
          BY <1>2 DEF BookInv, SubBooks
        <5>2. Mine(s)' # {}
          BY <3>1, <5>1, FS_EmptySet
        <5> QED BY <5>1, <5>2 DEF IsLast
      <4>2. evque'[q][k] = "empty" /\ ev_que'[s] = q
        <5>1. evque' = [evque EXCEPT ![q][k] = "empty"]
          BY <1>0 DEF TakeEvent
        <5> QED BY <1>1, <1>2, <1>4, <5>1 DEF LifeInv, ControlTyped
      <4> QED BY <1>2, <4>1, <4>2, DbEventAssumption DEF Mine
    <3>4. Newest(s)' = valque'[q][pLastLog[s]]
      BY <1>2, <1>4, <3>1, <3>2, NewestIsThen
    <3> QED BY <1>1, <1>3, <2>2, <3>2, <3>3, <3>4
  <2> QED BY <2>3, <2>4
<1>7. ASSUME NEW t \in Subs, t \notin missed', Told(t)'
      PROVE  t \notin missed /\ Told(t) /\ Newest(t)' = Newest(t)
  BY <1>2, <1>5, <1>6, <1>7 DEF Told, Posted
<1> QED BY <1>2, <1>7, TellKeeps

LEMMA TellTask ==
  ASSUME LifeInv, LifeInv', BookInv, BookInv', LogTyped, TellInv, TaskStep
  PROVE  TellInv'
<1>1. CASE \/ event_task_wakes \/ event_read \/ QueueEmpty \/ SkipCanceled \/ SelfDisable
           \/ CallbackReturns \/ event_task_exits
  <2>1. /\ UNCHANGED <<valque, ev_que, npend, pLastLog, seen, rpc, todo, cpc, cs, missed>>
        /\ epc # "callback" /\ epc' # "callback"
    BY <1>1 DEF event_task_wakes, event_read, QueueEmpty, SkipCanceled, SelfDisable, CallbackReturns,
                event_task_exits, NextQueue, TaskAt, ringVars, subVars, pendVars, taskVars
  <2>2. \A t \in Subs : enabled'[t] => enabled[t]
    <3>1. UNCHANGED enabled \/ enabled' = [enabled EXCEPT ![es] = FALSE]
      BY <1>1 DEF event_task_wakes, event_read, QueueEmpty, SkipCanceled, SelfDisable, CallbackReturns,
                  event_task_exits, subVars
    <3>2. enabled \in [Subs -> BOOLEAN]
      BY DEF LifeInv, ControlTyped
    <3> QED BY <3>1, <3>2
  <2> QED BY <2>1, <2>2, TellQuiet
<1>2. CASE Callback
  <2>1. /\ epc = "callback" /\ epc' = "called" /\ es \in Subs /\ es' = es
        /\ seen' = [seen EXCEPT ![es] = elog]
        /\ UNCHANGED <<valque, ev_que, npend, pLastLog, rpc, todo, cpc, cs, missed, enabled>>
    BY <1>2 DEF Callback, TaskAt, ringVars, subVars, pendVars, LifeInv, ControlTyped, Entered
  <2>2. seen'[es] = elog /\ \A t \in Subs : t # es => UNCHANGED seen[t]
    BY <2>1 DEF LogTyped
  <2>3. ASSUME NEW t \in Subs PROVE Newest(t)' = Newest(t)
    <3>1. npend[t] \in Nat
      BY LastSlot
    <3> QED BY <2>1, <2>2, <3>1, NewestIs, NewestIsThen
  <2>4. \A t \in Subs : Told(t)' = Told(t)
    BY <2>1 DEF Told, Posted
  <2> QED BY <2>1, <2>3, <2>4, TellKeeps
<1>3. CASE SelfPurge
  <2>1. /\ es \in Subs /\ ev_que[es] # NULL /\ Purge(es) /\ ~enabled[es] /\ cs # es
        /\ UNCHANGED <<rpc, todo, enabled, seen, elog, es, cpc, cs>>
        /\ epc # "callback" /\ epc' # "callback"
        /\ ev_que' = [ev_que EXCEPT ![es] = NULL] /\ missed' = missed \ {es}
    BY <1>3 DEF SelfPurge, Free, TaskAt, LifeInv, ControlTyped, SelfPurgeInv, SubInv, Entered
  <2>2. ~Posted(es)
    BY <2>1 DEF Posted
  <2> QED BY <2>1, <2>2, TellPurge
<1> QED BY <1>1, <1>2, <1>3, TellTake DEF TaskStep

LEMMA TellAlways == DbEventSpec => []TellInv
<1>1. DbEventInit => TellInv
  BY DEF DbEventInit, TellInv, Told, Posted
<1>2. LifeInv /\ LifeInv' /\ BookInv /\ BookInv' /\ LogTyped /\ TellInv
        /\ [DbEventNext]_eventVars => TellInv'
  <2>1. ASSUME LifeInv, BookInv, TellInv, UNCHANGED eventVars PROVE TellInv'
    BY <2>1, TellQuiet DEF eventVars, ringVars, subVars, pendVars, taskVars
  <2> QED BY <2>1, TellScan, TellClient, TellTask DEF DbEventNext
<1> QED BY <1>1, <1>2, LifeAlways, BooksAlways, LogAlways, PTL DEF DbEventSpec

(***************************************************************************)
(* Whatever the order of scan threads, client and event task, and whether  *)
(* events replace others or not, the newest event on its way to the client *)
(* carries the record's value, but for a change that was posted between    *)
(* the first event and the enable.                                         *)
(***************************************************************************)
THEOREM EventMostRecentSent == DbEventSpec => []MostRecentSentOnceEnabled
<1>1. LifeInv /\ TellInv => MostRecentSentOnceEnabled
  <2> SUFFICES ASSUME LifeInv, TellInv, NEW s \in Subs, s \notin missed, enabled[s],
                      rpc[RecOf[s]] = "idle"
               PROVE  Newest(s) = "current"
    BY DEF MostRecentSentOnceEnabled, UpToDate
  <2>1. todo[RecOf[s]] = {}
    BY DbEventAssumption DEF LifeInv, TodoInv
  <2> QED BY <2>1 DEF TellInv, Told
<1> QED BY <1>1, LifeAlways, TellAlways, PTL

-----------------------------------------------------------------------------
(***************************************************************************)
(* The events M of one subscription, in a ring whose oldest event is at g  *)
(* and whose values are v, as a sequence from the oldest to the newest.    *)
(***************************************************************************)
OlderIn(M, g, i) == {j \in M : AgeFrom(g, j) < AgeFrom(g, i)}

RankIn(M, g, i) == Cardinality(OlderIn(M, g, i))

Nth(M, g, k) == CHOOSE i \in M : RankIn(M, g, i) = k - 1

QueueOf(M, g, v) == [k \in 1..Cardinality(M) |-> v[Nth(M, g, k)]]

\* u has every event's value at the event's rank.
ByRank(u, M, g, v) == \A i \in M : u[RankIn(M, g, i) + 1] = v[i]

LEMMA AgesDiffer ==
  ASSUME NEW g \in Slots, NEW i \in Slots, NEW j \in Slots, i # j
  PROVE  /\ AgeFrom(g, i) \in Nat /\ AgeFrom(g, j) \in Nat
         /\ AgeFrom(g, i) < AgeFrom(g, j) \/ AgeFrom(g, j) < AgeFrom(g, i)
BY QueueSize DEF AgeFrom, Slots

\* An older event has a smaller rank.
LEMMA RankGrows ==
  ASSUME NEW M, M \subseteq Slots, NEW g \in Slots, NEW i \in M, NEW j \in M,
         AgeFrom(g, i) < AgeFrom(g, j)
  PROVE  RankIn(M, g, i) < RankIn(M, g, j)
<1>1. \A k \in M : AgeFrom(g, k) \in Nat
  BY AgeShift
<1>2. /\ OlderIn(M, g, i) \subseteq OlderIn(M, g, j)
      /\ i \in OlderIn(M, g, j) /\ i \notin OlderIn(M, g, i)
  BY <1>1 DEF OlderIn
<1>3. OlderIn(M, g, i) # OlderIn(M, g, j)
  BY <1>2
<1>4. /\ IsFiniteSet(OlderIn(M, g, j)) /\ Cardinality(OlderIn(M, g, j)) \in Nat
      /\ Cardinality(OlderIn(M, g, i)) \in Nat
  BY SlotsFinite DEF OlderIn
<1>5. /\ Cardinality(OlderIn(M, g, i)) <= Cardinality(OlderIn(M, g, j))
      /\ Cardinality(OlderIn(M, g, i)) # Cardinality(OlderIn(M, g, j))
  BY <1>2, <1>3, <1>4, FS_Subset
<1> QED BY <1>4, <1>5 DEF RankIn

LEMMA RankBound ==
  ASSUME NEW M, M \subseteq Slots, NEW g \in Slots, NEW i \in M
  PROVE  Cardinality(M) \in Nat \ {0} /\ RankIn(M, g, i) \in 0..(Cardinality(M) - 1)
<1>1. AgeFrom(g, i) \in Nat
  BY AgeShift
<1>2. OlderIn(M, g, i) \subseteq M /\ OlderIn(M, g, i) # M
  BY <1>1 DEF OlderIn
<1>3. IsFiniteSet(M) /\ Cardinality(M) \in Nat /\ Cardinality(OlderIn(M, g, i)) \in Nat
  BY <1>2, SlotsFinite
<1>4. /\ Cardinality(OlderIn(M, g, i)) <= Cardinality(M)
      /\ Cardinality(OlderIn(M, g, i)) # Cardinality(M)
  BY <1>2, <1>3, FS_Subset
<1> QED BY <1>3, <1>4 DEF RankIn

LEMMA RanksDiffer ==
  ASSUME NEW M, M \subseteq Slots, NEW g \in Slots, NEW i \in M, NEW j \in M, i # j
  PROVE  RankIn(M, g, i) # RankIn(M, g, j)
<1>1. AgeFrom(g, i) < AgeFrom(g, j) \/ AgeFrom(g, j) < AgeFrom(g, i)
  BY AgesDiffer
<1>2. RankIn(M, g, i) < RankIn(M, g, j) \/ RankIn(M, g, j) < RankIn(M, g, i)
  BY <1>1, RankGrows
<1>3. RankIn(M, g, i) \in Int /\ RankIn(M, g, j) \in Int
  BY RankBound
<1> QED BY <1>2, <1>3

\* No rank is left out: as many ranks as events.
LEMMA EveryRank ==
  ASSUME NEW M, M \subseteq Slots, NEW g \in Slots, NEW k \in 1..Cardinality(M)
  PROVE  \E i \in M : RankIn(M, g, i) = k - 1
<1>1. IsFiniteSet(M) /\ Cardinality(M) \in Nat
  BY SlotsFinite
<1> DEFINE T == 0..(Cardinality(M) - 1)
           f == [i \in M |-> RankIn(M, g, i)]
<1>2. IsFiniteSet(T) /\ Cardinality(T) = Cardinality(M)
  <2>1. PICK n \in Nat : n = Cardinality(M)
    BY <1>1
  <2>2. IsFiniteSet(0..(n - 1)) /\ Cardinality(0..(n - 1)) = IF 0 > n - 1 THEN 0 ELSE n - 1 - 0 + 1
    BY FS_Interval
  <2> QED BY <2>1, <2>2
<1>3. f \in [M -> T]
  BY RankBound
<1>4. \A i, j \in M : f[i] = f[j] => i = j
  BY RanksDiffer
<1>5. f \in Injection(M, T)
  BY <1>3, <1>4 DEF Injection, IsInjective
<1> HIDE DEF T
<1>6. f \in Surjection(M, T)
  BY <1>2, <1>5, FS_Injection
<1>7. k - 1 \in T
  BY <1>1 DEF T
<1> QED BY <1>6, <1>7 DEF Surjection

LEMMA NthIs ==
  ASSUME NEW M, M \subseteq Slots, NEW g \in Slots
  PROVE  /\ \A k \in 1..Cardinality(M) : Nth(M, g, k) \in M /\ RankIn(M, g, Nth(M, g, k)) = k - 1
         /\ \A i \in M : RankIn(M, g, i) + 1 \in 1..Cardinality(M)
                         /\ Nth(M, g, RankIn(M, g, i) + 1) = i
<1>1. ASSUME NEW k \in 1..Cardinality(M)
      PROVE  Nth(M, g, k) \in M /\ RankIn(M, g, Nth(M, g, k)) = k - 1
  BY EveryRank DEF Nth
<1>2. ASSUME NEW i \in M
      PROVE  RankIn(M, g, i) + 1 \in 1..Cardinality(M) /\ Nth(M, g, RankIn(M, g, i) + 1) = i
  <2>1. RankIn(M, g, i) + 1 \in 1..Cardinality(M) /\ RankIn(M, g, i) \in Nat
    <3>1. Cardinality(M) \in Nat \ {0} /\ RankIn(M, g, i) \in 0..(Cardinality(M) - 1)
      BY RankBound
    <3> QED BY <3>1
  <2>2. PICK k \in 1..Cardinality(M) : k = RankIn(M, g, i) + 1
    BY <2>1
  <2>3. Nth(M, g, k) \in M /\ RankIn(M, g, Nth(M, g, k)) = RankIn(M, g, i)
    BY <1>1, <2>1, <2>2
  <2> QED BY <2>1, <2>2, <2>3, RanksDiffer
<1> QED BY <1>1, <1>2

\* The sequence is the one that has every event's value at its rank.
LEMMA QueueUnique ==
  ASSUME NEW M, M \subseteq Slots, NEW g \in Slots, NEW v, NEW T,
         NEW u \in [1..Cardinality(M) -> T],
         ByRank(u, M, g, v)
  PROVE  u = QueueOf(M, g, v)
<1>1. ASSUME NEW k \in 1..Cardinality(M) PROVE u[k] = v[Nth(M, g, k)]
  <2>1. PICK i \in M : RankIn(M, g, i) = k - 1
    BY EveryRank
  <2>2. Cardinality(M) \in Nat
    BY SlotsFinite
  <2>3. RankIn(M, g, i) + 1 = k
    BY <2>1, <2>2
  <2> QED BY <2>3, NthIs DEF ByRank
<1> QED BY <1>1 DEF QueueOf

LEMMA QueueProps ==
  ASSUME NEW M, M \subseteq Slots, NEW g \in Slots, NEW T, NEW v \in [Slots -> T]
  PROVE  /\ QueueOf(M, g, v) \in Seq(T)
         /\ Len(QueueOf(M, g, v)) = Cardinality(M)
         /\ DOMAIN QueueOf(M, g, v) = 1..Cardinality(M)
         /\ ByRank(QueueOf(M, g, v), M, g, v)
<1>1. Cardinality(M) \in Nat
  BY SlotsFinite
<1>2. \A k \in 1..Cardinality(M) : v[Nth(M, g, k)] \in T
  BY NthIs
<1>3. QueueOf(M, g, v) \in [1..Cardinality(M) -> T]
  BY <1>2 DEF QueueOf
<1>4. \A i \in M : QueueOf(M, g, v)[RankIn(M, g, i) + 1] = v[i]
  BY NthIs DEF QueueOf
<1> QED BY <1>1, <1>3, <1>4 DEF ByRank

(***************************************************************************)
(* What the ring's operations do to the sequence.                          *)
(***************************************************************************)
Agree(v, w, S) == \A i \in S : w[i] = v[i]

With(N, M, p) == N = M \cup {p} /\ p \notin M

Appended(u, t, x) == u = Append(t, x)

Preceded(u, x, t) == u = <<x>> \o t

NewerThan(p, M, g) == \A i \in M : AgeFrom(g, i) < AgeFrom(g, p)

LEMMA QueueSame ==
  ASSUME NEW M, M \subseteq Slots, NEW g \in Slots, NEW v, NEW w, \A i \in M : w[i] = v[i]
  PROVE  QueueOf(M, g, w) = QueueOf(M, g, v)
BY NthIs DEF QueueOf

\* Taking another subscription's event, or a canceled one.
LEMMA QueueShift ==
  ASSUME NEW M, M \subseteq Slots, NEW g \in Slots, NEW v, g \notin M
  PROVE  QueueOf(M, RNGINC(g), v) = QueueOf(M, g, v)
<1>1. \A i \in M : AgeFrom(g, i) \in Nat /\ AgeFrom(RNGINC(g), i) = AgeFrom(g, i) - 1
  BY AgeShift
<1>2. \A i \in M : OlderIn(M, RNGINC(g), i) = OlderIn(M, g, i)
  BY <1>1 DEF OlderIn
<1>3. \A i \in M : RankIn(M, RNGINC(g), i) = RankIn(M, g, i)
  BY <1>2 DEF RankIn
<1>4. ASSUME NEW k PROVE Nth(M, RNGINC(g), k) = Nth(M, g, k)
  BY <1>3 DEF Nth
<1> QED BY <1>4 DEF QueueOf

\* A newer event than all others is added.
LEMMA QueueAppend ==
  ASSUME NEW M, M \subseteq Slots, NEW g \in Slots, NEW T, NEW v \in [Slots -> T], NEW x \in T,
         NEW p \in Slots, NewerThan(p, M, g), NEW w, w[p] = x, Agree(v, w, M),
         NEW N, With(N, M, p)
  PROVE  Appended(QueueOf(N, g, w), QueueOf(M, g, v), x)
<1>0. N = M \cup {p} /\ p \notin M
  BY DEF With
<1> DEFINE u == Append(QueueOf(M, g, v), x)
<1>1. IsFiniteSet(M) /\ Cardinality(M) \in Nat /\ N \subseteq Slots /\ Cardinality(N) = Cardinality(M) + 1
  BY <1>0, SlotsFinite, FS_AddElement
<1>2. /\ QueueOf(M, g, v) \in Seq(T)
      /\ Len(QueueOf(M, g, v)) = Cardinality(M)
      /\ \A i \in M : QueueOf(M, g, v)[RankIn(M, g, i) + 1] = v[i]
  <2>1. /\ QueueOf(M, g, v) \in Seq(T) /\ Len(QueueOf(M, g, v)) = Cardinality(M)
        /\ ByRank(QueueOf(M, g, v), M, g, v)
    BY QueueProps
  <2> QED BY <2>1 DEF ByRank
<1>3. AgeFrom(g, p) \in Nat /\ \A i \in M : AgeFrom(g, i) \in Nat
  BY AgeShift
<1>4. OlderIn(N, g, p) = M /\ \A i \in M : OlderIn(N, g, i) = OlderIn(M, g, i)
  BY <1>0, <1>3 DEF OlderIn, NewerThan
<1>5. RankIn(N, g, p) = Cardinality(M) /\ \A i \in M : RankIn(N, g, i) = RankIn(M, g, i)
  BY <1>4 DEF RankIn
<1>6. u \in [1..Cardinality(N) -> T]
  <2>1. u \in Seq(T) /\ Len(u) = Cardinality(N)
    BY <1>1, <1>2
  <2> HIDE DEF u
  <2> QED BY <2>1
<1>7. ASSUME NEW i \in N PROVE u[RankIn(N, g, i) + 1] = w[i]
  <2>1. CASE i = p
    BY <1>1, <1>2, <1>5, <2>1
  <2>2. CASE i \in M
    <3>1. RankIn(M, g, i) + 1 \in 1..Cardinality(M)
      BY <2>2, NthIs
    <3>2. PICK n \in 1..Cardinality(M) : n = RankIn(M, g, i) + 1
      BY <3>1
    <3>3. Append(QueueOf(M, g, v), x)[n] = QueueOf(M, g, v)[n]
      BY <1>1, <1>2
    <3>4. QueueOf(M, g, v)[n] = w[i] /\ RankIn(N, g, i) + 1 = n
      BY <1>2, <1>5, <2>2, <3>2 DEF Agree
    <3> QED BY <3>3, <3>4
  <2> QED BY <1>0, <2>1, <2>2
<1> HIDE DEF u
<1>8. u = QueueOf(N, g, w)
  <2>1. ByRank(u, N, g, w)
    BY <1>7 DEF ByRank
  <2> QED BY <1>1, <1>6, <2>1, QueueUnique
<1> QED BY <1>8 DEF u, Appended

\* The newest event gets another value.
LEMMA QueueReplace ==
  ASSUME NEW M, M \subseteq Slots, NEW g \in Slots, NEW T, NEW v \in [Slots -> T], NEW x \in T,
         NEW p \in M, IsLast(M, g, p), NEW w, w[p] = x, Agree(v, w, M \ {p})
  PROVE  /\ Cardinality(M) \in Nat \ {0}
         /\ QueueOf(M, g, w) = [QueueOf(M, g, v) EXCEPT ![Cardinality(M)] = x]
<1> DEFINE u == [QueueOf(M, g, v) EXCEPT ![Cardinality(M)] = x]
<1>1. Cardinality(M) \in Nat \ {0} /\ IsFiniteSet(M)
  BY RankBound, SlotsFinite
<1>2. /\ QueueOf(M, g, v) \in [1..Cardinality(M) -> T]
      /\ \A i \in M : QueueOf(M, g, v)[RankIn(M, g, i) + 1] = v[i]
  <2>1. /\ QueueOf(M, g, v) \in Seq(T) /\ Len(QueueOf(M, g, v)) = Cardinality(M)
        /\ ByRank(QueueOf(M, g, v), M, g, v)
    BY QueueProps
  <2> QED BY <1>1, <2>1 DEF ByRank
<1>3. \A i \in M : AgeFrom(g, i) \in Nat /\ (i # p => AgeFrom(g, i) # AgeFrom(g, p))
  BY AgeShift, AgesDiffer
<1>4. OlderIn(M, g, p) = M \ {p}
  BY <1>3 DEF OlderIn, IsLast
<1>5. RankIn(M, g, p) = Cardinality(M) - 1
  BY <1>1, <1>4, FS_RemoveElement DEF RankIn
<1>6. u \in [1..Cardinality(M) -> T] /\ u[Cardinality(M)] = x
      /\ \A k \in 1..Cardinality(M) : k # Cardinality(M) => u[k] = QueueOf(M, g, v)[k]
  BY <1>1, <1>2
<1> HIDE DEF u
<1>7. ASSUME NEW i \in M PROVE u[RankIn(M, g, i) + 1] = w[i]
  <2>1. CASE i = p
    BY <1>1, <1>5, <1>6, <2>1
  <2>2. CASE i # p
    <3>1. RankIn(M, g, i) # RankIn(M, g, p)
      BY <2>2, RanksDiffer
    <3>2. RankIn(M, g, i) + 1 \in 1..Cardinality(M) /\ RankIn(M, g, i) \in Nat
      <4>1. RankIn(M, g, i) + 1 \in 1..Cardinality(M)
        BY NthIs
      <4>2. RankIn(M, g, i) \in 0..(Cardinality(M) - 1)
        BY RankBound
      <4> QED BY <1>1, <4>1, <4>2
    <3>3. RankIn(M, g, i) + 1 # Cardinality(M)
      BY <1>1, <1>5, <3>1, <3>2
    <3> QED BY <1>2, <1>6, <2>2, <3>2, <3>3 DEF Agree
  <2> QED BY <2>1, <2>2
<1>8. u = QueueOf(M, g, w)
  <2>1. ByRank(u, M, g, w)
    BY <1>7 DEF ByRank
  <2> QED BY <1>6, <2>1, QueueUnique
<1> QED BY <1>1, <1>8 DEF u

\* The oldest event is taken.
LEMMA QueueTake ==
  ASSUME NEW M, M \subseteq Slots, NEW g \in M, NEW T, NEW v \in [Slots -> T],
         NEW N, With(M, N, g), NEW w, Agree(v, w, N)
  PROVE  Preceded(QueueOf(M, g, v), v[g], QueueOf(N, RNGINC(g), w))
<1>0. N = M \ {g}
  BY DEF With
<1> DEFINE h == RNGINC(g)
           u == <<v[g]>> \o QueueOf(N, h, w)
<1>1. /\ IsFiniteSet(M) /\ Cardinality(M) \in Nat \ {0} /\ N \subseteq Slots
      /\ Cardinality(N) = Cardinality(M) - 1 /\ h \in Slots /\ v[g] \in T
  BY <1>0, SlotsFinite, FS_RemoveElement, RankBound, NextSlot
<1>2. /\ QueueOf(N, h, v) \in Seq(T) /\ Len(QueueOf(N, h, v)) = Cardinality(N)
      /\ \A i \in N : QueueOf(N, h, v)[RankIn(N, h, i) + 1] = v[i]
  <2>1. /\ QueueOf(N, h, v) \in Seq(T) /\ Len(QueueOf(N, h, v)) = Cardinality(N)
        /\ ByRank(QueueOf(N, h, v), N, h, v)
    BY <1>1, QueueProps
  <2> QED BY <2>1 DEF ByRank
<1>3. QueueOf(N, h, w) = QueueOf(N, h, v)
  BY <1>1, QueueSame DEF Agree
<1>4. ASSUME NEW i \in M
      PROVE  /\ AgeFrom(g, i) \in Nat /\ (AgeFrom(g, i) = 0 <=> i = g)
             /\ i # g => AgeFrom(h, i) = AgeFrom(g, i) - 1
  BY <1>4, AgeShift
<1>5. RankIn(M, g, g) = 0
  <2>1. OlderIn(M, g, g) = {}
    BY <1>4 DEF OlderIn
  <2> QED BY <2>1, FS_EmptySet DEF RankIn
<1>6. ASSUME NEW i \in N PROVE RankIn(M, g, i) = RankIn(N, h, i) + 1
  <2>1. OlderIn(M, g, i) = OlderIn(N, h, i) \cup {g} /\ g \notin OlderIn(N, h, i)
    <3>1. i \in M /\ i # g
      BY <1>0
    <3>2. AgeFrom(g, i) > 0 /\ AgeFrom(g, g) = 0
      BY <1>4, <3>1
    <3>3. \A j \in N : AgeFrom(h, j) < AgeFrom(h, i) <=> AgeFrom(g, j) < AgeFrom(g, i)
      BY <1>0, <1>4, <3>1
    <3> QED BY <1>0, <3>2, <3>3 DEF OlderIn
  <2>2. IsFiniteSet(OlderIn(N, h, i)) /\ Cardinality(OlderIn(N, h, i)) \in Nat
    BY <1>1, SlotsFinite DEF OlderIn
  <2> QED BY <2>1, <2>2, FS_AddElement DEF RankIn
<1>7. u \in [1..Cardinality(M) -> T]
  <2>1. u \in Seq(T) /\ Len(u) = Cardinality(M)
    BY <1>1, <1>2, <1>3
  <2> HIDE DEF u
  <2> QED BY <2>1
<1>8. ASSUME NEW i \in M PROVE u[RankIn(M, g, i) + 1] = v[i]
  <2>1. CASE i = g
    BY <1>1, <1>2, <1>3, <1>5, <2>1
  <2>2. CASE i # g
    <3>1. RankIn(N, h, i) + 1 \in 1..Cardinality(N)
      BY <1>0, <1>1, <2>2, NthIs
    <3>2. PICK n \in 1..Cardinality(N) : n = RankIn(N, h, i) + 1
      BY <3>1
    <3>3. RankIn(M, g, i) + 1 = n + 1 /\ QueueOf(N, h, v)[n] = v[i]
      BY <1>0, <1>2, <1>6, <2>2, <3>2
    <3>4. (<<v[g]>> \o QueueOf(N, h, v))[n + 1] = QueueOf(N, h, v)[n]
      BY <1>1, <1>2
    <3> QED BY <1>3, <3>3, <3>4
  <2> QED BY <2>1, <2>2
<1> HIDE DEF u
<1>9. u = QueueOf(M, g, v)
  <2>1. ByRank(u, M, g, v)
    BY <1>8 DEF ByRank
  <2> QED BY <1>7, <2>1, QueueUnique
<1> QED BY <1>9 DEF u, Preceded

(***************************************************************************)
(* What each step does to the events that wait in the ring, subscription   *)
(* by subscription.                                                        *)
(***************************************************************************)
EventInv == LifeInv /\ RingInv /\ BookInv /\ LogTyped

LEMMA PendingIs ==
  ASSUME EventInv, NEW s \in Subs
  PROVE  Pending(s) = QueueOf(Mine(s), getix[ev_que[s]], valque[ev_que[s]])
<1>1. npend[s] = Cardinality(Mine(s))
  BY DEF EventInv, BookInv, SubBooks
<1>2. ASSUME NEW i PROVE Rank(s, i) = RankIn(Mine(s), getix[ev_que[s]], i)
  BY DEF Rank, RankIn, OlderIn, Age, AgeFrom
<1> DEFINE Pick(k) == CHOOSE i \in Mine(s) : Rank(s, i) = k - 1
<1>3. ASSUME NEW k PROVE Pick(k) = Nth(Mine(s), getix[ev_que[s]], k)
  BY <1>2 DEF Nth
<1>4. Pending(s) = [k \in 1..npend[s] |-> valque[ev_que[s]][Pick(k)]]
  BY DEF Pending
<1> HIDE DEF Pick
<1> QED BY <1>1, <1>3, <1>4 DEF QueueOf

LEMMA PendingIsThen ==
  ASSUME EventInv', NEW s \in Subs
  PROVE  Pending(s)' = QueueOf(Mine(s)', getix'[ev_que'[s]], valque'[ev_que'[s]])
<1>1. npend'[s] = Cardinality(Mine(s)')
  BY DEF EventInv, BookInv, SubBooks
<1>2. ASSUME NEW i PROVE Rank(s, i)' = RankIn(Mine(s)', getix'[ev_que'[s]], i)
  BY DEF Rank, RankIn, OlderIn, Age, AgeFrom
<1> DEFINE Pick(k) == CHOOSE i \in Mine(s)' : Rank(s, i)' = k - 1
<1>3. ASSUME NEW k PROVE Pick(k) = Nth(Mine(s)', getix'[ev_que'[s]], k)
  BY <1>2 DEF Nth
<1>4. Pending(s)' = [k \in 1..npend'[s] |-> valque'[ev_que'[s]][Pick(k)]]
  BY DEF Pending
<1> HIDE DEF Pick
<1> QED BY <1>1, <1>3, <1>4 DEF QueueOf

LEMMA PendingNone ==
  ASSUME NEW s \in Subs
  PROVE  (npend[s] = 0 => Pending(s) = <<>>) /\ (npend'[s] = 0 => Pending(s)' = <<>>)
BY DEF Pending

LEMMA PendingProps ==
  ASSUME EventInv, NEW s \in Subs
  PROVE  /\ Pending(s) \in Seq(Logs) /\ Len(Pending(s)) = npend[s]
         /\ ev_que[s] = NULL \/ ~user_sub[s] => Pending(s) = <<>> /\ npend[s] = 0
<1>1. /\ npend[s] \in Nat /\ (npend[s] = 0 <=> Mine(s) = {}) /\ npend[s] = Cardinality(Mine(s))
  BY LastSlot DEF EventInv, BookInv, SubBooks
<1>2. /\ Mine(s) \subseteq Slots /\ (Mine(s) # {} => ev_que[s] \in Queues)
      /\ ev_que[s] = NULL \/ ~user_sub[s] => Mine(s) = {}
  BY MineProps DEF EventInv
<1>3. CASE Mine(s) = {}
  <2>1. npend[s] = 0 /\ Pending(s) = <<>>
    BY <1>1, <1>3, PendingNone
  <2> QED BY <2>1
<1>4. CASE Mine(s) # {}
  <2>1. PICK M, g, v : M = Mine(s) /\ g = getix[ev_que[s]] /\ v = valque[ev_que[s]]
    OBVIOUS
  <2>2. M \subseteq Slots /\ g \in Slots /\ v \in [Slots -> Logs]
    BY <1>2, <1>4, <2>1 DEF EventInv, LifeInv, ControlTyped, LogTyped
  <2>3. QueueOf(M, g, v) \in Seq(Logs) /\ Len(QueueOf(M, g, v)) = Cardinality(M)
    BY <2>2, QueueProps
  <2> QED BY <1>1, <1>2, <1>4, <2>1, <2>3, PendingIs
<1> QED BY <1>3, <1>4

\* A subscription none of whose events a step touches.
LEMMA PendingSame ==
  ASSUME EventInv, EventInv', NEW t \in Subs, UNCHANGED ev_que[t], Mine(t)' = Mine(t),
         Mine(t) # {} => \/ getix'[ev_que[t]] = getix[ev_que[t]]
                         \/ /\ getix[ev_que[t]] \notin Mine(t)
                            /\ getix'[ev_que[t]] = RNGINC(getix[ev_que[t]]),
         \A i \in Mine(t) : valque'[ev_que[t]][i] = valque[ev_que[t]][i]
  PROVE  Pending(t)' = Pending(t)
<1>1. CASE Mine(t) = {}
  <2>1. npend[t] = 0 /\ npend'[t] = 0
    <3>1. npend[t] = Cardinality(Mine(t)) /\ npend'[t] = Cardinality(Mine(t)')
      BY DEF EventInv, BookInv, SubBooks
    <3> QED BY <1>1, <3>1, FS_EmptySet
  <2> QED BY <2>1, PendingNone
<1>2. CASE Mine(t) # {}
  <2>1. PICK M, g, h, v, w : /\ M = Mine(t) /\ g = getix[ev_que[t]] /\ h = getix'[ev_que[t]]
                             /\ v = valque[ev_que[t]] /\ w = valque'[ev_que[t]]
    OBVIOUS
  <2>2. M \subseteq Slots /\ g \in Slots /\ h \in Slots
    <3>1. Mine(t) \subseteq Slots /\ ev_que[t] \in Queues
      BY <1>2, MineProps DEF EventInv
    <3> QED BY <2>1, <3>1 DEF EventInv, LifeInv, ControlTyped
  <2>3. Pending(t) = QueueOf(M, g, v) /\ Pending(t)' = QueueOf(M, h, w)
    <3>1. Pending(t) = QueueOf(Mine(t), getix[ev_que[t]], valque[ev_que[t]])
      BY PendingIs
    <3>2. Pending(t)' = QueueOf(Mine(t)', getix'[ev_que'[t]], valque'[ev_que'[t]])
      BY PendingIsThen
    <3> QED BY <2>1, <3>1, <3>2
  <2>4. QueueOf(M, h, w) = QueueOf(M, h, v)
    <3>1. \A i \in M : w[i] = v[i]
      BY <2>1
    <3> QED BY <2>2, <3>1, QueueSame
  <2>5. h = g \/ (g \notin M /\ h = RNGINC(g))
    BY <1>2, <2>1
  <2>6. QueueOf(M, h, v) = QueueOf(M, g, v)
    BY <2>2, <2>5, QueueShift
  <2> QED BY <2>3, <2>4, <2>6
<1> QED BY <1>1, <1>2

\* An event that is logged comes last, or takes the place of the last.
LEMMA PendingLog ==
  ASSUME EventInv, EventInv', NEW s \in Subs, user_sub[s], db_queue_event_log(s)
  PROVE  /\ \/ Pending(s)' = Append(Pending(s), "current")
            \/ /\ npend[s] > 0
               /\ Pending(s)' = [Pending(s) EXCEPT ![npend[s]] = "current"]
         /\ \A t \in Subs : t # s => Pending(t)' = Pending(t)
<1>0. /\ UNCHANGED <<ev_que, getix>> /\ ev_que[s] \in Queues /\ "current" \in Logs
      /\ valque \in [Queues -> [Slots -> Logs]] /\ npend[s] = Cardinality(Mine(s))
  BY QueueNumbers DEF db_queue_event_log, subVars, Logs, EventInv, LogTyped, LifeInv, ControlTyped,
     SubInv, BookInv, SubBooks
<1>1. PICK q, g, v, w, M, N :
        /\ q = ev_que[s] /\ g = getix[q] /\ v = valque[q] /\ w = valque'[q]
        /\ M = Mine(s) /\ N = Mine(s)'
  OBVIOUS
<1>2. /\ q \in Queues /\ g \in Slots /\ v \in [Slots -> Logs] /\ "current" \in Logs
      /\ M \subseteq Slots
  BY <1>0, <1>1, MineProps DEF EventInv, LifeInv, ControlTyped
<1>3. Pending(s) = QueueOf(M, g, v) /\ Pending(s)' = QueueOf(N, g, w)
  <2>1. Pending(s)' = QueueOf(Mine(s)', getix'[ev_que'[s]], valque'[ev_que'[s]])
    BY PendingIsThen
  <2> QED BY <1>0, <1>1, <2>1, PendingIs
<1> HIDE DEF Logs
<1>4. CASE Replaces(s)
  <2>1. /\ npend[s] > 0 /\ UNCHANGED evque
        /\ valque' = [valque EXCEPT ![q][pLastLog[s]] = "current"]
    BY <1>1, <1>4 DEF Replaces, db_queue_event_log, ReplaceLast
  <2>2. PICK k \in Slots : k = pLastLog[s]
    BY <2>1, LastSlot DEF EventInv
  <2>3. /\ valque'[q][k] = "current"
        /\ \A p \in Queues, j \in Slots : p # q \/ j # k => valque'[p][j] = valque[p][j]
    BY <1>0, <1>2, <2>1, <2>2, SlotWritten
  <2>4. k \in M /\ IsLast(M, g, k)
    <3>1. M # {}
      BY <1>1, <2>1, LastSlot DEF EventInv
    <3>2. IsLast(Mine(s), getix[ev_que[s]], pLastLog[s])
      BY DEF EventInv, BookInv, SubBooks
    <3> QED BY <1>1, <2>2, <3>1, <3>2 DEF IsLast
  <2>5. Mine(s)' = Mine(s) /\ \A t \in Subs : Mine(t)' = Mine(t)
    BY <1>0, <2>1 DEF Mine
  <2>6. w[k] = "current" /\ Agree(v, w, M \ {k})
    BY <1>1, <1>2, <2>3 DEF Agree
  <2>7. QueueOf(M, g, w) = [QueueOf(M, g, v) EXCEPT ![Cardinality(M)] = "current"]
    BY <1>2, <2>4, <2>6, QueueReplace
  <2>8. Pending(s)' = [Pending(s) EXCEPT ![npend[s]] = "current"]
    BY <1>0, <1>1, <1>3, <2>5, <2>7
  <2>9. ASSUME NEW t \in Subs, t # s PROVE Pending(t)' = Pending(t)
    <3>1. \A i \in Mine(t) : valque'[ev_que[t]][i] = valque[ev_que[t]][i]
      <4>1. \A i \in Mine(t) : i \in Slots /\ ev_que[t] \in Queues /\ evque[ev_que[t]][i] = t
        BY <2>9, MineProps DEF EventInv, Mine
      <4>2. evque[q][k] = s
        BY <1>1, <2>4 DEF Mine
      <4> QED BY <2>3, <2>9, <4>1, <4>2
    <3> QED BY <1>0, <2>5, <3>1, PendingSame
  <2> QED BY <2>1, <2>8, <2>9
<1>5. CASE ~Replaces(s)
  <2>1. PICK k : k = putix[q]
    OBVIOUS
  <2>2. /\ k \in Slots /\ evque[q][k] = "empty" /\ evque'[q][k] = s /\ q # NULL
        /\ \A p \in Queues, j \in Slots : p # q \/ j # k => evque'[p][j] = evque[p][j]
    BY <1>1, <1>5, <2>1, AppendEffect DEF EventInv
  <2>3. valque' = [valque EXCEPT ![q][k] = "current"]
    BY <1>1, <1>5, <2>1 DEF db_queue_event_log, AppendEvent
  <2>4. /\ valque'[q][k] = "current"
        /\ \A p \in Queues, j \in Slots : p # q \/ j # k => valque'[p][j] = valque[p][j]
    BY <1>0, <1>2, <2>2, <2>3, SlotWritten
  <2>5. N = M \cup {k} /\ k \notin M
    BY <1>0, <1>1, <1>2, <2>2, DbEventAssumption DEF Mine
  <2>6. ASSUME NEW i \in M PROVE AgeFrom(g, i) < AgeFrom(g, k)
    <3>1. PICK n : Holds(evque[q], getix[q], putix[q], n)
      BY <1>2 DEF EventInv, RingInv
    <3>2. PICK f, h : f = evque[q] /\ h = evque'[q]
      OBVIOUS
    <3>3. /\ Holds(f, g, k, n) /\ f[k] = "empty" /\ h[k] # "empty" /\ f[i] # "empty"
          /\ \A j \in Slots : j # k => h[j] = f[j]
      BY <1>1, <1>2, <2>1, <2>2, <2>6, <3>1, <3>2, DbEventAssumption DEF Mine
    <3>4. \A j \in Slots : AgeFrom(g, j) < n => AgeFrom(g, j) < AgeFrom(g, k)
      BY <1>2, <2>2, <3>3, RingAppend
    <3>5. i \in Slots /\ AgeFrom(g, i) < n
      BY <1>2, <3>3 DEF Holds
    <3> QED BY <3>4, <3>5
  <2>7. w[k] = "current" /\ Agree(v, w, M) /\ NewerThan(k, M, g)
    BY <1>1, <1>2, <2>4, <2>5, <2>6 DEF Agree, NewerThan
  <2>8. Appended(QueueOf(N, g, w), QueueOf(M, g, v), "current")
    <3>1. With(N, M, k)
      BY <2>5 DEF With
    <3> QED BY <1>2, <2>2, <2>7, <3>1, QueueAppend
  <2>9. Pending(s)' = Append(Pending(s), "current")
    BY <1>3, <2>8 DEF Appended
  <2>10. ASSUME NEW t \in Subs, t # s PROVE Pending(t)' = Pending(t)
    <3>1. \A i \in Mine(t) : i \in Slots /\ ev_que[t] \in Queues /\ evque[ev_que[t]][i] = t
      BY <2>10, MineProps DEF EventInv, Mine
    <3>2. \A i \in Mine(t) : valque'[ev_que[t]][i] = valque[ev_que[t]][i]
      BY <2>2, <2>4, <3>1, DbEventAssumption
    <3>3. \A p \in Queues, i \in Slots : evque'[p][i] = t <=> evque[p][i] = t
      BY <2>2, <2>10, DbEventAssumption
    <3>4. Mine(t)' = Mine(t)
      BY <1>0, <3>3, MineSame DEF EventInv
    <3> QED BY <1>0, <3>2, <3>4, PendingSame
  <2> QED BY <2>9, <2>10
<1> QED BY <1>4, <1>5

\* A canceled event is skipped: nobody's events change.
LEMMA PendingSkip ==
  ASSUME EventInv, EventInv', SkipCanceled, NEW t \in Subs
  PROVE  Pending(t)' = Pending(t)
<1>0. PICK q, k : q = eq /\ k = getix[q]
  OBVIOUS
<1>1. /\ evque \in [Queues -> [Slots -> Subs \cup {"empty", "canceled"}]]
      /\ q \in Queues /\ k \in Slots /\ getix \in [Queues -> Slots]
  BY <1>0 DEF EventInv, LifeInv, ControlTyped
<1>2. /\ evque[q][k] = "canceled" /\ evque' = [evque EXCEPT ![q][k] = "empty"]
      /\ getix' = [getix EXCEPT ![q] = RNGINC(@)]
      /\ UNCHANGED <<valque, ev_que>>
  BY <1>0 DEF SkipCanceled, Oldest, subVars
<1>3. /\ evque'[q][k] = "empty"
      /\ \A p \in Queues, j \in Slots : p # q \/ j # k => evque'[p][j] = evque[p][j]
  BY <1>1, <1>2, SlotWritten
<1>4. \A p \in Queues, i \in Slots : evque'[p][i] = t <=> evque[p][i] = t
  BY <1>2, <1>3, DbEventAssumption
<1>5. Mine(t)' = Mine(t)
  BY <1>2, <1>4, MineSame DEF EventInv
<1>6. Mine(t) # {} => \/ getix'[ev_que[t]] = getix[ev_que[t]]
                      \/ /\ getix[ev_que[t]] \notin Mine(t)
                         /\ getix'[ev_que[t]] = RNGINC(getix[ev_que[t]])
  <2>1. Mine(t) # {} => ev_que[t] \in Queues
    BY MineProps DEF EventInv
  <2>2. CASE ev_que[t] = q
    <3>1. k \notin Mine(t)
      BY <1>2, <2>2, DbEventAssumption DEF Mine
    <3> QED BY <1>0, <1>1, <1>2, <2>2, <3>1
  <2>3. CASE ev_que[t] # q
    BY <1>1, <1>2, <2>1, <2>3
  <2> QED BY <2>2, <2>3
<1> QED BY <1>2, <1>5, <1>6, PendingSame

\* The oldest event is taken off its subscription's sequence.
LEMMA PendingTake ==
  ASSUME EventInv, EventInv', TakeEvent, NEW s, s = evque[eq][getix[eq]]
  PROVE  /\ s \in Subs
         /\ Preceded(Pending(s), elog', Pending(s)')
         /\ \A t \in Subs : t # s => Pending(t)' = Pending(t)
<1>0. PICK q, k : q = eq /\ k = getix[q] /\ s = evque[q][k]
  OBVIOUS
<1>1. /\ evque \in [Queues -> [Slots -> Subs \cup {"empty", "canceled"}]]
      /\ q \in Queues /\ k \in Slots /\ getix \in [Queues -> Slots]
      /\ valque \in [Queues -> [Slots -> Logs]] /\ "none" \in Logs
  BY <1>0 DEF EventInv, LifeInv, ControlTyped, LogTyped, Logs
<1> HIDE DEF Logs
<1>2. /\ s \in Subs /\ evque' = [evque EXCEPT ![q][k] = "empty"]
      /\ valque' = [valque EXCEPT ![q][k] = "none"]
      /\ getix' = [getix EXCEPT ![q] = RNGINC(@)]
      /\ elog' = valque[q][k] /\ UNCHANGED ev_que
  BY <1>0 DEF TakeEvent, Oldest, TaskAt
<1>3. /\ evque'[q][k] = "empty"
      /\ \A p \in Queues, j \in Slots : p # q \/ j # k => evque'[p][j] = evque[p][j]
  BY <1>1, <1>2, SlotWritten
<1>4. \A p \in Queues, j \in Slots : p # q \/ j # k => valque'[p][j] = valque[p][j]
  BY <1>1, <1>2, SlotWritten
<1>5. ev_que[s] = q /\ q # NULL
  BY <1>0, <1>1, <1>2, QueueNumbers DEF EventInv, LifeInv, OwnerInv
<1>6. Preceded(Pending(s), elog', Pending(s)')
  <2>1. PICK M, N, v, w : M = Mine(s) /\ N = Mine(s)' /\ v = valque[q] /\ w = valque'[q]
    OBVIOUS
  <2>2. k \in M /\ N = M \ {k} /\ M \subseteq Slots
    <3>1. M = {i \in Slots : evque[q][i] = s} /\ N = {i \in Slots : evque'[q][i] = s}
      BY <1>2, <1>5, <2>1 DEF Mine
    <3> QED BY <1>0, <1>1, <1>2, <1>3, <3>1, DbEventAssumption
  <2>3. With(M, N, k)
    BY <2>2 DEF With
  <2>4. Agree(v, w, N) /\ v \in [Slots -> Logs] /\ v[k] = elog'
    BY <1>1, <1>2, <1>4, <2>1, <2>2 DEF Agree
  <2>5. Preceded(QueueOf(M, k, v), v[k], QueueOf(N, RNGINC(k), w))
    BY <2>2, <2>3, <2>4, QueueTake
  <2>6. Pending(s) = QueueOf(M, k, v)
    BY <1>0, <1>2, <1>5, <2>1, PendingIs
  <2>7. Pending(s)' = QueueOf(N, RNGINC(k), w)
    <3>1. Pending(s)' = QueueOf(Mine(s)', getix'[ev_que'[s]], valque'[ev_que'[s]])
      BY <1>2, PendingIsThen
    <3>2. getix'[q] = RNGINC(k)
      BY <1>0, <1>1, <1>2
    <3> QED BY <1>2, <1>5, <2>1, <3>1, <3>2
  <2> QED BY <2>4, <2>5, <2>6, <2>7
<1>7. ASSUME NEW t \in Subs, t # s PROVE Pending(t)' = Pending(t)
  <2>1. \A p \in Queues, i \in Slots : evque'[p][i] = t <=> evque[p][i] = t
    BY <1>0, <1>3, <1>7, DbEventAssumption
  <2>2. Mine(t)' = Mine(t)
    BY <1>2, <2>1, MineSame DEF EventInv
  <2>3. \A i \in Mine(t) : i \in Slots /\ ev_que[t] \in Queues /\ evque[ev_que[t]][i] = t
    BY MineProps DEF EventInv, Mine
  <2>4. \A i \in Mine(t) : valque'[ev_que[t]][i] = valque[ev_que[t]][i]
    BY <1>0, <1>4, <1>7, <2>3
  <2>5. Mine(t) # {} => \/ getix'[ev_que[t]] = getix[ev_que[t]]
                        \/ /\ getix[ev_que[t]] \notin Mine(t)
                           /\ getix'[ev_que[t]] = RNGINC(getix[ev_que[t]])
    <3>1. CASE ev_que[t] = q
      <4>1. k \notin Mine(t)
        BY <1>0, <1>7, <2>3, <3>1
      <4> QED BY <1>0, <1>1, <1>2, <3>1, <4>1
    <3>2. CASE ev_que[t] # q
      BY <1>1, <1>2, <2>3, <3>2
    <3> QED BY <3>1, <3>2
  <2> QED BY <1>2, <2>2, <2>4, <2>5, PendingSame
<1> QED BY <1>2, <1>6, <1>7

\* Canceling drops a subscription's events, and nobody else's.
LEMMA PendingPurge ==
  ASSUME EventInv, EventInv', NEW s \in Subs, ev_que[s] # NULL, Purge(s),
         ev_que' \in {ev_que, [ev_que EXCEPT ![s] = NULL]}
  PROVE  /\ Pending(s)' = <<>>
         /\ \A t \in Subs : t # s => Pending(t)' = Pending(t)
<1> DEFINE q == ev_que[s]
           mine == {j \in Slots : evque[q][j] = s}
<1>1. /\ valque' = [valque EXCEPT ![q] =
                      [i \in Slots |-> IF i \in mine THEN "none" ELSE valque[q][i]]]
      /\ npend' = [npend EXCEPT ![s] = 0]
  BY PurgeIs
<1>2. /\ \A p \in Queues, i \in Slots :
           evque'[p][i] = IF evque[p][i] = s THEN "canceled" ELSE evque[p][i]
      /\ UNCHANGED getix
  BY PurgeEffect DEF EventInv
<1>3. npend'[s] = 0
  BY <1>1 DEF EventInv, LifeInv, ControlTyped
<1>4. q = ev_que[s] /\ q \in Queues /\ \A i \in mine : evque[q][i] = s
  BY DEF EventInv, LifeInv, ControlTyped
<1>5. ASSUME NEW t \in Subs, t # s PROVE Pending(t)' = Pending(t)
  <2> HIDE DEF q, mine
  <2>1. UNCHANGED ev_que[t]
    BY <1>5 DEF EventInv, LifeInv, ControlTyped
  <2>2. \A p \in Queues, i \in Slots : evque'[p][i] = t <=> evque[p][i] = t
    BY <1>2, <1>5, DbEventAssumption
  <2>3. Mine(t)' = Mine(t)
    BY <2>1, <2>2, MineSame DEF EventInv
  <2>4. ASSUME NEW i \in Mine(t) PROVE valque'[ev_que[t]][i] = valque[ev_que[t]][i]
    <3>1. PICK p : p = ev_que[t]
      OBVIOUS
    <3>2. i \in Slots /\ p \in Queues /\ evque[p][i] = t
      BY <2>4, <3>1, MineProps DEF EventInv, Mine
    <3>3. p # q \/ i \notin mine
      BY <1>4, <1>5, <3>2
    <3>4. valque'[p][i] = valque[p][i]
      BY <1>1, <1>4, <3>2, <3>3 DEF EventInv, LogTyped
    <3> QED BY <3>1, <3>4
  <2> QED BY <1>2, <2>1, <2>3, <2>4, PendingSame
<1> QED BY <1>3, <1>5, PendingNone

\* A record's new value makes old what waits of it.
LEMMA PendingAge ==
  ASSUME EventInv, EventInv', NEW r \in Records, Process(r), NEW t \in Subs
  PROVE  Pending(t)' = IF RecOf[t] = r THEN [k \in DOMAIN Pending(t) |-> Aged(Pending(t)[k])]
                       ELSE Pending(t)
<1>1. /\ UNCHANGED <<evque, getix, ev_que, npend>>
      /\ valque' = [q \in Queues |-> [i \in Slots |->
                      IF evque[q][i] \in Subs /\ RecOf[evque[q][i]] = r
                      THEN Aged(valque[q][i]) ELSE valque[q][i]]]
  BY DEF Process, subVars, pendVars
<1>2. Mine(t)' = Mine(t)
  BY <1>1 DEF Mine
<1>3. \A i \in Mine(t) : i \in Slots /\ ev_que[t] \in Queues /\ evque[ev_que[t]][i] = t
  BY MineProps DEF EventInv, Mine
<1>4. \A i \in Mine(t) : valque'[ev_que[t]][i] = IF RecOf[t] = r THEN Aged(valque[ev_que[t]][i])
                                                 ELSE valque[ev_que[t]][i]
  BY <1>1, <1>3
<1>5. CASE RecOf[t] # r
  BY <1>1, <1>2, <1>4, <1>5, PendingSame
<1>6. CASE RecOf[t] = r /\ Mine(t) = {}
  <2>1. npend[t] = 0
    BY <1>6, LastSlot DEF EventInv
  <2>2. Pending(t) = <<>> /\ Pending(t)' = <<>>
    BY <1>1, <2>1, PendingNone
  <2> QED BY <1>6, <2>2
<1>7. CASE RecOf[t] = r /\ Mine(t) # {}
  <2>1. PICK M, g, v, w : /\ M = Mine(t) /\ g = getix[ev_que[t]] /\ v = valque[ev_que[t]]
                          /\ w = valque'[ev_que[t]]
    OBVIOUS
  <2>2. /\ M \subseteq Slots /\ g \in Slots /\ \A i \in M : w[i] = Aged(v[i])
    BY <1>3, <1>4, <1>7, <2>1 DEF EventInv, LifeInv, ControlTyped
  <2>3. Pending(t) = QueueOf(M, g, v) /\ Pending(t)' = QueueOf(M, g, w)
    <3>1. Pending(t)' = QueueOf(Mine(t)', getix'[ev_que'[t]], valque'[ev_que'[t]])
      BY PendingIsThen
    <3> QED BY <1>1, <1>2, <2>1, <3>1, PendingIs
  <2>4. \A k \in 1..Cardinality(M) : Nth(M, g, k) \in M
    BY <2>2, NthIs
  <2>5. QueueOf(M, g, w) = [k \in DOMAIN QueueOf(M, g, v) |-> Aged(QueueOf(M, g, v)[k])]
    BY <2>2, <2>4 DEF QueueOf
  <2> QED BY <1>7, <2>3, <2>5
<1> QED BY <1>5, <1>6, <1>7

-----------------------------------------------------------------------------
(***************************************************************************)
(* From the ring to MonitorQueue.                                          *)
(***************************************************************************)
LEMMA DeliveredProps ==
  ASSUME EventInv, NEW t \in Subs
  PROVE  /\ BeingDelivered(t) \in Seq(Logs)
         /\ BeingDelivered(t) # <<>> => BeingDelivered(t) = <<elog>> /\ epc = "callback" /\ es = t
         /\ epc # "callback" \/ es # t => BeingDelivered(t) = <<>>
         /\ epc = "callback" /\ es = t =>
              BeingDelivered(t) = <<elog>> /\ callBackInProgress[t] /\ ev_que[t] # NULL
<1>1. elog \in Logs
  BY DEF EventInv, LogTyped
<1>2. epc = "callback" /\ es = t => InCallback(t)
  BY DbEventAssumption DEF EventInv, LifeInv, ControlTyped, InCallback, Entered
<1>3. InCallback(t) => callBackInProgress[t] /\ ev_que[t] # NULL
  BY DEF EventInv, LifeInv, SubInv
<1> HIDE DEF Logs
<1> QED BY <1>1, <1>2, <1>3 DEF BeingDelivered

LEMMA DeliveredThen ==
  ASSUME NEW t \in Subs
  PROVE  /\ epc' # "callback" \/ es' # t => BeingDelivered(t)' = <<>>
         /\ epc' = "callback" /\ es' = t => BeingDelivered(t)' = <<elog'>>
         /\ UNCHANGED <<epc, es, elog>> => BeingDelivered(t)' = BeingDelivered(t)
BY DEF BeingDelivered

LEMMA UpdatesProps ==
  ASSUME EventInv, NEW t \in Subs
  PROVE  /\ Updates(t) \in Seq(Logs)
         /\ BeingDelivered(t) = <<>> => Updates(t) = Pending(t)
         /\ Pending(t) = <<>> => Updates(t) = BeingDelivered(t)
<1>1. BeingDelivered(t) \in Seq(Logs) /\ Pending(t) \in Seq(Logs)
  BY DeliveredProps, PendingProps
<1> QED BY <1>1 DEF Updates

LEMMA UpdatesThen ==
  ASSUME EventInv', NEW t \in Subs
  PROVE  /\ BeingDelivered(t)' = <<>> => Updates(t)' = Pending(t)'
         /\ Pending(t)' = <<>> => Updates(t)' = BeingDelivered(t)'
<1>1. BeingDelivered(t)' \in Seq(Logs)
  <2>1. elog' \in Logs
    BY DEF EventInv, LogTyped
  <2> HIDE DEF Logs
  <2> QED BY <2>1 DEF BeingDelivered
<1>2. Pending(t)' \in Seq(Logs)
  <2>1. /\ npend'[t] = Cardinality(Mine(t)') /\ Mine(t)' \subseteq Slots
        /\ ev_que'[t] \in Queues \cup {NULL} /\ (ev_que'[t] = NULL => Mine(t)' = {})
    BY DEF EventInv, BookInv, SubBooks, LifeInv, ControlTyped, Mine
  <2>2. CASE ev_que'[t] = NULL
    <3>1. Pending(t)' = <<>>
      BY <2>1, <2>2, FS_EmptySet, PendingNone
    <3> QED BY <3>1
  <2>3. CASE ev_que'[t] # NULL
    <3>1. PICK M, g, v : M = Mine(t)' /\ g = getix'[ev_que'[t]] /\ v = valque'[ev_que'[t]]
      OBVIOUS
    <3>2. M \subseteq Slots /\ g \in Slots /\ v \in [Slots -> Logs]
      BY <2>1, <2>3, <3>1 DEF EventInv, LifeInv, ControlTyped, LogTyped
    <3>3. QueueOf(M, g, v) \in Seq(Logs)
      BY <3>2, QueueProps
    <3> QED BY <3>1, <3>3, PendingIsThen
  <2> QED BY <2>2, <2>3
<1> QED BY <1>1, <1>2 DEF Updates

\* A step that changes nothing of what MonitorQueue speaks of.
LEMMA MonitorStutter ==
  ASSUME \A t \in Subs : Updates(t)' = Updates(t) /\ (ev_que'[t] # NULL <=> ev_que[t] # NULL),
         UNCHANGED seen
  PROVE  UNCHANGED Monitors!monitorVars
<1>1. UNCHANGED {s \in Subs : ev_que[s] # NULL}
  OBVIOUS
<1>2. UNCHANGED [s \in Subs |-> Updates(s)]
  OBVIOUS
<1> QED BY <1>1, <1>2 DEF Monitors!monitorVars

LEMMA MonitorQuiet ==
  ASSUME EventInv, EventInv', UNCHANGED <<evque, valque, getix, ev_que, seen>>,
         UNCHANGED <<epc, es, elog>> \/ (epc # "callback" /\ epc' # "callback")
  PROVE  UNCHANGED Monitors!monitorVars
<1>1. ASSUME NEW t \in Subs PROVE Updates(t)' = Updates(t)
  <2>1. Mine(t)' = Mine(t)
    BY DEF Mine
  <2>2. Pending(t)' = Pending(t)
    BY <2>1, PendingSame
  <2>3. BeingDelivered(t)' = BeingDelivered(t)
    BY DEF BeingDelivered
  <2> QED BY <2>2, <2>3 DEF Updates
<1> QED BY <1>1, MonitorStutter

LEMMA ConcatAppend ==
  ASSUME NEW T, NEW d \in Seq(T), NEW p \in Seq(T), NEW x \in T
  PROVE  d \o Append(p, x) = Append(d \o p, x)
OBVIOUS

IsConcat(u, d, p) == u = d \o p

LEMMA ConcatIs ==
  ASSUME NEW T, NEW d \in Seq(T), NEW p \in Seq(T), NEW u, IsConcat(u, d, p)
  PROVE  /\ u \in Seq(T) /\ Len(u) = Len(d) + Len(p)
         /\ \A i \in 1..Len(u) : u[i] = IF i <= Len(d) THEN d[i] ELSE p[i - Len(d)]
<1>1. d \o p \in Seq(T) /\ Len(d \o p) = Len(d) + Len(p) /\ Len(d) \in Nat /\ Len(p) \in Nat
  OBVIOUS
<1>2. ASSUME NEW i \in 1..(Len(d) + Len(p))
      PROVE  (d \o p)[i] = IF i <= Len(d) THEN d[i] ELSE p[i - Len(d)]
  OBVIOUS
<1> QED BY <1>1, <1>2 DEF IsConcat

WithLast(u, x) == [u EXCEPT ![Len(u)] = x]

LEMMA LastReplaced ==
  ASSUME NEW T, NEW u \in Seq(T), NEW x \in T, Len(u) > 0
  PROVE  /\ WithLast(u, x) \in Seq(T) /\ Len(WithLast(u, x)) = Len(u)
         /\ Len(u) \in Nat /\ WithLast(u, x)[Len(u)] = x
         /\ \A i \in 1..Len(u) : i # Len(u) => WithLast(u, x)[i] = u[i]
BY DEF WithLast

LEMMA ConcatReplace ==
  ASSUME NEW T, NEW d \in Seq(T), NEW p \in Seq(T), NEW x \in T, Len(p) > 0
  PROVE  d \o p # <<>> /\ d \o WithLast(p, x) = WithLast(d \o p, x)
<1>0. d \o p \in Seq(T)
  OBVIOUS
<1>1. PICK c \in Seq(T) : c = d \o p
  BY <1>0
<1>2. /\ Len(c) = Len(d) + Len(p) /\ Len(d) \in Nat /\ Len(p) \in Nat /\ Len(c) > 0 /\ c # <<>>
      /\ \A i \in 1..Len(c) : c[i] = IF i <= Len(d) THEN d[i] ELSE p[i - Len(d)]
  <2>1. IsConcat(c, d, p) /\ Len(d) \in Nat /\ Len(p) \in Nat
    BY <1>1 DEF IsConcat
  <2>2. /\ Len(c) = Len(d) + Len(p)
        /\ \A i \in 1..Len(c) : c[i] = IF i <= Len(d) THEN d[i] ELSE p[i - Len(d)]
    BY <2>1, ConcatIs
  <2> QED BY <2>1, <2>2
<1>3. PICK e, r : e = WithLast(p, x) /\ r = WithLast(c, x)
  OBVIOUS
<1>4. /\ e \in Seq(T) /\ Len(e) = Len(p) /\ e[Len(p)] = x
      /\ \A i \in 1..Len(p) : i # Len(p) => e[i] = p[i]
  BY <1>3, LastReplaced
<1>5. /\ r \in Seq(T) /\ Len(r) = Len(c) /\ r[Len(c)] = x
      /\ \A i \in 1..Len(c) : i # Len(c) => r[i] = c[i]
  BY <1>2, <1>3, LastReplaced
<1>6. PICK l \in Seq(T) : l = d \o e
  <2>1. d \o e \in Seq(T)
    BY <1>4
  <2> QED BY <2>1
<1>7. /\ Len(l) = Len(c)
      /\ \A i \in 1..Len(c) : l[i] = IF i <= Len(d) THEN d[i] ELSE e[i - Len(d)]
  <2>1. IsConcat(l, d, e)
    BY <1>6 DEF IsConcat
  <2>2. /\ Len(l) = Len(d) + Len(e)
        /\ \A i \in 1..Len(l) : l[i] = IF i <= Len(d) THEN d[i] ELSE e[i - Len(d)]
    BY <1>4, <2>1, ConcatIs
  <2> QED BY <1>2, <1>4, <2>2
<1>8. ASSUME NEW i \in 1..Len(c) PROVE l[i] = r[i]
  <2>1. CASE i = Len(c)
    BY <1>2, <1>4, <1>5, <1>7, <2>1
  <2>2. CASE i # Len(c)
    <3>1. CASE i <= Len(d)
      BY <1>2, <1>5, <1>7, <2>2, <3>1
    <3>2. CASE ~(i <= Len(d))
      <4>1. PICK j : j = i - Len(d)
        OBVIOUS
      <4>2. j \in 1..Len(p) /\ j # Len(p)
        BY <1>2, <2>2, <3>2, <4>1
      <4>3. l[i] = e[j] /\ c[i] = p[j] /\ r[i] = c[i]
        BY <1>2, <1>5, <1>7, <2>2, <3>2, <4>1
      <4> QED BY <1>4, <4>2, <4>3
    <3> QED BY <3>1, <3>2
  <2> QED BY <2>1, <2>2
<1>9. l = r
  BY <1>2, <1>5, <1>7, <1>8
<1> QED BY <1>1, <1>2, <1>3, <1>6, <1>9

\* A subscription's updates, as the one component of the mapped function that a
\* step changes.
LEMMA OneChanges ==
  ASSUME NEW s \in Subs, NEW u, Updates(s)' = u, \A t \in Subs : t # s => Updates(t)' = Updates(t)
  PROVE  [t \in Subs |-> Updates(t)]' = [[t \in Subs |-> Updates(t)] EXCEPT ![s] = u]
OBVIOUS

LEMMA MonitorPost ==
  ASSUME EventInv, EventInv', NEW s \in Subs, user_sub[s], db_queue_event_log(s),
         UNCHANGED <<epc, es, elog, seen>>
  PROVE  Monitors!Post(s)
<1> DEFINE all == [t \in Subs |-> Updates(t)]
<1>1. /\ ev_que[s] # NULL /\ UNCHANGED ev_que
  BY DEF EventInv, LifeInv, SubInv, db_queue_event_log, subVars
<1>2. \A t \in Subs : BeingDelivered(t)' = BeingDelivered(t)
  BY DeliveredThen
<1>3. /\ \/ Pending(s)' = Append(Pending(s), "current")
         \/ npend[s] > 0 /\ Pending(s)' = [Pending(s) EXCEPT ![npend[s]] = "current"]
      /\ \A t \in Subs : t # s => Pending(t)' = Pending(t)
  BY PendingLog
<1>4. \A t \in Subs : t # s => Updates(t)' = Updates(t)
  BY <1>2, <1>3 DEF Updates
<1>5. PICK d, p : d = BeingDelivered(s) /\ p = Pending(s)
  OBVIOUS
<1>6. /\ d \in Seq(Logs) /\ p \in Seq(Logs) /\ Len(p) = npend[s] /\ "current" \in Logs
      /\ Updates(s) = d \o p
  BY <1>5, DeliveredProps, PendingProps DEF Logs, Updates
<1> HIDE DEF Logs
<1>7. CASE Pending(s)' = Append(Pending(s), "current")
  <2>1. Updates(s)' = d \o Append(p, "current")
    BY <1>2, <1>5, <1>7 DEF Updates
  <2>2. Updates(s)' = Append(Updates(s), "current")
    BY <1>6, <2>1, ConcatAppend
  <2>3. all' = [all EXCEPT ![s] = Append(Updates(s), "current")]
    BY <1>4, <2>2, OneChanges
  <2>4. all' = [all EXCEPT ![s] = Append(@, "current")]
    BY <2>3
  <2> QED BY <1>1, <2>4 DEF Monitors!Post
<1>8. CASE npend[s] > 0 /\ Pending(s)' = [Pending(s) EXCEPT ![npend[s]] = "current"]
  <2>1. Updates(s)' = d \o WithLast(p, "current") /\ Len(p) > 0
    BY <1>2, <1>5, <1>6, <1>8 DEF Updates, WithLast
  <2>2. Updates(s) # <<>> /\ Updates(s)' = WithLast(Updates(s), "current")
    <3>1. d \o p # <<>> /\ d \o WithLast(p, "current") = WithLast(d \o p, "current")
      BY <1>6, <2>1, ConcatReplace
    <3> QED BY <1>6, <2>1, <3>1
  <2>3. all' = [all EXCEPT ![s] = [Updates(s) EXCEPT ![Len(Updates(s))] = "current"]]
    BY <1>4, <2>2, OneChanges DEF WithLast
  <2>4. all' = [all EXCEPT ![s][Len(all[s])] = "current"] /\ all[s] # <<>>
    BY <2>2, <2>3
  <2> QED BY <1>1, <2>4 DEF Monitors!Post
<1> QED BY <1>3, <1>7, <1>8

\* An event that is taken off the ring waits for its callback to be made.
LEMMA MonitorTake ==
  ASSUME EventInv, EventInv', TakeEvent
  PROVE  UNCHANGED Monitors!monitorVars
<1>1. PICK s : s = evque[eq][getix[eq]]
  OBVIOUS
<1>2. /\ s \in Subs /\ Preceded(Pending(s), elog', Pending(s)')
      /\ \A t \in Subs : t # s => Pending(t)' = Pending(t)
  BY <1>1, PendingTake
<1>3. epc = "drain" /\ epc' = "callback" /\ es' = s /\ UNCHANGED <<ev_que, seen>>
  BY <1>1 DEF TakeEvent, TaskAt, Oldest
<1>4. \A t \in Subs : BeingDelivered(t) = <<>> /\ Updates(t) = Pending(t)
  BY <1>3, DeliveredProps, UpdatesProps
<1>5. Updates(s)' = Updates(s)
  <2>1. BeingDelivered(s)' = <<elog'>>
    BY <1>2, <1>3, DeliveredThen
  <2> QED BY <1>2, <1>4, <2>1 DEF Updates, Preceded
<1>6. \A t \in Subs : t # s => Updates(t)' = Updates(t)
  BY <1>2, <1>3, <1>4, DeliveredThen, UpdatesThen
<1> QED BY <1>3, <1>5, <1>6, MonitorStutter

LEMMA MonitorSkip ==
  ASSUME EventInv, EventInv', SkipCanceled
  PROVE  UNCHANGED Monitors!monitorVars
<1>1. UNCHANGED <<ev_que, seen, epc, es, elog>>
  BY DEF SkipCanceled, subVars, taskVars
<1>2. \A t \in Subs : Updates(t)' = Updates(t)
  BY <1>1, PendingSkip, DeliveredThen DEF Updates
<1> QED BY <1>1, <1>2, MonitorStutter

\* The callback tells the client the oldest update.
LEMMA MonitorCallback ==
  ASSUME EventInv, EventInv', Callback
  PROVE  \E s \in Subs : Monitors!Deliver(s)
<1> DEFINE all == [t \in Subs |-> Updates(t)]
<1>1. PICK s : s = es
  OBVIOUS
<1>2. /\ s \in Subs /\ epc = "callback" /\ epc' = "called"
      /\ seen' = [seen EXCEPT ![s] = elog]
      /\ UNCHANGED <<evque, valque, getix, npend, ev_que>>
  BY <1>1 DEF Callback, TaskAt, ringVars, subVars, pendVars, EventInv, LifeInv, ControlTyped, Entered
<1>3. ev_que[s] # NULL /\ BeingDelivered(s) = <<elog>>
  BY <1>1, <1>2, DeliveredProps
<1>4. \A t \in Subs : Pending(t)' = Pending(t)
  <2>1. \A t \in Subs : Mine(t)' = Mine(t)
    BY <1>2 DEF Mine
  <2> QED BY <1>2, <2>1, PendingSame
<1>5. \A t \in Subs : Updates(t)' = Pending(t)
  BY <1>2, <1>4, DeliveredThen, UpdatesThen
<1>6. \A t \in Subs : t # s => Updates(t)' = Updates(t)
  BY <1>1, <1>5, DeliveredProps, UpdatesProps
<1>7. Updates(s) # <<>> /\ Head(Updates(s)) = elog /\ Tail(Updates(s)) = Pending(s)
  <2>1. Pending(s) \in Seq(Logs) /\ elog \in Logs
    BY <1>2, PendingProps DEF EventInv, LogTyped
  <2>2. PICK p \in Seq(Logs) : p = Pending(s)
    BY <2>1
  <2> HIDE DEF Logs
  <2>3. <<elog>> \o p # <<>> /\ Head(<<elog>> \o p) = elog /\ Tail(<<elog>> \o p) = p
    BY <2>1
  <2> QED BY <1>3, <2>2, <2>3 DEF Updates
<1>8. all' = [all EXCEPT ![s] = Pending(s)]
  BY <1>2, <1>5, <1>6, OneChanges
<1>9. all[s] # <<>> /\ all' = [all EXCEPT ![s] = Tail(@)] /\ seen' = [seen EXCEPT ![s] = Head(all[s])]
  BY <1>2, <1>7, <1>8
<1> QED BY <1>2, <1>3, <1>9 DEF Monitors!Deliver

\* A change of a record makes what MonitorQueue knows of it old.
AllAged(u) == [k \in DOMAIN u |-> Aged(u[k])]

LEMMA AgedIs ==
  ASSUME NEW u \in Seq(Logs)
  PROVE  /\ AllAged(u) \in Seq(Logs) /\ Len(AllAged(u)) = Len(u)
         /\ \A i \in 1..Len(u) : AllAged(u)[i] = Aged(u[i])
<1>1. \A x \in Logs : Aged(x) \in Logs
  BY DEF Aged, Logs
<1> HIDE DEF Logs
<1>2. DOMAIN u = 1..Len(u) /\ Len(u) \in Nat /\ \A i \in 1..Len(u) : u[i] \in Logs
  OBVIOUS
<1>3. AllAged(u) \in [1..Len(u) -> Logs]
  BY <1>1, <1>2 DEF AllAged
<1>4. \A i \in 1..Len(u) : AllAged(u)[i] = Aged(u[i])
  BY <1>2 DEF AllAged
<1> QED BY <1>2, <1>3, <1>4

LEMMA ConcatAged ==
  ASSUME NEW d \in Seq(Logs), NEW p \in Seq(Logs)
  PROVE  AllAged(d) \o AllAged(p) = AllAged(d \o p)
<1>1. d \o p \in Seq(Logs) /\ AllAged(d) \o AllAged(p) \in Seq(Logs)
  BY AgedIs
<1>2. PICK u, v : u = d \o p /\ v = AllAged(d) \o AllAged(p)
  OBVIOUS
<1>3. IsConcat(u, d, p) /\ IsConcat(v, AllAged(d), AllAged(p))
  BY <1>2 DEF IsConcat
<1>4. /\ u \in Seq(Logs) /\ Len(u) = Len(d) + Len(p)
      /\ \A i \in 1..Len(u) : u[i] = IF i <= Len(d) THEN d[i] ELSE p[i - Len(d)]
  BY <1>3, ConcatIs
<1>5. /\ AllAged(d) \in Seq(Logs) /\ Len(AllAged(d)) = Len(d) /\ Len(d) \in Nat
      /\ AllAged(p) \in Seq(Logs) /\ Len(AllAged(p)) = Len(p) /\ Len(p) \in Nat
      /\ \A i \in 1..Len(d) : AllAged(d)[i] = Aged(d[i])
      /\ \A i \in 1..Len(p) : AllAged(p)[i] = Aged(p[i])
  BY AgedIs
<1>6. /\ v \in Seq(Logs) /\ Len(v) = Len(d) + Len(p)
      /\ \A i \in 1..Len(v) : v[i] = IF i <= Len(d) THEN AllAged(d)[i] ELSE AllAged(p)[i - Len(d)]
  <2>1. PICK e, f : e = AllAged(d) /\ f = AllAged(p)
    OBVIOUS
  <2>2. e \in Seq(Logs) /\ f \in Seq(Logs) /\ IsConcat(v, e, f)
    BY <1>3, <1>5, <2>1
  <2>3. /\ v \in Seq(Logs) /\ Len(v) = Len(e) + Len(f)
        /\ \A i \in 1..Len(v) : v[i] = IF i <= Len(e) THEN e[i] ELSE f[i - Len(e)]
    BY <2>2, ConcatIs
  <2> QED BY <1>5, <2>1, <2>3
<1>7. /\ AllAged(u) \in Seq(Logs) /\ Len(AllAged(u)) = Len(u)
      /\ \A i \in 1..Len(u) : AllAged(u)[i] = Aged(u[i])
  BY <1>4, AgedIs
<1>8. ASSUME NEW i \in 1..Len(u) PROVE v[i] = AllAged(u)[i]
  <2>1. CASE i <= Len(d)
    <3>1. i \in 1..Len(d)
      BY <1>4, <1>5, <2>1
    <3>2. v[i] = AllAged(d)[i] /\ u[i] = d[i]
      BY <1>4, <1>5, <1>6, <2>1
    <3> QED BY <1>5, <1>7, <3>1, <3>2
  <2>2. CASE ~(i <= Len(d))
    <3>1. PICK j : j = i - Len(d)
      OBVIOUS
    <3>2. j \in 1..Len(p)
      BY <1>4, <1>5, <2>2, <3>1
    <3>3. v[i] = AllAged(p)[j] /\ u[i] = p[j]
      BY <1>4, <1>5, <1>6, <2>2, <3>1
    <3> QED BY <1>5, <1>7, <3>2, <3>3
  <2> QED BY <2>1, <2>2
<1>9. v = AllAged(u)
  BY <1>4, <1>6, <1>7, <1>8
<1> QED BY <1>2, <1>9

LEMMA MonitorChange ==
  ASSUME EventInv, EventInv', NEW r \in Records, Process(r)
  PROVE  Monitors!Change(r)
<1>1. /\ UNCHANGED <<ev_que, epc, es>>
      /\ elog' = IF es \in Subs /\ RecOf[es] = r THEN Aged(elog) ELSE elog
      /\ seen' = [s \in Subs |-> IF RecOf[s] = r THEN Aged(seen[s]) ELSE seen[s]]
  BY DEF Process, subVars
<1>2. ASSUME NEW t \in Subs
      PROVE  Updates(t)' = IF RecOf[t] = r THEN AllAged(Updates(t)) ELSE Updates(t)
  <2>1. PICK d, p : d = BeingDelivered(t) /\ p = Pending(t)
    OBVIOUS
  <2>2. d \in Seq(Logs) /\ p \in Seq(Logs) /\ Updates(t) = d \o p
    BY <2>1, DeliveredProps, PendingProps DEF Updates
  <2>3. Pending(t)' = IF RecOf[t] = r THEN AllAged(p) ELSE p
    BY <2>1, PendingAge DEF AllAged
  <2>4. BeingDelivered(t)' = IF RecOf[t] = r THEN AllAged(d) ELSE d
    <3>1. CASE epc = "callback" /\ es = t
      <4>1. d = <<elog>> /\ BeingDelivered(t)' = <<elog'>>
        BY <1>1, <2>1, <3>1 DEF BeingDelivered
      <4>2. AllAged(<<elog>>) = <<Aged(elog)>>
        BY DEF AllAged
      <4> QED BY <1>1, <3>1, <4>1, <4>2
    <3>2. CASE ~(epc = "callback" /\ es = t)
      <4>1. d = <<>> /\ BeingDelivered(t)' = <<>>
        BY <1>1, <2>1, <3>2 DEF BeingDelivered
      <4>2. AllAged(<<>>) = <<>>
        BY DEF AllAged
      <4> QED BY <4>1, <4>2
    <3> QED BY <3>1, <3>2
  <2>5. CASE RecOf[t] = r
    <3>1. Updates(t)' = AllAged(d) \o AllAged(p)
      BY <2>3, <2>4, <2>5 DEF Updates
    <3> QED BY <2>2, <2>5, <3>1, ConcatAged
  <2>6. CASE RecOf[t] # r
    BY <2>2, <2>3, <2>4, <2>6 DEF Updates
  <2> QED BY <2>5, <2>6
<1>3. \A x : Monitors!Outdated(x) = Aged(x)
  BY DEF Monitors!Outdated, Aged
<1>4. [s \in Subs |-> Updates(s)]' =
        [s \in Subs |-> IF RecOf[s] = r
                        THEN [i \in DOMAIN Updates(s) |-> Monitors!Outdated(Updates(s)[i])]
                        ELSE Updates(s)]
  BY <1>2, <1>3 DEF AllAged
<1>5. seen' = [s \in Subs |-> IF RecOf[s] = r THEN Monitors!Outdated(seen[s]) ELSE seen[s]]
  BY <1>1, <1>3
<1> QED BY <1>1, <1>4, <1>5 DEF Monitors!Change

\* A block is freed: its subscription has nothing left to deliver.
LEMMA MonitorFree ==
  ASSUME NEW s \in Subs, ev_que[s] # NULL, ev_que' = [ev_que EXCEPT ![s] = NULL],
         ev_que \in [Subs -> Queues \cup {NULL}], Updates(s)' = <<>>,
         \A t \in Subs : t # s => Updates(t)' = Updates(t), UNCHANGED seen
  PROVE  Monitors!Unsubscribe(s)
<1>1. {t \in Subs : ev_que[t] # NULL}' = {t \in Subs : ev_que[t] # NULL} \ {s}
  OBVIOUS
<1>2. [t \in Subs |-> Updates(t)]' = [[t \in Subs |-> Updates(t)] EXCEPT ![s] = <<>>]
  BY OneChanges
<1> QED BY <1>1, <1>2 DEF Monitors!Unsubscribe

LEMMA MonitorCancel ==
  ASSUME EventInv, EventInv', db_cancel_event
  PROVE  (\E s \in Subs : Monitors!Withdraw(s) \/ Monitors!Unsubscribe(s))
         \/ UNCHANGED Monitors!monitorVars
<1> DEFINE all == [t \in Subs |-> Updates(t)]
<1>1. PICK s : s = cs
  OBVIOUS
<1>2. /\ s \in Subs /\ ev_que[s] # NULL /\ Purge(s) /\ UNCHANGED <<seen, epc, es, elog>>
      /\ IF callBackInProgress[s] THEN UNCHANGED ev_que ELSE ev_que' = [ev_que EXCEPT ![s] = NULL]
      /\ ev_que \in [Subs -> Queues \cup {NULL}]
  BY <1>1 DEF db_cancel_event, Free, taskVars, EventInv, LifeInv, ControlTyped, ClientInv, Occupied
<1>3. Pending(s)' = <<>> /\ \A t \in Subs : t # s => Pending(t)' = Pending(t)
  BY <1>2, PendingPurge
<1>4. \A t \in Subs : BeingDelivered(t)' = BeingDelivered(t)
  BY <1>2, DeliveredThen
<1>5. Updates(s)' = BeingDelivered(s) /\ \A t \in Subs : t # s => Updates(t)' = Updates(t)
  <2>1. Updates(s)' = BeingDelivered(s)'
    BY <1>2, <1>3, UpdatesThen
  <2> QED BY <1>2, <1>3, <1>4, <2>1 DEF Updates
<1>6. CASE ~callBackInProgress[s]
  <2>1. BeingDelivered(s) = <<>>
    BY <1>2, <1>6, DeliveredProps
  <2>2. Monitors!Unsubscribe(s)
    BY <1>2, <1>5, <1>6, <2>1, MonitorFree
  <2> QED BY <1>2, <2>2
<1>7. CASE callBackInProgress[s] /\ Updates(s) = <<>>
  <2>1. Updates(s)' = Updates(s)
    <3>1. BeingDelivered(s) \in Seq(Logs) /\ Pending(s) \in Seq(Logs)
      BY <1>2, DeliveredProps, PendingProps
    <3>2. BeingDelivered(s) = <<>>
      <4>1. PICK d, p : d = BeingDelivered(s) /\ p = Pending(s)
        OBVIOUS
      <4>2. d \in Seq(Logs) /\ p \in Seq(Logs) /\ IsConcat(<<>>, d, p)
        BY <1>7, <3>1, <4>1 DEF Updates, IsConcat
      <4>3. Len(<<>>) = Len(d) + Len(p) /\ Len(d) \in Nat /\ Len(p) \in Nat
        BY <4>2, ConcatIs
      <4>4. d = <<>>
        BY <4>2, <4>3
      <4> QED BY <4>1, <4>4
    <3> QED BY <1>5, <1>7, <3>2
  <2> QED BY <1>2, <1>5, <1>7, <2>1, MonitorStutter
<1>8. CASE callBackInProgress[s] /\ Updates(s) # <<>>
  <2>1. BeingDelivered(s) \in {<<>>, <<Head(Updates(s))>>}
    <3>1. CASE BeingDelivered(s) # <<>>
      <4>1. BeingDelivered(s) = <<elog>> /\ Pending(s) \in Seq(Logs) /\ elog \in Logs
        BY <1>2, <3>1, DeliveredProps, PendingProps DEF EventInv, LogTyped
      <4>2. PICK p \in Seq(Logs) : p = Pending(s)
        BY <4>1
      <4> HIDE DEF Logs
      <4>3. Head(<<elog>> \o p) = elog
        BY <4>1
      <4> QED BY <4>1, <4>2, <4>3 DEF Updates
    <3> QED BY <3>1
  <2>2. PICK kept : kept = BeingDelivered(s)
    OBVIOUS
  <2>3. all' = [all EXCEPT ![s] = kept]
    <3>1. Updates(s)' = kept
      BY <1>5, <2>2
    <3> QED BY <1>2, <1>5, <3>1, OneChanges
  <2>4. kept \in {<<>>, <<Head(all[s])>>} /\ all[s] # <<>>
    BY <1>2, <1>8, <2>1, <2>2
  <2>5. Monitors!Withdraw(s)
    BY <1>2, <1>8, <2>3, <2>4 DEF Monitors!Withdraw
  <2> QED BY <1>2, <2>5
<1> QED BY <1>6, <1>7, <1>8

LEMMA MonitorFlushed ==
  ASSUME EventInv, EventInv', FlushDone
  PROVE  (\E s \in Subs : Monitors!Unsubscribe(s)) \/ UNCHANGED Monitors!monitorVars
<1>1. PICK s : s = cs
  OBVIOUS
<1>2. /\ s \in Subs /\ ev_que[s] # NULL /\ ~user_sub[s] /\ ~InCallback(s)
      /\ UNCHANGED <<evque, valque, getix, npend, seen, epc, es, elog>>
      /\ IF callBackInProgress[s] THEN UNCHANGED ev_que ELSE ev_que' = [ev_que EXCEPT ![s] = NULL]
      /\ ev_que \in [Subs -> Queues \cup {NULL}]
  BY <1>1 DEF FlushDone, Free, taskVars, ringVars, pendVars, EventInv, LifeInv, ControlTyped,
     ClientInv, FlushInv, Occupied
<1>3. CASE callBackInProgress[s]
  BY <1>2, <1>3, MonitorQuiet
<1>4. CASE ~callBackInProgress[s]
  <2>1. BeingDelivered(s) = <<>> /\ BeingDelivered(s)' = <<>>
    BY <1>2, <1>4, DeliveredProps, DeliveredThen
  <2>2. Pending(s)' = <<>>
    BY <1>2, PendingProps, PendingNone
  <2>3. Updates(s)' = <<>>
    BY <1>2, <2>1, <2>2, UpdatesThen
  <2>4. ASSUME NEW t \in Subs, t # s PROVE Updates(t)' = Updates(t)
    <3>1. UNCHANGED ev_que[t]
      BY <1>2, <2>4
    <3>2. Mine(t)' = Mine(t)
      BY <1>2, <3>1 DEF Mine
    <3>3. Pending(t)' = Pending(t)
      BY <1>2, <3>1, <3>2, PendingSame
    <3> QED BY <1>2, <3>3, DeliveredThen DEF Updates
  <2>5. Monitors!Unsubscribe(s)
    BY <1>2, <1>4, <2>3, <2>4, MonitorFree
  <2> QED BY <1>2, <2>5
<1> QED BY <1>3, <1>4

LEMMA MonitorSelfPurge ==
  ASSUME EventInv, EventInv', SelfPurge
  PROVE  \E s \in Subs : Monitors!Unsubscribe(s)
<1>1. PICK s : s = es
  OBVIOUS
<1>2. /\ s \in Subs /\ ev_que[s] # NULL /\ Purge(s) /\ epc = "self_purge" /\ epc' = "called"
      /\ UNCHANGED seen /\ ev_que' = [ev_que EXCEPT ![s] = NULL]
      /\ ev_que \in [Subs -> Queues \cup {NULL}]
  BY <1>1 DEF SelfPurge, Free, TaskAt, EventInv, LifeInv, ControlTyped, SelfPurgeInv, SubInv, Entered
<1>3. Pending(s)' = <<>> /\ \A t \in Subs : t # s => Pending(t)' = Pending(t)
  BY <1>2, PendingPurge
<1>4. \A t \in Subs : BeingDelivered(t) = <<>> /\ BeingDelivered(t)' = <<>>
  BY <1>2, DeliveredProps, DeliveredThen
<1>5. Updates(s)' = <<>>
  BY <1>2, <1>3, <1>4, UpdatesThen
<1>6. \A t \in Subs : t # s => Updates(t)' = Updates(t)
  BY <1>3, <1>4 DEF Updates
<1> QED BY <1>2, <1>5, <1>6, MonitorFree

LEMMA MonitorAdd ==
  ASSUME EventInv, EventInv', NEW s \in Subs, db_add_event(s)
  PROVE  Monitors!Subscribe(s)
<1>1. PICK q \in Queues : ev_que' = [ev_que EXCEPT ![s] = q]
  BY DEF db_add_event
<1>2. /\ ev_que[s] = NULL /\ seen' = [seen EXCEPT ![s] = "none"] /\ NULL \notin Queues
      /\ UNCHANGED <<evque, valque, getix, npend, epc, es, elog>>
      /\ ev_que \in [Subs -> Queues \cup {NULL}]
  BY QueueNumbers DEF db_add_event, ringVars, pendVars, taskVars, EventInv, LifeInv, ControlTyped
<1>3. Updates(s)' = Updates(s)
  <2>1. BeingDelivered(s)' = BeingDelivered(s)
    BY <1>2, DeliveredThen
  <2>2. npend[s] = 0
    BY <1>2, PendingProps
  <2>3. Pending(s)' = Pending(s)
    BY <1>2, <2>2, PendingNone
  <2> QED BY <2>1, <2>3 DEF Updates
<1>4. ASSUME NEW t \in Subs, t # s PROVE Updates(t)' = Updates(t)
  <2>1. UNCHANGED ev_que[t]
    BY <1>1, <1>2, <1>4
  <2>2. Mine(t)' = Mine(t)
    BY <1>2, <2>1 DEF Mine
  <2>3. Pending(t)' = Pending(t)
    BY <1>2, <2>1, <2>2, PendingSame
  <2> QED BY <1>2, <2>3, DeliveredThen DEF Updates
<1>5. {t \in Subs : ev_que[t] # NULL}' = {t \in Subs : ev_que[t] # NULL} \cup {s}
  BY <1>1, <1>2
<1>6. UNCHANGED [t \in Subs |-> Updates(t)]
  BY <1>3, <1>4
<1> QED BY <1>2, <1>5, <1>6 DEF Monitors!Subscribe

LEMMA MonitorScan ==
  ASSUME EventInv, EventInv', NEW r \in Records, ScanStep(r)
  PROVE  (\E s \in Subs : Monitors!Post(s)) \/ UNCHANGED Monitors!monitorVars
<1>1. CASE db_post_events(r) \/ PostSignal(r) \/ PostEnds(r)
  <2>1. UNCHANGED <<evque, valque, getix, ev_que, seen, epc, es, elog>>
    BY <1>1 DEF db_post_events, PostSignal, PostEnds, ringVars, subVars, taskVars
  <2> QED BY <2>1, MonitorQuiet
<1>2. ASSUME NEW s \in Subs, PostOne(r, s) PROVE Monitors!Post(s)
  <2>1. /\ user_sub[s] /\ db_queue_event_log(s) /\ UNCHANGED <<epc, es, elog, seen>>
    BY <1>2 DEF PostOne, taskVars, EventInv, LifeInv, TodoInv, SubInv
  <2> QED BY <2>1, MonitorPost
<1> QED BY <1>1, <1>2 DEF ScanStep

LEMMA MonitorClient ==
  ASSUME EventInv, EventInv', ClientAsks \/ ClientStep
  PROVE  [Monitors!MonitorNext]_(Monitors!monitorVars)
<1>1. CASE \/ \E s \in Subs : db_event_disable(s)
           \/ \E on \in BOOLEAN : flow_ctrl_mode(on)
           \/ db_close_events \/ ClientSignals \/ db_event_enable \/ FlushWait \/ Join
  <2>1. UNCHANGED <<evque, valque, getix, ev_que, seen, epc, es, elog>>
    BY <1>1 DEF db_event_disable, flow_ctrl_mode, db_close_events, ClientSignals, db_event_enable,
                FlushWait, Join, ringVars, subVars, taskVars
  <2> QED BY <2>1, MonitorQuiet
<1>2. CASE db_post_single_event
  <2>1. /\ cs \in Subs /\ user_sub[cs] /\ db_queue_event_log(cs)
        /\ UNCHANGED <<epc, es, elog, seen>>
    BY <1>2 DEF db_post_single_event, taskVars, EventInv, LifeInv, ControlTyped, ClientInv, SubInv,
                Occupied
  <2>2. PICK s \in Subs : s = cs
    BY <2>1
  <2>3. Monitors!Post(s)
    BY <2>1, <2>2, MonitorPost
  <2> QED BY <2>3 DEF Monitors!MonitorNext
<1>3. CASE db_cancel_event
  BY <1>3, MonitorCancel DEF Monitors!MonitorNext
<1>4. CASE FlushDone
  BY <1>4, MonitorFlushed DEF Monitors!MonitorNext
<1>5. ASSUME NEW s \in Subs, db_add_event(s) PROVE Monitors!MonitorNext
  BY <1>5, MonitorAdd DEF Monitors!MonitorNext
<1> QED BY <1>1, <1>2, <1>3, <1>4, <1>5 DEF ClientAsks, ClientStep

LEMMA MonitorTask ==
  ASSUME EventInv, EventInv', TaskStep
  PROVE  [Monitors!MonitorNext]_(Monitors!monitorVars)
<1>1. CASE \/ event_task_wakes \/ event_read \/ QueueEmpty \/ SelfDisable \/ CallbackReturns
           \/ event_task_exits
  <2>1. /\ UNCHANGED <<evque, valque, getix, ev_que, seen>> /\ epc # "callback" /\ epc' # "callback"
    BY <1>1 DEF event_task_wakes, event_read, QueueEmpty, SelfDisable, CallbackReturns,
                event_task_exits, NextQueue, TaskAt, ringVars, subVars
  <2> QED BY <2>1, MonitorQuiet
<1>2. CASE Callback
  BY <1>2, MonitorCallback DEF Monitors!MonitorNext
<1>3. CASE SelfPurge
  BY <1>3, MonitorSelfPurge DEF Monitors!MonitorNext
<1> QED BY <1>1, <1>2, <1>3, MonitorTake, MonitorSkip DEF TaskStep

(***************************************************************************)
(* The refinement: the rings, which subscriptions share and events of      *)
(* which are replaced and canceled under way, behave to each subscription  *)
(* as a queue of its own (db_queue_event_log, event_read,                  *)
(* db_cancel_event), for any number of subscriptions, records and rings.   *)
(***************************************************************************)
THEOREM EventImplementsMonitorQueue == DbEventSpec => ImplementsMonitorQueue
<1>1. DbEventInit => Monitors!MonitorInit
  <2> SUFFICES ASSUME DbEventInit PROVE Monitors!MonitorInit
    OBVIOUS
  <2>1. /\ \A s \in Subs : ev_que[s] = NULL /\ npend[s] = 0
        /\ seen = [s \in Subs |-> "none"] /\ epc = "wait"
    BY DEF DbEventInit
  <2>2. \A s \in Subs : Updates(s) = <<>>
    <3>1. \A s \in Subs : Pending(s) = <<>> /\ BeingDelivered(s) = <<>>
      BY <2>1, PendingNone DEF BeingDelivered
    <3> QED BY <3>1 DEF Updates
  <2> QED BY <2>1, <2>2 DEF Monitors!MonitorInit
<1>2. EventInv /\ EventInv' /\ [DbEventNext]_eventVars => [Monitors!MonitorNext]_(Monitors!monitorVars)
  <2>1. ASSUME EventInv, EventInv', UNCHANGED eventVars PROVE UNCHANGED Monitors!monitorVars
    <3>1. UNCHANGED <<evque, valque, getix, ev_que, seen, epc, es, elog>>
      BY <2>1 DEF eventVars, ringVars, subVars, taskVars
    <3> QED BY <2>1, <3>1, MonitorQuiet
  <2>2. ASSUME EventInv, EventInv', NEW r \in Records, Process(r) \/ ScanStep(r)
        PROVE  [Monitors!MonitorNext]_(Monitors!monitorVars)
    BY <2>2, MonitorChange, MonitorScan DEF Monitors!MonitorNext
  <2> QED BY <2>1, <2>2, MonitorClient, MonitorTask DEF DbEventNext
<1>3. DbEventSpec => []EventInv
  <2>1. LifeInv /\ RingInv /\ BookInv /\ LogTyped => EventInv
    BY DEF EventInv
  <2> QED BY <2>1, LifeAlways, RingAlways, BooksAlways, LogAlways, PTL
<1> QED BY <1>1, <1>2, <1>3, PTL DEF DbEventSpec, ImplementsMonitorQueue, Monitors!MonitorSpec

=============================================================================
