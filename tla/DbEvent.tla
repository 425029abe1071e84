------------------------------- MODULE DbEvent -------------------------------
(***************************************************************************)
(* The event queues of dbEvent.c, by which the channel access server tells *)
(* a client about changes of the records it has subscribed to.             *)
(*                                                                         *)
(* Three kinds of thread meet here.  A scan thread changes a record and,   *)
(* with the record's scan lock held, posts an event to every subscription  *)
(* on the record's list mlis.  The server's thread for the client carries  *)
(* out its requests (camessage.c): subscribe, cancel, flow control,        *)
(* disconnect.  The client's event task takes events off the queues and    *)
(* calls the subscriptions' callbacks.                                     *)
(*                                                                         *)
(* A queue is a ring that subscriptions share.  An action is a section     *)
(* under a queue's writelock, or one call on a semaphore.  The fields of   *)
(* the rack monitor are scalars, so every event carries a value            *)
(* (useValque); of a value only matters whether the record still has it.   *)
(***************************************************************************)
EXTENDS Integers, Sequences, FiniteSets, SequencesExt, FiniteSetsExt

CONSTANTS
  Subs,          \* memory blocks for subscriptions (they are used again)
  Records,
  RecOf,         \* the record a subscription is for
  EVENTSPERQUE,
  EVENTENTRIES,
  MaxQueues,     \* bound: once the last of them is in use, no more requests
  SelfCancel,    \* subscriptions whose callback may cancel them
  FlowControl    \* whether the client uses flow control

ASSUME DbEventAssumption ==
  /\ RecOf \in [Subs -> Records]
  /\ EVENTSPERQUE \in Nat \ {0} /\ EVENTENTRIES \in Nat \ {0}
  /\ MaxQueues \in Nat \ {0}
  /\ SelfCancel \subseteq Subs
  /\ FlowControl \in BOOLEAN
  /\ Subs \cap {"empty", "canceled", "none"} = {}

EVENTQUESIZE == EVENTENTRIES * EVENTSPERQUE
Slots  == 0..(EVENTQUESIZE - 1)
Queues == 1..MaxQueues
NULL   == -1

VARIABLES
  evque, valque,           \* each queue's ring: a subscription, and its value
  putix, getix,
  quota, nDuplicates, nCanceled,
  nque,                    \* the queues that have been created
  ev_que,                  \* a subscription's queue, or NULL: the block is free
  user_sub,                \* its callback is set
  npend, pLastLog,         \* its events in the ring, and the slot of the last
  enabled,                 \* it is on its record's mlis
  callBackInProgress,
  flowCtrlMode, pendexit, pSuicideEvent,
  ppendsem, pflush_sem, pexitsem,
  cpc, cs,                 \* client's thread: where it is, for which subscription
  rpc, todo,               \* scan thread of a record: where, for which it must post
  epc, eq, es, elog,       \* event task: where, queue, subscription and value
  seen,                    \* what the client was last told
  missed                   \* history: a change was posted before the enable

ringVars  == <<evque, valque, putix, getix, nDuplicates, nCanceled>>
subVars   == <<ev_que, user_sub, enabled, callBackInProgress, quota, nque>>
pendVars  == <<npend, pLastLog>>
userVars  == <<flowCtrlMode, pendexit>>
semVars   == <<ppendsem, pflush_sem, pexitsem>>
taskVars  == <<epc, eq, es, elog, pSuicideEvent>>
eventVars == <<ringVars, subVars, pendVars, userVars, semVars, cpc, cs, rpc, todo, taskVars,
               seen, missed>>

DbEventInit ==
  /\ evque = [q \in Queues |-> [i \in Slots |-> "empty"]]
  /\ valque = [q \in Queues |-> [i \in Slots |-> "none"]]
  /\ putix = [q \in Queues |-> 0] /\ getix = putix
  /\ quota = putix /\ nDuplicates = putix /\ nCanceled = putix
  /\ nque = 1
  /\ ev_que = [s \in Subs |-> NULL] /\ pLastLog = ev_que
  /\ user_sub = [s \in Subs |-> FALSE] /\ enabled = user_sub /\ callBackInProgress = user_sub
  /\ npend = [s \in Subs |-> 0]
  /\ flowCtrlMode = FALSE /\ pendexit = FALSE /\ pSuicideEvent = "none"
  /\ ppendsem = FALSE /\ pflush_sem = FALSE /\ pexitsem = FALSE
  /\ cpc = "idle" /\ cs = "none"
  /\ rpc = [r \in Records |-> "idle"] /\ todo = [r \in Records |-> {}]
  /\ epc = "wait" /\ eq = 1 /\ es = "none" /\ elog = "none"
  /\ seen = [s \in Subs |-> "none"] /\ missed = {}

-----------------------------------------------------------------------------
\* The locks.  A record's scan lock is held while it is processed, and by
\* db_post_single_event; mlok, the lock of its mlis, while events are posted.
ScanLockFree(r) == rpc[r] = "idle" /\ ~(cpc = "post_signal" /\ RecOf[cs] = r)
MlokFree(r)     == rpc[r] \notin {"posting", "signal"}

\* event_read holds a queue's writelock from one callback to the next.
WritelockFree(q) == ~(epc = "drain" /\ eq = q)

\* Variant: the comparison is off by one.
RNGINCTooFar(i) == IF i >= EVENTQUESIZE THEN 0 ELSE i + 1

RNGINC(i) == IF i >= EVENTQUESIZE - 1 THEN 0 ELSE i + 1

ringSpace(q) ==
  CASE evque[q][putix[q]] # "empty" -> 0
    [] getix[q] > putix[q] -> getix[q] - putix[q]
    [] OTHER -> EVENTQUESIZE + getix[q] - putix[q]

\* The new event takes the place of the subscription's last one.
Replaces(s) ==
  npend[s] > 0 /\ (flowCtrlMode \/ ringSpace(ev_que[s]) <= EVENTSPERQUE)

\* Variant: the space is counted with the new event in the ring.
FirstEventTooLate(s) == ~Replaces(s) /\ ringSpace(ev_que[s]) = EVENTQUESIZE - 1

\* The ring was empty, so the event task may be asleep (firstEventFlag).
FirstEvent(s) == ~Replaces(s) /\ ringSpace(ev_que[s]) = EVENTQUESIZE

\* Variant: the new value is discarded instead of the old one.
ReplaceLastNot(s) == UNCHANGED valque

ReplaceLast(s) == valque' = [valque EXCEPT ![ev_que[s]][pLastLog[s]] = "current"]

\* Variant: pLastLog stays at the first of several events.
AppendEventUnmarked(s) ==
  LET q == ev_que[s] IN
  /\ evque' = [evque EXCEPT ![q][putix[q]] = s]
  /\ valque' = [valque EXCEPT ![q][putix[q]] = "current"]
  /\ pLastLog' = [pLastLog EXCEPT ![s] = IF npend[s] > 0 THEN @ ELSE putix[q]]
  /\ nDuplicates' = [nDuplicates EXCEPT ![q] = IF npend[s] > 0 THEN @ + 1 ELSE @]
  /\ npend' = [npend EXCEPT ![s] = @ + 1]
  /\ putix' = [putix EXCEPT ![q] = RNGINC(@)]

AppendEvent(s) ==
  LET q == ev_que[s] IN
  /\ evque' = [evque EXCEPT ![q][putix[q]] = s]
  /\ valque' = [valque EXCEPT ![q][putix[q]] = "current"]
  /\ pLastLog' = [pLastLog EXCEPT ![s] = putix[q]]
  /\ nDuplicates' = [nDuplicates EXCEPT ![q] = IF npend[s] > 0 THEN @ + 1 ELSE @]
  /\ npend' = [npend EXCEPT ![s] = @ + 1]
  /\ putix' = [putix EXCEPT ![q] = RNGINC(@)]

\* db_queue_event_log up to the unlock; a failed assert stops the thread.
db_queue_event_log(s) ==
  /\ WritelockFree(ev_que[s])
  /\ \/ /\ Replaces(s)
        /\ ReplaceLast(s)
        /\ UNCHANGED <<evque, putix, nDuplicates, pendVars>>
     \/ /\ ~Replaces(s)
        /\ evque[ev_que[s]][putix[ev_que[s]]] = "empty"
        /\ AppendEvent(s)
  /\ missed' = missed \ {s}
  /\ UNCHANGED <<getix, nCanceled, subVars, userVars>>

-----------------------------------------------------------------------------
\* A scan thread processes a record, whose value changes: what was logged of
\* it before is old.
Aged(log) == IF log = "current" THEN "old" ELSE log

Process(r) ==
  /\ ScanLockFree(r)
  /\ rpc' = [rpc EXCEPT ![r] = "changed"]
  /\ valque' = [q \in Queues |-> [i \in Slots |->
                  IF evque[q][i] \in Subs /\ RecOf[evque[q][i]] = r
                  THEN Aged(valque[q][i]) ELSE valque[q][i]]]
  /\ elog' = IF es \in Subs /\ RecOf[es] = r THEN Aged(elog) ELSE elog
  /\ seen' = [s \in Subs |-> IF RecOf[s] = r THEN Aged(seen[s]) ELSE seen[s]]
  /\ UNCHANGED <<evque, putix, getix, nDuplicates, nCanceled, subVars, pendVars, userVars,
                 semVars, cpc, cs, todo, epc, eq, es, pSuicideEvent, missed>>

\* db_post_events locks mlis.  A subscription that has had its first event
\* but is not enabled yet gets none.
db_post_events(r) ==
  /\ rpc[r] = "changed"
  /\ rpc' = [rpc EXCEPT ![r] = "posting"]
  /\ todo' = [todo EXCEPT ![r] = {s \in Subs : enabled[s] /\ RecOf[s] = r}]
  /\ missed' = IF cpc = "enable" /\ RecOf[cs] = r THEN missed \cup {cs} ELSE missed
  /\ UNCHANGED <<ringVars, subVars, pendVars, userVars, semVars, cpc, cs, taskVars, seen>>

PostOne(r, s) ==
  /\ rpc[r] = "posting"
  /\ s \in todo[r]
  /\ db_queue_event_log(s)
  /\ rpc' = [rpc EXCEPT ![r] = IF FirstEvent(s) THEN "signal" ELSE @]
  /\ todo' = [todo EXCEPT ![r] = @ \ {s}]
  /\ UNCHANGED <<semVars, cpc, cs, taskVars, seen>>

PostSignal(r) ==
  /\ rpc[r] = "signal"
  /\ ppendsem' = TRUE
  /\ rpc' = [rpc EXCEPT ![r] = "posting"]
  /\ UNCHANGED <<ringVars, subVars, pendVars, userVars, pflush_sem, pexitsem, cpc, cs, todo,
                 taskVars, seen, missed>>

PostEnds(r) ==
  /\ rpc[r] = "posting"
  /\ todo[r] = {}
  /\ rpc' = [rpc EXCEPT ![r] = "idle"]
  /\ UNCHANGED <<ringVars, subVars, pendVars, userVars, semVars, cpc, cs, todo, taskVars, seen,
                 missed>>

ScanStep(r) == db_post_events(r) \/ (\E s \in Subs : PostOne(r, s)) \/ PostSignal(r) \/ PostEnds(r)

-----------------------------------------------------------------------------
\* The client's thread.

ClientAt(pc, s) == cpc' = pc /\ cs' = s

HasQuota(q) == quota[q] + nCanceled[q] < EVENTQUESIZE - EVENTENTRIES

\* event_add_action calls db_add_event: the first queue with enough quota.
db_add_event(s) ==
  /\ cpc = "idle"
  /\ ev_que[s] = NULL
  /\ \E q \in Queues :
       /\ q <= nque + 1
       /\ HasQuota(q)
       /\ \A p \in 1..(q - 1) : ~HasQuota(p)
       /\ \A p \in 1..q : WritelockFree(p)
       /\ nque' = IF q > nque THEN q ELSE nque
       /\ quota' = [quota EXCEPT ![q] = @ + EVENTENTRIES]
       /\ ev_que' = [ev_que EXCEPT ![s] = q]
  /\ user_sub' = [user_sub EXCEPT ![s] = TRUE]
  /\ seen' = [seen EXCEPT ![s] = "none"]
  /\ missed' = missed \ {s}
  /\ ClientAt("post", s)
  /\ UNCHANGED <<ringVars, enabled, callBackInProgress, pendVars, userVars, semVars, rpc, todo,
                 taskVars>>

\* "always send it once at event add"
db_post_single_event ==
  /\ cpc = "post"
  /\ ScanLockFree(RecOf[cs])
  /\ db_queue_event_log(cs)
  /\ ClientAt(IF FirstEvent(cs) THEN "post_signal" ELSE "enable", cs)
  /\ UNCHANGED <<semVars, rpc, todo, taskVars, seen>>

\* The end of db_post_single_event, of a flow control request, of the first
\* half of db_close_events.
ClientSignals ==
  /\ cpc \in {"post_signal", "flow_signal", "close_signal"}
  /\ ppendsem' = TRUE
  /\ CASE cpc = "post_signal"  -> ClientAt("enable", cs)
       [] cpc = "flow_signal"  -> ClientAt("idle", "none")
       [] cpc = "close_signal" -> ClientAt("join", "none")
  /\ UNCHANGED <<ringVars, subVars, pendVars, userVars, pflush_sem, pexitsem, rpc, todo, taskVars,
                 seen, missed>>

db_event_enable ==
  /\ cpc = "enable"
  /\ MlokFree(RecOf[cs])
  /\ enabled' = [enabled EXCEPT ![cs] = TRUE]
  /\ ClientAt("idle", "none")
  /\ UNCHANGED <<ringVars, ev_que, user_sub, callBackInProgress, quota, nque, pendVars, userVars,
                 semVars, rpc, todo, taskVars, seen, missed>>

\* event_cancel_reply calls db_cancel_event, which disables first.
db_event_disable(s) ==
  /\ cpc = "idle"
  /\ ev_que[s] # NULL
  /\ ~(epc = "self_purge" /\ es = s)
  /\ MlokFree(RecOf[s])
  /\ enabled' = [enabled EXCEPT ![s] = FALSE]
  /\ ClientAt("purge", s)
  /\ UNCHANGED <<ringVars, ev_que, user_sub, callBackInProgress, quota, nque, pendVars, userVars,
                 semVars, rpc, todo, taskVars, seen, missed>>

\* Variant: the last of its events counts as a duplicate too.
PurgeAllDuplicates(s) ==
  LET q == ev_que[s]
      mine == {i \in Slots : evque[q][i] = s}
  IN
  /\ WritelockFree(q)
  /\ evque' = [evque EXCEPT ![q] = [i \in Slots |-> IF i \in mine THEN "canceled" ELSE @[i]]]
  /\ valque' = [valque EXCEPT ![q] = [i \in Slots |-> IF i \in mine THEN "none" ELSE @[i]]]
  /\ nCanceled' = [nCanceled EXCEPT ![q] = @ + Cardinality(mine)]
  /\ nDuplicates' = [nDuplicates EXCEPT ![q] = @ - Cardinality(mine)]
  /\ npend' = [npend EXCEPT ![s] = 0]
  /\ pLastLog' = [pLastLog EXCEPT ![s] = NULL]
  /\ UNCHANGED <<putix, getix>>

\* Its events are marked as canceled and stay in the ring.
Purge(s) ==
  LET q == ev_que[s]
      mine == {i \in Slots : evque[q][i] = s}
  IN
  /\ WritelockFree(q)
  /\ evque' = [evque EXCEPT ![q] = [i \in Slots |-> IF i \in mine THEN "canceled" ELSE @[i]]]
  /\ valque' = [valque EXCEPT ![q] = [i \in Slots |-> IF i \in mine THEN "none" ELSE @[i]]]
  /\ nCanceled' = [nCanceled EXCEPT ![q] = @ + Cardinality(mine)]
  /\ nDuplicates' = [nDuplicates EXCEPT ![q] = @ - Max({Cardinality(mine) - 1, 0})]
  /\ npend' = [npend EXCEPT ![s] = 0]
  /\ pLastLog' = [pLastLog EXCEPT ![s] = NULL]
  /\ UNCHANGED <<putix, getix>>

\* The quota is given back and the block freed.
Free(s) ==
  /\ quota' = [quota EXCEPT ![ev_que[s]] = @ - EVENTENTRIES]
  /\ ev_que' = [ev_que EXCEPT ![s] = NULL]
  /\ callBackInProgress' = [callBackInProgress EXCEPT ![s] = FALSE]
  /\ missed' = missed \ {s}
  /\ UNCHANGED <<enabled, nque>>

\* Variant: nobody waits for a callback that is running.
db_cancel_event_at_once ==
  /\ cpc = "purge"
  /\ user_sub' = [user_sub EXCEPT ![cs] = FALSE]
  /\ Purge(cs)
  /\ Free(cs)
  /\ ClientAt("idle", "none")
  /\ UNCHANGED <<userVars, semVars, rpc, todo, taskVars, seen>>

\* The rest of db_cancel_event, called from the client's thread.
db_cancel_event ==
  /\ cpc = "purge"
  /\ user_sub' = [user_sub EXCEPT ![cs] = FALSE]
  /\ Purge(cs)
  /\ IF callBackInProgress[cs]
     THEN ClientAt("flush", cs) /\ UNCHANGED <<ev_que, enabled, callBackInProgress, quota, nque, missed>>
     ELSE ClientAt("idle", "none") /\ Free(cs)
  /\ UNCHANGED <<userVars, semVars, rpc, todo, taskVars, seen>>

FlushWait ==
  /\ cpc = "flush"
  /\ pflush_sem
  /\ pflush_sem' = FALSE
  /\ ClientAt("flushed", cs)
  /\ UNCHANGED <<ringVars, subVars, pendVars, userVars, ppendsem, pexitsem, rpc, todo, taskVars, seen,
                 missed>>

FlushDone ==
  /\ cpc = "flushed"
  /\ WritelockFree(ev_que[cs])
  /\ IF callBackInProgress[cs]
     THEN ClientAt("flush", cs) /\ UNCHANGED <<ev_que, enabled, callBackInProgress, quota, nque, missed>>
     ELSE ClientAt("idle", "none") /\ Free(cs)
  /\ UNCHANGED <<ringVars, user_sub, pendVars, userVars, semVars, rpc, todo, taskVars, seen>>

\* db_event_flow_ctrl_mode_on and _off, which a client asks for in turn.
flow_ctrl_mode(on) ==
  /\ FlowControl
  /\ cpc = "idle"
  /\ flowCtrlMode # on
  /\ flowCtrlMode' = on
  /\ ClientAt("flow_signal", "none")
  /\ UNCHANGED <<ringVars, subVars, pendVars, pendexit, semVars, rpc, todo, taskVars, seen, missed>>

\* destroy_tcp_client has canceled all subscriptions.
db_close_events ==
  /\ cpc = "idle"
  /\ \A s \in Subs : ev_que[s] = NULL
  /\ pendexit' = TRUE
  /\ ClientAt("close_signal", "none")
  /\ UNCHANGED <<ringVars, subVars, pendVars, flowCtrlMode, semVars, rpc, todo, taskVars, seen, missed>>

Join ==
  /\ cpc = "join"
  /\ pexitsem
  /\ pexitsem' = FALSE
  /\ ClientAt("closed", "none")
  /\ UNCHANGED <<ringVars, subVars, pendVars, userVars, ppendsem, pflush_sem, rpc, todo, taskVars,
                 seen, missed>>

ClientAsks ==
  /\ nque < MaxQueues
  /\ \/ \E s \in Subs : db_add_event(s) \/ db_event_disable(s)
     \/ \E on \in BOOLEAN : flow_ctrl_mode(on)
     \/ db_close_events

ClientStep ==
  db_post_single_event \/ ClientSignals \/ db_event_enable \/ db_cancel_event \/ FlushWait \/ FlushDone \/ Join

-----------------------------------------------------------------------------
\* The event task.

TaskAt(pc, q, s, log) == epc' = pc /\ eq' = q /\ es' = s /\ elog' = log

event_task_wakes ==
  /\ epc = "wait"
  /\ ppendsem
  /\ ppendsem' = FALSE
  /\ TaskAt("read", 1, "none", "none")
  /\ UNCHANGED <<ringVars, subVars, pendVars, userVars, pflush_sem, pexitsem, cpc, cs, rpc, todo,
                 pSuicideEvent, seen, missed>>

\* On to the next queue; after the last, to the end or back to sleep.
NextQueue ==
  IF eq < nque THEN TaskAt("read", eq + 1, "none", "none")
  ELSE TaskAt(IF pendexit THEN "exit" ELSE "wait", 1, "none", "none")

\* event_read locks the queue; in flow control mode it takes nothing from a
\* queue without duplicates.
event_read ==
  /\ epc = "read"
  /\ IF flowCtrlMode /\ nDuplicates[eq] = 0 THEN NextQueue ELSE TaskAt("drain", eq, "none", "none")
  /\ UNCHANGED <<ringVars, subVars, pendVars, userVars, semVars, cpc, cs, rpc, todo, pSuicideEvent,
                 seen, missed>>

Oldest == evque[eq][getix[eq]]

SkipCanceled ==
  /\ epc = "drain"
  /\ Oldest = "canceled"
  /\ evque' = [evque EXCEPT ![eq][getix[eq]] = "empty"]
  /\ getix' = [getix EXCEPT ![eq] = RNGINC(@)]
  /\ nCanceled' = [nCanceled EXCEPT ![eq] = @ - 1]
  /\ UNCHANGED <<valque, putix, nDuplicates, subVars, pendVars, userVars, semVars, cpc, cs, rpc, todo,
                 taskVars, seen, missed>>

\* event_remove, and the copy of the callback's parameters.
TakeEvent ==
  /\ epc = "drain"
  /\ Oldest \in Subs
  /\ evque' = [evque EXCEPT ![eq][getix[eq]] = "empty"]
  /\ valque' = [valque EXCEPT ![eq][getix[eq]] = "none"]
  /\ pLastLog' = [pLastLog EXCEPT ![Oldest] = IF npend[Oldest] = 1 THEN NULL ELSE @]
  /\ nDuplicates' = [nDuplicates EXCEPT ![eq] = IF npend[Oldest] = 1 THEN @ ELSE @ - 1]
  /\ npend' = [npend EXCEPT ![Oldest] = @ - 1]
  /\ getix' = [getix EXCEPT ![eq] = RNGINC(@)]
  /\ callBackInProgress' = [callBackInProgress EXCEPT ![Oldest] = TRUE]
  /\ TaskAt("callback", eq, Oldest, valque[eq][getix[eq]])
  /\ UNCHANGED <<putix, nCanceled, ev_que, user_sub, enabled, quota, nque, userVars, semVars, cpc, cs,
                 rpc, todo, pSuicideEvent, seen, missed>>

QueueEmpty ==
  /\ epc = "drain"
  /\ Oldest = "empty"
  /\ NextQueue
  /\ UNCHANGED <<ringVars, subVars, pendVars, userVars, semVars, cpc, cs, rpc, todo, pSuicideEvent,
                 seen, missed>>

\* read_reply sends the value to the client, with the record locked.
Callback ==
  /\ epc = "callback"
  /\ ScanLockFree(RecOf[es])
  /\ seen' = [seen EXCEPT ![es] = elog]
  /\ TaskAt("called", eq, es, "none")
  /\ UNCHANGED <<ringVars, subVars, pendVars, userVars, semVars, cpc, cs, rpc, todo, pSuicideEvent,
                 missed>>

\* Instead of returning, a callback cancels its subscription (which no other
\* thread may do at the same time).
SelfDisable ==
  /\ epc = "called"
  /\ nque < MaxQueues
  /\ es \in SelfCancel /\ enabled[es] /\ cs # es /\ pSuicideEvent # es
  /\ MlokFree(RecOf[es])
  /\ enabled' = [enabled EXCEPT ![es] = FALSE]
  /\ TaskAt("self_purge", eq, es, elog)
  /\ UNCHANGED <<ringVars, ev_que, user_sub, callBackInProgress, quota, nque, pendVars, userVars,
                 semVars, cpc, cs, rpc, todo, pSuicideEvent, seen, missed>>

SelfPurge ==
  /\ epc = "self_purge"
  /\ user_sub' = [user_sub EXCEPT ![es] = FALSE]
  /\ Purge(es)
  /\ pSuicideEvent' = es
  /\ Free(es)
  /\ TaskAt("called", eq, es, elog)
  /\ UNCHANGED <<userVars, semVars, cpc, cs, rpc, todo, seen>>

\* Variant: nobody is told.
CallbackReturnsQuietly ==
  /\ epc = "called"
  /\ pSuicideEvent' = IF pSuicideEvent = es THEN "none" ELSE pSuicideEvent
  /\ callBackInProgress' = [callBackInProgress EXCEPT ![es] = FALSE]
  /\ TaskAt("drain", eq, "none", "none")
  /\ UNCHANGED <<ringVars, ev_que, user_sub, enabled, quota, nque, pendVars, userVars, semVars,
                 cpc, cs, rpc, todo, seen, missed>>

\* The queue is locked again and callBackInProgress cleared; whoever cancels
\* the subscription is waiting for that.
CallbackReturns ==
  /\ epc = "called"
  /\ IF pSuicideEvent = es
     THEN pSuicideEvent' = "none" /\ UNCHANGED <<callBackInProgress, pflush_sem>>
     ELSE /\ callBackInProgress' = [callBackInProgress EXCEPT ![es] = FALSE]
          /\ pflush_sem' = (pflush_sem \/ (~user_sub[es] /\ npend[es] = 0))
          /\ UNCHANGED pSuicideEvent
  /\ TaskAt("drain", eq, "none", "none")
  /\ UNCHANGED <<ringVars, ev_que, user_sub, enabled, quota, nque, pendVars, userVars, ppendsem,
                 pexitsem, cpc, cs, rpc, todo, seen, missed>>

event_task_exits ==
  /\ epc = "exit"
  /\ pexitsem' = TRUE
  /\ TaskAt("gone", 1, "none", "none")
  /\ UNCHANGED <<ringVars, subVars, pendVars, userVars, ppendsem, pflush_sem, cpc, cs, rpc, todo,
                 pSuicideEvent, seen, missed>>

TaskStep ==
  \/ event_task_wakes \/ event_read \/ SkipCanceled \/ TakeEvent \/ QueueEmpty \/ Callback
  \/ SelfDisable \/ SelfPurge \/ CallbackReturns \/ event_task_exits

-----------------------------------------------------------------------------
DbEventNext ==
  \/ \E r \in Records : Process(r) \/ ScanStep(r)
  \/ ClientAsks
  \/ ClientStep
  \/ TaskStep

DbEventSpec == DbEventInit /\ [][DbEventNext]_eventVars

-----------------------------------------------------------------------------
DbEventTypeOK ==
  /\ evque \in [Queues -> [Slots -> Subs \cup {"empty", "canceled"}]]
  /\ valque \in [Queues -> [Slots -> {"none", "current", "old"}]]
  /\ putix \in [Queues -> Slots] /\ getix \in [Queues -> Slots]
  /\ quota \in [Queues -> Nat] /\ nDuplicates \in [Queues -> Nat] /\ nCanceled \in [Queues -> Nat]
  /\ nque \in Queues
  /\ ev_que \in [Subs -> Queues \cup {NULL}]
  /\ npend \in [Subs -> Nat] /\ pLastLog \in [Subs -> Slots \cup {NULL}]
  /\ seen \in [Subs -> {"none", "current", "old"}]
  /\ missed \subseteq Subs

\* The slots of a subscription's events, and how far behind the oldest event
\* of the ring a slot is.
Mine(s) == IF ev_que[s] = NULL THEN {} ELSE {i \in Slots : evque[ev_que[s]][i] = s}

Age(q, i) == IF i >= getix[q] THEN i - getix[q] ELSE i - getix[q] + EVENTQUESIZE

(***************************************************************************)
(* The ring's books are right: each subscription's npend and pLastLog, and *)
(* the queue's counts of duplicates and of canceled events, which the      *)
(* asserts of event_remove, db_cancel_event and event_read rely on, agree  *)
(* with what is in the ring.                                               *)
(***************************************************************************)
BooksRight ==
  /\ \A s \in Subs :
       /\ npend[s] = Cardinality(Mine(s))
       /\ IF Mine(s) = {} THEN pLastLog[s] = NULL
          ELSE /\ pLastLog[s] \in Mine(s)
               /\ \A i \in Mine(s) : Age(ev_que[s], i) <= Age(ev_que[s], pLastLog[s])
  /\ \A q \in Queues :
       /\ nCanceled[q] = Cardinality({i \in Slots : evque[q][i] = "canceled"})
       /\ nDuplicates[q] =
            Cardinality({i \in Slots : evque[q][i] \in Subs})
            - Cardinality({evque[q][i] : i \in Slots} \cap Subs)

(***************************************************************************)
(* A thread that posts an event which replaces no other finds a free slot  *)
(* ("Otherwise, the current entry must be available"): the quota leaves    *)
(* room for one event of each subscription.                                *)
(***************************************************************************)
AboutToPost == UNION {todo[r] : r \in Records} \cup (IF cpc = "post" THEN {cs} ELSE {})

RoomForOne ==
  \A s \in AboutToPost : Replaces(s) \/ evque[ev_que[s]][putix[ev_que[s]]] = "empty"

(***************************************************************************)
(* A client with an enabled subscription has been told the record's value, *)
(* or will be: the newest event on its way to the client carries it (the   *)
(* channel access reference: "This guarantees that the most recent update  *)
(* is always sent").                                                       *)
(***************************************************************************)
Newest(s) ==
  CASE npend[s] > 0 -> valque[ev_que[s]][pLastLog[s]]
    [] npend[s] = 0 /\ epc = "callback" /\ es = s -> elog
    [] OTHER -> seen[s]

UpToDate(s) == enabled[s] /\ rpc[RecOf[s]] = "idle" => Newest(s) = "current"

MostRecentSent == \A s \in Subs : UpToDate(s)

(***************************************************************************)
(* The only changes a client is not told are those between the event it    *)
(* gets for subscribing and the enabling of its subscription               *)
(* (event_add_action).                                                     *)
(***************************************************************************)
MostRecentSentOnceEnabled == \A s \in Subs \ missed : UpToDate(s)

(***************************************************************************)
(* A subscription's block is not freed while the event task is in its      *)
(* callback, or the ring holds events of it (db_cancel_event).             *)
(***************************************************************************)
NoUseAfterFree ==
  /\ epc \in {"callback", "called"} /\ pSuicideEvent # es => ev_que[es] # NULL
  /\ \A q \in Queues, i \in Slots : evque[q][i] \in Subs => ev_que[evque[q][i]] = q

(***************************************************************************)
(* No wakeup is lost, though the event task is woken only for the first    *)
(* event of an empty ring: while a ring holds an event that may be taken,  *)
(* the task has still to look at this ring, or is woken or about to be.    *)
(***************************************************************************)
MayBeTaken(q) ==
  /\ \E i \in Slots : evque[q][i] \in Subs
  /\ ~flowCtrlMode \/ nDuplicates[q] > 0

WakeupUnderWay ==
  ppendsem \/ cpc \in {"post_signal", "flow_signal"} \/ \E r \in Records : rpc[r] = "signal"

NoLostWakeup ==
  \A q \in Queues : MayBeTaken(q) => WakeupUnderWay \/ (epc # "wait" /\ eq <= q)

(***************************************************************************)
(* A cancellation waits exactly as long as its subscription's callback     *)
(* runs: it waits only if the callback is still to return or has signalled *)
(* its end, and no signal is left over for the next cancellation to take   *)
(* for its own (pflush_sem).                                               *)
(***************************************************************************)
FlushSignalMatches ==
  LET running == epc \in {"callback", "called"} /\ es = cs
  IN  IF cpc = "flush" THEN pflush_sem # running ELSE ~pflush_sem

-----------------------------------------------------------------------------
(***************************************************************************)
(* The rings implement MonitorQueue: whatever order the subscriptions'     *)
(* events have in the rings, each one's own events are a queue of its own, *)
(* together with the event whose callback is running.                      *)
(***************************************************************************)
\* Of a subscription's events, the k-th is the one that has k - 1 older ones.
Rank(s, i) == Cardinality({j \in Mine(s) : Age(ev_que[s], j) < Age(ev_que[s], i)})

Pending(s) ==
  [k \in 1..npend[s] |-> valque[ev_que[s]][CHOOSE i \in Mine(s) : Rank(s, i) = k - 1]]

BeingDelivered(s) == IF epc = "callback" /\ es = s THEN <<elog>> ELSE <<>>

Updates(s) == BeingDelivered(s) \o Pending(s)

Monitors == INSTANCE MonitorQueue WITH
  subscribed <- {s \in Subs : ev_que[s] # NULL},
  updates <- [s \in Subs |-> Updates(s)],
  told <- seen

ImplementsMonitorQueue == Monitors!MonitorSpec

=============================================================================
