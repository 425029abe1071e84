---------------------------- MODULE MonitorQueue ----------------------------
(***************************************************************************)
(* What the event queues of dbEvent.c promise to a subscription, whatever  *)
(* ring it shares and with whom: its updates reach the client in the order *)
(* in which they were posted; only the newest one waiting is ever replaced *)
(* by a newer one; canceling drops what is waiting, and once the           *)
(* subscription is gone the client is told nothing more.                   *)
(*                                                                         *)
(* Of a value it only matters whether the record still has it.             *)
(***************************************************************************)
EXTENDS Sequences, Naturals

CONSTANTS Subs, Records, RecOf

VARIABLES
  subscribed,   \* the subscriptions there are
  updates,      \* for each, the updates waiting, oldest first
  told          \* what the client was told last

monitorVars == <<subscribed, updates, told>>

MonitorInit ==
  /\ subscribed = {}
  /\ updates = [s \in Subs |-> <<>>]
  /\ told = [s \in Subs |-> "none"]

Subscribe(s) ==
  /\ s \notin subscribed
  /\ subscribed' = subscribed \cup {s}
  /\ told' = [told EXCEPT ![s] = "none"]
  /\ UNCHANGED updates

\* The record's value changes: everything said about it so far is old.
Outdated(u) == IF u = "current" THEN "old" ELSE u

Change(r) ==
  /\ UNCHANGED subscribed
  /\ updates' = [s \in Subs |-> IF RecOf[s] = r
                                THEN [i \in DOMAIN updates[s] |-> Outdated(updates[s][i])]
                                ELSE updates[s]]
  /\ told' = [s \in Subs |-> IF RecOf[s] = r THEN Outdated(told[s]) ELSE told[s]]

Post(s) ==
  /\ s \in subscribed
  /\ UNCHANGED <<subscribed, told>>
  /\ \/ updates' = [updates EXCEPT ![s] = Append(@, "current")]
     \/ /\ updates[s] # <<>>
        /\ updates' = [updates EXCEPT ![s][Len(updates[s])] = "current"]

Deliver(s) ==
  /\ s \in subscribed
  /\ updates[s] # <<>>
  /\ told' = [told EXCEPT ![s] = Head(updates[s])]
  /\ updates' = [updates EXCEPT ![s] = Tail(@)]
  /\ UNCHANGED subscribed

\* Canceling drops the updates that wait; one that is just being delivered
\* stays, and so does the subscription until that is over.
Withdraw(s) ==
  /\ s \in subscribed
  /\ updates[s] # <<>>
  /\ UNCHANGED <<subscribed, told>>
  /\ \E kept \in {<<>>, <<Head(updates[s])>>} : updates' = [updates EXCEPT ![s] = kept]

Unsubscribe(s) ==
  /\ s \in subscribed
  /\ subscribed' = subscribed \ {s}
  /\ updates' = [updates EXCEPT ![s] = <<>>]
  /\ UNCHANGED told

MonitorNext ==
  \/ \E r \in Records : Change(r)
  \/ \E s \in Subs : Subscribe(s) \/ Post(s) \/ Deliver(s) \/ Withdraw(s) \/ Unsubscribe(s)

MonitorSpec == MonitorInit /\ [][MonitorNext]_monitorVars

=============================================================================
