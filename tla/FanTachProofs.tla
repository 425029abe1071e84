--------------------------- MODULE FanTachProofs ---------------------------
(* For any number of fans, threads and calls: the fan reader and the        *)
(* thermometers' access functions share the bus without disturbing each     *)
(* other, and a successful call has measured most of the fans.              *)
EXTENDS FanTach, FiniteSetTheorems, TLAPS

allVars == <<busVars, fanVars>>

FanInside == {"ioctl", "write", "read", "finish", "unlock"}

(***************************************************************************)
(* The protected sections exclude each other: the mutex is held by the     *)
(* thread that is inside, be it the fan reader or another; and whoever     *)
(* transfers has its own slave chosen.                                     *)
(***************************************************************************)
SharedInv ==
  /\ bpc \in [Threads -> {"ready", "lock"} \cup Inside]
  /\ call \in [Threads -> Calls]
  /\ bpc[FanCaller] = "ready"
  /\ fpc \in {"ready", "lock"} \cup FanInside
  /\ fpc \in FanInside <=> i2c_mutex = FanCaller
  /\ \A t \in Threads \ {FanCaller} : bpc[t] \in Inside <=> i2c_mutex = t
  /\ TalksToChosenSlave
  /\ FanTalksToTachometer

LEMMA SharedInit == FanInit => SharedInv
<1>1. (CHOOSE c \in Calls : TRUE) \in Calls
  BY CallsAssumption
<1> QED
  BY <1>1, NoneAssumption, FanAssumption
  DEF FanInit, BusInit, SharedInv, Inside, FanInside, TalksToChosenSlave, FanTalksToTachometer

\* A step of the fan reader leaves the other threads' places alone.
LEMMA SharedFanStep ==
  ASSUME SharedInv, FanEnter \/ FanStep
  PROVE  SharedInv'
<1> USE FanAssumption, NoneAssumption
    DEF SharedInv, Inside, FanInside, TalksToChosenSlave, FanTalksToTachometer, busVars,
        otherBusVars
<1>1. CASE FanEnter
  BY <1>1 DEF FanEnter
<1>2. CASE FanLock
  BY <1>2 DEF FanLock
<1>3. CASE FanIoctl
  BY <1>3 DEF FanIoctl, Return, LoopAt
<1>4. ASSUME NEW r \in Returns(2), FanWrite(r)
      PROVE  SharedInv'
  BY <1>4 DEF FanWrite, Return
<1>5. CASE FanReadFails
  BY <1>5 DEF FanReadFails, Return
<1>6. ASSUME NEW a \in Answers, FanRead(a)
      PROVE  SharedInv'
  BY <1>6 DEF FanRead, LoopAt
<1>7. CASE FanFinish
  BY <1>7 DEF FanFinish, Return
<1>8. CASE FanUnlock
  BY <1>8 DEF FanUnlock
<1> QED BY <1>1, <1>2, <1>3, <1>4, <1>5, <1>6, <1>7, <1>8 DEF FanStep

\* A step of an access function, in another thread.
LEMMA SharedThermometerStep ==
  ASSUME SharedInv, NEW t \in Threads, ThermometerStep(t) \/ ThermometerEnters(t)
  PROVE  SharedInv'
<1> USE FanAssumption, NoneAssumption
    DEF SharedInv, Inside, FanInside, TalksToChosenSlave, FanTalksToTachometer, fanVars
<1>1. t # FanCaller /\ UNCHANGED fanVars
  BY DEF ThermometerStep, ThermometerEnters
<1>2. ASSUME NEW c \in Calls, Enter(t, c)
      PROVE  SharedInv'
  BY <1>1, <1>2 DEF Enter
<1>3. CASE Lock(t)
  BY <1>1, <1>3 DEF Lock
<1>4. CASE IoctlFails(t)
  BY <1>1, <1>4 DEF IoctlFails
<1>5. CASE IoctlSucceeds(t)
  BY <1>1, <1>5 DEF IoctlSucceeds
<1>6. ASSUME NEW r \in Returns(3), Transfer(t, r) \/ GetRead(t, r)
      PROVE  SharedInv'
  <2>1. /\ bpc[t] = "xfer"
        /\ bpc' = bpc \/ bpc' = [bpc EXCEPT ![t] = "unlock"]
        /\ UNCHANGED <<i2c_mutex, slave, call>>
    BY <1>6 DEF Transfer, GetRead, EndExchange
  <2> QED BY <1>1, <2>1
<1>7. ASSUME NEW r \in Returns(3), GetWrite(t, r)
      PROVE  SharedInv'
  BY <1>1, <1>7 DEF GetWrite
<1>8. CASE Unlock(t)
  BY <1>1, <1>8 DEF Unlock
<1> QED
  BY <1>2, <1>3, <1>4, <1>5, <1>6, <1>7, <1>8
  DEF ThermometerStep, ThermometerEnters, BusStep, Ioctl

LEMMA SharedStutter ==
  ASSUME SharedInv, UNCHANGED allVars
  PROVE  SharedInv'
  BY DEF SharedInv, allVars, busVars, fanVars, TalksToChosenSlave, FanTalksToTachometer

LEMMA SharedAlways == FanSpec => []SharedInv
<1>1. SharedInv /\ [FanNext]_allVars => SharedInv'
  BY SharedFanStep, SharedThermometerStep, SharedStutter DEF FanNext
<1> QED BY <1>1, SharedInit, PTL DEF FanSpec, allVars

(***************************************************************************)
(* While read_fan_speeds exchanges bytes, its slave is the tachometer, for *)
(* any number of fans and of other threads.                                *)
(***************************************************************************)
THEOREM FansTalkToTachometer == FanSpec => []FanTalksToTachometer
<1>1. SharedInv => FanTalksToTachometer
  BY DEF SharedInv
<1> QED BY <1>1, SharedAlways, PTL

(***************************************************************************)
(* The fan reader does not come between an access function's ioctl and its *)
(* transfers either.                                                       *)
(***************************************************************************)
THEOREM ThermometersKeepSlave == FanSpec => []TalksToChosenSlave
<1>1. SharedInv => TalksToChosenSlave
  BY DEF SharedInv
<1> QED BY <1>1, SharedAlways, PTL

-----------------------------------------------------------------------------
(***************************************************************************)
(* The speeds: every place holds a speed of its own fan, fans beyond the   *)
(* loop's place are not fresh yet, n_success counts the fresh ones, and    *)
(* status is 0 only if they are most.                                      *)
(***************************************************************************)
SpeedInv ==
  /\ ich \in Nat /\ n_success \in Nat
  /\ rpm \in [Fans -> [fan: Nat, fresh: BOOLEAN]]
  /\ fpc \in {"write", "read"} => ich < n_fan
  /\ fpc \in FanInside \cup {"lock"} =>
       /\ \A f \in FreshFans : f < ich
       /\ n_success = Cardinality(FreshFans)
  /\ fpc \in {"lock", "ioctl"} => ich = 0 /\ n_success = 0
  /\ SuccessMeansMostFresh
  /\ \A f \in Fans : rpm[f].fan = f

LEMMA FreshFinite ==
  /\ IsFiniteSet(FreshFans)
  /\ IsFiniteSet(FreshFans')
<1>1. IsFiniteSet(Fans)
  BY FS_Interval, FanAssumption DEF Fans
<1>2. FreshFans \subseteq Fans /\ FreshFans' \subseteq Fans
  BY DEF FreshFans
<1> QED BY <1>1, <1>2, FS_Subset

LEMMA SpeedInit == FanInit => SpeedInv
  BY FanAssumption
  DEF FanInit, SpeedInv, SuccessMeansMostFresh, Fans, FanInside

LEMMA SpeedFanStep ==
  ASSUME SpeedInv, FanEnter \/ FanStep
  PROVE  SpeedInv'
<1> USE FanAssumption DEF SpeedInv, FanInside, SuccessMeansMostFresh
<1>1. CASE FanEnter
  <2>1. FreshFans' = {}
    BY <1>1 DEF FanEnter, FreshFans
  <2>2. Cardinality({}) = 0
    BY FS_EmptySet
  <2> QED BY <1>1, <2>1, <2>2 DEF FanEnter
<1>2. CASE FanLock
  BY <1>2 DEF FanLock, FreshFans
<1>3. CASE FanIoctl
  BY <1>3 DEF FanIoctl, Return, LoopAt, FreshFans
<1>4. ASSUME NEW r \in Returns(2), FanWrite(r)
      PROVE  SpeedInv'
  BY <1>4 DEF FanWrite, Return, FreshFans
<1>5. CASE FanReadFails
  BY <1>5 DEF FanReadFails, Return, FreshFans
<1>6. ASSUME NEW a \in Answers, FanRead(a), Accepts(a)
      PROVE  SpeedInv'
  <2>1. /\ fpc = "read" /\ ich \in Fans /\ a.ch - 1 = ich
        /\ rpm' = [rpm EXCEPT ![ich] = [fan |-> ich, fresh |-> TRUE]]
        /\ n_success' = n_success + 1
        /\ ich' = ich + 1
        /\ fpc' = IF ich + 1 < n_fan THEN "write" ELSE "finish"
        /\ fan_status' = fan_status
    BY <1>6 DEF FanRead, Accepts, LoopAt, Fans, Answers
  <2>2. ich \notin FreshFans /\ FreshFans' = FreshFans \cup {ich}
    BY <2>1 DEF FreshFans, Fans
  <2>3. Cardinality(FreshFans') = Cardinality(FreshFans) + 1
    BY <2>2, FreshFinite, FS_AddElement
  <2>4. \A f \in FreshFans' : f < ich'
    BY <2>1, <2>2 DEF FreshFans, Fans
  <2> QED BY <2>1, <2>3, <2>4 DEF Fans
<1>7. ASSUME NEW a \in Answers, FanRead(a), ~Accepts(a)
      PROVE  SpeedInv'
  BY <1>7 DEF FanRead, LoopAt, FreshFans, Fans
<1>8. CASE FanFinish
  <2>1. FreshFans' = FreshFans
    BY <1>8 DEF FanFinish, FreshFans
  <2>2. ~LowSuccess => 2 * n_success > n_fan
    BY DEF LowSuccess
  <2>3. UNCHANGED <<ich, n_success, rpm>> /\ fpc' = "unlock" /\ fpc = "finish"
    BY <1>8 DEF FanFinish, Return
  <2>4. fan_status' = 0 => ~LowSuccess
    BY <1>8 DEF FanFinish, Return
  <2> QED BY <2>1, <2>2, <2>3, <2>4
<1>9. CASE FanUnlock
  BY <1>9 DEF FanUnlock, FreshFans
<1> QED
  BY <1>1, <1>2, <1>3, <1>4, <1>5, <1>6, <1>7, <1>8, <1>9 DEF FanStep

LEMMA SpeedStutter ==
  ASSUME SpeedInv, UNCHANGED fanVars
  PROVE  SpeedInv'
  BY DEF SpeedInv, fanVars, SuccessMeansMostFresh, FreshFans

LEMMA SpeedAlways == FanSpec => []SpeedInv
<1>1. SpeedInv /\ [FanNext]_allVars => SpeedInv'
  BY SpeedFanStep, SpeedStutter DEF FanNext, ThermometerStep, ThermometerEnters, allVars
<1> QED BY <1>1, SpeedInit, PTL DEF FanSpec, allVars

(***************************************************************************)
(* A call of read_fan_speeds that returns 0 has measured more than half of *)
(* the fans, each by an answer for that fan, however many there are.       *)
(***************************************************************************)
THEOREM FanSuccessMeansMostFresh == FanSpec => []SuccessMeansMostFresh
<1>1. SpeedInv => SuccessMeansMostFresh
  BY DEF SpeedInv
<1> QED BY <1>1, SpeedAlways, PTL

=============================================================================
