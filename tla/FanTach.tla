------------------------------ MODULE FanTach ------------------------------
(***************************************************************************)
(* read_fan_speeds of dev_i2c.c: asks the tachometer for one fan after the *)
(* other, and keeps the old speed of a fan it gets no good answer for.     *)
(*                                                                         *)
(* The tachometer is on the same bus as the thermometers, so the thread    *)
(* that reads the fans competes with the callers of the other access       *)
(* functions for i2c_mutex.  The eight characters of an answer are         *)
(* abstracted to what the function tells apart: nothing ready, not of the  *)
(* form f..=...., or a fan number and a speed; of a stored speed, whose it *)
(* is and whether the last call measured it.                               *)
(***************************************************************************)
EXTENDS I2cBus, FiniteSets

CONSTANTS
  FanCaller,   \* the thread that calls read_fan_speeds, and nothing else
  n_fan        \* number of fans

ASSUME FanAssumption == FanCaller \in Threads /\ n_fan \in Nat

I2C_TACHOMETER_ADDR == 15

Fans == 0..(n_fan - 1)

VARIABLES
  fpc,          \* where the fan caller is
  ich,          \* its loop variable
  n_success,    \* fans it read
  rpm,          \* the caller's array: [fan |-> whose speed, fresh |-> measured now]
  fan_status    \* what the last call returned

fanVars == <<fpc, ich, n_success, rpm, fan_status>>

\* What the eight characters say.
Answers == [kind: {"not_ready", "malformed"}, ch: {0}] \cup [kind: {"speed"}, ch: 0..n_fan]

-----------------------------------------------------------------------------
FanInit ==
  /\ BusInit
  /\ fpc = "ready" /\ ich = 0 /\ n_success = 0
  /\ fan_status = -1     \* no call yet
  /\ rpm = [f \in Fans |-> [fan |-> f, fresh |-> FALSE]]

otherBusVars == <<bpc, call, step, half, status, short>>

\* A new call: what was measured before is old.
FanEnter ==
  /\ fpc = "ready"
  /\ fpc' = "lock"
  /\ rpm' = [f \in Fans |-> [rpm[f] EXCEPT !.fresh = FALSE]]
  /\ ich' = 0 /\ n_success' = 0
  /\ UNCHANGED <<busVars, fan_status>>

\* Variant: the function takes no lock.
FanLockNot ==
  /\ fpc = "lock"
  /\ fpc' = "ioctl"
  /\ UNCHANGED <<busVars, ich, n_success, rpm, fan_status>>

FanLock ==
  /\ fpc = "lock"
  /\ i2c_mutex = None
  /\ i2c_mutex' = FanCaller
  /\ fpc' = "ioctl"
  /\ UNCHANGED <<slave, otherBusVars, ich, n_success, rpm, fan_status>>

\* RETURN(s)
Return(s) == fpc' = "unlock" /\ fan_status' = s

\* On to fan k, or to the end of the loop.
LoopAt(k) == ich' = k /\ fpc' = IF k < n_fan THEN "write" ELSE "finish"

FanIoctl ==
  /\ fpc = "ioctl"
  /\ \/ Return(-1) /\ UNCHANGED <<slave, ich>>
     \/ slave' = I2C_TACHOMETER_ADDR /\ LoopAt(0) /\ UNCHANGED fan_status
  /\ UNCHANGED <<i2c_mutex, otherBusVars, n_success, rpm>>

\* Ask for fan ich.
FanWrite(r) ==
  /\ fpc = "write"
  /\ r \in Returns(2)
  /\ IF r # 2 THEN Return(-2) ELSE fpc' = "read" /\ UNCHANGED fan_status
  /\ UNCHANGED <<busVars, ich, n_success, rpm>>

\* One of the eight reads of one byte fails.
FanReadFails ==
  /\ fpc = "read"
  /\ Return(-3)
  /\ UNCHANGED <<busVars, ich, n_success, rpm>>

\* The answer is a speed, and for the fan that was asked for.
Accepts(a) == a.kind = "speed" /\ a.ch = ich + 1

\* All eight succeed: the fan's speed is stored, or it keeps its old one.
FanRead(a) ==
  /\ fpc = "read"
  /\ IF Accepts(a)
     THEN /\ rpm' = [rpm EXCEPT ![ich] = [fan |-> a.ch - 1, fresh |-> TRUE]]
          /\ n_success' = n_success + 1
     ELSE UNCHANGED <<rpm, n_success>>
  /\ LoopAt(ich + 1)
  /\ UNCHANGED <<busVars, fan_status>>

\* Variant: half of the fans is enough.
LowSuccessHalf == n_success < n_fan \div 2

\* "did we see a low success rate?"
LowSuccess == n_success <= n_fan \div 2

FanFinish ==
  /\ fpc = "finish"
  /\ Return(IF LowSuccess THEN -4 ELSE 0)
  /\ UNCHANGED <<busVars, ich, n_success, rpm>>

FanUnlock ==
  /\ fpc = "unlock"
  /\ i2c_mutex' = None
  /\ fpc' = "ready"
  /\ UNCHANGED <<slave, otherBusVars, ich, n_success, rpm, fan_status>>

FanStep ==
  \/ FanLock \/ FanIoctl \/ (\E r \in Returns(2) : FanWrite(r)) \/ FanReadFails
  \/ (\E a \in Answers : FanRead(a)) \/ FanFinish \/ FanUnlock

ThermometerStep(t) == t # FanCaller /\ BusStep(t) /\ UNCHANGED fanVars

ThermometerEnters(t) ==
  t # FanCaller /\ (\E c \in Calls : Enter(t, c)) /\ UNCHANGED fanVars

FanNext ==
  \/ FanEnter \/ FanStep
  \/ \E t \in Threads : ThermometerStep(t) \/ ThermometerEnters(t)

FanSpec == FanInit /\ [][FanNext]_<<busVars, fanVars>>

\* Blocking calls return and threads are scheduled; no thread must call, and
\* nothing is assumed about who gets the mutex.
FanFairSpec ==
  /\ FanSpec
  /\ WF_<<busVars, fanVars>>(FanStep)
  /\ \A t \in Threads : WF_<<busVars, fanVars>>(ThermometerStep(t))

-----------------------------------------------------------------------------
\* The fans in whose place the last call has put a speed of theirs: an answer
\* may come late, and be for another fan.
FreshFans == {f \in Fans : rpm[f].fresh /\ rpm[f].fan = f}

(***************************************************************************)
(* Every question for a fan, and every byte of an answer, is exchanged     *)
(* with the tachometer, whatever thermometers other threads talk to        *)
(* meanwhile (read_fan_speeds, "begin protected section").                 *)
(***************************************************************************)
FanTalksToTachometer == fpc \in {"write", "read"} => slave = I2C_TACHOMETER_ADDR

(***************************************************************************)
(* A call that returns 0 has measured more than half of the fans, each by  *)
(* an answer for that very fan; the rest have the speeds of earlier calls  *)
(* ("If fan speeds are seen for most but not all fans, old values are left *)
(* in place").                                                             *)
(***************************************************************************)
SuccessMeansMostFresh ==
  fpc \in {"unlock", "ready"} /\ fan_status = 0 =>
    2 * Cardinality(FreshFans) > n_fan

=============================================================================
