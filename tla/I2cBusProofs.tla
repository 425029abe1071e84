--------------------------- MODULE I2cBusProofs ---------------------------
(* For any number of threads and any calls: the safety of dev_i2c.c's      *)
(* access functions.                                                       *)
EXTENDS I2cBus, TLAPS

(***************************************************************************)
(* Every access function performs a finite list of exchanges of one to     *)
(* three bytes.                                                            *)
(***************************************************************************)
LEMMA ScriptType ==
  ASSUME NEW c \in CallType
  PROVE  Script(c) \in Seq(Exchange)
<1>1. ASSUME NEW op \in {"put", "get"}, NEW n \in 1..2
      PROVE  Details(c, op, n) \in Seq(Exchange)
  <2> DEFINE Access(reg, len) ==
        IF reg \in c.fields THEN <<[op |-> op, reg |-> reg, len |-> len]>> ELSE <<>>
  <2>1. \A reg \in Registers : \A len \in 1..3 : Access(reg, len) \in Seq(Exchange)
    <3>1. \A reg \in Registers : \A len \in 1..3 :
            [op |-> op, reg |-> reg, len |-> len] \in Exchange
      BY DEF Exchange
    <3>2. \A e \in Exchange : <<e>> \in Seq(Exchange)
      OBVIOUS
    <3>3. <<>> \in Seq(Exchange)
      OBVIOUS
    <3> QED BY <3>1, <3>2, <3>3, Zenon
  <2> HIDE DEF Access
  <2>2. /\ Access("T_OS", n + 1) \in Seq(Exchange)
        /\ Access("T_HYST", n + 1) \in Seq(Exchange)
        /\ Access("cfg", n) \in Seq(Exchange)
    BY <2>1 DEF Registers, Fields
  <2>3. Access("T_OS", n + 1) \o Access("T_HYST", n + 1) \o Access("cfg", n)
          \in Seq(Exchange)
    BY <2>2
  <2> QED BY <2>3 DEF Details, Access
<1>3. access_ds1621_details(c) \in Seq(Exchange)
  BY <1>1 DEF access_ds1621_details
<1>4. access_ds75_details(c) \in Seq(Exchange)
  BY <1>1 DEF access_ds75_details
<1>5. /\ Put("convert", 2) \in Exchange
      /\ Put("T", 1) \in Exchange
      /\ Take("T", 2) \in Exchange
  BY DEF Put, Take, Exchange, Registers
<1>6. read_temp_ds1621 \in Seq(Exchange)
  BY <1>5 DEF read_temp_ds1621
<1>7. read_temp_ds75 \in Seq(Exchange)
  BY <1>5 DEF read_temp_ds75
<1> QED BY <1>3, <1>4, <1>6, <1>7 DEF Script, CallType, Functions

(***************************************************************************)
(* The exchange a thread performs is a well-formed one.                    *)
(***************************************************************************)
LEMMA CurrentType ==
  ASSUME BusTypeOK, StepInScript, NEW t \in Threads, bpc[t] = "xfer"
  PROVE  /\ Current(t) \in Exchange
         /\ Len(Script(call[t])) \in Nat
         /\ step[t] \in 1..Len(Script(call[t]))
<1>1. Script(call[t]) \in Seq(Exchange)
  BY ScriptType, CallsAssumption DEF BusTypeOK
<1> QED BY <1>1 DEF StepInScript, Current

LEMMA BusInitInv == BusInit => BusInv
<1>1. (CHOOSE c \in Calls : TRUE) \in Calls
  BY CallsAssumption
<1> QED
  BY <1>1, NoneAssumption
  DEF BusInit, BusInv, BusTypeOK, HolderIsInside, StepInScript, HalfOnlyInGet, Current,
      ShortIsRemembered, TalksToChosenSlave, SuccessMovedAllBytes, Inside

(***************************************************************************)
(* Entering, locking, choosing the slave and unlocking.                    *)
(***************************************************************************)
LEMMA EnterInv ==
  ASSUME BusInv, NEW t \in Threads, NEW c \in Calls, Enter(t, c)
  PROVE  BusInv'
  BY DEF Enter, BusInv, BusTypeOK, HolderIsInside, StepInScript, HalfOnlyInGet, Current,
      ShortIsRemembered,
         TalksToChosenSlave, SuccessMovedAllBytes, Inside

LEMMA LockInv ==
  ASSUME BusInv, NEW t \in Threads, Lock(t)
  PROVE  BusInv'
  BY NoneAssumption
  DEF Lock, BusInv, BusTypeOK, HolderIsInside, StepInScript, HalfOnlyInGet, Current,
      ShortIsRemembered, TalksToChosenSlave, SuccessMovedAllBytes, Inside

LEMMA IoctlInv ==
  ASSUME BusInv, NEW t \in Threads, Ioctl(t)
  PROVE  BusInv'
<1>1. CASE IoctlFails(t)
  BY <1>1
  DEF IoctlFails, BusInv, BusTypeOK, HolderIsInside, StepInScript, HalfOnlyInGet, Current,
      ShortIsRemembered, TalksToChosenSlave, SuccessMovedAllBytes, Inside
<1>2. CASE IoctlSucceeds(t)
  <2>1. /\ call[t] \in CallType
        /\ Script(call[t]) \in Seq(Exchange)
    BY ScriptType, CallsAssumption DEF BusInv, BusTypeOK
  <2>2. SlaveAddress(call[t]) \in Nat
    BY <2>1 DEF CallType, SlaveAddress, I2C_ADDR_BASE
  <2>3. BusTypeOK'
    BY <1>2, <2>2 DEF IoctlSucceeds, BusInv, BusTypeOK, Inside
  <2> Script(call[t]) # <<>> => 1 \in 1..Len(Script(call[t]))
    BY <2>1
  <2>4. StepInScript'
    BY <1>2, <2>1 DEF IoctlSucceeds, BusInv, BusTypeOK, StepInScript, HolderIsInside, Inside
  <2>5. TalksToChosenSlave'
    BY <1>2 DEF IoctlSucceeds, BusInv, BusTypeOK, TalksToChosenSlave, HolderIsInside, Inside
  <2>6. HolderIsInside' /\ HalfOnlyInGet' /\ ShortIsRemembered' /\ SuccessMovedAllBytes'
    BY <1>2
    DEF IoctlSucceeds, BusInv, BusTypeOK, HolderIsInside, HalfOnlyInGet, Current,
        ShortIsRemembered, SuccessMovedAllBytes, Inside
  <2> QED BY <2>3, <2>4, <2>5, <2>6 DEF BusInv
<1> QED BY <1>1, <1>2 DEF Ioctl

(***************************************************************************)
(* The end of an exchange, given that a good one moved all its bytes.      *)
(***************************************************************************)
LEMMA EndExchangeInv ==
  ASSUME BusInv, NEW t \in Threads, bpc[t] = "xfer",
         NEW good \in BOOLEAN, EndExchange(t, good),
         NEW s \in BOOLEAN, short' = [short EXCEPT ![t] = s], good => ~s,
         UNCHANGED <<i2c_mutex, slave, call>>
  PROVE  BusInv'
<1>1. /\ Len(Script(call[t])) \in Nat
      /\ step[t] \in 1..Len(Script(call[t]))
  BY CurrentType DEF BusInv
<1>2. CASE good /\ step[t] < Len(Script(call[t]))
  BY <1>1, <1>2
  DEF EndExchange, BusInv, BusTypeOK, HolderIsInside, StepInScript, HalfOnlyInGet, Current,
      ShortIsRemembered, TalksToChosenSlave, SuccessMovedAllBytes, Inside
<1>3. CASE ~(good /\ step[t] < Len(Script(call[t])))
  <2>1. /\ bpc' = [bpc EXCEPT ![t] = "unlock"]
        /\ status' = [status EXCEPT ![t] = IF good THEN 0 ELSE -1]
        /\ half' = [half EXCEPT ![t] = 1]
        /\ UNCHANGED step
    BY <1>3 DEF EndExchange
  <2>2. BusTypeOK' /\ HolderIsInside' /\ StepInScript' /\ TalksToChosenSlave'
    BY <2>1
    DEF BusInv, BusTypeOK, HolderIsInside, StepInScript, TalksToChosenSlave, Inside
  <2>3. HalfOnlyInGet' /\ ShortIsRemembered'
    BY <2>1 DEF BusInv, BusTypeOK, HalfOnlyInGet, Current, ShortIsRemembered
  <2>4. SuccessMovedAllBytes'
    BY <2>1 DEF BusInv, BusTypeOK, SuccessMovedAllBytes
  <2> QED BY <2>2, <2>3, <2>4 DEF BusInv
<1> QED BY <1>2, <1>3

(***************************************************************************)
(* The transfers.  In GetRead the sum tells: with status <= 1 and r <= len *)
(* it is len + 1 only if both transfers were complete.                     *)
(***************************************************************************)
LEMMA TransferInv ==
  ASSUME BusInv, NEW t \in Threads, NEW r \in Returns(3), Transfer(t, r)
  PROVE  BusInv'
<1>1. Current(t) \in Exchange
  BY CurrentType DEF BusInv, Transfer
<1>2. ~short[t]
  <2>1. half[t] = 1
    BY DEF BusInv, BusTypeOK, HalfOnlyInGet, Transfer
  <2> QED BY <2>1 DEF BusInv, ShortIsRemembered, Transfer
<1> DEFINE s == short[t] \/ r # Current(t).len
           good == r = Current(t).len
<1>3. /\ bpc[t] = "xfer"
      /\ EndExchange(t, good)
      /\ short' = [short EXCEPT ![t] = s]
      /\ UNCHANGED <<i2c_mutex, slave, call>>
  BY DEF Transfer
<1>4. good \in BOOLEAN /\ s \in BOOLEAN /\ (good => ~s)
  BY <1>2 DEF BusInv, BusTypeOK
<1> HIDE DEF s, good
<1> QED BY <1>3, <1>4, EndExchangeInv

LEMMA GetWriteInv ==
  ASSUME BusInv, NEW t \in Threads, NEW r \in Returns(3), GetWrite(t, r)
  PROVE  BusInv'
<1>1. r \in -1..1
  BY DEF GetWrite, Returns
<1> QED
  BY <1>1
  DEF GetWrite, Current, BusInv, BusTypeOK, HolderIsInside, StepInScript, HalfOnlyInGet,
      ShortIsRemembered, TalksToChosenSlave, SuccessMovedAllBytes, Inside

LEMMA GetReadInv ==
  ASSUME BusInv, NEW t \in Threads, NEW r \in Returns(3), GetRead(t, r)
  PROVE  BusInv'
<1>1. Current(t).len \in 1..3
  BY CurrentType DEF BusInv, GetRead, Exchange
<1>2. /\ r \in Int
      /\ r <= Current(t).len
      /\ status[t] \in -1..1
  BY <1>1 DEF GetRead, Returns, BusInv, BusTypeOK
<1> DEFINE s == short[t] \/ r # Current(t).len
           good == status[t] + r = Current(t).len + 1
<1>3. /\ bpc[t] = "xfer"
      /\ EndExchange(t, good)
      /\ short' = [short EXCEPT ![t] = s]
      /\ UNCHANGED <<i2c_mutex, slave, call>>
  BY DEF GetRead
<1>4. good => r = Current(t).len /\ status[t] = 1
  BY <1>1, <1>2
<1>5. good \in BOOLEAN /\ s \in BOOLEAN /\ (good => ~s)
  BY <1>3, <1>4 DEF BusInv, BusTypeOK, ShortIsRemembered
<1> HIDE DEF s, good
<1> QED BY <1>3, <1>5, EndExchangeInv

LEMMA UnlockInv ==
  ASSUME BusInv, NEW t \in Threads, Unlock(t)
  PROVE  BusInv'
  BY NoneAssumption
  DEF Unlock, BusInv, BusTypeOK, HolderIsInside, StepInScript, HalfOnlyInGet, Current,
      ShortIsRemembered, TalksToChosenSlave, SuccessMovedAllBytes, Inside

(***************************************************************************)
(* Whatever the number of threads and the calls they make, the access      *)
(* functions of dev_i2c.c only talk to the slave they chose, and return 0  *)
(* only when every byte was moved.                                         *)
(***************************************************************************)
LEMMA BusNextInv == BusInv /\ [BusNext]_busVars => BusInv'
<1> SUFFICES ASSUME BusInv, [BusNext]_busVars
             PROVE  BusInv'
  OBVIOUS
<1>1. CASE UNCHANGED busVars
  BY <1>1
  DEF busVars, BusInv, BusTypeOK, HolderIsInside, StepInScript, HalfOnlyInGet, Current,
      ShortIsRemembered, TalksToChosenSlave, SuccessMovedAllBytes
<1>2. ASSUME NEW t \in Threads, BusStep(t)
      PROVE  BusInv'
  BY <1>2, LockInv, IoctlInv, TransferInv, GetWriteInv, GetReadInv, UnlockInv DEF BusStep
<1>3. ASSUME NEW t \in Threads, NEW c \in Calls, Enter(t, c)
      PROVE  BusInv'
  BY <1>3, EnterInv
<1> QED BY <1>1, <1>2, <1>3 DEF BusNext

LEMMA BusInvariant == BusSpec => []BusInv
  BY BusInitInv, BusNextInv, PTL DEF BusSpec

(* Type correctness of the access functions' state.                        *)
THEOREM BusTypeCorrect == BusSpec => []BusTypeOK
<1>1. BusInv => BusTypeOK  BY DEF BusInv
<1> QED BY <1>1, BusInvariant, PTL

(* No other thread comes between a function's ioctl and its last transfer. *)
THEOREM BusTalksToChosenSlave == BusSpec => []TalksToChosenSlave
<1>1. BusInv => TalksToChosenSlave  BY DEF BusInv
<1> QED BY <1>1, BusInvariant, PTL

(* A returned 0 means that every transfer of the call was complete.        *)
THEOREM BusSuccessMovedAllBytes == BusSpec => []SuccessMovedAllBytes
<1>1. BusInv => SuccessMovedAllBytes  BY DEF BusInv
<1> QED BY <1>1, BusInvariant, PTL

=============================================================================
