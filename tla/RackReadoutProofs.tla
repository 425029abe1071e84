------------------------- MODULE RackReadoutProofs -------------------------
(* Under which conditions a record is read from, and written to, its own   *)
(* register of its own probe, for any database, any number of scan threads *)
(* and any failures; and that RackTemp then implements ProbeReadout.       *)
EXTENDS RackTempProofs

(***************************************************************************)
(* What a record's processing needs of its surroundings.                   *)
(*                                                                         *)
(* NoSilentPins: a pin that gpio_write reports as written is written.      *)
(* SwitchAtRest: two threads never want the switch in different positions: *)
(*   there is one scan thread, or all its records are on one stub.         *)
(* DistinctSlots: records share a slot only if they say the same.          *)
(***************************************************************************)
NoSilentPins == "flush" \notin GpioFaults

OwnStub(r) == Inp[r].value % 8

SwitchAtRest ==
  \A t, u \in Threads : t # u =>
    \A i \in DOMAIN ScanList[t], j \in DOMAIN ScanList[u] :
      OwnStub(ScanList[t][i]) = OwnStub(ScanList[u][j])

DistinctSlots ==
  \A r, q \in Records :
    ParseOK(r) /\ ParseOK(q) /\ Slot(r) = Slot(q) => InpChar(r) = InpChar(q)

ScanThreads == Threads \ {Main}

(***************************************************************************)
(* A record that has a slot finds its own number and suffix in it.         *)
(***************************************************************************)
AttachedInv ==
  \A r \in Records :
    dpvt[r] # NULL => ParseOK(r) /\ dpvt[r] = Slot(r) /\ private_data[dpvt[r]] = Attached(r)

LEMMA NchRacktemp == NCH_RACKTEMP = 64
  BY DEF NCH_RACKTEMP, MAX_ISTUB, MAX_DS75_ADDRESS

LEMMA ParseRange == \A r : ParseOK(r) => Inp[r].value \in 0..63
  BY NchRacktemp DEF ParseOK

LEMMA SlotsAgree ==
  ASSUME DistinctSlots, NEW r \in Records, NEW q \in Records,
         ParseOK(r), ParseOK(q), Slot(r) = Slot(q)
  PROVE  Attached(r) = Attached(q)
<1>1. InpChar(r) = InpChar(q)
  BY DEF DistinctSlots
<1>2. Inp[r].value \in Int /\ Inp[q].value \in Int
  BY RackAssumption
<1> DEFINE n == IF InpChar(r) = "H" THEN 64
                ELSE IF InpChar(r) = "L" THEN 128
                ELSE IF InpChar(r) = "C" THEN 192 ELSE 0
<1>3. Slot(r) = Inp[r].value + n /\ Slot(q) = Inp[q].value + n
  BY <1>1, NchRacktemp DEF Slot
<1>4. n \in Int
  OBVIOUS
<1> HIDE DEF n
<1>5. Inp[r].value = Inp[q].value
  <2>1. Inp[r].value + n = Inp[q].value + n
    BY <1>3
  <2>2. \A a, b, k \in Int : a + k = b + k => a = b
    OBVIOUS
  <2> QED BY <1>2, <1>4, <2>1, <2>2, Zenon
<1> QED BY <1>1, <1>5 DEF Attached

LEMMA AttachedStep ==
  ASSUME DistinctSlots, PlaceInv, AttachedInv, RackNext
  PROVE  AttachedInv'
<1>1. CASE UNCHANGED <<dpvt, private_data>>
  BY <1>1 DEF AttachedInv
<1>2. ASSUME NEW r \in Records, Attach(r)
      PROVE  AttachedInv'
  <2>1. ParseOK(r) /\ Slot(r) \in Slots
    BY <1>2, SlotType DEF Attach
  <2>2. /\ private_data' = [private_data EXCEPT ![Slot(r)] = Attached(r)]
        /\ dpvt' = [dpvt EXCEPT ![r] = Slot(r)]
    BY <1>2 DEF Attach, Attached
  <2>3. private_data'[Slot(r)] = Attached(r) /\ dpvt'[r] = Slot(r)
    BY <2>1, <2>2 DEF PlaceInv
  <2>4. ASSUME NEW q \in Records, q # r, dpvt'[q] # NULL
        PROVE  ParseOK(q) /\ dpvt'[q] = Slot(q) /\ private_data'[dpvt'[q]] = Attached(q)
    <3>1. dpvt'[q] = dpvt[q] /\ ParseOK(q) /\ dpvt[q] = Slot(q)
          /\ private_data[Slot(q)] = Attached(q)
      BY <2>2, <2>4 DEF PlaceInv, AttachedInv
    <3>2. CASE Slot(q) = Slot(r)
      BY <2>1, <2>3, <3>1, <3>2, SlotsAgree
    <3>3. CASE Slot(q) # Slot(r)
      <4>1. Slot(q) \in Slots
        BY <3>1, SlotType
      <4>2. private_data'[Slot(q)] = private_data[Slot(q)]
        BY <2>2, <3>3, <4>1 DEF PlaceInv
      <4> QED BY <3>1, <4>2
    <3> QED BY <3>2, <3>3
  <2> QED BY <2>1, <2>3, <2>4 DEF AttachedInv
<1>3. MainStep => UNCHANGED <<dpvt, private_data>> \/ (Initialising /\ Attach(Rec(Main)))
  BY DEF MainStep, InitBadBus, InitBadField, init_record_ai, init_record_ao, InitAoUnread,
         InitAoRead, InitAoDone, InitStarts
<1>4. ASSUME NEW t \in Threads, ThreadStep(t) PROVE UNCHANGED <<dpvt, private_data>>
  BY <1>4 DEF ThreadStep, Crash, Process, SelectPin, Dispatch, DispatchError, read_ai_returns,
              write_ao_returns, BusControl, WireWrite, WireRead, initVars
<1>5. Initialising => Rec(Main) \in Records
  BY RecType, RackAssumption
<1> QED BY <1>1, <1>2, <1>3, <1>4, <1>5 DEF RackNext

LEMMA AttachedAlways == ASSUME DistinctSlots PROVE RackSpec => []AttachedInv
<1>1. RackInit => AttachedInv
  BY DEF RackInit, AttachedInv
<1>2. AttachedInv /\ UNCHANGED rackVars => AttachedInv'
  BY DEF AttachedInv, rackVars, initVars
<1>3. PlaceInv /\ AttachedInv /\ [RackNext]_rackVars => AttachedInv'
  BY <1>2, AttachedStep
<1> QED BY <1>1, <1>3, PlaceAlways, PTL DEF RackSpec

\* What read_ai and write_ao take out of the slot.
LEMMA SlotSays ==
  ASSUME AttachedInv, NEW r \in Records, dpvt[r] # NULL
  PROVE  /\ ParseOK(r) /\ Inp[r].value \in 0..63
         /\ Private(r).what = InpChar(r)
         /\ Istub(r) = OwnStub(r)
         /\ Addr(r) = Inp[r].value \div 8
<1>1. Private(r) = Attached(r) /\ ParseOK(r)
  BY DEF AttachedInv, Private
<1> QED BY <1>1, NchRacktemp DEF Attached, Istub, Addr, OwnStub, MAX_ISTUB, ParseOK

-----------------------------------------------------------------------------
(***************************************************************************)
(* What a thread asks of the bus: read_ai and write_ao the call of their   *)
(* record, init_record_ao to read a register, and nobody else anything.    *)
(* Scan threads only run when Main has finished.                           *)
(***************************************************************************)
OwnAddr(r) == Inp[r].value \div 8
OwnReg(r)  == RegisterOf(InpChar(r))

OwnCalls(r) ==
  IF Kind[r] = "ai" THEN ReadCall(InpChar(r), OwnAddr(r))
                    ELSE WriteCall(InpChar(r), OwnAddr(r))

SettingCalls == UNION {ReadCall(w, a) : w \in {"S", "Y", "C"}, a \in 0..63}

PhaseInv ==
  /\ \A t \in ScanThreads : tpc[t] # "idle" => ~Initialising
  /\ \A t \in ScanThreads : tpc[t] = "access" => call[t] \in OwnCalls(Rec(t))
  /\ tpc[Main] = "access" => call[Main] \in SettingCalls /\ Kind[Rec(Main)] = "ao"
  /\ \A t \in Threads : tpc[t] # "access" => bpc[t] = "ready"

\* A step of an access function changes nothing of the other threads.
OthersKept(t) ==
  \A u \in Threads : u # t =>
    /\ bpc'[u] = bpc[u] /\ step'[u] = step[u]
    /\ half'[u] = half[u] /\ status'[u] = status[u]

LEMMA BusStepFrame ==
  ASSUME BusTypeOK, NEW t \in Threads, BusStep(t)
  PROVE  bpc[t] # "ready" /\ UNCHANGED call /\ OthersKept(t)
<1> USE DEF BusTypeOK, OthersKept
<1>1. CASE Lock(t) \/ Unlock(t)
  BY <1>1 DEF Lock, Unlock
<1>2. CASE Ioctl(t)
  BY <1>2 DEF Ioctl, IoctlFails, IoctlSucceeds
<1>3. CASE \E r \in Returns(3) : Transfer(t, r)
  BY <1>3 DEF Transfer, EndExchange
<1>4. CASE \E r \in Returns(3) : GetWrite(t, r)
  BY <1>4 DEF GetWrite
<1>5. CASE \E r \in Returns(3) : GetRead(t, r)
  BY <1>5 DEF GetRead, EndExchange
<1> QED BY <1>1, <1>2, <1>3, <1>4, <1>5 DEF BusStep

\* A thread's step, seen from the bus: a step of its access function, the
\* entry to it, or neither.
LEMMA ThreadOnBus ==
  ASSUME NEW t \in Threads, ThreadStep(t)
  PROVE  \/ /\ BusStep(t) /\ UNCHANGED <<gpio, recVars, initVars, procVars, crashed>>
         \/ Dispatch(t)
         \/ UNCHANGED <<busVars, chipVars, initVars>> /\ ~Dispatch(t)
<1>1. CASE BusControl(t)
  BY <1>1 DEF BusControl, BusStep
<1>2. CASE \E n \in Returns(3) : WireWrite(t, n) \/ WireRead(t, n)
  BY <1>2 DEF WireWrite, WireRead, BusStep
<1>3. CASE \/ Crash(t) \/ Process(t) \/ DispatchError(t)
           \/ read_ai_returns(t) \/ write_ao_returns(t)
           \/ \E outcome \in {"ok", "open", "flush"} : SelectPin(t, outcome)
  BY <1>3 DEF Crash, Process, DispatchError, read_ai_returns, write_ao_returns, SelectPin
<1> QED BY <1>1, <1>2, <1>3 DEF ThreadStep

LEMMA PhaseMain ==
  ASSUME PlaceInv, BusTypeOK, PhaseInv, MainStep
  PROVE  PhaseInv'
<1>0. /\ Main \in Threads /\ (Initialising => Rec(Main) \in Records)
      /\ tpc \in [Threads -> {"idle", "select", "dispatch", "access"}]
  BY RackAssumption, RecType DEF PlaceInv
<1>1. /\ Initialising /\ UNCHANGED pos
      /\ \A t \in ScanThreads : tpc'[t] = tpc[t]
  BY <1>0 DEF MainStep, InitBadBus, InitBadField, init_record_ai, init_record_ao, InitAoUnread,
     InitAoRead, InitAoDone, InitStarts, Returned, procVars, PlaceInv, ScanThreads
<1>2. \A t \in ScanThreads : tpc'[t] = "idle"
  BY <1>1 DEF PhaseInv
<1>3. CASE InitAoRead
  <2>1. PICK c \in ReadCall(InpChar(Rec(Main)), Inp[Rec(Main)].value) : Enter(Main, c)
    BY <1>3 DEF InitAoRead
  <2>2. /\ InpChar(Rec(Main)) # " " /\ ParseOK(Rec(Main))
        /\ Kind[Rec(Main)] = "ao" /\ Rec(Main)' = Rec(Main)
        /\ tpc' = [tpc EXCEPT ![Main] = "access"]
    BY <1>3 DEF InitAoRead, Attach, Rec
  <2>3. c \in SettingCalls
    <3>1. InpChar(Rec(Main)) \in {"S", "Y", "C"}
      BY <2>1, <2>2 DEF ReadCall
    <3>2. Inp[Rec(Main)].value \in 0..63
      BY <2>2, ParseRange
    <3> QED BY <2>1, <3>1, <3>2 DEF SettingCalls
  <2>4. call'[Main] = c /\ \A t \in ScanThreads : bpc'[t] = bpc[t]
    BY <1>0, <2>1 DEF Enter, BusTypeOK, ScanThreads
  <2>5. tpc'[Main] = "access"
    BY <1>0, <2>2
  <2> QED BY <1>1, <1>2, <2>2, <2>3, <2>4, <2>5 DEF PhaseInv, ScanThreads
<1>4. CASE ~InitAoRead
  <2>1. UNCHANGED busVars /\ tpc'[Main] = "idle" /\ bpc[Main] = "ready"
    BY <1>0, <1>4 DEF MainStep, InitBadBus, InitBadField, init_record_ai, init_record_ao,
       InitAoUnread, InitAoDone, InitStarts, Returned, procVars, PhaseInv
  <2>2. UNCHANGED bpc
    BY <2>1 DEF busVars
  <2> QED BY <1>1, <1>2, <2>1, <2>2 DEF PhaseInv, ScanThreads
<1> QED BY <1>3, <1>4

LEMMA PhaseThread ==
  ASSUME PlaceInv, AttachedInv, BusTypeOK, PhaseInv, NEW t \in Threads, ThreadStep(t)
  PROVE  PhaseInv'
<1>0. /\ Main \in Threads
      /\ tpc \in [Threads -> {"idle", "select", "dispatch", "access"}]
  BY RackAssumption DEF PlaceInv
<1>1. CASE BusStep(t) /\ UNCHANGED <<gpio, recVars, initVars, procVars, crashed>>
  <2>1. /\ \A u \in Threads : Rec(u)' = Rec(u) /\ tpc'[u] = tpc[u]
        /\ Initialising' = Initialising /\ tpc[t] = "access"
    BY <1>1, BusStepFrame DEF Rec, Initialising, initVars, procVars, PhaseInv
  <2>2. UNCHANGED call /\ OthersKept(t)
    BY <1>1, BusStepFrame
  <2> QED BY <1>0, <2>1, <2>2 DEF PhaseInv, OthersKept, ScanThreads
<1>2. CASE Dispatch(t)
  <2>1. PICK c \in CallFor(Rec(t)) : Enter(t, c)
    BY <1>2 DEF Dispatch
  <2>2. /\ tpc[t] = "dispatch" /\ t # Main /\ UNCHANGED <<initVars, pos>>
        /\ tpc' = [tpc EXCEPT ![t] = "access"]
    BY <1>2, MainIsNoScanThread DEF Dispatch
  <2>3. Rec(t) \in Records /\ dpvt[Rec(t)] # NULL
    BY <2>2, AtRecord
  <2>4. c \in OwnCalls(Rec(t))
    BY <2>1, <2>3, SlotSays DEF CallFor, OwnCalls, OwnAddr
  <2>5. /\ \A u \in Threads : Rec(u)' = Rec(u)
        /\ Initialising' = Initialising
    BY <2>2 DEF Rec, Initialising, initVars
  <2>6. /\ call'[t] = c
        /\ \A u \in Threads : u # t => call'[u] = call[u] /\ bpc'[u] = bpc[u] /\ tpc'[u] = tpc[u]
    BY <1>0, <2>1, <2>2 DEF Enter, BusTypeOK
  <2>7. tpc'[t] = "access"
    BY <1>0, <2>2
  <2> QED BY <1>0, <2>2, <2>4, <2>5, <2>6, <2>7 DEF PhaseInv, ScanThreads
<1>3. CASE UNCHANGED <<busVars, chipVars, initVars>> /\ ~Dispatch(t)
  <2>1. UNCHANGED <<bpc, call, initpos>> /\ Initialising' = Initialising
    BY <1>3 DEF busVars, initVars, Initialising
  <2>2. CASE UNCHANGED procVars
    BY <2>1, <2>2 DEF PhaseInv, procVars, Rec, ScanThreads
  <2>3. CASE t # Main /\ ~UNCHANGED procVars
    <3>1. /\ tpc'[t] \in {"idle", "select", "dispatch"} /\ bpc[t] = "ready"
          /\ tpc'[t] # "idle" => ~Initialising
          /\ \A u \in Threads \ {t} : pos'[u] = pos[u] /\ tpc'[u] = tpc[u]
      BY <1>0, <1>3, <2>3
      DEF ThreadStep, Crash, Process, SelectPin, DispatchError, read_ai_returns, Returned,
          write_ao_returns, BusControl, WireWrite, WireRead, Advance, PhaseInv, PlaceInv,
          ScanThreads
    <3>2. \A u \in Threads \ {t} : Rec(u)' = Rec(u)
      BY <2>1, <3>1 DEF Rec
    <3> QED BY <2>1, <2>3, <3>1, <3>2, <1>0 DEF PhaseInv, ScanThreads
  <2>4. CASE t = Main /\ ~UNCHANGED procVars
    BY <1>3, <2>4, MainIsNoScanThread
    DEF ThreadStep, Crash, Process, SelectPin, DispatchError, read_ai_returns,
        write_ao_returns, BusControl, WireWrite, WireRead
  <2> QED BY <2>2, <2>3, <2>4
<1> QED BY <1>1, <1>2, <1>3, ThreadOnBus

LEMMA PhaseAlways ==
  ASSUME DistinctSlots
  PROVE  RackSpec => [](PlaceInv /\ BusInv /\ AttachedInv /\ PhaseInv)
<1>1. RackInit => PhaseInv
  BY RackAssumption DEF RackInit, BusInit, PhaseInv, ScanThreads
<1>2. PhaseInv /\ UNCHANGED rackVars => PhaseInv'
  BY DEF PhaseInv, rackVars, busVars, initVars, procVars, Rec, Initialising
<1>3. PlaceInv /\ BusInv /\ AttachedInv /\ PhaseInv /\ [RackNext]_rackVars => PhaseInv'
  BY <1>2, PhaseMain, PhaseThread DEF RackNext, BusInv
<1> QED
  BY <1>1, <1>3, PlaceAlways, AttachedAlways, RackImplementsBus, BusInvariant, PTL DEF RackSpec

-----------------------------------------------------------------------------
(***************************************************************************)
(* The switch: the pins that select_probe has set keep the bits of the     *)
(* record's stub until its processing ends, as no other thread wants       *)
(* another stub.                                                           *)
(***************************************************************************)
Bit(n, i) == (n \div 2^i) % 2

PinsInv ==
  \A t \in ScanThreads :
    /\ tpc[t] # "select" => npins[t] = 0
    /\ \A i \in 0..2 :
         tpc[t] \in {"dispatch", "access"} \/ (tpc[t] = "select" /\ i < npins[t]) =>
           gpio[MuxPins[i + 1]] = Bit(OwnStub(Rec(t)), i)

LEMMA BitType == \A n \in 0..7 : \A i \in 0..2 : Bit(n, i) \in {0, 1}
<1>1. 2^0 = 1 /\ 2^1 = 2 /\ 2^2 = 4
  OBVIOUS
<1>2. \A n \in 0..7 : \A p \in {1, 2, 4} : (n \div p) % 2 \in {0, 1}
  OBVIOUS
<1>3. \A i \in 0..2 : 2^i \in {1, 2, 4}
  <2>1. \A i \in 0..2 : i = 0 \/ i = 1 \/ i = 2
    OBVIOUS
  <2> QED BY <1>1, <2>1, Zenon
<1> QED BY <1>2, <1>3, Zenon DEF Bit

LEMMA BitsAreTheNumber == \A n \in 0..7 : n = Bit(n, 0) + 2 * Bit(n, 1) + 4 * Bit(n, 2)
<1>1. 2^0 = 1 /\ 2^1 = 2 /\ 2^2 = 4
  OBVIOUS
<1>2. \A n \in 0..7 : n = ((n \div 1) % 2) + 2 * ((n \div 2) % 2) + 4 * ((n \div 4) % 2)
  OBVIOUS
<1> QED BY <1>1, <1>2, Zenon DEF Bit

\* Two threads never disagree about the stub.
LEMMA SameStub ==
  ASSUME SwitchAtRest, PlaceInv, NEW t \in ScanThreads, NEW u \in ScanThreads,
         tpc[t] # "idle", tpc[u] # "idle"
  PROVE  OwnStub(Rec(t)) = OwnStub(Rec(u))
<1>1. /\ pos[t] \in DOMAIN ScanList[t] /\ Rec(t) = ScanList[t][pos[t]]
      /\ pos[u] \in DOMAIN ScanList[u] /\ Rec(u) = ScanList[u][pos[u]]
  <2>1. \A v \in ScanThreads : DOMAIN ScanList[v] = 1..Len(ScanList[v])
    BY RackAssumption DEF ScanThreads
  <2> QED BY <2>1 DEF PlaceInv, ScanThreads, Rec
<1> QED BY <1>1 DEF SwitchAtRest, ScanThreads

LEMMA StubType ==
  ASSUME PlaceInv, AttachedInv, NEW t \in ScanThreads, tpc[t] # "idle"
  PROVE  /\ Rec(t) \in Records /\ ParseOK(Rec(t)) /\ dpvt[Rec(t)] # NULL
         /\ Istub(Rec(t)) = OwnStub(Rec(t))
         /\ OwnStub(Rec(t)) \in 0..7
<1>1. Rec(t) \in Records /\ dpvt[Rec(t)] # NULL
  BY AtRecord DEF ScanThreads
<1>2. ParseOK(Rec(t)) /\ Istub(Rec(t)) = OwnStub(Rec(t))
  BY <1>1, SlotSays
<1>3. Inp[Rec(t)].value \in 0..63
  BY <1>2, ParseRange
<1>4. \A n \in 0..63 : n % 8 \in 0..7
  OBVIOUS
<1> QED BY <1>1, <1>2, <1>3, <1>4 DEF OwnStub

LEMMA PinsSelect ==
  ASSUME NoSilentPins, SwitchAtRest, PlaceInv, AttachedInv, PinsTyped, PinsInv,
         NEW t \in Threads, NEW outcome, SelectPin(t, outcome)
  PROVE  PinsInv'
<1>0. /\ t \in ScanThreads /\ tpc[t] = "select"
      /\ tpc \in [Threads -> {"idle", "select", "dispatch", "access"}]
      /\ pos \in [Threads -> Nat] /\ npins \in [Threads -> 0..2] /\ npins[t] \in 0..2
      /\ gpio \in [Pins -> {0, 1}]
  BY MainIsNoScanThread DEF SelectPin, ScanThreads, PlaceInv, PinsTyped, GpioTypeOK
<1>1. outcome \in {"ok", "open"}
  BY GpioFaultsAssumption DEF SelectPin, gpio_write, Outcomes, NoSilentPins
<1>2. CASE outcome = "open"
  <2>1. UNCHANGED <<gpio, initVars>> /\ Advance(t)
    BY <1>2 DEF SelectPin, gpio_write, gpio_written
  <2>2. /\ tpc'[t] = "idle" /\ npins'[t] = 0
        /\ \A u \in ScanThreads \ {t} :
             tpc'[u] = tpc[u] /\ npins'[u] = npins[u] /\ Rec(u)' = Rec(u)
    BY <1>0, <2>1 DEF Advance, Rec, ScanThreads, initVars
  <2> QED BY <2>1, <2>2 DEF PinsInv
<1>3. CASE outcome = "ok"
  <2> DEFINE k == npins[t]
             s == OwnStub(Rec(t))
  <2>1. s \in 0..7 /\ Istub(Rec(t)) = s /\ Bit(s, k) \in {0, 1}
    BY <1>0, StubType, BitType
  <2>2. gpio' = [gpio EXCEPT ![MuxPins[k + 1]] = Bit(s, k)]
    <3>1. gpio' = [gpio EXCEPT ![MuxPins[k + 1]] = IF Bit(s, k) = 0 THEN 0 ELSE 1]
      BY <1>3, <2>1 DEF SelectPin, gpio_write, Bit
    <3> QED BY <2>1, <3>1
  <2>3. \A i \in 0..2 : gpio'[MuxPins[i + 1]] =
                          IF i = k THEN Bit(s, k) ELSE gpio[MuxPins[i + 1]]
    <3>1. MuxPins[k + 1] \in Pins /\ \A i \in 0..2 : MuxPins[i + 1] \in Pins
      BY <1>0, MuxPinsExported
    <3>2. \A i, j \in 0..2 : MuxPins[i + 1] = MuxPins[j + 1] => i = j
      BY DEF MuxPins
    <3> HIDE DEF s
    <3> QED BY <1>0, <2>2, <3>1, <3>2
  <2>4. /\ UNCHANGED <<pos, initVars>>
        /\ \/ k = 2 /\ tpc' = [tpc EXCEPT ![t] = "dispatch"]
              /\ npins' = [npins EXCEPT ![t] = 0]
           \/ k # 2 /\ tpc' = tpc /\ npins' = [npins EXCEPT ![t] = k + 1]
    BY <1>3 DEF SelectPin, gpio_written
  <2>5. \A u \in ScanThreads : Rec(u)' = Rec(u)
    BY <2>4 DEF Rec, initVars
  <2>6. ASSUME NEW u \in ScanThreads, tpc[u] # "idle" PROVE OwnStub(Rec(u)) = s
    BY <1>0, <2>6, SameStub
  <2> HIDE DEF s, k
  <2>7. k \in 0..2 /\ k = npins[t]
    BY <1>0 DEF k
  <2>8. ASSUME NEW u \in ScanThreads, u # t
        PROVE  /\ tpc'[u] # "select" => npins'[u] = 0
               /\ \A i \in 0..2 :
                    tpc'[u] \in {"dispatch", "access"} \/ (tpc'[u] = "select" /\ i < npins'[u]) =>
                      gpio'[MuxPins[i + 1]] = Bit(OwnStub(Rec(u)), i)
    <3>1. tpc'[u] = tpc[u] /\ npins'[u] = npins[u]
      BY <1>0, <2>4, <2>8 DEF ScanThreads
    <3> QED BY <2>3, <2>6, <3>1 DEF PinsInv
  <2>9. /\ tpc'[t] # "select" => npins'[t] = 0
        /\ \A i \in 0..2 :
             tpc'[t] \in {"dispatch", "access"} \/ (tpc'[t] = "select" /\ i < npins'[t]) =>
               gpio'[MuxPins[i + 1]] = Bit(s, i)
    <3>1. \A i \in 0..2 : i < k => gpio[MuxPins[i + 1]] = Bit(s, i)
      BY <1>0, <2>7 DEF PinsInv, s
    <3>2. CASE k = 2
      <4>1. tpc'[t] = "dispatch" /\ npins'[t] = 0
        BY <1>0, <2>4, <3>2
      <4>2. \A i \in 0..2 : i = 2 \/ i < 2
        OBVIOUS
      <4> QED BY <2>3, <3>1, <3>2, <4>1, <4>2
    <3>3. CASE k # 2
      <4>1. tpc'[t] = "select" /\ npins'[t] = k + 1
        BY <1>0, <2>4, <3>3 DEF ScanThreads
      <4>2. \A i \in 0..2 : i < k + 1 => i = k \/ i < k
        BY <2>7
      <4> QED BY <2>3, <3>1, <4>1, <4>2
    <3> QED BY <3>2, <3>3
  <2> QED BY <1>0, <2>5, <2>8, <2>9 DEF PinsInv, s
<1> QED BY <1>1, <1>2, <1>3

LEMMA PinsStep ==
  ASSUME NoSilentPins, SwitchAtRest, PlaceInv, AttachedInv, PhaseInv, PinsTyped, PinsInv, RackNext
  PROVE  PinsInv'
<1>0. /\ tpc \in [Threads -> {"idle", "select", "dispatch", "access"}] /\ Main \in Threads
      /\ npins \in [Threads -> 0..2] /\ pos \in [Threads -> Nat]
  BY RackAssumption DEF PlaceInv, PinsTyped
<1>1. CASE MainStep
  <2>1. /\ Initialising /\ UNCHANGED <<npins, gpio>>
        /\ \A t \in ScanThreads : tpc'[t] = tpc[t]
    BY <1>0, <1>1
    DEF MainStep, InitBadBus, InitBadField, init_record_ai, init_record_ao, InitAoUnread,
        InitAoRead, InitAoDone, InitStarts, Returned, procVars, PlaceInv, ScanThreads
  <2>2. \A t \in ScanThreads : tpc'[t] = "idle"
    BY <2>1 DEF PhaseInv
  <2> QED BY <2>1, <2>2 DEF PinsInv
<1>2. ASSUME NEW t \in Threads, ThreadStep(t), \A outcome : ~SelectPin(t, outcome)
      PROVE  PinsInv'
  <2>1. UNCHANGED <<gpio, initpos>>
    BY <1>2 DEF ThreadStep, Crash, Process, Dispatch, DispatchError, read_ai_returns,
                write_ao_returns, BusControl, WireWrite, WireRead, initVars
  <2>2. CASE UNCHANGED procVars
    BY <2>1, <2>2 DEF PinsInv, procVars, Rec, ScanThreads
  <2>3. CASE ~UNCHANGED procVars
    <3>1. /\ t \in ScanThreads
          /\ \/ Process(t) /\ tpc'[t] = "select" /\ UNCHANGED <<npins, pos>> /\ tpc[t] = "idle"
             \/ Dispatch(t) /\ tpc'[t] = "access" /\ UNCHANGED <<npins, pos>> /\ tpc[t] = "dispatch"
             \/ tpc'[t] = "idle" /\ npins'[t] = 0
          /\ \A u \in ScanThreads \ {t} :
               pos'[u] = pos[u] /\ tpc'[u] = tpc[u] /\ npins'[u] = npins[u]
      BY <1>0, <1>2, <2>3, MainIsNoScanThread
      DEF ThreadStep, Crash, Process, Dispatch, DispatchError, read_ai_returns, Advance,
          write_ao_returns, BusControl, WireWrite, WireRead, ScanThreads
    <3>2. \A u \in ScanThreads \ {t} : Rec(u)' = Rec(u)
      BY <2>1, <3>1 DEF Rec, ScanThreads
    <3>3. UNCHANGED pos => Rec(t)' = Rec(t)
      BY <2>1 DEF Rec
    <3>4. npins[t] \in 0..2 /\ \A i \in 0..2 : ~(i < 0)
      BY <1>0
    <3> QED BY <2>1, <3>1, <3>2, <3>3, <3>4 DEF PinsInv
  <2> QED BY <2>2, <2>3
<1> QED BY <1>1, <1>2, PinsSelect DEF RackNext

\* From select_probe to the end, the switch connects the record's stub.
LEMMA StubConnected ==
  ASSUME PlaceInv, AttachedInv, PinsInv, NEW t \in ScanThreads,
         tpc[t] \in {"dispatch", "access"}
  PROVE  MuxStub = OwnStub(Rec(t))
<1> DEFINE s == OwnStub(Rec(t))
<1>1. s \in 0..7
  BY StubType
<1>2. \A i \in 0..2 : gpio[MuxPins[i + 1]] = Bit(s, i)
  BY DEF PinsInv
<1> HIDE DEF s
<1>3. gpio[26] = Bit(s, 0) /\ gpio[46] = Bit(s, 1) /\ gpio[65] = Bit(s, 2)
  BY <1>2 DEF MuxPins
<1>4. MuxStub = Bit(s, 0) + 2 * Bit(s, 1) + 4 * Bit(s, 2)
  BY <1>3, Zenon DEF MuxStub
<1> QED BY <1>1, <1>4, BitsAreTheNumber DEF s

-----------------------------------------------------------------------------
(***************************************************************************)
(* The exchanges a record's call consists of.                              *)
(***************************************************************************)
One(op, reg, n) == [op |-> op, reg |-> reg, len |-> n]

\* An access function with one pointer that is not NULL: one exchange.
LEMMA OneField ==
  ASSUME NEW c, NEW f \in Fields, c.fields = {f}, NEW op, NEW n \in 1..2
  PROVE  \E len \in n..(n + 1) : Details(c, op, n) = <<One(op, f, len)>>
<1>1. \A x : /\ <<x>> \o <<>> \o <<>> = <<x>>
             /\ <<>> \o <<x>> \o <<>> = <<x>>
             /\ <<>> \o <<>> \o <<x>> = <<x>>
  OBVIOUS
<1>2. n \in n..(n + 1) /\ n + 1 \in n..(n + 1)
  OBVIOUS
<1>3. CASE f = "T_OS"
  <2>1. "T_OS" \in c.fields /\ "T_HYST" \notin c.fields /\ "cfg" \notin c.fields
    BY <1>3
  <2>2. Details(c, op, n) = <<One(op, f, n + 1)>> \o <<>> \o <<>>
    BY <1>3, <2>1, Zenon DEF Details, One
  <2> QED BY <1>1, <1>2, <2>2, Zenon
<1>4. CASE f = "T_HYST"
  <2>1. "T_OS" \notin c.fields /\ "T_HYST" \in c.fields /\ "cfg" \notin c.fields
    BY <1>4
  <2>2. Details(c, op, n) = <<>> \o <<One(op, f, n + 1)>> \o <<>>
    BY <1>4, <2>1, Zenon DEF Details, One
  <2> QED BY <1>1, <1>2, <2>2, Zenon
<1>5. CASE f = "cfg"
  <2>1. "T_OS" \notin c.fields /\ "T_HYST" \notin c.fields /\ "cfg" \in c.fields
    BY <1>5
  <2>2. Details(c, op, n) = <<>> \o <<>> \o <<One(op, f, n)>>
    BY <1>5, <2>1, Zenon DEF Details, One
  <2> QED BY <1>1, <1>2, <2>2, Zenon
<1> QED BY <1>3, <1>4, <1>5 DEF Fields

\* init_record_ao's calls read one register.
LEMMA SettingScript ==
  ASSUME NEW c \in SettingCalls
  PROVE  \E reg \in Fields, n \in 1..2 : Script(c) = <<One("get", reg, n)>>
<1>1. PICK w \in {"S", "Y", "C"}, a \in 0..63 : c \in ReadCall(w, a)
  BY DEF SettingCalls
<1>2. PICK f \in Fields : c = Ds75("access_ds75_details", a, {f}, "r")
  BY <1>1 DEF ReadCall, Fields
<1>3. c.fields = {f} /\ Script(c) = Details(c, "get", 1)
  BY <1>2 DEF Ds75, Script, access_ds75_details
<1>4. PICK n \in 1..(1 + 1) : Details(c, "get", 1) = <<One("get", f, n)>>
  BY <1>3, OneField
<1>5. n \in 1..2
  BY <1>4
<1> QED BY <1>3, <1>4, <1>5, Zenon

\* What read_ai and write_ao do on the bus for a record.
ReadsTemperature(r, c) ==
  /\ Kind[r] = "ai" /\ OwnReg(r) = "T"
  /\ Script(c) = <<One("put", "T", 1), One("take", "T", 2)>>

ReadsRegister(r, c) ==
  Kind[r] = "ai" /\ \E n \in 1..2 : Script(c) = <<One("get", OwnReg(r), n)>>

WritesRegister(r, c) ==
  /\ Kind[r] = "ao" /\ OwnReg(r) \in Fields
  /\ \E n \in 2..3 : Script(c) = <<One("put", OwnReg(r), n)>>

LEMMA OwnScript ==
  ASSUME NEW r \in Records, ParseOK(r), NEW c \in OwnCalls(r)
  PROVE  /\ SlaveAddress(c) = I2C_ADDR_BASE + OwnAddr(r)
         /\ ReadsTemperature(r, c) \/ ReadsRegister(r, c) \/ WritesRegister(r, c)
<1>1. OwnAddr(r) \in 0..7
  BY ParseRange DEF OwnAddr
<1>2. CASE Kind[r] = "ai" /\ InpChar(r) = " "
  <2>1. c = Ds75("read_temp_ds75", OwnAddr(r), {}, "r")
    BY <1>2 DEF OwnCalls, ReadCall
  <2>2. c.fn = "read_temp_ds75" /\ c.addr = OwnAddr(r)
    BY <2>1 DEF Ds75
  <2>3. Script(c) = <<One("put", "T", 1), One("take", "T", 2)>>
    BY <2>2, Zenon DEF Script, read_temp_ds75, Put, Take, One
  <2>4. SlaveAddress(c) = I2C_ADDR_BASE + OwnAddr(r)
    BY <1>1, <2>2 DEF SlaveAddress
  <2> QED BY <1>2, <2>3, <2>4 DEF ReadsTemperature, OwnReg, RegisterOf
<1>3. CASE Kind[r] = "ai" /\ InpChar(r) # " "
  <2>1. c = Ds75("access_ds75_details", OwnAddr(r), {OwnReg(r)}, "r") /\ OwnReg(r) \in Fields
    BY <1>3 DEF OwnCalls, ReadCall, OwnReg, RegisterOf, Fields
  <2>2. c.fn = "access_ds75_details" /\ c.addr = OwnAddr(r) /\ c.fields = {OwnReg(r)}
        /\ c.mode = "r"
    BY <2>1 DEF Ds75
  <2>3. Script(c) = Details(c, "get", 1)
    BY <2>2 DEF Script, access_ds75_details
  <2>4. PICK n \in 1..(1 + 1) : Details(c, "get", 1) = <<One("get", OwnReg(r), n)>>
    BY <2>1, <2>2, OneField
  <2>5. n \in 1..2
    BY <2>4
  <2>6. ReadsRegister(r, c)
    BY <1>3, <2>3, <2>4, <2>5, Zenon DEF ReadsRegister
  <2> QED BY <2>2, <2>6 DEF SlaveAddress
<1>4. CASE Kind[r] = "ao"
  <2>1. c = Ds75("access_ds75_details", OwnAddr(r), {OwnReg(r)}, "w") /\ OwnReg(r) \in Fields
    BY <1>4 DEF OwnCalls, WriteCall, OwnReg, RegisterOf, Fields
  <2>2. c.fn = "access_ds75_details" /\ c.addr = OwnAddr(r) /\ c.fields = {OwnReg(r)}
        /\ c.mode = "w"
    BY <2>1 DEF Ds75
  <2>3. Script(c) = Details(c, "put", 2)
    BY <2>2 DEF Script, access_ds75_details
  <2>4. PICK n \in 2..(2 + 1) : Details(c, "put", 2) = <<One("put", OwnReg(r), n)>>
    BY <2>1, <2>2, OneField
  <2>5. n \in 2..3
    BY <2>4
  <2>6. WritesRegister(r, c)
    BY <1>4, <2>1, <2>3, <2>4, <2>5, Zenon DEF WritesRegister
  <2> QED BY <2>2, <2>6 DEF SlaveAddress
<1> QED BY <1>2, <1>3, <1>4, RackAssumption

-----------------------------------------------------------------------------
(***************************************************************************)
(* The exchange a scan thread performs, and the probe it reaches.          *)
(***************************************************************************)
Base == PlaceInv /\ BusInv /\ AttachedInv /\ PhaseInv /\ PinsInv

\* The exchanges of a record, by their place in the script.
OwnExchange(r, x, i, last) ==
  /\ x.reg = OwnReg(r)
  /\ \/ Kind[r] = "ai" /\ x.op = "put"  /\ x.len = 1       /\ i = 1 /\ last = 2
     \/ Kind[r] = "ai" /\ x.op = "take" /\ x.len = 2       /\ i = 2 /\ last = 2
     \/ Kind[r] = "ai" /\ x.op = "get"  /\ x.len \in 1..2  /\ i = 1 /\ last = 1
     \/ Kind[r] = "ao" /\ x.op = "put"  /\ x.len \in 2..3  /\ i = 1 /\ last = 1
                       /\ x.reg \in Fields

LEMMA CurrentIsOwn ==
  ASSUME Base, NEW t \in ScanThreads, bpc[t] = "xfer"
  PROVE  /\ tpc[t] = "access" /\ Rec(t) \in Records /\ ParseOK(Rec(t))
         /\ OwnExchange(Rec(t), Current(t), step[t], Len(Script(call[t])))
<1>1. tpc[t] = "access"
  BY DEF Base, PhaseInv, ScanThreads
<1>2. Rec(t) \in Records /\ ParseOK(Rec(t)) /\ call[t] \in OwnCalls(Rec(t))
  BY <1>1, StubType DEF Base, PhaseInv
<1>3. step[t] \in 1..Len(Script(call[t]))
  BY DEF Base, BusInv, StepInScript, ScanThreads
<1> DEFINE r == Rec(t)
           c == call[t]
<1>4. CASE ReadsTemperature(r, c)
  <2>1. Script(c) = <<One("put", "T", 1), One("take", "T", 2)>>
    BY <1>4 DEF ReadsTemperature
  <2>2. Len(Script(c)) = 2 /\ (step[t] = 1 \/ step[t] = 2)
    BY <1>3, <2>1
  <2>3. /\ step[t] = 1 => Current(t) = One("put", "T", 1)
        /\ step[t] = 2 => Current(t) = One("take", "T", 2)
    BY <2>1 DEF Current
  <2> QED BY <1>1, <1>2, <1>4, <2>2, <2>3 DEF ReadsTemperature, OwnExchange, One
<1>5. CASE ReadsRegister(r, c)
  <2>1. PICK n \in 1..2 : Script(c) = <<One("get", OwnReg(r), n)>>
    BY <1>5 DEF ReadsRegister
  <2>2. Len(Script(c)) = 1 /\ step[t] = 1
    BY <1>3, <2>1
  <2>3. Current(t) = One("get", OwnReg(r), n)
    BY <2>1, <2>2 DEF Current
  <2> QED BY <1>1, <1>2, <1>5, <2>2, <2>3 DEF ReadsRegister, OwnExchange, One
<1>6. CASE WritesRegister(r, c)
  <2>1. PICK n \in 2..3 : Script(c) = <<One("put", OwnReg(r), n)>>
    BY <1>6 DEF WritesRegister
  <2>2. Len(Script(c)) = 1 /\ step[t] = 1
    BY <1>3, <2>1
  <2>3. Current(t) = One("put", OwnReg(r), n)
    BY <2>1, <2>2 DEF Current
  <2> QED BY <1>1, <1>2, <1>6, <2>2, <2>3 DEF WritesRegister, OwnExchange, One
<1> QED BY <1>2, <1>4, <1>5, <1>6, OwnScript

LEMMA ReachesOwnProbe ==
  ASSUME Base, NEW t \in ScanThreads, bpc[t] = "xfer"
  PROVE  Reached = OwnProbe(Rec(t))
<1>1. tpc[t] = "access" /\ Rec(t) \in Records /\ ParseOK(Rec(t)) /\ call[t] \in OwnCalls(Rec(t))
  BY CurrentIsOwn DEF Base, PhaseInv
<1>2. slave = I2C_ADDR_BASE + OwnAddr(Rec(t))
  BY <1>1, OwnScript DEF Base, BusInv, TalksToChosenSlave, ScanThreads
<1>3. OwnAddr(Rec(t)) \in Int
  BY <1>1, ParseRange DEF OwnAddr
<1>4. slave - I2C_ADDR_BASE = OwnAddr(Rec(t))
  BY <1>2, <1>3 DEF I2C_ADDR_BASE
<1>5. MuxStub = OwnStub(Rec(t))
  BY <1>1, StubConnected DEF Base
<1> QED BY <1>4, <1>5, Zenon DEF Reached, OwnProbe, OwnStub, OwnAddr

-----------------------------------------------------------------------------
(***************************************************************************)
(* What a transfer does to the chips.                                      *)
(***************************************************************************)
Points(r) ==
  OwnProbe(r) \in Present /\ ptr' = [ptr EXCEPT ![OwnProbe(r)] = OwnReg(r)]

Stores(r) ==
  /\ OwnProbe(r) \in Present /\ OwnReg(r) \in Fields
  /\ content' = [content EXCEPT ![OwnProbe(r)][OwnReg(r)] = r]

LEMMA WriteEffect ==
  ASSUME Base, NEW t \in ScanThreads, NEW n, WireWrite(t, n)
  PROVE  /\ bpc[t] = "xfer"
         /\ \/ Current(t).op = "put" /\ Transfer(t, n)
            \/ Current(t).op = "get" /\ GetWrite(t, n)
         /\ \/ /\ UNCHANGED <<ptr, content>>
               /\ n # (IF Current(t).op = "get" THEN 1 ELSE Current(t).len)
            \/ Kind[Rec(t)] = "ai" /\ Points(Rec(t)) /\ UNCHANGED content
            \/ Kind[Rec(t)] = "ao" /\ Points(Rec(t)) /\ Stores(Rec(t))
<1>1. bpc[t] = "xfer" /\ Reached = OwnProbe(Rec(t))
  BY ReachesOwnProbe DEF WireWrite
<1>2. OwnExchange(Rec(t), Current(t), step[t], Len(Script(call[t])))
  BY <1>1, CurrentIsOwn
<1>3. \/ Current(t).op = "put" /\ Transfer(t, n)
      \/ Current(t).op = "get" /\ GetWrite(t, n)
  BY DEF WireWrite, Transfer, GetWrite
<1>4. Current(t).op = "put" /\ Current(t).len > 1 <=> Kind[Rec(t)] = "ao"
  BY <1>2 DEF OwnExchange
<1>5. Kind[Rec(t)] = "ao" => OwnReg(Rec(t)) \in Fields
  BY <1>2 DEF OwnExchange
<1>6. Current(t).reg = OwnReg(Rec(t)) /\ Kind[Rec(t)] \in {"ai", "ao"}
  BY <1>2 DEF OwnExchange
<1>7. \/ /\ Reached \in Present
         /\ ptr' = [ptr EXCEPT ![Reached] = Current(t).reg]
         /\ content' = IF Current(t).op = "put" /\ Current(t).len > 1
                       THEN [content EXCEPT ![Reached][Current(t).reg] = Rec(t)] ELSE content
      \/ /\ n # (IF Current(t).op = "get" THEN 1 ELSE Current(t).len)
         /\ UNCHANGED <<ptr, content>>
  BY DEF WireWrite
<1> QED BY <1>1, <1>3, <1>4, <1>5, <1>6, <1>7 DEF Points, Stores

\* The setting of an output is read without changing any register.
LEMMA MainWriteEffect ==
  ASSUME PlaceInv, BusInv, PhaseInv, NEW n, WireWrite(Main, n)
  PROVE  UNCHANGED content /\ ptr' \in {ptr} \cup {[ptr EXCEPT ![Reached] = reg] : reg \in Fields}
<1>1. Main \in Threads /\ bpc[Main] = "xfer" /\ tpc[Main] = "access"
  BY RackAssumption DEF WireWrite, PhaseInv
<1>2. PICK reg \in Fields, k \in 1..2 : Script(call[Main]) = <<One("get", reg, k)>>
  BY <1>1, SettingScript DEF PhaseInv
<1>3. step[Main] = 1
  <2>1. Len(Script(call[Main])) = 1
    BY <1>2
  <2>2. step[Main] \in 1..Len(Script(call[Main]))
    BY <1>1 DEF BusInv, StepInScript
  <2> QED BY <2>1, <2>2
<1>4. Current(Main) = One("get", reg, k)
  BY <1>2, <1>3 DEF Current
<1>5. Current(Main).op = "get" /\ Current(Main).reg = reg
  BY <1>4 DEF One
<1> QED BY <1>5 DEF WireWrite

-----------------------------------------------------------------------------
(***************************************************************************)
(* The chips: every register that was written was written by a record that *)
(* stands for it.                                                          *)
(***************************************************************************)
ChipTyped ==
  /\ content \in [Present -> [Fields -> Records \cup {None}]]
  /\ ptr \in [Present -> Registers]

LEMMA StoreKeepsOwn ==
  ASSUME ChipTyped, WritesOwnRegister, NEW r \in Records, Stores(r)
  PROVE  /\ content' \in [Present -> [Fields -> Records \cup {None}]]
         /\ WritesOwnRegister'
         /\ content'[OwnProbe(r)][OwnReg(r)] = r
         /\ \A p \in Present, f \in Fields : content[p][f] # None => content'[p][f] # None
<1>1. OwnProbe(r) \in Present /\ OwnReg(r) \in Fields /\ r # None
  BY RackAssumption DEF Stores
<1>2. content' \in [Present -> [Fields -> Records \cup {None}]]
  BY <1>1 DEF Stores, ChipTyped
<1>3. \A p \in Present, f \in Fields :
        content'[p][f] = IF p = OwnProbe(r) /\ f = OwnReg(r) THEN r ELSE content[p][f]
  BY <1>1 DEF Stores, ChipTyped
<1>4. Own(r) = <<OwnProbe(r), OwnReg(r)>>
  BY DEF Own, OwnReg
<1>5. WritesOwnRegister'
  BY <1>3, <1>4 DEF WritesOwnRegister
<1> QED BY <1>1, <1>2, <1>3, <1>5

LEMMA PointKeepsType ==
  ASSUME ChipTyped, NEW p \in Present, NEW reg \in Registers, ptr' = [ptr EXCEPT ![p] = reg]
  PROVE  ptr' \in [Present -> Registers] /\ ptr'[p] = reg
  BY DEF ChipTyped

\* Only a write() changes a chip.
LEMMA ChipsKept ==
  ASSUME RackNext, ~\E t \in Threads, n \in Returns(3) : WireWrite(t, n)
  PROVE  UNCHANGED <<ptr, content>>
<1>1. CASE MainStep
  BY <1>1 DEF MainStep, InitBadBus, InitBadField, init_record_ai, init_record_ao, InitAoUnread,
              InitAoRead, InitAoDone, chipVars
<1>2. ASSUME NEW t \in Threads, ThreadStep(t) PROVE UNCHANGED <<ptr, content>>
  BY <1>2 DEF ThreadStep, Crash, Process, SelectPin, Dispatch, DispatchError, read_ai_returns,
              write_ao_returns, BusControl, WireRead, chipVars
<1> QED BY <1>1, <1>2 DEF RackNext

LEMMA OwnRegType ==
  ASSUME Base, NEW t \in ScanThreads, bpc[t] = "xfer"
  PROVE  OwnReg(Rec(t)) \in Registers
<1>1. Current(t).reg = OwnReg(Rec(t))
  BY CurrentIsOwn DEF OwnExchange
<1>2. Current(t) \in Exchange
  BY CurrentType DEF Base, BusInv, ScanThreads
<1> QED BY <1>1, <1>2 DEF Exchange

\* What was written stays written.
ContentKept ==
  \A p \in Present, f \in Fields : content[p][f] # None => content'[p][f] # None

LEMMA ChipStep ==
  ASSUME Base, ChipTyped, WritesOwnRegister, RackNext
  PROVE  ChipTyped' /\ WritesOwnRegister' /\ ContentKept
<1>1. CASE ~\E t \in Threads, n \in Returns(3) : WireWrite(t, n)
  BY <1>1, ChipsKept DEF ChipTyped, WritesOwnRegister, ContentKept
<1>2. ASSUME NEW n, WireWrite(Main, n) PROVE ChipTyped' /\ WritesOwnRegister' /\ ContentKept
  <2>1. UNCHANGED content /\ ptr' \in {ptr} \cup {[ptr EXCEPT ![Reached] = reg] : reg \in Fields}
    BY <1>2, MainWriteEffect DEF Base
  <2>2. ptr' \in [Present -> Registers]
    BY <2>1 DEF ChipTyped, Registers
  <2> QED BY <2>1, <2>2 DEF ChipTyped, WritesOwnRegister, ContentKept
<1>3. ASSUME NEW t \in ScanThreads, NEW n, WireWrite(t, n)
      PROVE  ChipTyped' /\ WritesOwnRegister' /\ ContentKept
  <2>1. /\ bpc[t] = "xfer" /\ Rec(t) \in Records /\ OwnReg(Rec(t)) \in Registers
        /\ \/ UNCHANGED <<ptr, content>>
           \/ Points(Rec(t)) /\ UNCHANGED content
           \/ Points(Rec(t)) /\ Stores(Rec(t))
    BY <1>3, WriteEffect, CurrentIsOwn, OwnRegType
  <2>2. ptr' \in [Present -> Registers]
    BY <2>1, PointKeepsType DEF Points, ChipTyped
  <2>3. CASE UNCHANGED content
    BY <2>2, <2>3 DEF ChipTyped, WritesOwnRegister, ContentKept
  <2>4. CASE Stores(Rec(t))
    BY <2>1, <2>2, <2>4, StoreKeepsOwn DEF ChipTyped, ContentKept
  <2> QED BY <2>1, <2>3, <2>4
<1> QED BY <1>1, <1>2, <1>3 DEF ScanThreads

-----------------------------------------------------------------------------
(***************************************************************************)
(* A call under way: once the register pointer is set it is the record's,  *)
(* and a call that succeeded has the record's register in the buffer, or   *)
(* in the chip.                                                            *)
(***************************************************************************)
Pointed(r) == OwnProbe(r) \in Present /\ ptr[OwnProbe(r)] = OwnReg(r)

Landed(r) ==
  /\ OwnProbe(r) \in Present /\ OwnReg(r) \in Fields
  /\ content[OwnProbe(r)][OwnReg(r)] # None

PointerSet(t) ==
  bpc[t] = "xfer" /\ (step[t] = 2 \/ (half[t] = 2 /\ status[t] = 1)) => Pointed(Rec(t))

Success(t) ==
  tpc[t] = "access" /\ bpc[t] \in {"unlock", "ready"} /\ status[t] = 0

Delivered(t) ==
  Success(t) =>
    /\ Kind[Rec(t)] = "ai" => buf[t] = Own(Rec(t))
    /\ Kind[Rec(t)] = "ao" => Landed(Rec(t))

CallInv == \A t \in ScanThreads : PointerSet(t) /\ Delivered(t)

BufTyped == buf \in [Threads -> {Garbage} \cup (Present \X Registers)]

LEMMA BufStep ==
  ASSUME BufTyped, ChipTyped, RackNext
  PROVE  BufTyped'
<1>1. CASE UNCHANGED buf
  BY <1>1 DEF BufTyped
<1>2. CASE \E t \in Threads : buf' = [buf EXCEPT ![t] = Garbage]
  BY <1>2 DEF BufTyped
<1>3. ASSUME NEW t \in Threads, NEW n, WireRead(t, n) PROVE BufTyped'
  <2>1. CASE n = Current(t).len
    <3>1. Reached \in Present /\ buf' = [buf EXCEPT ![t] = <<Reached, ptr[Reached]>>]
      BY <1>3, <2>1 DEF WireRead
    <3>2. <<Reached, ptr[Reached]>> \in Present \X Registers
      BY <3>1 DEF ChipTyped
    <3> QED BY <3>1, <3>2 DEF BufTyped
  <2>2. CASE n # Current(t).len
    BY <1>2, <1>3, <2>2 DEF WireRead
  <2> QED BY <2>1, <2>2
<1>4. CASE MainStep
  BY <1>1, <1>2, <1>4, RackAssumption
  DEF MainStep, InitBadBus, InitBadField, init_record_ai, init_record_ao, InitAoUnread,
      InitAoRead, InitAoDone, ReadDone
<1>5. ASSUME NEW t \in Threads, ThreadStep(t) PROVE BufTyped'
  BY <1>1, <1>2, <1>3, <1>5
  DEF ThreadStep, Crash, Process, SelectPin, Dispatch, DispatchError, read_ai_returns, ReadDone,
      write_ao_returns, BusControl, WireWrite
<1> QED BY <1>4, <1>5 DEF RackNext

\* A thread that the step leaves alone.
LEMMA CallFrame ==
  ASSUME NEW u \in ScanThreads, PointerSet(u), Delivered(u), ContentKept,
         Rec(u)' = Rec(u), tpc'[u] = tpc[u], bpc'[u] = bpc[u], step'[u] = step[u],
         half'[u] = half[u], status'[u] = status[u], buf'[u] = buf[u],
         UNCHANGED ptr \/ bpc[u] # "xfer"
  PROVE  PointerSet(u)' /\ Delivered(u)'
<1>1. PointerSet(u)'
  BY DEF PointerSet, Pointed
<1>2. Delivered(u)'
  BY DEF Delivered, Success, Landed, ContentKept
<1> QED BY <1>1, <1>2

LEMMA OneTalks ==
  ASSUME BusInv, NEW t \in Threads, NEW u \in Threads, bpc[t] = "xfer", bpc[u] = "xfer"
  PROVE  t = u
  BY DEF BusInv, HolderIsInside, Inside

\* The thread's own step on the bus.
LEMMA OwnControl ==
  ASSUME Base, NEW t \in ScanThreads, PointerSet(t), Delivered(t), BusControl(t)
  PROVE  PointerSet(t)' /\ Delivered(t)'
<1>0. /\ Rec(t)' = Rec(t) /\ UNCHANGED <<tpc, buf, ptr, content>> /\ t \in Threads
      /\ BusTypeOK
  BY DEF BusControl, Rec, initVars, procVars, chipVars, ScanThreads, Base, BusInv
<1>1. CASE Lock(t)
  <2>1. bpc'[t] = "ioctl"
    BY <1>0, <1>1 DEF Lock, BusTypeOK
  <2> QED BY <2>1 DEF PointerSet, Delivered, Success
<1>2. CASE IoctlFails(t)
  <2>1. bpc'[t] = "unlock" /\ status'[t] = -1
    BY <1>0, <1>2 DEF IoctlFails, BusTypeOK
  <2> QED BY <2>1 DEF PointerSet, Delivered, Success
<1>3. CASE IoctlSucceeds(t)
  <2>1. bpc[t] = "ioctl" /\ UNCHANGED <<step, half>> /\ step[t] = 1 /\ half[t] = 1
    BY <1>0, <1>3 DEF IoctlSucceeds, Base, BusInv, StepInScript, HalfOnlyInGet
  <2>2. tpc[t] = "access"
    BY <1>0, <2>1 DEF Base, PhaseInv
  <2>3. Rec(t) \in Records /\ ParseOK(Rec(t)) /\ call[t] \in OwnCalls(Rec(t))
    BY <2>2, StubType DEF Base, PhaseInv
  <2>4. Script(call[t]) # <<>>
    <3>1. \A x, y : <<x>> # <<>> /\ <<x, y>> # <<>>
      OBVIOUS
    <3> QED BY <2>3, <3>1, OwnScript, Zenon DEF ReadsTemperature, ReadsRegister, WritesRegister
  <2>5. bpc'[t] = "xfer"
    BY <1>0, <1>3, <2>4 DEF IoctlSucceeds, BusTypeOK
  <2> QED BY <2>1, <2>5 DEF PointerSet, Delivered, Success
<1>4. CASE Unlock(t)
  <2>1. bpc'[t] = "ready" /\ bpc[t] = "unlock" /\ UNCHANGED status
    BY <1>0, <1>4 DEF Unlock, BusTypeOK
  <2> QED BY <1>0, <2>1 DEF PointerSet, Delivered, Success, Landed
<1> QED BY <1>1, <1>2, <1>3, <1>4 DEF BusControl, Ioctl

LEMMA OwnWrite ==
  ASSUME Base, ChipTyped, WritesOwnRegister, NEW t \in ScanThreads, NEW n, WireWrite(t, n)
  PROVE  PointerSet(t)' /\ Delivered(t)'
<1> DEFINE r == Rec(t)
           x == Current(t)
<1>0. /\ Rec(t)' = r /\ UNCHANGED <<tpc, buf>> /\ t \in Threads /\ BusTypeOK /\ bpc[t] = "xfer"
      /\ half[t] \in {1, 2} /\ (half[t] = 2 => x.op = "get")
  BY DEF WireWrite, Rec, initVars, procVars, ScanThreads, Base, BusInv, BusTypeOK, HalfOnlyInGet
<1>1. /\ r \in Records /\ OwnExchange(r, x, step[t], Len(Script(call[t])))
      /\ OwnReg(r) \in Registers
  BY <1>0, CurrentIsOwn, OwnRegType
<1>2. Points(r) => Pointed(r)'
  BY <1>0, <1>1, PointKeepsType DEF Points, Pointed
<1>3. Stores(r) => Landed(r)'
  <2> SUFFICES ASSUME Stores(r) PROVE Landed(r)'
    OBVIOUS
  <2>1. content'[OwnProbe(r)][OwnReg(r)] = r /\ r # None
    BY <1>1, StoreKeepsOwn, RackAssumption
  <2> QED BY <1>0, <2>1 DEF Landed, Stores
<1>4. CASE x.op = "get" /\ GetWrite(t, n)
  <2>1. bpc'[t] = "xfer" /\ step'[t] = step[t] /\ status'[t] = n
    BY <1>0, <1>4 DEF GetWrite, BusTypeOK
  <2>2. step[t] = 1 /\ Kind[r] = "ai"
    BY <1>1, <1>4 DEF OwnExchange
  <2>3. n = 1 => Points(r)
    BY <1>4, <2>2, WriteEffect
  <2> QED BY <1>0, <1>2, <2>1, <2>2, <2>3 DEF PointerSet, Delivered, Success
<1>5. CASE x.op = "put" /\ Transfer(t, n)
  <2>1. /\ half[t] = 1 /\ half'[t] = 1
        /\ IF n = x.len /\ step[t] < Len(Script(call[t]))
           THEN step'[t] = step[t] + 1 /\ bpc'[t] = "xfer"
           ELSE bpc'[t] = "unlock" /\ status'[t] = IF n = x.len THEN 0 ELSE -1
    BY <1>0, <1>5 DEF Transfer, EndExchange, BusTypeOK
  <2>2. CASE n # x.len
    BY <2>1, <2>2 DEF PointerSet, Delivered, Success
  <2>3. CASE n = x.len /\ Kind[r] = "ai"
    <3>1. step[t] = 1 /\ Len(Script(call[t])) = 2
      BY <1>1, <1>5, <2>3 DEF OwnExchange
    <3>2. bpc'[t] = "xfer" /\ Points(r)
      BY <1>5, <2>1, <2>3, <3>1, WriteEffect
    <3> QED BY <1>0, <1>2, <3>2 DEF PointerSet, Delivered, Success
  <2>4. CASE n = x.len /\ Kind[r] = "ao"
    <3>1. step[t] = 1 /\ Len(Script(call[t])) = 1
      BY <1>1, <2>4 DEF OwnExchange
    <3>2. bpc'[t] = "unlock" /\ Stores(r)
      BY <1>5, <2>1, <2>4, <3>1, WriteEffect
    <3> QED BY <1>0, <1>3, <2>4, <3>2 DEF PointerSet, Delivered, Success
  <2> QED BY <1>1, <2>2, <2>3, <2>4 DEF OwnExchange
<1> QED BY <1>4, <1>5, WriteEffect

LEMMA OwnRead ==
  ASSUME Base, BufTyped, NEW t \in ScanThreads, NEW n, WireRead(t, n), PointerSet(t)
  PROVE  PointerSet(t)' /\ Delivered(t)'
<1> DEFINE r == Rec(t)
           x == Current(t)
<1>0. /\ Rec(t)' = r /\ UNCHANGED <<tpc, ptr, content>> /\ t \in Threads /\ BusTypeOK
      /\ bpc[t] = "xfer"
  BY DEF WireRead, Rec, initVars, procVars, ScanThreads, Base, BusInv
<1>1. /\ OwnExchange(r, x, step[t], Len(Script(call[t]))) /\ x.op # "put"
      /\ Reached = OwnProbe(r)
  BY <1>0, CurrentIsOwn, ReachesOwnProbe DEF WireRead
<1>2. /\ Kind[r] = "ai" /\ x.len \in 1..2
      /\ \/ x.op = "take" /\ step[t] = 2 /\ Len(Script(call[t])) = 2
         \/ x.op = "get" /\ step[t] = 1 /\ Len(Script(call[t])) = 1
  BY <1>1 DEF OwnExchange
<1>3. /\ x.op = "take" => Transfer(t, n)
      /\ x.op = "get" => GetRead(t, n)
      /\ ~(step[t] < Len(Script(call[t])))
  <2>1. Transfer(t, n) \/ GetRead(t, n)
    BY DEF WireRead
  <2>2. /\ x.op = "take" => ~GetRead(t, n)
        /\ x.op = "get" => ~Transfer(t, n)
    BY DEF Transfer, GetRead
  <2>3. ~(step[t] < Len(Script(call[t])))
    <3>1. ~(1 < 1) /\ ~(2 < 2)
      OBVIOUS
    <3> QED BY <1>2, <3>1, Zenon
  <2> QED BY <2>1, <2>2, <2>3
<1>4. /\ bpc'[t] = "unlock" /\ n \in Returns(x.len) /\ status[t] \in -1..1
      /\ status'[t] = 0 => IF x.op = "take" THEN n = x.len
                           ELSE half[t] = 2 /\ status[t] + n = x.len + 1
  <2>1. CASE x.op = "take"
    BY <1>0, <1>3, <2>1 DEF Transfer, EndExchange, BusTypeOK
  <2>2. CASE x.op = "get"
    BY <1>0, <1>3, <2>2 DEF GetRead, EndExchange, BusTypeOK
  <2> QED BY <1>2, <2>1, <2>2
<1> HIDE DEF x
<1>6. status'[t] = 0 => n = x.len /\ Pointed(r)
  <2>1. CASE x.op = "take"
    BY <1>0, <1>2, <1>4, <2>1 DEF PointerSet
  <2>2. CASE x.op = "get"
    <3>1. status'[t] = 0 => n = x.len /\ status[t] = 1 /\ half[t] = 2
      BY <1>2, <1>4, <2>2 DEF Returns
    <3> QED BY <1>0, <3>1 DEF PointerSet
  <2> QED BY <1>2, <2>1, <2>2
<1>5. n = x.len /\ Pointed(r) => buf'[t] = Own(r)
  <2> SUFFICES ASSUME n = x.len, Pointed(r) PROVE buf'[t] = Own(r)
    OBVIOUS
  <2>1. buf'[t] = <<Reached, ptr[Reached]>>
    BY <1>0 DEF WireRead, BufTyped, x
  <2> QED BY <1>1, <2>1 DEF Pointed, Own, OwnReg
<1> QED BY <1>0, <1>2, <1>4, <1>5, <1>6 DEF PointerSet, Delivered, Success

LEMMA CallStep ==
  ASSUME Base, PhaseInv', ChipTyped, WritesOwnRegister, BufTyped, CallInv, RackNext
  PROVE  CallInv'
<1>0. ContentKept
  BY ChipStep
<1>1. ASSUME \A u \in ScanThreads : tpc'[u] = "idle" PROVE CallInv'
  <2>1. \A u \in ScanThreads : bpc'[u] = "ready"
    BY <1>1 DEF PhaseInv, ScanThreads
  <2> QED BY <1>1, <2>1 DEF CallInv, PointerSet, Delivered, Success
<1>2. CASE MainStep
  <2>1. Main \in Threads /\ tpc \in [Threads -> {"idle", "select", "dispatch", "access"}]
    BY RackAssumption DEF Base, PlaceInv
  <2>2. Initialising /\ \A t \in ScanThreads : tpc'[t] = tpc[t]
    BY <1>2, <2>1
    DEF MainStep, InitBadBus, InitBadField, init_record_ai, init_record_ao, InitAoUnread,
        InitAoRead, InitAoDone, InitStarts, Returned, procVars, Base, PlaceInv, ScanThreads
  <2>3. \A t \in ScanThreads : tpc'[t] = "idle"
    BY <2>2 DEF Base, PhaseInv
  <2> QED BY <1>1, <2>3
<1>3. ASSUME NEW t \in Threads, ThreadStep(t), Initialising PROVE CallInv'
  <2>1. Initialising'
    BY <1>3 DEF ThreadStep, Crash, Process, SelectPin, Dispatch, DispatchError, read_ai_returns,
       write_ao_returns, BusControl, WireWrite, WireRead, initVars, Initialising
  <2> QED BY <1>1, <2>1 DEF PhaseInv
<1>4. ASSUME NEW t \in ScanThreads, BusStep(t), UNCHANGED <<initVars, procVars>>,
             PointerSet(t)' /\ Delivered(t)',
             \A u \in ScanThreads : u # t => buf'[u] = buf[u],
             UNCHANGED ptr \/ bpc[t] = "xfer"
      PROVE  CallInv'
  <2>1. OthersKept(t)
    BY <1>4, BusStepFrame DEF Base, BusInv, ScanThreads
  <2>2. ASSUME NEW u \in ScanThreads, u # t PROVE PointerSet(u)' /\ Delivered(u)'
    <3>1. UNCHANGED ptr \/ bpc[u] # "xfer"
      BY <1>4, <2>2, OneTalks DEF Base, ScanThreads
    <3>2. /\ Rec(u)' = Rec(u) /\ tpc'[u] = tpc[u] /\ bpc'[u] = bpc[u] /\ step'[u] = step[u]
          /\ half'[u] = half[u] /\ status'[u] = status[u] /\ buf'[u] = buf[u]
      BY <1>4, <2>1, <2>2 DEF Rec, initVars, procVars, OthersKept, ScanThreads
    <3> QED BY <1>0, <3>1, <3>2, CallFrame DEF CallInv
  <2> QED BY <1>4, <2>2 DEF CallInv
<1>5. ASSUME NEW t \in ScanThreads,
             \/ Crash(t) \/ Process(t) \/ DispatchError(t)
             \/ read_ai_returns(t) \/ write_ao_returns(t)
             \/ \E outcome \in {"ok", "open", "flush"} : SelectPin(t, outcome)
      PROVE  CallInv'
  <2>0. UNCHANGED <<bpc, step, half, status, ptr, initpos>>
    BY <1>5 DEF Crash, Process, SelectPin, DispatchError, read_ai_returns, write_ao_returns,
       initVars, busVars, chipVars
  <2>1. /\ \A u \in ScanThreads : u # t =>
             pos'[u] = pos[u] /\ tpc'[u] = tpc[u] /\ buf'[u] = buf[u]
        /\ \/ UNCHANGED <<pos, tpc, buf>>
           \/ tpc'[t] # "access"
    <3>1. /\ t \in Threads /\ pos \in [Threads -> Nat]
          /\ tpc \in [Threads -> {"idle", "select", "dispatch", "access"}]
      BY DEF Base, PlaceInv, ScanThreads
    <3>2. CASE Crash(t)
      BY <3>2 DEF Crash, procVars
    <3>3. CASE Process(t)
      BY <3>1, <3>3 DEF Process, ScanThreads
    <3>4. CASE \E outcome \in {"ok", "open", "flush"} : SelectPin(t, outcome)
      BY <3>1, <3>4 DEF SelectPin, Advance, ScanThreads
    <3>5. CASE DispatchError(t) \/ write_ao_returns(t)
      BY <3>1, <3>5 DEF DispatchError, write_ao_returns, Advance, ScanThreads
    <3>6. CASE read_ai_returns(t)
      BY <3>1, <3>6 DEF read_ai_returns, ReadDone, Advance, ScanThreads, BufTyped
    <3> QED BY <1>5, <3>2, <3>3, <3>4, <3>5, <3>6
  <2>2. ASSUME NEW u \in ScanThreads, Rec(u)' = Rec(u), tpc'[u] = tpc[u], buf'[u] = buf[u]
        PROVE  PointerSet(u)' /\ Delivered(u)'
    BY <1>0, <2>0, <2>2, CallFrame DEF CallInv
  <2>3. tpc'[t] # "access" => PointerSet(t)' /\ Delivered(t)'
    <3>1. tpc'[t] # "access" => bpc'[t] = "ready"
      BY DEF PhaseInv, ScanThreads
    <3> QED BY <3>1 DEF PointerSet, Delivered, Success
  <2>4. \A u \in ScanThreads : pos'[u] = pos[u] => Rec(u)' = Rec(u)
    BY <2>0 DEF Rec, ScanThreads
  <2> QED BY <2>1, <2>2, <2>3, <2>4 DEF CallInv
<1>6. ASSUME NEW t \in ScanThreads, Dispatch(t) PROVE CallInv'
  <2>1. PICK c : Enter(t, c)
    BY <1>6 DEF Dispatch
  <2>2. /\ UNCHANGED <<ptr, buf, initVars, pos>> /\ bpc'[t] = "lock"
        /\ \A u \in ScanThreads : u # t =>
             /\ tpc'[u] = tpc[u] /\ bpc'[u] = bpc[u] /\ step'[u] = step[u]
             /\ half'[u] = half[u] /\ status'[u] = status[u]
    BY <1>6, <2>1 DEF Dispatch, Enter, Base, BusInv, BusTypeOK, PlaceInv, ScanThreads, chipVars
  <2>3. \A u \in ScanThreads : Rec(u)' = Rec(u)
    BY <2>2 DEF Rec, initVars
  <2>4. PointerSet(t)' /\ Delivered(t)'
    BY <2>2 DEF PointerSet, Delivered, Success
  <2>5. ASSUME NEW u \in ScanThreads, u # t PROVE PointerSet(u)' /\ Delivered(u)'
    BY <1>0, <2>2, <2>3, <2>5, CallFrame DEF CallInv
  <2> QED BY <2>4, <2>5 DEF CallInv
<1>7. ASSUME NEW t \in ScanThreads, ThreadStep(t) PROVE CallInv'
  <2>1. CASE BusControl(t)
    <3>1. BusStep(t) /\ UNCHANGED <<initVars, procVars, buf, ptr>>
      BY <2>1 DEF BusControl, BusStep, chipVars
    <3>2. PointerSet(t)' /\ Delivered(t)'
      BY <2>1, OwnControl DEF CallInv
    <3> QED BY <1>4, <3>1, <3>2
  <2>2. ASSUME NEW n \in Returns(3), WireWrite(t, n) PROVE CallInv'
    <3>1. BusStep(t) /\ UNCHANGED <<initVars, procVars, buf>> /\ bpc[t] = "xfer"
      BY <2>2 DEF WireWrite, BusStep
    <3>2. PointerSet(t)' /\ Delivered(t)'
      BY <2>2, OwnWrite
    <3> QED BY <1>4, <3>1, <3>2
  <2>3. ASSUME NEW n \in Returns(3), WireRead(t, n) PROVE CallInv'
    <3>1. BusStep(t) /\ UNCHANGED <<initVars, procVars, ptr>>
      BY <2>3 DEF WireRead, BusStep
    <3>2. PointerSet(t)' /\ Delivered(t)'
      BY <2>3, OwnRead DEF CallInv
    <3>3. \A u \in ScanThreads : u # t => buf'[u] = buf[u]
      BY <2>3 DEF WireRead, BufTyped, ScanThreads
    <3> QED BY <1>4, <3>1, <3>2, <3>3
  <2> QED BY <1>5, <1>6, <1>7, <2>1, <2>2, <2>3 DEF ThreadStep
<1>8. ASSUME NEW t \in Threads, ThreadStep(t), t = Main, ~Initialising PROVE CallInv'
  <2>1. tpc[Main] = "idle" /\ bpc[Main] = "ready"
    BY <1>8 DEF Base, PlaceInv, PhaseInv
  <2>2. FALSE
    BY <1>8, <2>1, RackAssumption
    DEF ThreadStep, Crash, Process, SelectPin, DispatchError, Dispatch, read_ai_returns,
        write_ao_returns, Returned, BusControl, WireWrite, WireRead, Lock, Unlock, Ioctl,
        IoctlFails, IoctlSucceeds
  <2> QED BY <2>2
<1> QED BY <1>2, <1>3, <1>7, <1>8 DEF RackNext, ScanThreads

(***************************************************************************)
(* All of this together.                                                   *)
(***************************************************************************)
Undisturbed == NoSilentPins /\ SwitchAtRest /\ DistinctSlots

Chain == Base /\ ChipTyped /\ WritesOwnRegister /\ BufTyped /\ CallInv

LEMMA ChainAlways == ASSUME Undisturbed PROVE RackSpec => [](Chain /\ RackTypeOK)
<1> USE DEF Undisturbed
<1>1. RackInit => PinsInv /\ ChipTyped /\ WritesOwnRegister /\ BufTyped /\ CallInv
  <2> SUFFICES ASSUME RackInit
               PROVE  PinsInv /\ ChipTyped /\ WritesOwnRegister /\ BufTyped /\ CallInv
    OBVIOUS
  <2>1. ChipTyped /\ WritesOwnRegister /\ BufTyped
    <3>1. {"T", "cfg"} \subseteq Registers
      BY DEF Registers, Fields
    <3> QED BY <3>1 DEF RackInit, ChipTyped, WritesOwnRegister, BufTyped
  <2>2. PinsInv /\ CallInv
    BY DEF RackInit, BusInit, PinsInv, CallInv, PointerSet, Delivered, Success, ScanThreads
  <2> QED BY <2>1, <2>2
<1>2. UNCHANGED rackVars /\ PinsInv => PinsInv'
  BY DEF rackVars, procVars, initVars, PinsInv, Rec
<1>3. UNCHANGED rackVars /\ ChipTyped /\ WritesOwnRegister /\ BufTyped =>
        ChipTyped' /\ WritesOwnRegister' /\ BufTyped'
  BY DEF rackVars, chipVars, ChipTyped, WritesOwnRegister, BufTyped
<1>4. UNCHANGED rackVars /\ CallInv => CallInv'
  BY DEF rackVars, chipVars, busVars, procVars, initVars, CallInv, PointerSet, Delivered, Success,
         Pointed, Landed, Rec
<1>5. RackTypeOK => PinsTyped
  BY DEF RackTypeOK, PinsTyped
<1>6. PlaceInv /\ AttachedInv /\ PhaseInv /\ PinsTyped /\ PinsInv /\ [RackNext]_rackVars => PinsInv'
  BY <1>2, PinsStep
<1>7. /\ Base /\ PhaseInv' /\ ChipTyped /\ WritesOwnRegister /\ BufTyped /\ CallInv
      /\ [RackNext]_rackVars
      => ChipTyped' /\ WritesOwnRegister' /\ BufTyped' /\ CallInv'
  BY <1>3, <1>4, ChipStep, BufStep, CallStep
<1>8. /\ PlaceInv /\ BusInv /\ AttachedInv /\ PhaseInv /\ PinsInv <=> Base
      /\ Chain <=> Base /\ ChipTyped /\ WritesOwnRegister /\ BufTyped /\ CallInv
  BY DEF Base, Chain
<1> QED
  BY <1>1, <1>5, <1>6, <1>7, <1>8, PhaseAlways, RackTypeCorrect, PTL DEF RackSpec

(***************************************************************************)
(* Undisturbed, for every database, every number of scan threads and any   *)
(* failures of the bus and of the pins: an output record changes no        *)
(* register but its own, even when the write is reported as failed.        *)
(***************************************************************************)
THEOREM RackWritesOwnRegister ==
  ASSUME Undisturbed
  PROVE  RackSpec => []WritesOwnRegister
<1>1. Chain => WritesOwnRegister
  BY DEF Chain
<1> QED BY <1>1, ChainAlways, PTL

-----------------------------------------------------------------------------
(***************************************************************************)
(* The ways in which the processing of a record ends.                      *)
(***************************************************************************)
FieldsTyped ==
  /\ val \in [Records -> {Garbage, Client} \cup (Present \X Registers)]
  /\ udf \in [Records -> BOOLEAN]

Ends(t) == tpc[t] # "idle" /\ Advance(t) /\ UNCHANGED <<content, initpos>>

Fails(t) ==
  /\ Ends(t)
  /\ val' = val \/ val' = [val EXCEPT ![Rec(t)] = Garbage]
  /\ udf' = [udf EXCEPT ![Rec(t)] = TRUE]

Reads(t) ==
  /\ Ends(t)
  /\ Kind[Rec(t)] = "ai"
  /\ val' = [val EXCEPT ![Rec(t)] = Own(Rec(t))]
  /\ Own(Rec(t)) \in {Garbage} \cup (Present \X Registers)
  /\ udf' = [udf EXCEPT ![Rec(t)] = FALSE]

Acknowledges(t) ==
  /\ Ends(t)
  /\ Kind[Rec(t)] = "ao" /\ Landed(Rec(t))
  /\ UNCHANGED val
  /\ udf' = [udf EXCEPT ![Rec(t)] = FALSE]

LEMMA ReturnsEnd ==
  ASSUME Chain, FieldsTyped, NEW t \in ScanThreads, read_ai_returns(t) \/ write_ao_returns(t)
  PROVE  Fails(t) \/ Reads(t) \/ Acknowledges(t)
<1>0. tpc[t] = "access" /\ bpc[t] = "ready" /\ Ends(t)
  BY DEF read_ai_returns, write_ao_returns, Returned, Ends, chipVars, initVars
<1>1. udf' = [udf EXCEPT ![Rec(t)] = status[t] # 0]
  BY DEF read_ai_returns, write_ao_returns, ReadDone
<1>2. /\ status[t] = 0 => udf' = [udf EXCEPT ![Rec(t)] = FALSE]
      /\ status[t] # 0 => udf' = [udf EXCEPT ![Rec(t)] = TRUE]
  <2>1. status[t] = 0 => (status[t] # 0) = FALSE
    OBVIOUS
  <2>2. status[t] # 0 => (status[t] # 0) = TRUE
    OBVIOUS
  <2> QED BY <1>1, <2>1, <2>2, Zenon
<1>3. status[t] = 0 => /\ Kind[Rec(t)] = "ai" => buf[t] = Own(Rec(t))
                       /\ Kind[Rec(t)] = "ao" => Landed(Rec(t))
  BY <1>0 DEF Chain, CallInv, Delivered, Success
<1>4. CASE read_ai_returns(t)
  <2>1. /\ Kind[Rec(t)] = "ai"
        /\ val' = [val EXCEPT ![Rec(t)] = IF status[t] = 0 THEN buf[t]
                     ELSE IF Private(Rec(t)).what = "C" THEN Garbage ELSE val[Rec(t)]]
    BY <1>4 DEF read_ai_returns, ReadDone
  <2>2. CASE status[t] = 0
    <3>1. /\ val' = [val EXCEPT ![Rec(t)] = Own(Rec(t))]
          /\ Own(Rec(t)) \in {Garbage} \cup (Present \X Registers)
      BY <1>3, <2>1, <2>2 DEF Chain, BufTyped, ScanThreads
    <3> QED BY <1>0, <1>2, <2>1, <2>2, <3>1 DEF Reads
  <2>3. CASE status[t] # 0
    <3>1. val' = val \/ val' = [val EXCEPT ![Rec(t)] = Garbage]
      BY <2>1, <2>3 DEF FieldsTyped
    <3> QED BY <1>0, <1>2, <2>3, <3>1 DEF Fails
  <2> QED BY <2>2, <2>3
<1>5. CASE write_ao_returns(t)
  <2>1. Kind[Rec(t)] = "ao" /\ UNCHANGED val
    BY <1>5 DEF write_ao_returns
  <2> QED BY <1>0, <1>2, <1>3, <2>1 DEF Fails, Acknowledges
<1> QED BY <1>4, <1>5

LEMMA ErrorsEnd ==
  ASSUME NEW t \in Threads,
         \/ DispatchError(t)
         \/ \E outcome \in {"open"} : SelectPin(t, outcome)
  PROVE  Fails(t)
  BY DEF DispatchError, SelectPin, gpio_written, Fails, Ends, chipVars, initVars

\* A step in the middle of a record's processing.
Continues(t) ==
  /\ UNCHANGED <<val, udf, pos, initpos>>
  /\ tpc[t] # "idle" /\ tpc'[t] # "idle"
  /\ \A u \in Threads : u # t => tpc'[u] = tpc[u]

\* The steps of the scan threads, by what they do to the record.
LEMMA ThreadOnRecord ==
  ASSUME Chain, FieldsTyped, NEW t \in ScanThreads, ThreadStep(t)
  PROVE  \/ Process(t)
         \/ Fails(t) \/ Reads(t) \/ Acknowledges(t)
         \/ Continues(t) \/ UNCHANGED <<val, udf, pos, tpc, initpos>>
<1>0. t \in Threads /\ tpc \in [Threads -> {"idle", "select", "dispatch", "access"}]
  BY DEF ScanThreads, Chain, Base, PlaceInv
<1>1. CASE Crash(t) \/ BusControl(t)
  BY <1>1 DEF Crash, BusControl, recVars, procVars, initVars
<1>2. CASE \E n \in Returns(3) : WireWrite(t, n) \/ WireRead(t, n)
  BY <1>2 DEF WireWrite, WireRead, recVars, procVars, initVars
<1>3. CASE Dispatch(t)
  BY <1>0, <1>3 DEF Dispatch, recVars, initVars, Continues
<1>4. ASSUME NEW outcome, SelectPin(t, outcome), outcome # "open" PROVE Continues(t)
  BY <1>0, <1>4 DEF SelectPin, gpio_written, initVars, Continues
<1> QED BY <1>1, <1>2, <1>3, <1>4, ReturnsEnd, ErrorsEnd DEF ThreadStep, ScanThreads

-----------------------------------------------------------------------------
(***************************************************************************)
(* The records: what a defined VAL says of the chips.                      *)
(***************************************************************************)
InputInv == \A r \in Records : Kind[r] = "ai" /\ udf[r] = FALSE => val[r] = Own(r)

OutputInv ==
  \A r \in Records :
    Kind[r] = "ao" /\ udf[r] = FALSE /\ val[r] = Client /\ Idle(r) => Landed(r)

OnlyRecord(r) ==
  \A q \in Records : q # r => val'[q] = val[q] /\ udf'[q] = udf[q]

\* init_record_ao has read the setting, or failed to.
Settles(r) ==
  \E v, b :
    /\ val' = [val EXCEPT ![r] = v] /\ udf' = [udf EXCEPT ![r] = b]
    /\ b \in BOOLEAN /\ v \in {Garbage, Client} \cup (Present \X Registers)
    /\ b = FALSE => v # Client

LEMMA MainOnRecord ==
  ASSUME Chain, FieldsTyped, MainStep
  PROVE  /\ Initialising /\ \A t \in ScanThreads : tpc[t] = "idle" /\ tpc'[t] = "idle"
         /\ Rec(Main) \in Records
         /\ UNCHANGED content
         /\ \/ /\ UNCHANGED <<val, udf>> /\ tpc'[Main] = "idle" /\ tpc[Main] = "idle"
            \/ /\ Kind[Rec(Main)] = "ao" /\ UNCHANGED <<val, udf, initpos>>
               /\ tpc'[Main] = "access"
            \/ /\ Kind[Rec(Main)] = "ao" /\ UNCHANGED val
               /\ tpc'[Main] = "idle" /\ tpc[Main] = "idle"
               /\ udf' = [udf EXCEPT ![Rec(Main)] = @ \/ InpChar(Rec(Main)) # " "]
            \/ Kind[Rec(Main)] = "ao" /\ Settles(Rec(Main)) /\ tpc'[Main] = "idle"
<1>0. Main \in Threads /\ tpc \in [Threads -> {"idle", "select", "dispatch", "access"}]
  BY RackAssumption DEF Chain, Base, PlaceInv
<1>1. Initialising /\ \A t \in ScanThreads : tpc'[t] = tpc[t]
  BY <1>0 DEF MainStep, InitBadBus, InitBadField, init_record_ai, init_record_ao, InitAoUnread,
     InitAoRead, InitAoDone, InitStarts, Returned, procVars, Chain, Base, PlaceInv, ScanThreads
<1>2. /\ \A t \in ScanThreads : tpc[t] = "idle" /\ tpc'[t] = "idle"
      /\ Rec(Main) \in Records
  BY <1>0, <1>1, RecType DEF Chain, Base, PhaseInv
<1>3. UNCHANGED content
  BY DEF MainStep, InitBadBus, InitBadField, init_record_ai, init_record_ao, InitAoUnread,
         InitAoRead, InitAoDone, chipVars
<1>4. CASE InitBadBus \/ InitBadField \/ init_record_ai
  BY <1>1, <1>2, <1>3, <1>4
  DEF InitBadBus, InitBadField, init_record_ai, InitStarts, recVars, procVars
<1>5. CASE InitAoUnread
  BY <1>1, <1>2, <1>3, <1>5 DEF InitAoUnread, InitStarts, procVars
<1>6. CASE InitAoRead
  BY <1>0, <1>1, <1>2, <1>3, <1>6 DEF InitAoRead, InitStarts, recVars
<1>7. CASE InitAoDone
  <2> DEFINE r == Rec(Main)
             v == IF status[Main] = 0 THEN buf[Main]
                  ELSE IF Private(r).what = "C" THEN Garbage ELSE val[r]
  <2>1. /\ val' = [val EXCEPT ![r] = v]
        /\ udf' = [udf EXCEPT ![r] = status[Main] # 0]
        /\ Kind[r] = "ao" /\ tpc'[Main] = "idle"
    BY <1>0, <1>7 DEF InitAoDone, ReadDone, Returned, Chain, Base, PhaseInv
  <2>2. buf[Main] \in {Garbage} \cup (Present \X Registers)
    BY <1>0 DEF Chain, BufTyped
  <2>3. /\ v \in {Garbage, Client} \cup (Present \X Registers)
        /\ status[Main] = 0 => v # Client
    <3>1. "client" \notin Registers /\ Garbage # Client
      BY DEF Registers, Fields, Garbage, Client
    <3>2. Client \notin Present \X Registers
      BY <3>1 DEF Client
    <3> QED BY <1>2, <2>2, <3>1, <3>2 DEF FieldsTyped
  <2>4. (status[Main] # 0) \in BOOLEAN /\ ((status[Main] # 0) = FALSE => status[Main] = 0)
    BY Zenon
  <2> HIDE DEF v
  <2>5. Settles(r)
    BY <2>1, <2>3, <2>4, Zenon DEF Settles
  <2> QED BY <1>1, <1>2, <1>3, <2>1, <2>5
<1> QED BY <1>4, <1>5, <1>6, <1>7 DEF MainStep, init_record_ao

LEMMA MainOnBus ==
  ASSUME Chain, ThreadStep(Main)
  PROVE  UNCHANGED <<val, udf, pos, tpc, initpos, content>>
<1>1. tpc[Main] \notin {"select", "dispatch"} /\ ScanList[Main] = <<>>
  BY MainIsNoScanThread DEF Chain, Base
<1>2. \/ BusControl(Main)
      \/ \E n \in Returns(3) : WireWrite(Main, n) \/ WireRead(Main, n)
  BY <1>1 DEF ThreadStep, Crash, Process, SelectPin, Dispatch, DispatchError, read_ai_returns,
              write_ao_returns
<1>3. UNCHANGED <<val, udf, pos, tpc, initpos>>
  BY <1>2 DEF BusControl, WireWrite, WireRead, recVars, procVars, initVars
<1>4. UNCHANGED content
  BY <1>2, MainWriteEffect DEF BusControl, WireRead, chipVars, Chain, Base
<1> QED BY <1>3, <1>4

(***************************************************************************)
(* Which records are being processed.                                      *)
(***************************************************************************)
LEMMA IdleKept ==
  ASSUME UNCHANGED <<pos, initpos>>, \A u \in Threads : tpc'[u] # "idle" <=> tpc[u] # "idle"
  PROVE  \A q : Idle(q)' <=> Idle(q)
  BY DEF Idle, Rec

LEMMA IdleAfterEnd ==
  ASSUME PlaceInv, NEW t \in ScanThreads, Ends(t)
  PROVE  \A q : q # Rec(t) => (Idle(q)' <=> Idle(q))
<1>1. /\ tpc'[t] = "idle"
      /\ \A u \in Threads : u # t => tpc'[u] = tpc[u] /\ Rec(u)' = Rec(u)
  BY DEF Ends, Advance, PlaceInv, ScanThreads, Rec
<1> QED BY <1>1 DEF Idle, ScanThreads

LEMMA IdleAfterProcess ==
  ASSUME PlaceInv, NEW t \in ScanThreads, Process(t)
  PROVE  /\ ~Idle(Rec(t))'
         /\ \A q : q # Rec(t) => (Idle(q)' <=> Idle(q))
<1>1. /\ tpc'[t] = "select" /\ UNCHANGED <<pos, initpos>>
      /\ \A u \in Threads : u # t => tpc'[u] = tpc[u]
  BY DEF Process, PlaceInv, ScanThreads, initVars
<1>2. \A u \in Threads : Rec(u)' = Rec(u)
  BY <1>1 DEF Rec
<1>3. t \in Threads /\ tpc[t] = "idle"
  BY DEF Process, ScanThreads
<1>4. ~Idle(Rec(t))'
  BY <1>1, <1>2, <1>3 DEF Idle
<1>5. \A q : q # Rec(t) => (Idle(q)' <=> Idle(q))
  BY <1>1, <1>2, <1>3 DEF Idle
<1> QED BY <1>4, <1>5

LEMMA IdleMain ==
  ASSUME \A t \in ScanThreads : tpc[t] = "idle"
  PROVE  \A q : Idle(q) <=> (tpc[Main] # "idle" => Rec(Main) # q)
  BY RackAssumption DEF Idle, ScanThreads

LEMMA FieldsTypedStep ==
  ASSUME Chain, FieldsTyped, FlagsTyped', RackNext
  PROVE  FieldsTyped'
<1> DEFINE V == {Garbage, Client} \cup (Present \X Registers)
<1>0. \A r, v : v \in V /\ val' = [val EXCEPT ![r] = v] => val' \in [Records -> V]
  BY DEF FieldsTyped
<1>1. val' = val => val' \in [Records -> V]
  BY DEF FieldsTyped
<1>2. Garbage \in V /\ Client \in V /\ \A v \in {Garbage} \cup (Present \X Registers) : v \in V
  OBVIOUS
<1> HIDE DEF V
<1>3. CASE MainStep
  <2>1. val' = val \/ Settles(Rec(Main))
    BY <1>3, MainOnRecord
  <2>2. Settles(Rec(Main)) => \E v \in V : val' = [val EXCEPT ![Rec(Main)] = v]
    BY DEF Settles, V
  <2> QED BY <1>0, <1>1, <2>1, <2>2 DEF FieldsTyped, FlagsTyped, V
<1>4. ASSUME NEW t \in ScanThreads, ThreadStep(t) PROVE FieldsTyped'
  <2>1. \/ val' = val
        \/ \E v \in V : val' = [val EXCEPT ![Rec(t)] = v]
    BY <1>2, <1>4, ThreadOnRecord DEF Process, Fails, Reads, Acknowledges, Continues
  <2> QED BY <1>0, <1>1, <2>1 DEF FieldsTyped, FlagsTyped, V
<1>5. CASE ThreadStep(Main)
  BY <1>1, <1>5, MainOnBus DEF FieldsTyped, FlagsTyped, V
<1> QED BY <1>3, <1>4, <1>5 DEF RackNext, ScanThreads

LEMMA ProcessFields ==
  ASSUME FieldsTyped, NEW t \in ScanThreads, Rec(t) \in Records, Process(t)
  PROVE  /\ OnlyRecord(Rec(t))
         /\ Kind[Rec(t)] = "ai" => UNCHANGED <<val, udf>>
         /\ Kind[Rec(t)] = "ao" => /\ val' = [val EXCEPT ![Rec(t)] = Client]
                                   /\ udf' = [udf EXCEPT ![Rec(t)] = FALSE]
<1> DEFINE r == Rec(t)
<1>1. /\ val' = IF Kind[r] = "ao" THEN [val EXCEPT ![r] = Client] ELSE val
      /\ udf' = [udf EXCEPT ![r] = udf[r] /\ Kind[r] # "ao"]
  BY DEF Process
<1>2. CASE Kind[r] = "ai"
  <2>1. val' = val
    BY <1>1, <1>2
  <2>2. udf[r] \in BOOLEAN /\ (Kind[r] # "ao") = TRUE
    BY <1>2 DEF FieldsTyped
  <2>3. (udf[r] /\ Kind[r] # "ao") = udf[r]
    BY <2>2, Zenon
  <2>4. udf' = [udf EXCEPT ![r] = udf[r]]
    BY <1>1, <2>3, Zenon
  <2>5. udf' = udf
    BY <2>4 DEF FieldsTyped
  <2> QED BY <1>2, <2>1, <2>5 DEF OnlyRecord
<1>3. CASE Kind[r] = "ao"
  <2>1. (udf[r] /\ Kind[r] # "ao") = FALSE
    BY <1>3, Zenon
  <2>2. udf' = [udf EXCEPT ![r] = FALSE]
    BY <1>1, <2>1, Zenon
  <2>3. val' = [val EXCEPT ![r] = Client]
    BY <1>1, <1>3
  <2> QED BY <1>3, <2>2, <2>3 DEF OnlyRecord, FieldsTyped
<1> QED BY <1>2, <1>3, RackAssumption

\* A record that the step leaves alone.
LEMMA RecordFrame ==
  ASSUME InputInv, OutputInv, ContentKept, NEW q \in Records,
         val'[q] = val[q], udf'[q] = udf[q], Idle(q)' => Idle(q)
  PROVE  /\ Kind[q] = "ai" /\ udf'[q] = FALSE => val'[q] = Own(q)
         /\ Kind[q] = "ao" /\ udf'[q] = FALSE /\ val'[q] = Client /\ Idle(q)' => Landed(q)'
<1>1. Landed(q) => Landed(q)'
  BY DEF Landed, ContentKept
<1> QED BY <1>1 DEF InputInv, OutputInv

LEMMA EndFields ==
  ASSUME FieldsTyped, NEW t \in ScanThreads, Rec(t) \in Records,
         Fails(t) \/ Reads(t) \/ Acknowledges(t)
  PROVE  /\ OnlyRecord(Rec(t))
         /\ udf'[Rec(t)] = FALSE =>
              \/ Reads(t) /\ val'[Rec(t)] = Own(Rec(t))
              \/ Acknowledges(t)
<1> USE DEF FieldsTyped, OnlyRecord
<1>1. CASE Fails(t)
  BY <1>1 DEF Fails
<1>2. CASE Reads(t)
  BY <1>2 DEF Reads
<1>3. CASE Acknowledges(t)
  BY <1>3 DEF Acknowledges
<1> QED BY <1>1, <1>2, <1>3

LEMMA RecordsStep ==
  ASSUME Chain, FieldsTyped, InputInv, OutputInv, RackNext
  PROVE  InputInv' /\ OutputInv'
<1>0. ContentKept /\ PlaceInv
  BY ChipStep DEF Chain, Base
<1>1. ASSUME NEW r \in Records, OnlyRecord(r), \A q : q # r => (Idle(q)' => Idle(q)),
             Kind[r] = "ai" /\ udf'[r] = FALSE => val'[r] = Own(r),
             Kind[r] = "ao" /\ udf'[r] = FALSE /\ val'[r] = Client /\ Idle(r)' => Landed(r)'
      PROVE  InputInv' /\ OutputInv'
  <2>1. ASSUME NEW q \in Records
        PROVE  /\ Kind[q] = "ai" /\ udf'[q] = FALSE => val'[q] = Own(q)
               /\ Kind[q] = "ao" /\ udf'[q] = FALSE /\ val'[q] = Client /\ Idle(q)' => Landed(q)'
    BY <1>0, <1>1, RecordFrame DEF OnlyRecord
  <2> QED BY <2>1 DEF InputInv, OutputInv
<1>2. ASSUME UNCHANGED <<val, udf>>, \A q : Idle(q)' => Idle(q) PROVE InputInv' /\ OutputInv'
  <2>1. ASSUME NEW q \in Records
        PROVE  /\ Kind[q] = "ai" /\ udf'[q] = FALSE => val'[q] = Own(q)
               /\ Kind[q] = "ao" /\ udf'[q] = FALSE /\ val'[q] = Client /\ Idle(q)' => Landed(q)'
    BY <1>0, <1>2, RecordFrame
  <2> QED BY <2>1 DEF InputInv, OutputInv
<1>3. CASE MainStep
  <2>0. PICK r \in Records : r = Rec(Main)
    BY <1>3, MainOnRecord
  <2>1. /\ \A q : Idle(q) <=> (tpc[Main] # "idle" => r # q)
        /\ \A q : Idle(q)' <=> (tpc'[Main] # "idle" => Rec(Main)' # q)
    <3>1. /\ \A t \in ScanThreads : tpc[t] = "idle"
          /\ \A t \in ScanThreads : tpc'[t] = "idle"
      BY <1>3, MainOnRecord
    <3>2. \A q : Idle(q) <=> (tpc[Main] # "idle" => r # q)
      BY <2>0, <3>1, IdleMain
    <3>3. \A q : Idle(q)' <=> (tpc'[Main] # "idle" => Rec(Main)' # q)
      BY <3>1, RackAssumption DEF Idle, ScanThreads
    <3> QED BY <3>2, <3>3
  <2>2. CASE UNCHANGED <<val, udf>> /\ tpc'[Main] = "idle" /\ tpc[Main] = "idle"
    BY <1>2, <2>1, <2>2
  <2>3. CASE Kind[r] = "ao" /\ UNCHANGED <<val, udf, initpos>> /\ tpc'[Main] = "access"
    <3>1. Rec(Main)' = r
      BY <2>0, <2>3 DEF Rec
    <3> QED BY <1>2, <2>1, <2>3, <3>1
  <2>4. CASE /\ Kind[r] = "ao" /\ UNCHANGED val /\ tpc'[Main] = "idle" /\ tpc[Main] = "idle"
             /\ udf' = [udf EXCEPT ![r] = @ \/ InpChar(r) # " "]
    <3>1. OnlyRecord(r)
      BY <2>1, <2>4 DEF OnlyRecord, FieldsTyped
    <3>2. udf'[r] = (udf[r] \/ InpChar(r) # " ")
      BY <2>1, <2>4 DEF FieldsTyped
    <3>3. udf[r] \in BOOLEAN
      BY <2>1 DEF FieldsTyped
    <3>4. udf'[r] = FALSE => udf[r] = FALSE
      BY <3>2, <3>3, Zenon
    <3>5. Kind[r] # "ai"
      BY <2>4
    <3>6. val'[r] = Client /\ udf'[r] = FALSE /\ Idle(r) => Landed(r)'
      <4>1. Landed(r) => Landed(r)'
        BY <1>0 DEF Landed, ContentKept
      <4> QED BY <2>1, <2>4, <3>4, <4>1 DEF OutputInv
    <3> QED BY <1>1, <2>1, <2>4, <3>1, <3>5, <3>6
  <2>5. CASE Kind[r] = "ao" /\ Settles(r) /\ tpc'[Main] = "idle"
    <3>1. OnlyRecord(r)
      BY <2>1, <2>5 DEF OnlyRecord, FieldsTyped, Settles
    <3>2. udf'[r] = FALSE => val'[r] # Client
      BY <2>1, <2>5 DEF FieldsTyped, Settles
    <3> QED BY <1>1, <2>1, <2>5, <3>1, <3>2
  <2> QED BY <1>3, <2>0, <2>2, <2>3, <2>4, <2>5, MainOnRecord
<1>4. ASSUME NEW t \in ScanThreads, ThreadStep(t) PROVE InputInv' /\ OutputInv'
  <2>1. CASE UNCHANGED <<val, udf, pos, tpc, initpos>> \/ Continues(t)
    <3>1. UNCHANGED <<pos, initpos>> /\ \A u \in Threads : tpc'[u] # "idle" <=> tpc[u] # "idle"
      BY <2>1 DEF Continues
    <3> QED BY <1>2, <2>1, <3>1, IdleKept DEF Continues
  <2>2. CASE Process(t)
    <3>1. Rec(t) \in Records
      BY <1>0, <2>2, RecType DEF Process, ScanThreads
    <3>2. Rec(t)' = Rec(t)
      BY <2>2 DEF Process, Rec, initVars
    <3>3. ~Idle(Rec(t))' /\ \A q : q # Rec(t) => (Idle(q)' => Idle(q))
      BY <1>0, <2>2, IdleAfterProcess
    <3>4. OnlyRecord(Rec(t)) /\ (Kind[Rec(t)] = "ai" => UNCHANGED <<val, udf>>)
      BY <2>2, <3>1, ProcessFields
    <3>5. Kind[Rec(t)] = "ai" /\ udf'[Rec(t)] = FALSE => val'[Rec(t)] = Own(Rec(t))
      BY <3>1, <3>4 DEF InputInv
    <3> QED BY <1>1, <3>1, <3>2, <3>3, <3>4, <3>5
  <2>3. CASE Fails(t) \/ Reads(t) \/ Acknowledges(t)
    <3>0. Ends(t)
      BY <2>3 DEF Fails, Reads, Acknowledges
    <3>1. PICK r \in Records : r = Rec(t)
      BY <1>0, <3>0, AtRecord DEF Ends, ScanThreads
    <3>2. /\ OnlyRecord(r)
          /\ udf'[r] = FALSE => \/ Reads(t) /\ val'[r] = Own(r)
                                \/ Acknowledges(t)
      BY <2>3, <3>1, EndFields
    <3>3. \A q : q # r => (Idle(q)' => Idle(q))
      BY <1>0, <3>0, <3>1, IdleAfterEnd
    <3>4. /\ Acknowledges(t) => Kind[r] = "ao" /\ Landed(r)
          /\ Reads(t) => Kind[r] = "ai"
      BY <3>1 DEF Acknowledges, Reads
    <3>5. Landed(r) => Landed(r)'
      BY <1>0 DEF Landed, ContentKept
    <3> QED BY <1>1, <3>2, <3>3, <3>4, <3>5
  <2> QED BY <1>4, <2>1, <2>2, <2>3, ThreadOnRecord
<1>5. CASE ThreadStep(Main)
  BY <1>2, <1>5, MainOnBus, IdleKept
<1> QED BY <1>3, <1>4, <1>5 DEF RackNext, ScanThreads

LEMMA RecordsAlways ==
  ASSUME Undisturbed
  PROVE  RackSpec => [](Chain /\ FieldsTyped /\ InputInv /\ OutputInv)
<1>1. RackInit => FieldsTyped /\ InputInv /\ OutputInv
  BY DEF RackInit, FieldsTyped, InputInv, OutputInv
<1>2. UNCHANGED rackVars /\ FieldsTyped => FieldsTyped'
  BY DEF rackVars, recVars, FieldsTyped
<1>3. UNCHANGED rackVars /\ InputInv /\ OutputInv => InputInv' /\ OutputInv'
  BY DEF rackVars, recVars, chipVars, initVars, procVars, InputInv, OutputInv, Idle, Landed, Rec
<1>4. RackTypeOK => FlagsTyped
  BY DEF RackTypeOK, FlagsTyped
<1>5. Chain /\ FieldsTyped /\ FlagsTyped' /\ [RackNext]_rackVars => FieldsTyped'
  BY <1>2, FieldsTypedStep
<1>6. Chain /\ FieldsTyped /\ InputInv /\ OutputInv /\ [RackNext]_rackVars
        => InputInv' /\ OutputInv'
  BY <1>3, RecordsStep
<1> QED BY <1>1, <1>4, <1>5, <1>6, ChainAlways, PTL DEF RackSpec

(***************************************************************************)
(* Undisturbed, an input record that is not marked undefined shows what    *)
(* was read from its own register of its own probe.                        *)
(***************************************************************************)
THEOREM RackReadsOwnProbe ==
  ASSUME Undisturbed
  PROVE  RackSpec => []ReadsOwnProbe
<1>1. FieldsTyped /\ InputInv => ReadsOwnProbe
  <2> SUFFICES ASSUME FieldsTyped, InputInv, NEW r \in Records, Kind[r] = "ai", ~udf[r]
               PROVE  val[r] = Own(r)
    BY DEF ReadsOwnProbe
  <2>1. udf[r] \in BOOLEAN
    BY DEF FieldsTyped
  <2>2. udf[r] = FALSE
    BY <2>1, Zenon
  <2> QED BY <2>2 DEF InputInv
<1> QED BY <1>1, RecordsAlways, PTL

(***************************************************************************)
(* Undisturbed, an output that write_ao has reported as written is in the  *)
(* record's own register.                                                  *)
(***************************************************************************)
THEOREM RackAcknowledgedWriteLanded ==
  ASSUME Undisturbed
  PROVE  RackSpec => []AcknowledgedWriteLanded
<1>1. FieldsTyped /\ OutputInv => AcknowledgedWriteLanded
  <2> SUFFICES ASSUME FieldsTyped, OutputInv, NEW r \in Records, Kind[r] = "ao", Idle(r), ~udf[r],
                      val[r] = Client
               PROVE  /\ OwnProbe(r) \in Present
                      /\ content[OwnProbe(r)][RegisterOf(InpChar(r))] # None
    BY DEF AcknowledgedWriteLanded
  <2>1. udf[r] \in BOOLEAN
    BY DEF FieldsTyped
  <2>2. udf[r] = FALSE
    BY <2>1, Zenon
  <2> QED BY <2>2 DEF OutputInv, Landed, OwnReg
<1> QED BY <1>1, RecordsAlways, PTL

-----------------------------------------------------------------------------
(***************************************************************************)
(* The refinement.  A record is on one scan list only, as scanAdd puts it  *)
(* there (DbScan, OnListOfScan), and there is some record to initialise.   *)
(***************************************************************************)
OneList ==
  /\ InitOrder # <<>>
  /\ \A t, u \in Threads : t # u =>
       \A i \in DOMAIN ScanList[t], j \in DOMAIN ScanList[u] : ScanList[t][i] # ScanList[u][j]

LEMMA OwnRecord ==
  ASSUME OneList, PlaceInv, NEW t \in ScanThreads, NEW u \in Threads, u # t,
         ScanList[t] # <<>>, tpc[u] # "idle", u # Main
  PROVE  Rec(u) # Rec(t)
<1>1. \A v \in Threads : DOMAIN ScanList[v] = 1..Len(ScanList[v])
  BY RackAssumption
<1>2. /\ pos[t] \in DOMAIN ScanList[t] /\ Rec(t) = ScanList[t][pos[t]]
      /\ pos[u] \in DOMAIN ScanList[u] /\ Rec(u) = ScanList[u][pos[u]]
  BY <1>1 DEF PlaceInv, ScanThreads, Rec
<1> QED BY <1>2 DEF OneList, ScanThreads

\* While an output is processed it is not marked undefined.
ServedInv ==
  \A t \in ScanThreads : tpc[t] # "idle" /\ Kind[Rec(t)] = "ao" => udf[Rec(t)] = FALSE

LEMMA OwnWhileBusy ==
  ASSUME OneList, Chain, NEW t \in ScanThreads, NEW u \in ScanThreads, u # t,
         tpc[t] # "idle", tpc[u] # "idle"
  PROVE  Rec(u) # Rec(t) /\ Rec(u) \in Records
<1>1. ScanList[t] # <<>> /\ PlaceInv /\ u \in Threads /\ u # Main
  BY DEF Chain, Base, PlaceInv, ScanThreads
<1> QED BY <1>1, OwnRecord, AtRecord

LEMMA ServedStep ==
  ASSUME OneList, Chain, FieldsTyped, ServedInv, RackNext
  PROVE  ServedInv'
<1>0. PlaceInv
  BY DEF Chain, Base
<1>1. CASE MainStep
  <2>1. \A t \in ScanThreads : tpc'[t] = "idle"
    BY <1>1, MainOnRecord
  <2> QED BY <2>1 DEF ServedInv
<1>2. ASSUME NEW t \in ScanThreads, ThreadStep(t) PROVE ServedInv'
  <2>1. CASE UNCHANGED <<val, udf, pos, tpc, initpos>>
    BY <2>1 DEF ServedInv, Rec
  <2>2. CASE Continues(t)
    <3>1. \A u \in ScanThreads : Rec(u)' = Rec(u) /\ (tpc'[u] # "idle" => tpc[u] # "idle")
      BY <2>2 DEF Continues, Rec, ScanThreads
    <3>2. UNCHANGED udf
      BY <2>2 DEF Continues
    <3> QED BY <3>1, <3>2 DEF ServedInv
  <2>3. CASE Process(t)
    <3>1. Rec(t) \in Records
      BY <1>0, <2>3, RecType DEF Process, ScanThreads
    <3>2. \A u \in ScanThreads : Rec(u)' = Rec(u)
      BY <2>3 DEF Process, Rec, initVars
    <3>3. /\ OnlyRecord(Rec(t))
          /\ Kind[Rec(t)] = "ao" => udf'[Rec(t)] = FALSE
      <4>1. OnlyRecord(Rec(t)) /\ (Kind[Rec(t)] = "ao" => udf' = [udf EXCEPT ![Rec(t)] = FALSE])
        BY <2>3, <3>1, ProcessFields
      <4> QED BY <3>1, <4>1 DEF FieldsTyped
    <3>4. ASSUME NEW u \in ScanThreads, u # t, tpc'[u] # "idle", Kind[Rec(u)] = "ao"
          PROVE  udf'[Rec(u)] = FALSE
      <4>1. tpc[u] # "idle" /\ ScanList[t] # <<>>
        BY <1>0, <2>3, <3>4 DEF Process, PlaceInv, ScanThreads
      <4>2. Rec(u) # Rec(t) /\ Rec(u) \in Records
        BY <1>0, <3>4, <4>1, OwnRecord, AtRecord DEF ScanThreads
      <4> QED BY <3>3, <3>4, <4>1, <4>2 DEF ServedInv, OnlyRecord
    <3> QED BY <3>2, <3>3, <3>4 DEF ServedInv
  <2>4. CASE Fails(t) \/ Reads(t) \/ Acknowledges(t)
    <3>0. Ends(t)
      BY <2>4 DEF Fails, Reads, Acknowledges
    <3>1. /\ tpc'[t] = "idle" /\ tpc[t] # "idle"
          /\ \A u \in ScanThreads : u # t => Rec(u)' = Rec(u) /\ tpc'[u] = tpc[u]
      BY <1>0, <3>0 DEF Ends, Advance, Rec, PlaceInv, ScanThreads
    <3>2. Rec(t) \in Records
      BY <1>0, <3>1, AtRecord DEF ScanThreads
    <3>3. OnlyRecord(Rec(t))
      BY <2>4, <3>2, EndFields
    <3>4. ASSUME NEW u \in ScanThreads, u # t, tpc[u] # "idle", Kind[Rec(u)] = "ao"
          PROVE  udf'[Rec(u)] = FALSE
      BY <3>1, <3>3, <3>4, OwnWhileBusy DEF ServedInv, OnlyRecord
    <3> QED BY <3>1, <3>4 DEF ServedInv
  <2> QED BY <1>2, <2>1, <2>2, <2>3, <2>4, ThreadOnRecord
<1>3. CASE ThreadStep(Main)
  <2>1. UNCHANGED <<val, udf, pos, tpc, initpos>>
    BY <1>3, MainOnBus
  <2> QED BY <2>1 DEF ServedInv, Rec
<1> QED BY <1>1, <1>2, <1>3 DEF RackNext, ScanThreads

Busy == {r \in Records : ~Idle(r)}

\* Scan threads write to the chips in the middle of their processing only.
LEMMA ContentOnRecord ==
  ASSUME Chain, NEW t \in ScanThreads, ThreadStep(t)
  PROVE  \/ UNCHANGED content
         \/ /\ UNCHANGED <<val, udf, pos, tpc, initpos>> /\ tpc[t] = "access"
            /\ Kind[Rec(t)] = "ao" /\ Stores(Rec(t))
<1>1. CASE \E n \in Returns(3) : WireWrite(t, n)
  <2>1. PICK n : WireWrite(t, n)
    BY <1>1
  <2>2. bpc[t] = "xfer" /\ (UNCHANGED content \/ (Kind[Rec(t)] = "ao" /\ Stores(Rec(t))))
    BY <2>1, WriteEffect DEF Chain
  <2>3. UNCHANGED <<val, udf, pos, tpc, initpos>> /\ tpc[t] = "access"
    BY <2>1, <2>2 DEF WireWrite, recVars, procVars, initVars, Chain, Base, PhaseInv, ScanThreads
  <2> QED BY <2>2, <2>3
<1>2. CASE ~\E n \in Returns(3) : WireWrite(t, n)
  BY <1>2 DEF ThreadStep, Crash, Process, SelectPin, Dispatch, DispatchError, read_ai_returns,
              write_ao_returns, BusControl, WireRead, chipVars
<1> QED BY <1>1, <1>2

LEMMA BusyAfter ==
  ASSUME OneList, Chain, NEW t \in ScanThreads
  PROVE  /\ Process(t) => /\ ~Initialising /\ ~Initialising' /\ Rec(t) \in Records \ Busy
                          /\ Busy' = Busy \cup {Rec(t)}
         /\ Ends(t) => /\ ~Initialising /\ ~Initialising' /\ Rec(t) \in Busy
                       /\ Busy' = Busy \ {Rec(t)}
<1>0. PlaceInv /\ t \in Threads /\ t # Main
  BY DEF Chain, Base, ScanThreads
<1>1. ASSUME Process(t)
      PROVE  /\ ~Initialising /\ ~Initialising' /\ Rec(t) \in Records \ Busy
             /\ Busy' = Busy \cup {Rec(t)}
  <2>1. ~Initialising /\ ~Initialising' /\ tpc[t] = "idle" /\ ScanList[t] # <<>>
    BY <1>1 DEF Process, Initialising, initVars
  <2>2. PICK r \in Records : r = Rec(t)
    BY <1>0, <2>1, RecType
  <2>3. Idle(r)
    <3>1. tpc[Main] = "idle"
      BY <1>0, <2>1 DEF PlaceInv
    <3> QED BY <1>0, <2>1, <2>2, <3>1, OwnRecord DEF Idle
  <2>4. Rec(t)' = r
    BY <1>1, <2>2 DEF Process, Rec, initVars
  <2>5. ~Idle(r)' /\ \A q : q # r => (Idle(q)' <=> Idle(q))
    BY <1>0, <1>1, <2>2, <2>4, IdleAfterProcess
  <2> QED BY <2>1, <2>2, <2>3, <2>5 DEF Busy
<1>2. ASSUME Ends(t)
      PROVE  /\ ~Initialising /\ ~Initialising' /\ Rec(t) \in Busy
             /\ Busy' = Busy \ {Rec(t)}
  <2>1. ~Initialising /\ ~Initialising' /\ tpc[t] # "idle" /\ tpc'[t] = "idle"
    BY <1>0, <1>2 DEF Ends, Initialising, Advance, Chain, Base, PhaseInv, PlaceInv
  <2>2. PICK r \in Records : r = Rec(t)
    BY <1>0, <2>1, AtRecord
  <2>3. ~Idle(r)
    BY <1>0, <2>1, <2>2 DEF Idle
  <2>4. \A q : q # r => (Idle(q)' <=> Idle(q))
    BY <1>0, <1>2, <2>2, IdleAfterEnd
  <2>5. Idle(r)'
    <3>1. tpc[Main] = "idle" /\ tpc'[Main] = "idle"
      BY <1>0, <1>2, <2>1, RackAssumption DEF Ends, Advance, PlaceInv
    <3>2. \A u \in Threads : u # t => tpc'[u] = tpc[u] /\ Rec(u)' = Rec(u)
      BY <1>0, <1>2 DEF Ends, Advance, Rec, PlaceInv
    <3>3. \A u \in ScanThreads : u # t /\ tpc[u] # "idle" => Rec(u) # r
      BY <2>1, <2>2, OwnWhileBusy
    <3> QED BY <2>1, <3>1, <3>2, <3>3 DEF Idle, ScanThreads
  <2> QED BY <2>1, <2>2, <2>3, <2>4, <2>5 DEF Busy
<1> QED BY <1>1, <1>2

LEMMA ReadoutStep ==
  ASSUME OneList, Chain, FieldsTyped, ServedInv, RackNext
  PROVE  [Readout!ReadoutNext]_(Readout!readoutVars)
<1>0. /\ PlaceInv
      /\ \A r \in Records : Kind[r] \in {"ai", "ao"}
  BY RackAssumption DEF Chain, Base
<1>1. CASE MainStep
  <2>0. PICK r \in Records : r = Rec(Main)
    BY <1>1, MainOnRecord
  <2>1. /\ Initialising /\ UNCHANGED content
        /\ \A t \in ScanThreads : tpc[t] = "idle" /\ tpc'[t] = "idle"
    BY <1>1, MainOnRecord
  <2>2. /\ \A q : Idle(q) <=> (tpc[Main] # "idle" => r # q)
        /\ \A q : Idle(q)' <=> (tpc'[Main] # "idle" => Rec(Main)' # q)
    <3>1. \A q : Idle(q) <=> (tpc[Main] # "idle" => r # q)
      BY <2>0, <2>1, IdleMain
    <3>2. \A q : Idle(q)' <=> (tpc'[Main] # "idle" => Rec(Main)' # q)
      BY <2>1, RackAssumption DEF Idle, ScanThreads
    <3> QED BY <3>1, <3>2
  <2>3. tpc'[Main] = "idle" => Busy' = {}
    BY <2>2 DEF Busy
  <2>4. CASE UNCHANGED <<val, udf>> /\ tpc'[Main] = "idle" /\ tpc[Main] = "idle"
    <3>1. Busy = {} /\ Busy' = {}
      BY <2>2, <2>3, <2>4 DEF Busy
    <3>2. CASE Initialising'
      BY <2>1, <2>4, <3>1, <3>2 DEF Readout!readoutVars, Busy
    <3>3. CASE ~Initialising'
      <4>1. Readout!Start
        BY <2>1, <2>4, <3>1, <3>3 DEF Readout!Start, Busy
      <4> QED BY <4>1 DEF Readout!ReadoutNext
    <3> QED BY <3>2, <3>3
  <2>5. ASSUME Kind[r] = "ao", OnlyRecord(r), ~Initialising' => Busy' = {}, Busy' \subseteq {r}
        PROVE  Readout!ReadoutNext
    <3>1. Readout!Prepare(r)
      BY <2>1, <2>5 DEF Readout!Prepare, Busy, OnlyRecord
    <3> QED BY <3>1 DEF Readout!ReadoutNext
  <2>6. CASE Kind[r] = "ao" /\ UNCHANGED <<val, udf, initpos>> /\ tpc'[Main] = "access"
    <3>1. Rec(Main)' = r /\ Initialising' /\ OnlyRecord(r)
      BY <2>0, <2>1, <2>6 DEF Rec, Initialising, OnlyRecord
    <3>2. Busy' \subseteq {r}
      BY <2>2, <3>1 DEF Busy
    <3> QED BY <2>5, <2>6, <3>1, <3>2
  <2>7. CASE /\ Kind[r] = "ao" /\ UNCHANGED val /\ tpc'[Main] = "idle" /\ tpc[Main] = "idle"
             /\ udf' = [udf EXCEPT ![r] = @ \/ InpChar(r) # " "]
    <3>1. OnlyRecord(r)
      BY <2>7 DEF OnlyRecord, FieldsTyped
    <3> QED BY <2>3, <2>5, <2>7, <3>1
  <2>8. CASE Kind[r] = "ao" /\ Settles(r) /\ tpc'[Main] = "idle"
    <3>1. OnlyRecord(r)
      BY <2>8 DEF OnlyRecord, FieldsTyped, Settles
    <3> QED BY <2>3, <2>5, <2>8, <3>1
  <2> QED BY <1>1, <2>0, <2>4, <2>6, <2>7, <2>8, MainOnRecord
<1>2. ASSUME NEW t \in ScanThreads, ThreadStep(t)
      PROVE  [Readout!ReadoutNext]_(Readout!readoutVars)
  <2>1. CASE Process(t)
    <3>1. PICK r \in Records : r = Rec(t)
      BY <2>1, BusyAfter
    <3>2. /\ ~Initialising /\ ~Initialising' /\ r \notin Busy /\ Busy' = Busy \cup {r}
      BY <2>1, <3>1, BusyAfter
    <3>3. UNCHANGED content
      BY <2>1 DEF Process, chipVars
    <3>4. /\ Kind[r] = "ai" => UNCHANGED <<val, udf>>
          /\ Kind[r] = "ao" => /\ val' = [val EXCEPT ![r] = Client]
                               /\ udf' = [udf EXCEPT ![r] = FALSE]
      BY <2>1, <3>1, ProcessFields
    <3>5. Readout!Begin(r)
      BY <1>0, <3>2, <3>3, <3>4 DEF Readout!Begin, Busy
    <3> QED BY <3>5 DEF Readout!ReadoutNext
  <2>2. CASE Fails(t) \/ Reads(t) \/ Acknowledges(t)
    <3>0. Ends(t)
      BY <2>2 DEF Fails, Reads, Acknowledges
    <3>1. PICK r \in Records : r = Rec(t)
      BY <3>0, BusyAfter DEF Busy
    <3>2. Readout!Finish(r)
      <4>1. ~Initialising /\ ~Initialising' /\ r \in Busy /\ Busy' = Busy \ {r}
        BY <3>0, <3>1, BusyAfter
      <4>2. UNCHANGED content
        BY <3>0 DEF Ends
      <4> QED BY <4>1, <4>2 DEF Readout!Finish, Busy
    <3>3. CASE Fails(t)
      <4>1. Readout!Fail(r)
        BY <3>1, <3>2, <3>3 DEF Fails, Readout!Fail
      <4> QED BY <4>1 DEF Readout!ReadoutNext
    <3>4. CASE Reads(t)
      <4>1. Readout!Read(r)
        BY <3>1, <3>2, <3>4 DEF Reads, Readout!Read
      <4> QED BY <4>1 DEF Readout!ReadoutNext
    <3>5. CASE Acknowledges(t)
      <4>1. udf[r] = FALSE
        BY <3>0, <3>1, <3>5 DEF Acknowledges, Ends, ServedInv
      <4>2. UNCHANGED <<val, udf>>
        BY <3>1, <3>5, <4>1 DEF Acknowledges, FieldsTyped
      <4>3. Own(r)[1] = OwnProbe(r) /\ Own(r)[2] = OwnReg(r)
        BY DEF Own, OwnReg
      <4>4. Kind[r] = "ao" /\ content[Own(r)[1]][Own(r)[2]] # None
        BY <3>1, <3>5, <4>3 DEF Acknowledges, Landed
      <4>5. Readout!Acknowledge(r)
        BY <3>2, <4>2, <4>4 DEF Readout!Acknowledge
      <4> QED BY <4>5 DEF Readout!ReadoutNext
    <3> QED BY <2>2, <3>3, <3>4, <3>5
  <2>3. CASE Continues(t) \/ UNCHANGED <<val, udf, pos, tpc, initpos>>
    <3>1. /\ UNCHANGED <<val, udf, pos, initpos>>
          /\ \A u \in Threads : tpc'[u] # "idle" <=> tpc[u] # "idle"
      BY <2>3 DEF Continues
    <3>2. Busy' = Busy /\ Initialising' = Initialising
      BY <3>1, IdleKept DEF Busy, Initialising
    <3>3. CASE UNCHANGED content
      BY <3>1, <3>2, <3>3 DEF Readout!readoutVars, Busy
    <3>4. CASE tpc[t] = "access" /\ Kind[Rec(t)] = "ao" /\ Stores(Rec(t))
      <4>1. PICK r \in Records : r = Rec(t)
        BY <1>0, <3>4, AtRecord DEF ScanThreads
      <4>2. r \in Busy /\ ~Initialising
        BY <3>4, <4>1 DEF Busy, Idle, ScanThreads, Chain, Base, PhaseInv
      <4>3. Own(r)[1] = OwnProbe(r) /\ Own(r)[2] = OwnReg(r)
        BY DEF Own, OwnReg
      <4>4. content' = [content EXCEPT ![Own(r)[1]][Own(r)[2]] = r]
        BY <3>4, <4>1, <4>3 DEF Stores
      <4>5. Readout!Write(r)
        BY <3>1, <3>2, <3>4, <4>1, <4>2, <4>4 DEF Readout!Write, Busy
      <4> QED BY <4>5 DEF Readout!ReadoutNext
    <3> QED BY <1>2, <3>3, <3>4, ContentOnRecord
  <2> QED BY <1>2, <2>1, <2>2, <2>3, ThreadOnRecord
<1>3. CASE ThreadStep(Main)
  <2>1. UNCHANGED <<val, udf, pos, tpc, initpos, content>>
    BY <1>3, MainOnBus
  <2>2. Busy' = Busy /\ Initialising' = Initialising
    BY <2>1, IdleKept DEF Busy, Initialising
  <2> QED BY <2>1, <2>2 DEF Readout!readoutVars, Busy
<1> QED BY <1>1, <1>2, <1>3 DEF RackNext, ScanThreads

(***************************************************************************)
(* The refinement: undisturbed, with every record on one scan list, the    *)
(* scan threads, the switch, the bus and the chips behave to each record   *)
(* as ProbeReadout says, whatever fails.                                   *)
(***************************************************************************)
THEOREM RackImplementsReadout ==
  ASSUME Undisturbed, OneList
  PROVE  RackSpec => ImplementsReadout
<1>1. RackInit => Readout!ReadoutInit
  <2> SUFFICES ASSUME RackInit PROVE Readout!ReadoutInit
    OBVIOUS
  <2>1. Initialising
    <3>1. Len(InitOrder) \in Nat /\ Len(InitOrder) # 0
      BY RackAssumption DEF OneList
    <3> QED BY <3>1 DEF RackInit, Initialising
  <2>2. Busy = {}
    BY DEF RackInit, Busy, Idle
  <2> QED BY <2>1, <2>2 DEF RackInit, Readout!ReadoutInit, Busy
<1>2. RackInit => ServedInv
  BY DEF RackInit, ServedInv, ScanThreads
<1>3. UNCHANGED rackVars /\ ServedInv => ServedInv'
  BY DEF rackVars, recVars, initVars, procVars, ServedInv, Rec
<1>4. Chain /\ FieldsTyped /\ ServedInv /\ [RackNext]_rackVars => ServedInv'
  BY <1>3, ServedStep
<1>5. UNCHANGED rackVars => UNCHANGED Readout!readoutVars
  BY DEF rackVars, recVars, initVars, procVars, chipVars, Readout!readoutVars, Idle, Rec,
         Initialising
<1>6. Chain /\ FieldsTyped /\ ServedInv /\ [RackNext]_rackVars
        => [Readout!ReadoutNext]_(Readout!readoutVars)
  BY <1>5, ReadoutStep
<1> QED
  BY <1>1, <1>2, <1>4, <1>6, RecordsAlways, PTL DEF RackSpec, ImplementsReadout, Readout!ReadoutSpec

=============================================================================
