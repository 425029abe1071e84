--------------------------- MODULE RackTempProofs ---------------------------
(* For any database, any number of scan threads and any failures: the      *)
(* device support uses the bus as dev_i2c.c requires, and does not crash   *)
(* if its records were initialised.  First, the pins' paths of dev_gpio.c. *)
EXTENDS RackTemp, I2cBusProofs

(***************************************************************************)
(* The digits gpio_get_path writes for a number of up to three digits.     *)
(***************************************************************************)
LEMMA DigitsCorrect ==
  ASSUME NEW n \in 0..999
  PROVE  /\ Denotes(Digits(n)) = n
         /\ Canonical(Digits(n))
         /\ Len(Digits(n)) \in 1..3
<1>1. CASE n < 10
  <2>1. Digits(n) = <<n>>
    BY <1>1 DEF Digits
  <2> QED BY <1>1, <2>1 DEF Denotes, Canonical
<1>2. CASE n >= 10 /\ n < 100
  <2>1. Digits(n) = <<n \div 10, n % 10>>
    BY <1>2 DEF Digits
  <2>2. /\ n \div 10 \in 1..9
        /\ n % 10 \in 0..9
        /\ 10 * (n \div 10) + (n % 10) = n
    BY <1>2
  <2> QED BY <2>1, <2>2 DEF Denotes, Canonical
<1>3. CASE n >= 100
  <2>1. Digits(n) = <<n \div 100, (n \div 10) % 10, n % 10>>
    BY <1>3 DEF Digits
  <2>2. /\ n \div 100 \in 1..9
        /\ (n \div 10) % 10 \in 0..9
        /\ n % 10 \in 0..9
        /\ 100 * (n \div 100) + 10 * ((n \div 10) % 10) + (n % 10) = n
    BY <1>3
  <2> QED BY <2>1, <2>2 DEF Denotes, Canonical
<1> QED BY <1>1, <1>2, <1>3

(***************************************************************************)
(* For every pin number, value name and buffer size: a path that           *)
(* gpio_get_path returns names exactly the pin asked for, in the kernel's  *)
(* spelling, and fits the buffer.                                          *)
(***************************************************************************)
THEOREM PathCorrect ==
  ASSUME NEW n \in Int, NEW vlen \in Nat, NEW buffsize \in Nat
  PROVE  PathNamesPin(n, vlen, buffsize)
<1>1. CASE n \in 0..999 /\ buffsize >= GPIO_PREFIX_LEN + vlen + 5
  <2>1. gpio_get_path(n, vlen, buffsize) = [status |-> 0, digits |-> Digits(n)]
    BY <1>1 DEF gpio_get_path, GPIO_PREFIX_LEN
  <2>2. /\ Denotes(Digits(n)) = n
        /\ Canonical(Digits(n))
        /\ Len(Digits(n)) \in 1..3
    BY <1>1, DigitsCorrect
  <2>3. (GPIO_PREFIX_LEN - 1) + Len(Digits(n)) + 1 + vlen + 1 <= buffsize
    <3>1. \A k \in 1..3 : (GPIO_PREFIX_LEN - 1) + k + 1 + vlen + 1 <= buffsize
      BY <1>1 DEF GPIO_PREFIX_LEN
    <3> QED BY <2>2, <3>1, Zenon
  <2>4. gpio_get_path(n, vlen, buffsize).digits = Digits(n)
    BY <2>1
  <2> QED BY <2>2, <2>3, <2>4 DEF PathNamesPin
<1>2. CASE ~(n \in 0..999 /\ buffsize >= GPIO_PREFIX_LEN + vlen + 5)
  <2>1. gpio_get_path(n, vlen, buffsize).status = -1
    BY <1>2 DEF gpio_get_path, GPIO_PREFIX_LEN
  <2> QED BY <2>1 DEF PathNamesPin
<1> QED BY <1>1, <1>2

-----------------------------------------------------------------------------
(***************************************************************************)
(* The slots records share.                                                *)
(***************************************************************************)
LEMMA SlotType ==
  ASSUME NEW r \in Records, ParseOK(r)
  PROVE  Slot(r) \in Slots /\ Slot(r) \in Nat
<1>1. Inp[r].value \in Nat
  BY RackAssumption DEF ParseOK
<1>2. NCH_RACKTEMP = 64
  BY DEF NCH_RACKTEMP, MAX_ISTUB, MAX_DS75_ADDRESS
<1>3. Slot(r) \in Slots
  BY DEF Slots
<1>4. Slot(r) \in Nat
  BY <1>1, <1>2 DEF Slot
<1> QED BY <1>3, <1>4

LEMMA NullIsNoSlot == NULL \notin Slots
<1>1. \A r \in {q \in Records : ParseOK(q)} : Slot(r) # NULL
  BY SlotType DEF NULL
<1> QED BY <1>1 DEF Slots

Attached(r) == [address |-> Inp[r].value, what |-> InpChar(r)]

SlotData == {Attached(r) : r \in {q \in Records : ParseOK(q)}} \cup {Unset}

(***************************************************************************)
(* Who is where: a scan thread that processes a record has a list, and the *)
(* record has its slot; Main only ever reads an output's setting.          *)
(***************************************************************************)
PlaceInv ==
  /\ private_data \in [Slots -> SlotData]
  /\ dpvt \in [Records -> Slots \cup {NULL}]
  /\ initpos \in 1..(Len(InitOrder) + 1)
  /\ pos \in [Threads -> Nat]
  /\ \A t \in Threads : ScanList[t] # <<>> => pos[t] \in 1..Len(ScanList[t])
  /\ tpc \in [Threads -> {"idle", "select", "dispatch", "access"}]
  /\ tpc[Main] \in {"idle", "access"}
  /\ tpc[Main] = "access" => Initialising
  /\ \A t \in Threads \ {Main} :
       tpc[t] # "idle" => ScanList[t] # <<>> /\ dpvt[Rec(t)] # NULL

LEMMA RecType ==
  ASSUME PlaceInv, NEW t \in Threads
  PROVE  /\ t # Main /\ ScanList[t] # <<>> => Rec(t) \in Records
         /\ t = Main /\ Initialising => Rec(t) \in Records
<1>1. CASE t # Main /\ ScanList[t] # <<>>
  <2>1. ScanList[t] \in Seq(Records) /\ pos[t] \in 1..Len(ScanList[t])
    BY <1>1, RackAssumption DEF PlaceInv
  <2> QED BY <1>1, <2>1 DEF Rec
<1>2. CASE t = Main /\ Initialising
  <2>1. InitOrder \in Seq(Records) /\ initpos \in 1..Len(InitOrder)
    BY <1>2, RackAssumption DEF PlaceInv, Initialising
  <2> QED BY <1>2, <2>1 DEF Rec
<1> QED BY <1>1, <1>2

LEMMA PlaceInit == RackInit => PlaceInv
<1> SUFFICES ASSUME RackInit PROVE PlaceInv
  OBVIOUS
<1>1. Unset \in SlotData
  BY DEF SlotData
<1>2. private_data \in [Slots -> SlotData] /\ dpvt \in [Records -> Slots \cup {NULL}]
  BY <1>1 DEF RackInit
<1>3. Len(InitOrder) \in Nat /\ initpos \in 1..(Len(InitOrder) + 1)
  BY RackAssumption DEF RackInit
<1>4. \A t \in Threads : ScanList[t] # <<>> => 1 \in 1..Len(ScanList[t])
  <2>1. \A s \in Seq(Records) : s # <<>> => 1 \in 1..Len(s)
    OBVIOUS
  <2> QED BY <2>1, RackAssumption
<1> QED BY <1>2, <1>3, <1>4, RackAssumption DEF RackInit, PlaceInv


-----------------------------------------------------------------------------
(***************************************************************************)
(* Steps of Main.                                                          *)
(***************************************************************************)
LEMMA AttachPlace ==
  ASSUME PlaceInv, NEW r \in Records, Attach(r)
  PROVE  /\ private_data' \in [Slots -> SlotData]
         /\ dpvt' \in [Records -> Slots \cup {NULL}]
         /\ \A q \in Records : dpvt[q] # NULL => dpvt'[q] # NULL
         /\ dpvt'[r] # NULL
<1>1. ParseOK(r) /\ Slot(r) \in Slots /\ Slot(r) # NULL
  BY SlotType, NullIsNoSlot DEF Attach
<1>2. Attached(r) \in SlotData
  BY <1>1 DEF SlotData
<1>3. private_data' \in [Slots -> SlotData]
  BY <1>1, <1>2 DEF Attach, PlaceInv, Attached
<1>4. dpvt' = [dpvt EXCEPT ![r] = Slot(r)]
  BY DEF Attach
<1> QED BY <1>1, <1>3, <1>4 DEF PlaceInv

\* Whatever else a step does, these facts about it are enough.
LEMMA MainPlace ==
  ASSUME PlaceInv,
         private_data' \in [Slots -> SlotData],
         dpvt' \in [Records -> Slots \cup {NULL}],
         \A q \in Records : dpvt[q] # NULL => dpvt'[q] # NULL,
         Initialising,
         \/ initpos' = initpos + 1 /\ tpc' = [tpc EXCEPT ![Main] = "idle"]
         \/ initpos' = initpos /\ tpc' = [tpc EXCEPT ![Main] = "access"],
         UNCHANGED pos
  PROVE  PlaceInv'
<1>1. Len(InitOrder) \in Nat /\ Main \in Threads
  BY RackAssumption
<1>2. initpos' \in 1..(Len(InitOrder) + 1) /\ (tpc'[Main] = "access" => Initialising')
  BY <1>1 DEF PlaceInv, Initialising
<1>3. /\ tpc' \in [Threads -> {"idle", "select", "dispatch", "access"}]
      /\ tpc'[Main] \in {"idle", "access"}
      /\ \A t \in Threads \ {Main} : tpc'[t] = tpc[t]
  BY <1>1 DEF PlaceInv
<1>4. ASSUME NEW t \in Threads \ {Main}, tpc'[t] # "idle"
      PROVE  ScanList[t] # <<>> /\ dpvt'[Rec(t)'] # NULL
  <2>1. ScanList[t] # <<>> /\ dpvt[Rec(t)] # NULL
    BY <1>3, <1>4 DEF PlaceInv
  <2>2. Rec(t)' = Rec(t) /\ Rec(t) \in Records
    BY <2>1, RecType DEF Rec
  <2> QED BY <2>1, <2>2
<1> QED BY <1>2, <1>3, <1>4 DEF PlaceInv

LEMMA MainStepPlace ==
  ASSUME PlaceInv, MainStep
  PROVE  PlaceInv'
<1>0. Main \in Threads /\ tpc \in [Threads -> {"idle", "select", "dispatch", "access"}]
  BY RackAssumption DEF PlaceInv
<1>1. CASE InitBadBus \/ InitBadField
  <2>1. /\ UNCHANGED <<private_data, dpvt, pos, tpc>> /\ tpc[Main] = "idle"
        /\ initpos' = initpos + 1 /\ Initialising
    BY <1>1 DEF InitBadBus, InitBadField, InitStarts, InitEnds, procVars
  <2>2. tpc' = [tpc EXCEPT ![Main] = "idle"]
    BY <1>0, <2>1
  <2> QED BY <2>1, <2>2, MainPlace DEF PlaceInv
<1>2. CASE init_record_ai \/ InitAoUnread
  <2>1. /\ Attach(Rec(Main)) /\ UNCHANGED <<pos, tpc>> /\ tpc[Main] = "idle"
        /\ initpos' = initpos + 1 /\ Initialising
    BY <1>2 DEF init_record_ai, InitAoUnread, InitStarts, InitEnds, procVars
  <2>2. tpc' = [tpc EXCEPT ![Main] = "idle"]
    BY <1>0, <2>1
  <2>3. Rec(Main) \in Records
    BY <1>0, <2>1, RecType
  <2> QED BY <2>1, <2>2, <2>3, AttachPlace, MainPlace
<1>3. CASE InitAoRead
  <2>1. /\ Attach(Rec(Main)) /\ UNCHANGED <<pos, initpos>> /\ Initialising
        /\ tpc' = [tpc EXCEPT ![Main] = "access"]
    BY <1>3 DEF InitAoRead, InitStarts
  <2>2. Rec(Main) \in Records
    BY <1>0, <2>1, RecType
  <2> QED BY <2>1, <2>2, AttachPlace, MainPlace
<1>4. CASE InitAoDone
  <2>1. /\ UNCHANGED <<private_data, dpvt, pos>> /\ tpc[Main] = "access"
        /\ tpc' = [tpc EXCEPT ![Main] = "idle"] /\ initpos' = initpos + 1
    BY <1>4 DEF InitAoDone, InitEnds, Returned
  <2>2. Initialising
    BY <2>1 DEF PlaceInv
  <2> QED BY <2>1, <2>2, MainPlace DEF PlaceInv
<1> QED BY <1>1, <1>2, <1>3, <1>4 DEF MainStep, init_record_ao


-----------------------------------------------------------------------------
(***************************************************************************)
(* Steps of the scan threads: on to another place with the same record, or *)
(* on to the next record of the list.                                      *)
(***************************************************************************)
StaysWithRecord(t) ==
  /\ UNCHANGED <<initVars, pos>>
  /\ \E place \in {"select", "dispatch", "access"} : tpc' = [tpc EXCEPT ![t] = place]

LEMMA StayPlace ==
  ASSUME PlaceInv, NEW t \in Threads \ {Main}, StaysWithRecord(t),
         ScanList[t] # <<>>, dpvt[Rec(t)] # NULL
  PROVE  PlaceInv'
<1>1. UNCHANGED <<private_data, dpvt, initpos, pos>> /\ \A u \in Threads : Rec(u)' = Rec(u)
  BY DEF StaysWithRecord, initVars, Rec
<1>2. /\ tpc' \in [Threads -> {"idle", "select", "dispatch", "access"}]
      /\ \A u \in Threads \ {t} : tpc'[u] = tpc[u]
  BY DEF StaysWithRecord, PlaceInv
<1>3. Initialising' = Initialising
  BY <1>1 DEF Initialising
<1> QED BY <1>1, <1>2, <1>3, RackAssumption DEF PlaceInv

LEMMA AdvancePlace ==
  ASSUME PlaceInv, NEW t \in Threads \ {Main}, Advance(t), UNCHANGED initVars,
         ScanList[t] # <<>>
  PROVE  PlaceInv'
<1>1. /\ UNCHANGED <<private_data, dpvt, initpos>>
      /\ \A u \in Threads \ {t} : pos'[u] = pos[u] /\ tpc'[u] = tpc[u] /\ Rec(u)' = Rec(u)
  BY DEF Advance, initVars, Rec, PlaceInv
<1>2. Len(ScanList[t]) \in Nat /\ pos[t] \in 1..Len(ScanList[t])
  BY RackAssumption DEF PlaceInv
<1>3. pos' \in [Threads -> Nat] /\ pos'[t] \in 1..Len(ScanList[t])
  BY <1>2 DEF Advance, PlaceInv
<1>4. /\ tpc' \in [Threads -> {"idle", "select", "dispatch", "access"}]
      /\ tpc'[t] = "idle"
  BY DEF Advance, PlaceInv
<1>5. Initialising' = Initialising
  BY <1>1 DEF Initialising
<1> QED BY <1>1, <1>3, <1>4, <1>5, RackAssumption DEF PlaceInv

LEMMA StutterPlace ==
  ASSUME PlaceInv, UNCHANGED <<initVars, procVars>>
  PROVE  PlaceInv'
<1>1. Initialising' = Initialising /\ \A u \in Threads : Rec(u)' = Rec(u)
  BY DEF Initialising, Rec, initVars, procVars
<1> QED BY <1>1 DEF PlaceInv, initVars, procVars

\* A thread that is at a record has one.
LEMMA AtRecord ==
  ASSUME PlaceInv, NEW t \in Threads, tpc[t] # "idle", t # Main
  PROVE  /\ t \in Threads \ {Main} /\ ScanList[t] # <<>> /\ dpvt[Rec(t)] # NULL
         /\ Rec(t) \in Records
  BY RecType DEF PlaceInv

LEMMA MainIsNoScanThread ==
  ASSUME PlaceInv
  PROVE  ScanList[Main] = <<>> /\ tpc[Main] \notin {"select", "dispatch"}
  BY RackAssumption DEF PlaceInv

LEMMA ThreadStepPlace ==
  ASSUME PlaceInv, NEW t \in Threads, ThreadStep(t)
  PROVE  PlaceInv'
<1>1. CASE Crash(t)
  BY <1>1, StutterPlace DEF Crash
<1>2. CASE Process(t)
  <2>1. t \in Threads \ {Main} /\ ScanList[t] # <<>> /\ dpvt[Rec(t)] # NULL
    BY <1>2, MainIsNoScanThread DEF Process
  <2>2. StaysWithRecord(t)
    BY <1>2 DEF Process, StaysWithRecord
  <2> QED BY <2>1, <2>2, StayPlace
<1>3. ASSUME NEW outcome, SelectPin(t, outcome) PROVE PlaceInv'
  <2>1. tpc[t] = "select" /\ t # Main
    BY <1>3, MainIsNoScanThread DEF SelectPin
  <2>2. t \in Threads \ {Main} /\ ScanList[t] # <<>> /\ dpvt[Rec(t)] # NULL
    BY <2>1, AtRecord
  <2>3. CASE Advance(t)
    BY <1>3, <2>2, <2>3, AdvancePlace DEF SelectPin
  <2>4. CASE ~Advance(t)
    <3>1. UNCHANGED initVars /\ UNCHANGED pos
      BY <1>3, <2>4 DEF SelectPin
    <3>2. tpc' = [tpc EXCEPT ![t] = "dispatch"] \/ UNCHANGED tpc
      BY <1>3, <2>4 DEF SelectPin
    <3>3. tpc' = [tpc EXCEPT ![t] = "dispatch"] \/ tpc' = [tpc EXCEPT ![t] = "select"]
      BY <2>1, <3>2 DEF PlaceInv
    <3>4. StaysWithRecord(t)
      BY <3>1, <3>3 DEF StaysWithRecord
    <3> QED BY <2>2, <3>4, StayPlace
  <2> QED BY <2>3, <2>4
<1>4. CASE Dispatch(t)
  <2>1. tpc[t] = "dispatch" /\ t # Main
    BY <1>4, MainIsNoScanThread DEF Dispatch
  <2>2. StaysWithRecord(t)
    BY <1>4 DEF Dispatch, StaysWithRecord
  <2> QED BY <2>1, <2>2, AtRecord, StayPlace
<1>5. CASE DispatchError(t)
  <2>1. tpc[t] = "dispatch" /\ t # Main
    BY <1>5, MainIsNoScanThread DEF DispatchError
  <2> QED BY <1>5, <2>1, AtRecord, AdvancePlace DEF DispatchError
<1>6. CASE read_ai_returns(t) \/ write_ao_returns(t)
  <2>1. tpc[t] = "access" /\ t # Main /\ Advance(t) /\ UNCHANGED initVars
    BY <1>6 DEF read_ai_returns, write_ao_returns, Returned
  <2> QED BY <2>1, AtRecord, AdvancePlace
<1>7. CASE BusControl(t)
  BY <1>7, StutterPlace DEF BusControl
<1>8. ASSUME NEW n, WireWrite(t, n) \/ WireRead(t, n) PROVE PlaceInv'
  BY <1>8, StutterPlace DEF WireWrite, WireRead
<1> QED BY <1>1, <1>2, <1>3, <1>4, <1>5, <1>6, <1>7, <1>8 DEF ThreadStep

LEMMA PlaceAlways == RackSpec => []PlaceInv
<1>1. PlaceInv /\ UNCHANGED rackVars => PlaceInv'
  BY StutterPlace DEF rackVars
<1>2. PlaceInv /\ [RackNext]_rackVars => PlaceInv'
  BY <1>1, MainStepPlace, ThreadStepPlace DEF RackNext
<1> QED BY <1>2, PlaceInit, PTL DEF RackSpec

-----------------------------------------------------------------------------
(***************************************************************************)
(* The device support only makes calls that the access functions serve.    *)
(***************************************************************************)
LEMMA CallForServed ==
  ASSUME PlaceInv, NEW r \in Records, dpvt[r] # NULL
  PROVE  CallFor(r) \subseteq Calls
<1>1. Private(r) \in SlotData
  BY DEF PlaceInv, Private
<1>2. CASE Private(r) = Unset
  <2>1. Private(r).what = "nul"
    BY <1>2 DEF Unset
  <2> QED BY <2>1 DEF CallFor, ReadCall, WriteCall
<1>3. ASSUME NEW q \in Records, ParseOK(q), Private(r) = Attached(q)
      PROVE  CallFor(r) \subseteq Calls
  <2>1. Private(r).what = InpChar(q) /\ Addr(r) = Inp[q].value \div (MAX_ISTUB + 1)
    BY <1>3 DEF Attached, Addr
  <2>2. /\ ReadCall(Private(r).what, Addr(r)) \subseteq Calls
        /\ WriteCall(Private(r).what, Addr(r)) \subseteq Calls
    BY <1>3, <2>1, RackCallsAssumption
  <2> QED BY <2>2 DEF CallFor
<1> QED BY <1>1, <1>2, <1>3 DEF SlotData

LEMMA StepOnBus ==
  ASSUME PlaceInv, RackNext
  PROVE  [BusNext]_busVars
<1>1. CASE MainStep
  <2>1. CASE InitAoRead
    <3>1. PICK c \in ReadCall(InpChar(Rec(Main)), Inp[Rec(Main)].value) : Enter(Main, c)
      BY <2>1 DEF InitAoRead
    <3>2. Main \in Threads /\ Rec(Main) \in Records /\ ParseOK(Rec(Main))
      BY <2>1, RackAssumption, RecType DEF InitAoRead, InitStarts, Attach
    <3>3. c \in Calls
      BY <3>1, <3>2, RackCallsAssumption
    <3> QED BY <3>1, <3>2, <3>3 DEF BusNext
  <2>2. CASE ~InitAoRead
    BY <1>1, <2>2 DEF MainStep, InitBadBus, InitBadField, init_record_ai, init_record_ao,
                      InitAoUnread, InitAoDone
  <2> QED BY <2>1, <2>2
<1>2. ASSUME NEW t \in Threads, ThreadStep(t) PROVE [BusNext]_busVars
  <2>1. CASE Dispatch(t)
    <3>1. PICK c \in CallFor(Rec(t)) : Enter(t, c)
      BY <2>1 DEF Dispatch
    <3>2. tpc[t] = "dispatch" /\ t # Main
      BY <2>1, MainIsNoScanThread DEF Dispatch
    <3>3. c \in Calls
      BY <3>1, <3>2, AtRecord, CallForServed
    <3> QED BY <3>1, <3>3 DEF BusNext
  <2>2. CASE BusControl(t)
    BY <2>2 DEF BusControl, BusNext, BusStep
  <2>3. ASSUME NEW n \in Returns(3), WireWrite(t, n) \/ WireRead(t, n)
        PROVE  [BusNext]_busVars
    BY <2>3 DEF WireWrite, WireRead, BusNext, BusStep
  <2>4. CASE \/ Crash(t) \/ Process(t) \/ DispatchError(t)
             \/ read_ai_returns(t) \/ write_ao_returns(t)
             \/ \E outcome \in {"ok", "open", "flush"} : SelectPin(t, outcome)
    BY <2>4 DEF Crash, Process, DispatchError, read_ai_returns, write_ao_returns, SelectPin
  <2> QED BY <1>2, <2>1, <2>2, <2>3, <2>4 DEF ThreadStep
<1> QED BY <1>1, <1>2 DEF RackNext

(***************************************************************************)
(* The device support, whatever its database, uses the bus as I2cBus has   *)
(* it: every step is one of the access functions, or leaves the bus alone. *)
(***************************************************************************)
THEOREM RackImplementsBus == RackSpec => BusSpec
<1>1. RackInit => BusInit
  BY DEF RackInit
<1>2. PlaceInv /\ [RackNext]_rackVars => [BusNext]_busVars
  BY StepOnBus DEF rackVars
<1> QED BY <1>1, <1>2, PlaceAlways, PTL DEF RackSpec, BusSpec

(***************************************************************************)
(* So the records' transfers reach the slave their own call has chosen,    *)
(* and read_ai and write_ao may believe an ierr of 0.                      *)
(***************************************************************************)
THEOREM RackTalksToChosenSlave == RackSpec => [](TalksToChosenSlave /\ SuccessMovedAllBytes)
  BY RackImplementsBus, BusTalksToChosenSlave, BusSuccessMovedAllBytes, PTL


-----------------------------------------------------------------------------
(***************************************************************************)
(* A database that the shipped one is an example of: every scanned record  *)
(* is visited by iocInit, and has a number in range.                       *)
(***************************************************************************)
GoodDatabase ==
  \A t \in Threads : \A i \in 1..Len(ScanList[t]) :
    \E j \in 1..Len(InitOrder) : InitOrder[j] = ScanList[t][i] /\ ParseOK(InitOrder[j])

(***************************************************************************)
(* The records that iocInit has visited have their slots, and so has the   *)
(* one whose setting it is reading.                                        *)
(***************************************************************************)
VisitedInv ==
  /\ \A j \in 1..Len(InitOrder) :
       j < initpos /\ ParseOK(InitOrder[j]) => dpvt[InitOrder[j]] # NULL
  /\ tpc[Main] = "access" => dpvt[InitOrder[initpos]] # NULL

LEMMA VisitedStep ==
  ASSUME PlaceInv, VisitedInv, RackNext, ~BusMayFail
  PROVE  VisitedInv'
<1>0. /\ Main \in Threads /\ InitOrder \in Seq(Records) /\ Rec(Main) = InitOrder[initpos]
      /\ initpos \in Nat /\ Len(InitOrder) \in Nat
      /\ \A j \in 1..Len(InitOrder) : InitOrder[j] \in Records
      /\ tpc \in [Threads -> {"idle", "select", "dispatch", "access"}]
  BY RackAssumption DEF Rec, PlaceInv
<1>1. CASE MainStep
  <2>1. CASE InitBadBus \/ InitBadField
    <3>1. /\ UNCHANGED <<dpvt, tpc>> /\ tpc[Main] = "idle" /\ initpos' = initpos + 1
          /\ ~ParseOK(InitOrder[initpos])
      BY <1>0, <2>1 DEF InitBadBus, InitBadField, InitStarts, InitEnds, procVars
    <3> QED BY <1>0, <3>1 DEF VisitedInv
  <2>2. CASE init_record_ai \/ (init_record_ao /\ ~InitAoDone)
    <3>1. Attach(Rec(Main)) /\ Initialising
      BY <2>2 DEF init_record_ai, init_record_ao, InitAoUnread, InitAoRead, InitStarts
    <3>2. /\ \A q \in Records : dpvt[q] # NULL => dpvt'[q] # NULL
          /\ dpvt'[InitOrder[initpos]] # NULL
      BY <1>0, <3>1, AttachPlace, RecType
    <3>3. \/ initpos' = initpos + 1 /\ tpc'[Main] = "idle"
          \/ initpos' = initpos /\ tpc'[Main] = "access"
      BY <1>0, <2>2 DEF init_record_ai, init_record_ao, InitAoUnread, InitAoRead, InitStarts,
                        InitEnds, procVars
    <3> QED BY <1>0, <3>2, <3>3 DEF VisitedInv
  <2>3. CASE InitAoDone
    <3>1. UNCHANGED dpvt /\ tpc[Main] = "access" /\ initpos' = initpos + 1 /\ tpc'[Main] = "idle"
      BY <1>0, <2>3 DEF InitAoDone, InitEnds, Returned
    <3> QED BY <1>0, <3>1 DEF VisitedInv
  <2> QED BY <1>1, <2>1, <2>2, <2>3 DEF MainStep
<1>2. ASSUME NEW t \in Threads, ThreadStep(t) PROVE VisitedInv'
  <2>1. UNCHANGED <<dpvt, initpos>>
    BY <1>2 DEF ThreadStep, Crash, Process, SelectPin, Dispatch, DispatchError, read_ai_returns,
                write_ao_returns, BusControl, WireWrite, WireRead, initVars
  <2>2. t = Main => UNCHANGED tpc
    <3> SUFFICES ASSUME t = Main PROVE UNCHANGED tpc
      OBVIOUS
    <3>1. ScanList[t] = <<>> /\ tpc[t] \notin {"select", "dispatch"}
      BY MainIsNoScanThread
    <3> QED BY <1>2, <3>1
            DEF ThreadStep, Crash, Process, SelectPin, Dispatch, DispatchError, read_ai_returns,
                write_ao_returns, BusControl, WireWrite, WireRead, procVars
  <2>3. t # Main => tpc'[Main] = tpc[Main]
    BY <1>0, <1>2 DEF ThreadStep, Crash, Process, SelectPin, Dispatch, DispatchError,
         read_ai_returns, write_ao_returns, BusControl, WireWrite, WireRead, procVars, Advance
  <2> QED BY <2>1, <2>2, <2>3 DEF VisitedInv
<1> QED BY <1>1, <1>2 DEF RackNext

\* Scanning starts after the last init_record, so a scanned record is visited.
LEMMA NobodyCrashes ==
  ASSUME PlaceInv, VisitedInv, GoodDatabase, NEW t \in Threads
  PROVE  ~Crash(t)
<1> SUFFICES ASSUME Crash(t) PROVE FALSE
  OBVIOUS
<1>1. ~Initialising /\ ScanList[t] # <<>> /\ dpvt[Rec(t)] = NULL
  BY DEF Crash
<1>2. t # Main /\ pos[t] \in 1..Len(ScanList[t]) /\ Rec(t) = ScanList[t][pos[t]]
  BY <1>1, MainIsNoScanThread DEF PlaceInv, Rec
<1>3. PICK j \in 1..Len(InitOrder) : InitOrder[j] = Rec(t) /\ ParseOK(InitOrder[j])
  BY <1>2 DEF GoodDatabase
<1>4. j < initpos
  BY <1>1, RackAssumption DEF Initialising, PlaceInv
<1> QED BY <1>1, <1>3, <1>4 DEF VisitedInv

(***************************************************************************)
(* With a good database and a bus that opens, read_ai and write_ao never   *)
(* dereference a NULL dpvt, however many records, threads and failures.    *)
(***************************************************************************)
THEOREM RackNeverCrashes ==
  ASSUME GoodDatabase, ~BusMayFail
  PROVE  RackSpec => []NeverCrashes
<1>1. RackInit => VisitedInv /\ NeverCrashes
  <2> SUFFICES ASSUME RackInit PROVE VisitedInv /\ NeverCrashes
    OBVIOUS
  <2>1. initpos = 1 /\ tpc[Main] = "idle" /\ Len(InitOrder) \in Nat
    BY RackAssumption DEF RackInit
  <2>2. NeverCrashes
    BY Zenon DEF RackInit, NeverCrashes
  <2> QED BY <2>1, <2>2 DEF VisitedInv
<1>2. VisitedInv /\ UNCHANGED rackVars => VisitedInv'
  BY DEF VisitedInv, rackVars, initVars, procVars
<1>3. PlaceInv /\ VisitedInv /\ [RackNext]_rackVars => VisitedInv'
  BY <1>2, VisitedStep
<1>4. PlaceInv /\ VisitedInv /\ RackNext => UNCHANGED crashed
  <2> SUFFICES ASSUME PlaceInv, VisitedInv, RackNext PROVE UNCHANGED crashed
    OBVIOUS
  <2>1. CASE MainStep
    BY <2>1 DEF MainStep, InitBadBus, InitBadField, init_record_ai, init_record_ao,
                InitAoUnread, InitAoRead, InitAoDone
  <2>2. ASSUME NEW t \in Threads, ThreadStep(t) PROVE UNCHANGED crashed
    <3>1. ~Crash(t)
      BY NobodyCrashes
    <3> QED BY <2>2, <3>1 DEF ThreadStep, Process, SelectPin, Dispatch, DispatchError,
              read_ai_returns, write_ao_returns, BusControl, WireWrite, WireRead
  <2> QED BY <2>1, <2>2 DEF RackNext
<1>5. PlaceInv /\ VisitedInv /\ NeverCrashes /\ [RackNext]_rackVars => NeverCrashes'
  <2>1. UNCHANGED rackVars => UNCHANGED crashed
    BY DEF rackVars
  <2> QED BY <1>4, <2>1, Zenon DEF NeverCrashes
<1> QED BY <1>1, <1>3, <1>5, PlaceAlways, PTL DEF RackSpec


-----------------------------------------------------------------------------
(***************************************************************************)
(* Type correctness: what PlaceInv and the bus's invariant leave open.     *)
(***************************************************************************)
PinsTyped  == GpioTypeOK /\ npins \in [Threads -> 0..2] /\ global_fd_i2c \in {-1, 3}
FlagsTyped == udf \in [Records -> BOOLEAN] /\ crashed \in BOOLEAN

LEMMA MuxPinsExported ==
  ASSUME NEW n \in 0..2
  PROVE  MuxPins[n + 1] \in Pins
  BY RackAssumption DEF MuxPins

LEMMA PinsTypedStep ==
  ASSUME PinsTyped, RackNext
  PROVE  PinsTyped'
<1> USE DEF PinsTyped, GpioTypeOK
<1>1. CASE MainStep
  BY <1>1 DEF MainStep, InitBadBus, InitBadField, init_record_ai, init_record_ao, Attach,
              InitAoUnread, InitAoRead, InitAoDone, procVars
<1>2. ASSUME NEW t \in Threads, NEW outcome, SelectPin(t, outcome) PROVE PinsTyped'
  <2>1. gpio' \in [Pins -> {0, 1}]
    BY <1>2, MuxPinsExported DEF SelectPin, gpio_write
  <2>2. npins' \in [Threads -> 0..2]
    BY <1>2 DEF SelectPin, Advance
  <2> QED BY <1>2, <2>1, <2>2 DEF SelectPin, initVars
<1>3. ASSUME NEW t \in Threads, ThreadStep(t), \A outcome : ~SelectPin(t, outcome)
      PROVE  PinsTyped'
  BY <1>3 DEF ThreadStep, Crash, Process, Dispatch, DispatchError, read_ai_returns, Advance,
              write_ao_returns, BusControl, WireWrite, WireRead, initVars, procVars
<1> QED BY <1>1, <1>2, <1>3 DEF RackNext

LEMMA FlagsTypedStep ==
  ASSUME FlagsTyped, RackNext
  PROVE  FlagsTyped'
<1>1. \/ UNCHANGED udf
      \/ \E r, b : b \in BOOLEAN /\ udf' = [udf EXCEPT ![r] = b]
      \/ \E r : \E b \in BOOLEAN : udf' = [udf EXCEPT ![r] = @ \/ b]
      \/ \E r : \E b \in BOOLEAN : udf' = [udf EXCEPT ![r] = @ /\ b]
  <2>1. MainStep =>
          \/ UNCHANGED udf
          \/ udf' = [udf EXCEPT ![Rec(Main)] = @ \/ InpChar(Rec(Main)) # " "]
          \/ udf' = [udf EXCEPT ![Rec(Main)] = status[Main] # 0]
    BY DEF MainStep, InitBadBus, InitBadField, init_record_ai, init_record_ao, InitAoUnread,
           InitAoRead, InitAoDone, ReadDone, recVars
  <2>2. \A t \in Threads : ThreadStep(t) =>
          \/ UNCHANGED udf
          \/ udf' = [udf EXCEPT ![Rec(t)] = TRUE]
          \/ udf' = [udf EXCEPT ![Rec(t)] = status[t] # 0]
          \/ udf' = [udf EXCEPT ![Rec(t)] = @ /\ Kind[Rec(t)] # "ao"]
    BY DEF ThreadStep, Crash, Process, SelectPin, Dispatch, DispatchError, read_ai_returns,
           write_ao_returns, BusControl, WireWrite, WireRead, ReadDone, recVars
  <2> QED BY <2>1, <2>2, Zenon DEF RackNext
<1>2. crashed' = TRUE \/ UNCHANGED crashed
  BY DEF RackNext, MainStep, InitBadBus, InitBadField, init_record_ai, init_record_ao,
         InitAoUnread, InitAoRead, InitAoDone, ThreadStep, Crash, Process, SelectPin, Dispatch,
         DispatchError, read_ai_returns, write_ao_returns, BusControl, WireWrite, WireRead
<1>3. crashed' \in BOOLEAN
  BY <1>2, Zenon DEF FlagsTyped
<1>4. udf' \in [Records -> BOOLEAN]
  BY <1>1 DEF FlagsTyped
<1> QED BY <1>3, <1>4 DEF FlagsTyped

LEMMA SlotDataType ==
  SlotData \subseteq [address: 0..(NCH_RACKTEMP - 1), what: Suffixes \cup {"nul"}]
<1>1. NCH_RACKTEMP = 64
  BY DEF NCH_RACKTEMP, MAX_ISTUB, MAX_DS75_ADDRESS
<1>2. \A r \in Records : InpChar(r) \in Suffixes
  BY RackAssumption DEF InpChar, Suffixes
<1> QED BY <1>1, <1>2 DEF SlotData, Attached, Unset, ParseOK

(***************************************************************************)
(* Type correctness of the device support's state, for any database.       *)
(***************************************************************************)
THEOREM RackTypeCorrect == RackSpec => []RackTypeOK
<1>1. RackInit => PinsTyped
  BY DEF RackInit, PinsTyped, GpioTypeOK
<1>2. RackInit => FlagsTyped
  BY DEF RackInit, FlagsTyped
<1>3. PinsTyped /\ [RackNext]_rackVars => PinsTyped'
  <2>1. PinsTyped /\ UNCHANGED rackVars => PinsTyped'
    BY DEF PinsTyped, GpioTypeOK, rackVars, initVars, procVars
  <2> QED BY <2>1, PinsTypedStep
<1>4. FlagsTyped /\ [RackNext]_rackVars => FlagsTyped'
  <2>1. FlagsTyped /\ UNCHANGED rackVars => FlagsTyped'
    BY DEF FlagsTyped, rackVars, recVars
  <2> QED BY <2>1, FlagsTypedStep
<1>5. BusTypeOK /\ PlaceInv /\ PinsTyped /\ FlagsTyped => RackTypeOK
  BY SlotDataType DEF PlaceInv, PinsTyped, FlagsTyped, RackTypeOK
<1> QED
  BY <1>1, <1>2, <1>3, <1>4, <1>5, RackImplementsBus, BusTypeCorrect, PlaceAlways, PTL
  DEF RackSpec

=============================================================================
