------------------------------ MODULE RackTemp ------------------------------
(***************************************************************************)
(* devAiRackTemp.c: the EPICS device support that reads DS75 thermometers  *)
(* and writes their thresholds.                                            *)
(*                                                                         *)
(* A probe is a stub of the I2C bus and an address on it.  Three GPIO pins *)
(* drive a switch that connects one stub to the bus; the I2C slave address *)
(* does the rest.  Processing a record sets the three pins (select_probe), *)
(* then calls an access function of dev_i2c.c.  i2c_mutex is taken inside  *)
(* that function, so the pins are set before it.                           *)
(*                                                                         *)
(* Main runs iocInit: it initialises every record in turn.  Then each scan *)
(* thread processes the records of its scan list, over and over; a record  *)
(* is on one list only, and is not looked at by others while it is being   *)
(* processed (dbScanLock).  Values are abstracted to their provenance:     *)
(* <<probe, register>> for what was read from that register.               *)
(***************************************************************************)
EXTENDS I2cBus, Gpio

CONSTANTS
  Main,        \* the thread that runs iocInit
  Records,     \* the RackTemp records of the database
  Kind,        \* "ai" or "ao"
  Inp,         \* what sscanf("%d %c") makes of a record's INP or OUT text
  InitOrder,   \* the order in which iocInit visits the records
  ScanList,    \* the records each thread processes, in order
  Present,     \* the probes <<stub, address>> that are plugged in
  BusMayFail   \* whether open("/dev/i2c-2") can fail

MAX_ISTUB == 7
MAX_DS75_ADDRESS == 7
NCH_RACKTEMP == (MAX_ISTUB + 1) * (MAX_DS75_ADDRESS + 1)
MuxPins == <<26, 46, 65>>

Suffixes == {" ", "S", "Y", "C", "H", "L", "?"}

ASSUME RackAssumption ==
  /\ Main \in Threads
  /\ None \notin Records
  /\ Kind \in [Records -> {"ai", "ao"}]
  /\ Inp \in [Records -> [nconv: -1..2, value: Int, char: Suffixes]]
  /\ InitOrder \in Seq(Records)
  /\ ScanList \in [Threads -> Seq(Records)]
  /\ ScanList[Main] = <<>>
  /\ Present \subseteq (0..MAX_ISTUB) \X (0..MAX_DS75_ADDRESS)
  /\ {26, 46, 65} \subseteq Pins
  /\ BusMayFail \in BOOLEAN

VARIABLES
  global_fd_i2c,  \* -1 until the bus device is open
  private_data,   \* the slots records share by number and suffix
  dpvt,           \* each record's slot, or NULL
  initpos,        \* iocInit's place in InitOrder
  pos,            \* each thread's place in its scan list
  tpc,            \* where it is in read_ai or write_ao
  npins,          \* how many of the three pins select_probe has written
  ptr,            \* chip: the register a probe's pointer names
  content,        \* chip: the record that last wrote a register, or "chip"
  buf,            \* what a thread's last read() returned
  val, udf,       \* the record's VAL, and its UDF flag
  crashed         \* the process has dereferenced a NULL dpvt

chipVars == <<ptr, content>>
recVars  == <<val, udf>>
initVars == <<global_fd_i2c, private_data, dpvt, initpos>>
procVars == <<pos, tpc, npins>>
rackVars == <<busVars, gpio, chipVars, buf, recVars, initVars, procVars, crashed>>

-----------------------------------------------------------------------------
\* Variant: the range check is off by one.
ParseOKInclusive(r) == Inp[r].nconv > 0 /\ Inp[r].value \in 0..NCH_RACKTEMP

ParseOK(r) == Inp[r].nconv > 0 /\ Inp[r].value \in 0..(NCH_RACKTEMP - 1)

\* sscanf leaves inp_char = ' ' when there is no second conversion.
InpChar(r) == IF Inp[r].nconv = 2 THEN Inp[r].char ELSE " "

\* Index into private_data.
Slot(r) ==
  Inp[r].value + (CASE InpChar(r) = "H" -> NCH_RACKTEMP
                    [] InpChar(r) = "L" -> 2 * NCH_RACKTEMP
                    [] InpChar(r) = "C" -> 3 * NCH_RACKTEMP
                    [] OTHER -> 0)

\* The slots the database uses; the others keep their initial value.
Slots == {Slot(r) : r \in {q \in Records : ParseOK(q)}}
Unset == [address |-> 0, what |-> "nul"]
NULL == -1

\* Locals of read_ai and write_ao; private_data is constant once they run.
Private(r) == private_data[dpvt[r]]
Addr(r)    == Private(r).address \div (MAX_ISTUB + 1)
Istub(r)   == Private(r).address % (MAX_ISTUB + 1)

Ds75(fn, addr, fields, mode) ==
  [fn |-> fn, addr |-> addr, fields |-> fields, mode |-> mode]

\* The call that reads what the suffix asks for, as a set of at most one.
ReadCall(what, addr) ==
  CASE what = " " -> {Ds75("read_temp_ds75", addr, {}, "r")}
    [] what = "S" -> {Ds75("access_ds75_details", addr, {"T_OS"}, "r")}
    [] what = "Y" -> {Ds75("access_ds75_details", addr, {"T_HYST"}, "r")}
    [] what = "C" -> {Ds75("access_ds75_details", addr, {"cfg"}, "r")}
    [] OTHER -> {}

\* Variant: the pointers for H and L in each other's place.
WriteCallSwapped(what, addr) ==
  CASE what = "H" -> {Ds75("access_ds75_details", addr, {"T_HYST"}, "w")}
    [] what = "L" -> {Ds75("access_ds75_details", addr, {"T_OS"}, "w")}
    [] what = "C" -> {Ds75("access_ds75_details", addr, {"cfg"}, "w")}
    [] OTHER -> {}

WriteCall(what, addr) ==
  CASE what = "H" -> {Ds75("access_ds75_details", addr, {"T_OS"}, "w")}
    [] what = "L" -> {Ds75("access_ds75_details", addr, {"T_HYST"}, "w")}
    [] what = "C" -> {Ds75("access_ds75_details", addr, {"cfg"}, "w")}
    [] OTHER -> {}

\* The access functions serve every call of this device support.
ASSUME RackCallsAssumption ==
  \A r \in Records :
    ParseOK(r) =>
      \A addr \in {Inp[r].value, Inp[r].value \div (MAX_ISTUB + 1)} :
        ReadCall(InpChar(r), addr) \cup WriteCall(InpChar(r), addr) \subseteq Calls

-----------------------------------------------------------------------------
\* The hardware: which probe the bus reaches, and what a transfer does to it.
MuxStub == gpio[26] + 2 * gpio[46] + 4 * gpio[65]
Reached == <<MuxStub, slave - I2C_ADDR_BASE>>

\* Values that were not read from a chip: an uninitialised byte, a client's.
Garbage == <<<<-1, -1>>, "garbage">>
Client  == <<<<-1, -1>>, "client">>

\* The record a thread initialises or processes.
Rec(t) == IF t = Main THEN InitOrder[initpos] ELSE ScanList[t][pos[t]]

\* Variant: scanning starts one record too early.
InitialisingButOne == initpos < Len(InitOrder)

Initialising == initpos <= Len(InitOrder)

RackInit ==
  /\ BusInit
  /\ gpio \in [Pins -> {0, 1}]
  /\ global_fd_i2c = -1
  /\ private_data = [i \in Slots |-> Unset]
  /\ dpvt = [r \in Records |-> NULL]
  /\ initpos = 1
  /\ pos = [t \in Threads |-> 1]
  /\ tpc = [t \in Threads |-> "idle"]
  /\ npins = [t \in Threads |-> 0]
  /\ ptr \in [Present -> {"T", "cfg"}]
  /\ content = [p \in Present |-> [f \in Fields |-> None]]
  /\ buf = [t \in Threads |-> Garbage]
  /\ val = [r \in Records |-> Garbage]
  /\ udf = [r \in Records |-> TRUE]
  /\ crashed = FALSE

-----------------------------------------------------------------------------
\* iocInit, and the init_record functions it calls.  The status they return
\* is ignored: a record that fails is scanned like the others.

InitStarts == Initialising /\ tpc[Main] = "idle"
InitEnds   == initpos' = initpos + 1

\* init_record_common cannot open the bus; the next record tries again.
InitBadBus ==
  /\ InitStarts
  /\ BusMayFail
  /\ global_fd_i2c < 0
  /\ InitEnds
  /\ UNCHANGED <<busVars, gpio, chipVars, buf, recVars, global_fd_i2c, private_data, dpvt,
                 procVars, crashed>>

\* The bus is open, but INP holds no number, or one out of range.
InitBadField ==
  /\ InitStarts
  /\ ~ParseOK(Rec(Main))
  /\ global_fd_i2c' = 3
  /\ InitEnds
  /\ UNCHANGED <<busVars, gpio, chipVars, buf, recVars, private_data, dpvt, procVars, crashed>>


\* The rest of init_record_common.
Attach(r) ==
  /\ ParseOK(r)
  /\ global_fd_i2c' = 3
  /\ private_data' = [private_data EXCEPT ![Slot(r)] =
                        [address |-> Inp[r].value, what |-> InpChar(r)]]
  /\ dpvt' = [dpvt EXCEPT ![r] = Slot(r)]

init_record_ai ==
  /\ InitStarts
  /\ Kind[Rec(Main)] = "ai"
  /\ Attach(Rec(Main))
  /\ InitEnds
  /\ UNCHANGED <<busVars, gpio, chipVars, buf, recVars, procVars, crashed>>

\* init_record_ao: for ' ' an error, for a suffix that cannot be read UDF.
InitAoUnread ==
  LET r == Rec(Main) IN
  /\ InitStarts
  /\ Kind[r] = "ao"
  /\ Attach(r)
  /\ InpChar(r) \notin {"S", "Y", "C"}
  /\ udf' = [udf EXCEPT ![r] = @ \/ InpChar(r) # " "]
  /\ InitEnds
  /\ UNCHANGED <<busVars, gpio, chipVars, buf, val, procVars, crashed>>

\* init_record_ao reads the present setting: from the whole number in OUT as
\* address, on the stub that happens to be connected.
InitAoRead ==
  LET r == Rec(Main) IN
  /\ InitStarts
  /\ Kind[r] = "ao"
  /\ Attach(r)
  /\ InpChar(r) # " "
  /\ \E c \in ReadCall(InpChar(r), Inp[r].value) : Enter(Main, c)
  /\ tpc' = [tpc EXCEPT ![Main] = "access"]
  /\ UNCHANGED <<gpio, chipVars, buf, recVars, initpos, pos, npins, crashed>>

\* The access function has returned to its caller.
Returned(t) == tpc[t] = "access" /\ bpc[t] = "ready"

\* What a read access leaves in VAL and UDF.  On failure VAL keeps its value,
\* except that the uninitialised cfg is copied into it.
ReadDone(t, r) ==
  /\ val' = [val EXCEPT ![r] = IF status[t] = 0 THEN buf[t]
                               ELSE IF Private(r).what = "C" THEN Garbage ELSE @]
  /\ udf' = [udf EXCEPT ![r] = status[t] # 0]
  /\ buf' = [buf EXCEPT ![t] = Garbage]      \* gone with the stack frame

InitAoDone ==
  /\ Returned(Main)
  /\ ReadDone(Main, Rec(Main))
  /\ tpc' = [tpc EXCEPT ![Main] = "idle"]
  /\ InitEnds
  /\ UNCHANGED <<busVars, gpio, chipVars, global_fd_i2c, private_data, dpvt, pos, npins,
                 crashed>>

init_record_ao == InitAoUnread \/ InitAoRead \/ InitAoDone

-----------------------------------------------------------------------------
\* read_ai and write_ao, called by a scan thread for the record at pos.

\* The next record of the list; after the last, the next period.
Advance(t) ==
  /\ pos' = [pos EXCEPT ![t] = IF @ = Len(ScanList[t]) THEN 1 ELSE @ + 1]
  /\ tpc' = [tpc EXCEPT ![t] = "idle"]
  /\ npins' = [npins EXCEPT ![t] = 0]

\* read_ai and write_ao begin by dereferencing dpvt.
Crash(t) ==
  /\ ~Initialising
  /\ tpc[t] = "idle"
  /\ ScanList[t] # <<>>
  /\ dpvt[Rec(t)] = NULL
  /\ crashed' = TRUE
  /\ UNCHANGED <<busVars, gpio, chipVars, buf, recVars, initVars, procVars>>

\* An ao record is processed because a client wrote its VAL (dbPut, which
\* also clears UDF).
Process(t) ==
  /\ ~Initialising
  /\ tpc[t] = "idle"
  /\ ScanList[t] # <<>>
  /\ dpvt[Rec(t)] # NULL
  /\ tpc' = [tpc EXCEPT ![t] = "select"]
  /\ val' = IF Kind[Rec(t)] = "ao" THEN [val EXCEPT ![Rec(t)] = Client] ELSE val
  /\ udf' = [udf EXCEPT ![Rec(t)] = @ /\ Kind[Rec(t)] # "ao"]
  /\ UNCHANGED <<busVars, gpio, chipVars, buf, initVars, pos, npins, crashed>>

\* Variant: the result of gpio_write is not tested.
SelectPinUnchecked(t, outcome) ==
  /\ tpc[t] = "select"
  /\ gpio_write(MuxPins[npins[t] + 1], (Istub(Rec(t)) \div 2^npins[t]) % 2, outcome)
  /\ IF npins[t] = 2
     THEN npins' = [npins EXCEPT ![t] = 0] /\ tpc' = [tpc EXCEPT ![t] = "dispatch"]
     ELSE npins' = [npins EXCEPT ![t] = @ + 1] /\ UNCHANGED tpc
  /\ UNCHANGED <<busVars, chipVars, buf, recVars, initVars, pos, crashed>>

\* One gpio_write of select_probe (whose own range check cannot fail here).
SelectPin(t, outcome) ==
  /\ tpc[t] = "select"
  /\ gpio_write(MuxPins[npins[t] + 1], (Istub(Rec(t)) \div 2^npins[t]) % 2, outcome)
  /\ IF gpio_written(outcome) < 0
     THEN /\ udf' = [udf EXCEPT ![Rec(t)] = TRUE]
          /\ Advance(t)
     ELSE /\ IF npins[t] = 2
             THEN npins' = [npins EXCEPT ![t] = 0] /\ tpc' = [tpc EXCEPT ![t] = "dispatch"]
             ELSE npins' = [npins EXCEPT ![t] = @ + 1] /\ UNCHANGED tpc
          /\ UNCHANGED <<udf, pos>>
  /\ UNCHANGED <<busVars, chipVars, buf, val, initVars, crashed>>

CallFor(r) ==
  IF Kind[r] = "ai" THEN ReadCall(Private(r).what, Addr(r))
                    ELSE WriteCall(Private(r).what, Addr(r))

Dispatch(t) ==
  /\ tpc[t] = "dispatch"
  /\ \E c \in CallFor(Rec(t)) : Enter(t, c)
  /\ tpc' = [tpc EXCEPT ![t] = "access"]
  /\ UNCHANGED <<gpio, chipVars, buf, recVars, initVars, pos, npins, crashed>>

\* ierr = 1: an unknown suffix, or a config byte out of range.
DispatchError(t) ==
  /\ tpc[t] = "dispatch"
  /\ \/ CallFor(Rec(t)) = {}
     \/ Kind[Rec(t)] = "ao" /\ Private(Rec(t)).what = "C"
  /\ udf' = [udf EXCEPT ![Rec(t)] = TRUE]
  /\ Advance(t)
  /\ UNCHANGED <<busVars, gpio, chipVars, buf, val, initVars, crashed>>

read_ai_returns(t) ==
  /\ t # Main
  /\ Returned(t)
  /\ Kind[Rec(t)] = "ai"
  /\ ReadDone(t, Rec(t))
  /\ Advance(t)
  /\ UNCHANGED <<busVars, gpio, chipVars, initVars, crashed>>

\* Variant: write_ao does not look at ierr.
write_ao_returns_defined(t) ==
  /\ t # Main
  /\ Returned(t)
  /\ Kind[Rec(t)] = "ao"
  /\ udf' = [udf EXCEPT ![Rec(t)] = FALSE]
  /\ Advance(t)
  /\ UNCHANGED <<busVars, gpio, chipVars, buf, val, initVars, crashed>>

write_ao_returns(t) ==
  /\ t # Main
  /\ Returned(t)
  /\ Kind[Rec(t)] = "ao"
  /\ udf' = [udf EXCEPT ![Rec(t)] = status[t] # 0]
  /\ Advance(t)
  /\ UNCHANGED <<busVars, gpio, chipVars, buf, val, initVars, crashed>>

-----------------------------------------------------------------------------
\* The system calls of the access functions, and the probe they reach: the
\* one at the slave address on the stub the pins now connect.

BusControl(t) ==
  /\ Lock(t) \/ Ioctl(t) \/ Unlock(t)
  /\ UNCHANGED <<gpio, chipVars, buf, recVars, initVars, procVars, crashed>>

\* A write() sets the register pointer, and with data the register.  A write
\* that fails may have reached the chip or not.
WireWrite(t, n) ==
  LET x == Current(t)
      full == n = (IF x.op = "get" THEN 1 ELSE x.len)
      data == x.op = "put" /\ x.len > 1
  IN
  /\ bpc[t] = "xfer"
  /\ x.op # "take"
  /\ Transfer(t, n) \/ GetWrite(t, n)
  /\ \/ /\ Reached \in Present
        /\ ptr' = [ptr EXCEPT ![Reached] = x.reg]
        /\ content' = IF data THEN [content EXCEPT ![Reached][x.reg] = Rec(t)] ELSE content
     \/ /\ ~full
        /\ UNCHANGED <<ptr, content>>
  /\ UNCHANGED <<gpio, buf, recVars, initVars, procVars, crashed>>

\* A read() returns the register the pointer names.
WireRead(t, n) ==
  LET x == Current(t) IN
  /\ bpc[t] = "xfer"
  /\ x.op # "put"
  /\ Transfer(t, n) \/ GetRead(t, n)
  /\ n = x.len => Reached \in Present
  /\ buf' = [buf EXCEPT ![t] = IF n = x.len THEN <<Reached, ptr[Reached]>> ELSE Garbage]
  /\ UNCHANGED <<gpio, ptr, content, recVars, initVars, procVars, crashed>>

-----------------------------------------------------------------------------
MainStep == InitBadBus \/ InitBadField \/ init_record_ai \/ init_record_ao

ThreadStep(t) ==
  \/ Crash(t)
  \/ Process(t)
  \/ \E outcome \in {"ok", "open", "flush"} : SelectPin(t, outcome)
  \/ Dispatch(t)
  \/ DispatchError(t)
  \/ read_ai_returns(t)
  \/ write_ao_returns(t)
  \/ BusControl(t)
  \/ \E n \in Returns(3) : WireWrite(t, n) \/ WireRead(t, n)

RackNext == ~crashed /\ (MainStep \/ \E t \in Threads : ThreadStep(t))

RackSpec == RackInit /\ [][RackNext]_rackVars

\* Threads are scheduled and blocking calls return.  Nothing says who gets
\* i2c_mutex next, but a scan thread sleeps until its next period when it has
\* been through its list: the mutex is there to take again and again.
RackFairSpec ==
  /\ RackSpec
  /\ WF_rackVars(~crashed /\ MainStep)
  /\ \A t \in Threads : SF_rackVars(~crashed /\ ThreadStep(t))

-----------------------------------------------------------------------------
RackTypeOK ==
  /\ BusTypeOK
  /\ GpioTypeOK
  /\ global_fd_i2c \in {-1, 3}
  /\ private_data \in [Slots -> [address: 0..(NCH_RACKTEMP - 1), what: Suffixes \cup {"nul"}]]
  /\ dpvt \in [Records -> Slots \cup {NULL}]
  /\ initpos \in 1..(Len(InitOrder) + 1)
  /\ pos \in [Threads -> Nat]
  /\ tpc \in [Threads -> {"idle", "select", "dispatch", "access"}]
  /\ npins \in [Threads -> 0..2]
  /\ crashed \in BOOLEAN
  /\ udf \in [Records -> BOOLEAN]

-----------------------------------------------------------------------------
\* What a record stands for, by the comments of devAiRackTemp.c: the stub is
\* INP % 8, the address INP \div 8, the register the suffix's.
RegisterOf(char) ==
  CASE char = " "        -> "T"
    [] char \in {"S", "H"} -> "T_OS"
    [] char \in {"Y", "L"} -> "T_HYST"
    [] char = "C"        -> "cfg"
    [] OTHER             -> "none"

OwnProbe(r) == <<Inp[r].value % 8, Inp[r].value \div 8>>
Own(r) == <<OwnProbe(r), RegisterOf(InpChar(r))>>

\* Nobody is processing the record: its fields can be looked at.
Idle(r) == \A t \in Threads : tpc[t] # "idle" => Rec(t) # r

\* Another record of the same number asks for something else through the
\* same slot: ' ', S, Y and unknown suffixes have one between them.
Shares(r) ==
  \E q \in Records : ParseOK(q) /\ Slot(q) = Slot(r) /\ InpChar(q) # InpChar(r)

(***************************************************************************)
(* A defined value of an ai record that shares no slot was read from the   *)
(* record's own register of its own probe: the pins, the slave address and *)
(* the register pointer were all still the record's when read() was called *)
(* (read_ai).                                                              *)
(***************************************************************************)
ReadsOwnProbe ==
  \A r \in Records :
    Kind[r] = "ai" /\ Idle(r) /\ ~udf[r] /\ ~Shares(r) => val[r] = Own(r)

\* The place in InitOrder of the last record that has got a slot.
LastOf(slot, i) ==
  /\ dpvt[InitOrder[i]] = slot
  /\ \A j \in (i + 1)..Len(InitOrder) : dpvt[InitOrder[j]] # slot


(***************************************************************************)
(* No ao record ever changes another probe, or another register of its     *)
(* own, even by a write that is reported as failed (write_ao).             *)
(***************************************************************************)
WritesOwnRegister ==
  \A p \in Present, f \in Fields :
    content[p][f] # None => Own(content[p][f]) = <<p, f>>

(***************************************************************************)
(* When write_ao has reported success for a client's value, the chip's     *)
(* register holds a value written for that register.                       *)
(***************************************************************************)
AcknowledgedWriteLanded ==
  \A r \in Records :
    Kind[r] = "ao" /\ Idle(r) /\ ~udf[r] /\ val[r] = Client =>
      /\ OwnProbe(r) \in Present
      /\ content[OwnProbe(r)][RegisterOf(InpChar(r))] # None

(***************************************************************************)
(* An output starts from its own device's current setting                  *)
(* (init_record_ao, "initialize current value from current setting").      *)
(***************************************************************************)
InitialisedFromOwnSetting ==
  \A r \in Records :
    Kind[r] = "ao" /\ Idle(r) /\ ~udf[r] /\ val[r] # Client => val[r] = Own(r)

(***************************************************************************)
(* No record is processed before its dpvt is set, when the bus is there    *)
(* and every INP is good: scanning starts after the last init_record.      *)
(***************************************************************************)
NeverCrashes == ~crashed

(***************************************************************************)
(* Whatever fails on the way, read_ai and write_ao come to an end and the  *)
(* scan thread goes on to its next record, unless the process is gone.     *)
(***************************************************************************)
ProcessingEnds ==
  \A t \in Threads : tpc[t] # "idle" ~> tpc[t] = "idle" \/ crashed

-----------------------------------------------------------------------------
(***************************************************************************)
(* The scan threads, the pins, the bus and the chips together implement    *)
(* ProbeReadout: to each record it looks as if it were alone with its own  *)
(* register (read_ai, write_ao).                                           *)
(***************************************************************************)
Readout == INSTANCE ProbeReadout WITH
  started <- ~Initialising,
  busy <- {r \in Records : ~Idle(r)},
  register <- content

ImplementsReadout == Readout!ReadoutSpec

=============================================================================
