------------------------------ MODULE RackProt ------------------------------
(***************************************************************************)
(* devBiRackProt.c: the bi record of the rack protection bit (pin 44), and *)
(* the heartbeat LED (pin 45) that each processing of it drives: regular   *)
(* flashing while the bit can be read, an irregular pattern of 21 ticks    *)
(* while it cannot.  The record's alarms and monitors (biRecord.c) are     *)
(* modelled with the severities of RackmonIoc.db; a client keeps one       *)
(* subscription to it for changes of value and of alarm.                   *)
(*                                                                         *)
(* hb_sequence_counter is a 32-bit unsigned int.  The code only looks at   *)
(* it modulo 2 and modulo 21: a smaller HB_MODULUS with the remainders of  *)
(* 2^32 (0 and 4) shows the same jump of the pattern when it wraps.        *)
(***************************************************************************)
EXTENDS Gpio

CONSTANTS
  HB_MODULUS,   \* the counter's modulus
  Window        \* how many ticks the observer of the LED remembers

ASSUME HbAssumption ==
  /\ HB_MODULUS \in Nat
  /\ HB_MODULUS % 2 = 0
  /\ HB_MODULUS % 21 = 4
  /\ Window \in Nat

ASSUME RackProtPins == {44, 45} \subseteq Pins

VARIABLES
  hb_sequence_counter,
  val, udf,     \* the record's VAL and UDF
  bi,           \* the record's SEVR (STAT follows it) and MLST
  client,       \* the last update the client was sent: value and severity
  last,         \* history: what the last gpio_read(44) returned, -1 at first
  seen          \* history: the last ticks, [led: level written, ok: bit was read]

recordVars == <<val, udf, bi, client, last>>
protVars == <<gpio, hb_sequence_counter, recordVars, seen>>

NO_ALARM == 0
MAJOR == 2
INVALID == 3

-----------------------------------------------------------------------------
\* The bits of 308404, from bit 20 down to bit 0.
Bit308404(k) == (308404 \div 2^k) % 2

Irregular(c) == Bit308404(20 - (c % 21))

\* Variant: the heartbeat flashes at half the rate.
RegularHalved(c) == (c \div 2) % 2

Regular(c) == c % 2

ProtInit ==
  /\ gpio \in [Pins -> {0, 1}]
  /\ hb_sequence_counter = 0
  /\ val = 0 /\ udf = TRUE
  /\ bi = [sevr |-> INVALID, mlst |-> 0]
  /\ client = [val |-> 0, sevr |-> INVALID]
  /\ last = -1
  /\ seen = <<>>

\* The tick's counter value, the level it writes, and how the write ends.
Heartbeat(c, led, outcome, ok) ==
  /\ hb_sequence_counter' = c
  /\ gpio_write(45, led, outcome)
  /\ seen' = LET s == Append(seen, [led |-> led, ok |-> ok])
             IN  IF Len(s) > Window THEN Tail(s) ELSE s

Tick == (hb_sequence_counter + 1) % HB_MODULUS

\* checkAlarms: UDFS is INVALID, ZSV MAJOR, OSV and COSV NO_ALARM.
checkAlarms(v, undefined) ==
  IF undefined THEN INVALID ELSE IF v = 0 THEN MAJOR ELSE NO_ALARM

\* Variant: only a change of the value is posted.
PostedValue(v, sevr) == bi.mlst # v

\* monitor: recGblResetAlarms found a change, or VAL is not MLST.
Posted(v, sevr) == bi.sevr # sevr \/ bi.mlst # v

\* The rest of process, after read_bi.
Finish(v, undefined) ==
  LET sevr == checkAlarms(v, undefined)
  IN  /\ bi' = [sevr |-> sevr, mlst |-> v]
      /\ client' = IF Posted(v, sevr) THEN [val |-> v, sevr |-> sevr] ELSE client

\* Variant: -1 passes for a reading.
ReadableAlways(istat) == istat >= -1

Readable(istat) == istat >= 0

\* process, when gpio_read(44) gave 0 or 1.
ReadOk(istat, outcome) ==
  /\ Readable(istat)
  /\ val' = istat
  /\ udf' = FALSE
  /\ last' = istat
  /\ Finish(istat, FALSE)
  /\ Heartbeat(Tick, Regular(Tick), outcome, TRUE)

\* Variant: the counter only runs in the normal branch.
ReadFailsUncounted(istat, outcome) ==
  /\ ~Readable(istat)
  /\ udf' = TRUE
  /\ last' = istat
  /\ Finish(val, TRUE)
  /\ Heartbeat(hb_sequence_counter, Irregular(hb_sequence_counter), outcome, FALSE)
  /\ UNCHANGED val

\* process, when gpio_read(44) failed: VAL keeps its value.
ReadFails(istat, outcome) ==
  /\ ~Readable(istat)
  /\ udf' = TRUE
  /\ last' = istat
  /\ Finish(val, TRUE)
  /\ Heartbeat(Tick, Irregular(Tick), outcome, FALSE)
  /\ UNCHANGED val

\* The protection electronics change their output.
BitChanges ==
  /\ gpio' = [gpio EXCEPT ![44] = 1 - @]
  /\ UNCHANGED <<hb_sequence_counter, recordVars, seen>>

ProcessBi ==
  \E outcome \in {"ok", "open", "flush"}, istat \in gpio_read(44) :
    ReadOk(istat, outcome) \/ ReadFails(istat, outcome)

-----------------------------------------------------------------------------
ProtTypeOK ==
  /\ GpioTypeOK
  /\ hb_sequence_counter \in 0..(HB_MODULUS - 1)
  /\ val \in {0, 1} /\ udf \in BOOLEAN /\ last \in {-1, 0, 1}
  /\ bi \in [sevr: {NO_ALARM, MAJOR, INVALID}, mlst: {0, 1}]
  /\ client \in [sevr: {NO_ALARM, MAJOR, INVALID}, val: {0, 1}]
  /\ Len(seen) <= Window

AllOk(s)    == \A i \in 1..Len(s) : s[i].ok
AllBad(s)   == \A i \in 1..Len(s) : ~s[i].ok
Alternates(s) == \A i \in 2..Len(s) : s[i].led # s[i - 1].led

(***************************************************************************)
(* While the bit can be read, the LED level written changes at every tick, *)
(* over the counter's wrap-around too ("flash heartbeat normally").        *)
(***************************************************************************)
RegularWhileReadable == AllOk(seen) => Alternates(seen)

(***************************************************************************)
(* While the bit cannot be read, no window of ticks looks like the regular *)
(* heartbeat, and none looks like a dead LED, wherever the pattern starts  *)
(* or jumps ("flash heartbeat irregularly").                               *)
(***************************************************************************)
IrregularWhileUnreadable ==
  Len(seen) = Window /\ AllBad(seen) =>
    /\ ~Alternates(seen)
    /\ \E i \in 2..Window : seen[i].led # seen[1].led

(***************************************************************************)
(* The client is told of every trip and of every loss of the bit: its last *)
(* update says NO_ALARM if and only if the last tick read the bit as 1,    *)
(* MAJOR if as 0, INVALID if it could not be read, also when the bit comes *)
(* back with the value it had before (biRecord.c checkAlarms and monitor). *)
(***************************************************************************)
ClientToldOfTrip ==
  /\ last = 1 <=> client.sevr = NO_ALARM
  /\ last = 0 <=> client.sevr = MAJOR
  /\ last = -1 <=> client.sevr = INVALID
  /\ last >= 0 => client.val = last

=============================================================================
