--------------------------- MODULE IocStartProofs ---------------------------
(* For any command lines, pins and window: the protection bit's client is  *)
(* told of every trip, the heartbeat is regular while the bit can be read  *)
(* and irregular while it cannot, the macros go to the databases that      *)
(* follow, and the IOC starts in the order that main promises.             *)
EXTENDS IocStart, FiniteSetTheorems, TLAPS

-----------------------------------------------------------------------------
(***************************************************************************)
(* The client's last update is the record's own severity and MLST, and     *)
(* they say what the last tick read.                                       *)
(***************************************************************************)
TripInv ==
  /\ gpio \in [Pins -> {0, 1}]
  /\ last \in {-1, 0, 1}
  /\ bi = [sevr |-> bi.sevr, mlst |-> bi.mlst]
  /\ client = [val |-> bi.mlst, sevr |-> bi.sevr]
  /\ last = -1 => bi.sevr = INVALID
  /\ last = 0 => bi.sevr = MAJOR
  /\ last = 1 => bi.sevr = NO_ALARM
  /\ last >= 0 => bi.mlst = last

LEMMA TripInit == ProtInit => TripInv
  BY DEF ProtInit, TripInv, INVALID

LEMMA ReadResults ==
  ASSUME TripInv, NEW istat \in gpio_read(44)
  PROVE  istat \in {-1, 0, 1}
  BY RackProtPins DEF TripInv, gpio_read

LEMMA WriteKeepsType ==
  ASSUME TripInv, NEW led, NEW outcome, gpio_write(45, led, outcome)
  PROVE  gpio' \in [Pins -> {0, 1}]
  BY RackProtPins DEF TripInv, gpio_write

LEMMA FinishTells ==
  ASSUME TripInv, NEW v, NEW undefined, Finish(v, undefined)
  PROVE  /\ bi' = [sevr |-> checkAlarms(v, undefined), mlst |-> v]
         /\ client' = [val |-> v, sevr |-> checkAlarms(v, undefined)]
  BY DEF TripInv, Finish, Posted

LEMMA TripStep ==
  ASSUME TripInv, ProcessBi \/ BitChanges
  PROVE  TripInv'
<1>1. ASSUME NEW outcome \in {"ok", "open", "flush"}, NEW istat \in gpio_read(44),
             ReadOk(istat, outcome)
      PROVE  TripInv'
  <2>1. istat \in {0, 1} /\ last' = istat
    BY <1>1, ReadResults DEF ReadOk, Readable
  <2>2. gpio' \in [Pins -> {0, 1}]
    BY <1>1, WriteKeepsType DEF ReadOk, Heartbeat
  <2>3. /\ bi' = [sevr |-> checkAlarms(istat, FALSE), mlst |-> istat]
        /\ client' = [val |-> istat, sevr |-> checkAlarms(istat, FALSE)]
    BY <1>1, FinishTells DEF ReadOk
  <2> QED BY <2>1, <2>2, <2>3 DEF TripInv, checkAlarms, INVALID, MAJOR, NO_ALARM
<1>2. ASSUME NEW outcome \in {"ok", "open", "flush"}, NEW istat \in gpio_read(44),
             ReadFails(istat, outcome)
      PROVE  TripInv'
  <2>1. last' = -1
    BY <1>2, ReadResults DEF ReadFails, Readable
  <2>2. gpio' \in [Pins -> {0, 1}]
    BY <1>2, WriteKeepsType DEF ReadFails, Heartbeat
  <2>3. /\ bi' = [sevr |-> INVALID, mlst |-> val]
        /\ client' = [val |-> val, sevr |-> INVALID]
    BY <1>2, FinishTells DEF ReadFails, checkAlarms
  <2> QED BY <2>1, <2>2, <2>3 DEF TripInv
<1>3. CASE BitChanges
  BY <1>3, RackProtPins DEF BitChanges, recordVars, TripInv
<1> QED BY <1>1, <1>2, <1>3 DEF ProcessBi

(***************************************************************************)
(* Steps of main and of the commands leave the record alone.               *)
(***************************************************************************)
LEMMA OnlyScanTouchesRecord ==
  ASSUME [StartNext]_startVars
  PROVE  (ProcessBi \/ BitChanges) \/ UNCHANGED protVars
  BY DEF StartNext, startVars, FirstOption, OptionA, OptionD, OptionM, OptionS, Usage,
         OptionsEnd, MainInit, ScriptBegins, ScriptEnds, AfterScript, ShellEnds, Command, Scan

LEMMA TripAlways == StartSpec => []TripInv
<1>1. StartInit => TripInv
  BY TripInit DEF StartInit
<1>2. TripInv /\ UNCHANGED protVars => TripInv'
  BY DEF TripInv, protVars, recordVars
<1>3. TripInv /\ [StartNext]_startVars => TripInv'
  BY <1>2, TripStep, OnlyScanTouchesRecord
<1> QED BY <1>1, <1>3, PTL DEF StartSpec

(***************************************************************************)
(* The client of the protection bit is told of every trip and every loss   *)
(* of the bit, for any pins and faults and however the IOC was started,    *)
(* paused and resumed (read_bi and biRecord.c's process).                  *)
(***************************************************************************)
THEOREM ClientAlwaysTold == StartSpec => []ClientToldOfTrip
<1>1. TripInv => ClientToldOfTrip
  BY DEF TripInv, ClientToldOfTrip, INVALID, MAJOR, NO_ALARM
<1> QED BY <1>1, TripAlways, PTL

-----------------------------------------------------------------------------
\* What read_bi writes to the LED.
Levels == {0, 1} \cup {Irregular(c) : c \in 0..(HB_MODULUS - 1)}

(***************************************************************************)
(* The heartbeat.  Two neighbouring readable ticks have different levels,  *)
(* and the last readable one shows the counter's parity: unlike            *)
(* RegularWhileReadable this survives that the window forgets a tick.      *)
(***************************************************************************)
BeatInv ==
  /\ hb_sequence_counter \in 0..(HB_MODULUS - 1)
  /\ seen \in Seq([led: Levels, ok: BOOLEAN])
  /\ \A i \in 2..Len(seen) : seen[i].ok /\ seen[i - 1].ok => seen[i].led # seen[i - 1].led
  /\ seen # <<>> /\ seen[Len(seen)].ok => seen[Len(seen)].led = Regular(hb_sequence_counter)

\* The modulus is even, so the parity alternates over the wrap-around.
LEMMA TickFlips ==
  ASSUME NEW c \in 0..(HB_MODULUS - 1)
  PROVE  /\ (c + 1) % HB_MODULUS \in 0..(HB_MODULUS - 1)
         /\ Regular((c + 1) % HB_MODULUS) # Regular(c)
         /\ Regular((c + 1) % HB_MODULUS) \in {0, 1}
<1>1. HB_MODULUS \in Nat /\ HB_MODULUS > 0 /\ HB_MODULUS % 2 = 0
  BY HbAssumption
<1>2. CASE c + 1 < HB_MODULUS
  <2>1. (c + 1) % HB_MODULUS = c + 1
    BY <1>1, <1>2
  <2> QED BY <1>1, <1>2, <2>1 DEF Regular
<1>3. CASE c + 1 = HB_MODULUS
  <2>1. (c + 1) % HB_MODULUS = 0
    BY <1>1, <1>3
  <2> QED BY <1>1, <1>3, <2>1 DEF Regular
<1> QED BY <1>1, <1>2, <1>3

\* What a tick does to the window, whichever branch of read_bi it is.
LEMMA WindowSlides ==
  ASSUME BeatInv, NEW c \in 0..(HB_MODULUS - 1), NEW led \in Levels, NEW outcome,
         NEW ok \in BOOLEAN, Heartbeat(c, led, outcome, ok),
         ok => led = Regular(c) /\ led # Regular(hb_sequence_counter)
  PROVE  BeatInv'
<1> DEFINE Beats == [led: Levels, ok: BOOLEAN]
           s == Append(seen, [led |-> led, ok |-> ok])
<1>1. seen \in Seq(Beats) /\ [led |-> led, ok |-> ok] \in Beats
  BY DEF BeatInv
<1>2. /\ s \in Seq(Beats) /\ s # <<>> /\ Len(s) = Len(seen) + 1
      /\ s[Len(s)] = [led |-> led, ok |-> ok]
      /\ \A i \in 1..Len(seen) : s[i] = seen[i]
  BY <1>1
<1>3. \A i \in 2..Len(s) : s[i].ok /\ s[i - 1].ok => s[i].led # s[i - 1].led
  <2> SUFFICES ASSUME NEW i \in 2..Len(s), s[i].ok, s[i - 1].ok
               PROVE  s[i].led # s[i - 1].led
    OBVIOUS
  <2>1. CASE i < Len(s)
    <3>1. i \in 2..Len(seen) /\ s[i] = seen[i] /\ s[i - 1] = seen[i - 1]
      BY <1>1, <1>2, <2>1
    <3> QED BY <3>1 DEF BeatInv
  <2>2. CASE i = Len(s)
    <3>1. seen # <<>> /\ s[i - 1] = seen[Len(seen)] /\ s[i].led = led /\ s[i].ok = ok
      BY <1>1, <1>2, <2>2
    <3> QED BY <3>1 DEF BeatInv
  <2> QED BY <1>1, <1>2, <2>1, <2>2
<1>4. hb_sequence_counter' = c
  BY DEF Heartbeat
<1>5. CASE seen' = s
  BY <1>2, <1>3, <1>4, <1>5 DEF BeatInv
<1>6. CASE seen' = Tail(s) /\ Len(s) > Window
  <2>1. /\ Tail(s) \in Seq(Beats) /\ Len(Tail(s)) = Len(seen)
        /\ \A i \in 1..Len(seen) : Tail(s)[i] = s[i + 1]
    BY <1>1, <1>2
  <2>2. \A i \in 2..Len(Tail(s)) :
          Tail(s)[i].ok /\ Tail(s)[i - 1].ok => Tail(s)[i].led # Tail(s)[i - 1].led
    <3> SUFFICES ASSUME NEW i \in 2..Len(seen), Tail(s)[i].ok, Tail(s)[i - 1].ok
                 PROVE  Tail(s)[i].led # Tail(s)[i - 1].led
      BY <2>1
    <3>1. Tail(s)[i] = s[i + 1] /\ Tail(s)[i - 1] = s[(i + 1) - 1] /\ i + 1 \in 2..Len(s)
      BY <1>1, <1>2, <2>1
    <3> HIDE DEF s
    <3> QED BY <1>3, <3>1
  <2>3. Tail(s) # <<>> => Tail(s)[Len(Tail(s))] = [led |-> led, ok |-> ok]
    BY <1>1, <1>2, <2>1
  <2> HIDE DEF s
  <2> QED BY <1>4, <1>6, <2>1, <2>2, <2>3 DEF BeatInv
<1> QED BY <1>5, <1>6 DEF Heartbeat

LEMMA BeatStep ==
  ASSUME BeatInv, ProcessBi \/ BitChanges
  PROVE  BeatInv'
<1>1. /\ Tick \in 0..(HB_MODULUS - 1)
      /\ Regular(Tick) # Regular(hb_sequence_counter)
      /\ Regular(Tick) \in {0, 1}
  BY TickFlips, Zenon DEF BeatInv, Tick
<1>2. ASSUME NEW outcome, NEW istat, ReadOk(istat, outcome)
      PROVE  BeatInv'
  BY <1>1, <1>2, WindowSlides DEF ReadOk, Levels
<1>3. ASSUME NEW outcome, NEW istat, ReadFails(istat, outcome)
      PROVE  BeatInv'
  BY <1>1, <1>3, WindowSlides DEF ReadFails, Levels
<1>4. CASE BitChanges
  BY <1>4 DEF BitChanges, BeatInv
<1> QED BY <1>2, <1>3, <1>4 DEF ProcessBi

LEMMA BeatAlways == StartSpec => []BeatInv
<1>1. StartInit => BeatInv
  BY HbAssumption DEF StartInit, ProtInit, BeatInv
<1>2. BeatInv /\ UNCHANGED protVars => BeatInv'
  BY DEF BeatInv, protVars
<1>3. BeatInv /\ [StartNext]_startVars => BeatInv'
  BY <1>2, BeatStep, OnlyScanTouchesRecord
<1> QED BY <1>1, <1>3, PTL DEF StartSpec

(***************************************************************************)
(* While the bit can be read, the level written to the LED changes at      *)
(* every tick: for any window, any even modulus of the counter, 2^32       *)
(* included, and over its wrap-around (read_bi).                           *)
(***************************************************************************)
THEOREM HeartbeatRegular == StartSpec => []RegularWhileReadable
<1>1. BeatInv => RegularWhileReadable
  BY DEF BeatInv, RegularWhileReadable, AllOk, Alternates
<1> QED BY <1>1, BeatAlways, PTL

-----------------------------------------------------------------------------
(***************************************************************************)
(* The rest of the types.                                                  *)
(***************************************************************************)
RecordTyped ==
  /\ val \in {0, 1}
  /\ udf \in BOOLEAN
  /\ bi \in [sevr: {NO_ALARM, MAJOR, INVALID}, mlst: {0, 1}]
  /\ client \in [sevr: {NO_ALARM, MAJOR, INVALID}, val: {0, 1}]
  /\ Len(seen) <= Window

LEMMA RecordTypedStep ==
  ASSUME TripInv, BeatInv, RecordTyped, ProcessBi \/ BitChanges
  PROVE  RecordTyped'
<1>1. ASSUME NEW v \in {0, 1}, NEW undefined \in BOOLEAN, Finish(v, undefined)
      PROVE  /\ bi' \in [sevr: {NO_ALARM, MAJOR, INVALID}, mlst: {0, 1}]
             /\ client' \in [sevr: {NO_ALARM, MAJOR, INVALID}, val: {0, 1}]
  <2>1. checkAlarms(v, undefined) \in {NO_ALARM, MAJOR, INVALID}
    BY DEF checkAlarms
  <2> QED BY <1>1, <2>1, FinishTells
<1>2. ASSUME NEW c, NEW led \in Levels, NEW outcome, NEW ok \in BOOLEAN,
             Heartbeat(c, led, outcome, ok)
      PROVE  Len(seen') <= Window
  <2> DEFINE Beats == [led: Levels, ok: BOOLEAN]
             beat == [led |-> led, ok |-> ok]
  <2>1. seen \in Seq(Beats) /\ beat \in Beats /\ Len(seen) <= Window /\ Window \in Nat
    BY HbAssumption DEF BeatInv, RecordTyped
  <2>2. seen' = LET s == Append(seen, beat) IN IF Len(s) > Window THEN Tail(s) ELSE s
    BY <1>2 DEF Heartbeat
  <2> HIDE DEF Beats, beat
  <2>3. /\ Append(seen, beat) \in Seq(Beats) /\ Len(Append(seen, beat)) = Len(seen) + 1
        /\ Len(Tail(Append(seen, beat))) = Len(seen)
    BY <2>1
  <2> QED BY <2>1, <2>2, <2>3
<1>3. /\ Tick \in 0..(HB_MODULUS - 1)
      /\ Regular(Tick) \in {0, 1}
  BY TickFlips, Zenon DEF BeatInv, Tick
<1>4. ASSUME NEW outcome \in {"ok", "open", "flush"}, NEW istat \in gpio_read(44),
             ReadOk(istat, outcome)
      PROVE  RecordTyped'
  <2>1. istat \in {0, 1}
    BY <1>4, ReadResults DEF ReadOk, Readable
  <2>2. Len(seen') <= Window
    BY <1>2, <1>3, <1>4 DEF ReadOk, Levels
  <2> QED BY <1>1, <1>4, <2>1, <2>2 DEF ReadOk, RecordTyped
<1>5. ASSUME NEW outcome \in {"ok", "open", "flush"}, NEW istat \in gpio_read(44),
             ReadFails(istat, outcome)
      PROVE  RecordTyped'
  <2>1. Len(seen') <= Window
    BY <1>2, <1>3, <1>5 DEF ReadFails, Levels
  <2> QED BY <1>1, <1>5, <2>1 DEF ReadFails, RecordTyped
<1>6. CASE BitChanges
  BY <1>6 DEF BitChanges, recordVars, RecordTyped
<1> QED BY <1>4, <1>5, <1>6 DEF ProcessBi

(***************************************************************************)
(* The record, its client and the LED always have values of their types,   *)
(* and the counter stays below its modulus (read_bi, biRecord.c).          *)
(***************************************************************************)
THEOREM ProtTypes == StartSpec => []ProtTypeOK
<1>1. StartInit => RecordTyped
  BY HbAssumption DEF StartInit, ProtInit, RecordTyped
<1>2. RecordTyped /\ UNCHANGED protVars => RecordTyped'
  BY DEF RecordTyped, protVars, recordVars
<1>3. TripInv /\ BeatInv /\ RecordTyped /\ [StartNext]_startVars => RecordTyped'
  BY <1>2, RecordTypedStep, OnlyScanTouchesRecord
<1>4. TripInv /\ BeatInv /\ RecordTyped => ProtTypeOK
  BY DEF TripInv, BeatInv, RecordTyped, ProtTypeOK, GpioTypeOK
<1> QED BY <1>1, <1>3, <1>4, TripAlways, BeatAlways, PTL DEF StartSpec

-----------------------------------------------------------------------------
(***************************************************************************)
(* The irregular pattern only depends on the counter modulo 21, its phase, *)
(* which goes from one to the next, and from 3 to 0 when the counter wraps.*)
(***************************************************************************)
Phase == 0..20

Follows(q, p) == q = (IF p = 20 THEN 0 ELSE p + 1) \/ (p = 3 /\ q = 0)

Pattern(p) == Bit308404(20 - p)

LEMMA PatternOfPhase ==
  \A p \in Phase : Pattern(p) = IF p \in {2, 5, 7, 8, 10, 13, 15, 16, 18} THEN 1 ELSE 0
<1>1. /\ Pattern(0) = 0 /\ Pattern(1) = 0 /\ Pattern(2) = 1 /\ Pattern(3) = 0
      /\ Pattern(4) = 0 /\ Pattern(5) = 1 /\ Pattern(6) = 0 /\ Pattern(7) = 1
      /\ Pattern(8) = 1 /\ Pattern(9) = 0 /\ Pattern(10) = 1 /\ Pattern(11) = 0
      /\ Pattern(12) = 0 /\ Pattern(13) = 1 /\ Pattern(14) = 0 /\ Pattern(15) = 1
      /\ Pattern(16) = 1 /\ Pattern(17) = 0 /\ Pattern(18) = 1 /\ Pattern(19) = 0
      /\ Pattern(20) = 0
  BY DEF Pattern, Bit308404
<1> QED BY <1>1 DEF Phase

\* Five ticks of the pattern, wherever they start and if the counter wraps or
\* not, neither alternate nor stand still.
LEMMA FiveTicks ==
  ASSUME NEW p1 \in Phase, NEW p2 \in Phase, NEW p3 \in Phase, NEW p4 \in Phase,
         NEW p5 \in Phase,
         Follows(p2, p1), Follows(p3, p2), Follows(p4, p3), Follows(p5, p4)
  PROVE  /\ \/ Pattern(p2) = Pattern(p1) \/ Pattern(p3) = Pattern(p2)
            \/ Pattern(p4) = Pattern(p3) \/ Pattern(p5) = Pattern(p4)
         /\ \/ Pattern(p2) # Pattern(p1) \/ Pattern(p3) # Pattern(p1)
            \/ Pattern(p4) # Pattern(p1) \/ Pattern(p5) # Pattern(p1)
BY PatternOfPhase DEF Follows, Phase

LEMMA PhaseFollows ==
  ASSUME NEW c \in 0..(HB_MODULUS - 1)
  PROVE  /\ (c + 1) % HB_MODULUS \in 0..(HB_MODULUS - 1)
         /\ c % 21 \in Phase /\ ((c + 1) % HB_MODULUS) % 21 \in Phase
         /\ Follows(((c + 1) % HB_MODULUS) % 21, c % 21)
<1>1. HB_MODULUS \in Nat /\ HB_MODULUS > 0 /\ HB_MODULUS % 21 = 4
  BY HbAssumption
<1>2. CASE c + 1 < HB_MODULUS
  <2>1. (c + 1) % HB_MODULUS = c + 1
    BY <1>1, <1>2
  <2> QED BY <1>1, <1>2, <2>1 DEF Phase, Follows
<1>3. CASE c + 1 = HB_MODULUS
  <2>1. (c + 1) % HB_MODULUS = 0
    BY <1>1, <1>3
  <2> QED BY <1>1, <1>3, <2>1 DEF Phase, Follows
<1> QED BY <1>1, <1>2, <1>3

(***************************************************************************)
(* The ticks of the window have phases that follow each other up to the    *)
(* counter's own, and an unreadable tick wrote the pattern at its phase.   *)
(***************************************************************************)
PhasesFit(ph, s, c) ==
  /\ \A i \in 2..Len(s) : Follows(ph[i], ph[i - 1])
  /\ \A i \in 1..Len(s) : s[i].ok = FALSE => s[i].led = Pattern(ph[i])
  /\ Len(s) > 0 => ph[Len(s)] = c % 21

PatternInv == \E ph \in [1..Len(seen) -> Phase] : PhasesFit(ph, seen, hb_sequence_counter)

LEMMA PhasesAppend ==
  ASSUME NEW Beats, NEW s \in Seq(Beats), NEW beat \in Beats, NEW c, NEW d,
         NEW ph \in [1..Len(s) -> Phase], PhasesFit(ph, s, c),
         d % 21 \in Phase, Follows(d % 21, c % 21),
         beat.ok = FALSE => beat.led = Pattern(d % 21)
  PROVE  \E ph1 \in [1..Len(Append(s, beat)) -> Phase] : PhasesFit(ph1, Append(s, beat), d)
<1> DEFINE t == Append(s, beat)
           ph1 == [i \in 1..Len(t) |-> IF i <= Len(s) THEN ph[i] ELSE d % 21]
<1>1. /\ t \in Seq(Beats) /\ Len(t) = Len(s) + 1 /\ t[Len(s) + 1] = beat /\ Len(s) \in Nat
      /\ \A i \in 1..Len(s) : t[i] = s[i]
  OBVIOUS
<1> HIDE DEF t
<1>2. ph1 \in [1..Len(t) -> Phase]
  BY <1>1
<1>3. /\ \A i \in 1..Len(s) : ph1[i] = ph[i]
      /\ ph1[Len(s) + 1] = d % 21
  BY <1>1
<1> HIDE DEF ph1
<1>4. \A i \in 2..Len(t) : Follows(ph1[i], ph1[i - 1])
  <2> SUFFICES ASSUME NEW i \in 2..Len(t) PROVE Follows(ph1[i], ph1[i - 1])
    OBVIOUS
  <2>1. CASE i <= Len(s)
    <3>1. i \in 2..Len(s) /\ i - 1 \in 1..Len(s) /\ i \in 1..Len(s)
      BY <1>1, <2>1
    <3> QED BY <1>3, <3>1 DEF PhasesFit
  <2>2. CASE i = Len(s) + 1
    <3>1. Len(s) \in 1..Len(s) /\ i - 1 = Len(s) /\ Len(s) > 0
      BY <1>1, <2>2
    <3>2. ph1[i - 1] = c % 21
      BY <1>3, <3>1 DEF PhasesFit
    <3> QED BY <1>3, <2>2, <3>2
  <2> QED BY <1>1, <2>1, <2>2
<1>5. \A i \in 1..Len(t) : t[i].ok = FALSE => t[i].led = Pattern(ph1[i])
  <2> SUFFICES ASSUME NEW i \in 1..Len(t), t[i].ok = FALSE PROVE t[i].led = Pattern(ph1[i])
    OBVIOUS
  <2>1. CASE i <= Len(s)
    <3>1. i \in 1..Len(s)
      BY <1>1, <2>1
    <3> QED BY <1>1, <1>3, <3>1 DEF PhasesFit
  <2>2. CASE i = Len(s) + 1
    BY <1>1, <1>3, <2>2
  <2> QED BY <1>1, <2>1, <2>2
<1>6. PhasesFit(ph1, t, d)
  BY <1>1, <1>3, <1>4, <1>5 DEF PhasesFit
<1> QED BY <1>2, <1>6 DEF t

LEMMA PhasesTail ==
  ASSUME NEW Beats, NEW s \in Seq(Beats), Len(s) > 0, NEW c,
         NEW ph \in [1..Len(s) -> Phase], PhasesFit(ph, s, c)
  PROVE  \E ph1 \in [1..Len(Tail(s)) -> Phase] : PhasesFit(ph1, Tail(s), c)
<1> DEFINE t == Tail(s)
           ph1 == [i \in 1..Len(t) |-> ph[i + 1]]
<1>1. /\ t \in Seq(Beats) /\ Len(s) = Len(t) + 1 /\ Len(t) \in Nat
      /\ \A i \in 1..Len(t) : t[i] = s[i + 1]
  BY s # <<>>
<1> HIDE DEF t
<1>2. ph1 \in [1..Len(t) -> Phase]
  BY <1>1
<1>3. \A i \in 1..Len(t) : ph1[i] = ph[i + 1]
  OBVIOUS
<1> HIDE DEF ph1
<1>4. \A i \in 2..Len(t) : Follows(ph1[i], ph1[i - 1])
  <2> SUFFICES ASSUME NEW i \in 2..Len(t) PROVE Follows(ph1[i], ph1[i - 1])
    OBVIOUS
  <2>1. /\ i + 1 \in 2..Len(s) /\ i \in 1..Len(t) /\ i - 1 \in 1..Len(t)
        /\ (i - 1) + 1 = i /\ (i + 1) - 1 = i
    BY <1>1
  <2>2. ph1[i] = ph[i + 1] /\ ph1[i - 1] = ph[i]
    BY <1>3, <2>1
  <2>3. Follows(ph[i + 1], ph[(i + 1) - 1])
    BY <2>1 DEF PhasesFit
  <2> QED BY <2>1, <2>2, <2>3
<1>5. \A i \in 1..Len(t) : t[i].ok = FALSE => t[i].led = Pattern(ph1[i])
  <2> SUFFICES ASSUME NEW i \in 1..Len(t), t[i].ok = FALSE PROVE t[i].led = Pattern(ph1[i])
    OBVIOUS
  <2>1. i + 1 \in 1..Len(s)
    BY <1>1
  <2> QED BY <1>1, <1>3, <2>1 DEF PhasesFit
<1>6. Len(t) > 0 => ph1[Len(t)] = c % 21
  BY <1>1, <1>3 DEF PhasesFit
<1> QED BY <1>2, <1>4, <1>5, <1>6 DEF PhasesFit, t

LEMMA PatternTick ==
  ASSUME BeatInv, PatternInv, NEW led \in Levels, NEW outcome, NEW ok \in BOOLEAN,
         Heartbeat(Tick, led, outcome, ok), ok = FALSE => led = Irregular(Tick)
  PROVE  PatternInv'
<1> DEFINE Beats == [led: Levels, ok: BOOLEAN]
           beat == [led |-> led, ok |-> ok]
           s == Append(seen, beat)
<1>1. seen \in Seq(Beats) /\ beat \in Beats /\ hb_sequence_counter \in 0..(HB_MODULUS - 1)
  BY DEF BeatInv
<1>2. /\ beat.ok = ok /\ beat.led = led
      /\ hb_sequence_counter' = Tick
      /\ seen' = IF Len(s) > Window THEN Tail(s) ELSE s
  BY DEF Heartbeat
<1>3. Tick % 21 \in Phase /\ Follows(Tick % 21, hb_sequence_counter % 21)
  BY <1>1, PhaseFollows DEF Tick
<1>4. beat.ok = FALSE => beat.led = Pattern(Tick % 21)
  BY <1>2 DEF Irregular, Pattern
<1>5. PICK ph \in [1..Len(seen) -> Phase] : PhasesFit(ph, seen, hb_sequence_counter)
  BY DEF PatternInv
<1> HIDE DEF Beats, beat
<1>6. PICK ph1 \in [1..Len(s) -> Phase] : PhasesFit(ph1, s, Tick)
  BY <1>1, <1>3, <1>4, <1>5, PhasesAppend
<1>7. s \in Seq(Beats) /\ Len(s) > 0
  BY <1>1
<1> HIDE DEF s
<1>8. \E ph2 \in [1..Len(Tail(s)) -> Phase] : PhasesFit(ph2, Tail(s), Tick)
  BY <1>6, <1>7, PhasesTail
<1> QED BY <1>2, <1>6, <1>8 DEF PatternInv

LEMMA PatternStep ==
  ASSUME BeatInv, PatternInv, ProcessBi \/ BitChanges
  PROVE  PatternInv'
<1>1. Tick \in 0..(HB_MODULUS - 1) /\ Regular(Tick) \in {0, 1}
  BY TickFlips, Zenon DEF BeatInv, Tick
<1>2. ASSUME NEW outcome, NEW istat, ReadOk(istat, outcome)
      PROVE  PatternInv'
  <2>1. Heartbeat(Tick, Regular(Tick), outcome, TRUE) /\ Regular(Tick) \in Levels
    BY <1>1, <1>2 DEF ReadOk, Levels
  <2> QED BY <2>1, PatternTick
<1>3. ASSUME NEW outcome, NEW istat, ReadFails(istat, outcome)
      PROVE  PatternInv'
  <2>1. Heartbeat(Tick, Irregular(Tick), outcome, FALSE) /\ Irregular(Tick) \in Levels
    BY <1>1, <1>3 DEF ReadFails, Levels
  <2> QED BY <2>1, PatternTick
<1>4. CASE BitChanges
  BY <1>4 DEF BitChanges, PatternInv
<1> QED BY <1>2, <1>3, <1>4 DEF ProcessBi

LEMMA PatternAlways == StartSpec => []PatternInv
<1>1. StartInit => PatternInv
  <2> SUFFICES ASSUME StartInit PROVE PatternInv
    OBVIOUS
  <2>1. Len(seen) = 0
    BY DEF StartInit, ProtInit
  <2>2. [i \in 1..Len(seen) |-> 0] \in [1..Len(seen) -> Phase]
    BY DEF Phase
  <2>3. PhasesFit([i \in 1..Len(seen) |-> 0], seen, hb_sequence_counter)
    BY <2>1 DEF PhasesFit
  <2> QED BY <2>2, <2>3 DEF PatternInv
<1>2. PatternInv /\ UNCHANGED protVars => PatternInv'
  BY DEF PatternInv, protVars
<1>3. BeatInv /\ PatternInv /\ [StartNext]_startVars => PatternInv'
  BY <1>2, PatternStep, OnlyScanTouchesRecord
<1> QED BY <1>1, <1>3, BeatAlways, PTL DEF StartSpec

(***************************************************************************)
(* While the bit cannot be read, no five ticks or more look like the       *)
(* regular heartbeat or like a dead LED: for any modulus that leaves the   *)
(* remainder of 2^32, wherever the pattern starts and jumps (read_bi).     *)
(***************************************************************************)
THEOREM HeartbeatIrregular ==
  ASSUME Window >= 5
  PROVE  StartSpec => []IrregularWhileUnreadable
<1>1. BeatInv /\ PatternInv => IrregularWhileUnreadable
  <2> SUFFICES ASSUME BeatInv, PatternInv, Len(seen) = Window, AllBad(seen)
               PROVE  /\ ~Alternates(seen)
                      /\ \E i \in 2..Window : seen[i].led # seen[1].led
    BY DEF IrregularWhileUnreadable
  <2>1. PICK ph \in [1..Len(seen) -> Phase] : PhasesFit(ph, seen, hb_sequence_counter)
    BY DEF PatternInv
  <2>2. /\ Window \in Nat
        /\ \A i \in {1, 2, 3, 4, 5} : i \in 1..Len(seen)
        /\ \A i \in {2, 3, 4, 5} : i \in 2..Len(seen)
    BY HbAssumption
  <2>3. \A i \in {1, 2, 3, 4, 5} : seen[i].ok = FALSE
    <3> DEFINE Beats == [led: Levels, ok: BOOLEAN]
    <3>1. seen \in Seq(Beats)
      BY DEF BeatInv
    <3>2. \A b \in Beats : ~b.ok => b.ok = FALSE
      BY Zenon
    <3> HIDE DEF Beats
    <3>3. \A i \in 1..Len(seen) : seen[i] \in Beats
      BY <3>1
    <3> QED BY <2>2, <3>2, <3>3 DEF AllBad
  <2>4. \A i \in {1, 2, 3, 4, 5} : ph[i] \in Phase /\ seen[i].led = Pattern(ph[i])
    BY <2>1, <2>2, <2>3 DEF PhasesFit
  <2>5. \A i \in {2, 3, 4, 5} : Follows(ph[i], ph[i - 1])
    BY <2>1, <2>2 DEF PhasesFit
  <2>6. /\ Follows(ph[2], ph[1]) /\ Follows(ph[3], ph[2])
        /\ Follows(ph[4], ph[3]) /\ Follows(ph[5], ph[4])
    BY <2>5
  <2>7. /\ \/ seen[2].led = seen[1].led \/ seen[3].led = seen[2].led
           \/ seen[4].led = seen[3].led \/ seen[5].led = seen[4].led
        /\ \/ seen[2].led # seen[1].led \/ seen[3].led # seen[1].led
           \/ seen[4].led # seen[1].led \/ seen[5].led # seen[1].led
    BY <2>4, <2>6, FiveTicks
  <2>8. ~Alternates(seen)
    <3>1. PICK i \in {2, 3, 4, 5} : seen[i].led = seen[i - 1].led
      BY <2>7
    <3> QED BY <2>2, <3>1 DEF Alternates
  <2>9. PICK i \in {2, 3, 4, 5} : seen[i].led # seen[1].led
    BY <2>7
  <2> QED BY <2>2, <2>8, <2>9
<1> QED BY <1>1, BeatAlways, PatternAlways, PTL

-----------------------------------------------------------------------------
(***************************************************************************)
(* What is left of the command line are words of it.                       *)
(***************************************************************************)
WordsInv ==
  /\ args \in CommandLines
  /\ argv \in Seq(Words(args))
  /\ macros \in Words(args) \cup {NULL}
  /\ acf \in Words(args) \cup {NULL}
  /\ loads \in Seq([db: Words(args), macros: Words(args) \cup {NULL}])

LEMMA DropKeepsWords ==
  ASSUME NEW S, argv \in Seq(S), NEW n \in {1, 2}, argc >= n, Drop(n)
  PROVE  argv' \in Seq(S)
  BY DEF Drop, argc

LEMMA ArgumentIsWord ==
  ASSUME NEW S, argv \in Seq(S), argc > 1
  PROVE  Argument \in S
  BY DEF Argument, argc

LEMMA WordsStep ==
  ASSUME WordsInv, StartNext
  PROVE  WordsInv'
<1> DEFINE W == Words(args)
           Load == [db: W, macros: W \cup {NULL}]
<1>0. argv \in Seq(W) /\ loads \in Seq(Load)
  BY DEF WordsInv
<1>1. CASE FirstOption
  <2>1. argv' \in Seq(W)
    BY <1>0, <1>1, DropKeepsWords DEF FirstOption, argc
  <2> QED BY <1>1, <2>1 DEF FirstOption, WordsInv
<1>2. CASE OptionA
  <2>1. argv' \in Seq(W) /\ acf' \in W
    BY <1>0, <1>2, DropKeepsWords, ArgumentIsWord DEF OptionA, InLoop, argc
  <2> QED BY <1>2, <2>1 DEF OptionA, WordsInv
<1>3. CASE OptionD
  <2>1. argv' \in Seq(W) /\ Argument \in W
    BY <1>0, <1>3, DropKeepsWords, ArgumentIsWord DEF OptionD, InLoop, argc
  <2>2. [db |-> Argument, macros |-> macros] \in Load
    BY <2>1 DEF WordsInv
  <2>3. loads' \in Seq(Load)
    <3> HIDE DEF Load
    <3>1. \/ loads' = loads
          \/ loads' = Append(loads, [db |-> Argument, macros |-> macros])
      BY <1>3 DEF OptionD
    <3> QED BY <1>0, <2>2, <3>1
  <2> QED BY <1>3, <2>1, <2>3 DEF OptionD, WordsInv
<1>4. CASE OptionM
  <2>1. argv' \in Seq(W) /\ macros' \in W
    BY <1>0, <1>4, DropKeepsWords, ArgumentIsWord DEF OptionM, InLoop, argc
  <2> QED BY <1>4, <2>1 DEF OptionM, WordsInv, iocVars
<1>5. CASE OptionS
  <2>1. argv' \in Seq(W)
    BY <1>0, <1>5, DropKeepsWords DEF OptionS, argc
  <2> QED BY <1>5, <2>1 DEF OptionS, WordsInv, iocVars
<1>6. CASE Usage \/ OptionsEnd \/ MainInit \/ ScriptBegins \/ ScriptEnds \/ AfterScript
           \/ ShellEnds \/ Command \/ UNCHANGED <<mainVars, iocVars>>
  BY <1>6 DEF Usage, OptionsEnd, MainInit, ScriptBegins, ScriptEnds, AfterScript, ShellEnds,
              Command, mainVars, iocVars, WordsInv
<1> QED BY <1>1, <1>2, <1>3, <1>4, <1>5, <1>6 DEF StartNext, Scan

LEMMA WordsAlways == StartSpec => []WordsInv
<1>1. StartInit => WordsInv
  BY IocAssumption DEF StartInit, WordsInv
<1>2. WordsInv /\ UNCHANGED startVars => WordsInv'
  BY DEF WordsInv, startVars, mainVars, iocVars
<1> QED BY <1>1, <1>2, WordsStep, PTL DEF StartSpec

(***************************************************************************)
(* No option of main takes an argument from behind the end of argv, for    *)
(* any command line at all.                                                *)
(***************************************************************************)
THEOREM ArgumentsAlwaysExist == StartSpec => []ArgumentsExist
<1>1. WordsInv => ArgumentsExist
  <2> SUFFICES ASSUME WordsInv PROVE ArgumentsExist
    OBVIOUS
  <2>1. Beyond \notin Words(args) /\ Beyond # NULL
    BY IocAssumption DEF WordsInv
  <2>2. \A i \in DOMAIN loads : loads[i].db \in Words(args)
    <3> DEFINE Load == [db: Words(args), macros: Words(args) \cup {NULL}]
    <3>1. loads \in Seq(Load)
      BY DEF WordsInv
    <3>2. \A l \in Load : l.db \in Words(args)
      OBVIOUS
    <3> HIDE DEF Load
    <3>3. \A i \in DOMAIN loads : loads[i] \in Load
      BY <3>1
    <3> QED BY <3>2, <3>3
  <2> QED BY <2>1, <2>2 DEF WordsInv, ArgumentsExist
<1> QED BY <1>1, WordsAlways, PTL

-----------------------------------------------------------------------------
(***************************************************************************)
(* The order of starting: the count goes with the IOC's state.  Before     *)
(* main gets to iocInit nothing is initialised, and loadedDb says if a -d  *)
(* option has loaded a database; after it, the state says whether there    *)
(* were also definitions that checkDatabase accepts.                       *)
(***************************************************************************)
CountInv ==
  /\ inits \in 0..1
  /\ iocState = "virgin" <=> inits = 0

OrderInv ==
  /\ mpc \in {"start", "options", "init"} =>
       /\ iocState = "virgin"
       /\ loads = <<>> => loadedDb = FALSE
       /\ loads # <<>> => loadedDb = TRUE
  /\ mpc = "run script" => (iocState # "virgin" <=> loads # <<>> /\ dbd = "good")

LEMMA CountStep ==
  ASSUME CountInv, StartNext
  PROVE  CountInv'
<1>1. CASE UNCHANGED <<iocState, inits>>
  BY <1>1 DEF CountInv
<1>2. CASE iocInit /\ MayBuild
  <2>1. inits = 0
    BY <1>2 DEF CountInv, MayBuild
  <2>2. inits' = inits + 1 \/ UNCHANGED <<iocState, inits>>
    BY <1>2 DEF iocInit
  <2>3. iocState' # "virgin" \/ UNCHANGED <<iocState, inits>>
    BY <1>2 DEF iocInit
  <2> QED BY <1>1, <2>1, <2>2, <2>3 DEF CountInv
<1>3. CASE iocState # "virgin" /\ iocState' # "virgin" /\ UNCHANGED inits
  BY <1>3 DEF CountInv
<1>4. iocInit => UNCHANGED <<iocState, inits>> \/ MayBuild
  BY DEF iocInit
<1>5. Command =>
        \/ UNCHANGED <<iocState, inits>>
        \/ iocInit
        \/ iocState # "virgin" /\ iocState' # "virgin" /\ UNCHANGED inits
  BY DEF Command
<1>6. MainInit => iocInit \/ UNCHANGED <<iocState, inits>>
  BY DEF MainInit
<1>7. StartNext => MainInit \/ Command \/ UNCHANGED <<iocState, inits>>
  BY DEF StartNext, FirstOption, OptionA, OptionD, OptionM, OptionS, Usage, OptionsEnd,
         ScriptBegins, ScriptEnds, AfterScript, ShellEnds, Scan, iocVars
<1> QED BY <1>1, <1>2, <1>3, <1>4, <1>5, <1>6, <1>7

LEMMA CountAlways == StartSpec => []CountInv
<1>1. StartInit => CountInv
  BY DEF StartInit, CountInv
<1>2. CountInv /\ UNCHANGED startVars => CountInv'
  BY DEF CountInv, startVars, iocVars
<1> QED BY <1>1, <1>2, CountStep, PTL DEF StartSpec

(***************************************************************************)
(* The records are initialised at most once, whatever the command line,    *)
(* the script and the shell ask for (iocBuild_1's test of iocState).       *)
(***************************************************************************)
THEOREM RecordsInitialisedOnce == StartSpec => []InitialisedOnce
<1>1. CountInv => InitialisedOnce
  BY DEF CountInv, InitialisedOnce
<1> QED BY <1>1, CountAlways, PTL

LEMMA LoadsGrow ==
  ASSUME WordsInv, OptionD, ~exit
  PROVE  loads' # <<>> /\ loadedDb' = TRUE
<1> DEFINE load == [db |-> Argument, macros |-> macros]
           Load == [db: Words(args), macros: Words(args) \cup {NULL}]
<1>1. load \in Load /\ loads \in Seq(Load)
  BY ArgumentIsWord DEF OptionD, InLoop, WordsInv
<1>2. loads' = Append(loads, load)
  BY DEF OptionD
<1>3. loadedDb' = TRUE
  BY DEF OptionD
<1> HIDE DEF load, Load
<1>4. Len(loads') = Len(loads) + 1 /\ Len(loads) \in Nat
  BY <1>1, <1>2
<1>5. Len(<<>>) = 0
  OBVIOUS
<1> QED BY <1>3, <1>4, <1>5

LEMMA OrderStep ==
  ASSUME WordsInv, OrderInv, StartNext
  PROVE  OrderInv'
<1>1. CASE FirstOption
  BY <1>1 DEF FirstOption, OrderInv, exit
<1>2. CASE OptionA
  BY <1>2 DEF OptionA, OrderInv
<1>3. CASE OptionD
  <2>1. CASE exit
    BY <2>1 DEF OrderInv, exit
  <2>2. CASE ~exit
    <3>1. loads' # <<>> /\ loadedDb' = TRUE
      BY <1>3, <2>2, LoadsGrow
    <3>2. mpc = "options" /\ UNCHANGED <<mpc, iocState>>
      BY <1>3, <2>2 DEF OptionD, InLoop
    <3> QED BY <3>1, <3>2 DEF OrderInv
  <2> QED BY <2>1, <2>2
<1>4. CASE OptionM
  BY <1>4 DEF OptionM, OrderInv, iocVars
<1>5. CASE OptionS
  BY <1>5 DEF OptionS, OrderInv, iocVars
<1>6. CASE Usage \/ OptionsEnd
  BY <1>6 DEF Usage, OptionsEnd, OrderInv, exit, iocVars
<1>7. CASE MainInit
  <2>1. mpc = "init" /\ mpc' = "run script" /\ UNCHANGED <<loads, dbd>>
    BY <1>7 DEF MainInit
  <2>2. CASE loads = <<>>
    <3>1. UNCHANGED iocState
      BY <1>7, <2>1, <2>2 DEF MainInit, OrderInv
    <3> QED BY <2>1, <2>2, <3>1 DEF OrderInv
  <2>3. CASE loads # <<>>
    <3>1. iocInit /\ MayBuild /\ iocState = "virgin"
      BY <1>7, <2>1, <2>3 DEF MainInit, OrderInv, MayBuild
    <3>2. iocState' # "virgin" <=> dbd = "good"
      BY <3>1 DEF iocInit, DatabaseOK
    <3> QED BY <2>1, <2>3, <3>2 DEF OrderInv
  <2> QED BY <2>2, <2>3
<1>8. CASE ScriptBegins \/ ScriptEnds \/ AfterScript \/ ShellEnds
  BY <1>8 DEF ScriptBegins, ScriptEnds, AfterScript, ShellEnds, OrderInv, exit
<1>9. CASE Command
  BY <1>9 DEF Command, OrderInv, mainVars
<1>10. CASE UNCHANGED <<mainVars, iocVars>>
  BY <1>10 DEF OrderInv, mainVars, iocVars
<1> QED
  BY <1>1, <1>2, <1>3, <1>4, <1>5, <1>6, <1>7, <1>8, <1>9, <1>10 DEF StartNext, Scan

LEMMA OrderAlways == StartSpec => []OrderInv
<1>1. StartInit => OrderInv
  BY DEF StartInit, OrderInv
<1>2. OrderInv /\ UNCHANGED startVars => OrderInv'
  BY DEF OrderInv, startVars, mainVars, iocVars
<1>3. WordsInv /\ OrderInv /\ [StartNext]_startVars => OrderInv'
  BY <1>2, OrderStep
<1> QED BY <1>1, <1>3, WordsAlways, PTL DEF StartSpec

(***************************************************************************)
(* For any command line and any definitions, the script runs after iocInit *)
(* exactly if a database was loaded and checkDatabase accepts the          *)
(* definitions: main's text for -h has the first condition only.           *)
(***************************************************************************)
THEOREM ScriptInOrder == StartSpec => ScriptAfterInit
<1> DEFINE Step == mpc # "script" /\ mpc' = "script" => (inits > 0 <=> loads # <<>> /\ dbd = "good")
<1>1. StartNext /\ mpc # "script" /\ mpc' = "script" => mpc = "run script"
  BY DEF StartNext, FirstOption, OptionA, OptionD, OptionM, OptionS, Usage,
         OptionsEnd, MainInit, ScriptBegins, ScriptEnds, AfterScript, ShellEnds, Command, Scan,
         exit, mainVars
<1>2. CountInv => (inits > 0 <=> iocState # "virgin")
  BY DEF CountInv
<1>3. OrderInv /\ mpc = "run script" => (iocState # "virgin" <=> loads # <<>> /\ dbd = "good")
  BY DEF OrderInv
<1>4. CountInv /\ OrderInv /\ [StartNext]_startVars => [Step]_startVars
  BY <1>1, <1>2, <1>3
<1> QED BY <1>4, CountAlways, OrderAlways, PTL DEF StartSpec, ScriptAfterInit

-----------------------------------------------------------------------------
(***************************************************************************)
(* What main has read of a command line are its first n words.  No option  *)
(* is given "-a", "-d" or "-m" for its argument: a reader of the line      *)
(* would not know which was meant.                                         *)
(***************************************************************************)
PlainArguments ==
  \A line \in CommandLines : \A i \in 1..(Len(line) - 1) :
    line[i] \in {"-D", "-a", "-d", "-m"} => line[i + 1] \notin {"-a", "-d", "-m"}

DbsIn(line, n) == {i \in 1..n : line[i] = "-d"}

AsIn(line, n) == {i \in 1..n : line[i] = "-a"}

\* The macros for access security.
AsMacros(line, n) ==
  IF AsIn(line, n) = {} THEN NULL ELSE MacrosBefore(line, Max(AsIn(line, n)))

LoadAt(line, i) == [db |-> line[i + 1], macros |-> MacrosBefore(line, i)]

LoadsFit(line, n, l) ==
  /\ Len(l) = Cardinality(DbsIn(line, n))
  /\ \A i \in DbsIn(line, n) : l[Cardinality({j \in DbsIn(line, n) : j <= i})] = LoadAt(line, i)

LEMMA DbsFinite ==
  ASSUME NEW line, NEW n \in Nat
  PROVE  /\ IsFiniteSet(DbsIn(line, n))
         /\ Cardinality(DbsIn(line, n)) \in Nat
         /\ \A i : /\ IsFiniteSet({j \in DbsIn(line, n) : j <= i})
                   /\ Cardinality({j \in DbsIn(line, n) : j <= i}) \in Nat
                   /\ Cardinality({j \in DbsIn(line, n) : j <= i})
                        <= Cardinality(DbsIn(line, n))
<1>1. IsFiniteSet(1..n)
  BY FS_Interval
<1>2. DbsIn(line, n) \in SUBSET (1..n)
  BY DEF DbsIn
<1>3. IsFiniteSet(DbsIn(line, n))
  BY <1>1, <1>2, FS_Subset
<1>4. Cardinality(DbsIn(line, n)) \in Nat
  BY <1>3, FS_CardinalityType
<1>5. ASSUME NEW i
      PROVE  /\ IsFiniteSet({j \in DbsIn(line, n) : j <= i})
             /\ Cardinality({j \in DbsIn(line, n) : j <= i}) \in Nat
             /\ Cardinality({j \in DbsIn(line, n) : j <= i}) <= Cardinality(DbsIn(line, n))
  <2> DEFINE S == {j \in DbsIn(line, n) : j <= i}
  <2>1. S \in SUBSET DbsIn(line, n)
    OBVIOUS
  <2> HIDE DEF S
  <2>2. IsFiniteSet(S) /\ Cardinality(S) <= Cardinality(DbsIn(line, n))
    BY <1>3, <2>1, FS_Subset
  <2>3. Cardinality(S) \in Nat
    BY <2>2, FS_CardinalityType
  <2> QED BY <2>2, <2>3 DEF S
<1> QED BY <1>3, <1>4, <1>5

\* Words that are none of "-a", "-d" and "-m" change nothing.
LEMMA PassOver ==
  ASSUME NEW line, NEW n \in Nat, line[n + 1] \notin {"-a", "-d", "-m"}
  PROVE  /\ DbsIn(line, n + 1) = DbsIn(line, n)
         /\ AsMacros(line, n + 1) = AsMacros(line, n)
         /\ MacrosBefore(line, (n + 1) + 1) = MacrosBefore(line, n + 1)
<1>1. DbsIn(line, n + 1) = DbsIn(line, n)
  BY DEF DbsIn
<1>2. {j \in 1..(((n + 1) + 1) - 1) : line[j] = "-m"} = {j \in 1..((n + 1) - 1) : line[j] = "-m"}
  OBVIOUS
<1>3. AsIn(line, n + 1) = AsIn(line, n)
  BY DEF AsIn
<1> QED BY <1>1, <1>2, <1>3 DEF MacrosBefore, AsMacros

\* "-a" takes the macros of its place.
LEMMA NewAs ==
  ASSUME NEW line, NEW n \in Nat, line[n + 1] = "-a", line[n + 2] # "-a"
  PROVE  AsMacros(line, n + 2) = MacrosBefore(line, n + 1)
<1> DEFINE places == AsIn(line, n + 2)
<1>1. n + 1 \in places /\ \A j \in places : j \in Int /\ j <= n + 1
  BY DEF AsIn
<1> HIDE DEF places
<1>2. /\ Max(places) \in places
      /\ \A y \in places : Max(places) >= y
  BY <1>1 DEF Max
<1>3. Max(places) = n + 1
  <2>1. Max(places) \in Int /\ Max(places) <= n + 1
    BY <1>1, <1>2
  <2>2. Max(places) >= n + 1
    BY <1>1, <1>2
  <2> QED BY <2>1, <2>2
<1> QED BY <1>1, <1>3 DEF AsMacros, places

\* "-m" gives the macros of what follows.
LEMMA NewMacros ==
  ASSUME NEW line, NEW n \in Nat, line[n + 1] = "-m", line[n + 2] # "-m"
  PROVE  MacrosBefore(line, n + 3) = line[n + 2]
<1> DEFINE ms == {j \in 1..((n + 3) - 1) : line[j] = "-m"}
<1>1. n + 1 \in ms /\ \A j \in ms : j \in Int /\ j <= n + 1
  OBVIOUS
<1> HIDE DEF ms
<1>2. /\ Max(ms) \in ms
      /\ \A y \in ms : Max(ms) >= y
  BY <1>1 DEF Max
<1>3. Max(ms) = n + 1
  BY <1>1, <1>2
<1>4. MacrosBefore(line, n + 3) = line[Max(ms) + 1]
  BY <1>1 DEF MacrosBefore, ms
<1>5. (n + 1) + 1 = n + 2
  OBVIOUS
<1> QED BY <1>3, <1>4, <1>5

\* "-d" loads one more database, with the macros of this place.
LEMMA NewDb ==
  ASSUME NEW line, NEW n \in Nat, line[n + 1] = "-d", line[n + 2] \notin {"-a", "-d", "-m"},
         NEW S, NEW l \in Seq(S), LoadsFit(line, n, l), LoadAt(line, n + 1) \in S
  PROVE  LoadsFit(line, n + 2, Append(l, LoadAt(line, n + 1)))
<1> DEFINE D == DbsIn(line, n)
           E == DbsIn(line, n + 2)
           k == Append(l, LoadAt(line, n + 1))
<1>1. E = D \cup {n + 1} /\ n + 1 \notin D /\ \A i \in D : i \in Int /\ i <= n
  BY DEF DbsIn
<1>2. IsFiniteSet(D)
  BY DbsFinite
<1>3. Cardinality(E) = Cardinality(D) + 1 /\ Cardinality(D) \in Nat
  BY <1>1, <1>2, FS_AddElement, FS_CardinalityType
<1>4. Len(l) = Cardinality(D)
  BY DEF LoadsFit
<1>5. /\ Len(k) = Len(l) + 1 /\ k[Len(l) + 1] = LoadAt(line, n + 1)
      /\ \A i \in 1..Len(l) : k[i] = l[i]
  OBVIOUS
<1>6. ASSUME NEW i \in E
      PROVE  k[Cardinality({j \in E : j <= i})] = LoadAt(line, i)
  <2>1. CASE i \in D
    <3>1. {j \in E : j <= i} = {j \in D : j <= i}
      BY <1>1, <2>1
    <3> DEFINE below == {j \in D : j <= i}
    <3>2. IsFiniteSet(below) /\ Cardinality(below) \in Nat /\ Cardinality(below) <= Len(l)
      BY <1>4, DbsFinite
    <3>3. i \in below
      BY <1>1, <2>1
    <3>4. l[Cardinality(below)] = LoadAt(line, i)
      BY <2>1 DEF LoadsFit
    <3> HIDE DEF below, D
    <3>5. Cardinality(below) # 0
      BY <3>2, <3>3, FS_EmptySet
    <3>6. Cardinality(below) \in 1..Len(l)
      BY <1>3, <1>4, <3>2, <3>5
    <3> HIDE DEF k
    <3>7. k[Cardinality(below)] = LoadAt(line, i)
      BY <1>5, <3>4, <3>6
    <3> QED BY <3>1, <3>7 DEF below
  <2>2. CASE i = n + 1
    <3>0. \A j \in E : j <= n + 1
      BY <1>1
    <3>1. {j \in E : j <= i} = E
      <4> HIDE DEF E
      <4> QED BY <2>2, <3>0
    <3>2. Cardinality(E) = Len(l) + 1
      BY <1>3, <1>4
    <3> HIDE DEF k, E
    <3> QED BY <1>5, <2>2, <3>1, <3>2
  <2> QED BY <1>1, <1>6, <2>1, <2>2
<1> HIDE DEF k, E, D
<1>7. Len(k) = Cardinality(E)
  BY <1>3, <1>4, <1>5
<1> QED BY <1>6, <1>7 DEF LoadsFit, k, E

-----------------------------------------------------------------------------
Parsed == Len(args) - argc

ParsedInv ==
  /\ argc <= Len(args)
  /\ \A i \in 1..argc : argv[i] = args[Parsed + i]
  /\ macros = MacrosBefore(args, Parsed + 1)
  /\ substitutions = AsMacros(args, Parsed)
  /\ macros = NULL => substitutions = NULL
  /\ LoadsFit(args, Parsed, loads)

LEMMA ParsedTypes ==
  ASSUME WordsInv, ParsedInv
  PROVE  /\ argc \in Nat /\ Len(args) \in Nat /\ Parsed \in Nat
         /\ argc + Parsed = Len(args)
<1>1. argc \in Nat /\ Len(args) \in Nat
  BY IocAssumption DEF WordsInv, argc
<1> QED BY <1>1 DEF ParsedInv, Parsed

\* Options go over one or two words, and the rest of the line stays in step.
LEMMA DropParses ==
  ASSUME WordsInv, ParsedInv, NEW n \in {1, 2}, argc >= n, Drop(n), args' = args
  PROVE  /\ Parsed' = Parsed + n
         /\ argc' <= Len(args')
         /\ \A i \in 1..argc' : argv'[i] = args'[Parsed' + i]
<1>1. argv \in Seq(Words(args)) /\ argc = Len(argv)
  BY DEF WordsInv, argc
<1>2. /\ argc' = argc - n
      /\ \A i \in 1..(argc - n) : argv'[i] = argv[i + n]
  BY <1>1 DEF Drop, argc
<1>3. argc \in Nat /\ Len(args) \in Nat /\ Parsed \in Nat /\ argc + Parsed = Len(args)
  BY ParsedTypes
<1>4. Parsed' = Parsed + n /\ argc' <= Len(args')
  BY <1>2, <1>3 DEF Parsed
<1>5. ASSUME NEW i \in 1..argc' PROVE argv'[i] = args'[Parsed' + i]
  <2>1. i \in 1..(argc - n) /\ i + n \in 1..argc /\ Parsed + (i + n) = (Parsed + n) + i
    BY <1>2, <1>3, <1>5
  <2>2. argv[i + n] = args[Parsed + (i + n)]
    BY <2>1 DEF ParsedInv
  <2> QED BY <1>2, <1>4, <2>1, <2>2
<1> QED BY <1>4, <1>5

LEMMA WordsAhead ==
  ASSUME WordsInv, ParsedInv, argc >= 1
  PROVE  /\ argv[1] = args[Parsed + 1]
         /\ argc > 1 => argv[2] = args[Parsed + 2] /\ argv[2] = Argument
         /\ PlainArguments /\ argc > 1 /\ argv[1] \in {"-D", "-a", "-d", "-m"} =>
              args[Parsed + 2] \notin {"-a", "-d", "-m"}
<1>1. argc \in Nat /\ Len(args) \in Nat /\ Parsed \in Nat /\ argc + Parsed = Len(args)
  BY ParsedTypes
<1>2. argv[1] = args[Parsed + 1]
  BY <1>1 DEF ParsedInv
<1>3. argc > 1 => argv[2] = args[Parsed + 2] /\ argv[2] = Argument
  BY <1>1 DEF ParsedInv, Argument
<1>4. ASSUME PlainArguments, argc > 1, argv[1] \in {"-D", "-a", "-d", "-m"}
      PROVE  args[Parsed + 2] \notin {"-a", "-d", "-m"}
  <2>1. Parsed + 1 \in 1..(Len(args) - 1) /\ (Parsed + 1) + 1 = Parsed + 2
    BY <1>1, <1>4
  <2>2. args \in CommandLines
    BY DEF WordsInv
  <2>3. args[(Parsed + 1) + 1] \notin {"-a", "-d", "-m"}
    BY <1>2, <1>4, <2>1, <2>2 DEF PlainArguments
  <2> QED BY <2>1, <2>3
<1> QED BY <1>2, <1>3, <1>4

\* An option that is none of -a, -d and -m, with its argument.
LEMMA OtherOption ==
  ASSUME WordsInv, ParsedInv, PlainArguments, argc > 1, argv[1] = "-D", Drop(2),
         UNCHANGED <<args, macros, substitutions, loads>>
  PROVE  ParsedInv'
<1>1. args[Parsed + 1] \notin {"-a", "-d", "-m"} /\ args[Parsed + 2] \notin {"-a", "-d", "-m"}
  BY WordsAhead, ParsedTypes
<1>2. Parsed \in Nat /\ Parsed + 1 \in Nat /\ (Parsed + 1) + 1 = Parsed + 2
  BY ParsedTypes
<1>3. /\ DbsIn(args, Parsed + 2) = DbsIn(args, Parsed)
      /\ AsMacros(args, Parsed + 2) = AsMacros(args, Parsed)
      /\ MacrosBefore(args, (Parsed + 2) + 1) = MacrosBefore(args, Parsed + 1)
  BY <1>1, <1>2, PassOver
<1>4. argc >= 2
  BY ParsedTypes
<1> QED BY <1>3, <1>4, DropParses DEF ParsedInv, LoadsFit

LEMMA ParsedStep ==
  ASSUME PlainArguments, WordsInv, ParsedInv, StartNext
  PROVE  ParsedInv'
<1>1. CASE UNCHANGED <<args, argv, macros, substitutions, loads>>
  BY <1>1 DEF ParsedInv, Parsed, argc
<1>2. CASE FirstOption
  <2>1. FirstOption => \/ UNCHANGED <<args, argv, macros, substitutions, loads>>
                       \/ /\ argc > 1 /\ argv[1] = "-D" /\ Drop(2)
                          /\ UNCHANGED <<args, macros, substitutions, loads>>
    BY DEF FirstOption
  <2> QED BY <1>1, <1>2, <2>1, OtherOption
<1>3. CASE OptionA
  <2>1. /\ argc > 1 /\ argv[1] = "-a" /\ Drop(2) /\ UNCHANGED <<args, macros, loads>>
        /\ substitutions' = IF macros # NULL THEN macros ELSE substitutions
    BY <1>3 DEF OptionA, InLoop
  <2>2. args[Parsed + 1] = "-a" /\ args[Parsed + 2] \notin {"-a", "-d", "-m"}
    BY <2>1, WordsAhead, ParsedTypes
  <2>3. Parsed \in Nat /\ argc >= 2 /\ (Parsed + 2) + 1 = Parsed + 3
    BY <2>1, ParsedTypes
  <2>4. substitutions' = macros
    BY <2>1 DEF ParsedInv
  <2>5. AsMacros(args, Parsed + 2) = macros
    BY <2>2, <2>3, NewAs DEF ParsedInv
  <2>6. DbsIn(args, Parsed + 2) = DbsIn(args, Parsed)
    BY <2>2, <2>3 DEF DbsIn
  <2>7. MacrosBefore(args, (Parsed + 2) + 1) = macros
    <3>1. {j \in 1..(((Parsed + 2) + 1) - 1) : args[j] = "-m"}
            = {j \in 1..((Parsed + 1) - 1) : args[j] = "-m"}
      BY <2>2, <2>3
    <3> QED BY <3>1 DEF MacrosBefore, ParsedInv
  <2> QED BY <2>1, <2>3, <2>4, <2>5, <2>6, <2>7, DropParses DEF ParsedInv, LoadsFit
<1>4. CASE OptionM
  <2>1. argc > 1 /\ argv[1] = "-m" /\ macros' = Argument /\ Drop(2)
        /\ UNCHANGED <<args, substitutions, loads>>
    BY <1>4 DEF OptionM, InLoop, iocVars
  <2>2. /\ args[Parsed + 1] = "-m" /\ args[Parsed + 2] \notin {"-a", "-d", "-m"}
        /\ macros' = args[Parsed + 2]
    BY <2>1, WordsAhead, ParsedTypes
  <2>3. Parsed \in Nat /\ argc >= 2 /\ (Parsed + 2) + 1 = Parsed + 3
    BY <2>1, ParsedTypes
  <2>4. MacrosBefore(args, (Parsed + 2) + 1) = args[Parsed + 2]
    BY <2>2, <2>3, NewMacros
  <2>5. DbsIn(args, Parsed + 2) = DbsIn(args, Parsed)
    BY <2>2, <2>3 DEF DbsIn
  <2>6. AsMacros(args, Parsed + 2) = AsMacros(args, Parsed)
    <3>1. AsIn(args, Parsed + 2) = AsIn(args, Parsed)
      BY <2>2, <2>3 DEF AsIn
    <3> QED BY <3>1 DEF AsMacros
  <2>7. macros' # NULL
    <3>1. macros' \in Words(args)
      BY <2>1, ArgumentIsWord DEF WordsInv
    <3> QED BY <3>1, IocAssumption DEF WordsInv
  <2> QED BY <2>1, <2>2, <2>3, <2>4, <2>5, <2>6, <2>7, DropParses DEF ParsedInv, LoadsFit
<1>5. CASE OptionD
  <2> SUFFICES ASSUME ~UNCHANGED <<args, argv, macros, substitutions, loads>> PROVE ParsedInv'
    BY <1>1
  <2>1. /\ argc > 1 /\ argv[1] = "-d" /\ Drop(2) /\ UNCHANGED <<args, macros, substitutions>>
        /\ loads' = Append(loads, [db |-> Argument, macros |-> macros])
    BY <1>5 DEF OptionD, InLoop
  <2>2. /\ args[Parsed + 1] = "-d" /\ args[Parsed + 2] \notin {"-a", "-d", "-m"}
        /\ Argument = args[Parsed + 2]
    BY <2>1, WordsAhead, ParsedTypes
  <2>3. Parsed \in Nat /\ argc >= 2 /\ Parsed + 1 \in Nat /\ (Parsed + 1) + 1 = Parsed + 2
    BY <2>1, ParsedTypes
  <2>4. LoadAt(args, Parsed + 1) = [db |-> Argument, macros |-> macros]
    BY <2>2, <2>3 DEF LoadAt, ParsedInv
  <2> DEFINE L == [db: Words(args), macros: Words(args) \cup {NULL}]
  <2>5. loads \in Seq(L)
    BY DEF WordsInv
  <2>6. LoadAt(args, Parsed + 1) \in L
    BY <2>1, <2>4, ArgumentIsWord DEF WordsInv
  <2> HIDE DEF L
  <2>7. LoadsFit(args, Parsed + 2, loads')
    BY <2>1, <2>2, <2>3, <2>4, <2>5, <2>6, NewDb DEF ParsedInv
  <2>8. MacrosBefore(args, (Parsed + 2) + 1) = macros
    <3>1. {j \in 1..(((Parsed + 2) + 1) - 1) : args[j] = "-m"}
            = {j \in 1..((Parsed + 1) - 1) : args[j] = "-m"}
      BY <2>2, <2>3
    <3> QED BY <3>1 DEF MacrosBefore, ParsedInv
  <2>9. AsMacros(args, Parsed + 2) = AsMacros(args, Parsed)
    <3>1. AsIn(args, Parsed + 2) = AsIn(args, Parsed)
      BY <2>2, <2>3 DEF AsIn
    <3> QED BY <3>1 DEF AsMacros
  <2> QED BY <2>1, <2>3, <2>7, <2>8, <2>9, DropParses DEF ParsedInv
<1>6. CASE OptionS
  <2>1. argc >= 1 /\ argv[1] \in {"-S", "-s"} /\ Drop(1)
        /\ UNCHANGED <<args, macros, substitutions, loads>>
    BY <1>6, ParsedTypes DEF OptionS, iocVars
  <2>2. args[Parsed + 1] \notin {"-a", "-d", "-m"}
    BY <2>1, WordsAhead
  <2>3. Parsed \in Nat
    BY ParsedTypes
  <2>4. /\ DbsIn(args, Parsed + 1) = DbsIn(args, Parsed)
        /\ AsMacros(args, Parsed + 1) = AsMacros(args, Parsed)
        /\ MacrosBefore(args, (Parsed + 1) + 1) = MacrosBefore(args, Parsed + 1)
    BY <2>2, <2>3, PassOver
  <2> QED BY <2>1, <2>4, DropParses DEF ParsedInv, LoadsFit
<1> QED BY <1>1, <1>2, <1>3, <1>4, <1>5, <1>6
        DEF StartNext, Usage, OptionsEnd, MainInit, ScriptBegins, ScriptEnds, AfterScript,
            ShellEnds, Command, Scan, mainVars, iocVars

(***************************************************************************)
(* For any command line whose options have plain arguments, the databases  *)
(* of its -d options are loaded in order, each with the macros of the last *)
(* -m before it ("Each later -m option causes earlier macros to be         *)
(* discarded", main), and access security takes those before the last -a.  *)
(***************************************************************************)
THEOREM MacrosAlwaysApply ==
  ASSUME PlainArguments
  PROVE  StartSpec => []MacrosApply
<1>1. StartInit => ParsedInv
  <2> SUFFICES ASSUME StartInit PROVE ParsedInv
    OBVIOUS
  <2>1. Len(args) \in Nat /\ argv = args /\ argc = Len(args) /\ macros = NULL /\ loads = <<>>
        /\ substitutions = NULL
    BY IocAssumption DEF StartInit, argc
  <2>2. Parsed = 0
    BY <2>1 DEF Parsed
  <2>3. DbsIn(args, 0) = {} /\ AsMacros(args, 0) = NULL /\ MacrosBefore(args, 0 + 1) = NULL
    BY DEF DbsIn, AsIn, AsMacros, MacrosBefore
  <2>4. LoadsFit(args, 0, <<>>)
    BY <2>3, FS_EmptySet DEF LoadsFit
  <2> QED BY <2>1, <2>2, <2>3, <2>4 DEF ParsedInv
<1>2. ParsedInv /\ UNCHANGED startVars => ParsedInv'
  BY DEF ParsedInv, Parsed, argc, startVars, mainVars, iocVars
<1>3. WordsInv /\ ParsedInv /\ [StartNext]_startVars => ParsedInv'
  BY <1>2, ParsedStep
<1>4. ParsedInv => MacrosApply
  BY DEF ParsedInv, LoadsFit, DbsIn, LoadAt, AsIn, AsMacros, Parsed, MacrosApply
<1> QED BY <1>1, <1>3, <1>4, WordsAlways, PTL DEF StartSpec

=============================================================================
