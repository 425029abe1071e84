------------------------- MODULE AnalogRecordProofs -------------------------
(* The conversions of the thresholds for every setpoint of the chip, and   *)
(* the records for any limits, deadbands and values.                       *)
EXTENDS AnalogRecord, TLAPS

(***************************************************************************)
(* A setpoint becomes the same number of 1/256 degC, or one more if it is  *)
(* negative.                                                               *)
(***************************************************************************)
LEMMA t256Value ==
  ASSUME NEW s \in ChipRange
  PROVE  t256(32 * s) = IF s >= 0 THEN 16 * s ELSE 16 * s + 1
<1> s \in Int
  BY DEF ChipRange
<1>1. CASE s >= 0
  BY <1>1 DEF t256, TruncDiv
<1>2. CASE s < 0
  <2>1. -(32 * s + 1) >= 0 /\ -(32 * s + 1) \in Int
    BY <1>2
  <2>2. (-(32 * s + 1)) \div 2 = -(16 * s) - 1
    BY <1>2
  <2> QED BY <1>2, <2>1, <2>2 DEF t256, TruncDiv
<1> QED BY <1>1, <1>2

(***************************************************************************)
(* What the chip keeps of the encoded setpoint: the bytes of its two's     *)
(* complement.  The chip cuts off the excess of a negative one.            *)
(***************************************************************************)
LEMMA KeptBytes ==
  \A s \in ChipRange : Stored(s) = <<(s \div 16) % 256, 16 * (s % 16)>>
<1> TAKE s \in ChipRange
<1> s \in Int
  BY DEF ChipRange
<1>1. PICK d \in {0, 1} : t256(32 * s) = 16 * s + d
  BY t256Value
<1>2. (16 * s + d) \div 256 = s \div 16
  OBVIOUS
<1>3. (16 * s + d) % 256 = 16 * (s % 16) + d
  OBVIOUS
<1>4. s % 16 \in 0..15
  OBVIOUS
<1>5. \A n \in 0..15 : (16 * n + d) - ((16 * n + d) % 16) = 16 * n
  OBVIOUS
<1>6. Encode(32 * s) = <<(s \div 16) % 256, 16 * (s % 16) + d>>
  BY <1>1, <1>2, <1>3 DEF Encode
<1> QED BY <1>4, <1>5, <1>6 DEF Stored, Keep

LEMMA MeansSetpoint ==
  \A s \in ChipRange : Means(Stored(s)) = 16 * s
<1> SUFFICES ASSUME NEW s \in ChipRange
             PROVE  Means(<<(s \div 16) % 256, 16 * (s % 16)>>) = 16 * s
  BY KeptBytes
<1>1. 256 * ((s \div 16) % 256) + 16 * (s % 16) = IF s >= 0 THEN 16 * s ELSE 16 * s + 65536
  BY DEF ChipRange
<1> QED BY <1>1 DEF Means, ChipRange

(***************************************************************************)
(* With unsigned chars, the decoded bytes of a setpoint of zero or above   *)
(* are what the chip means by them.                                        *)
(***************************************************************************)
LEMMA DecodesNonNegative ==
  ASSUME CharSigned = FALSE
  PROVE  \A s \in ChipRange : s >= 0 => Decode(Stored(s)) = 16 * s
<1> TAKE s \in ChipRange
<1> HAVE s >= 0
<1>1. 256 * ((s \div 16) % 256) + 16 * (s % 16) = 16 * s
  BY DEF ChipRange
<1>2. Decode(<<(s \div 16) % 256, 16 * (s % 16)>>) = 16 * s
  BY <1>1 DEF Decode, AsChar
<1>3. Stored(s) = <<(s \div 16) % 256, 16 * (s % 16)>>
  BY KeptBytes
<1> QED BY <1>2, <1>3

(***************************************************************************)
(* The register holds the last setpoint's bytes, a fresh VAL what they     *)
(* decode to.                                                              *)
(***************************************************************************)
CodecInv ==
  /\ setpoint \in ChipRange
  /\ reg = Stored(setpoint)
  /\ fresh => val = Decode(reg)

LEMMA CodecInvariant == CodecSpec => []CodecInv
<1>1. CodecInit => CodecInv
  <2> SUFFICES ASSUME CodecInit PROVE CodecInv
    OBVIOUS
  <2>1. 0 \in ChipRange /\ Stored(0) = <<0, 0>>
    BY KeptBytes DEF ChipRange
  <2>2. Decode(<<0, 0>>) = 0
    BY DEF Decode, AsChar
  <2> QED BY <2>1, <2>2 DEF CodecInit, CodecInv
<1>2. CodecInv /\ [CodecNext]_codecVars => CodecInv'
  <2> SUFFICES ASSUME CodecInv, [CodecNext]_codecVars PROVE CodecInv'
    OBVIOUS
  <2>1. ASSUME NEW s \in Setpoints, SetThreshold(s) PROVE CodecInv'
    BY <2>1, CodecAssumption DEF SetThreshold, CodecInv
  <2>2. CASE ReadBack
    BY <2>2 DEF ReadBack, CodecInv
  <2>3. CASE UNCHANGED codecVars
    BY <2>3 DEF codecVars, CodecInv
  <2> QED BY <2>1, <2>2, <2>3 DEF CodecNext
<1> QED BY <1>1, <1>2, PTL DEF CodecSpec

(***************************************************************************)
(* For every setpoint in the chip's range, negative ones included, the     *)
(* threshold the chip acts on is the one access_ds75_details was given.    *)
(***************************************************************************)
THEOREM CodecThresholdStored == CodecSpec => []ThresholdStored
<1>1. CodecInv => ThresholdStored
  BY MeansSetpoint DEF CodecInv, ThresholdStored
<1> QED BY <1>1, CodecInvariant, PTL

(***************************************************************************)
(* On a machine with unsigned chars, every value of zero degC or above     *)
(* reads back exactly.                                                     *)
(***************************************************************************)
THEOREM CodecNonNegativeReadsBack ==
  ASSUME CharSigned = FALSE
  PROVE  CodecSpec => []NonNegativeReadsBack
<1>1. CodecInv => NonNegativeReadsBack
  <2> SUFFICES ASSUME CodecInv, fresh, setpoint >= 0 PROVE val = Means(reg)
    BY DEF NonNegativeReadsBack
  <2>1. Decode(Stored(setpoint)) = Means(Stored(setpoint))
    BY DecodesNonNegative, MeansSetpoint DEF CodecInv
  <2> QED BY <2>1 DEF CodecInv
<1> QED BY <1>1, CodecInvariant, PTL

-----------------------------------------------------------------------------
(***************************************************************************)
(* The records only add to what DS75Codec says of the registers: a reading *)
(* is a ReadBack, everything else but a new threshold leaves them alone.   *)
(***************************************************************************)
THEOREM RecordImplementsCodec == RecordSpec => CodecSpec
<1>1. RecordInit => CodecInit
  BY DEF RecordInit
<1>2. [RecordNext]_recordVars => [CodecNext]_codecVars
  BY DEF RecordNext, CodecNext, recordVars, AiReads, AiFails, AoRejects, AoWrites, AoFails
<1> QED BY <1>1, <1>2, PTL DEF RecordSpec, CodecSpec

(***************************************************************************)
(* Below an ai record and among ao writes too, the threshold the chip acts *)
(* on is the one access_ds75_details was given.                            *)
(***************************************************************************)
THEOREM RecordThresholdStored == RecordSpec => []ThresholdStored
BY RecordImplementsCodec, CodecThresholdStored, PTL

-----------------------------------------------------------------------------
(***************************************************************************)
(* Whatever byte init_record_ao found, and for every value, NaN included,  *)
(* that clients write to the ao record of the config byte, and whatever of *)
(* it arrives: from the first write on, without UDF and alarm, the record  *)
(* shows what the chip holds (write_ao).                                   *)
(***************************************************************************)
THEOREM RecordOutputShown == RecordSpec => []OutputShown
<1>1. RecordInit => OutputShown
  BY DEF RecordInit, OutputShown
<1>2. OutputShown /\ [RecordNext]_recordVars => OutputShown'
  <2> SUFFICES ASSUME OutputShown, [RecordNext]_recordVars PROVE OutputShown'
    OBVIOUS
  <2>1. ASSUME NEW v \in ConfigValues \cup {NaN}, AoRejects(v) \/ AoFails(v)
        PROVE  OutputShown'
    BY <2>1 DEF AoRejects, AoFails, OutputShown
  <2>2. ASSUME NEW v \in ConfigValues \cup {NaN}, AoWrites(v) PROVE OutputShown'
    <3>1. CASE v = NaN
      BY <2>2, <3>1 DEF AoWrites, AoSevr, OutputShown, NO_ALARM, INVALID
    <3>2. CASE v # NaN
      <4>1. v \in Int /\ v >= 0 /\ v <= 510
        BY <2>2, <3>2, RecordAssumption DEF AoWrites, OutOfRange
      <4>2. cfg' = ((v + 1) \div 2) % 256 /\ ao'.val = v
        BY <2>2, <3>2 DEF AoWrites, ConfigBytes
      <4>3. 2 * (((v + 1) \div 2) % 256) - v \in {0, 1}
        BY <4>1
      <4> QED BY <3>2, <4>2, <4>3 DEF OutputShown
    <3> QED BY <3>1, <3>2
  <2>3. CASE UNCHANGED outVars
    BY <2>3 DEF OutputShown, outVars
  <2> QED BY <2>1, <2>2, <2>3 DEF RecordNext, recordVars, AiReads, AiFails
<1> QED BY <1>1, <1>2, PTL DEF RecordSpec

-----------------------------------------------------------------------------
LEMMA DistanceBounds ==
  ASSUME NEW a \in Int, NEW b \in Int, NEW c \in Int
  PROVE  /\ Distance(a, b) \in Nat /\ Distance(a, a) = 0
         /\ Distance(a, b) = Distance(b, a)
         /\ Distance(a, c) <= Distance(a, b) + Distance(b, c)
BY DEF Distance

LEMMA DecodeType ==
  ASSUME NEW s \in ChipRange
  PROVE  Decode(Stored(s)) \in Int
<1>1. Stored(s) = <<(s \div 16) % 256, 16 * (s % 16)>>
  BY KeptBytes
<1>2. (s \div 16) % 256 \in Int /\ 16 * (s % 16) \in Int
  BY DEF ChipRange
<1>3. ASSUME NEW b \in Int PROVE AsChar(b) \in Int
  BY DEF AsChar
<1> QED BY <1>1, <1>2, <1>3 DEF Decode

(***************************************************************************)
(* Neither the client's value nor VAL is more than MDEL away from MLST:    *)
(* the value because MLST follows it, the client's because an update for   *)
(* an alarm alone is sent while VAL is that close.                         *)
(***************************************************************************)
MonitorInv ==
  /\ val \in Int /\ ai.mlst \in Int /\ client.val \in Int
  /\ Distance(ai.mlst, val) <= MDEL
  /\ Distance(ai.mlst, client.val) <= MDEL
  /\ client.sevr = ai.sevr
  /\ (ai.sevr = INVALID) <=> ai.udf

LEMMA FinishKeeps ==
  ASSUME MonitorInv, NEW v \in Int, val' = v, NEW udf \in BOOLEAN, NEW stat,
         NEW sevr, NEW lalm, (sevr = INVALID) <=> udf, Finish(v, udf, stat, sevr, lalm)
  PROVE  MonitorInv'
<1> MDEL \in Nat
  BY RecordAssumption
<1> USE DEF MonitorInv
<1>1. ai'.sevr = sevr /\ ai'.udf = udf
  BY DEF Finish
<1>2. CASE Distance(ai.mlst, v) > MDEL
  <2>1. ai'.mlst = v /\ client' = [val |-> v, sevr |-> sevr]
    BY <1>2 DEF Finish, Posted
  <2> QED BY <1>1, <2>1, DistanceBounds
<1>3. CASE ~(Distance(ai.mlst, v) > MDEL)
  <2>1. ai'.mlst = ai.mlst
    BY <1>3 DEF Finish
  <2>2. ai.mlst \in Int
    OBVIOUS
  <2>3. Distance(ai.mlst, v) \in Nat
    BY <2>2, DistanceBounds
  <2>4. Distance(ai.mlst, v) <= MDEL
    BY <1>3, <2>3
  <2>5. CASE Posted(v, stat, sevr)
    <3>1. client' = [val |-> v, sevr |-> sevr]
      BY <2>5 DEF Finish
    <3> QED BY <1>1, <2>1, <2>4, <3>1
  <2>6. CASE ~Posted(v, stat, sevr)
    <3>1. client' = client /\ sevr = ai.sevr
      BY <2>6 DEF Finish, Posted
    <3> QED BY <1>1, <2>1, <2>4, <3>1
  <2> QED BY <2>5, <2>6
<1> QED BY <1>2, <1>3

(***************************************************************************)
(* For every MDEL and every sequence of readings, failures and alarms, the *)
(* client's last update has the record's severity, INVALID exactly after a *)
(* failed reading, and a value within twice MDEL.                          *)
(***************************************************************************)
THEOREM RecordClientSees == RecordSpec => []ClientSees
<1>1. RecordInit => MonitorInv
  <2> SUFFICES ASSUME RecordInit PROVE MonitorInv
    OBVIOUS
  <2>1. val = 0 /\ ai.mlst = 0 /\ client.val = 0 /\ client.sevr = ai.sevr
        /\ ai.sevr = INVALID /\ ai.udf
    BY DEF RecordInit, CodecInit
  <2> QED BY <2>1, RecordAssumption, DistanceBounds DEF MonitorInv
<1>2. CodecInv /\ MonitorInv /\ [RecordNext]_recordVars => MonitorInv'
  <2> SUFFICES ASSUME CodecInv, MonitorInv, [RecordNext]_recordVars PROVE MonitorInv'
    OBVIOUS
  <2>1. CASE AiReads
    <3>1. val' \in Int
      BY <2>1, DecodeType DEF AiReads, ReadBack, CodecInv
    <3>2. PICK r : IF r = "normal" THEN Finish(val', FALSE, "none", NO_ALARM, val')
                                   ELSE Finish(val', FALSE, r, asev(r), alev(r))
      BY <2>1 DEF AiReads
    <3>3. asev(r) # INVALID /\ NO_ALARM # INVALID
      BY DEF asev, MAJOR, MINOR, NO_ALARM, INVALID
    <3> QED BY <3>1, <3>2, <3>3, FinishKeeps
  <2>2. CASE AiFails
    <3>1. val' = val /\ Finish(val, TRUE, "udf", INVALID, ai.lalm)
      BY <2>2 DEF AiFails, codecVars
    <3>2. val \in Int
      BY DEF MonitorInv
    <3> QED BY <3>1, <3>2, FinishKeeps
  <2>3. CASE UNCHANGED <<val, ai, client>>
    BY <2>3 DEF MonitorInv
  <2> QED BY <2>1, <2>2, <2>3
          DEF RecordNext, recordVars, codecVars, SetThreshold, AoRejects, AoWrites, AoFails
<1>3. MonitorInv => ClientSees
  <2> SUFFICES ASSUME MonitorInv PROVE Distance(client.val, val) <= 2 * MDEL
    BY DEF MonitorInv, ClientSees
  <2>1. Distance(client.val, val) <= Distance(client.val, ai.mlst) + Distance(ai.mlst, val)
    BY DistanceBounds DEF MonitorInv
  <2>2. Distance(client.val, ai.mlst) = Distance(ai.mlst, client.val)
    BY DistanceBounds DEF MonitorInv
  <2>3. /\ Distance(client.val, ai.mlst) \in Nat /\ Distance(ai.mlst, val) \in Nat
        /\ Distance(client.val, val) \in Nat
    BY DistanceBounds DEF MonitorInv
  <2> QED BY <2>1, <2>2, <2>3, RecordAssumption DEF MonitorInv
<1> QED BY <1>1, <1>2, <1>3, RecordImplementsCodec, CodecInvariant, PTL DEF RecordSpec

-----------------------------------------------------------------------------
(***************************************************************************)
(* What checkAlarms makes of a value, whatever LALM is: at least the       *)
(* severity of the limits that the value is beyond, and more only within   *)
(* HYST of a limit of that severity.                                       *)
(***************************************************************************)
RangeSevr(r) == IF r = "normal" THEN NO_ALARM ELSE asev(r)

LEMMA RangeOfValue ==
  ASSUME NEW v \in Int, NEW lalm
  PROVE  LET r == alarmRange(v, lalm)
         IN  /\ r \in Limits \cup {"normal"}
             /\ RangeSevr(r) >= ValueSevr(v)
             /\ RangeSevr(r) > ValueSevr(v) => r \in Limits /\ Distance(v, alev(r)) <= HYST
<1> USE RecordAssumption
<1> DEFINE r == alarmRange(v, lalm)
           Fits(x) == /\ RangeSevr(x) >= ValueSevr(v)
                      /\ RangeSevr(x) > ValueSevr(v) =>
                           x \in Limits /\ Distance(v, alev(x)) <= HYST
<1>1. ASSUME r = "hihi" PROVE Fits("hihi")
  <2>1. Raised("hihi", v, lalm)
    BY <1>1 DEF alarmRange
  <2>2. v >= HIHI \/ (v < HIHI /\ v >= HIHI - HYST)
    BY <2>1 DEF Raised, Beyond, WithinHyst, alev
  <2> QED BY <2>2
          DEF RangeSevr, ValueSevr, Beyond, alev, asev, Limits, Distance, MAJOR, MINOR, NO_ALARM
<1>2. ASSUME r = "lolo" PROVE Fits("lolo")
  <2>1. Raised("lolo", v, lalm)
    BY <1>2 DEF alarmRange
  <2>2. v <= LOLO \/ (v > LOLO /\ v <= LOLO + HYST)
    BY <2>1 DEF Raised, Beyond, WithinHyst, alev
  <2> QED BY <2>2
          DEF RangeSevr, ValueSevr, Beyond, alev, asev, Limits, Distance, MAJOR, MINOR, NO_ALARM
<1>3. ASSUME r = "high" PROVE Fits("high")
  <2>1. Raised("high", v, lalm) /\ ~Beyond("hihi", v) /\ ~Beyond("lolo", v)
    BY <1>3 DEF alarmRange, Raised
  <2>2. v >= HIGH \/ (v < HIGH /\ v >= HIGH - HYST)
    BY <2>1 DEF Raised, Beyond, WithinHyst, alev
  <2> QED BY <2>1, <2>2
          DEF RangeSevr, ValueSevr, Beyond, alev, asev, Limits, Distance, MAJOR, MINOR, NO_ALARM
<1>4. ASSUME r = "low" PROVE Fits("low")
  <2>1. Raised("low", v, lalm) /\ ~Beyond("hihi", v) /\ ~Beyond("lolo", v)
    BY <1>4 DEF alarmRange, Raised
  <2>2. v <= LOW \/ (v > LOW /\ v <= LOW + HYST)
    BY <2>1 DEF Raised, Beyond, WithinHyst, alev
  <2> QED BY <2>1, <2>2
          DEF RangeSevr, ValueSevr, Beyond, alev, asev, Limits, Distance, MAJOR, MINOR, NO_ALARM
<1>5. ASSUME r = "normal" PROVE Fits("normal")
  <2>1. \A l \in Limits : ~Beyond(l, v)
    BY <1>5 DEF alarmRange, Raised, Limits
  <2> QED BY <2>1 DEF RangeSevr, ValueSevr, Limits, NO_ALARM
<1>6. r \in {"hihi", "lolo", "high", "low", "normal"}
  BY DEF alarmRange
<1> HIDE DEF Fits
<1>7. Fits(r)
  BY <1>1, <1>2, <1>3, <1>4, <1>5, <1>6
<1> QED BY <1>6, <1>7 DEF Fits, Limits

\* A raised limit is the one found, or one of at least its severity is.
LEMMA RaisedIsShown ==
  ASSUME NEW v, NEW lalm, NEW l \in Limits, Raised(l, v, lalm)
  PROVE  RangeSevr(alarmRange(v, lalm)) >= asev(l)
BY DEF RangeSevr, alarmRange, asev, Limits, MAJOR, MINOR

(***************************************************************************)
(* LALM is the limit of the last alarm that a good reading raised, and the *)
(* record shows that alarm until a reading fails.                          *)
(***************************************************************************)
HeldInv ==
  held \in Limits => ai.lalm = alev(held) /\ (~ai.udf => ai.sevr = asev(held))

LEMMA AiReadsShows ==
  ASSUME CodecInv, AiReads
  PROVE  /\ val' \in Int
         /\ held' = alarmRange(val', ai.lalm)
         /\ ai'.udf = FALSE
         /\ ai'.sevr = RangeSevr(held')
         /\ held' # "normal" => ai'.lalm = alev(held')
<1>1. val' \in Int
  BY DecodeType DEF AiReads, ReadBack, CodecInv
<1>2. held' = alarmRange(val', ai.lalm)
  BY DEF AiReads
<1>3. IF held' = "normal" THEN Finish(val', FALSE, "none", NO_ALARM, val')
                          ELSE Finish(val', FALSE, held', asev(held'), alev(held'))
  BY DEF AiReads
<1> QED BY <1>1, <1>2, <1>3 DEF Finish, RangeSevr

LEMMA OnlyProcessingShows ==
  ASSUME [RecordNext]_recordVars
  PROVE  AiReads \/ AiFails \/ UNCHANGED <<val, ai, held>>
BY DEF RecordNext, recordVars, codecVars, SetThreshold, AoRejects, AoWrites, AoFails

LEMMA HeldStep ==
  ASSUME CodecInv, HeldInv, [RecordNext]_recordVars
  PROVE  HeldInv'
<1>1. CASE AiReads
  BY <1>1, AiReadsShows DEF HeldInv, RangeSevr, Limits
<1>2. CASE AiFails
  BY <1>2 DEF AiFails, Finish, HeldInv
<1>3. CASE UNCHANGED <<val, ai, held>>
  BY <1>3 DEF HeldInv
<1> QED BY <1>1, <1>2, <1>3, OnlyProcessingShows

LEMMA HeldAlways == RecordSpec => []HeldInv
<1>1. RecordInit => HeldInv
  BY DEF RecordInit, HeldInv, Limits
<1> QED BY <1>1, HeldStep, RecordImplementsCodec, CodecInvariant, PTL DEF RecordSpec

(***************************************************************************)
(* For any limits, in any order, and any deadband: a defined value never   *)
(* shows less than the severity of the limits it is beyond, and more only  *)
(* within HYST of a limit that carries it (checkAlarms).                   *)
(***************************************************************************)
THEOREM RecordSeverityOfValue == RecordSpec => []SeverityOfValue
<1>1. RecordInit => SeverityOfValue
  BY DEF RecordInit, SeverityOfValue
<1>2. CodecInv /\ SeverityOfValue /\ [RecordNext]_recordVars => SeverityOfValue'
  <2> SUFFICES ASSUME CodecInv, SeverityOfValue, [RecordNext]_recordVars
               PROVE  SeverityOfValue'
    OBVIOUS
  <2>1. CASE AiReads
    <3>1. /\ val' \in Int /\ held' = alarmRange(val', ai.lalm) /\ ai'.sevr = RangeSevr(held')
      BY <2>1, AiReadsShows
    <3>2. /\ ai'.sevr >= ValueSevr(val')
          /\ ai'.sevr > ValueSevr(val') => held' \in Limits /\ Distance(val', alev(held')) <= HYST
      BY <3>1, RangeOfValue
    <3>3. held' \in Limits => asev(held') = ai'.sevr
      BY <3>1 DEF RangeSevr, Limits
    <3> QED BY <3>2, <3>3 DEF SeverityOfValue, ValueSevr, Beyond, alev
  <2>2. CASE AiFails
    BY <2>2 DEF AiFails, Finish, SeverityOfValue
  <2>3. CASE UNCHANGED <<val, ai, held>>
    BY <2>3 DEF SeverityOfValue, ValueSevr, Beyond, alev
  <2> QED BY <2>1, <2>2, <2>3, OnlyProcessingShows
<1> QED BY <1>1, <1>2, RecordImplementsCodec, CodecInvariant, PTL DEF RecordSpec

(***************************************************************************)
(* An alarm does not chatter, for any limits and any HYST: after a reading *)
(* has raised a limit's alarm, readings within HYST of that limit keep its *)
(* severity, over failed readings too (LALM in checkAlarms).               *)
(***************************************************************************)
THEOREM RecordAlarmHeld == RecordSpec => AlarmHeld
<1> DEFINE Keeps == \A l \in Limits :
             held = l /\ ~ai'.udf /\ Distance(val', alev(l)) <= HYST => ai'.sevr >= asev(l)
<1>1. CodecInv /\ HeldInv /\ [RecordNext]_recordVars => [Keeps]_recordVars
  <2> SUFFICES ASSUME CodecInv, HeldInv, [RecordNext]_recordVars,
                      NEW l \in Limits, held = l, ~ai'.udf, Distance(val', alev(l)) <= HYST
               PROVE  ai'.sevr >= asev(l)
    OBVIOUS
  <2>1. CASE AiReads
    <3>1. /\ val' \in Int /\ ai'.sevr = RangeSevr(alarmRange(val', ai.lalm))
      BY <2>1, AiReadsShows
    <3>2. ai.lalm = alev(l)
      BY DEF HeldInv
    <3>3. \A v \in Int : Distance(v, alev(l)) <= HYST => WithinHyst(l, v)
      BY RecordAssumption DEF Distance, WithinHyst, alev, Limits
    <3>4. Raised(l, val', ai.lalm)
      BY <3>1, <3>2, <3>3 DEF Raised
    <3> QED BY <3>1, <3>4, RaisedIsShown
  <2>2. CASE AiFails
    BY <2>2 DEF AiFails, Finish
  <2>3. CASE UNCHANGED <<val, ai, held>>
    <3>1. ai'.sevr = asev(l)
      BY <2>3 DEF HeldInv
    <3> QED BY <3>1 DEF asev, MAJOR, MINOR
  <2> QED BY <2>1, <2>2, <2>3, OnlyProcessingShows
<1> QED BY <1>1, HeldAlways, RecordImplementsCodec, CodecInvariant, PTL DEF RecordSpec, AlarmHeld

=============================================================================
