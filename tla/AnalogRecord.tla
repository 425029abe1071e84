---------------------------- MODULE AnalogRecord ----------------------------
(***************************************************************************)
(* Record support of the thermometers: an ai record (aiRecord.c) that      *)
(* reads a two-byte register of a DS75, checks its alarm limits and posts  *)
(* to clients, and the ao record (aoRecord.c) of the chip's config byte.   *)
(*                                                                         *)
(* Values are in 1/256 degC as in DS75Codec, config values in 1/2.  The    *)
(* limits' severities are those of RackmonIoc.db.  AFTC, IVOA, SIMM and    *)
(* the conversions have their defaults: no filter, continue normally, no   *)
(* simulation, no conversion (device support returns 2).  A client keeps   *)
(* one subscription to the ai record for changes of value and of alarm;    *)
(* DbEvent models how a posted update gets to it.                          *)
(***************************************************************************)
EXTENDS DS75Codec

CONSTANTS
  HIHI, HIGH, LOW, LOLO,   \* alarm limits
  HYST, MDEL,              \* deadbands of the alarms and of the monitors
  StartBytes,              \* what chips may hold in a register when the IOC starts
  ConfigValues,            \* numbers that clients write to the ao record
  NaN,                     \* the double that is not a number
  NaNBytes                 \* what (unsigned char)(int)NaN may give: {0} on ARM and x86

ASSUME RecordAssumption ==
  /\ HIHI \in Int /\ HIGH \in Int /\ LOW \in Int /\ LOLO \in Int
  /\ HYST \in Nat /\ MDEL \in Nat
  /\ StartBytes \subseteq 0..255
  /\ ConfigValues \subseteq Int
  /\ NaN \notin Int
  /\ NaNBytes \subseteq 0..255

VARIABLES
  ai,       \* the ai record's UDF, SEVR, STAT, LALM and MLST; VAL is val
  client,   \* the last update the client was sent: value and severity
  held,     \* history: the limit whose alarm the last good reading raised
  ao,       \* the ao record's VAL, UDF and SEVR
  cfg,      \* the config byte in the chip
  written   \* history: the ao record has been processed since it was initialised

outVars == <<ao, cfg, written>>
recordVars == <<codecVars, ai, client, held, outVars>>

NO_ALARM == 0
MINOR == 1
MAJOR == 2
INVALID == 3

-----------------------------------------------------------------------------
Limits == {"hihi", "lolo", "high", "low"}

alev(l) == CASE l = "hihi" -> HIHI [] l = "lolo" -> LOLO
             [] l = "high" -> HIGH [] l = "low" -> LOW

asev(l) == IF l \in {"hihi", "lolo"} THEN MAJOR ELSE MINOR

Beyond(l, v) == IF l \in {"hihi", "high"} THEN v >= alev(l) ELSE v <= alev(l)

\* Inside of the limit by no more than the deadband.
WithinHyst(l, v) ==
  IF l \in {"hihi", "high"} THEN v >= alev(l) - HYST ELSE v <= alev(l) + HYST

Raised(l, v, lalm) == Beyond(l, v) \/ (lalm = alev(l) /\ WithinHyst(l, v))

\* Variant: the inner limits are tried first.
alarmRangeInner(v, lalm) ==
  CASE Raised("high", v, lalm) -> "high"
    [] Raised("low", v, lalm) -> "low"
    [] Raised("hihi", v, lalm) -> "hihi"
    [] Raised("lolo", v, lalm) -> "lolo"
    [] OTHER -> "normal"

\* checkAlarms: hihi, lolo, high and low are tried in this order.
alarmRange(v, lalm) ==
  IF Raised("hihi", v, lalm) THEN "hihi"
  ELSE IF Raised("lolo", v, lalm) THEN "lolo"
  ELSE IF Raised("high", v, lalm) THEN "high"
  ELSE IF Raised("low", v, lalm) THEN "low"
  ELSE "normal"

Distance(a, b) == IF a >= b THEN a - b ELSE b - a

\* Variant: only a change of the value is posted.
PostedValue(v, stat, sevr) == Distance(ai.mlst, v) > MDEL

\* monitor: a change of the alarm, or of the value by more than MDEL.
Posted(v, stat, sevr) ==
  stat # ai.stat \/ sevr # ai.sevr \/ Distance(ai.mlst, v) > MDEL

\* checkAlarms, monitor and recGblResetAlarms: VAL is v, udf says if it is
\* undefined, and stat, sevr and lalm are what checkAlarms made of it.
Finish(v, udf, stat, sevr, lalm) ==
  /\ ai' = [udf |-> udf, stat |-> stat, sevr |-> sevr, lalm |-> lalm,
            mlst |-> IF Distance(ai.mlst, v) > MDEL THEN v ELSE ai.mlst]
  /\ client' = IF Posted(v, stat, sevr) THEN [val |-> v, sevr |-> sevr] ELSE client

\* process of the ai record, when read_ai succeeds.
AiReads ==
  /\ ReadBack
  /\ LET r == alarmRange(val', ai.lalm)
     IN  /\ held' = r
         /\ IF r = "normal"
            THEN Finish(val', FALSE, "none", NO_ALARM, val')
            ELSE Finish(val', FALSE, r, asev(r), alev(r))
  /\ UNCHANGED outVars

\* Variant: an undefined value forgets the alarm level.
AiFailsForgets ==
  /\ Finish(val, TRUE, "udf", INVALID, val)
  /\ UNCHANGED <<codecVars, held, outVars>>

\* process of the ai record, when read_ai fails: VAL and LALM stay.
AiFails ==
  /\ Finish(val, TRUE, "udf", INVALID, ai.lalm)
  /\ UNCHANGED <<codecVars, held, outVars>>

-----------------------------------------------------------------------------
\* Variant: the range check lets 255.5 pass.
OutOfRangeAbove256(v) == v # NaN /\ (v < 0 \/ v > 511)

\* write_ao: prec->val < 0 || prec->val > 255, which NaN is not.
OutOfRange(v) == v # NaN /\ (v < 0 \/ v > 510)

\* (unsigned char)(int)(0.5 + prec->val)
ConfigBytes(v) == IF v = NaN THEN NaNBytes ELSE {((v + 1) \div 2) % 256}

\* process sets UDF for a NaN before checkAlarms; there are no limits.
AoSevr(v) == IF v = NaN THEN INVALID ELSE NO_ALARM

\* process of the ao record.  The alarms are checked before write_ao sets UDF.
\* Out of range, nothing is sent.
AoRejects(v) ==
  /\ OutOfRange(v)
  /\ written' = TRUE
  /\ ao' = [val |-> v, sevr |-> AoSevr(v), udf |-> TRUE]
  /\ UNCHANGED <<codecVars, ai, client, held, cfg>>

AoWrites(v) ==
  /\ ~OutOfRange(v)
  /\ written' = TRUE
  /\ ao' = [val |-> v, sevr |-> AoSevr(v), udf |-> FALSE]
  /\ cfg' \in ConfigBytes(v)
  /\ UNCHANGED <<codecVars, ai, client, held>>

\* access_ds75_details reports an error: the byte may have arrived.
AoFails(v) ==
  /\ ~OutOfRange(v)
  /\ written' = TRUE
  /\ ao' = [val |-> v, sevr |-> AoSevr(v), udf |-> TRUE]
  /\ cfg' \in {cfg} \cup ConfigBytes(v)
  /\ UNCHANGED <<codecVars, ai, client, held>>

-----------------------------------------------------------------------------
\* init_record_ao reads a config byte without selecting the record's stub, and
\* takes the number in OUT, stub and all, for the address: the byte is that of
\* whatever chip answers.  If none does, UDF and INVALID stay, and VAL is the
\* uninitialised byte.
AoInit ==
  \E b \in StartBytes :
    ao \in {[val |-> 2 * b, sevr |-> NO_ALARM, udf |-> FALSE],
           [val |-> 2 * b, sevr |-> INVALID, udf |-> TRUE]}

\* UDF starts TRUE with severity INVALID (doInitRecord0).  The ai record's
\* init_record returns before it would set LALM and MLST: both stay 0, as VAL.
RecordInit ==
  /\ CodecInit
  /\ ai = [udf |-> TRUE, stat |-> "udf", sevr |-> INVALID, lalm |-> 0, mlst |-> 0]
  /\ client = [val |-> val, sevr |-> INVALID]
  /\ held = "normal"
  /\ cfg \in StartBytes
  /\ AoInit
  /\ written = FALSE

RecordNext ==
  \/ \E s \in Setpoints : SetThreshold(s) /\ UNCHANGED <<ai, client, held, outVars>>
  \/ AiReads
  \/ AiFails
  \/ \E v \in ConfigValues \cup {NaN} : AoRejects(v) \/ AoWrites(v) \/ AoFails(v)

RecordSpec == RecordInit /\ [][RecordNext]_recordVars

-----------------------------------------------------------------------------
\* The severity of a value by its limits alone.
ValueSevr(v) ==
  IF Beyond("hihi", v) \/ Beyond("lolo", v) THEN MAJOR
  ELSE IF Beyond("high", v) \/ Beyond("low", v) THEN MINOR
  ELSE NO_ALARM

(***************************************************************************)
(* A defined value never shows a severity below that of the limits it is   *)
(* beyond, and shows a higher one only within HYST of a limit that carries *)
(* it, whatever readings and failures came before (aiRecord.c checkAlarms).*)
(***************************************************************************)
SeverityOfValue ==
  ~ai.udf =>
    /\ ai.sevr >= ValueSevr(val)
    /\ ai.sevr > ValueSevr(val) =>
         \E l \in Limits : asev(l) = ai.sevr /\ Distance(val, alev(l)) <= HYST

(***************************************************************************)
(* What the client was last sent has the record's severity: INVALID if and *)
(* only if the last reading failed, in whatever order failures, alarms and *)
(* small changes come.  Its value is within twice MDEL, not within MDEL:   *)
(* an update for an alarm leaves MLST where it was (aiRecord.c monitor).   *)
(***************************************************************************)
ClientSees ==
  /\ client.sevr = ai.sevr
  /\ (client.sevr = INVALID) <=> ai.udf
  /\ Distance(client.val, val) <= 2 * MDEL

(***************************************************************************)
(* From the first write on, whether or not it succeeds, an ao record that  *)
(* shows neither UDF nor an alarm shows what the chip holds, rounded to a  *)
(* byte.  Both are needed: a NaN goes to the chip and leaves UDF clear, a  *)
(* failed write leaves the severity at NO_ALARM (write_ao, aoRecord.c      *)
(* process).  Before it the record may show another chip's byte.           *)
(***************************************************************************)
OutputShown ==
  written /\ ao.sevr = NO_ALARM /\ ~ao.udf =>
    ao.val # NaN /\ 2 * cfg - ao.val \in {0, 1}

(***************************************************************************)
(* An alarm does not chatter: once a good reading has raised the alarm of  *)
(* a limit, later good readings within HYST of the limit keep at least its *)
(* severity, also over failed readings in between (HYST in checkAlarms).   *)
(***************************************************************************)
AlarmHeld ==
  [][\A l \in Limits :
       held = l /\ ~ai'.udf /\ Distance(val', alev(l)) <= HYST => ai'.sevr >= asev(l)]_recordVars

=============================================================================
