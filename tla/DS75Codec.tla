----------------------------- MODULE DS75Codec -----------------------------
(***************************************************************************)
(* The bytes of a DS75: how dev_i2c.c and write_ao turn a double into      *)
(* register bytes, and back.                                               *)
(*                                                                         *)
(* A double is given as an integer number of 1/512 degC, so that T*256+0.5 *)
(* and its truncation are exact.  Setpoints come in the chip's own steps   *)
(* of 1/16 degC, over its range.  The type char has eight bits and is      *)
(* signed or not, depending on the machine: unsigned on the ARM the IOC is *)
(* built for, signed on x86.                                               *)
(***************************************************************************)
EXTENDS Integers

CONSTANTS
  CharSigned,    \* whether char is signed
  Setpoints      \* thresholds that clients write, in 1/16 degC

\* The chip works from -55 to 125 degC.
ChipRange == {s \in Int : s >= -880 /\ s <= 2000}

ASSUME CodecAssumption ==
  /\ CharSigned \in BOOLEAN
  /\ Setpoints \subseteq ChipRange

VARIABLES
  setpoint,   \* the last threshold asked for, in 1/16 degC
  reg,        \* the bytes in the chip's register, each 0..255
  val,        \* the record's VAL read back, in 1/256 degC
  fresh       \* val was read after the last write

codecVars == <<setpoint, reg, val, fresh>>

-----------------------------------------------------------------------------
\* C's division truncates towards zero.
TruncDiv(a, b) == IF a >= 0 THEN a \div b ELSE -((-a) \div b)

\* (int)(T*256 + 0.5), where T is v/512.
t256(v) == TruncDiv(v + 1, 2)

\* Variant: a division, which truncates, for the shift, which floors.
EncodeDividing(v) == <<TruncDiv(t256(v), 256) % 256, t256(v) % 256>>

\* t256>>8 and t256&0xff, stored in chars.
Encode(v) == <<(t256(v) \div 256) % 256, t256(v) % 256>>

\* Variant: the machine's chars are not what CharSigned says.
AsCharOtherwise(b) == IF ~CharSigned /\ b > 127 THEN b - 256 ELSE b

AsChar(b) == IF CharSigned /\ b > 127 THEN b - 256 ELSE b

\* buf[0] + buf[1]/256.0, in 1/256 degC.
Decode(bytes) == 256 * AsChar(bytes[1]) + AsChar(bytes[2])

\* The chip keeps twelve bits, and understands sixteen as two's complement.
Keep(bytes) == <<bytes[1], bytes[2] - (bytes[2] % 16)>>

\* The register after a setpoint of s/16 degC was written to it.
Stored(s) == Keep(Encode(32 * s))

Means(bytes) ==
  LET u == 256 * bytes[1] + bytes[2] IN IF u > 32767 THEN u - 65536 ELSE u

-----------------------------------------------------------------------------
CodecInit ==
  /\ setpoint = 0 /\ reg = <<0, 0>> /\ val = 0 /\ fresh = TRUE

\* access_ds75_details(..., 'w') of a threshold.
SetThreshold(s) ==
  /\ setpoint' = s
  /\ reg' = Stored(s)
  /\ fresh' = FALSE
  /\ UNCHANGED val

\* access_ds75_details(..., 'r') and read_temp_ds75.
ReadBack ==
  /\ val' = Decode(reg)
  /\ fresh' = TRUE
  /\ UNCHANGED <<setpoint, reg>>

CodecNext ==
  \/ \E s \in Setpoints : SetThreshold(s)
  \/ ReadBack

CodecSpec == CodecInit /\ [][CodecNext]_codecVars

-----------------------------------------------------------------------------
(***************************************************************************)
(* The threshold the chip acts on is the one that was asked for, below     *)
(* zero too: rounding half up and truncating towards zero leaves one       *)
(* 1/256 degC too much in a negative value, which the chip cuts off.       *)
(***************************************************************************)
ThresholdStored == Means(reg) = 16 * setpoint

(***************************************************************************)
(* A threshold or temperature of zero or above reads back as the value the *)
(* chip holds (dev_i2c.c, buf[0] + buf[1]/256.0, with unsigned chars).     *)
(***************************************************************************)
NonNegativeReadsBack == fresh /\ setpoint >= 0 => val = Means(reg)

(***************************************************************************)
(* Every value reads back as the value the chip holds (read_temp_ds75,     *)
(* "destination for temperature, degC").                                   *)
(***************************************************************************)
ReadsBack == fresh => val = Means(reg)

=============================================================================
