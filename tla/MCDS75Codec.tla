---------------------------- MODULE MCDS75Codec ----------------------------
(* Values at the edges of bytes, of signs, of the chip's range and of the  *)
(* alarm limits of RackmonIoc.db, with deadbands wide enough to matter:    *)
(* clients may write HYST and MDEL of a running record.                    *)
EXTENDS AnalogRecord

MCSetpoints ==
  {-880, -257, -16, -1, 0, 1, 159, 160, 161, 240, 241, 479, 480, 481, 559, 560, 2000}

MCConfigValues == {-1, 0, 1, 2, 255, 509, 510, 511}

=============================================================================
