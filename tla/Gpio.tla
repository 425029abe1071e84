-------------------------------- MODULE Gpio --------------------------------
(***************************************************************************)
(* dev_gpio.c: pin levels behind the files /sys/class/gpio/gpioN/value.    *)
(*                                                                         *)
(* gpio_write goes through a stdio stream: fputc only fills the stream's   *)
(* buffer, and the level reaches the kernel in fclose, whose result is not *)
(* looked at.  A write therefore ends in one of three ways:                *)
(*   ok     the pin has the new level; gpio_write returns 0                *)
(*   open   no path, or fopen failed; nothing changed, it returns -1       *)
(*   flush  fclose failed to write; nothing changed, and it returns 0      *)
(***************************************************************************)
EXTENDS Integers, Sequences

CONSTANTS
  Pins,         \* the exported pins
  GpioFaults    \* which of "open", "flush" can happen

ASSUME PinsAssumption == Pins \subseteq Nat
ASSUME GpioFaultsAssumption == GpioFaults \subseteq {"open", "flush"}

VARIABLE gpio   \* the level of each pin, 0 or 1

-----------------------------------------------------------------------------
GPIO_PREFIX_LEN == 21     \* sizeof "/sys/class/gpio/gpio", with its NUL

\* The decimal digits that follow the prefix in the path.
Digits(n) ==
  IF n < 10 THEN <<n>>
  ELSE IF n < 100 THEN <<n \div 10, n % 10>>
  ELSE <<n \div 100, (n \div 10) % 10, n % 10>>

\* Path of the file "value" (of vlen characters) of a pin, in a buffer of
\* buffsize bytes.
gpio_get_path(n, vlen, buffsize) ==
  IF n < 0 \/ n > 999 \/ buffsize < GPIO_PREFIX_LEN + vlen + 5
  THEN [status |-> -1, digits |-> <<>>]
  ELSE [status |-> 0, digits |-> Digits(n)]

FILENAME_MAX == 4096
HasPath(n) == gpio_get_path(n, 5, FILENAME_MAX).status >= 0

Outcomes(n) == IF HasPath(n) THEN {"ok"} \cup GpioFaults ELSE {"open"}

\* Any non-zero state is written as '1'.
gpio_write(n, state, outcome) ==
  /\ outcome \in Outcomes(n)
  /\ gpio' = IF outcome = "ok"
             THEN [gpio EXCEPT ![n] = IF state = 0 THEN 0 ELSE 1]
             ELSE gpio

\* What gpio_write returns.
gpio_written(outcome) == IF outcome = "open" THEN -1 ELSE 0

\* What gpio_read can return: a failing fgetc counts as a failing fopen.
gpio_read(n) ==
  (IF HasPath(n) THEN {gpio[n]} ELSE {-1}) \cup (IF GpioFaults = {} THEN {} ELSE {-1})

GpioTypeOK == gpio \in [Pins -> {0, 1}]

-----------------------------------------------------------------------------
(***************************************************************************)
(* What the path names, for a pin n: the number its digits denote, written *)
(* as the kernel writes it, without leading zeros.                         *)
(***************************************************************************)
Denotes(d) ==
  CASE Len(d) = 1 -> d[1]
    [] Len(d) = 2 -> 10 * d[1] + d[2]
    [] Len(d) = 3 -> 100 * d[1] + 10 * d[2] + d[3]

Canonical(d) == (Len(d) > 1 => d[1] # 0) /\ \A i \in 1..Len(d) : d[i] \in 0..9

(***************************************************************************)
(* gpio_get_path names the file of the pin it was asked for and of no      *)
(* other pin, and prefix, digits, slash, value and NUL fit the buffer.     *)
(***************************************************************************)
PathNamesPin(n, vlen, buffsize) ==
  LET p == gpio_get_path(n, vlen, buffsize)
  IN  p.status = 0 =>
        /\ Denotes(p.digits) = n
        /\ Canonical(p.digits)
        /\ (GPIO_PREFIX_LEN - 1) + Len(p.digits) + 1 + vlen + 1 <= buffsize

=============================================================================
