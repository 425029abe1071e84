------------------------------- MODULE I2cBus -------------------------------
(***************************************************************************)
(* The I2C access functions of dev_i2c.c.                                  *)
(*                                                                         *)
(* All threads of the IOC share one file descriptor of /dev/i2c-2.  The    *)
(* descriptor remembers the slave address that the last ioctl(I2C_SLAVE)   *)
(* gave it, so "choose the slave, then talk to it" is a critical section,  *)
(* guarded by i2c_mutex.  Every access function has the same shape:        *)
(*                                                                         *)
(*   lock; ioctl(I2C_SLAVE, address); a list of exchanges; RETURN: unlock  *)
(*                                                                         *)
(* and differs only in the address and in the list, which Script gives.    *)
(* One action is one system call.  The bytes themselves are abstracted to  *)
(* the register they are for; their encoding is the subject of DS75Codec.  *)
(* The sleeps after a write, with the mutex held, only lengthen the step   *)
(* after it.                                                               *)
(***************************************************************************)
EXTENDS Integers, Sequences

CONSTANTS
  Threads,  \* the threads that call the access functions
  None,     \* no thread owns the mutex, no slave chosen yet
  Calls     \* the calls they make: records [fn, addr, fields, mode]

Functions == {"read_temp_ds1621", "access_ds1621_details",
              "read_temp_ds75", "access_ds75_details"}

Fields == {"T_OS", "T_HYST", "cfg"}   \* the pointer arguments that are not NULL

CallType == [fn: Functions, addr: Nat, fields: SUBSET Fields, mode: {"r", "w"}]

ASSUME NoneAssumption == None \notin Threads /\ None \notin Nat
ASSUME CallsAssumption == Calls \subseteq CallType /\ Calls # {}

VARIABLES
  i2c_mutex,  \* the thread that holds i2c_mutex, or None
  slave,      \* the slave address of the shared file descriptor
  bpc,        \* where each thread is in its access function
  call,       \* the arguments of each thread's current (or last) call
  step,       \* index of the exchange it performs
  half,       \* 2 while it is between the write() and read() of a "get"
  status,     \* its local variable status, and the value returned at the end
  short       \* history: some transfer of the call moved too few bytes

busVars == <<i2c_mutex, slave, bpc, call, step, half, status, short>>

-----------------------------------------------------------------------------
(***************************************************************************)
(* An exchange is one of                                                   *)
(*   put: write(fd, buf, len), then status != len is an error              *)
(*   take: read(fd, buf, len), then status != len is an error              *)
(*   get: write(fd, buf, 1), status += read(fd, buf, len), and only then   *)
(*        is status != len + 1 an error                                    *)
(***************************************************************************)
Registers == Fields \cup {"T", "convert"}

Exchange == [op: {"put", "take", "get"}, reg: Registers, len: 1..3]

Put(reg, n)  == [op |-> "put",  reg |-> reg, len |-> n]
Take(reg, n) == [op |-> "take", reg |-> reg, len |-> n]

\* Start a conversion, point at the temperature register, read it.
read_temp_ds1621 == <<Put("convert", 2), Put("T", 1), Take("T", 2)>>

read_temp_ds75 == <<Put("T", 1), Take("T", 2)>>

\* Each non-NULL pointer in turn: the config byte takes n bytes to move, a
\* threshold one more.
Details(c, op, n) ==
  LET Access(reg, len) ==
        IF reg \in c.fields THEN <<[op |-> op, reg |-> reg, len |-> len]>> ELSE <<>>
  IN  Access("T_OS", n + 1) \o Access("T_HYST", n + 1) \o Access("cfg", n)

\* TH and TL of the DS1621 are its T_OS and T_HYST.
access_ds1621_details(c) ==
  IF c.mode = "w" THEN Details(c, "put", 2) ELSE Details(c, "get", 1)

access_ds75_details(c) ==
  IF c.mode = "w" THEN Details(c, "put", 2) ELSE Details(c, "get", 1)

Script(c) ==
  CASE c.fn = "read_temp_ds1621"      -> read_temp_ds1621
    [] c.fn = "access_ds1621_details" -> access_ds1621_details(c)
    [] c.fn = "read_temp_ds75"        -> read_temp_ds75
    [] c.fn = "access_ds75_details"   -> access_ds75_details(c)

I2C_ADDR_BASE == 72    \* 0x48, for the DS1621 and for the DS75

\* Only the read_temp functions mask the address to three bits.
SlaveAddress(c) ==
  I2C_ADDR_BASE + (IF c.fn \in {"read_temp_ds1621", "read_temp_ds75"}
                   THEN c.addr % 8 ELSE c.addr)

-----------------------------------------------------------------------------
BusInit ==
  /\ i2c_mutex = None
  /\ slave  = None
  /\ bpc    = [t \in Threads |-> "ready"]
  /\ call   = [t \in Threads |-> CHOOSE c \in Calls : TRUE]   \* none made yet
  /\ step   = [t \in Threads |-> 1]
  /\ half   = [t \in Threads |-> 1]
  /\ status = [t \in Threads |-> 0]
  /\ short  = [t \in Threads |-> FALSE]

\* A caller enters an access function.
Enter(t, c) ==
  /\ bpc[t] = "ready"
  /\ bpc'   = [bpc EXCEPT ![t] = "lock"]
  /\ call'  = [call EXCEPT ![t] = c]
  /\ step'  = [step EXCEPT ![t] = 1]
  /\ half'  = [half EXCEPT ![t] = 1]
  /\ short' = [short EXCEPT ![t] = FALSE]
  /\ UNCHANGED <<i2c_mutex, slave, status>>

\* Variant: the lock is not waited for.
LockWithoutWaiting(t) ==
  /\ bpc[t] = "lock"
  /\ i2c_mutex' = t
  /\ bpc' = [bpc EXCEPT ![t] = "ioctl"]
  /\ UNCHANGED <<slave, call, step, half, status, short>>

Lock(t) ==
  /\ bpc[t] = "lock"
  /\ i2c_mutex = None
  /\ i2c_mutex' = t
  /\ bpc' = [bpc EXCEPT ![t] = "ioctl"]
  /\ UNCHANGED <<slave, call, step, half, status, short>>

\* Variant: a plain return where RETURN is needed.
IoctlFailsReturns(t) ==
  /\ bpc[t] = "ioctl"
  /\ bpc'    = [bpc EXCEPT ![t] = "ready"]
  /\ status' = [status EXCEPT ![t] = -1]
  /\ UNCHANGED <<i2c_mutex, slave, call, step, half, short>>

\* The kernel refuses addresses of more than seven bits, and may refuse others.
IoctlFails(t) ==
  /\ bpc[t] = "ioctl"
  /\ bpc'    = [bpc EXCEPT ![t] = "unlock"]
  /\ status' = [status EXCEPT ![t] = -1]
  /\ UNCHANGED <<i2c_mutex, slave, call, step, half, short>>

IoctlSucceeds(t) ==
  /\ bpc[t] = "ioctl"
  /\ SlaveAddress(call[t]) < 128
  /\ slave' = SlaveAddress(call[t])
  /\ bpc'   = [bpc EXCEPT ![t] = IF Script(call[t]) = <<>> THEN "unlock" ELSE "xfer"]
  /\ status' = [status EXCEPT ![t] = 0]
  /\ UNCHANGED <<i2c_mutex, call, step, half, short>>

Ioctl(t) == IoctlFails(t) \/ IoctlSucceeds(t)

Current(t) == Script(call[t])[step[t]]

\* The exchange is over: on to the next one, or to RETURN with 0 or with -1.
\* Between two exchanges status is dead, as the next one assigns it first.
EndExchange(t, good) ==
  /\ half' = [half EXCEPT ![t] = 1]
  /\ IF good /\ step[t] < Len(Script(call[t]))
     THEN /\ step' = [step EXCEPT ![t] = @ + 1]
          /\ UNCHANGED <<bpc, status>>
     ELSE /\ bpc' = [bpc EXCEPT ![t] = "unlock"]
          /\ status' = [status EXCEPT ![t] = IF good THEN 0 ELSE -1]
          /\ UNCHANGED step

\* write() or read() of len bytes returns -1 or the number of bytes moved.
Returns(len) == (-1)..len

\* The one transfer of a put or of a take.
Transfer(t, r) ==
  /\ bpc[t] = "xfer"
  /\ Current(t).op \in {"put", "take"}
  /\ r \in Returns(Current(t).len)
  /\ short' = [short EXCEPT ![t] = @ \/ r # Current(t).len]
  /\ EndExchange(t, r = Current(t).len)
  /\ UNCHANGED <<i2c_mutex, slave, call>>

\* Variant: status += write(...), where status still holds the last write's 1.
GetWriteAdds(t, r) ==
  /\ bpc[t] = "xfer"
  /\ Current(t).op = "get"
  /\ half[t] = 1
  /\ r \in Returns(1)
  /\ half'   = [half EXCEPT ![t] = 2]
  /\ status' = [status EXCEPT ![t] = @ + r]
  /\ short'  = [short EXCEPT ![t] = @ \/ r # 1]
  /\ UNCHANGED <<i2c_mutex, slave, bpc, call, step>>

\* The write() of a get, whose result nobody tests: the read() follows anyway.
GetWrite(t, r) ==
  /\ bpc[t] = "xfer"
  /\ Current(t).op = "get"
  /\ half[t] = 1
  /\ r \in Returns(1)
  /\ half'   = [half EXCEPT ![t] = 2]
  /\ status' = [status EXCEPT ![t] = r]
  /\ short'  = [short EXCEPT ![t] = @ \/ r # 1]
  /\ UNCHANGED <<i2c_mutex, slave, bpc, call, step>>

\* Variant: only status < len is an error.
GetReadTooLenient(t, r) ==
  /\ bpc[t] = "xfer"
  /\ Current(t).op = "get"
  /\ half[t] = 2
  /\ r \in Returns(Current(t).len)
  /\ short' = [short EXCEPT ![t] = @ \/ r # Current(t).len]
  /\ EndExchange(t, status[t] + r >= Current(t).len)
  /\ UNCHANGED <<i2c_mutex, slave, call>>

\* The read() of a get, and the test of the sum.
GetRead(t, r) ==
  /\ bpc[t] = "xfer"
  /\ Current(t).op = "get"
  /\ half[t] = 2
  /\ r \in Returns(Current(t).len)
  /\ short' = [short EXCEPT ![t] = @ \/ r # Current(t).len]
  /\ EndExchange(t, status[t] + r = Current(t).len + 1)
  /\ UNCHANGED <<i2c_mutex, slave, call>>

\* Unlock and return; step goes out of use.
Unlock(t) ==
  /\ bpc[t] = "unlock"
  /\ i2c_mutex' = None
  /\ bpc' = [bpc EXCEPT ![t] = "ready"]
  /\ step' = [step EXCEPT ![t] = 1]
  /\ UNCHANGED <<slave, call, half, status, short>>

BusStep(t) ==
  \/ Lock(t)
  \/ Ioctl(t)
  \/ \E r \in Returns(3) : Transfer(t, r) \/ GetWrite(t, r) \/ GetRead(t, r)
  \/ Unlock(t)

BusNext == \E t \in Threads : BusStep(t) \/ \E c \in Calls : Enter(t, c)

BusSpec == BusInit /\ [][BusNext]_busVars

-----------------------------------------------------------------------------
Inside == {"ioctl", "xfer", "unlock"}    \* between the lock and the unlock

BusTypeOK ==
  /\ i2c_mutex \in Threads \cup {None}
  /\ slave  \in Nat \cup {None}
  /\ bpc    \in [Threads -> {"ready", "lock"} \cup Inside]
  /\ call   \in [Threads -> Calls]
  /\ step   \in [Threads -> Nat]
  /\ half   \in [Threads -> {1, 2}]
  /\ status \in [Threads -> -1..1]
  /\ short  \in [Threads -> BOOLEAN]

(***************************************************************************)
(* Every read() and write() of an access function reaches the slave that   *)
(* this function chose, however the threads interleave: no other thread    *)
(* comes between its ioctl and its last transfer (dev_i2c.c, "begin        *)
(* protected section").                                                    *)
(***************************************************************************)
TalksToChosenSlave ==
  \A t \in Threads : bpc[t] = "xfer" => slave = SlaveAddress(call[t])

(***************************************************************************)
(* A call that returns 0 moved every byte it asked for.  In the read       *)
(* branches of the access_..._details functions only the sum of the        *)
(* write()'s and the read()'s result is tested, so this rests on no other  *)
(* pair of results having the same sum.                                    *)
(***************************************************************************)
SuccessMovedAllBytes ==
  \A t \in Threads :
    bpc[t] \in {"unlock", "ready"} /\ status[t] = 0 => ~short[t]

(***************************************************************************)
(* Whoever takes i2c_mutex gives it back, on every path through an access  *)
(* function ("No returns allowed in code below, or else mutex might not    *)
(* get unlocked").                                                         *)
(***************************************************************************)
MutexReleased ==
  \A t \in Threads : i2c_mutex = t ~> i2c_mutex # t

-----------------------------------------------------------------------------
(***************************************************************************)
(* The inductive invariant: the mutex is held exactly by the thread inside *)
(* the protected section, the exchange under way is one of the script, and *)
(* a get whose write() failed still remembers it in status.                *)
(***************************************************************************)
HolderIsInside ==
  \A t \in Threads : bpc[t] \in Inside <=> i2c_mutex = t

StepInScript ==
  \A t \in Threads :
    /\ bpc[t] \in {"lock", "ioctl"} => step[t] = 1
    /\ bpc[t] = "xfer" => step[t] \in 1..Len(Script(call[t]))

HalfOnlyInGet ==
  \A t \in Threads :
    /\ bpc[t] \in {"lock", "ioctl"} => half[t] = 1
    /\ bpc[t] = "xfer" /\ half[t] = 2 => Current(t).op = "get"

ShortIsRemembered ==
  \A t \in Threads :
    /\ bpc[t] \in {"lock", "ioctl"} => ~short[t]
    /\ bpc[t] = "xfer" /\ short[t] => half[t] = 2 /\ status[t] < 1

BusInv ==
  /\ BusTypeOK
  /\ HolderIsInside
  /\ StepInScript
  /\ HalfOnlyInGet
  /\ ShortIsRemembered
  /\ TalksToChosenSlave
  /\ SuccessMovedAllBytes

=============================================================================
