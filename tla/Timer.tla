-------------------------------- MODULE Timer --------------------------------
(***************************************************************************)
(* The timer arithmetic of timer.h and posix/timer.c.  A timer is a record *)
(* of seconds and nanoseconds; the number of nanoseconds of a second is a  *)
(* constant so that every carry can be reached with small numbers.         *)
(***************************************************************************)
EXTENDS Integers

CONSTANT NsecPerSec     (* NSEC_PER_SEC, 1000000000 in the code            *)

ASSUME NsecPerSecAssumption == NsecPerSec \in Nat \ {0}

Timers == [sec : Nat, nsec : 0 .. NsecPerSec - 1]

(* osal_timer_to_nsec                                                      *)
ToNsec(a) == a.sec * NsecPerSec + a.nsec

(* A number of nanoseconds as seconds and rest, as osal_timer_init and     *)
(* osal_sleep_until_nsec split it.                                         *)
FromNsec(n) == [sec |-> n \div NsecPerSec, nsec |-> n % NsecPerSec]

(* The carry: subtracted once, not until the nanoseconds are in range.     *)
Carry(a) ==
    IF a.nsec >= NsecPerSec
    THEN [sec |-> a.sec + 1, nsec |-> a.nsec - NsecPerSec]
    ELSE a

(* osal_timer_add                                                          *)
TimerAdd(a, b) == Carry([sec |-> a.sec + b.sec, nsec |-> a.nsec + b.nsec])

(* osal_timer_add_nsec                                                     *)
TimerAddNsec(a, n) == Carry([sec |-> a.sec, nsec |-> a.nsec + n])

(* osal_timer_cmp(a, b, <)                                                 *)
TimerLess(a, b) ==
    IF a.sec = b.sec THEN a.nsec < b.nsec ELSE a.sec < b.sec

(* osal_timer_init on a clock that shows now                               *)
TimerInit(now, timeout) == TimerAdd(FromNsec(now), FromNsec(timeout))

(* osal_timer_expired returns OSAL_ERR_TIMEOUT                             *)
TimerExpired(now, a) == ~TimerLess(FromNsec(now), a)

=============================================================================
