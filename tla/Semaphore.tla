------------------------------ MODULE Semaphore ------------------------------
(***************************************************************************)
(* The POSIX port of the counting semaphore (posix/semaphore.c).  The sem_ *)
(* calls of the C library are atomic; what the port adds, and what is      *)
(* modelled step by step, is the conversion of a timeout given on the      *)
(* global clock to the CLOCK_REALTIME deadline sem_timedwait wants (two    *)
(* clock reads with time passing in between), the handling of signals, and *)
(* the translation of the results.                                         *)
(*                                                                         *)
(* pc[t] is idle; gettime and convert, the two clock reads; enter, about   *)
(* to call sem_(timed)wait; sleep, blocked in it; done, about to return.   *)
(***************************************************************************)
EXTENDS Timer

CONSTANTS
    Threads,        (* callers of the semaphore                            *)
    ClockSources,   (* values of global_clock_id                           *)
    InitVal,        (* initial count                                       *)
    MaxCount,       (* SEM_VALUE_MAX                                       *)
    Timeouts,       (* bound: absolute timeouts used, in nanoseconds       *)
    Offsets,        (* bound: CLOCK_REALTIME minus the monotonic clock     *)
    MaxTime,        (* bound: time stops here                              *)
    MaxDelay,       (* bound: longest delay between the two clock reads    *)
    MaxSteps        (* bound: how often CLOCK_REALTIME is set              *)

ASSUME SemaphoreAssumption ==
    /\ ClockSources \subseteq {"realtime", "monotonic"}
    /\ {InitVal, MaxCount, MaxTime, MaxDelay, MaxSteps} \subseteq Nat
    /\ InitVal <= MaxCount
    /\ Timeouts \subseteq Nat /\ Offsets \subseteq Nat

VARIABLES
    count,      (* value of sem->posix_sem                                 *)
    mono,       (* the monotonic clock                                     *)
    offset,     (* CLOCK_REALTIME shows mono + offset                      *)
    steps,      (* how often CLOCK_REALTIME was set                        *)
    clock,      (* global_clock_id                                         *)
    pc, op,     (* per thread: next statement, operation                   *)
    to,         (* per thread: the timeout argument                        *)
    act_nsec,   (* per thread: the local act_nsec                          *)
    ts,         (* per thread: the deadline for sem_timedwait              *)
    ret         (* per thread: the result                                  *)

local == <<pc, op, to, act_nsec, ts, ret>>
clocks == <<mono, offset, steps, clock>>
vars == <<count, clocks, local>>

realtime == mono + offset
Now == IF clock = "realtime" THEN realtime ELSE mono
Zero == [sec |-> 0, nsec |-> 0]

Goto(t, l) == pc' = [pc EXCEPT ![t] = l]
Finish(t, r) == Goto(t, "done") /\ ret' = [ret EXCEPT ![t] = r]
-----------------------------------------------------------------------------
(* osal_semaphore_init has run; the clock source was chosen before.        *)
Init ==
    /\ count = InitVal
    /\ mono = 0 /\ offset \in Offsets /\ steps = 0 /\ clock \in ClockSources
    /\ pc = [t \in Threads |-> "idle"]
    /\ op = [t \in Threads |-> "none"]
    /\ to = [t \in Threads |-> Zero]
    /\ act_nsec = [t \in Threads |-> 0]
    /\ ts = [t \in Threads |-> Zero]
    /\ ret = [t \in Threads |-> "OK"]

Call(t, o) ==
    /\ pc[t] = "idle"
    /\ op' = [op EXCEPT ![t] = o]
    /\ UNCHANGED <<to, act_nsec, ts, clocks>>

(* osal_semaphore_post; sem_post refuses to exceed SEM_VALUE_MAX.          *)
Post(t) ==
    /\ Call(t, "post")
    /\ \/ count < MaxCount /\ count' = count + 1 /\ Finish(t, "OK")
       \/ count >= MaxCount /\ UNCHANGED count
                            /\ Finish(t, "OPERATION_FAILED")

(* osal_semaphore_trywait                                                  *)
Trywait(t) ==
    /\ Call(t, "trywait")
    /\ \/ count > 0 /\ count' = count - 1 /\ Finish(t, "OK")
       \/ count = 0 /\ UNCHANGED count /\ Finish(t, "BUSY")

(* osal_semaphore_wait                                                     *)
Wait(t) == Call(t, "wait") /\ Goto(t, "enter") /\ UNCHANGED <<count, ret>>

(* osal_semaphore_timedwait: with CLOCK_REALTIME the timeout is passed on, *)
(* otherwise it is converted.                                              *)
Timedwait(t, n) ==
    /\ pc[t] = "idle"
    /\ op' = [op EXCEPT ![t] = "timedwait"]
    /\ to' = [to EXCEPT ![t] = FromNsec(n)]
    /\ \/ clock = "realtime"
          /\ ts' = [ts EXCEPT ![t] = FromNsec(n)] /\ Goto(t, "enter")
       \/ clock # "realtime" /\ Goto(t, "gettime") /\ UNCHANGED ts
    /\ UNCHANGED <<count, act_nsec, ret, clocks>>

(* act_nsec = osal_timer_gettime_nsec(); a timeout in the past ends here,  *)
(* before the semaphore is looked at.                                      *)
GetTime(t) ==
    /\ pc[t] = "gettime"
    /\ act_nsec' = [act_nsec EXCEPT ![t] = Now]
    /\ \/ Now > ToNsec(to[t]) /\ Finish(t, "TIMEOUT")
       \/ Now <= ToNsec(to[t]) /\ Goto(t, "convert") /\ UNCHANGED ret
    /\ UNCHANGED <<count, op, to, ts, clocks>>

(* The carry of the conversion: it is taken only ABOVE NSEC_PER_SEC.       *)
ConvertCarry(a) ==
    IF a.nsec > NsecPerSec
    THEN [sec |-> a.sec + 1, nsec |-> a.nsec - NsecPerSec]
    ELSE a

(* Mutant: the seconds are not carried.                                    *)
ConvertNoCarry(t) ==
    /\ pc[t] = "convert"
    /\ LET rest == FromNsec(ToNsec(to[t]) - act_nsec[t])
           real == FromNsec(realtime)
       IN  ts' = [ts EXCEPT ![t] =
                     [sec  |-> real.sec + rest.sec,
                      nsec |-> (real.nsec + rest.nsec) % NsecPerSec]]
    /\ Goto(t, "enter")
    /\ UNCHANGED <<count, op, to, act_nsec, ret, clocks>>

(* clock_gettime(CLOCK_REALTIME), plus the time that was left.             *)
Convert(t) ==
    /\ pc[t] = "convert"
    /\ LET rest == FromNsec(ToNsec(to[t]) - act_nsec[t])
           real == FromNsec(realtime)
       IN  ts' = [ts EXCEPT ![t] =
                     ConvertCarry([sec  |-> real.sec + rest.sec,
                                   nsec |-> real.nsec + rest.nsec])]
    /\ Goto(t, "enter")
    /\ UNCHANGED <<count, op, to, act_nsec, ret, clocks>>

(* sem_timedwait gives up once CLOCK_REALTIME has reached the deadline.    *)
Reached(t) == realtime >= ToNsec(ts[t])

(* sem_wait and sem_timedwait take the semaphore without looking at the    *)
(* deadline if they can, then check it, then block; a deadline that is not *)
(* a proper time may be refused before the semaphore is looked at.         *)
Enter(t) ==
    /\ pc[t] = "enter"
    /\ \/ count > 0 /\ count' = count - 1 /\ Finish(t, "OK")
       \/ count = 0 /\ op[t] = "wait" /\ Goto(t, "sleep")
          /\ UNCHANGED <<count, ret>>
       \/ op[t] = "timedwait" /\ ts[t].nsec >= NsecPerSec
          /\ UNCHANGED count /\ Finish(t, "INVALID_PARAM")
       \/ count = 0 /\ op[t] = "timedwait" /\ UNCHANGED count
          /\ \/ ts[t].nsec < NsecPerSec /\ Reached(t) /\ Finish(t, "TIMEOUT")
             \/ ts[t].nsec < NsecPerSec /\ ~Reached(t) /\ Goto(t, "sleep")
                /\ UNCHANGED ret
    /\ UNCHANGED <<op, to, act_nsec, ts, clocks>>

Acquire(t) ==
    /\ pc[t] = "sleep" /\ count > 0
    /\ count' = count - 1
    /\ Finish(t, "OK")
    /\ UNCHANGED <<op, to, act_nsec, ts, clocks>>

Expire(t) ==
    /\ pc[t] = "sleep" /\ op[t] = "timedwait" /\ Reached(t)
    /\ Finish(t, "TIMEOUT")
    /\ UNCHANGED <<count, op, to, act_nsec, ts, clocks>>

(* Mutant: a signal starts the timed wait from the beginning.              *)
InterruptRestart(t) ==
    /\ pc[t] = "sleep"
    /\ \/ op[t] = "wait" /\ Finish(t, "INTERRUPTED") /\ UNCHANGED ts
       \/ op[t] = "timedwait" /\ Goto(t, "enter") /\ UNCHANGED ret
          /\ ts' = [ts EXCEPT ![t] = FromNsec(realtime + 1)]
    /\ UNCHANGED <<count, op, to, act_nsec, clocks>>

(* EINTR: wait reports it, timedwait calls sem_timedwait again with the    *)
(* same deadline.                                                          *)
Interrupt(t) ==
    /\ pc[t] = "sleep"
    /\ \/ op[t] = "wait" /\ Finish(t, "INTERRUPTED")
       \/ op[t] = "timedwait" /\ Goto(t, "enter") /\ UNCHANGED ret
    /\ UNCHANGED <<count, op, to, act_nsec, ts, clocks>>

Return(t) ==
    /\ pc[t] = "done"
    /\ Goto(t, "idle")
    /\ op' = [op EXCEPT ![t] = "none"]
    /\ to' = [to EXCEPT ![t] = Zero]
    /\ act_nsec' = [act_nsec EXCEPT ![t] = 0]
    /\ ts' = [ts EXCEPT ![t] = Zero]
    /\ ret' = [ret EXCEPT ![t] = "OK"]
    /\ UNCHANGED <<count, clocks>>
-----------------------------------------------------------------------------
Tick ==
    /\ mono < MaxTime
    /\ \A t \in Threads : pc[t] = "convert" => Now - act_nsec[t] < MaxDelay
    /\ mono' = mono + 1
    /\ UNCHANGED <<count, offset, steps, clock, local>>

(* Somebody sets CLOCK_REALTIME.                                           *)
StepRealtime ==
    /\ steps < MaxSteps
    /\ steps' = steps + 1
    /\ offset' \in Offsets
    /\ UNCHANGED <<count, mono, clock, local>>

(* The steps a thread inside a call takes without anybody's help.          *)
Step(t) == GetTime(t) \/ Convert(t) \/ Enter(t) \/ Expire(t) \/ Return(t)

Next ==
    \/ \E t \in Threads :
          \/ Post(t) \/ Trywait(t) \/ Wait(t)
          \/ \E n \in Timeouts : Timedwait(t, n)
          \/ Step(t) \/ Acquire(t) \/ Interrupt(t)
    \/ Tick \/ StepRealtime

Spec == Init /\ [][Next]_vars
-----------------------------------------------------------------------------
Timed(t) == op[t] = "timedwait"

(***************************************************************************)
(* The deadline handed to sem_timedwait, seen on the clock the caller used *)
(* for its timeout, is never before the timeout, and later only by the     *)
(* delay between the two clock reads: carries and borrows lose nothing.    *)
(* It also survives every interruption by a signal.  As long as nobody     *)
(* sets CLOCK_REALTIME.                                                    *)
(***************************************************************************)
ConvertedDeadline ==
    \A t \in Threads :
        steps = 0 /\ Timed(t) /\ pc[t] \in {"enter", "sleep"} =>
            ToNsec(ts[t]) - (realtime - Now) - ToNsec(to[t])
                \in 0 .. (IF clock = "realtime" THEN 0 ELSE MaxDelay)

(***************************************************************************)
(* osal_semaphore_timedwait reports OSAL_ERR_TIMEOUT only when the clock   *)
(* the caller used has reached the timeout, as long as nobody sets         *)
(* CLOCK_REALTIME.                                                         *)
(***************************************************************************)
TimeoutNotEarly ==
    \A t \in Threads :
        steps = 0 /\ Timed(t) /\ pc[t] = "done" /\ ret[t] = "TIMEOUT" =>
            Now >= ToNsec(to[t])

(***************************************************************************)
(* semaphore.h:142, OSAL_ERR_INVALID_PARAM is for an "Invalid input        *)
(* parameter": a timed wait with a timer whose nanoseconds are in range    *)
(* never reports it.                                                       *)
(***************************************************************************)
WellFormedAccepted ==
    \A t \in Threads :
        Timed(t) /\ pc[t] = "done" => ret[t] # "INVALID_PARAM"

=============================================================================
