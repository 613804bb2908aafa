-------------------------------- MODULE Sleep --------------------------------
(***************************************************************************)
(* The sleeping functions of posix/timer.c and timer.c: osal_sleep,        *)
(* osal_sleep_until (osal_sleep_until_nsec calls it) and                   *)
(* osal_busy_wait_until_nsec.  All times are kept relative to now, so time *)
(* itself is unbounded; a time that has passed is 0.                       *)
(*                                                                         *)
(* pc[t]: idle; call, about to call clock_nanosleep; asleep, in it; spin,  *)
(* in the busy-wait loop; done, about to return.                           *)
(***************************************************************************)
EXTENDS Integers

CONSTANTS
    Threads,        (* the threads that sleep                              *)
    MaxSleep,       (* bound: the longest sleep asked for                  *)
    ClockSources    (* values of global_clock_id: clocks that              *)
                    (* clock_nanosleep supports ("plain"), and ones it     *)
                    (* rejects with ENOTSUP ("raw", CLOCK_MONOTONIC_RAW)   *)

ASSUME SleepAssumption ==
    MaxSleep \in Nat /\ ClockSources \subseteq {"plain", "raw"}

VARIABLES
    clock,   (* global_clock_id                                            *)
    pc, op,  (* per thread: next statement, function                       *)
    due,     (* per thread: time left until the sleep asked for is over    *)
    ts,      (* per thread: the local ts of osal_sleep                     *)
    left,    (* per thread: time left until the kernel wakes the sleeper   *)
    ret      (* per thread: the result                                     *)

locals == <<pc, op, due, ts, left, ret>>
vars == <<clock, locals>>

Durations == 0 .. MaxSleep
Goto(t, l) == pc' = [pc EXCEPT ![t] = l]
Finish(t, r) == Goto(t, "done") /\ ret' = [ret EXCEPT ![t] = r]
-----------------------------------------------------------------------------
Init ==
    /\ clock \in ClockSources
    /\ pc = [t \in Threads |-> "idle"]
    /\ op = [t \in Threads |-> "none"]
    /\ due = [t \in Threads |-> 0]
    /\ ts = [t \in Threads |-> 0]
    /\ left = [t \in Threads |-> 0]
    /\ ret = [t \in Threads |-> "OK"]

(* osal_sleep(n): a relative time.                                         *)
Sleep(t, n) ==
    /\ pc[t] = "idle"
    /\ op' = [op EXCEPT ![t] = "sleep"]
    /\ due' = [due EXCEPT ![t] = n]
    /\ ts' = [ts EXCEPT ![t] = n]
    /\ Goto(t, "call")
    /\ UNCHANGED <<clock, left, ret>>

(* osal_sleep_until: an absolute time, n from now; a time that has passed  *)
(* is the same as now.                                                     *)
SleepUntil(t, n) ==
    /\ pc[t] = "idle"
    /\ op' = [op EXCEPT ![t] = "until"]
    /\ due' = [due EXCEPT ![t] = n]
    /\ Goto(t, "call")
    /\ UNCHANGED <<clock, ts, left, ret>>

(* osal_sleep_until with nanoseconds out of range: clock_nanosleep looks   *)
(* at the clock first, then at the time.                                   *)
SleepUntilInvalid(t) ==
    /\ pc[t] = "idle"
    /\ op' = [op EXCEPT ![t] = "until"]
    /\ Finish(t, IF clock = "plain" THEN "INVALID_PARAM"
                 ELSE "OPERATION_FAILED")
    /\ UNCHANGED <<clock, due, ts, left>>

(* osal_busy_wait_until_nsec                                               *)
BusyWait(t, n) ==
    /\ pc[t] = "idle"
    /\ op' = [op EXCEPT ![t] = "busy"]
    /\ due' = [due EXCEPT ![t] = n]
    /\ Goto(t, "spin")
    /\ UNCHANGED <<clock, ts, left, ret>>

(* clock_nanosleep on a clock it supports: a relative sleep starts now,    *)
(* an absolute one ends when it ends.                                      *)
FallAsleep(t) ==
    /\ pc[t] = "call" /\ clock = "plain"
    /\ left' = [left EXCEPT ![t] = IF op[t] = "sleep" THEN ts[t] ELSE due[t]]
    /\ Goto(t, "asleep")
    /\ UNCHANGED <<clock, op, due, ts, ret>>

(* clock_nanosleep on a clock it does not support: osal_sleep_until gives  *)
(* up, osal_sleep tries again with whatever is in its local rest, which    *)
(* nobody has written.                                                     *)
Rejected(t) ==
    /\ pc[t] = "call" /\ clock = "raw"
    /\ \/ op[t] = "until" /\ Finish(t, "OPERATION_FAILED") /\ UNCHANGED ts
       \/ /\ op[t] = "sleep"
          /\ \E n \in Durations : ts' = [ts EXCEPT ![t] = n]
          /\ UNCHANGED <<pc, ret>>
    /\ UNCHANGED <<clock, op, due, left>>

WakeUp(t) ==
    /\ pc[t] = "asleep" /\ left[t] = 0
    /\ Finish(t, "OK")
    /\ UNCHANGED <<clock, op, due, ts, left>>

(* Mutant: any return of clock_nanosleep ends the sleep.                   *)
InterruptEnds(t) ==
    /\ pc[t] = "asleep" /\ left[t] > 0
    /\ Finish(t, "OK")
    /\ UNCHANGED <<clock, op, due, ts, left>>

(* Mutant: the whole time is slept again.                                  *)
InterruptFromStart(t) ==
    /\ pc[t] = "asleep" /\ left[t] > 0
    /\ Goto(t, "call")
    /\ UNCHANGED <<clock, op, due, ts, left, ret>>

(* EINTR: osal_sleep goes on with the rest, osal_sleep_until with the same *)
(* absolute time.                                                          *)
Interrupt(t) ==
    /\ pc[t] = "asleep" /\ left[t] > 0
    /\ ts' = [ts EXCEPT ![t] = IF op[t] = "sleep" THEN left[t] ELSE @]
    /\ Goto(t, "call")
    /\ UNCHANGED <<clock, op, due, left, ret>>

(* now = osal_timer_gettime_nsec() has reached nsec                        *)
SpinEnds(t) ==
    /\ pc[t] = "spin" /\ due[t] = 0
    /\ Finish(t, "OK")
    /\ UNCHANGED <<clock, op, due, ts, left>>

Return(t) ==
    /\ pc[t] = "done"
    /\ Goto(t, "idle")
    /\ op' = [op EXCEPT ![t] = "none"]
    /\ due' = [due EXCEPT ![t] = 0]
    /\ ts' = [ts EXCEPT ![t] = 0]
    /\ left' = [left EXCEPT ![t] = 0]
    /\ ret' = [ret EXCEPT ![t] = "OK"]
    /\ UNCHANGED clock
-----------------------------------------------------------------------------
Less(n) == IF n > 0 THEN n - 1 ELSE 0

(* Time passes for everybody; the kernel counts for the ones asleep.       *)
Tick ==
    /\ due' = [t \in Threads |-> Less(due[t])]
    /\ left' = [t \in Threads |->
                   IF pc[t] = "asleep" THEN Less(left[t]) ELSE left[t]]
    /\ UNCHANGED <<clock, pc, op, ts, ret>>

Step(t) == FallAsleep(t) \/ Rejected(t) \/ WakeUp(t) \/ SpinEnds(t) \/ Return(t)

Next ==
    \/ \E t \in Threads :
          \/ \E n \in Durations :
                 Sleep(t, n) \/ SleepUntil(t, n) \/ BusyWait(t, n)
          \/ SleepUntilInvalid(t)
          \/ Interrupt(t)
          \/ Step(t)
    \/ Tick

Spec == Init /\ [][Next]_vars

(* Threads run, and time also passes while a thread is asleep: signals do  *)
(* not come so fast that clock_nanosleep never gets to wait at all.        *)
Fairness ==
    /\ \A t \in Threads : WF_vars(Step(t)) /\ SF_vars(WakeUp(t))
    /\ WF_vars(Tick)
    /\ \A t \in Threads : SF_vars(Tick /\ pc[t] = "asleep" /\ left[t] > 0)
FairSpec == Spec /\ Fairness
-----------------------------------------------------------------------------
TypeOK ==
    /\ clock \in ClockSources
    /\ pc \in [Threads -> {"idle", "call", "asleep", "spin", "done"}]
    /\ op \in [Threads -> {"none", "sleep", "until", "busy"}]
    /\ due \in [Threads -> Durations]
    /\ ts \in [Threads -> Durations]
    /\ left \in [Threads -> Durations]
    /\ ret \in [Threads -> {"OK", "INVALID_PARAM", "OPERATION_FAILED"}]

(* Inductive strengthening of NotEarly: the time osal_sleep is about to    *)
(* sleep, and the time the kernel lets a sleeper wait, cover what is due.  *)
(* Only supported clocks let a thread fall asleep.                         *)
Covered(t) ==
    /\ clock = "plain" /\ pc[t] = "call" /\ op[t] = "sleep" => ts[t] >= due[t]
    /\ pc[t] = "asleep" => clock = "plain" /\ left[t] >= due[t]
    /\ pc[t] = "done" /\ ret[t] = "OK" => due[t] = 0
SleepInv == \A t \in Threads : Covered(t)

(***************************************************************************)
(* No sleep ends early, in particular not when signals interrupt it        *)
(* (timer.h:98, it "may not return earlier when interrupted in any case"), *)
(* for the relative, the absolute and the busy variant.                    *)
(***************************************************************************)
NotEarly ==
    \A t \in Threads : pc[t] = "done" /\ ret[t] = "OK" => due[t] = 0

(***************************************************************************)
(* Every sleep ends, although signals keep interrupting it: osal_sleep     *)
(* goes on with the time that is left.  On a clock clock_nanosleep does    *)
(* not support that holds for osal_sleep_until and the busy wait only.     *)
(***************************************************************************)
SleepEnds ==
    \A t \in Threads :
        (pc[t] # "idle" /\ (clock = "plain" \/ op[t] # "sleep"))
            ~> (pc[t] = "idle")

=============================================================================
