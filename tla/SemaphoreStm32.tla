--------------------------- MODULE SemaphoreStm32 ---------------------------
(***************************************************************************)
(* The bare-metal port for STM32 (stm32/semaphore.c, binary_semaphore.c    *)
(* and timer.c) beside the POSIX port of Semaphore: both kinds of          *)
(* semaphore and osal_sleep_until on one core without an operating system. *)
(* The callers are the main program and interrupt handlers, one of which   *)
(* at a time interrupts the main program between any two of its steps and  *)
(* makes one call; a handler does not block without a timeout.  Waiting is *)
(* polling.  A critical section (stm32/osal.h) keeps handlers out, but not *)
(* the time from passing: the clock is a pair of hardware counters, TIM4   *)
(* for the seconds and TIM2 for the nanoseconds, read one after the other. *)
(*                                                                         *)
(* Either port is a behaviour of this specification, chosen by port in the *)
(* initial state; they share the variables callers see, so that what is    *)
(* promised is stated once.                                                *)
(*                                                                         *)
(* pc[t] is here: post; load and sub, the count is tested and decremented; *)
(* xchg, the flag is tested and cleared; mask and spin, the same with      *)
(* interrupts off until it was set; tim1 and tim2, reading the counters.   *)
(***************************************************************************)
EXTENDS Semaphore

CONSTANTS
    Main,           (* the main program; the other threads are handlers    *)
    MaxPending      (* bound: the count up to which a thread posts, and   *)
                    (* the debt up to which one waits                      *)

ASSUME Stm32Assumption == Main \in Threads /\ MaxPending \in Nat \ {0}

VARIABLES
    port,       (* "posix" or "stm32"                                      *)
    kind,       (* "counting" or "binary"                                  *)
    act,        (* per thread: the local osal_timer_t act                  *)
    empty,      (* the timed waits on STM32 that have looked and found     *)
                (* nothing, as old_value tells in binary_semaphore.c       *)
    raced       (* history: the threads that passed the test of the count  *)
                (* while the last post was already promised to another one *)

config == <<port, kind>>
seen == <<empty, raced>>
stmonly == <<config, act, seen>>
stmvars == <<vars, stmonly>>
stmrest == <<op, to, act_nsec, ts, clocks, config>>

StmInit ==
    /\ Init
    /\ act = [t \in Threads |-> Zero]
    /\ empty = {} /\ raced = {}
    /\ \/ port = "posix" /\ kind = "counting"
       \/ /\ port = "stm32" /\ kind \in {"counting", "binary"}
          /\ clock = "monotonic" /\ offset = 0
-----------------------------------------------------------------------------
(* ENTER_CRITICAL_SECTION switches interrupts off, LEAVE_CRITICAL_SECTION  *)
(* on again if they were on.  Sections without a loop or a read of the     *)
(* clock are single steps.                                                 *)
Masked == \E t \in Threads : pc[t] \in {"spin", "tim2"}

(* One core: the main program runs while no handler does.                  *)
Runs(t) ==
    /\ port = "stm32"
    /\ \A h \in Threads \ {Main, t} : pc[h] = "idle"
    /\ t # Main /\ pc[t] = "idle" => ~Masked

First(o) ==
    CASE o = "post" -> "post"
      [] o = "sleep_until" -> "tim1"
      [] o \in {"wait", "trywait", "timedwait"} /\ kind = "counting" -> "load"
      [] o = "wait" /\ kind = "binary" -> "mask"
      [] o = "trywait" /\ kind = "binary" -> "xchg"
      [] o = "timedwait" /\ kind = "binary" -> "tim1"

StmCall(t, o) ==
    /\ Runs(t) /\ pc[t] = "idle"
    /\ o \in {"wait", "sleep_until"} => t = Main
    /\ kind = "counting" =>
          IF o = "post" THEN count < MaxPending
          ELSE o = "sleep_until" \/ count > -MaxPending
    /\ Goto(t, First(o))
    /\ op' = [op EXCEPT ![t] = o]
    /\ \/ o \in {"timedwait", "sleep_until"}
          /\ \E n \in Timeouts : to' = [to EXCEPT ![t] = FromNsec(n)]
       \/ o \notin {"timedwait", "sleep_until"} /\ UNCHANGED to
    /\ UNCHANGED <<count, act_nsec, ts, ret, clocks, stmonly>>

(* A timed wait that found nothing goes on to look at the clock.           *)
FoundNothing(t) ==
    empty' = IF pc'[t] = "tim1" THEN empty \cup {t} ELSE empty

(* osal_semaphore_post adds one, osal_binary_semaphore_post sets the flag. *)
StmPost(t) ==
    /\ Runs(t) /\ pc[t] = "post"
    /\ count' = IF kind = "binary" THEN 1 ELSE count + 1
    /\ Finish(t, "OK")
    /\ UNCHANGED <<stmrest, act, seen>>

(* The posts that are there have been promised to a thread that is about   *)
(* to decrement the count.                                                 *)
Promised(t) == count <= 1 /\ \E s \in Threads \ {t} : pc[s] = "sub"

(* Counting: wait and timedwait poll the count until it is not zero,       *)
(* trywait looks once.  The decrement is another step.                     *)
StmLoad(t) ==
    /\ Runs(t) /\ pc[t] = "load"
    /\ \/ count # 0 /\ op[t] # "trywait" /\ Goto(t, "sub") /\ UNCHANGED ret
       \/ count > 0 /\ op[t] = "trywait" /\ Goto(t, "sub") /\ UNCHANGED ret
       \/ count <= 0 /\ op[t] = "trywait" /\ Finish(t, "UNAVAILABLE")
       \/ count = 0 /\ op[t] = "wait" /\ UNCHANGED <<pc, ret>>
       \/ count = 0 /\ op[t] = "timedwait" /\ Goto(t, "tim1") /\ UNCHANGED ret
    /\ raced' = IF pc'[t] = "sub" /\ Promised(t) THEN raced \cup {t} ELSE raced
    /\ FoundNothing(t)
    /\ UNCHANGED <<count, stmrest, act>>

StmSub(t) ==
    /\ Runs(t) /\ pc[t] = "sub"
    /\ count' = count - 1
    /\ Finish(t, "OK")
    /\ UNCHANGED <<stmrest, act, seen>>

(* Mutant: the flag is loaded and not exchanged.                           *)
StmXchgLoads(t) ==
    /\ Runs(t) /\ pc[t] = "xchg"
    /\ \/ count = 1 /\ Finish(t, "OK")
       \/ count = 0 /\ op[t] = "trywait" /\ Finish(t, "BUSY")
       \/ count = 0 /\ op[t] = "timedwait" /\ Goto(t, "tim1") /\ UNCHANGED ret
    /\ FoundNothing(t)
    /\ UNCHANGED <<count, stmrest, act, raced>>

(* Binary: the flag is exchanged for zero, by trywait once and by          *)
(* timedwait between looks at the clock;                                   *)
StmXchg(t) ==
    /\ Runs(t) /\ pc[t] = "xchg"
    /\ count' = 0
    /\ \/ count = 1 /\ Finish(t, "OK")
       \/ count = 0 /\ op[t] = "trywait" /\ Finish(t, "BUSY")
       \/ count = 0 /\ op[t] = "timedwait" /\ Goto(t, "tim1") /\ UNCHANGED ret
    /\ FoundNothing(t)
    /\ UNCHANGED <<stmrest, act, raced>>

(* wait does so with interrupts switched off, until it was set.            *)
StmMask(t) ==
    /\ Runs(t) /\ pc[t] = "mask"
    /\ Goto(t, "spin")
    /\ UNCHANGED <<count, ret, stmrest, act, seen>>

StmSpin(t) ==
    /\ Runs(t) /\ pc[t] = "spin"
    /\ count' = 0
    /\ \/ count = 1 /\ Finish(t, "OK")
       \/ count = 0 /\ UNCHANGED <<pc, ret>>
    /\ UNCHANGED <<stmrest, act, seen>>

(* Mutant: the nanoseconds are read first.                                 *)
TimOrderSwapped == <<"nsec", "sec">>

(* osal_timer_gettime reads TIM4, then TIM2.                               *)
TimOrder == <<"sec", "nsec">>

Tim(f) == FromNsec(mono)[f]

StmReadFirst(t) ==
    /\ Runs(t) /\ pc[t] = "tim1"
    /\ act' = [act EXCEPT ![t][TimOrder[1]] = Tim(TimOrder[1])]
    /\ Goto(t, "tim2")
    /\ UNCHANGED <<count, ret, stmrest, seen>>

(* osal_timer_expired compares the two with the timeout, which ends a      *)
(* sleep and a timed wait; otherwise the caller polls again.               *)
StmReadSecond(t) ==
    LET now == [act[t] EXCEPT ![TimOrder[2]] = Tim(TimOrder[2])]
        Again == IF op[t] = "sleep_until" THEN "tim1"
                 ELSE IF kind = "binary" THEN "xchg" ELSE "load"
    IN  /\ Runs(t) /\ pc[t] = "tim2"
        /\ act' = [act EXCEPT ![t] = Zero]
        /\ \/ ~TimerLess(now, to[t])
              /\ Finish(t, IF op[t] = "sleep_until" THEN "OK" ELSE "TIMEOUT")
           \/ TimerLess(now, to[t]) /\ Goto(t, Again) /\ UNCHANGED ret
        /\ UNCHANGED <<count, stmrest, seen>>

StmReturn(t) ==
    /\ Runs(t) /\ Return(t)
    /\ empty' = empty \ {t}
    /\ UNCHANGED <<config, act, raced>>

StmStep(t) ==
    \/ StmPost(t) \/ StmLoad(t) \/ StmSub(t) \/ StmXchg(t) \/ StmMask(t)
    \/ StmSpin(t) \/ StmReadFirst(t) \/ StmReadSecond(t) \/ StmReturn(t)

StmOps == {"post", "wait", "trywait", "timedwait", "sleep_until"}

StmNext ==
    \/ \E t \in Threads : StmStep(t) \/ \E o \in StmOps : StmCall(t, o)
    \/ port = "stm32" /\ Tick /\ UNCHANGED stmonly
    \/ port = "posix" /\ Next /\ UNCHANGED stmonly

StmSpec == StmInit /\ [][StmNext]_stmvars

(* Time passes and callers keep running; the main program is not starved   *)
(* by handlers for ever.                                                   *)
StmFairness ==
    /\ WF_stmvars(Tick /\ UNCHANGED stmonly)
    /\ \A t \in Threads :
          /\ WF_stmvars(port = "posix" /\ Step(t) /\ UNCHANGED stmonly)
          /\ SF_stmvars(StmStep(t))
StmFairSpec == StmSpec /\ StmFairness
-----------------------------------------------------------------------------
(* A caller that has found nothing to take and waits.                      *)
Waiting(t) ==
    pc[t] = "sleep" \/ (t \in empty /\ pc[t] \in {"tim1", "tim2"})

(* A timed wait that timed out without having looked at the semaphore.     *)
NeverLooked(t) ==
    /\ op[t] = "timedwait" /\ ret[t] = "TIMEOUT"
    /\ IF port = "posix" THEN act_nsec[t] > ToNsec(to[t]) ELSE t \notin empty

(* What a call that has taken effect shows for its result.                 *)
Shown(t) ==
    IF pc[t] = "done" /\ op[t] # "sleep_until" /\ ~NeverLooked(t)
    THEN <<op[t], IF ret[t] = "UNAVAILABLE" THEN "BUSY" ELSE ret[t]>>
    ELSE <<"none", "none">>

(***************************************************************************)
(* Each port and each kind is a semaphore.  Two things the ports do        *)
(* against semaphore.h are left out of the mapping: a timeout in the past  *)
(* that is reported without a look at the semaphore (132, "If the internal *)
(* counter is already greater than 0 it decrements the counter"), and the  *)
(* code of the counting trywait on STM32 (120, "it returns OSAL_ERR_BUSY").*)
(***************************************************************************)
Abstract == INSTANCE SemaphoreSpec
    WITH value <- count, binary <- (kind = "binary"),
         blocked <- {t \in Threads : Waiting(t)},
         result <- [t \in Threads |-> Shown(t)]

(***************************************************************************)
(* On both ports every call on a semaphore takes effect in one step, as    *)
(* SemaphoreSpec says: a successful wait has taken a post of its own,      *)
(* although a handler of STM32 may post or take at any time, also between  *)
(* the test of the count and its decrement by the main program.  Up to the *)
(* first time that such a handler passes the test on the one post already  *)
(* promised to the main program: from there on the count may be negative,  *)
(* and every later wait succeeds.                                          *)
(***************************************************************************)
ImplementsSpec ==
    /\ Abstract!Init
    /\ [][raced' = {} => [Abstract!Next]_(Abstract!vars)]_stmvars

(***************************************************************************)
(* A timed wait reports OSAL_ERR_TIMEOUT, and osal_sleep_until of the      *)
(* STM32 port returns, only when the clock has reached the timeout: on     *)
(* POSIX as long as nobody sets CLOCK_REALTIME, on STM32 although the      *)
(* second may change between the reads of the two counters.                *)
(***************************************************************************)
DeadlineNotEarly ==
    /\ TimeoutNotEarly
    /\ \A t \in Threads :
          op[t] = "sleep_until" /\ pc[t] = "done" => Now >= ToNsec(to[t])

(***************************************************************************)
(* A call with a timeout comes back although nobody posts: on POSIX        *)
(* however often signals interrupt it, on STM32 however often handlers     *)
(* interrupt it, and although the clock may be read a second too early.    *)
(***************************************************************************)
TimedCallsReturn ==
    \A t \in Threads :
        (pc[t] # "idle" /\ op[t] \in {"timedwait", "sleep_until"})
            ~> (pc[t] = "idle")

=============================================================================
