------------------------ MODULE SemaphoreStm32_proofs ------------------------
(***************************************************************************)
(* Machine-checked proofs about both ports of the semaphores and about the *)
(* timer arithmetic they use, for any number of callers and handlers, any  *)
(* timeouts and any number of nanoseconds in a second.                     *)
(***************************************************************************)
EXTENDS SemaphoreStm32, TLAPS

(***************************************************************************)
(* The timer arithmetic: timers in normal form are numbers of nanoseconds, *)
(* sums and comparisons agree with those of the numbers.                   *)
(***************************************************************************)
(* The products of the proofs below, for a solver of linear arithmetic.    *)
LEMMA MultNat ==
    ASSUME NEW a \in Nat
    PROVE  /\ a * NsecPerSec \in Nat
           /\ (a + 1) * NsecPerSec = a * NsecPerSec + NsecPerSec
  BY NsecPerSecAssumption

LEMMA MultSum ==
    ASSUME NEW a \in Nat, NEW b \in Nat
    PROVE  (a + b) * NsecPerSec = a * NsecPerSec + b * NsecPerSec
  BY NsecPerSecAssumption

LEMMA MultMono ==
    ASSUME NEW a \in Nat, NEW b \in Nat, a < b
    PROVE  a * NsecPerSec + NsecPerSec <= b * NsecPerSec
  <1>1. PICK d \in Nat : b = a + 1 + d
    <2>1. b - a - 1 \in Nat /\ b = a + 1 + (b - a - 1)
      OBVIOUS
    <2> QED BY <2>1
  <1>2. b * NsecPerSec = (a + 1) * NsecPerSec + d * NsecPerSec
    BY <1>1, MultSum
  <1> QED BY <1>2, MultNat, NsecPerSecAssumption

(* A carry keeps the number of nanoseconds and reaches normal form when    *)
(* the nanoseconds are less than two seconds.                              *)
LEMMA CarryCorrect ==
    ASSUME NEW s \in Nat, NEW n \in Nat, n < NsecPerSec + NsecPerSec
    PROVE  LET c == Carry([sec |-> s, nsec |-> n])
           IN  c \in Timers /\ ToNsec(c) = s * NsecPerSec + n
  BY MultNat, NsecPerSecAssumption DEF Carry, Timers, ToNsec

(***************************************************************************)
(* osal_timer_add of two timers in normal form is in normal form and       *)
(* stands for the sum of their nanoseconds.                                *)
(***************************************************************************)
THEOREM AddCorrect ==
    ASSUME NEW a \in Timers, NEW b \in Timers
    PROVE  /\ TimerAdd(a, b) \in Timers
           /\ ToNsec(TimerAdd(a, b)) = ToNsec(a) + ToNsec(b)
  <1>1. /\ a.sec \in Nat /\ b.sec \in Nat
        /\ a.nsec \in 0 .. NsecPerSec - 1 /\ b.nsec \in 0 .. NsecPerSec - 1
    BY DEF Timers
  <1>2. /\ a.sec + b.sec \in Nat /\ a.nsec + b.nsec \in Nat
        /\ a.nsec + b.nsec < NsecPerSec + NsecPerSec
    BY <1>1, NsecPerSecAssumption
  <1>3. /\ TimerAdd(a, b) \in Timers
        /\ ToNsec(TimerAdd(a, b))
             = (a.sec + b.sec) * NsecPerSec + (a.nsec + b.nsec)
    BY <1>2, CarryCorrect DEF TimerAdd
  <1>4. (a.sec + b.sec) * NsecPerSec
          = a.sec * NsecPerSec + b.sec * NsecPerSec
    BY <1>1, MultSum
  <1>5. a.sec * NsecPerSec \in Nat /\ b.sec * NsecPerSec \in Nat
    BY <1>1, MultNat
  <1> QED BY <1>1, <1>3, <1>4, <1>5, NsecPerSecAssumption DEF ToNsec

(***************************************************************************)
(* osal_timer_add_nsec of at most a second is in normal form and adds that *)
(* many nanoseconds: its single carry is enough for these, and only these. *)
(***************************************************************************)
THEOREM AddNsecCorrect ==
    ASSUME NEW a \in Timers, NEW n \in 0 .. NsecPerSec
    PROVE  /\ TimerAddNsec(a, n) \in Timers
           /\ ToNsec(TimerAddNsec(a, n)) = ToNsec(a) + n
  <1>1. a.sec \in Nat /\ a.nsec \in 0 .. NsecPerSec - 1
    BY DEF Timers
  <1>2. a.nsec + n \in Nat /\ a.nsec + n < NsecPerSec + NsecPerSec
    BY <1>1, NsecPerSecAssumption
  <1>3. /\ TimerAddNsec(a, n) \in Timers
        /\ ToNsec(TimerAddNsec(a, n)) = a.sec * NsecPerSec + (a.nsec + n)
    BY <1>1, <1>2, CarryCorrect DEF TimerAddNsec
  <1>4. a.sec * NsecPerSec \in Nat
    BY <1>1, MultNat
  <1> QED BY <1>1, <1>3, <1>4, NsecPerSecAssumption DEF ToNsec

(***************************************************************************)
(* osal_timer_cmp with < orders timers in normal form as their numbers of  *)
(* nanoseconds are ordered.                                                *)
(***************************************************************************)
THEOREM LessCorrect ==
    ASSUME NEW a \in Timers, NEW b \in Timers
    PROVE  TimerLess(a, b) <=> ToNsec(a) < ToNsec(b)
  <1>1. /\ a.sec \in Nat /\ b.sec \in Nat
        /\ a.nsec \in 0 .. NsecPerSec - 1 /\ b.nsec \in 0 .. NsecPerSec - 1
    BY DEF Timers
  <1>2. a.sec * NsecPerSec \in Nat /\ b.sec * NsecPerSec \in Nat
    BY <1>1, MultNat
  <1>3. CASE a.sec = b.sec
    BY <1>1, <1>2, <1>3, NsecPerSecAssumption DEF TimerLess, ToNsec
  <1>4. CASE a.sec < b.sec
    <2>1. a.sec * NsecPerSec + NsecPerSec <= b.sec * NsecPerSec
      BY <1>1, <1>4, MultMono
    <2> QED
      BY <1>1, <1>2, <1>4, <2>1, NsecPerSecAssumption DEF TimerLess, ToNsec
  <1>5. CASE b.sec < a.sec
    <2>1. b.sec * NsecPerSec + NsecPerSec <= a.sec * NsecPerSec
      BY <1>1, <1>5, MultMono
    <2> QED
      BY <1>1, <1>2, <1>5, <2>1, NsecPerSecAssumption DEF TimerLess, ToNsec
  <1> QED BY <1>1, <1>3, <1>4, <1>5

(* Seconds and rest of a number are in normal form and stand for it.       *)
LEMMA FromNsecCorrect ==
    ASSUME NEW n \in Nat
    PROVE  FromNsec(n) \in Timers /\ ToNsec(FromNsec(n)) = n
  <1>1. n \div NsecPerSec \in Nat
    BY NsecPerSecAssumption
  <1>2. n % NsecPerSec \in 0 .. NsecPerSec - 1
    BY NsecPerSecAssumption
  <1>3. n = NsecPerSec * (n \div NsecPerSec) + (n % NsecPerSec)
    BY NsecPerSecAssumption
  <1>4. n = (n \div NsecPerSec) * NsecPerSec + (n % NsecPerSec)
    BY <1>1, <1>2, <1>3, NsecPerSecAssumption
  <1> QED BY <1>1, <1>2, <1>4 DEF FromNsec, Timers, ToNsec

(***************************************************************************)
(* A timer of osal_timer_init is reported as expired by osal_timer_expired *)
(* exactly from the timeout on: never before it, and not a nanosecond      *)
(* after it, whatever carries the sum and the readings of the clock have.  *)
(***************************************************************************)
THEOREM ExpiresOnTime ==
    ASSUME NEW start \in Nat, NEW timeout \in Nat, NEW now \in Nat
    PROVE  TimerExpired(now, TimerInit(start, timeout))
             <=> now >= start + timeout
  <1>1. /\ TimerInit(start, timeout) \in Timers
        /\ ToNsec(TimerInit(start, timeout)) = start + timeout
    BY FromNsecCorrect, AddCorrect DEF TimerInit
  <1>2. FromNsec(now) \in Timers /\ ToNsec(FromNsec(now)) = now
    BY FromNsecCorrect
  <1>3. TimerLess(FromNsec(now), TimerInit(start, timeout))
          <=> now < start + timeout
    BY <1>1, <1>2, LessCorrect
  <1> QED BY <1>3 DEF TimerExpired
-----------------------------------------------------------------------------

PosixPCs == {"idle", "gettime", "convert", "enter", "sleep", "done"}
StmPCs == {"idle", "post", "load", "sub", "xchg", "mask", "spin", "tim1",
           "tim2", "done"}
Waits == {"wait", "trywait", "timedwait"}
Results == {"OK", "BUSY", "UNAVAILABLE", "TIMEOUT", "INTERRUPTED",
            "INVALID_PARAM", "OPERATION_FAILED"}
RawTimers == [sec : Nat, nsec : Nat]
(* The begin of the second a timer is in.                                  *)
Floor(a) == a.sec * NsecPerSec

TypeOK ==
    /\ mono \in Nat /\ offset \in Nat /\ steps \in Nat
    /\ clock \in {"realtime", "monotonic"}
    /\ kind \in {"counting", "binary"}
    /\ op \in [Threads -> StmOps \cup {"none"}]
    /\ to \in [Threads -> Timers]
    /\ act_nsec \in [Threads -> Nat]
    /\ ts \in [Threads -> RawTimers]
    /\ act \in [Threads -> Timers]
    /\ ret \in [Threads -> Results]

(* The statements of each port, and what the STM32 port has for clocks.    *)
PortOK ==
    \/ port = "posix" /\ kind = "counting" /\ pc \in [Threads -> PosixPCs]
       /\ \A t \in Threads : op[t] # "sleep_until"
    \/ port = "stm32" /\ pc \in [Threads -> StmPCs]
       /\ clock = "monotonic" /\ offset = 0 /\ steps = 0

(* The operations a statement is part of.                                  *)
PcOp ==
    \A t \in Threads :
        /\ pc[t] = "idle" <=> op[t] = "none"
        /\ pc[t] \in {"gettime", "convert"} =>
              op[t] = "timedwait" /\ clock = "monotonic"
        /\ pc[t] \in {"enter", "sleep"} => op[t] \in {"wait", "timedwait"}
        /\ pc[t] = "post" => op[t] = "post"
        /\ pc[t] \in {"load", "sub"} => op[t] \in Waits /\ kind = "counting"
        /\ pc[t] = "xchg" => op[t] \in {"trywait", "timedwait"}
        /\ pc[t] \in {"mask", "spin"} => op[t] = "wait"
        /\ pc[t] \in {"xchg", "mask", "spin"} => kind = "binary"
        /\ pc[t] \in {"tim1", "tim2"} => op[t] \in {"timedwait", "sleep_until"}

(* Why the decrement of the STM32 port does not take what is not there     *)
(* before the first race: every thread that has passed the test has a post *)
(* of its own.  Two have at most, one of them the main program.            *)
CountOK ==
    /\ count \in Int
    /\ port = "posix" => raced = {}
    /\ raced = {} =>
          /\ count \in Nat
          /\ \A t \in Threads : pc[t] = "sub" => count > 0
          /\ \A s, t \in Threads :
                pc[s] = "sub" /\ pc[t] = "sub" /\ s # t => count > 1

(* Only timed waits of the STM32 port note that they found nothing.        *)
EmptyOK ==
    \A t \in Threads : t \in empty => port = "stm32" /\ op[t] = "timedwait"

(* What the locals of the two conversions are worth.                       *)
ClockOK ==
    \A t \in Threads :
        /\ pc[t] = "convert" => /\ act_nsec[t] <= ToNsec(to[t])
                                /\ mono - act_nsec[t] \in 0 .. MaxDelay
        /\ pc[t] = "tim2" => Floor(act[t]) <= mono

StaticInv == TypeOK /\ PortOK /\ PcOp
DeadlineInv == ClockOK /\ ConvertedDeadline /\ DeadlineNotEarly

(* Numbers of nanoseconds are numbers, also those of a deadline whose      *)
(* nanoseconds are out of range.                                           *)
LEMMA ToNsecNat == ASSUME NEW a \in RawTimers PROVE ToNsec(a) \in Nat
<1>1. a.sec \in Nat /\ a.nsec \in Nat
  BY DEF RawTimers
<1> QED
  BY <1>1, MultNat DEF ToNsec

LEMMA ZeroTimer == Zero \in Timers
  BY NsecPerSecAssumption DEF Zero, Timers

LEMMA TimersRaw == Timers \subseteq RawTimers
  BY NsecPerSecAssumption DEF Timers, RawTimers

(* The deadline posix/semaphore.c computes is the sum, although its carry  *)
(* may leave the nanoseconds one too high.                                 *)
LEMMA ConvertSum ==
    ASSUME NEW a \in Timers, NEW b \in Timers
    PROVE  LET c == ConvertCarry([sec  |-> a.sec + b.sec,
                                  nsec |-> a.nsec + b.nsec])
           IN  c \in RawTimers /\ ToNsec(c) = ToNsec(a) + ToNsec(b)
<1>1. /\ a.sec \in Nat /\ b.sec \in Nat
      /\ a.nsec \in Nat /\ b.nsec \in Nat
  BY NsecPerSecAssumption DEF Timers
<1>2. (a.sec + b.sec) * NsecPerSec = a.sec * NsecPerSec + b.sec * NsecPerSec
  BY <1>1, MultSum
<1>3. /\ a.sec * NsecPerSec \in Nat /\ b.sec * NsecPerSec \in Nat
      /\ (a.sec + b.sec + 1) * NsecPerSec
           = (a.sec + b.sec) * NsecPerSec + NsecPerSec
  BY <1>1, MultNat
<1> QED
  BY <1>1, <1>2, <1>3, NsecPerSecAssumption
     DEF ConvertCarry, RawTimers, ToNsec

(* Two counters read one after the other never show more than the time at  *)
(* the second read, if the seconds are read first.                         *)
LEMMA TornReadIsEarly ==
    ASSUME NEW s \in Nat, NEW n \in Nat, s * NsecPerSec <= n
    PROVE  LET now == [sec |-> s, nsec |-> n % NsecPerSec]
           IN  now \in Timers /\ ToNsec(now) <= n
<1> DEFINE q == n \div NsecPerSec
           r == n % NsecPerSec
<1>1. q \in Nat /\ r \in 0 .. NsecPerSec - 1 /\ n = q * NsecPerSec + r
  BY FromNsecCorrect DEF FromNsec, Timers, ToNsec
<1>2. s <= q
  <2>1. CASE q < s
    <3>1. q * NsecPerSec + NsecPerSec <= s * NsecPerSec
      BY <1>1, <2>1, MultMono
    <3> QED
      BY <1>1, <3>1, MultNat, NsecPerSecAssumption
  <2> QED
    BY <1>1, <2>1
<1>3. s * NsecPerSec <= q * NsecPerSec
  <2>1. CASE s = q
    BY <1>1, <2>1, MultNat
  <2>2. CASE s < q
    BY <1>1, <2>2, MultMono, MultNat, NsecPerSecAssumption
  <2> QED
    BY <1>1, <1>2, <2>1, <2>2
<1> HIDE DEF q
<1> QED
  BY <1>1, <1>3, MultNat, NsecPerSecAssumption DEF Timers, ToNsec
-----------------------------------------------------------------------------
(* The POSIX port keeps its variables in their ranges.                     *)
LEMMA PosixStatic ==
    ASSUME StaticInv, ClockOK, port = "posix", Next, UNCHANGED stmonly
    PROVE  StaticInv'
<1> USE SemaphoreAssumption, Stm32Assumption
    DEF StaticInv, TypeOK, PortOK, PosixPCs, StmPCs, PcOp, StmOps, Waits,
        Results,
        stmonly, seen, config, clocks, local, Goto, Finish
<1>1. ASSUME NEW t \in Threads, Post(t) \/ Trywait(t) \/ Wait(t)
      PROVE  StaticInv'
  BY <1>1 DEF Post, Trywait, Wait, Call
<1>2. ASSUME NEW t \in Threads, NEW n \in Timeouts, Timedwait(t, n)
      PROVE  StaticInv'
  <2>1. FromNsec(n) \in Timers /\ FromNsec(n) \in RawTimers
    BY FromNsecCorrect, TimersRaw
  <2> QED
    BY <1>2, <2>1 DEF Timedwait
<1>3. ASSUME NEW t \in Threads, GetTime(t) PROVE StaticInv'
  BY <1>3 DEF GetTime, Now, realtime
<1>4. ASSUME NEW t \in Threads, Convert(t) PROVE StaticInv'
  <2>1. ts' \in [Threads -> RawTimers]
    <3> DEFINE rest == FromNsec(ToNsec(to[t]) - act_nsec[t])
               real == FromNsec(realtime)
    <3>1. ToNsec(to[t]) - act_nsec[t] \in Nat /\ realtime \in Nat
      BY <1>4, ToNsecNat, TimersRaw DEF Convert, ClockOK, realtime
    <3>2. rest \in Timers /\ real \in Timers
      BY <3>1, FromNsecCorrect
    <3> HIDE DEF rest, real
    <3>3. ConvertCarry([sec |-> real.sec + rest.sec,
                        nsec |-> real.nsec + rest.nsec]) \in RawTimers
      BY <3>2, ConvertSum
    <3> QED
      BY <1>4, <3>3 DEF Convert, rest, real
  <2> QED
    BY <1>4, <2>1 DEF Convert
<1>5. ASSUME NEW t \in Threads,
             Enter(t) \/ Acquire(t) \/ Expire(t) \/ Interrupt(t)
      PROVE  StaticInv'
  BY <1>5 DEF Enter, Acquire, Expire, Interrupt
<1>6. ASSUME NEW t \in Threads, Return(t) PROVE StaticInv'
  BY <1>6, NsecPerSecAssumption DEF Return, Zero, Timers, RawTimers
<1>7. CASE Tick
  BY <1>7 DEF Tick
<1>8. CASE StepRealtime
  BY <1>8 DEF StepRealtime
<1> QED
  BY <1>1, <1>2, <1>3, <1>4, <1>5, <1>6, <1>7, <1>8 DEF Next, Step

(* So does the STM32 port.                                                 *)
LEMMA StmStatic ==
    ASSUME StaticInv, NEW t \in Threads,
           StmStep(t) \/ \E o \in StmOps : StmCall(t, o)
    PROVE  StaticInv'
<1> USE SemaphoreAssumption, Stm32Assumption
    DEF StaticInv, TypeOK, PortOK, PosixPCs, StmPCs, PcOp, StmOps, Waits,
        Results,
        stmonly, seen, config, clocks, stmrest, Goto, Finish, Runs
<1>1. ASSUME NEW o \in StmOps, StmCall(t, o) PROVE StaticInv'
  <2>1. to' \in [Threads -> Timers]
    BY <1>1, FromNsecCorrect DEF StmCall
  <2>2. /\ First(o) \in StmPCs \ {"idle", "done", "sub", "spin", "tim2"}
        /\ First(o) = "post" => o = "post"
        /\ First(o) = "load" => o \in Waits /\ kind = "counting"
        /\ First(o) = "xchg" => o = "trywait" /\ kind = "binary"
        /\ First(o) = "mask" => o = "wait" /\ kind = "binary"
        /\ First(o) = "tim1" => o \in {"timedwait", "sleep_until"}
    BY <1>1 DEF StmCall, First
  <2>3. TypeOK' /\ PortOK'
    BY <1>1, <2>1, <2>2 DEF StmCall
  <2>4. PcOp'
    BY <1>1, <2>2 DEF StmCall
  <2> QED
    BY <2>3, <2>4
<1>2. CASE StmPost(t) \/ StmLoad(t) \/ StmSub(t)
  BY <1>2 DEF StmPost, StmLoad, StmSub
<1>3. CASE StmXchg(t) \/ StmMask(t) \/ StmSpin(t)
  BY <1>3 DEF StmXchg, StmMask, StmSpin
<1>4. CASE StmReadFirst(t)
  <2>1. act' = [act EXCEPT ![t].sec = FromNsec(mono).sec]
    BY <1>4 DEF StmReadFirst, TimOrder, Tim
  <2>2. act' \in [Threads -> Timers]
    BY <2>1, FromNsecCorrect DEF Timers
  <2> QED
    BY <1>4, <2>2 DEF StmReadFirst
<1>5. CASE StmReadSecond(t)
  <2>1. act' \in [Threads -> Timers]
    BY <1>5, ZeroTimer DEF StmReadSecond
  <2>2. /\ op[t] \in {"timedwait", "sleep_until"}
        /\ UNCHANGED <<op, to, act_nsec, ts, clocks, config>>
    BY <1>5 DEF StmReadSecond
  <2>3. \E l \in StmPCs, r \in Results :
            /\ l = "xchg" => kind = "binary" /\ op[t] = "timedwait"
            /\ l = "load" => kind = "counting" /\ op[t] = "timedwait"
            /\ l \in {"tim1", "xchg", "load", "done"}
            /\ pc' = [pc EXCEPT ![t] = l]
            /\ ret' = [ret EXCEPT ![t] = r] \/ ret' = ret
    BY <1>5 DEF StmReadSecond
  <2>4. TypeOK' /\ PortOK'
    BY <1>5, <2>1, <2>2, <2>3 DEF StmReadSecond
  <2>5. PcOp'
    BY <1>5, <2>2, <2>3 DEF StmReadSecond
  <2> QED
    BY <2>4, <2>5
<1>6. CASE StmReturn(t)
  BY <1>6, NsecPerSecAssumption
     DEF StmReturn, Return, Zero, Timers, RawTimers
<1> QED
  BY <1>1, <1>2, <1>3, <1>4, <1>5, <1>6 DEF StmStep

(* Time does not undo what the deadlines and the clock reads promise.      *)
LEMMA TickKeeps ==
    ASSUME StaticInv, DeadlineInv, Tick, UNCHANGED act
    PROVE  DeadlineInv'
<1>1. \A t \in Threads : ToNsec(to[t]) \in Nat /\ ToNsec(ts[t]) \in Nat
                         /\ Floor(act[t]) \in Nat
  BY ToNsecNat, TimersRaw, MultNat DEF StaticInv, TypeOK, Timers, Floor
<1>2. mono' = mono + 1 /\ UNCHANGED <<offset, steps, clock, local, act>>
  BY DEF Tick
<1>3. ClockOK'
  BY <1>1, <1>2, SemaphoreAssumption
     DEF Tick, Now, realtime, DeadlineInv, ClockOK, StaticInv, TypeOK, PcOp,
         local
<1>4. ConvertedDeadline'
  BY <1>1, <1>2 DEF Now, realtime, DeadlineInv, ConvertedDeadline, StaticInv,
                    TypeOK, Timed, local
<1>5. DeadlineNotEarly'
  BY <1>1, <1>2 DEF Now, realtime, DeadlineInv, DeadlineNotEarly,
                    TimeoutNotEarly, StaticInv, TypeOK, Timed, local
<1> QED
  BY <1>3, <1>4, <1>5 DEF DeadlineInv

(***************************************************************************)
(* The POSIX port: two reads of two clocks, a sum with a carry, and any    *)
(* number of retries after signals give a deadline that is not early.      *)
(***************************************************************************)
LEMMA PosixDeadline ==
    ASSUME StaticInv, DeadlineInv, port = "posix", Next,
           UNCHANGED stmonly
    PROVE  DeadlineInv'
<1> USE SemaphoreAssumption DEF Goto, Finish, local, clocks, Timed
<1>1. \A t \in Threads : ToNsec(to[t]) \in Nat /\ ToNsec(ts[t]) \in Nat
  BY ToNsecNat, TimersRaw DEF StaticInv, TypeOK
<1>2. pc \in [Threads -> PosixPCs] /\ \A t \in Threads : op[t] # "sleep_until"
  BY DEF StaticInv, PortOK
<1>3. StaticInv' /\ pc' \in [Threads -> PosixPCs]
      /\ \A t \in Threads : op'[t] # "sleep_until"
  BY PosixStatic DEF DeadlineInv, StaticInv, PortOK, config, stmonly
<1> USE DEF StaticInv, TypeOK, PosixPCs, DeadlineInv, ClockOK,
            ConvertedDeadline, DeadlineNotEarly, TimeoutNotEarly, Now, realtime
<1>4. ASSUME NEW t \in Threads, Post(t) \/ Trywait(t) \/ Wait(t)
      PROVE  DeadlineInv'
  <2>1. CASE Post(t)
    BY <1>1, <1>2, <1>3, <2>1 DEF Post, Call
  <2>2. CASE Trywait(t)
    BY <1>1, <1>2, <1>3, <2>2 DEF Trywait, Call
  <2>3. CASE Wait(t)
    BY <1>1, <1>2, <1>3, <2>3 DEF Wait, Call
  <2> QED
    BY <1>4, <2>1, <2>2, <2>3
<1>5. ASSUME NEW t \in Threads, NEW n \in Timeouts, Timedwait(t, n)
      PROVE  DeadlineInv'
  BY <1>1, <1>2, <1>3, <1>5, FromNsecCorrect DEF Timedwait
<1>6. ASSUME NEW t \in Threads, GetTime(t) PROVE DeadlineInv'
  BY <1>1, <1>2, <1>3, <1>6 DEF GetTime, PcOp
<1>7. ASSUME NEW t \in Threads, Convert(t) PROVE DeadlineInv'
  <2>1. ToNsec(ts'[t]) = realtime + (ToNsec(to[t]) - act_nsec[t])
    <3> DEFINE rest == FromNsec(ToNsec(to[t]) - act_nsec[t])
               real == FromNsec(realtime)
    <3>1. ToNsec(to[t]) - act_nsec[t] \in Nat /\ realtime \in Nat
      BY <1>1, <1>7 DEF Convert
    <3>2. /\ rest \in Timers /\ ToNsec(rest) = ToNsec(to[t]) - act_nsec[t]
          /\ real \in Timers /\ ToNsec(real) = realtime
      BY <3>1, FromNsecCorrect
    <3>3. ts'[t] = ConvertCarry([sec |-> real.sec + rest.sec,
                                 nsec |-> real.nsec + rest.nsec])
      BY <1>7 DEF Convert
    <3> HIDE DEF rest, real
    <3> QED
      BY <3>2, <3>3, ConvertSum
  <2> QED
    BY <1>1, <1>2, <1>3, <1>7, <2>1 DEF Convert, PcOp
<1>8. ASSUME NEW t \in Threads, Enter(t) \/ Expire(t) PROVE DeadlineInv'
  <2>1. /\ UNCHANGED <<op, to, act_nsec, ts, clocks>>
        /\ \A s \in Threads \ {t} : pc'[s] = pc[s] /\ ret'[s] = ret[s]
        /\ pc'[t] \in {"sleep", "done"} /\ pc[t] \in {"enter", "sleep"}
        /\ pc'[t] = "done" /\ ret'[t] = "TIMEOUT" => Reached(t)
    <3>1. CASE Enter(t)
      BY <1>2, <3>1 DEF Enter
    <3>2. CASE Expire(t)
      BY <1>2, <3>2 DEF Expire
    <3> QED
      BY <1>8, <3>1, <3>2
  <2>2. ClockOK'
    BY <1>2, <1>3, <2>1
  <2>3. ConvertedDeadline'
    BY <2>1
  <2>4. Reached(t) /\ steps = 0 /\ Timed(t) => Now >= ToNsec(to[t])
    BY <1>1, <2>1 DEF Reached
  <2>5. DeadlineNotEarly'
    <3>1. ToNsec(to'[t]) = ToNsec(to[t]) /\ Now' = Now
      BY <2>1
    <3> QED
      BY <1>3, <2>1, <2>4, <3>1
  <2> QED
    BY <2>2, <2>3, <2>5
<1>9. ASSUME NEW t \in Threads, Acquire(t) \/ Interrupt(t)
      PROVE  DeadlineInv'
  BY <1>1, <1>2, <1>3, <1>9 DEF Acquire, Interrupt
<1>10. ASSUME NEW t \in Threads, Return(t) PROVE DeadlineInv'
  BY <1>1, <1>2, <1>3, <1>10 DEF Return
<1>11. CASE StepRealtime
  BY <1>1, <1>2, <1>3, <1>11 DEF StepRealtime
<1> QED
  BY <1>4, <1>5, <1>6, <1>7, <1>8, <1>9, <1>10, <1>11, TickKeeps
     DEF Next, Step, stmonly

(***************************************************************************)
(* The STM32 port: the two counters may be read around the change of the   *)
(* second, and then show an earlier time.                                  *)
(***************************************************************************)
LEMMA StmDeadline ==
    ASSUME StaticInv, DeadlineInv, NEW t \in Threads,
           StmStep(t) \/ \E o \in StmOps : StmCall(t, o)
    PROVE  DeadlineInv'
<1>1. \A s \in Threads : ToNsec(to[s]) \in Nat
  BY ToNsecNat, TimersRaw DEF StaticInv, TypeOK
<1>2. port = "stm32" /\ pc \in [Threads -> StmPCs] /\ clock = "monotonic"
      /\ offset = 0 /\ UNCHANGED <<clocks, config>>
  BY DEF StaticInv, PortOK, StmStep, StmCall, Runs, StmPost, StmLoad, StmSub,
         StmXchg, StmMask, StmSpin, StmReadFirst, StmReadSecond, StmReturn,
         Return, stmrest, stmonly
<1>3. pc' \in [Threads -> StmPCs]
  BY <1>2, StmStatic DEF StaticInv, PortOK, config
<1> USE <1>1, <1>2, <1>3
    DEF StaticInv, TypeOK, StmPCs, PcOp, DeadlineInv, ClockOK,
        ConvertedDeadline, DeadlineNotEarly, TimeoutNotEarly, Now, realtime,
        Goto, Finish, Timed, clocks, stmrest, stmonly
<1>4. ASSUME NEW o \in StmOps, StmCall(t, o) PROVE DeadlineInv'
  <2>1. First(o) \notin {"done", "tim2"}
    BY <1>4 DEF StmOps, First
  <2> QED
    BY <1>4, <2>1 DEF StmCall
<1>5. CASE StmPost(t) \/ StmLoad(t) \/ StmSub(t)
  BY <1>5 DEF StmPost, StmLoad, StmSub, Waits
<1>6. CASE StmXchg(t) \/ StmMask(t) \/ StmSpin(t)
  BY <1>6 DEF StmXchg, StmMask, StmSpin
<1>7. CASE StmReadFirst(t)
  <2>1. act' = [act EXCEPT ![t].sec = FromNsec(mono).sec]
    BY <1>7 DEF StmReadFirst, TimOrder, Tim
  <2>2. act'[t].sec = FromNsec(mono).sec
    BY <2>1 DEF Timers
  <2>3. Floor(act'[t]) <= mono
    <3>1. /\ FromNsec(mono).sec \in Nat
          /\ FromNsec(mono).nsec \in 0 .. NsecPerSec - 1
          /\ FromNsec(mono).sec * NsecPerSec + FromNsec(mono).nsec = mono
      BY FromNsecCorrect DEF Timers, ToNsec
    <3>2. FromNsec(mono).sec * NsecPerSec \in Nat
      BY <3>1, MultNat
    <3> QED
      BY <2>2, <3>1, <3>2, NsecPerSecAssumption DEF Floor
  <2> QED
    BY <1>7, <2>1, <2>3 DEF StmReadFirst
<1>8. CASE StmReadSecond(t)
  <2> DEFINE now == [act[t] EXCEPT !.nsec = FromNsec(mono).nsec]
  <2>1. ~TimerLess(now, to[t]) => mono >= ToNsec(to[t])
    <3>1. act[t].sec \in Nat /\ act[t].sec * NsecPerSec <= mono
      BY <1>8 DEF StmReadSecond, Timers, Floor
    <3>2. now = [sec |-> act[t].sec, nsec |-> mono % NsecPerSec]
      BY DEF FromNsec, Timers
    <3>3. now \in Timers /\ ToNsec(now) <= mono /\ ToNsec(now) \in Nat
      <4>1. now \in Timers /\ ToNsec(now) <= mono
        BY <3>1, <3>2, TornReadIsEarly
      <4> QED
        BY <4>1, ToNsecNat, TimersRaw
    <3>4. TimerLess(now, to[t]) <=> ToNsec(now) < ToNsec(to[t])
      BY <3>3, LessCorrect
    <3> QED
      BY <3>3, <3>4
  <2>2. [act[t] EXCEPT ![TimOrder[2]] = Tim(TimOrder[2])] = now
    BY DEF TimOrder, Tim
  <2> HIDE DEF now
  <2>3. \/ ~TimerLess(now, to[t]) /\ pc' = [pc EXCEPT ![t] = "done"]
        \/ pc'[t] \in {"tim1", "xchg", "load"} /\ UNCHANGED ret
    BY <1>8, <2>2 DEF StmReadSecond
  <2>4. /\ \A s \in Threads \ {t} : pc'[s] = pc[s] /\ ret'[s] = ret[s]
                                    /\ act'[s] = act[s]
        /\ UNCHANGED <<op, to, act_nsec, ts>>
    BY <1>8 DEF StmReadSecond
  <2>5. ClockOK' /\ ConvertedDeadline'
    BY <2>3, <2>4
  <2>6. DeadlineNotEarly'
    BY <2>1, <2>3, <2>4
  <2> QED
    BY <2>5, <2>6
<1>9. CASE StmReturn(t)
  BY <1>9 DEF StmReturn, Return
<1> QED
  BY <1>4, <1>5, <1>6, <1>7, <1>8, <1>9 DEF StmStep

StmInv == StaticInv /\ DeadlineInv /\ CountOK /\ EmptyOK

(* Nobody takes what is not there, on either port, before a race.          *)
LEMMA CountStep ==
    ASSUME StaticInv, CountOK, [StmNext]_stmvars
    PROVE  CountOK'
<1> USE DEF CountOK, StaticInv, TypeOK, Goto, Finish, stmonly, seen, config,
            stmrest
<1>1. ASSUME port = "posix", Next, UNCHANGED stmonly PROVE CountOK'
  <2>1. pc \in [Threads -> PosixPCs] /\ \A t \in Threads : pc'[t] # "sub"
    BY <1>1 DEF PortOK, PosixPCs, Next, Step, Post, Trywait, Wait, Call,
                Timedwait, GetTime, Convert, Enter, Acquire, Expire,
                Interrupt, Return, Tick, StepRealtime, local
  <2>2. count' = count \/ count' = count + 1
        \/ (count > 0 /\ count' = count - 1)
    <3>1. ASSUME NEW t \in Threads, Post(t) \/ Trywait(t) \/ Enter(t)
                                   \/ Acquire(t)
          PROVE  count' = count \/ count' = count + 1
                 \/ (count > 0 /\ count' = count - 1)
      BY <3>1 DEF Post, Trywait, Enter, Acquire
    <3>2. ASSUME NEW t \in Threads,
                 \/ Wait(t) \/ GetTime(t) \/ Convert(t) \/ Expire(t)
                 \/ Interrupt(t) \/ Return(t)
                 \/ \E n \in Timeouts : Timedwait(t, n)
          PROVE  count' = count
      BY <3>2 DEF Wait, GetTime, Convert, Expire, Interrupt, Return, Timedwait
    <3>3. ASSUME Tick \/ StepRealtime PROVE count' = count
      BY <3>3 DEF Tick, StepRealtime
    <3> QED
      BY <1>1, <3>1, <3>2, <3>3 DEF Next, Step
  <2>3. UNCHANGED <<port, raced>>
    BY <1>1
  <2> QED
    BY <1>1, <2>1, <2>2, <2>3
<1>2. ASSUME port = "stm32", Tick, UNCHANGED stmonly PROVE CountOK'
  BY <1>2 DEF Tick, local
<1>3. ASSUME NEW t \in Threads, StmStep(t) \/ \E o \in StmOps : StmCall(t, o)
      PROVE  CountOK'
  <2>1. pc \in [Threads -> StmPCs]
    BY <1>3 DEF PortOK, StmStep, StmCall, Runs, StmPost, StmLoad, StmSub,
                StmXchg, StmMask, StmSpin, StmReadFirst, StmReadSecond,
                StmReturn
  <2> USE <2>1 DEF PcOp, StmPCs
  <2>2. ASSUME NEW o \in StmOps, StmCall(t, o) PROVE CountOK'
    <3>1. First(o) # "sub"
      BY <2>2 DEF StmOps, First
    <3> QED
      BY <2>2, <3>1 DEF StmCall
  <2>3. CASE StmPost(t)
    BY <2>3 DEF StmPost
  <2>4. CASE StmLoad(t)
    <3>1. /\ UNCHANGED <<count, port>> /\ port = "stm32"
          /\ \A s \in Threads \ {t} : pc'[s] = pc[s]
          /\ \A s \in Threads \ {Main, t} : pc[s] = "idle"
          /\ pc'[t] \in StmPCs
      BY <2>4 DEF StmLoad, Runs
    <3>2. pc'[t] = "sub" => count # 0
      BY <2>4 DEF StmLoad
    <3>3. raced' = {} => raced = {} /\ (pc'[t] = "sub" => ~Promised(t))
      BY <2>4 DEF StmLoad
    <3> QED
      BY <3>1, <3>2, <3>3, Stm32Assumption DEF Promised
  <2>5. CASE StmSub(t)
    BY <2>5 DEF StmSub, Runs
  <2>6. CASE StmXchg(t) \/ StmMask(t) \/ StmSpin(t)
    BY <2>6 DEF StmXchg, StmMask, StmSpin
  <2>7. CASE StmReadFirst(t) \/ StmReadSecond(t)
    BY <2>7 DEF StmReadFirst, StmReadSecond
  <2>8. CASE StmReturn(t)
    BY <2>8 DEF StmReturn, Return
  <2> QED
    BY <1>3, <2>2, <2>3, <2>4, <2>5, <2>6, <2>7, <2>8 DEF StmStep
<1>4. CASE UNCHANGED stmvars
  BY <1>4 DEF stmvars, vars, local
<1> QED
  BY <1>1, <1>2, <1>3, <1>4 DEF StmNext

(* What a call has found is forgotten when it returns.                     *)
LEMMA EmptyStep ==
    ASSUME StaticInv, EmptyOK, [StmNext]_stmvars
    PROVE  EmptyOK'
<1> USE DEF EmptyOK, StaticInv, TypeOK, PcOp, Goto, Finish, stmonly, seen,
            config, stmrest
<1>1. ASSUME port = "posix", Next, UNCHANGED stmonly PROVE EmptyOK'
  BY <1>1
<1>2. ASSUME port = "stm32", Tick, UNCHANGED stmonly PROVE EmptyOK'
  BY <1>2 DEF Tick, local
<1>3. ASSUME NEW t \in Threads, NEW o \in StmOps, StmCall(t, o)
      PROVE  EmptyOK'
  BY <1>3 DEF StmCall
<1>4. ASSUME NEW t \in Threads, StmLoad(t) \/ StmXchg(t) PROVE EmptyOK'
  BY <1>4 DEF StmLoad, StmXchg, FoundNothing, PortOK, PosixPCs, StmPCs, Runs
<1>5. ASSUME NEW t \in Threads,
             \/ StmPost(t) \/ StmSub(t) \/ StmMask(t) \/ StmSpin(t)
             \/ StmReadFirst(t) \/ StmReadSecond(t)
      PROVE  EmptyOK'
  BY <1>5 DEF StmPost, StmSub, StmMask, StmSpin, StmReadFirst, StmReadSecond
<1>6. ASSUME NEW t \in Threads, StmReturn(t) PROVE EmptyOK'
  BY <1>6 DEF StmReturn, Return
<1>7. CASE UNCHANGED stmvars
  BY <1>7 DEF stmvars, vars, local
<1> QED
  BY <1>1, <1>2, <1>3, <1>4, <1>5, <1>6, <1>7 DEF StmNext, StmStep

(***************************************************************************)
(* The inductive invariant of both ports.                                  *)
(***************************************************************************)
THEOREM StmInvariant == StmSpec => []StmInv
<1>1. StmInit => StmInv
  <2> SUFFICES ASSUME StmInit PROVE StmInv
    OBVIOUS
  <2> USE SemaphoreAssumption, Stm32Assumption DEF StmInit, Init
  <2>1. TypeOK
    BY ZeroTimer, TimersRaw DEF TypeOK, StmOps, Results
  <2>2. PortOK /\ PcOp
    BY DEF PortOK, PcOp, PosixPCs, StmPCs
  <2>3. DeadlineInv
    BY DEF DeadlineInv, ClockOK, ConvertedDeadline, DeadlineNotEarly,
           TimeoutNotEarly, Timed
  <2>4. CountOK /\ EmptyOK
    BY DEF CountOK, EmptyOK
  <2> QED
    BY <2>1, <2>2, <2>3, <2>4 DEF StmInv, StaticInv
<1>2. StmInv /\ [StmNext]_stmvars => StmInv'
  <2> SUFFICES ASSUME StmInv, [StmNext]_stmvars
               PROVE  StaticInv' /\ DeadlineInv'
    BY CountStep, EmptyStep DEF StmInv
  <2> USE DEF StmInv
  <2>1. CASE port = "posix" /\ Next /\ UNCHANGED stmonly
    BY <2>1, PosixStatic, PosixDeadline DEF DeadlineInv
  <2>2. ASSUME NEW t \in Threads, StmStep(t) \/ \E o \in StmOps : StmCall(t, o)
        PROVE  StaticInv' /\ DeadlineInv'
    BY <2>2, StmStatic, StmDeadline
  <2>3. CASE port = "stm32" /\ Tick /\ UNCHANGED stmonly
    <3>1. StaticInv'
      BY <2>3 DEF Tick, StaticInv, TypeOK, PortOK, PcOp, stmonly, config, local
    <3> QED
      BY <2>3, <3>1, TickKeeps DEF stmonly
  <2>4. CASE UNCHANGED stmvars
    BY <2>4 DEF stmvars, vars, clocks, local, stmonly, config, StaticInv, TypeOK,
                PortOK, PcOp, DeadlineInv, ClockOK, ConvertedDeadline,
                DeadlineNotEarly, TimeoutNotEarly, Timed, Now, realtime
  <2> QED
    BY <2>1, <2>2, <2>3, <2>4 DEF StmNext
<1> QED
  BY <1>1, <1>2, PTL DEF StmSpec

(***************************************************************************)
(* The deadline of a timed wait on POSIX is the caller's timeout, later    *)
(* only by the delay between the clock reads, whatever the carries and     *)
(* however many signals interrupt the wait.                                *)
(***************************************************************************)
THEOREM DeadlineIsTimeout == StmSpec => []ConvertedDeadline
<1>1. StmInv => ConvertedDeadline
  BY DEF StmInv, DeadlineInv
<1> QED
  BY <1>1, StmInvariant, PTL

(***************************************************************************)
(* No timed wait times out early, and no sleep of the STM32 port ends      *)
(* early, although that port reads its two counters one after the other.   *)
(***************************************************************************)
THEOREM NeverEarly == StmSpec => []DeadlineNotEarly
<1>1. StmInv => DeadlineNotEarly
  BY DEF StmInv, DeadlineInv
<1> QED
  BY <1>1, StmInvariant, PTL
-----------------------------------------------------------------------------
(***************************************************************************)
(* What a step of t shows to the callers.  The other threads are where     *)
(* they were, so what counts is the result of t, and whether it waits.     *)
(***************************************************************************)
OthersStay(t) ==
    /\ UNCHANGED <<port, kind>>
    /\ \A s \in Threads \ {t} :
          /\ pc'[s] = pc[s] /\ op'[s] = op[s] /\ ret'[s] = ret[s]
          /\ to'[s] = to[s] /\ act_nsec'[s] = act_nsec[s]
          /\ s \in empty' <=> s \in empty

None == <<"none", "none">>

LEMMA OthersShow ==
    ASSUME NEW t \in Threads, OthersStay(t)
    PROVE  /\ kind' = kind
           /\ \A s \in Threads \ {t} : /\ Shown(s)' = Shown(s)
                                       /\ Waiting(s)' <=> Waiting(s)
  BY DEF OthersStay, Shown, NeverLooked, Waiting

LEMMA EffectIs ==
    ASSUME NEW t \in Threads, OthersStay(t), NEW o, NEW r,
           Shown(t) = None, Shown(t)' = <<o, r>>, ~Waiting(t)'
    PROVE  Abstract!Effect(t, o, r)
<1>1. [s \in Threads |-> Shown(s)]'
        = [[s \in Threads |-> Shown(s)] EXCEPT ![t] = <<o, r>>]
  BY OthersShow
<1>2. {s \in Threads : Waiting(s)}' = {s \in Threads : Waiting(s)} \ {t}
  BY OthersShow
<1> QED
  BY <1>1, <1>2, OthersShow DEF Abstract!Effect, Abstract!Pending, None

LEMMA SilentIs ==
    ASSUME NEW t \in Threads, OthersStay(t), UNCHANGED count,
           Shown(t)' = Shown(t), Waiting(t)' <=> Waiting(t)
    PROVE  UNCHANGED Abstract!vars
<1>1. [s \in Threads |-> Shown(s)]' = [s \in Threads |-> Shown(s)]
  BY OthersShow
<1>2. {s \in Threads : Waiting(s)}' = {s \in Threads : Waiting(s)}
  BY OthersShow
<1> QED
  BY <1>1, <1>2, OthersShow DEF Abstract!vars

LEMMA BlockIs ==
    ASSUME NEW t \in Threads, OthersStay(t), UNCHANGED count, count = 0,
           Shown(t) = None, Shown(t)' = None, Waiting(t)'
    PROVE  Abstract!Block(t)
<1>1. [s \in Threads |-> Shown(s)]' = [s \in Threads |-> Shown(s)]
  BY OthersShow
<1>2. {s \in Threads : Waiting(s)}' = {s \in Threads : Waiting(s)} \cup {t}
  BY OthersShow
<1> QED
  BY <1>1, <1>2, OthersShow DEF Abstract!Block, Abstract!Pending, None

LEMMA UnblockIs ==
    ASSUME NEW t \in Threads, OthersStay(t), UNCHANGED count,
           Shown(t)' = Shown(t), Waiting(t), ~Waiting(t)'
    PROVE  Abstract!Unblock(t)
<1>1. [s \in Threads |-> Shown(s)]' = [s \in Threads |-> Shown(s)]
  BY OthersShow
<1>2. {s \in Threads : Waiting(s)}' = {s \in Threads : Waiting(s)} \ {t}
  BY OthersShow
<1> QED
  BY <1>1, <1>2, OthersShow DEF Abstract!Unblock

(* The end of a call.                                                      *)
LEMMA ReturnIs ==
    ASSUME StaticInv, NEW t \in Threads, OthersStay(t), UNCHANGED count,
           pc[t] = "done", pc'[t] = "idle"
    PROVE  Abstract!Return(t) \/ UNCHANGED Abstract!vars
<1>1. Shown(t)' = None /\ ~Waiting(t) /\ ~Waiting(t)'
  BY DEF Shown, None, Waiting
<1>2. CASE Shown(t) = None
  BY <1>1, <1>2, SilentIs
<1>3. CASE Shown(t) # None
  <2>1. [s \in Threads |-> Shown(s)]'
          = [[s \in Threads |-> Shown(s)] EXCEPT ![t] = None]
    BY <1>1, OthersShow
  <2>2. {s \in Threads : Waiting(s)}' = {s \in Threads : Waiting(s)}
    BY <1>1, OthersShow
  <2> QED
    BY <1>3, <2>1, <2>2, OthersShow
       DEF Abstract!Return, Abstract!Pending, None
<1> QED
  BY <1>2, <1>3

(***************************************************************************)
(* A step of the POSIX port is a step of the abstract semaphore or none.   *)
(***************************************************************************)
LEMMA PosixRefines ==
    ASSUME StmInv, port = "posix", Next, UNCHANGED stmonly
    PROVE  Abstract!Next \/ UNCHANGED Abstract!vars
<1> DEFINE Same == UNCHANGED Abstract!vars
<1>0. /\ UNCHANGED <<port, kind, empty>> /\ kind = "counting" /\ count \in Nat
      /\ \A t \in Threads : op[t] # "sleep_until" /\ t \notin empty
      /\ pc \in [Threads -> PosixPCs] /\ ret \in [Threads -> Results]
      /\ op \in [Threads -> StmOps \cup {"none"}]
      /\ to \in [Threads -> Timers] /\ act_nsec \in [Threads -> Nat]
  BY DEF StmInv, StaticInv, TypeOK, PortOK, CountOK, EmptyOK, config, stmonly,
         seen
<1>a. StaticInv /\ PcOp
  BY DEF StmInv, StaticInv
<1> USE <1>0 DEF Goto, Finish, clocks, PosixPCs, Waiting, None
<1>1. ASSUME NEW t \in Threads, Post(t)
      PROVE  Abstract!Post(t) \/ Abstract!GiveUp(t)
  <2>1. OthersStay(t) /\ Shown(t) = None /\ ~Waiting(t)'
    BY <1>1 DEF Post, Call, OthersStay, Shown
  <2>2. CASE count < MaxCount /\ count' = count + 1 /\ Finish(t, "OK")
    <3>1. Shown(t)' = <<"post", "OK">>
      BY <1>1, <2>2 DEF Post, Call, Shown, NeverLooked
    <3> QED
      BY <2>1, <2>2, <3>1, EffectIs DEF Abstract!Post
  <2>3. CASE count >= MaxCount /\ UNCHANGED count
             /\ Finish(t, "OPERATION_FAILED")
    <3>1. Shown(t)' = <<"post", "OPERATION_FAILED">>
      BY <1>1, <2>3 DEF Post, Call, Shown, NeverLooked
    <3> QED
      BY <2>1, <2>3, <3>1, EffectIs DEF Abstract!GiveUp
  <2> QED
    BY <1>1, <2>2, <2>3 DEF Post
<1>2. ASSUME NEW t \in Threads, Trywait(t)
      PROVE  Abstract!Take(t) \/ Abstract!Empty(t)
  <2>1. OthersStay(t) /\ Shown(t) = None /\ ~Waiting(t)'
    BY <1>2 DEF Trywait, Call, OthersStay, Shown
  <2>2. CASE count > 0 /\ count' = count - 1 /\ Finish(t, "OK")
    <3>1. Shown(t)' = <<"trywait", "OK">>
      BY <1>2, <2>2 DEF Trywait, Call, Shown, NeverLooked
    <3> QED
      BY <2>1, <2>2, <3>1, EffectIs DEF Abstract!Take, Abstract!Waits
  <2>3. CASE count = 0 /\ UNCHANGED count /\ Finish(t, "BUSY")
    <3>1. Shown(t)' = <<"trywait", "BUSY">>
      BY <1>2, <2>3 DEF Trywait, Call, Shown, NeverLooked
    <3> QED
      BY <2>1, <2>3, <3>1, EffectIs DEF Abstract!Empty
  <2> QED
    BY <1>2, <2>2, <2>3 DEF Trywait
<1>3. ASSUME NEW t \in Threads,
             Wait(t) \/ Convert(t) \/ \E n \in Timeouts : Timedwait(t, n)
      PROVE  Same
  <2>1. OthersStay(t) /\ UNCHANGED count
    BY <1>3 DEF Wait, Call, Convert, Timedwait, OthersStay
  <2>2. pc[t] \in {"idle", "convert"} /\ pc'[t] \in {"enter", "gettime"}
    BY <1>3 DEF Wait, Call, Convert, Timedwait
  <2> QED
    BY <2>1, <2>2, SilentIs DEF Shown
<1>4. ASSUME NEW t \in Threads, GetTime(t) PROVE Same
  <2>1. OthersStay(t) /\ UNCHANGED <<count, op, to>> /\ pc[t] = "gettime"
    BY <1>4 DEF GetTime, OthersStay
  <2>2. CASE Now > ToNsec(to[t]) /\ Finish(t, "TIMEOUT")
    <3>1. op[t] = "timedwait"
      BY <1>a, <2>1 DEF PcOp
    <3>2. NeverLooked(t)'
      BY <1>4, <2>1, <2>2, <3>1 DEF GetTime, NeverLooked
    <3> QED
      BY <2>1, <2>2, <3>2, SilentIs DEF Shown
  <2>3. CASE Goto(t, "convert")
    BY <2>1, <2>3, SilentIs DEF Shown
  <2> QED
    BY <1>4, <2>2, <2>3 DEF GetTime
<1>5. ASSUME NEW t \in Threads, Enter(t)
      PROVE  Abstract!Next \/ Same
  <2>1. /\ OthersStay(t) /\ Shown(t) = None /\ ~Waiting(t)
        /\ op[t] \in {"wait", "timedwait"} /\ UNCHANGED <<op, to, act_nsec>>
    BY <1>5, <1>a DEF Enter, OthersStay, Shown, PcOp
  <2>2. CASE count > 0 /\ count' = count - 1 /\ Finish(t, "OK")
    <3>1. Shown(t)' = <<op[t], "OK">> /\ ~Waiting(t)'
      BY <2>1, <2>2 DEF Shown, NeverLooked
    <3>2. Abstract!Take(t)
      BY <2>1, <2>2, <3>1, EffectIs DEF Abstract!Take, Abstract!Waits
    <3> QED
      BY <3>2 DEF Abstract!Next
  <2>3. CASE op[t] = "timedwait" /\ UNCHANGED count
             /\ Finish(t, "INVALID_PARAM")
    <3>1. Shown(t)' = <<op[t], "INVALID_PARAM">> /\ ~Waiting(t)'
      BY <2>1, <2>3 DEF Shown, NeverLooked
    <3>2. Abstract!GiveUp(t)
      BY <2>1, <2>3, <3>1, EffectIs DEF Abstract!GiveUp
    <3> QED
      BY <3>2 DEF Abstract!Next
  <2>4. CASE op[t] = "timedwait" /\ count = 0 /\ UNCHANGED count
             /\ Finish(t, "TIMEOUT")
    <3>1. ~Waiting(t)' /\ (Shown(t)' = None \/ Shown(t)' = <<op[t], "TIMEOUT">>)
      BY <2>1, <2>4 DEF Shown
    <3>2. CASE Shown(t)' = None
      BY <2>1, <2>4, <3>1, <3>2, SilentIs
    <3>3. CASE Shown(t)' = <<op[t], "TIMEOUT">>
      <4>1. Abstract!GiveUp(t)
        BY <2>1, <2>4, <3>1, <3>3, EffectIs DEF Abstract!GiveUp
      <4> QED
        BY <4>1 DEF Abstract!Next
    <3> QED
      BY <3>1, <3>2, <3>3
  <2>5. CASE count = 0 /\ Goto(t, "sleep") /\ UNCHANGED <<count, ret>>
    <3>1. Shown(t)' = None /\ Waiting(t)'
      BY <2>1, <2>5 DEF Shown
    <3>2. Abstract!Block(t)
      BY <2>1, <2>5, <3>1, BlockIs
    <3> QED
      BY <3>2 DEF Abstract!Next
  <2> QED
    BY <1>5, <2>2, <2>3, <2>4, <2>5 DEF Enter
<1>6. ASSUME NEW t \in Threads, Acquire(t) PROVE Abstract!Take(t)
  <2>1. /\ OthersStay(t) /\ Shown(t) = None
        /\ op[t] \in {"wait", "timedwait"} /\ UNCHANGED op
    BY <1>6, <1>a DEF Acquire, OthersStay, Shown, PcOp
  <2>2. Shown(t)' = <<op[t], "OK">> /\ ~Waiting(t)'
    BY <1>6, <2>1 DEF Acquire, Shown, NeverLooked
  <2> QED
    BY <1>6, <2>1, <2>2, EffectIs DEF Acquire, Abstract!Take, Abstract!Waits
<1>7. ASSUME NEW t \in Threads, Expire(t) \/ Interrupt(t)
      PROVE  Abstract!GiveUp(t) \/ Abstract!Unblock(t)
  <2>1. /\ OthersStay(t) /\ Shown(t) = None /\ Waiting(t) /\ ~Waiting(t)'
        /\ pc[t] = "sleep" /\ UNCHANGED <<op, count>>
    BY <1>7 DEF Expire, Interrupt, OthersStay, Shown
  <2>2. t \in {s \in Threads : Waiting(s)}
    BY <2>1
  <2>3. CASE op[t] = "timedwait" /\ Finish(t, "TIMEOUT")
    <3>1. Shown(t)' = None \/ Shown(t)' = <<op[t], "TIMEOUT">>
      BY <2>1, <2>3 DEF Shown
    <3>2. CASE Shown(t)' = None
      BY <2>1, <3>2, UnblockIs
    <3>3. CASE Shown(t)' = <<op[t], "TIMEOUT">>
      BY <2>1, <2>2, <2>3, <3>3, EffectIs DEF Abstract!GiveUp
    <3> QED
      BY <3>1, <3>2, <3>3
  <2>4. CASE op[t] = "wait" /\ Finish(t, "INTERRUPTED")
    <3>1. Shown(t)' = <<op[t], "INTERRUPTED">>
      BY <2>1, <2>4 DEF Shown, NeverLooked
    <3> QED
      BY <2>1, <2>2, <2>4, <3>1, EffectIs DEF Abstract!GiveUp
  <2>5. CASE Goto(t, "enter") /\ UNCHANGED ret
    <3>1. Shown(t)' = None
      BY <2>5 DEF Shown
    <3> QED
      BY <2>1, <3>1, UnblockIs
  <2> QED
    BY <1>7, <2>3, <2>4, <2>5 DEF Expire, Interrupt
<1>8. ASSUME NEW t \in Threads, Return(t) PROVE Abstract!Return(t) \/ Same
  <2>1. OthersStay(t) /\ UNCHANGED count /\ pc[t] = "done" /\ pc'[t] = "idle"
    BY <1>8 DEF Return, OthersStay
  <2> QED
    BY <1>a, <2>1, ReturnIs
<1>9. CASE Tick \/ StepRealtime
  <2>1. UNCHANGED <<count, kind, port, empty, pc, op, ret, to, act_nsec>>
    BY <1>9 DEF Tick, StepRealtime, local
  <2> QED
    BY <2>1 DEF Abstract!vars, Shown, NeverLooked
<1> QED
  BY <1>1, <1>2, <1>3, <1>4, <1>5, <1>6, <1>7, <1>8, <1>9
     DEF Next, Step, Abstract!Next

(***************************************************************************)
(* So is a step of the STM32 port before the first race; a call that takes *)
(* a post has its effect at the decrement or the exchange, and             *)
(* osal_sleep_until has none at all.                                       *)
(***************************************************************************)
LEMMA StmRefines ==
    ASSUME StmInv, raced' = {}, NEW t \in Threads,
           StmStep(t) \/ \E o \in StmOps : StmCall(t, o)
    PROVE  Abstract!Next \/ UNCHANGED Abstract!vars
<1> DEFINE Same == UNCHANGED Abstract!vars
<1>0. /\ port = "stm32" /\ UNCHANGED <<port, kind>>
      /\ kind \in {"counting", "binary"}
      /\ pc \in [Threads -> StmPCs] /\ op \in [Threads -> StmOps \cup {"none"}]
      /\ ret \in [Threads -> Results]
      /\ to \in [Threads -> Timers] /\ act_nsec \in [Threads -> Nat]
  BY DEF StmInv, StaticInv, TypeOK, PortOK, StmStep, StmCall, Runs,
         StmPost, StmLoad, StmSub, StmXchg, StmMask, StmSpin, StmReadFirst,
         StmReadSecond, StmReturn, stmrest, config, stmonly
<1>a. StaticInv /\ PcOp /\ EmptyOK
  BY DEF StmInv, StaticInv
<1>b. raced = {}
  BY DEF StmStep, StmCall, StmPost, StmLoad, StmSub, StmXchg, StmMask, StmSpin,
         StmReadFirst, StmReadSecond, StmReturn, seen, stmonly
<1>c. count \in Nat /\ (pc[t] = "sub" => count > 0)
  BY <1>b DEF StmInv, CountOK
<1> USE <1>0, <1>c DEF Goto, Finish, stmrest, seen, StmPCs, Waiting, None
<1>1. ASSUME NEW o \in StmOps, StmCall(t, o) PROVE Same
  <2>1. First(o) # "done" /\ First(o) # "sleep"
    BY <1>1 DEF StmOps, First
  <2>2. OthersStay(t) /\ UNCHANGED count /\ pc[t] = "idle" /\ t \notin empty
    BY <1>1, <1>a DEF StmCall, OthersStay, stmonly, config, PcOp, EmptyOK
  <2>3. pc'[t] = First(o) /\ UNCHANGED empty
    BY <1>1 DEF StmCall, stmonly
  <2> QED
    BY <2>1, <2>2, <2>3, SilentIs DEF Shown
<1>2. CASE StmPost(t)
  <2>1. OthersStay(t) /\ Shown(t) = None /\ ~Waiting(t)' /\ op[t] = "post"
    BY <1>2, <1>a DEF StmPost, OthersStay, Shown, PcOp
  <2>2. Shown(t)' = <<"post", "OK">>
    BY <1>2, <2>1 DEF StmPost, Shown, NeverLooked
  <2>3. Abstract!Post(t)
    BY <1>2, <2>1, <2>2, EffectIs DEF StmPost, Abstract!Post
  <2> QED
    BY <2>3 DEF Abstract!Next
<1>3. CASE StmLoad(t)
  <2>1. /\ OthersStay(t) /\ pc[t] = "load" /\ UNCHANGED <<op, to, count>>
        /\ Shown(t) = None /\ ~Waiting(t)
    BY <1>3 DEF StmLoad, FoundNothing, OthersStay, Shown
  <2>2. CASE op[t] = "trywait" /\ count <= 0 /\ Finish(t, "UNAVAILABLE")
    <3>1. Shown(t)' = <<"trywait", "BUSY">> /\ ~Waiting(t)'
      BY <2>1, <2>2 DEF Shown, NeverLooked
    <3>2. Abstract!Effect(t, "trywait", "BUSY")
      BY <2>1, <3>1, EffectIs
    <3>3. Abstract!Empty(t)
      BY <2>1, <2>2, <3>2 DEF Abstract!Empty
    <3> QED
      BY <3>3 DEF Abstract!Next
  <2>3. CASE Goto(t, "sub") \/ UNCHANGED pc
    BY <2>1, <2>3, SilentIs DEF Shown
  <2>4. CASE count = 0 /\ Goto(t, "tim1")
    <3>1. Shown(t)' = None /\ Waiting(t)'
      BY <1>3, <2>1, <2>4 DEF StmLoad, FoundNothing, Shown
    <3>2. Abstract!Block(t)
      BY <2>1, <2>4, <3>1, BlockIs
    <3> QED
      BY <3>2 DEF Abstract!Next
  <2> QED
    BY <1>3, <2>2, <2>3, <2>4 DEF StmLoad
<1>4. CASE StmSub(t)
  <2>1. /\ OthersStay(t) /\ Shown(t) = None /\ ~Waiting(t)'
        /\ op[t] \in Waits /\ UNCHANGED op /\ count > 0 /\ count' = count - 1
    BY <1>4, <1>a DEF StmSub, OthersStay, Shown, PcOp
  <2>2. Shown(t)' = <<op[t], "OK">>
    BY <1>4, <2>1 DEF StmSub, Shown, NeverLooked, Waits
  <2>3. Abstract!Effect(t, op[t], "OK")
    BY <2>1, <2>2, EffectIs
  <2>4. Abstract!Take(t)
    BY <2>1, <2>3 DEF Abstract!Take, Abstract!Waits, Waits
  <2> QED
    BY <2>4 DEF Abstract!Next
<1>5. CASE StmXchg(t) \/ StmSpin(t)
  <2>1. /\ OthersStay(t) /\ Shown(t) = None /\ ~Waiting(t)
        /\ op[t] \in Waits /\ UNCHANGED <<op, to>> /\ count' = 0
    <3>1. CASE StmXchg(t)
      BY <3>1, <1>a DEF StmXchg, FoundNothing, OthersStay, Shown, PcOp, Waits
    <3>2. CASE StmSpin(t)
      BY <3>2, <1>a DEF StmSpin, OthersStay, Shown, PcOp, Waits
    <3> QED
      BY <1>5, <3>1, <3>2
  <2>2. CASE count = 1 /\ Finish(t, "OK")
    <3>1. Shown(t)' = <<op[t], "OK">> /\ ~Waiting(t)'
      BY <2>1, <2>2 DEF Shown, NeverLooked, Waits
    <3>2. Abstract!Effect(t, op[t], "OK")
      BY <2>1, <3>1, EffectIs
    <3>3. Abstract!Take(t)
      BY <2>1, <2>2, <3>2 DEF Abstract!Take, Abstract!Waits, Waits
    <3> QED
      BY <3>3 DEF Abstract!Next
  <2>3. CASE count = 0 /\ op[t] = "trywait" /\ Finish(t, "BUSY")
    <3>1. Shown(t)' = <<"trywait", "BUSY">> /\ ~Waiting(t)'
      BY <2>1, <2>3 DEF Shown, NeverLooked
    <3>2. Abstract!Effect(t, "trywait", "BUSY")
      BY <2>1, <3>1, EffectIs
    <3>3. Abstract!Empty(t)
      BY <2>1, <2>3, <3>2 DEF Abstract!Empty
    <3> QED
      BY <3>3 DEF Abstract!Next
  <2>4. CASE count = 0 /\ StmXchg(t) /\ Goto(t, "tim1")
    <3>1. Shown(t)' = None /\ Waiting(t)'
      BY <2>4 DEF StmXchg, FoundNothing, Shown
    <3>2. Abstract!Block(t)
      BY <2>1, <2>4, <3>1, BlockIs
    <3> QED
      BY <3>2 DEF Abstract!Next
  <2>5. CASE count = 0 /\ StmSpin(t) /\ UNCHANGED <<pc, ret>>
    BY <2>1, <2>5, SilentIs DEF StmSpin, Shown
  <2> QED
    BY <1>5, <2>2, <2>3, <2>4, <2>5 DEF StmXchg, StmSpin
<1>6. CASE StmMask(t)
  <2>1. OthersStay(t) /\ UNCHANGED <<count, empty>>
        /\ pc[t] = "mask" /\ pc'[t] = "spin"
    BY <1>6 DEF StmMask, OthersStay
  <2> QED
    BY <2>1, SilentIs DEF Shown
<1>7. CASE StmReadFirst(t)
  <2>1. OthersStay(t) /\ UNCHANGED <<count, empty>>
        /\ pc[t] = "tim1" /\ pc'[t] = "tim2"
    BY <1>7 DEF StmReadFirst, OthersStay
  <2> QED
    BY <2>1, SilentIs DEF Shown
<1>8. CASE StmReadSecond(t)
  <2>1. /\ OthersStay(t) /\ Shown(t) = None
        /\ pc[t] = "tim2" /\ op[t] \in {"timedwait", "sleep_until"}
        /\ UNCHANGED <<op, count, empty>>
    BY <1>8, <1>a DEF StmReadSecond, OthersStay, Shown, PcOp
  <2>2. CASE op[t] = "timedwait" /\ Finish(t, "TIMEOUT")
    <3>1. CASE t \in empty
      <4>1. Shown(t)' = <<"timedwait", "TIMEOUT">> /\ ~Waiting(t)'
        BY <2>1, <2>2, <3>1 DEF Shown, NeverLooked
      <4>2. Abstract!Effect(t, "timedwait", "TIMEOUT")
        BY <2>1, <4>1, EffectIs
      <4>3. t \in {s \in Threads : Waiting(s)}
        BY <2>1, <3>1
      <4>4. Abstract!GiveUp(t)
        BY <2>1, <4>2, <4>3 DEF Abstract!GiveUp
      <4> QED
        BY <4>4 DEF Abstract!Next
    <3>2. CASE t \notin empty
      <4>1. Shown(t)' = None /\ ~Waiting(t) /\ ~Waiting(t)'
        BY <2>1, <2>2, <3>2 DEF Shown, NeverLooked
      <4> QED
        BY <2>1, <4>1, SilentIs
    <3> QED
      BY <3>1, <3>2
  <2>3. CASE op[t] = "sleep_until"
    <3>1. t \notin empty /\ pc'[t] \in {"done", "tim1"}
      BY <1>8, <1>a, <2>1, <2>3 DEF StmReadSecond, EmptyOK
    <3>2. Shown(t)' = None /\ ~Waiting(t) /\ ~Waiting(t)'
      BY <2>1, <2>3, <3>1 DEF Shown
    <3> QED
      BY <2>1, <3>2, SilentIs
  <2>4. CASE op[t] = "timedwait" /\ \E l \in {"xchg", "load"} : Goto(t, l)
    <3>1. Shown(t)' = None /\ ~Waiting(t)'
      BY <2>1, <2>4 DEF Shown
    <3>2. CASE Waiting(t)
      <4>1. Abstract!Unblock(t)
        BY <2>1, <3>1, <3>2, UnblockIs
      <4> QED
        BY <4>1 DEF Abstract!Next
    <3>3. CASE ~Waiting(t)
      BY <2>1, <3>1, <3>3, SilentIs
    <3> QED
      BY <3>2, <3>3
  <2>5. CASE TimerLess([act[t] EXCEPT ![TimOrder[2]] = Tim(TimOrder[2])],
                       to[t])
    BY <1>8, <2>1, <2>3, <2>4, <2>5 DEF StmReadSecond
  <2>6. CASE ~TimerLess([act[t] EXCEPT ![TimOrder[2]] = Tim(TimOrder[2])],
                        to[t])
    BY <1>8, <2>1, <2>2, <2>3, <2>6 DEF StmReadSecond
  <2> QED
    BY <2>5, <2>6
<1>9. CASE StmReturn(t)
  <2>1. OthersStay(t) /\ UNCHANGED count /\ pc[t] = "done" /\ pc'[t] = "idle"
    BY <1>9 DEF StmReturn, Return, OthersStay
  <2>2. Abstract!Return(t) \/ UNCHANGED Abstract!vars
    BY <1>a, <2>1, ReturnIs
  <2> QED
    BY <2>2 DEF Abstract!Next
<1> QED
  BY <1>1, <1>2, <1>3, <1>4, <1>5, <1>6, <1>7, <1>8, <1>9 DEF StmStep

(***************************************************************************)
(* Both ports and both kinds implement the one-step operations of          *)
(* SemaphoreSpec, for any number of callers, posts and handlers, up to the *)
(* first time that a handler of the STM32 port passes the test of a count  *)
(* on the one post that the main program has passed it on and not yet      *)
(* taken.  On the POSIX port that never happens.                           *)
(***************************************************************************)
THEOREM Linearizable == StmSpec => ImplementsSpec
<1>1. StmInit => Abstract!Init
  BY DEF StmInit, Init, Abstract!Init, Abstract!Pending, Shown, Waiting
<1>2. StmInv /\ [StmNext]_stmvars
      => [raced' = {} => [Abstract!Next]_(Abstract!vars)]_stmvars
  <2> SUFFICES ASSUME StmInv, StmNext, raced' = {}
               PROVE  Abstract!Next \/ UNCHANGED Abstract!vars
    OBVIOUS
  <2>1. CASE port = "stm32" /\ Tick /\ UNCHANGED stmonly
    <3>1. UNCHANGED <<count, kind, port, empty, pc, op, ret, to, act_nsec>>
      BY <2>1 DEF Tick, local, stmonly, config, seen
    <3> QED
      BY <3>1 DEF Abstract!vars, Shown, NeverLooked, Waiting
  <2> QED
    BY <2>1, PosixRefines, StmRefines DEF StmNext
<1> QED
  BY <1>1, <1>2, StmInvariant, PTL DEF StmSpec, ImplementsSpec

=============================================================================
