------------------------ MODULE BinarySemaphore_proofs ------------------------
(***************************************************************************)
(* Machine-checked proofs about BinarySemaphore, for any set of threads    *)
(* and any choice of operations.                                           *)
(***************************************************************************)
EXTENDS BinarySemaphore, TLAPS

(* All the actions, for the leaves that look into each of them.            *)
USE DEF Goto, Leave, Acquire

(***************************************************************************)
(* Every step keeps the variables in their ranges (no operation leaves a   *)
(* flag other than 0 or 1, or a result outside its codes).                 *)
(***************************************************************************)
THEOREM TypeCorrect == Spec => []TypeOK
<1>1. Init => TypeOK
  BY DEF Init, TypeOK, PCs, Results
<1>2. TypeOK /\ [Next]_vars => TypeOK'
  <2> SUFFICES ASSUME TypeOK, [Next]_vars PROVE TypeOK'
    OBVIOUS
  <2> USE DEF TypeOK, PCs, Results
  <2>1. ASSUME NEW t \in Threads, NEW o \in Ops, Call(t, o) PROVE TypeOK'
    BY <2>1 DEF Call
  <2>2. ASSUME NEW t \in Threads, TakeMutex(t) PROVE TypeOK'
    BY <2>2 DEF TakeMutex, Lock, Relock, RelockExpired
  <2>3. ASSUME NEW t \in Threads, SpuriousWakeup(t) \/ Expire(t) PROVE TypeOK'
    BY <2>3 DEF SpuriousWakeup, Expire
  <2>4. ASSUME NEW t \in Threads, PostTest(t) \/ WaitTest(t) \/ TryTest(t)
        PROVE TypeOK'
    BY <2>4 DEF PostTest, WaitTest, TryTest
  <2>5. ASSUME NEW t \in Threads, PostSignal(t) PROVE TypeOK'
    BY <2>5 DEF PostSignal, Sleepers
  <2>6. ASSUME NEW t \in Threads,
               Retry(t) \/ Take(t) \/ Peek(t) \/ Unlock(t) \/ Return(t)
        PROVE TypeOK'
    BY <2>6 DEF Retry, Take, Peek, Unlock, Return
  <2>7. CASE UNCHANGED vars
    BY <2>7 DEF vars
  <2> QED
    BY <2>1, <2>2, <2>3, <2>4, <2>5, <2>6, <2>7 DEF Next, Step
<1> QED
  BY <1>1, <1>2, PTL DEF Spec

(***************************************************************************)
(* The mutex is held exactly between lock and unlock, on every path of     *)
(* every operation, for any number of threads.                             *)
(***************************************************************************)
THEOREM MutexCorrect == Spec => []MutexHeldInside
<1>1. Init => MutexHeldInside
  BY ThreadsAssumption DEF Init, MutexHeldInside, Critical
<1>2. TypeOK /\ MutexHeldInside /\ [Next]_vars => MutexHeldInside'
  <2> SUFFICES ASSUME TypeOK, MutexHeldInside, [Next]_vars
               PROVE  MutexHeldInside'
    OBVIOUS
  <2> USE ThreadsAssumption DEF TypeOK, MutexHeldInside, Critical
  <2>1. ASSUME NEW t \in Threads, NEW o \in Ops, Call(t, o)
        PROVE  MutexHeldInside'
    BY <2>1 DEF Call
  <2>2. ASSUME NEW t \in Threads, TakeMutex(t) PROVE MutexHeldInside'
    BY <2>2 DEF TakeMutex, Lock, Relock, RelockExpired
  <2>3. ASSUME NEW t \in Threads, SpuriousWakeup(t) \/ Expire(t)
        PROVE  MutexHeldInside'
    BY <2>3 DEF SpuriousWakeup, Expire
  <2>4. ASSUME NEW t \in Threads, PostTest(t) \/ WaitTest(t) \/ TryTest(t)
        PROVE  MutexHeldInside'
    BY <2>4 DEF PostTest, WaitTest, TryTest
  <2>5. ASSUME NEW t \in Threads, PostSignal(t) PROVE MutexHeldInside'
    BY <2>5 DEF PostSignal, Sleepers
  <2>6. ASSUME NEW t \in Threads,
               Retry(t) \/ Take(t) \/ Peek(t) \/ Unlock(t) \/ Return(t)
        PROVE  MutexHeldInside'
    BY <2>6 DEF Retry, Take, Peek, Unlock, Return
  <2>7. CASE UNCHANGED vars
    BY <2>7 DEF vars
  <2> QED
    BY <2>1, <2>2, <2>3, <2>4, <2>5, <2>6, <2>7 DEF Next, Step
<1> QED
  BY <1>1, <1>2, TypeCorrect, PTL DEF Spec

(***************************************************************************)
(* The strengthening that makes NoLostWakeup inductive: a thread at a      *)
(* statement that only some operations have is in one of them, and at      *)
(* "take" the flag is still set, because the mutex has been held since the *)
(* test.                                                                   *)
(***************************************************************************)
PcOp ==
    \A t \in Threads :
        /\ pc[t] \in {"sleep", "relock", "retry"} => op[t] \in Waits
        /\ pc[t] = "expired" => op[t] = "timedwait"
        /\ pc[t] = "signal" => op[t] = "post"
        /\ pc[t] = "idle" => op[t] = "none"
        /\ pc[t] \in {"peek", "ret"} <=> op[t] = "timedwait_null"
        /\ pc[t] = "take" => op[t] \in Waits \cup {"trywait"}
        /\ pc[t] \in {"idle", "lock", "body", "sleep", "relock", "expired",
                      "retry", "take", "peek"} => ret[t] = "OK"

TakeFindsEvent == \A t \in Threads : pc[t] = "take" => value = 1

IInv == TypeOK /\ MutexHeldInside /\ PcOp /\ TakeFindsEvent /\ NoLostWakeup

(* The program counter, the operation and the result agree.                *)
LEMMA PcOpStep == TypeOK /\ PcOp /\ [Next]_vars => PcOp'
<1> SUFFICES ASSUME TypeOK, PcOp, [Next]_vars PROVE PcOp'
  OBVIOUS
<1> USE OpsAssumption DEF TypeOK, PcOp, Waits, AllOps
<1>1. ASSUME NEW t \in Threads, NEW o \in Ops, Call(t, o) PROVE PcOp'
  BY <1>1 DEF Call
<1>2. ASSUME NEW t \in Threads, TakeMutex(t) PROVE PcOp'
  BY <1>2 DEF TakeMutex, Lock, Relock, RelockExpired
<1>3. ASSUME NEW t \in Threads, SpuriousWakeup(t) \/ Expire(t) PROVE PcOp'
  BY <1>3 DEF SpuriousWakeup, Expire
<1>4. ASSUME NEW t \in Threads, PostTest(t) \/ WaitTest(t) \/ TryTest(t)
      PROVE  PcOp'
  BY <1>4 DEF PostTest, WaitTest, TryTest
<1>5. ASSUME NEW t \in Threads, PostSignal(t) PROVE PcOp'
  BY <1>5 DEF PostSignal, Sleepers
<1>6. ASSUME NEW t \in Threads,
             Retry(t) \/ Take(t) \/ Peek(t) \/ Unlock(t) \/ Return(t)
      PROVE  PcOp'
  BY <1>6 DEF Retry, Take, Peek, Unlock, Return
<1>7. CASE UNCHANGED vars
  BY <1>7 DEF vars
<1> QED
  BY <1>1, <1>2, <1>3, <1>4, <1>5, <1>6, <1>7 DEF Next, Step

(* The flag does not change between the test and the write that clears it. *)
LEMMA TakeFindsEventStep ==
  TypeOK /\ MutexHeldInside /\ TakeFindsEvent /\ [Next]_vars => TakeFindsEvent'
<1> SUFFICES ASSUME TypeOK, MutexHeldInside, TakeFindsEvent, [Next]_vars
             PROVE  TakeFindsEvent'
  OBVIOUS
<1> USE DEF TypeOK, MutexHeldInside, Critical, TakeFindsEvent
<1>1. ASSUME NEW t \in Threads, NEW o \in Ops, Call(t, o)
      PROVE  TakeFindsEvent'
  BY <1>1 DEF Call
<1>2. ASSUME NEW t \in Threads, TakeMutex(t) PROVE TakeFindsEvent'
  BY <1>2 DEF TakeMutex, Lock, Relock, RelockExpired
<1>3. ASSUME NEW t \in Threads, SpuriousWakeup(t) \/ Expire(t)
      PROVE  TakeFindsEvent'
  BY <1>3 DEF SpuriousWakeup, Expire
<1>4. ASSUME NEW t \in Threads, PostTest(t) \/ WaitTest(t) \/ TryTest(t)
      PROVE  TakeFindsEvent'
  BY <1>4 DEF PostTest, WaitTest, TryTest
<1>5. ASSUME NEW t \in Threads, PostSignal(t) PROVE TakeFindsEvent'
  BY <1>5 DEF PostSignal, Sleepers
<1>6. ASSUME NEW t \in Threads,
             Retry(t) \/ Take(t) \/ Peek(t) \/ Unlock(t) \/ Return(t)
      PROVE  TakeFindsEvent'
  BY <1>6 DEF Retry, Take, Peek, Unlock, Return
<1>7. CASE UNCHANGED vars
  BY <1>7 DEF vars
<1> QED
  BY <1>1, <1>2, <1>3, <1>4, <1>5, <1>6, <1>7 DEF Next, Step

(* No step strands a sleeper: the thread that is on its way to a pending   *)
(* event either keeps going or has consumed the event.                     *)
LEMMA NoLostWakeupStep ==
  TypeOK /\ PcOp /\ NoLostWakeup /\ [Next]_vars => NoLostWakeup'
<1> SUFFICES ASSUME TypeOK, PcOp, NoLostWakeup, [Next]_vars,
                    value' = 1, Sleepers' # {}
             PROVE  \E t \in Threads : Rescuer(t)'
  BY DEF NoLostWakeup
<1> USE DEF TypeOK, NoLostWakeup, Sleepers, Rescuer, Waits
<1>1. ASSUME NEW t \in Threads, NEW o \in Ops, Call(t, o)
      PROVE  \E s \in Threads : Rescuer(s)'
  BY <1>1 DEF Call
<1>2. ASSUME NEW t \in Threads, TakeMutex(t)
      PROVE  \E s \in Threads : Rescuer(s)'
  BY <1>2 DEF TakeMutex, Lock, Relock, RelockExpired, PcOp
<1>3. ASSUME NEW t \in Threads, SpuriousWakeup(t) \/ Expire(t)
      PROVE  \E s \in Threads : Rescuer(s)'
  BY <1>3 DEF SpuriousWakeup, Expire
<1>4. ASSUME NEW t \in Threads, PostTest(t) \/ WaitTest(t) \/ TryTest(t)
      PROVE  \E s \in Threads : Rescuer(s)'
  BY <1>4 DEF PostTest, WaitTest, TryTest
<1>5. ASSUME NEW t \in Threads, PostSignal(t)
      PROVE  \E s \in Threads : Rescuer(s)'
  BY <1>5 DEF PostSignal
<1>6. ASSUME NEW t \in Threads,
             Retry(t) \/ Take(t) \/ Peek(t) \/ Unlock(t) \/ Return(t)
      PROVE  \E s \in Threads : Rescuer(s)'
  BY <1>6 DEF Retry, Take, Peek, Unlock, Return, PcOp
<1>7. CASE UNCHANGED vars
  BY <1>7 DEF vars
<1> QED
  BY <1>1, <1>2, <1>3, <1>4, <1>5, <1>6, <1>7 DEF Next, Step

(* The inductive invariant holds throughout.                               *)
LEMMA Inductive == Spec => []IInv
<1>1. Init => PcOp /\ TakeFindsEvent /\ NoLostWakeup
  BY DEF Init, PcOp, TakeFindsEvent, NoLostWakeup
<1>2. /\ TypeOK /\ MutexHeldInside
      /\ PcOp /\ TakeFindsEvent /\ NoLostWakeup /\ [Next]_vars
      => PcOp' /\ TakeFindsEvent' /\ NoLostWakeup'
  BY PcOpStep, TakeFindsEventStep, NoLostWakeupStep
<1> QED
  BY <1>1, <1>2, TypeCorrect, MutexCorrect, PTL DEF Spec, IInv

(***************************************************************************)
(* No wake-up is lost: a pending event and sleeping threads never coexist  *)
(* without a thread on its way to consume the event.                       *)
(***************************************************************************)
THEOREM NoWakeupIsLost == Spec => []NoLostWakeup
  BY Inductive, PTL DEF IInv

(***************************************************************************)
(* The POSIX binary semaphore implements the one-step operations of        *)
(* BinarySemaphoreSpec for every call that passes a timeout or needs none: *)
(* the mutex, the wait set, the spurious wake-ups and the timeouts are     *)
(* invisible to the callers, and calls with a NULL timeout, which the      *)
(* mapping leaves out, do not disturb the others.                          *)
(***************************************************************************)
THEOREM Linearizable == Spec => ImplementsSpec
<1>1. Init => Abstract!Init
  BY DEF Init, Abstract!Init, Phase, Looks
<1>2. IInv /\ [Next]_vars => [Abstract!Next]_(Abstract!vars)
  <2> SUFFICES ASSUME IInv, [Next]_vars
               PROVE  Abstract!Next \/ UNCHANGED Abstract!vars
    OBVIOUS
  <2> DEFINE Same == UNCHANGED Abstract!vars
  <2> USE DEF IInv, TypeOK, PCs, Looks
  <2>1. ASSUME NEW t \in Threads, NEW o \in Ops, Call(t, o)
        PROVE  \/ Same
               \/ o \in Ops \ {"timedwait_null"} /\ Abstract!Invoke(t, o)
    <3>1. ASSUME o = "timedwait_null" PROVE Same
      <4>1. op[t] = "none" /\ ret[t] = "OK"
        BY <2>1 DEF Call, PcOp
      <4> QED
        BY <2>1, <3>1, <4>1 DEF Call, Abstract!vars, Phase
    <3>2. CASE o # "timedwait_null"
      BY <2>1, <3>2 DEF Call, PcOp, Abstract!Invoke, Phase
    <3> QED
      BY <3>1, <3>2
  <2>2. ASSUME NEW t \in Threads, Lock(t) PROVE Same
    BY <2>2 DEF Lock, PcOp, Abstract!vars, Phase
  <2>3. ASSUME NEW t \in Threads, Relock(t) PROVE Abstract!Unblock(t)
    BY <2>3 DEF Relock, PcOp, Abstract!Unblock, Phase
  <2>4. ASSUME NEW t \in Threads, RelockExpired(t) PROVE Abstract!Timeout(t)
    BY <2>4 DEF RelockExpired, PcOp, Abstract!Timeout, Abstract!Effect, Phase
  <2>5. ASSUME NEW t \in Threads, SpuriousWakeup(t) \/ Expire(t) PROVE Same
    BY <2>5 DEF SpuriousWakeup, Expire, PcOp, Abstract!vars, Phase
  <2>6. ASSUME NEW t \in Threads, PostTest(t) PROVE Abstract!Post(t)
    BY <2>6 DEF PostTest, PcOp, Abstract!Post, Abstract!Effect, Phase
  <2>7. ASSUME NEW t \in Threads, PostSignal(t) PROVE Same
    BY <2>7 DEF PostSignal, Sleepers, PcOp, Abstract!vars, Phase
  <2>8. ASSUME NEW t \in Threads, WaitTest(t) PROVE Same \/ Abstract!Block(t)
    BY <2>8 DEF WaitTest, PcOp, Waits, Abstract!vars, Abstract!Block, Phase
  <2>9. ASSUME NEW t \in Threads, Retry(t) PROVE Same
    BY <2>9 DEF Retry, PcOp, Abstract!vars, Phase
  <2>10. ASSUME NEW t \in Threads, TryTest(t) PROVE Same \/ Abstract!Busy(t)
    BY <2>10 DEF TryTest, PcOp, Abstract!vars, Abstract!Busy, Abstract!Effect,
                 Phase
  <2>11. ASSUME NEW t \in Threads, Take(t) PROVE Abstract!Take(t)
    BY <2>11 DEF Take, PcOp, TakeFindsEvent, Waits, Abstract!Take,
                 Abstract!Effect, Phase
  <2>12. ASSUME NEW t \in Threads, Peek(t) PROVE Same
    BY <2>12 DEF Peek, PcOp, Abstract!vars, Phase
  <2>13. ASSUME NEW t \in Threads, Unlock(t) PROVE Abstract!Return(t)
    BY <2>13 DEF Unlock, PcOp, Abstract!Return, Phase
  <2>14. ASSUME NEW t \in Threads, Return(t) PROVE Same
    BY <2>14 DEF Return, PcOp, Abstract!vars, Phase
  <2>15. CASE UNCHANGED vars
    BY <2>15 DEF vars, Abstract!vars, Phase
  <2> QED
    BY <2>1, <2>2, <2>3, <2>4, <2>5, <2>6, <2>7, <2>8, <2>9, <2>10, <2>11,
       <2>12, <2>13, <2>14, <2>15 DEF Next, Step, TakeMutex, Abstract!Next
<1> QED
  BY <1>1, <1>2, Inductive, PTL DEF Spec, ImplementsSpec, Abstract!Spec

=============================================================================
