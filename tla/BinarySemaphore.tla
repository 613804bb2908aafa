--------------------------- MODULE BinarySemaphore ---------------------------
(***************************************************************************)
(* The POSIX port of the binary semaphore (posix/binary_semaphore.c): an   *)
(* int guarded by a priority-inheriting pthread mutex, with a condition    *)
(* variable for the waiters.  Every statement that reads or writes shared  *)
(* state is a step of its own, so the steps of all threads interleave, and *)
(* the condition variable may wake a thread spuriously.                    *)
(*                                                                         *)
(* pc[t] is the statement that thread t executes next:                     *)
(*   idle     outside the semaphore                                        *)
(*   lock     pthread_mutex_lock at the start of the operation             *)
(*   body     holds the mutex, about to test value                         *)
(*   signal   post has set value, about to call pthread_cond_signal        *)
(*   sleep    in the wait set of the condition variable, mutex released    *)
(*   relock   cond wait ended (signal or spurious), wants the mutex back   *)
(*   expired  cond_timedwait ended with ETIMEDOUT, wants the mutex back    *)
(*   retry    cond_timedwait rejected the timeout and returned at once     *)
(*   take     left the loop with value # 0, about to write value = 0       *)
(*   peek     timedwait with a NULL timeout, about to read value unlocked  *)
(*   unlock   pthread_mutex_unlock before the return                       *)
(*   ret      about to return without having held the mutex                *)
(***************************************************************************)
EXTENDS Naturals

CONSTANTS
    Threads,   (* the threads that share the semaphore                     *)
    Ops,       (* the operations they call, a subset of AllOps             *)
    NoThread   (* owner of the free mutex                                  *)

(* timedwait is split by its argument: a proper timeout, a NULL pointer,   *)
(* and a timeout whose nsec pthread_cond_timedwait rejects with EINVAL.    *)
AllOps == {"post", "wait", "trywait", "timedwait", "timedwait_null",
           "timedwait_inval"}

ASSUME ThreadsAssumption == NoThread \notin Threads
ASSUME OpsAssumption == Ops \subseteq AllOps /\ Ops # {}

VARIABLES
    value,     (* sem->value                                               *)
    owner,     (* holder of sem->posix_mtx                                 *)
    pc,        (* per thread, see above                                    *)
    op,        (* per thread: the operation it is in, "none" outside       *)
    ret        (* per thread: the local variable ret of the operation      *)

vars == <<value, owner, pc, op, ret>>

Waits == {"wait", "timedwait", "timedwait_inval"}
PCs == {"idle", "lock", "body", "signal", "sleep", "relock", "expired",
        "retry", "take", "peek", "unlock", "ret"}
Results == {"OK", "BUSY", "TIMEOUT"}

Goto(t, l) == pc' = [pc EXCEPT ![t] = l]
(* The operation of t returns ret[t] to its caller.                        *)
Leave(t) ==
    /\ Goto(t, "idle")
    /\ op' = [op EXCEPT ![t] = "none"]
    /\ ret' = [ret EXCEPT ![t] = "OK"]

Sleepers == {t \in Threads : pc[t] = "sleep"}
-----------------------------------------------------------------------------
(* osal_binary_semaphore_init has run before the threads share the object. *)
Init ==
    /\ value = 0
    /\ owner = NoThread
    /\ pc = [t \in Threads |-> "idle"]
    /\ op = [t \in Threads |-> "none"]
    /\ ret = [t \in Threads |-> "OK"]

Call(t, o) ==
    /\ pc[t] = "idle"
    /\ op' = [op EXCEPT ![t] = o]
    /\ Goto(t, IF o = "timedwait_null" THEN "peek" ELSE "lock")
    /\ UNCHANGED <<value, owner, ret>>

Acquire(t, l) ==
    /\ owner = NoThread
    /\ owner' = t
    /\ Goto(t, l)

Lock(t) ==
    /\ pc[t] = "lock"
    /\ Acquire(t, "body")
    /\ UNCHANGED <<value, op, ret>>

(* Mutant: the flag counts posts.                                          *)
PostTestCounts(t) ==
    /\ pc[t] = "body" /\ op[t] = "post"
    /\ value' = value + 1
    /\ Goto(t, "signal")
    /\ UNCHANGED <<owner, op, ret>>

(* Mutant: a post that signals only when it finds the flag already set.    *)
PostTestNoSignal(t) ==
    /\ pc[t] = "body" /\ op[t] = "post"
    /\ value' = 1
    /\ Goto(t, IF value = 0 THEN "unlock" ELSE "signal")
    /\ UNCHANGED <<owner, op, ret>>

(* post: the flag is set, and a waiter signalled, only if it was clear.    *)
PostTest(t) ==
    /\ pc[t] = "body" /\ op[t] = "post"
    /\ \/ value = 0 /\ value' = 1 /\ Goto(t, "signal")
       \/ value # 0 /\ UNCHANGED value /\ Goto(t, "unlock")
    /\ UNCHANGED <<owner, op, ret>>

(* pthread_cond_signal takes one thread out of the wait set, if any.       *)
PostSignal(t) ==
    /\ pc[t] = "signal"
    /\ \/ /\ Sleepers = {}
          /\ Goto(t, "unlock")
       \/ \E s \in Sleepers :
             pc' = [pc EXCEPT ![t] = "unlock", ![s] = "relock"]
    /\ UNCHANGED <<value, owner, op, ret>>

(* wait and timedwait: the loop condition.  A clear flag means             *)
(* pthread_cond_(timed)wait, which releases the mutex and joins the wait   *)
(* set in one step, unless it refuses the timeout and returns EINVAL with  *)
(* the mutex still held, which the loop does not look at.                  *)
WaitTest(t) ==
    /\ pc[t] = "body" /\ op[t] \in Waits
    /\ \/ value # 0 /\ Goto(t, "take") /\ UNCHANGED owner
       \/ value = 0 /\ op[t] # "timedwait_inval"
                    /\ Goto(t, "sleep") /\ owner' = NoThread
       \/ value = 0 /\ op[t] = "timedwait_inval"
                    /\ Goto(t, "retry") /\ UNCHANGED owner
    /\ UNCHANGED <<value, op, ret>>

Retry(t) ==
    /\ pc[t] = "retry"
    /\ Goto(t, "body")
    /\ UNCHANGED <<value, owner, op, ret>>

(* A cond wait may end without a signal.                                   *)
SpuriousWakeup(t) ==
    /\ pc[t] = "sleep"
    /\ Goto(t, "relock")
    /\ UNCHANGED <<value, owner, op, ret>>

(* The deadline of a timed wait passes while the thread is in the wait set.*)
Expire(t) ==
    /\ pc[t] = "sleep" /\ op[t] = "timedwait"
    /\ Goto(t, "expired")
    /\ UNCHANGED <<value, owner, op, ret>>

(* Mutant: the loop of wait is an if, the flag is not tested again.        *)
RelockNoRecheck(t) ==
    /\ pc[t] = "relock"
    /\ Acquire(t, "take")
    /\ UNCHANGED <<value, op, ret>>

(* Woken without a timeout: take the mutex again, test the flag again.     *)
Relock(t) ==
    /\ pc[t] = "relock"
    /\ Acquire(t, "body")
    /\ UNCHANGED <<value, op, ret>>

(* Woken by ETIMEDOUT: take the mutex again, break out of the loop with    *)
(* OSAL_ERR_TIMEOUT and leave the flag alone, even if it is set by now.    *)
RelockExpired(t) ==
    /\ pc[t] = "expired"
    /\ Acquire(t, "unlock")
    /\ ret' = [ret EXCEPT ![t] = "TIMEOUT"]
    /\ UNCHANGED <<value, op>>

TryTest(t) ==
    /\ pc[t] = "body" /\ op[t] = "trywait"
    /\ \/ value = 0 /\ Goto(t, "unlock") /\ ret' = [ret EXCEPT ![t] = "BUSY"]
       \/ value # 0 /\ Goto(t, "take") /\ UNCHANGED ret
    /\ UNCHANGED <<value, owner, op>>

Take(t) ==
    /\ pc[t] = "take"
    /\ value' = 0
    /\ Goto(t, "unlock")
    /\ UNCHANGED <<owner, op, ret>>

(* timedwait without a timeout reads the flag without the mutex and does   *)
(* not write it.                                                           *)
Peek(t) ==
    /\ pc[t] = "peek"
    /\ ret' = [ret EXCEPT ![t] = IF value = 0 THEN "TIMEOUT" ELSE "OK"]
    /\ Goto(t, "ret")
    /\ UNCHANGED <<value, owner, op>>

(* Mutant: one exit path leaves without unlocking.                         *)
UnlockForgotten(t) ==
    /\ pc[t] = "unlock"
    /\ owner' = IF ret[t] = "BUSY" THEN owner ELSE NoThread
    /\ Leave(t)
    /\ UNCHANGED value

Unlock(t) ==
    /\ pc[t] = "unlock"
    /\ owner' = NoThread
    /\ Leave(t)
    /\ UNCHANGED value

Return(t) ==
    /\ pc[t] = "ret"
    /\ Leave(t)
    /\ UNCHANGED <<value, owner>>

(* The steps a thread inside an operation takes on its own account.        *)
Step(t) ==
    \/ PostTest(t) \/ PostSignal(t) \/ WaitTest(t) \/ Retry(t)
    \/ TryTest(t) \/ Take(t) \/ Peek(t) \/ Unlock(t) \/ Return(t)

(* The steps that need the mutex to be free.                               *)
TakeMutex(t) == Lock(t) \/ Relock(t) \/ RelockExpired(t)

Next ==
    \E t \in Threads :
        \/ \E o \in Ops : Call(t, o)
        \/ TakeMutex(t)
        \/ SpuriousWakeup(t) \/ Expire(t)
        \/ Step(t)

Spec == Init /\ [][Next]_vars

(***************************************************************************)
(* Fairness: a thread inside an operation keeps running; the               *)
(* priority-inheriting mutex of osal_binary_semaphore_init is handed over  *)
(* by the kernel in queue order, so a thread that keeps asking for it gets *)
(* it; a deadline passes, so a timed wait that keeps sleeping expires.     *)
(* Nobody is obliged to call, and spurious wake-ups need not happen.       *)
(***************************************************************************)
Fairness ==
    \A t \in Threads :
        /\ WF_vars(Step(t))
        /\ SF_vars(TakeMutex(t))
        /\ SF_vars(Expire(t))

FairSpec == Spec /\ Fairness
-----------------------------------------------------------------------------
TypeOK ==
    /\ value \in {0, 1}
    /\ owner \in Threads \cup {NoThread}
    /\ pc \in [Threads -> PCs]
    /\ op \in [Threads -> Ops \cup {"none"}]
    /\ ret \in [Threads -> Results]

(* The statements between lock and unlock.                                 *)
Critical == {"body", "signal", "retry", "take", "unlock"}

(***************************************************************************)
(* The mutex is held by exactly the thread that is between its lock and    *)
(* its unlock, on every path through the operations, including the waits   *)
(* that give it up and take it back.                                       *)
(***************************************************************************)
MutexHeldInside ==
    \A t \in Threads : pc[t] \in Critical <=> owner = t

(* A thread that is about to look at the flag, or to signal someone who    *)
(* will, without anybody's help.                                           *)
Rescuer(t) ==
    \/ pc[t] = "signal"
    \/ pc[t] = "relock"
    \/ pc[t] = "body" /\ op[t] \in Waits
    \/ pc[t] = "take"

(***************************************************************************)
(* No lost wake-up: whenever an event is pending while threads sleep in    *)
(* the condition variable, some thread is already on its way to consume    *)
(* it.  This is what makes signalling only on the 0 -> 1 change (line 87)  *)
(* and cond_signal instead of broadcast sound, with timeouts and trywait   *)
(* stealing events in between.                                             *)
(***************************************************************************)
NoLostWakeup ==
    value = 1 /\ Sleepers # {} => \E t \in Threads : Rescuer(t)

(***************************************************************************)
(* The operations are linearizable: what the callers see is what the one   *)
(* step operations of BinarySemaphoreSpec allow.  A call has taken effect  *)
(* once it has written value, or has decided on BUSY or TIMEOUT.  Calls    *)
(* with a NULL timeout are left out of the mapping, because they report    *)
(* success without taking the event, against binary_semaphore.h:129 ("it   *)
(* updates the state"); the others have to cope with them.                 *)
(***************************************************************************)
Phase(t) ==
    IF pc[t] = "idle" THEN "idle"
    ELSE IF pc[t] \in {"signal", "unlock", "ret"} THEN "done" ELSE "called"

Looks(t) == op[t] = "timedwait_null"

Abstract == INSTANCE BinarySemaphoreSpec
    WITH Ops <- Ops \ {"timedwait_null"},
         phase <- [t \in Threads |-> IF Looks(t) THEN "idle" ELSE Phase(t)],
         op <- [t \in Threads |-> IF Looks(t) THEN "none" ELSE op[t]],
         ret <- [t \in Threads |-> IF Looks(t) THEN "OK" ELSE ret[t]],
         blocked <- {t \in Threads : pc[t] \in {"sleep", "relock", "expired"}}

ImplementsSpec == Abstract!Spec

(***************************************************************************)
(* A pending event is consumed if a thread sleeps for it without a         *)
(* timeout: such a thread never sleeps on while the flag stays set.        *)
(***************************************************************************)
EventDelivered ==
    (value = 1 /\ \E t \in Sleepers : op[t] = "wait") ~> (value = 0)

(* A thread whose timeout is refused spins in its loop with the mutex.     *)
Spinning == \E t \in Threads : pc[t] = "retry"

(***************************************************************************)
(* Every call other than the unbounded wait comes back: post, trywait and  *)
(* the timed waits never hang, whatever the others do, unless a timeout    *)
(* that pthread_cond_timedwait refuses makes its caller spin.              *)
(***************************************************************************)
TimedCallsReturn ==
    \A t \in Threads :
        (pc[t] # "idle" /\ op[t] \notin {"wait", "timedwait_inval"})
            ~> (pc[t] = "idle" \/ Spinning)

=============================================================================
