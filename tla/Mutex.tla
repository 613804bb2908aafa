-------------------------------- MODULE Mutex --------------------------------
(***************************************************************************)
(* The POSIX ports of the mutex (posix/mutex.c) on top of a pthread mutex  *)
(* of any type, robust or not, and of the spinlock (posix/spinlock.c),     *)
(* which is one more type.  Threads may die while they hold it.  What      *)
(* the callers know is kept in holds[t], the number of locks a thread has  *)
(* according to the results it got; OSAL_OK and OSAL_ERR_OWNER_DEAD both   *)
(* mean that the lock was taken.                                           *)
(*                                                                         *)
(* mstate is the state a robust mutex is in: ok; inconsistent, its owner   *)
(* died and nobody has called pthread_mutex_consistent since, which        *)
(* libosal never does; lost, it was unlocked in that state and can never   *)
(* be locked again (ENOTRECOVERABLE).                                      *)
(***************************************************************************)
EXTENDS Naturals

CONSTANTS
    Threads,
    NoThread,    (* owner of the free mutex                                *)
    Types,       (* OSAL_MUTEX_ATTR__TYPE: normal, errorcheck, recursive   *)
    Robusts,     (* whether OSAL_MUTEX_ATTR__ROBUST is given               *)
    MaxDepth,    (* limit on recursive locks                               *)
    Mortal       (* threads that may die                                   *)

ASSUME MutexAssumption ==
    /\ NoThread \notin Threads
    /\ Types \subseteq {"normal", "errorcheck", "recursive"}
    /\ Robusts \subseteq BOOLEAN
    /\ MaxDepth \in Nat \ {0}
    /\ Mortal \subseteq Threads

VARIABLES
    type, robust,           (* attributes given to osal_mutex_init, or     *)
                            (* type "spinlock"                             *)
    owner, depth, mstate,   (* mtx->posix_mtx                              *)
    pc,                     (* per thread: idle, lock (in                  *)
                            (* osal_mutex_lock) or dead                    *)
    holds,                  (* per thread: locks it has, as far as it knows*)
    ret                     (* per thread: result of its last call         *)

attrs == <<type, robust>>
vars == <<attrs, owner, depth, mstate, pc, holds, ret>>

Result(t, r) == ret' = [ret EXCEPT ![t] = r]
(* A thread may only ask for more locks below the bound on their number.   *)
MayAsk(t) == pc[t] = "idle" /\ holds[t] <= MaxDepth
-----------------------------------------------------------------------------
(* osal_mutex_init with any of the attributes, osal_spinlock_init, which   *)
(* ignores them                                                            *)
InitMutex == type \in Types /\ robust \in Robusts
InitSpinlock == type = "spinlock" /\ robust = FALSE

Init ==
    /\ InitMutex \/ InitSpinlock
    /\ owner = NoThread /\ depth = 0 /\ mstate = "ok"
    /\ pc = [t \in Threads |-> "idle"]
    /\ holds = [t \in Threads |-> 0]
    /\ ret = [t \in Threads |-> "OK"]

(* pthread_mutex_lock and _trylock succeed; EOWNERDEAD is a success with a *)
(* warning.                                                                *)
Taken(t) ==
    /\ mstate # "lost" /\ owner = NoThread
    /\ owner' = t /\ depth' = 1
    /\ holds' = [holds EXCEPT ![t] = @ + 1]
    /\ Result(t, IF mstate = "ok" THEN "OK" ELSE "OWNER_DEAD")

TakenAgain(t) ==
    /\ mstate # "lost" /\ owner = t /\ type = "recursive"
    /\ \/ depth < MaxDepth /\ depth' = depth + 1
          /\ holds' = [holds EXCEPT ![t] = @ + 1] /\ Result(t, "OK")
       \/ depth >= MaxDepth /\ UNCHANGED <<depth, holds>>
          /\ Result(t, "SYSTEM_LIMIT_REACHED")
    /\ UNCHANGED owner

Refused(t, r) == Result(t, r) /\ UNCHANGED <<owner, depth, holds>>

Lock(t) ==
    /\ MayAsk(t)
    /\ pc' = [pc EXCEPT ![t] = "lock"]
    /\ UNCHANGED <<attrs, owner, depth, mstate, holds, ret>>

(* osal_mutex_lock returns; a normal mutex its caller has locked already   *)
(* never lets it return.                                                   *)
LockReturns(t) ==
    /\ pc[t] = "lock" /\ type # "spinlock"
    /\ \/ Taken(t) \/ TakenAgain(t)
       \/ mstate = "lost" /\ Refused(t, "NOT_RECOVERABLE")
       \/ mstate # "lost" /\ owner = t /\ type = "errorcheck"
          /\ Refused(t, "DEAD_LOCK")
    /\ pc' = [pc EXCEPT ![t] = "idle"]
    /\ UNCHANGED <<attrs, mstate>>

(* osal_spinlock_lock returns: pthread_spin_lock has no owner to check, so *)
(* a thread that locks twice spins for ever.                               *)
SpinlockLocked(t) ==
    /\ pc[t] = "lock" /\ type = "spinlock"
    /\ Taken(t)
    /\ pc' = [pc EXCEPT ![t] = "idle"]
    /\ UNCHANGED <<attrs, mstate>>

(* Mutant: EBUSY is taken for success.                                     *)
TrylockBusyOk(t) ==
    /\ MayAsk(t) /\ type # "spinlock"
    /\ \/ Taken(t) \/ TakenAgain(t)
       \/ /\ mstate # "lost" /\ owner # NoThread
          /\ ~(owner = t /\ type = "recursive")
          /\ holds' = [holds EXCEPT ![t] = @ + 1]
          /\ Result(t, "OK") /\ UNCHANGED <<owner, depth>>
    /\ UNCHANGED <<attrs, mstate, pc>>

(* osal_mutex_trylock; spinlocks have no such function.                    *)
Trylock(t) ==
    /\ MayAsk(t) /\ type # "spinlock"
    /\ \/ Taken(t) \/ TakenAgain(t)
       \/ mstate = "lost" /\ Refused(t, "NOT_RECOVERABLE")
       \/ /\ mstate # "lost" /\ owner # NoThread
          /\ ~(owner = t /\ type = "recursive")
          /\ Refused(t, "BUSY")
    /\ UNCHANGED <<attrs, mstate, pc>>

(* The mutex becomes free; if it was inconsistent it is lost.              *)
Release ==
    /\ owner' = NoThread /\ depth' = 0
    /\ mstate' = IF mstate = "inconsistent" THEN "lost" ELSE mstate

(* Mutant: the unlock of a nested lock has no effect.                      *)
UnlockNestedIgnored(t) ==
    /\ pc[t] = "idle" /\ type # "spinlock"
    /\ \/ /\ owner = t
          /\ \/ depth = 1 /\ Release /\ holds' = [holds EXCEPT ![t] = @ - 1]
             \/ depth > 1 /\ UNCHANGED <<owner, depth, mstate, holds>>
          /\ Result(t, "OK")
       \/ /\ owner # t /\ (type # "normal" \/ robust)
          /\ Result(t, "PERMISSION_DENIED")
          /\ UNCHANGED <<owner, depth, mstate, holds>>
    /\ UNCHANGED <<attrs, pc>>

(* osal_mutex_unlock.  Unlocking a normal mutex one does not own is        *)
(* undefined and left to the caller.                                       *)
Unlock(t) ==
    /\ pc[t] = "idle" /\ type # "spinlock"
    /\ \/ /\ owner = t
          /\ \/ depth = 1 /\ Release
             \/ depth > 1 /\ depth' = depth - 1 /\ UNCHANGED <<owner, mstate>>
          /\ holds' = [holds EXCEPT ![t] = @ - 1]
          /\ Result(t, "OK")
       \/ /\ owner # t /\ (type # "normal" \/ robust)
          /\ Result(t, "PERMISSION_DENIED")
          /\ UNCHANGED <<owner, depth, mstate, holds>>
    /\ UNCHANGED <<attrs, pc>>

(* osal_spinlock_unlock, by the thread that has locked it.                 *)
SpinlockUnlock(t) ==
    /\ pc[t] = "idle" /\ type = "spinlock" /\ owner = t
    /\ Release
    /\ holds' = [holds EXCEPT ![t] = @ - 1]
    /\ Result(t, "OK")
    /\ UNCHANGED <<attrs, pc>>

(* A thread ends without unlocking; a robust mutex is freed by the kernel. *)
Die(t) ==
    /\ t \in Mortal /\ pc[t] # "dead"
    /\ pc' = [pc EXCEPT ![t] = "dead"]
    /\ holds' = [holds EXCEPT ![t] = 0]
    /\ IF owner = t /\ robust
       THEN owner' = NoThread /\ depth' = 0 /\ mstate' = "inconsistent"
       ELSE UNCHANGED <<owner, depth, mstate>>
    /\ UNCHANGED <<attrs, ret>>

(* The two ways to end a call of lock, and to unlock.                      *)
Locked(t) == LockReturns(t) \/ SpinlockLocked(t)
Unlocked(t) == Unlock(t) \/ SpinlockUnlock(t)

Next ==
    \E t \in Threads :
        Lock(t) \/ Locked(t) \/ Trylock(t) \/ Unlocked(t) \/ Die(t)

Spec == Init /\ [][Next]_vars
-----------------------------------------------------------------------------
Alive == {t \in Threads : pc[t] # "dead"}

(***************************************************************************)
(* What the callers conclude from the results is true: a thread that has   *)
(* been told so often that it has the lock owns the mutex exactly that     *)
(* deep, so at most one living thread is inside, also after deaths.        *)
(***************************************************************************)
ResultsAreTrue ==
    \A t \in Alive : holds[t] = (IF owner = t THEN depth ELSE 0)

=============================================================================
