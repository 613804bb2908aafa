------------------------------- MODULE Condvar -------------------------------
(***************************************************************************)
(* The POSIX port of the condition variable (posix/condvar.c) together     *)
(* with the mutex of Mutex.  osal_condvar_wait drops the result of         *)
(* pthread_cond_wait; osal_condvar_timedwait repeats pthread_cond_timedwait*)
(* until it returns 0 or ETIMEDOUT.                                        *)
(*                                                                         *)
(* cv[t]: out; enter, about to call pthread_cond_(timed)wait; sleep, in    *)
(* the wait set; wake and expired, taken out of it and waiting for the     *)
(* mutex; done, about to return cret[t].                                   *)
(***************************************************************************)
EXTENDS Mutex

CONSTANTS
    Fns,         (* functions used: wait, timedwait, and timedwait_inval   *)
                 (* with a timeout pthread_cond_timedwait rejects          *)
    Users,       (* threads that lock and wait; the others only signal     *)
    Careless     (* users that may wait without holding the mutex          *)

ASSUME CondvarAssumption ==
    /\ Fns \subseteq {"wait", "timedwait", "timedwait_inval"}
    /\ Careless \subseteq Users /\ Users \subseteq Threads

VARIABLES cv, fn, cret

cvars == <<cv, fn, cret>>
allvars == <<vars, cvars>>

Sleepers == {t \in Threads : cv[t] = "sleep"}
Free(t) == pc[t] = "idle" /\ cv[t] = "out"
At(t, l) == cv' = [cv EXCEPT ![t] = l]
Finish(t, r) == At(t, "done") /\ cret' = [cret EXCEPT ![t] = r]
-----------------------------------------------------------------------------
CInit ==
    /\ Init
    /\ cv = [t \in Threads |-> "out"]
    /\ fn = [t \in Threads |-> "none"]
    /\ cret = [t \in Threads |-> "OK"]

(* condvar.h:108: the mutex has to be locked before (once).  What a wait   *)
(* with a normal mutex that is not locked does is undefined.               *)
CallWait(t, f) ==
    /\ Free(t) /\ type # "spinlock"
    /\ \/ holds[t] = 1
       \/ t \in Careless /\ holds[t] = 0 /\ (type # "normal" \/ robust)
    /\ fn' = [fn EXCEPT ![t] = f]
    /\ At(t, "enter")
    /\ UNCHANGED <<vars, cret>>

(* An error of pthread_cond_(timed)wait before it has waited: wait returns *)
(* OSAL_OK, timedwait notes the error and calls again.                     *)
EnterFails(t, r) ==
    /\ IF fn[t] = "wait" THEN Finish(t, "OK")
                         ELSE cret' = [cret EXCEPT ![t] = r] /\ UNCHANGED cv
    /\ UNCHANGED vars

Enter(t) ==
    /\ cv[t] = "enter" /\ pc[t] # "dead"
    /\ \/ fn[t] = "timedwait_inval" /\ EnterFails(t, "INVALID_PARAM")
       \/ fn[t] # "timedwait_inval" /\ owner # t
          /\ EnterFails(t, "PERMISSION_DENIED")
       \/ /\ fn[t] # "timedwait_inval" /\ owner = t
          /\ Release
          /\ holds' = [holds EXCEPT ![t] = 0]
          /\ At(t, "sleep")
          /\ UNCHANGED <<attrs, pc, ret, cret>>
    /\ UNCHANGED fn

Woken(T) == [t \in Threads |-> IF t \in T THEN "wake" ELSE cv[t]]

(* osal_condvar_signal                                                     *)
Signal(t) ==
    /\ Free(t)
    /\ \E s \in Sleepers : cv' = Woken({s})
    /\ UNCHANGED <<vars, fn, cret>>

(* osal_condvar_broadcast                                                  *)
Broadcast(t) ==
    /\ Free(t) /\ Sleepers # {}
    /\ cv' = Woken(Sleepers)
    /\ UNCHANGED <<vars, fn, cret>>

Spurious(t) ==
    /\ cv[t] = "sleep" /\ pc[t] # "dead"
    /\ At(t, "wake")
    /\ UNCHANGED <<vars, fn, cret>>

Expire(t) ==
    /\ cv[t] = "sleep" /\ fn[t] = "timedwait" /\ pc[t] # "dead"
    /\ At(t, "expired")
    /\ UNCHANGED <<vars, fn, cret>>

(* Mutant: a timed wait that expires returns without the mutex.            *)
RelockUnlessExpired(t) ==
    /\ cv[t] \in {"wake", "expired"} /\ pc[t] # "dead"
    /\ \/ cv[t] = "expired" /\ Finish(t, "TIMEOUT")
          /\ UNCHANGED <<owner, depth, holds, ret>>
       \/ cv[t] = "wake" /\ Taken(t) /\ Finish(t, "OK")
    /\ UNCHANGED <<attrs, mstate, pc, fn>>

(* Mutant: the loop of timedwait, in both functions, does not end.         *)
RelockLoops(t) ==
    /\ cv[t] \in {"wake", "expired"} /\ pc[t] # "dead"
    /\ Taken(t)
    /\ At(t, "enter")
    /\ UNCHANGED <<attrs, mstate, pc, fn, cret>>

(***************************************************************************)
(* The end of pthread_cond_(timed)wait: the mutex is locked again.  An     *)
(* error of that lock (EOWNERDEAD with the mutex, ENOTRECOVERABLE without) *)
(* takes the place of the result: wait returns OSAL_OK all the same,       *)
(* timedwait waits again.                                                  *)
(***************************************************************************)
Relock(t) ==
    /\ cv[t] \in {"wake", "expired"} /\ pc[t] # "dead"
    /\ \/ /\ Taken(t)
          /\ \/ mstate = "ok"
                /\ Finish(t, IF cv[t] = "expired" THEN "TIMEOUT" ELSE "OK")
             \/ mstate # "ok" /\ fn[t] = "wait" /\ Finish(t, "OK")
             \/ mstate # "ok" /\ fn[t] # "wait" /\ At(t, "enter")
                /\ UNCHANGED cret
       \/ /\ mstate = "lost"
          /\ \/ fn[t] = "wait" /\ Finish(t, "OK")
             \/ fn[t] # "wait" /\ At(t, "enter") /\ UNCHANGED cret
          /\ UNCHANGED <<owner, depth, holds, ret>>
    /\ UNCHANGED <<attrs, mstate, pc, fn>>

Return(t) ==
    /\ cv[t] = "done" /\ pc[t] # "dead"
    /\ At(t, "out")
    /\ fn' = [fn EXCEPT ![t] = "none"]
    /\ cret' = [cret EXCEPT ![t] = "OK"]
    /\ UNCHANGED vars

(* The mutex operations, by threads that are not waiting.                  *)
MutexStep(t) ==
    /\ cv[t] = "out"
    /\ Lock(t) \/ Locked(t) \/ Trylock(t) \/ Unlocked(t)
    /\ UNCHANGED cvars

Death(t) == Die(t) /\ UNCHANGED cvars

CNext ==
    \/ \E t \in Threads : Signal(t) \/ Broadcast(t) \/ Death(t)
    \/ \E t \in Users :
        \/ MutexStep(t)
        \/ \E f \in Fns : CallWait(t, f)
        \/ Enter(t) \/ Spurious(t) \/ Expire(t) \/ Relock(t) \/ Return(t)

CSpec == CInit /\ [][CNext]_allvars

(* Deadlines pass, threads that wait for the mutex get it sooner or later, *)
(* and a holder outside of the condition variable unlocks it some day, as  *)
(* often as it has locked it.                                              *)
CFairness ==
    \A t \in Users :
        /\ WF_allvars(Enter(t) \/ Expire(t) \/ Return(t))
        /\ SF_allvars(Relock(t))
        /\ SF_allvars(Locked(t) /\ UNCHANGED cvars)
        /\ SF_allvars(Free(t) /\ owner = t /\ Unlocked(t) /\ UNCHANGED cvars)
        /\ SF_allvars(/\ Free(t) /\ owner = t /\ depth = 1
                      /\ Unlocked(t) /\ UNCHANGED cvars)
CFairSpec == CSpec /\ CFairness
-----------------------------------------------------------------------------
(* Nobody will ever unlock the mutex: its owner died and it is not robust, *)
(* or its owner waits for itself, or it is in a timed                     *)
(* wait that does not end (TimedwaitEnds).                                 *)
Stuck ==
    /\ owner # NoThread
    /\ \/ pc[owner] = "dead"
       \/ pc[owner] = "lock" /\ type \in {"normal", "spinlock"}
       \/ fn[owner] = "timedwait_inval"

(***************************************************************************)
(* condvar.h:108, the mutex "is unlocked during wait", and only then: a    *)
(* thread that waited with the mutex and comes back, signalled or timed    *)
(* out, owns it again, unless the mutex can never be locked again.         *)
(***************************************************************************)
WaitReturnsLocked ==
    \A t \in Users \ Careless :
        cv[t] = "done" /\ pc[t] # "dead" /\ mstate # "lost" =>
            owner = t /\ holds[t] = 1

(***************************************************************************)
(* Nobody waits for ever in osal_mutex_lock as long as holders unlock some *)
(* day: not behind a recursive lock, a condition variable, or the death of *)
(* the owner of a robust mutex.                                            *)
(***************************************************************************)
LockEnds ==
    \A t \in Users : (pc[t] = "lock") ~> (pc[t] # "lock" \/ Stuck)

(***************************************************************************)
(* A thread that was signalled, and one in a timed wait that is not, comes *)
(* back from it.  An error of the mutex keeps a timed wait in its loop.    *)
(***************************************************************************)
WaitEnds ==
    \A t \in Users :
        (cv[t] = "wake" \/ (cv[t] = "sleep" /\ fn[t] = "timedwait")) ~>
            \/ cv[t] \in {"done", "out"} \/ pc[t] = "dead" \/ Stuck
            \/ fn[t] = "timedwait" /\ mstate # "ok"

(***************************************************************************)
(* condvar.h:120 and 130: a timed wait ends, with a signal, the timeout or *)
(* an error.                                                               *)
(***************************************************************************)
TimedwaitEnds ==
    \A t \in Users :
        (fn[t] \in {"timedwait", "timedwait_inval"}) ~> (fn[t] = "none")

=============================================================================
