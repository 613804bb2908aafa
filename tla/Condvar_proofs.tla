---------------------------- MODULE Condvar_proofs ----------------------------
(***************************************************************************)
(* Machine-checked proofs about Mutex and Condvar, for any set of threads, *)
(* any mutex type, robust or not, any recursion limit and any threads that *)
(* die.                                                                    *)
(***************************************************************************)
EXTENDS Condvar, TLAPS

(***************************************************************************)
(* The inductive invariant of the mutex.  ResultsAreTrue alone is not      *)
(* kept: the unlock of a spinlock, which does not count, is right only     *)
(* because its depth is 1, and the kernel frees a mutex for a dead owner   *)
(* only because one that is lost has no owner.                             *)
(***************************************************************************)
MutexTypeOK ==
    /\ type \in {"normal", "errorcheck", "recursive", "spinlock"}
    /\ robust \in BOOLEAN
    /\ owner \in Threads \cup {NoThread}
    /\ depth \in Nat
    /\ mstate \in {"ok", "inconsistent", "lost"}
    /\ pc \in [Threads -> {"idle", "lock", "dead"}]
    /\ holds \in [Threads -> Nat]

(* The depth counts the locks of an owner; only recursive mutexes nest.    *)
DepthOK ==
    /\ owner = NoThread <=> depth = 0
    /\ type # "recursive" => depth <= 1
    /\ mstate = "lost" => owner = NoThread

MutexInv == MutexTypeOK /\ DepthOK /\ ResultsAreTrue

(* A new mutex of any type, or a new spinlock, satisfies it.               *)
LEMMA MutexInitially == Init => MutexInv
<1> SUFFICES ASSUME Init PROVE MutexInv
  OBVIOUS
<1>1. robust \in BOOLEAN
  BY MutexAssumption, Zenon DEF Init, InitMutex, InitSpinlock
<1>2. type \in {"normal", "errorcheck", "recursive", "spinlock"}
  BY MutexAssumption DEF Init, InitMutex, InitSpinlock
<1> QED
  BY <1>1, <1>2, MutexAssumption
     DEF Init, MutexInv, MutexTypeOK, DepthOK, ResultsAreTrue, Alive

(* The mutex is handed out, again or for the first time, or it is not.     *)
LEMMA TakenKeeps ==
    ASSUME MutexInv, NEW t \in Alive,
           Taken(t) \/ TakenAgain(t), UNCHANGED <<attrs, mstate>>,
           \/ UNCHANGED pc
           \/ pc' = [pc EXCEPT ![t] = "idle"]
    PROVE  MutexInv'
<1> USE MutexAssumption
        DEF MutexInv, MutexTypeOK, DepthOK, ResultsAreTrue, Alive, attrs
<1>1. CASE Taken(t)
  BY <1>1 DEF Taken
<1>2. CASE TakenAgain(t)
  BY <1>2 DEF TakenAgain
<1> QED
  BY <1>1, <1>2

(* Every operation of the mutex, and a death, keeps its invariant.         *)
LEMMA MutexStepKeeps ==
    ASSUME MutexInv, NEW t \in Threads,
           Lock(t) \/ Locked(t) \/ Trylock(t) \/ Unlocked(t) \/ Die(t)
    PROVE  MutexInv'
<1> USE MutexAssumption
<1>1. CASE Lock(t)
  BY <1>1 DEF Lock, MayAsk, attrs, MutexInv, MutexTypeOK, DepthOK,
              ResultsAreTrue, Alive
<1>2. CASE LockReturns(t)
  <2>1. CASE Taken(t) \/ TakenAgain(t)
    BY <1>2, <2>1, TakenKeeps DEF LockReturns, Alive
  <2>2. CASE UNCHANGED <<owner, depth, holds>>
    BY <1>2, <2>2 DEF LockReturns, attrs, MutexInv, MutexTypeOK, DepthOK,
                      ResultsAreTrue, Alive
  <2> QED
    BY <1>2, <2>1, <2>2 DEF LockReturns, Refused
<1>3. CASE SpinlockLocked(t)
  BY <1>3, TakenKeeps DEF SpinlockLocked, Alive
<1>4. CASE Trylock(t)
  <2>1. CASE Taken(t) \/ TakenAgain(t)
    BY <1>4, <2>1, TakenKeeps DEF Trylock, MayAsk, Alive
  <2>2. CASE UNCHANGED <<owner, depth, holds>>
    BY <1>4, <2>2 DEF Trylock, attrs, MutexInv, MutexTypeOK, DepthOK,
                      ResultsAreTrue, Alive
  <2> QED
    BY <1>4, <2>1, <2>2 DEF Trylock, Refused
<1> USE DEF attrs, MutexInv, MutexTypeOK, DepthOK, ResultsAreTrue, Alive,
            Release
<1>5. CASE Unlock(t)
  BY <1>5 DEF Unlock
<1>6. CASE SpinlockUnlock(t)
  BY <1>6 DEF SpinlockUnlock
<1>7. CASE Die(t)
  BY <1>7 DEF Die
<1> QED
  BY <1>1, <1>2, <1>3, <1>4, <1>5, <1>6, <1>7 DEF Locked, Unlocked

(***************************************************************************)
(* The mutex and the spinlock on their own: what the callers conclude from *)
(* the results of lock, trylock and unlock is true after every history of  *)
(* calls and deaths.                                                       *)
(***************************************************************************)
THEOREM MutexResults == Spec => []ResultsAreTrue
<1>1. Init => MutexInv
  BY MutexInitially
<1>2. MutexInv /\ [Next]_vars => MutexInv'
  <2>1. MutexInv /\ UNCHANGED vars => MutexInv'
    BY DEF vars, attrs, MutexInv, MutexTypeOK, DepthOK, ResultsAreTrue, Alive
  <2> QED
    BY <2>1, MutexStepKeeps DEF Next
<1>3. MutexInv => ResultsAreTrue
  BY DEF MutexInv
<1> QED
  BY <1>1, <1>2, <1>3, PTL DEF Spec
-----------------------------------------------------------------------------
(***************************************************************************)
(* Why a waiter comes back with the mutex: it owns it whenever it is about *)
(* to wait (also between two rounds of the loop of timedwait) and when it  *)
(* is about to return.                                                     *)
(***************************************************************************)
OwnsAround ==
    \A t \in Users \ Careless :
        /\ cv[t] \in {"enter", "done"}
        /\ pc[t] # "dead" /\ mstate # "lost"
        => owner = t /\ holds[t] = 1

CvTypeOK == cv \in [Threads -> {"out", "enter", "sleep", "wake", "expired",
                                "done"}]

CInv == MutexInv /\ CvTypeOK /\ OwnsAround

(* The condition variable gives up and takes back the mutex so that the    *)
(* results of the mutex functions stay true.                               *)
LEMMA CondvarKeepsMutex ==
    ASSUME CInv, NEW t \in Threads, Enter(t) \/ Relock(t)
    PROVE  MutexInv'
<1> USE MutexAssumption
<1>1. CASE Enter(t)
  <2>1. CASE UNCHANGED vars
    BY <2>1 DEF CInv, vars, attrs, MutexInv, MutexTypeOK, DepthOK,
                ResultsAreTrue, Alive
  <2>2. CASE Release /\ owner = t /\ holds' = [holds EXCEPT ![t] = 0]
             /\ UNCHANGED <<attrs, pc>>
    BY <2>2 DEF CInv, Release, attrs, MutexInv, MutexTypeOK, DepthOK,
                ResultsAreTrue, Alive
  <2> QED
    BY <1>1, <2>1, <2>2 DEF Enter, EnterFails
<1>2. CASE Relock(t)
  <2>1. CASE Taken(t)
    BY <1>2, <2>1, TakenKeeps DEF Relock, CInv, Alive
  <2>2. CASE UNCHANGED <<owner, depth, holds>>
    BY <1>2, <2>2 DEF CInv, Relock, attrs, MutexInv, MutexTypeOK, DepthOK,
                      ResultsAreTrue, Alive
  <2> QED
    BY <1>2, <2>1, <2>2 DEF Relock
<1> QED
  BY <1>1, <1>2

(* A step of the condition variable keeps the invariant.                   *)
LEMMA CondvarStepKeeps == CInv /\ [CNext]_allvars => CInv'
<1> SUFFICES ASSUME CInv, [CNext]_allvars PROVE CInv'
  OBVIOUS
<1> USE MutexAssumption, CondvarAssumption DEF At, Finish, Free
<1>1. ASSUME NEW t \in Threads, Signal(t) \/ Broadcast(t)
             \/ Spurious(t) \/ Expire(t)
      PROVE  CInv'
  <2>1. UNCHANGED vars
    BY <1>1 DEF Signal, Broadcast, Spurious, Expire
  <2>2. MutexInv'
    BY <2>1 DEF CInv, vars, attrs, MutexInv, MutexTypeOK, DepthOK,
                ResultsAreTrue, Alive
  <2>3. \A s \in Threads :
            \/ cv'[s] = cv[s]
            \/ cv[s] = "sleep" /\ cv'[s] \in {"wake", "expired"}
    BY <1>1 DEF CInv, CvTypeOK, Signal, Broadcast, Spurious, Expire, Woken,
                Sleepers
  <2>4. CvTypeOK'
    BY <1>1 DEF CInv, CvTypeOK, Signal, Broadcast, Spurious, Expire, Woken,
                Sleepers
  <2>5. OwnsAround'
    BY <2>1, <2>3 DEF CInv, OwnsAround, vars
  <2> QED
    BY <2>2, <2>4, <2>5 DEF CInv
<1>2. ASSUME NEW t \in Threads, Death(t) PROVE CInv'
  <2>1. MutexInv'
    BY <1>2, MutexStepKeeps DEF Death, CInv
  <2>2. CvTypeOK'
    BY <1>2 DEF CInv, CvTypeOK, Death, cvars
  <2>3. OwnsAround'
    BY <1>2 DEF CInv, OwnsAround, Death, Die, cvars, MutexInv, MutexTypeOK,
                DepthOK
  <2> QED
    BY <2>1, <2>2, <2>3 DEF CInv
<1>3. ASSUME NEW t \in Users, MutexStep(t) PROVE CInv'
  <2>1. MutexInv'
    BY <1>3, MutexStepKeeps DEF MutexStep, CInv
  <2>2. CvTypeOK'
    BY <1>3 DEF CInv, CvTypeOK, MutexStep, cvars
  <2>3. \A s \in Threads \ {t} :
            /\ holds'[s] = holds[s] /\ pc'[s] = pc[s]
            /\ owner = s => owner' = s /\ UNCHANGED mstate
            /\ mstate' # "lost" => mstate # "lost"
    BY <1>3 DEF CInv, MutexStep, Lock, Locked, LockReturns, SpinlockLocked,
                Trylock, Taken, TakenAgain, Refused, Unlocked, Unlock,
                SpinlockUnlock, Release, MutexInv, MutexTypeOK
  <2>4. OwnsAround'
    BY <1>3, <2>3 DEF CInv, OwnsAround, MutexStep, cvars
  <2> QED
    BY <2>1, <2>2, <2>4 DEF CInv
<1>4. ASSUME NEW t \in Users, NEW f \in Fns, CallWait(t, f) PROVE CInv'
  <2>1. MutexInv' /\ CvTypeOK'
    BY <1>4 DEF CallWait, CInv, CvTypeOK, vars, attrs, MutexInv, MutexTypeOK,
                DepthOK, ResultsAreTrue, Alive
  <2>2. t \notin Careless => owner = t /\ holds[t] = 1
    BY <1>4 DEF CallWait, CInv, MutexInv, MutexTypeOK, ResultsAreTrue, Alive
  <2>3. OwnsAround'
    BY <1>4, <2>2 DEF CallWait, CInv, CvTypeOK, OwnsAround, vars
  <2> QED
    BY <2>1, <2>3 DEF CInv
<1>5. ASSUME NEW t \in Users, Enter(t) PROVE CInv'
  <2>1. MutexInv'
    BY <1>5, CondvarKeepsMutex
  <2>2. CvTypeOK'
    BY <1>5 DEF CInv, CvTypeOK, Enter, EnterFails
  <2>3. OwnsAround'
    <3>1. CASE UNCHANGED vars
      BY <1>5, <3>1 DEF CInv, CvTypeOK, OwnsAround, Enter, EnterFails, vars,
                        MutexInv, MutexTypeOK
    <3>2. CASE owner = t /\ Release /\ At(t, "sleep") /\ UNCHANGED pc
               /\ holds' = [holds EXCEPT ![t] = 0]
      BY <3>2 DEF CInv, CvTypeOK, OwnsAround, Release, MutexInv, MutexTypeOK
    <3> QED
      BY <1>5, <3>1, <3>2 DEF Enter, EnterFails
  <2> QED
    BY <2>1, <2>2, <2>3 DEF CInv
<1>6. ASSUME NEW t \in Users, Relock(t) PROVE CInv'
  <2>1. MutexInv'
    BY <1>6, CondvarKeepsMutex
  <2>2. CvTypeOK'
    BY <1>6 DEF CInv, CvTypeOK, Relock
  <2>3. ASSUME mstate # "lost" PROVE owner = NoThread /\ owner' = t
                                     /\ holds'[t] = 1
    BY <1>6, <2>3 DEF Relock, Taken, CInv, MutexInv, MutexTypeOK,
                      ResultsAreTrue, Alive
  <2>4. OwnsAround'
    BY <1>6, <2>3 DEF CInv, CvTypeOK, OwnsAround, Relock
  <2> QED
    BY <2>1, <2>2, <2>4 DEF CInv
<1>7. ASSUME NEW t \in Users, Return(t) PROVE CInv'
  BY <1>7 DEF Return, CInv, CvTypeOK, OwnsAround, vars, attrs, MutexInv,
              MutexTypeOK, DepthOK, ResultsAreTrue, Alive
<1>8. CASE UNCHANGED allvars
  BY <1>8 DEF allvars, cvars, CInv, CvTypeOK, OwnsAround, vars, attrs,
              MutexInv, MutexTypeOK, DepthOK, ResultsAreTrue, Alive
<1> QED
  BY <1>1, <1>2, <1>3, <1>4, <1>5, <1>6, <1>7, <1>8 DEF CNext

(***************************************************************************)
(* The mutex and the condition variable together: the invariant holds.     *)
(***************************************************************************)
THEOREM CondvarInvariant == CSpec => []CInv
<1>1. CInit => CInv
  BY MutexInitially, CondvarAssumption
     DEF CInit, CInv, CvTypeOK, OwnsAround
<1> QED
  BY <1>1, CondvarStepKeeps, PTL DEF CSpec

(***************************************************************************)
(* A waiter that went to sleep with the mutex comes back with it, and what *)
(* the results of the mutex functions say stays true while other threads   *)
(* wait, are signalled, time out or die.                                   *)
(***************************************************************************)
THEOREM WaitersReturnLocked == CSpec => [](WaitReturnsLocked /\ ResultsAreTrue)
<1>1. CInv => WaitReturnsLocked /\ ResultsAreTrue
  BY CondvarAssumption DEF CInv, OwnsAround, WaitReturnsLocked, MutexInv
<1> QED
  BY <1>1, CondvarInvariant, PTL
=============================================================================
