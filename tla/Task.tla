-------------------------------- MODULE Task --------------------------------
(***************************************************************************)
(* Task creation and termination of the POSIX port (posix/task.c).         *)
(* osal_task_create hands the new thread a posix_start_args record that    *)
(* lives in the creator's stack frame, and polls its field running until   *)
(* the wrapper of the new thread has taken everything it needs.  Threads   *)
(* create, join and cancel each other; a thread that has returned from     *)
(* osal_task_create uses the same stack memory for its next call, so every *)
(* thread c has ONE frame, start_args[c].                                  *)
(*                                                                         *)
(* pc[t] of a thread: none, not created; copy, attr, run, the wrapper      *)
(* before it copies the arguments, applies the attributes, sets running;   *)
(* user, in its handler; poll, in osal_task_create called from the         *)
(* handler; join, in osal_task_join; over, terminated.                     *)
(***************************************************************************)
EXTENDS Naturals, FiniteSets

CONSTANTS
    Threads,      (* thread identities, each used once                     *)
    Main,         (* the thread that is there at the start                 *)
    NoThread,     (* no target, no joiner                                  *)
    Args,         (* handler arguments                                     *)
    NoArg,        (* what is found in memory nobody has written            *)
    Cancellers    (* the threads that call osal_task_destroy               *)

ASSUME TaskAssumption ==
    /\ Main \in Threads /\ NoThread \notin Threads
    /\ NoArg \notin Args /\ Cancellers \subseteq Threads

VARIABLES
    pc,           (* see above                                             *)
    start_args,   (* per thread: [running, user_arg] in its stack frame    *)
    alive,        (* per thread: it is inside osal_task_create's frame     *)
    creator,      (* per thread: whose frame its args pointer points to    *)
    target,       (* per thread: the thread it creates or joins            *)
    user_arg,     (* per thread: the wrapper's copy of the argument        *)
    applied,      (* per thread: no, the attributes are still to be set;   *)
                  (* applied, all were; refused, at least one was not      *)
    joiner,       (* per thread: who waits for it in pthread_join          *)
    cancelled,    (* per thread: pthread_cancel was called on it           *)
    given,        (* history: argument passed to osal_task_create          *)
    wild          (* history: threads that used a frame that is gone       *)

vars == <<pc, start_args, alive, creator, target, user_arg, applied, joiner,
          cancelled, given, wild>>

Goto(t, l) == pc' = [pc EXCEPT ![t] = l]
NoFrame == [running |-> 0, user_arg |-> NoArg]
(* t dereferences its pointer to the creator's start_args.                 *)
Frame(t) == start_args[creator[t]]
Touch(t) == wild' = IF alive[creator[t]] THEN wild ELSE wild \cup {t}
-----------------------------------------------------------------------------
Init ==
    /\ pc = [t \in Threads |-> IF t = Main THEN "user" ELSE "none"]
    /\ start_args = [t \in Threads |-> NoFrame]
    /\ alive = [t \in Threads |-> FALSE]
    /\ creator = [t \in Threads |-> NoThread]
    /\ target = [t \in Threads |-> NoThread]
    /\ user_arg = [t \in Threads |-> NoArg]
    /\ applied = [t \in Threads |-> "no"]
    /\ joiner = [t \in Threads |-> NoThread]
    /\ cancelled = [t \in Threads |-> FALSE]
    /\ given = [t \in Threads |-> NoArg]
    /\ wild = {}

(* osal_task_create: fill start_args, start the thread.  (When             *)
(* pthread_create fails the error is returned and nothing has happened.)   *)
Create(c, t, a) ==
    /\ pc[c] = "user" /\ pc[t] = "none" /\ ~cancelled[c]
    /\ start_args' = [start_args EXCEPT ![c] = [running |-> 0, user_arg |-> a]]
    /\ alive' = [alive EXCEPT ![c] = TRUE]
    /\ creator' = [creator EXCEPT ![t] = c]
    /\ target' = [target EXCEPT ![c] = t]
    /\ given' = [given EXCEPT ![t] = a]
    /\ pc' = [pc EXCEPT ![c] = "poll", ![t] = "copy"]
    /\ UNCHANGED <<user_arg, applied, joiner, cancelled, wild>>

(* Mutant: the creator does not wait for the wrapper.                      *)
CreateReturnsEarly(c) ==
    /\ pc[c] = "poll"
    /\ alive' = [alive EXCEPT ![c] = FALSE]
    /\ target' = [target EXCEPT ![c] = NoThread]
    /\ Goto(c, "user")
    /\ UNCHANGED <<start_args, creator, user_arg, applied, joiner, cancelled,
                   given, wild>>

(* The polling loop ends, osal_task_create returns and its frame is gone.  *)
CreateReturns(c) ==
    /\ pc[c] = "poll" /\ start_args[c].running = 1
    /\ alive' = [alive EXCEPT ![c] = FALSE]
    /\ target' = [target EXCEPT ![c] = NoThread]
    /\ Goto(c, "user")
    /\ UNCHANGED <<start_args, creator, user_arg, applied, joiner, cancelled,
                   given, wild>>

(* Mutant: running is set before the attributes are applied.               *)
WrapperCopyAndRun(t) ==
    /\ pc[t] = "copy"
    /\ user_arg' = [user_arg EXCEPT ![t] = Frame(t).user_arg]
    /\ start_args' = [start_args EXCEPT ![creator[t]].running = 1]
    /\ Touch(t)
    /\ Goto(t, "attr")
    /\ UNCHANGED <<alive, creator, target, applied, joiner, cancelled, given>>

(* posix_task_wrapper: copy handler, argument and attribute pointer; what  *)
(* is read from a frame that is gone may be anything.                      *)
WrapperCopy(t) ==
    /\ pc[t] = "copy"
    /\ \E a \in Args \cup {NoArg} :
          /\ alive[creator[t]] => a = Frame(t).user_arg
          /\ user_arg' = [user_arg EXCEPT ![t] = a]
    /\ Touch(t)
    /\ Goto(t, "attr")
    /\ UNCHANGED <<start_args, alive, creator, target, applied, joiner,
                   cancelled, given>>

(* Policy, priority, affinity and name, from the caller's attributes, one  *)
(* after the other.  A refusal is printed and otherwise ignored; when      *)
(* there is one depends on the attributes, see TaskSched.                  *)
WrapperAttr(t) ==
    /\ pc[t] = "attr"
    /\ \E r \in {"applied", "refused"} :
          applied' = [applied EXCEPT ![t] = r]
    /\ Goto(t, "run")
    /\ UNCHANGED <<start_args, alive, creator, target, user_arg, joiner,
                   cancelled, given, wild>>

(* Mutant: the creator is not told.                                        *)
WrapperRunSilent(t) ==
    /\ pc[t] = "run"
    /\ Goto(t, "user")
    /\ UNCHANGED <<start_args, alive, creator, target, user_arg, applied,
                   joiner, cancelled, given, wild>>

(* start_args->running = 1, then the user's handler.                       *)
WrapperRun(t) ==
    /\ pc[t] = "run"
    /\ start_args' = [start_args EXCEPT ![creator[t]].running = 1]
    /\ Touch(t)
    /\ Goto(t, "user")
    /\ UNCHANGED <<alive, creator, target, user_arg, applied, joiner,
                   cancelled, given>>
-----------------------------------------------------------------------------
(* The handler returns, or calls osal_task_delete (pthread_exit).          *)
Exit(t) ==
    /\ t # Main /\ pc[t] = "user"
    /\ Goto(t, "over")
    /\ UNCHANGED <<start_args, alive, creator, target, user_arg, applied,
                   joiner, cancelled, given, wild>>

(* osal_task_destroy: pthread_cancel only asks the thread to terminate.    *)
(* The handle is there once osal_task_create is over.                      *)
Destroy(c, t) ==
    /\ c \in Cancellers /\ c # t /\ t # Main
    /\ pc[c] = "user" /\ pc[t] \notin {"none", "over"}
    /\ target[creator[t]] # t
    /\ cancelled' = [cancelled EXCEPT ![t] = TRUE]
    /\ UNCHANGED <<pc, start_args, alive, creator, target, user_arg, applied,
                   joiner, given, wild>>

(* The request takes effect at a cancellation point: the sleep of the      *)
(* polling loop, pthread_join, or one of the handler's own.                *)
Cancelled(t) ==
    /\ cancelled[t] /\ pc[t] \in {"user", "poll", "join"}
    /\ alive' = [alive EXCEPT ![t] = FALSE]
    /\ target' = [target EXCEPT ![t] = IF pc[t] = "poll" THEN @ ELSE NoThread]
    /\ joiner' = [s \in Threads |-> IF joiner[s] = t THEN NoThread
                                                     ELSE joiner[s]]
    /\ Goto(t, "over")
    /\ UNCHANGED <<start_args, creator, user_arg, applied, cancelled, given,
                   wild>>

(* osal_task_join: pthread_join refuses a thread somebody joins already    *)
(* (EINVAL), itself and a thread that is joining the caller (EDEADLK).     *)
Join(c, t) ==
    /\ pc[c] = "user" /\ ~cancelled[c]
    /\ t # Main /\ pc[t] # "none" /\ target[creator[t]] # t
    /\ c # t /\ joiner[t] = NoThread /\ joiner[c] # t
    /\ joiner' = [joiner EXCEPT ![t] = c]
    /\ target' = [target EXCEPT ![c] = t]
    /\ Goto(c, "join")
    /\ UNCHANGED <<start_args, alive, creator, user_arg, applied, cancelled,
                   given, wild>>

(* The joined thread has terminated; its joiner stays recorded, so that    *)
(* nobody joins it twice.                                                  *)
JoinReturns(c) ==
    /\ pc[c] = "join" /\ pc[target[c]] = "over"
    /\ target' = [target EXCEPT ![c] = NoThread]
    /\ Goto(c, "user")
    /\ UNCHANGED <<start_args, alive, creator, user_arg, applied, joiner,
                   cancelled, given, wild>>

Step(t) ==
    \/ CreateReturns(t) \/ WrapperCopy(t) \/ WrapperAttr(t) \/ WrapperRun(t)
    \/ JoinReturns(t) \/ Cancelled(t)

Next ==
    \E t \in Threads :
        \/ Step(t) \/ Exit(t)
        \/ \E s \in Threads :
              \/ \E a \in Args : Create(t, s, a)
              \/ Destroy(t, s) \/ Join(t, s)

Spec == Init /\ [][Next]_vars

(* Threads that can run do run; nobody has to create, join or exit.        *)
FairSpec == Spec /\ \A t \in Threads : WF_vars(Step(t))
-----------------------------------------------------------------------------
Wrapper == {"copy", "attr", "run"}

(* The creator of t was cancelled while it waited for t to start.          *)
Orphan(t) == target[creator[t]] = t /\ pc[creator[t]] = "over"

(***************************************************************************)
(* task.c:65, "they will be destroyed after 'start_args->running = 1;'":   *)
(* a wrapper reads or writes start_args after the frame they live in is    *)
(* gone only if osal_task_destroy hit the creator inside osal_task_create. *)
(***************************************************************************)
StartArgsAlive == \A t \in wild : Orphan(t)

(***************************************************************************)
(* Every handler runs with the argument its own creator passed, although   *)
(* creators reuse the stack memory for one osal_task_create after another. *)
(***************************************************************************)
OwnArgument ==
    \A t \in Threads \ {Main} :
        pc[t] \in {"attr", "run", "user", "poll", "join"} /\ ~Orphan(t) =>
            user_arg[t] = given[t]

(***************************************************************************)
(* When osal_task_create has returned, the new thread is past its wrapper: *)
(* it has asked for every one of its attributes, and the caller's          *)
(* attribute object is no longer used.                                     *)
(***************************************************************************)
CreatedIsSetUp ==
    \A t \in Threads \ {Main} :
        pc[t] # "none" /\ target[creator[t]] # t =>
            applied[t] # "no" /\ pc[t] \notin Wrapper

(***************************************************************************)
(* osal_task_create always comes back, even when the new thread has        *)
(* terminated before the creator looks at running for the first time.      *)
(***************************************************************************)
CreateEnds == \A c \in Threads : (pc[c] = "poll") ~> (pc[c] # "poll")

=============================================================================
