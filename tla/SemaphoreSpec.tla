---------------------------- MODULE SemaphoreSpec ----------------------------
(***************************************************************************)
(* What a semaphore promises its callers on every port: a number of posts  *)
(* that have not been taken, or for a binary semaphore whether there is    *)
(* one, on which each call takes effect in ONE step.  A successful wait    *)
(* takes a post that is there; a call that fails changes nothing, and has  *)
(* the reason semaphore.h gives for it.                                    *)
(***************************************************************************)
EXTENDS Naturals

CONSTANTS Threads,  (* the callers                                         *)
          InitVal,  (* initial number of posts                             *)
          MaxCount  (* the number of posts a post may refuse to exceed     *)

VARIABLES value,    (* the posts that have not been taken                  *)
          binary,   (* posts beyond the first are absorbed                 *)
          result,   (* per thread: operation and result of a call that has *)
                    (* taken effect, Pending until then                    *)
          blocked   (* the callers that found nothing to take and wait     *)

vars == <<value, binary, result, blocked>>

Pending == <<"none", "none">>
Waits == {"wait", "trywait", "timedwait"}

Init ==
    /\ value = InitVal /\ binary \in BOOLEAN
    /\ result = [t \in Threads |-> Pending]
    /\ blocked = {}

(* The call o of t takes effect with the result r.                         *)
Effect(t, o, r) ==
    /\ result[t] = Pending
    /\ result' = [result EXCEPT ![t] = <<o, r>>]
    /\ blocked' = blocked \ {t}
    /\ UNCHANGED binary

Post(t) ==
    /\ Effect(t, "post", "OK")
    /\ value' = IF binary THEN 1 ELSE value + 1

Take(t) ==
    /\ \E o \in Waits : Effect(t, o, "OK")
    /\ value > 0
    /\ value' = value - 1

(* A call that finds nothing to take blocks, until it looks again.         *)
Block(t) ==
    /\ result[t] = Pending /\ value = 0
    /\ blocked' = blocked \cup {t}
    /\ UNCHANGED <<value, binary, result>>

Unblock(t) ==
    /\ t \in blocked
    /\ blocked' = blocked \ {t}
    /\ UNCHANGED <<value, binary, result>>

(* A call that does not wait fails only if there is nothing to take,       *)
Empty(t) ==
    /\ Effect(t, "trywait", "BUSY")
    /\ value = 0
    /\ UNCHANGED value

(* a timed wait times out only if there is nothing to take or it has been  *)
(* blocked, only a blocked wait is interrupted, and a post is refused only *)
(* at the maximum.                                                         *)
GiveUp(t) ==
    /\ \/ Effect(t, "timedwait", "TIMEOUT") /\ (value = 0 \/ t \in blocked)
       \/ Effect(t, "timedwait", "INVALID_PARAM")
       \/ Effect(t, "wait", "INTERRUPTED") /\ t \in blocked
       \/ Effect(t, "post", "OPERATION_FAILED") /\ value >= MaxCount
    /\ UNCHANGED value

Return(t) ==
    /\ result[t] # Pending
    /\ result' = [result EXCEPT ![t] = Pending]
    /\ UNCHANGED <<value, binary, blocked>>

Next ==
    \E t \in Threads :
        \/ Post(t) \/ Take(t) \/ Block(t) \/ Unblock(t)
        \/ Empty(t) \/ GiveUp(t) \/ Return(t)

Spec == Init /\ [][Next]_vars

=============================================================================
