------------------------- MODULE BinarySemaphoreSpec -------------------------
(***************************************************************************)
(* What binary_semaphore.h promises: one flag, value, on which every call  *)
(* takes effect in ONE step between its invocation and its return.  A post *)
(* sets the flag (a post on a set flag is absorbed), EVERY wait that       *)
(* reports success has cleared it, and a call that reports BUSY or TIMEOUT *)
(* leaves it alone, so an event is handed out at most once and is kept     *)
(* until it is handed out.  A timed wait gives up only after it had to     *)
(* wait.  (For a trywait that would block the header says TIMEOUT and the  *)
(* tests say BUSY; the tests are followed.)                                *)
(***************************************************************************)
CONSTANTS Threads,  (* the callers                                         *)
          Ops       (* the operations they use, see BinarySemaphore        *)

VARIABLES value,    (* the flag                                            *)
          phase,    (* per thread: "idle", "called" or "done"              *)
          op,       (* per thread: operation of the current call           *)
          ret,      (* per thread: result of the current call, once done   *)
          blocked   (* the callers that found the flag clear and wait      *)

vars == <<value, phase, op, ret, blocked>>

Init ==
    /\ value = 0
    /\ phase = [t \in Threads |-> "idle"]
    /\ op = [t \in Threads |-> "none"]
    /\ ret = [t \in Threads |-> "OK"]
    /\ blocked = {}

Invoke(t, o) ==
    /\ phase[t] = "idle"
    /\ phase' = [phase EXCEPT ![t] = "called"]
    /\ op' = [op EXCEPT ![t] = o]
    /\ UNCHANGED <<value, ret, blocked>>

(* The call of t takes effect with the flag becoming v and the result r.   *)
Effect(t, v, r) ==
    /\ phase[t] = "called"
    /\ phase' = [phase EXCEPT ![t] = "done"]
    /\ value' = v
    /\ ret' = [ret EXCEPT ![t] = r]
    /\ blocked' = blocked \ {t}
    /\ UNCHANGED op

Post(t) == op[t] = "post" /\ Effect(t, 1, "OK")

(* A wait succeeds only on a set flag, and clears it.                      *)
Take(t) ==
    /\ op[t] # "post"
    /\ value = 1
    /\ Effect(t, 0, "OK")

Busy(t) == op[t] = "trywait" /\ value = 0 /\ Effect(t, value, "BUSY")

(* A wait that finds the flag clear blocks, until it looks again.          *)
Block(t) ==
    /\ phase[t] = "called" /\ op[t] \notin {"post", "trywait"}
    /\ value = 0
    /\ blocked' = blocked \cup {t}
    /\ UNCHANGED <<value, phase, op, ret>>

Unblock(t) ==
    /\ t \in blocked
    /\ blocked' = blocked \ {t}
    /\ UNCHANGED <<value, phase, op, ret>>

(* A timed wait that is blocked may give up and leave the flag as it is:   *)
(* an event that arrives late stays for the others.                        *)
Timeout(t) ==
    op[t] = "timedwait" /\ t \in blocked /\ Effect(t, value, "TIMEOUT")

Return(t) ==
    /\ phase[t] = "done"
    /\ phase' = [phase EXCEPT ![t] = "idle"]
    /\ op' = [op EXCEPT ![t] = "none"]
    /\ ret' = [ret EXCEPT ![t] = "OK"]
    /\ UNCHANGED <<value, blocked>>

Next ==
    \E t \in Threads :
        \/ \E o \in Ops : Invoke(t, o)
        \/ Post(t) \/ Take(t) \/ Busy(t) \/ Timeout(t)
        \/ Block(t) \/ Unblock(t) \/ Return(t)

Spec == Init /\ [][Next]_vars

=============================================================================
