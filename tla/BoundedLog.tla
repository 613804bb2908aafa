------------------------------ MODULE BoundedLog ------------------------------
(***************************************************************************)
(* What printing to shared memory promises: a first-in first-out log of at *)
(* most Capacity unread messages, in which a new message displaces the     *)
(* oldest unread one when the log is full, and which hands out every       *)
(* remaining message once, in order.                                       *)
(***************************************************************************)
EXTENDS Naturals, Sequences

CONSTANTS Messages,   (* what can be printed                               *)
          Capacity    (* unread messages the log can hold                  *)

VARIABLES unread,     (* the unread messages, oldest first                 *)
          got         (* the messages handed out so far                    *)

vars == <<unread, got>>

Init == unread = <<>> /\ got = <<>>

Discard ==
    /\ Len(unread) = Capacity
    /\ unread' = Tail(unread)
    /\ UNCHANGED got

Add(m) ==
    /\ Len(unread) < Capacity
    /\ unread' = Append(unread, m)
    /\ UNCHANGED got

Remove ==
    /\ unread # <<>>
    /\ got' = Append(got, Head(unread))
    /\ unread' = Tail(unread)

Next == Discard \/ Remove \/ \E m \in Messages : Add(m)

Spec == Init /\ [][Next]_vars

=============================================================================
