-------------------------------- MODULE IoShm --------------------------------
(***************************************************************************)
(* The message ring that osal_printf fills and osal_io_shm_get_message     *)
(* empties (io.c), in shared memory that IoSetup sets up: writers and one  *)
(* reader, on different threads or in different processes.  The ring       *)
(* has a mutex that nobody locks, so the steps of all of them interleave:  *)
(* every store to the shared fields is a step, and so is every test of     *)
(* them.  Copying a message takes two steps, during which its slot holds   *)
(* neither the old nor the new message (Torn).                             *)
(*                                                                         *)
(* Messages are numbered in the order of the calls of osal_printf.         *)
(***************************************************************************)
EXTENDS Naturals, Sequences

CONSTANTS
    Writers,        (* the threads that call osal_printf                   *)
    max_messages,   (* slots of the ring                                   *)
    MaxPrints,      (* bound: calls of osal_printf                         *)
    MaxGets,        (* bound: calls of osal_io_shm_get_message             *)
    MaxSerial       (* bound: calls of each when calls never overlap       *)

(* With a single slot next_write always equals act_printed.                *)
ASSUME RingAssumption == max_messages \in Nat /\ max_messages >= 2
ASSUME BoundsAssumption == {MaxPrints, MaxGets, MaxSerial} \subseteq Nat

VARIABLES
    act_printed, act_written, msgs,   (* fields of osal_io_shm_t           *)
    sem,            (* value of the semaphore in osal_io_shm_t             *)
    wpc, wmsg,      (* per writer: next statement, message to print        *)
    next_write,     (* per writer: the local variable                      *)
    wreg,           (* per writer: act_printed as last loaded              *)
    rpc,            (* next statement of osal_io_shm_get_message           *)
    to,             (* its argument: TRUE unless it is NULL                *)
    slot, half,     (* locals: slot being copied, first half of the copy   *)
    timedout,       (* history: the timed wait of this call timed out      *)
    printed,        (* history: calls of osal_printf so far                *)
    gets,           (* history: calls of osal_io_shm_get_message so far    *)
    got,            (* history: messages returned                          *)
    dropped,        (* history: some writer has discarded a message        *)
    serial          (* the calls never overlap: one thread makes them all  *)

ring == <<act_printed, act_written, msgs, sem>>
wlocal == <<wpc, wmsg, next_write, wreg>>
rlocal == <<rpc, to, slot, half, timedout>>
vars == <<ring, wlocal, rlocal, printed, gets, got, dropped, serial>>

Torn == 0
Slots == 0 .. max_messages - 1
NextSlot(n) == (n + 1) % max_messages

Bound(n) == IF serial THEN MaxSerial ELSE n

AllIdle == rpc = "idle" /\ \A w \in Writers : wpc[w] = "idle"
-----------------------------------------------------------------------------
(* Memory as ftruncate leaves it, all zero, and nobody inside a call.      *)
Init ==
    /\ act_printed = 0 /\ act_written = 0 /\ sem = 0
    /\ msgs = [s \in Slots |-> Torn]
    /\ wpc = [w \in Writers |-> "idle"]
    /\ wmsg = [w \in Writers |-> Torn]
    /\ next_write = [w \in Writers |-> 0]
    /\ wreg = [w \in Writers |-> 0]
    /\ rpc = "idle" /\ to = FALSE /\ slot = 0 /\ half = Torn
    /\ timedout = FALSE
    /\ printed = 0 /\ gets = 0 /\ got = <<>> /\ dropped = FALSE
    /\ serial \in BOOLEAN

(* A call ends, and with it its local variables.                           *)
ForgetWriter(w) ==
    /\ wpc' = [wpc EXCEPT ![w] = "idle"]
    /\ wmsg' = [wmsg EXCEPT ![w] = Torn]
    /\ next_write' = [next_write EXCEPT ![w] = 0]
    /\ wreg' = [wreg EXCEPT ![w] = 0]

ForgetReader ==
    rpc' = "idle" /\ to' = FALSE /\ slot' = 0 /\ half' = Torn /\ timedout' = FALSE
-----------------------------------------------------------------------------
(* osal_printf: next_write is computed from act_written,                   *)
LoadNextWrite(w) ==
    /\ wpc[w] = "idle" /\ printed < Bound(MaxPrints)
    /\ serial => AllIdle
    /\ printed' = printed + 1
    /\ wmsg' = [wmsg EXCEPT ![w] = printed + 1]
    /\ next_write' = [next_write EXCEPT ![w] = NextSlot(act_written)]
    /\ wpc' = [wpc EXCEPT ![w] = "test"]
    /\ UNCHANGED <<ring, wreg, rlocal, gets, got, dropped>>

(* Mutant: full is noticed when it is too late, one slot further on.       *)
TestFullLate(w) ==
    /\ wpc[w] = "test"
    /\ wpc' = [wpc EXCEPT ![w] =
                  IF NextSlot(next_write[w]) = act_printed
                  THEN "drop" ELSE "copy"]
    /\ wreg' = [wreg EXCEPT ![w] = act_printed]
    /\ UNCHANGED <<ring, wmsg, next_write, rlocal, printed, gets, got, dropped>>

(* the ring is full if that is the slot read last,                         *)
TestFull(w) ==
    /\ wpc[w] = "test"
    /\ wpc' = [wpc EXCEPT ![w] =
                  IF next_write[w] = act_printed THEN "drop" ELSE "copy"]
    /\ wreg' = [wreg EXCEPT ![w] = act_printed]
    /\ UNCHANGED <<ring, wmsg, next_write, rlocal, printed, gets, got, dropped>>

(* in which case the oldest message is given up: line 176 loads            *)
(* act_printed again, or the compiler uses the value just tested,          *)
ReloadPrinted(w) ==
    /\ wpc[w] = "drop"
    /\ \E n \in {wreg[w], act_printed} : wreg' = [wreg EXCEPT ![w] = n]
    /\ wpc' = [wpc EXCEPT ![w] = "store"]
    /\ UNCHANGED <<ring, wmsg, next_write, rlocal, printed, gets, got, dropped>>

DropOldest(w) ==
    /\ wpc[w] = "store"
    /\ act_printed' = NextSlot(wreg[w])
    /\ dropped' = TRUE
    /\ wpc' = [wpc EXCEPT ![w] = "copy"]
    /\ UNCHANGED <<act_written, msgs, sem, wmsg, next_write, wreg, rlocal,
                   printed, gets, got>>

(* the text is copied to the slot,                                         *)
BeginCopy(w) ==
    /\ wpc[w] = "copy"
    /\ msgs' = [msgs EXCEPT ![next_write[w]] = Torn]
    /\ wpc' = [wpc EXCEPT ![w] = "copying"]
    /\ wreg' = [wreg EXCEPT ![w] = 0]
    /\ UNCHANGED <<act_printed, act_written, sem, wmsg, next_write,
                   rlocal, printed, gets, got, dropped>>

EndCopy(w) ==
    /\ wpc[w] = "copying"
    /\ msgs' = [msgs EXCEPT ![next_write[w]] = wmsg[w]]
    /\ wpc' = [wpc EXCEPT ![w] = "publish"]
    /\ UNCHANGED <<act_printed, act_written, sem, wmsg, next_write, wreg,
                   rlocal, printed, gets, got, dropped>>

(* Mutant: the semaphore is posted before the message can be seen.         *)
PublishAfterPost(w) ==
    \/ /\ wpc[w] = "publish"
       /\ sem' = sem + 1
       /\ wpc' = [wpc EXCEPT ![w] = "late"]
       /\ UNCHANGED <<act_printed, act_written, msgs, wmsg, next_write, wreg,
                      rlocal, printed, gets, got, dropped>>
    \/ /\ wpc[w] = "late"
       /\ act_written' = next_write[w]
       /\ wpc' = [wpc EXCEPT ![w] = "idle"]
       /\ UNCHANGED <<act_printed, msgs, sem, wmsg, next_write, wreg, rlocal,
                      printed, gets, got, dropped>>

(* act_written makes it visible,                                           *)
Publish(w) ==
    /\ wpc[w] = "publish"
    /\ act_written' = next_write[w]
    /\ wpc' = [wpc EXCEPT ![w] = "post"]
    /\ UNCHANGED <<act_printed, msgs, sem, wmsg, next_write, wreg, rlocal,
                   printed, gets, got, dropped>>

(* and the reader is told.                                                 *)
PostSem(w) ==
    /\ wpc[w] = "post"
    /\ sem' = sem + 1
    /\ ForgetWriter(w)
    /\ UNCHANGED <<act_printed, act_written, msgs, rlocal, printed, gets, got,
                   dropped>>
-----------------------------------------------------------------------------
(* osal_io_shm_get_message with or without a timeout: an empty ring makes  *)
(* it wait, if it has a timeout.                                           *)
GetMessage(t) ==
    /\ rpc = "idle" /\ gets < Bound(MaxGets)
    /\ serial => AllIdle
    /\ gets' = gets + 1
    /\ to' = t /\ timedout' = FALSE
    /\ rpc' = IF act_printed = act_written /\ t THEN "wait" ELSE "test"
    /\ UNCHANGED <<ring, wlocal, slot, half, printed, got, dropped>>

(* osal_semaphore_timedwait succeeds, or gives up; the result is ignored.  *)
SemTaken ==
    /\ rpc = "wait" /\ sem > 0
    /\ sem' = sem - 1
    /\ rpc' = "test"
    /\ UNCHANGED <<act_printed, act_written, msgs, wlocal, to, slot, half,
                   timedout, printed, gets, got, dropped>>

(* A timeout that has passed may be reported although a post is there, see *)
(* semaphore.c:174.                                                        *)
SemTimeout ==
    /\ rpc = "wait"
    /\ timedout' = TRUE
    /\ rpc' = "test"
    /\ UNCHANGED <<ring, wlocal, to, slot, half, printed, gets, got, dropped>>

(* An empty ring ends the call.                                            *)
TestMessage ==
    /\ rpc = "test"
    /\ rpc' = IF act_printed # act_written THEN "load" ELSE "unavailable"
    /\ slot' = act_printed
    /\ UNCHANGED <<ring, wlocal, to, half, timedout, printed, gets, got,
                   dropped>>

(* Line 82 loads act_printed again, or uses the value just tested.         *)
LoadPrinted ==
    /\ rpc = "load"
    /\ slot' \in {slot, act_printed}
    /\ rpc' = "advance"
    /\ UNCHANGED <<ring, wlocal, to, half, timedout, printed, gets, got,
                   dropped>>

(* act_printed moves on to the message, which is then copied.              *)
Advance ==
    /\ rpc = "advance"
    /\ act_printed' = NextSlot(slot)
    /\ slot' = NextSlot(slot)
    /\ rpc' = "copy"
    /\ UNCHANGED <<act_written, msgs, sem, wlocal, to, half, timedout, printed,
                   gets, got, dropped>>

(* Line 83 loads act_printed again; the compiler may use the value stored. *)
ReadFirstHalf ==
    /\ rpc = "copy"
    /\ slot' \in {slot, act_printed}
    /\ half' = msgs[slot']
    /\ rpc' = "copying"
    /\ UNCHANGED <<ring, wlocal, to, timedout, printed, gets, got, dropped>>

ReadSecondHalf ==
    /\ rpc = "copying"
    /\ got' = Append(got, IF msgs[slot] = half THEN half ELSE Torn)
    /\ ForgetReader
    /\ UNCHANGED <<ring, wlocal, printed, gets, dropped>>

Unavailable ==
    /\ rpc = "unavailable"
    /\ ForgetReader
    /\ UNCHANGED <<ring, wlocal, printed, gets, got, dropped>>

(* What follows the first statement of each of the two.                    *)
ReadNext ==
    \/ SemTaken \/ SemTimeout \/ TestMessage \/ LoadPrinted \/ Advance
    \/ ReadFirstHalf \/ ReadSecondHalf \/ Unavailable

PrintNext(w) ==
    \/ TestFull(w) \/ ReloadPrinted(w) \/ DropOldest(w)
    \/ BeginCopy(w) \/ EndCopy(w) \/ Publish(w) \/ PostSem(w)
-----------------------------------------------------------------------------
(* The unread messages, oldest first, and those handed out, with the one   *)
(* whose copy is under way.                                                *)
Unread ==
    [k \in 1 .. ((act_written + max_messages - act_printed) % max_messages) |->
        msgs[(act_printed + k) % max_messages]]
HandedOut ==
    IF rpc \in {"copy", "copying"} THEN Append(got, msgs[slot]) ELSE got

(* A log nobody uses stands for the behaviours with overlapping calls.     *)
Log == INSTANCE BoundedLog
           WITH Messages <- 1 .. MaxSerial, Capacity <- max_messages - 1,
                unread <- IF serial THEN Unread ELSE <<>>,
                got <- IF serial THEN HandedOut ELSE <<>>

(***************************************************************************)
(* When the calls do not overlap, the ring is a bounded log that keeps the *)
(* newest max_messages - 1 messages.                                       *)
(***************************************************************************)
ImplementsLog == Log!Spec

=============================================================================
