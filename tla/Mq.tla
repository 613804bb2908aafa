--------------------------------- MODULE Mq ---------------------------------
(***************************************************************************)
(* The POSIX port of the message queue (posix/mq.c).  The queue itself is  *)
(* the kernel's; libosal translates the open flags and the results, and    *)
(* repeats a timed call that a signal has interrupted.  The threads of     *)
(* one process share the osal_mq_t objects, all opened under one name.     *)
(*                                                                         *)
(* pc[t] is idle; call, about to call mq_(timed)send or mq_(timed)receive; *)
(* sleep, blocked in it; back, it has returned with errno[t]; done, about  *)
(* to return.                                                              *)
(*                                                                         *)
(* Priorities are passed through, and no property depends on them: the     *)
(* kernel may hand out any message, as some choice of priorities would.    *)
(* mq_timed* measure a timeout on CLOCK_REALTIME.  Times are relative to   *)
(* now, so the clock itself needs no bound.                                *)
(***************************************************************************)
EXTENDS Naturals, FiniteSets

CONSTANTS
    Threads,        (* callers                                             *)
    Owners,         (* bound: those of them that open and close objects    *)
    Senders,        (* bound: those of them that send                      *)
    Receivers,      (* bound: those of them that receive                   *)
    Objects,        (* osal_mq_t objects of the process                    *)
    NumFds,         (* descriptors the process may have (RLIMIT_NOFILE)    *)
    OpenFlags,      (* sets of OSAL_MQ_ATTR__OFLAG__* used; {} is attr NULL *)
    MaxMessages,    (* values of attr->max_messages used                   *)
    ClockSources,   (* values of global_clock_id                           *)
    MaxSends,       (* bound: calls that send; the n-th one sends message n *)
    Timeouts        (* bound: timeouts used, relative to the call          *)

Flags == {"RDONLY", "WRONLY", "RDWR", "CREAT", "EXCL"}

ASSUME MqAssumption ==
    /\ Owners \cup Senders \cup Receivers \subseteq Threads
    /\ {NumFds, MaxSends} \subseteq Nat
    /\ OpenFlags \subseteq SUBSET Flags
    /\ \A f \in OpenFlags : ~({"WRONLY", "RDWR"} \subseteq f)
    /\ MaxMessages \subseteq Nat /\ Timeouts \subseteq Nat
    /\ ClockSources \subseteq {"realtime", "monotonic"}

VARIABLES
    exists,     (* the name is known to the kernel                         *)
    cap,        (* mq_maxmsg of the queue                                  *)
    queue,      (* how often each message is in the queue                  *)
    fds,        (* descriptor -> access mode, or "free"                    *)
    mq_desc,    (* object -> descriptor, or NumFds for (mqd_t)-1           *)
    asked,      (* history: the flags of an open object; Closed; or Robbed, *)
                (* another object was closed twice and took its descriptor *)
    clock,      (* global_clock_id                                         *)
    pc, fn,     (* per thread: next statement, function called             *)
    obj, buf,   (* per thread: object used, message in the buffer          *)
    flaw,       (* per thread: argument the kernel refuses: none, size, ts *)
    left,       (* per thread: time until ts on CLOCK_REALTIME             *)
    due,        (* history: time until the timeout on the caller's clock   *)
    errno,      (* per thread: how the kernel's call ended                 *)
    ret,        (* per thread: the result                                  *)
    sent,       (* history: new, calling, OK or failed, per message        *)
    got         (* history: how often each message was handed to a caller  *)

kernel == <<exists, cap, queue, fds>>
objects == <<mq_desc, asked, clock>>
args == <<fn, obj, left, due>>
vars == <<kernel, objects, args, flaw, pc, buf, errno, ret, sent, got>>

Fds == 0 .. NumFds - 1
NoFd == NumFds
Msgs == 1 .. MaxSends
NoMsg == 0
Closed == {"closed"}
Robbed == {"robbed"}
IsOpen(q) == asked[q] \notin {Closed, Robbed}
AnyObject == CHOOSE q \in Objects : TRUE
Sends == {"send", "timedsend"}
Timed(t) == fn[t] \in {"timedsend", "timedreceive"}
Minus1(n) == IF n = 0 THEN 0 ELSE n - 1
-----------------------------------------------------------------------------
Init ==
    /\ exists = FALSE /\ cap = 0 /\ queue = [m \in Msgs |-> 0]
    /\ fds = [d \in Fds |-> "free"]
    /\ mq_desc = [q \in Objects |-> NoFd]
    /\ asked = [q \in Objects |-> Closed]
    /\ clock \in ClockSources
    /\ pc = [t \in Threads |-> "idle"] /\ fn = [t \in Threads |-> "none"]
    /\ obj = [t \in Threads |-> AnyObject]
    /\ buf = [t \in Threads |-> NoMsg] /\ flaw = [t \in Threads |-> "none"]
    /\ left = [t \in Threads |-> 0] /\ due = [t \in Threads |-> 0]
    /\ errno = [t \in Threads |-> "0"] /\ ret = [t \in Threads |-> "OK"]
    /\ sent = [m \in Msgs |-> "new"] /\ got = [m \in Msgs |-> 0]

(* The access bits of oflags: O_RDONLY is 0, so it is also what no flag    *)
(* at all, and RDONLY with another one, mean.                              *)
AccessMode(f) ==
    CASE "RDWR" \in f -> "rw" [] "WRONLY" \in f -> "w" [] OTHER -> "r"

(* The function is done: its result.                                       *)
Done(t, r) ==
    /\ pc' = [pc EXCEPT ![t] = "done"]
    /\ ret' = [ret EXCEPT ![t] = r]

FreeFds == {d \in Fds : fds[d] = "free"}

(* mq_open has failed: mq_desc becomes -1.                                 *)
OpenFailed(t, q, r) ==
    /\ mq_desc' = [mq_desc EXCEPT ![q] = NoFd]
    /\ asked' = [asked EXCEPT ![q] = Closed]
    /\ Done(t, r)
    /\ UNCHANGED kernel

(* osal_mq_open; an object that is open already loses its descriptor,      *)
(* which stays in use.  The kernel gives out the lowest free descriptor.   *)
(* Apart from the checks of name and attributes it may refuse for          *)
(* permissions (EACCES), memory (ENOMEM, ENOSPC), system limits (ENFILE)   *)
(* and other reasons.                                                      *)
Open(t, q, f, max) ==
    /\ t \in Owners /\ pc[t] = "idle"
    /\ \/ \E r \in {"PERMISSION_DENIED", "OUT_OF_MEMORY",
                    "SYSTEM_LIMIT_REACHED", "OPERATION_FAILED"} :
             OpenFailed(t, q, r)
       \/ FreeFds = {} /\ OpenFailed(t, q, "SYSTEM_LIMIT_REACHED")
       \/ exists /\ {"CREAT", "EXCL"} \subseteq f
          /\ OpenFailed(t, q, "PERMISSION_DENIED")
       \/ ~exists /\ "CREAT" \notin f /\ OpenFailed(t, q, "NOT_FOUND")
       \/ ~exists /\ "CREAT" \in f /\ max = 0
          /\ OpenFailed(t, q, "INVALID_PARAM")
       \/ /\ FreeFds # {}
          /\ \/ exists /\ ~({"CREAT", "EXCL"} \subseteq f)
                /\ UNCHANGED cap
             \/ ~exists /\ "CREAT" \in f /\ max > 0 /\ cap' = max
          /\ exists' = TRUE
          /\ LET d == CHOOSE x \in FreeFds : \A y \in FreeFds : x <= y
             IN  /\ fds' = [fds EXCEPT ![d] = AccessMode(f)]
                 /\ mq_desc' = [mq_desc EXCEPT ![q] = d]
          /\ asked' = [asked EXCEPT ![q] = f]
          /\ Done(t, "OK")
          /\ UNCHANGED queue
    /\ UNCHANGED <<clock, args, flaw, buf, errno, sent, got>>

(* Mutant: the first descriptor in use is closed.                          *)
CloseFirst(t, q) ==
    /\ t \in Owners /\ pc[t] = "idle" /\ FreeFds # Fds
    /\ fds' = [fds EXCEPT ![CHOOSE d \in Fds \ FreeFds : TRUE] = "free"]
    /\ asked' = [asked EXCEPT ![q] = Closed]
    /\ Done(t, "OK")
    /\ UNCHANGED <<exists, cap, queue, mq_desc, clock, args, flaw, buf, errno,
                   sent, got>>

(* osal_mq_close: a descriptor that is not in use is EBADF.  mq_desc keeps *)
(* the number, which the next open may give to another object: that one    *)
(* loses it when q is closed once more.                                    *)
Close(t, q) ==
    /\ t \in Owners /\ pc[t] = "idle"
    /\ LET d == mq_desc[q]
       IN  \/ /\ d \in FreeFds \cup {NoFd}
              /\ Done(t, "INVALID_PARAM")
              /\ UNCHANGED fds
           \/ /\ d \in Fds \ FreeFds
              /\ Done(t, "OK")
              /\ fds' = [fds EXCEPT ![d] = "free"]
    /\ asked' = [r \in Objects |->
                    IF r = q THEN Closed
                    ELSE IF IsOpen(r) /\ ~IsOpen(q) /\ mq_desc[r] = mq_desc[q]
                         THEN Robbed ELSE asked[r]]
    /\ UNCHANGED <<exists, cap, queue, mq_desc, clock, args, flaw, buf, errno,
                   sent, got>>

(* Entry of osal_mq_send, _receive and their timed forms, n being the      *)
(* time until the timeout: ts is the timer as it is, but a timer of the    *)
(* monotonic clock lies in the past of CLOCK_REALTIME.                     *)
Enter(t, q, f, n) ==
    /\ pc[t] = "idle"
    /\ pc' = [pc EXCEPT ![t] = "call"]
    /\ fn' = [fn EXCEPT ![t] = f]
    /\ obj' = [obj EXCEPT ![t] = q]
    /\ \E w \in {"none", "size"} \cup
                (IF f \in {"timedsend", "timedreceive"} THEN {"ts"} ELSE {}) :
          flaw' = [flaw EXCEPT ![t] = w]
    /\ due' = [due EXCEPT ![t] = n]
    /\ left' = [left EXCEPT ![t] = IF clock = "realtime" THEN n ELSE 0]
    /\ UNCHANGED <<kernel, objects, errno, ret, got>>

(* The buffer holds a message nobody has sent before.                      *)
FillBuffer(t) ==
    \E m \in Msgs :
        /\ sent[m] = "new" /\ \A k \in 1 .. m - 1 : sent[k] # "new"
        /\ sent' = [sent EXCEPT ![m] = "calling"]
        /\ buf' = [buf EXCEPT ![t] = m]

Send(t, q) ==
    /\ t \in Senders
    /\ Enter(t, q, "send", 0)
    /\ FillBuffer(t)

Timedsend(t, q, n) ==
    /\ t \in Senders
    /\ Enter(t, q, "timedsend", n)
    /\ FillBuffer(t)

Receive(t, q) ==
    /\ t \in Receivers
    /\ Enter(t, q, "receive", 0)
    /\ UNCHANGED <<buf, sent>>

Timedreceive(t, q, n) ==
    /\ t \in Receivers
    /\ Enter(t, q, "timedreceive", n)
    /\ UNCHANGED <<buf, sent>>
-----------------------------------------------------------------------------
(* The kernel's part of a call.                                            *)
Back(t, e) ==
    /\ pc' = [pc EXCEPT ![t] = "back"]
    /\ errno' = [errno EXCEPT ![t] = e]
    /\ flaw' = [flaw EXCEPT ![t] = "none"]

Queued(m) == queue[m] > 0
Total == Cardinality({m \in Msgs : Queued(m)})
Full == Total >= cap
Empty == ~\E m \in Msgs : Queued(m)
Blocks(t) == IF fn[t] \in Sends THEN Full ELSE Empty

Mode(t) == IF mq_desc[obj[t]] = NoFd THEN "free" ELSE fds[mq_desc[obj[t]]]
BadFd(t) == Mode(t) \notin (IF fn[t] \in Sends THEN {"w", "rw"}
                                               ELSE {"r", "rw"})

(* The message moves between the buffer and the queue.                     *)
Transfer(t) ==
    /\ ~Blocks(t)
    /\ \/ fn[t] \in Sends /\ queue' = [queue EXCEPT ![buf[t]] = @ + 1]
          /\ UNCHANGED buf
       \/ fn[t] \notin Sends
          /\ \E m \in {x \in Msgs : Queued(x)} :
                /\ queue' = [queue EXCEPT ![m] = @ - 1]
                /\ buf' = [buf EXCEPT ![t] = m]
    /\ Back(t, "0")
    /\ UNCHANGED <<exists, cap, fds, objects, args, ret, sent, got>>

(* mq_send, mq_timedsend, mq_receive, mq_timedreceive up to the point      *)
(* where they block.  Whether a malformed time is noticed by a call that   *)
(* need not block is up to the system.                                     *)
Refuse(t) ==
    \/ BadFd(t) /\ Back(t, "EBADF")
    \/ ~BadFd(t) /\ flaw[t] = "size" /\ Back(t, "EMSGSIZE")
    \/ ~BadFd(t) /\ flaw[t] = "ts" /\ Back(t, "EINVAL")

Block(t) ==
    /\ Blocks(t)
    /\ \/ Timed(t) /\ left[t] = 0 /\ Back(t, "ETIMEDOUT")
       \/ (Timed(t) => left[t] > 0) /\ pc' = [pc EXCEPT ![t] = "sleep"]
          /\ UNCHANGED <<errno, flaw>>

SysCall(t) ==
    /\ pc[t] = "call"
    /\ \/ Refuse(t) /\ UNCHANGED <<queue, buf>>
       \/ ~BadFd(t) /\ flaw[t] # "size" /\ Transfer(t)
       \/ ~BadFd(t) /\ flaw[t] = "none" /\ Block(t) /\ UNCHANGED <<queue, buf>>
    /\ UNCHANGED <<exists, cap, fds, objects, args, ret, sent, got>>

(* A sleeper goes on once there is room, or a message.                     *)
Wake(t) == pc[t] = "sleep" /\ Transfer(t)

Expire(t) ==
    /\ pc[t] = "sleep" /\ Timed(t) /\ left[t] = 0
    /\ Back(t, "ETIMEDOUT")
    /\ UNCHANGED <<kernel, objects, args, buf, ret, sent, got>>

(* A signal handler has run.                                               *)
Signal(t) ==
    /\ pc[t] = "sleep"
    /\ Back(t, "EINTR")
    /\ UNCHANGED <<kernel, objects, args, buf, ret, sent, got>>

Result(e) ==
    CASE e = "0" -> "OK"
      [] e \in {"EBADF", "EINVAL", "EMSGSIZE"} -> "INVALID_PARAM"
      [] e = "EINTR" -> "INTERRUPTED"
      [] e = "ETIMEDOUT" -> "TIMEOUT"

(* The call is over: what its caller learns.                               *)
Finish(t, r) ==
    /\ Done(t, r)
    /\ IF fn[t] \in Sends
       THEN /\ sent' = [sent EXCEPT ![buf[t]] =
                           IF r = "OK" THEN "OK" ELSE "failed"]
            /\ UNCHANGED got
       ELSE /\ got' = IF r = "OK" THEN [got EXCEPT ![buf[t]] = @ + 1] ELSE got
            /\ UNCHANGED sent
    /\ buf' = [buf EXCEPT ![t] = NoMsg]
    /\ obj' = [obj EXCEPT ![t] = AnyObject]
    /\ left' = [left EXCEPT ![t] = 0]
    /\ errno' = [errno EXCEPT ![t] = "0"]
    /\ UNCHANGED <<kernel, objects, fn, due, flaw>>

(* Mutant: an interrupted timed call counts as a success.                  *)
TranslateInterruptedOk(t) ==
    /\ pc[t] = "back"
    /\ Finish(t, IF Timed(t) /\ errno[t] = "EINTR" THEN "OK"
                                                   ELSE Result(errno[t]))

(* Mutant: an interrupted timed call counts as timed out.                  *)
TranslateInterruptedTimeout(t) ==
    /\ pc[t] = "back"
    /\ Finish(t, IF Timed(t) /\ errno[t] = "EINTR" THEN "TIMEOUT"
                                                   ELSE Result(errno[t]))

(* Mutant: the retry starts with a full timeout.                           *)
TranslateAgainFromStart(t) ==
    /\ pc[t] = "back"
    /\ \/ Timed(t) /\ errno[t] = "EINTR"
          /\ pc' = [pc EXCEPT ![t] = "call"]
          /\ left' = [left EXCEPT ![t] = 1]
          /\ errno' = [errno EXCEPT ![t] = "0"]
          /\ UNCHANGED <<kernel, objects, fn, obj, due, flaw, buf, ret, sent,
                         got>>
       \/ ~(Timed(t) /\ errno[t] = "EINTR") /\ Finish(t, Result(errno[t]))

(* The switch over errno, and the loop of the timed calls, which repeats   *)
(* the call with the same time as long as it is interrupted.               *)
Translate(t) ==
    /\ pc[t] = "back"
    /\ \/ Timed(t) /\ errno[t] = "EINTR"
          /\ pc' = [pc EXCEPT ![t] = "call"]
          /\ errno' = [errno EXCEPT ![t] = "0"]
          /\ UNCHANGED <<kernel, objects, args, flaw, buf, ret, sent, got>>
       \/ ~(Timed(t) /\ errno[t] = "EINTR") /\ Finish(t, Result(errno[t]))

Return(t) ==
    /\ pc[t] = "done"
    /\ pc' = [pc EXCEPT ![t] = "idle"]
    /\ fn' = [fn EXCEPT ![t] = "none"]
    /\ due' = [due EXCEPT ![t] = 0]
    /\ ret' = [ret EXCEPT ![t] = "OK"]
    /\ UNCHANGED <<kernel, objects, obj, left, flaw, buf, errno, sent, got>>

Tick ==
    /\ \E t \in Threads : left[t] > 0 \/ due[t] > 0
    /\ left' = [t \in Threads |-> Minus1(left[t])]
    /\ due' = [t \in Threads |-> Minus1(due[t])]
    /\ UNCHANGED <<kernel, objects, fn, obj, flaw, pc, buf, errno, ret, sent,
                   got>>

(* The steps a thread inside a call takes without anybody's help.          *)
Step(t) == SysCall(t) \/ Expire(t) \/ Translate(t) \/ Return(t)

Next ==
    \/ \E t \in Threads : Step(t) \/ Wake(t) \/ Signal(t)
    \/ \E t \in Threads, q \in Objects :
          \/ \E f \in OpenFlags, max \in MaxMessages : Open(t, q, f, max)
          \/ Close(t, q)
          \/ Send(t, q) \/ Receive(t, q)
          \/ \E n \in Timeouts : Timedsend(t, q, n) \/ Timedreceive(t, q, n)
    \/ Tick

Spec == Init /\ [][Next]_vars

(* Threads keep running and time passes.  Nobody is assumed to send or to  *)
(* receive, and signals may come for ever.                                 *)
Fairness == WF_vars(Tick) /\ \A t \in Threads : WF_vars(Step(t))
FairSpec == Spec /\ Fairness
-----------------------------------------------------------------------------
(***************************************************************************)
(* A message whose osal_mq_send or osal_mq_timedsend has reported success  *)
(* is exactly once in the queue, in the buffer of a call about to report   *)
(* it, or with a receiver; one whose send has failed, for whatever reason  *)
(* and after however many interruptions, is nowhere.                       *)
(***************************************************************************)
Copies(m) ==
    queue[m] + got[m]
      + Cardinality({t \in Threads : /\ pc[t] = "back" /\ errno[t] = "0"
                                     /\ fn[t] \notin Sends /\ buf[t] = m})

ExactlyOnce ==
    \A m \in Msgs :
        /\ sent[m] = "OK" => Copies(m) = 1
        /\ sent[m] = "calling" => Copies(m) <= 1
        /\ sent[m] \in {"new", "failed"} => Copies(m) = 0

(***************************************************************************)
(* A timed call reports OSAL_ERR_TIMEOUT only when its timeout is reached, *)
(* as long as the library's clock source is CLOCK_REALTIME.                *)
(***************************************************************************)
TimeoutNotEarly ==
    \A t \in Threads : clock = "realtime" /\ ret[t] = "TIMEOUT" => due[t] = 0

(***************************************************************************)
(* Timed sends and receives end although nobody receives or sends and      *)
(* signals keep interrupting them: the retry keeps the deadline.           *)
(***************************************************************************)
TimedCallsEnd == \A t \in Threads : Timed(t) ~> ~Timed(t)

(***************************************************************************)
(* An object that is open is never refused as a bad descriptor for what    *)
(* its OSAL_MQ_ATTR__OFLAG__* flags asked for: the flags survive their     *)
(* translation, and no close of another object that is open, or reuse of   *)
(* its descriptor after that, takes an open object's descriptor away.  A   *)
(* second close of an object may do so: what it robs is no longer counted  *)
(* as open.                                                                *)
(***************************************************************************)
MaySend(q) == IsOpen(q) /\ {"WRONLY", "RDWR"} \cap asked[q] # {}
MayReceive(q) == IsOpen(q) /\ "WRONLY" \notin asked[q]

AccessAsAsked ==
    [][\A t \in Threads :
         errno[t] # "EBADF" /\ errno'[t] = "EBADF" =>
             ~(IF fn[t] \in Sends THEN MaySend(obj[t])
                                  ELSE MayReceive(obj[t]))]_vars
=============================================================================
