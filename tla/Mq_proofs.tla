------------------------------ MODULE Mq_proofs ------------------------------
(***************************************************************************)
(* Machine-checked proofs about Mq, for any number of threads, objects,    *)
(* descriptors and messages, any flags and any timeouts.                   *)
(***************************************************************************)
EXTENDS Mq, FiniteSetTheorems, WellFoundedInduction, TLAPS

Errnos == {"0", "EBADF", "EINVAL", "EMSGSIZE", "EINTR", "ETIMEDOUT"}
Fns == {"none", "send", "timedsend", "receive", "timedreceive"}

TypeOK ==
    /\ queue \in [Msgs -> Nat] /\ got \in [Msgs -> Nat]
    /\ sent \in [Msgs -> {"new", "calling", "OK", "failed"}]
    /\ pc \in [Threads -> {"idle", "call", "sleep", "back", "done"}]
    /\ fn \in [Threads -> Fns]
    /\ obj \in [Threads -> Objects \cup {AnyObject}]
    /\ buf \in [Threads -> Msgs \cup {NoMsg}]
    /\ flaw \in [Threads -> {"none", "size", "ts"}]
    /\ left \in [Threads -> Nat] /\ due \in [Threads -> Nat]
    /\ errno \in [Threads -> Errnos]
    /\ DOMAIN ret = Threads

(***************************************************************************)
(* Where a message is.  A thread that sends m has it in its buffer until   *)
(* the call is over; a receiver holds m between the kernel's call and the  *)
(* return.                                                                 *)
(***************************************************************************)
Inside(t) == pc[t] \in {"call", "sleep", "back"}
InSend(t) == Inside(t) /\ fn[t] \in Sends
Sending(t, m) == InSend(t) /\ buf[t] = m
Succeeded(t) == pc[t] = "back" /\ errno[t] = "0"
Holding(t, m) == Succeeded(t) /\ fn[t] \notin Sends /\ buf[t] = m
Held(m) == \E t \in Threads : Holding(t, m)
Somewhere(m) == queue[m] = 1 \/ got[m] = 1 \/ Held(m)

(* One thread at most sends a message, and it has not been told yet.       *)
OneSender ==
    /\ \A t \in Threads :
          InSend(t) => buf[t] \in Msgs /\ sent[buf[t]] = "calling"
    /\ \A t, u \in Threads : \A m \in Msgs :
          Sending(t, m) /\ Sending(u, m) => t = u

(* A message is at one place at most.                                      *)
OnePlace ==
    /\ \A t \in Threads : Succeeded(t) => buf[t] \in Msgs
    /\ \A t, u \in Threads : \A m \in Msgs :
          Holding(t, m) /\ Holding(u, m) => t = u
    /\ \A m \in Msgs :
          /\ queue[m] \in {0, 1} /\ got[m] \in {0, 1}
          /\ ~(queue[m] = 1 /\ got[m] = 1)
          /\ Held(m) => queue[m] = 0 /\ got[m] = 0

(* It is somewhere exactly from the kernel's success on.                   *)
Arrived ==
    /\ \A m \in Msgs :
          /\ sent[m] = "OK" => Somewhere(m)
          /\ sent[m] \in {"new", "failed"} => ~Somewhere(m)
    /\ \A t \in Threads : \A m \in Msgs :
          Sending(t, m) => (Somewhere(m) <=> Succeeded(t))

(***************************************************************************)
(* The time until ts is the time until the timeout; ETIMEDOUT and          *)
(* OSAL_ERR_TIMEOUT are about the past.                                    *)
(***************************************************************************)
Deadline ==
    \A t \in Threads :
        /\ errno[t] = "ETIMEDOUT" => pc[t] = "back" /\ left[t] = 0
        /\ ret[t] = "TIMEOUT" => pc[t] = "done"
        /\ clock = "realtime" =>
             /\ Inside(t) => due[t] = left[t]
             /\ ret[t] = "TIMEOUT" => due[t] = 0

(***************************************************************************)
(* Every open object has a descriptor of its own, with the access its      *)
(* flags ask for; one that was robbed of it does not count as open.        *)
(***************************************************************************)
Descriptors ==
    /\ DOMAIN fds = Fds /\ DOMAIN mq_desc = Objects
    /\ DOMAIN asked = Objects
    /\ \A q \in Objects : IsOpen(q) =>
          mq_desc[q] \in Fds /\ fds[mq_desc[q]] = AccessMode(asked[q])
    /\ \A q, r \in Objects :
          IsOpen(q) /\ IsOpen(r) /\ mq_desc[q] = mq_desc[r] => q = r
    /\ \A t \in Threads : Inside(t) => obj[t] \in Objects

MqInv ==
    /\ TypeOK /\ OneSender /\ OnePlace /\ Arrived /\ Deadline /\ Descriptors

(* The results of the translation that matter.                             *)
LEMMA ResultIs ==
    \A e \in Errnos : /\ Result(e) = "OK" <=> e = "0"
                      /\ Result(e) = "TIMEOUT" <=> e = "ETIMEDOUT"
  BY DEF Errnos, Result

(* A set of natural numbers that is not empty has a least element.         *)
LEMMA LowestFree ==
    ASSUME NEW S, S \subseteq Nat, S # {}
    PROVE  (CHOOSE x \in S : \A y \in S : x <= y) \in S
<1>1. PICK x \in S : \A y \in S : ~(<<y, x>> \in OpToRel(<, Nat))
  BY NatLessThanWellFounded, WFMin
<1>2. \A y \in S : x <= y
  <2> SUFFICES ASSUME NEW y \in S PROVE ~(y < x)
    OBVIOUS
  <2>1. ~(<<y, x>> \in OpToRel(<, Nat))
    BY <1>1
  <2> QED
    BY <2>1 DEF OpToRel
<1> QED
  BY <1>2

LEMMA TypeStep == TypeOK /\ [Next]_vars => TypeOK'
<1> SUFFICES ASSUME TypeOK, [Next]_vars PROVE TypeOK'
  OBVIOUS
<1> USE MqAssumption
    DEF TypeOK, Errnos, Fns, Done, Back, kernel, objects, args
<1>1. ASSUME NEW t \in Threads, NEW q \in Objects, NEW f \in OpenFlags,
             NEW max \in MaxMessages, Open(t, q, f, max)
      PROVE  TypeOK'
  BY <1>1 DEF Open, OpenFailed
<1>2. ASSUME NEW t \in Threads, NEW q \in Objects, Close(t, q)
      PROVE  TypeOK'
  BY <1>2 DEF Close
<1>3. ASSUME NEW t \in Threads, NEW q \in Objects, NEW n \in Nat,
             NEW f \in Fns, Enter(t, q, f, n),
             FillBuffer(t) \/ UNCHANGED <<buf, sent>>
      PROVE  TypeOK'
  <2>1. sent' \in [Msgs -> {"new", "calling", "OK", "failed"}]
        /\ buf' \in [Threads -> Msgs \cup {NoMsg}]
    BY <1>3 DEF FillBuffer
  <2>2. flaw' \in [Threads -> {"none", "size", "ts"}]
    <3>1. PICK w \in {"none", "size"} \cup
                    (IF f \in {"timedsend", "timedreceive"} THEN {"ts"}
                                                          ELSE {}) :
             flaw' = [flaw EXCEPT ![t] = w]
      BY <1>3 DEF Enter
    <3>2. w \in {"none", "size", "ts"}
      OBVIOUS
    <3> QED
      BY <3>1, <3>2
  <2> QED
    BY <1>3, <2>1, <2>2 DEF Enter
<1>4. ASSUME NEW t \in Threads, SysCall(t) PROVE TypeOK'
  BY <1>4 DEF SysCall, Refuse, Transfer, Block, Queued
<1>5. ASSUME NEW t \in Threads, Wake(t) PROVE TypeOK'
  BY <1>5 DEF Wake, Transfer, Queued
<1>6. ASSUME NEW t \in Threads, Expire(t) \/ Signal(t) PROVE TypeOK'
  BY <1>6 DEF Expire, Signal
<1>7. ASSUME NEW t \in Threads, Translate(t) PROVE TypeOK'
  BY <1>7 DEF Translate, Finish
<1>8. ASSUME NEW t \in Threads, Return(t) PROVE TypeOK'
  BY <1>8 DEF Return
<1>9. CASE Tick
  BY <1>9 DEF Tick, Minus1
<1>10. CASE UNCHANGED vars
  BY <1>10 DEF vars
<1> QED
  BY <1>1, <1>2, <1>3, <1>4, <1>5, <1>6, <1>7, <1>8, <1>9, <1>10
     DEF Next, Step, Send, Timedsend, Receive, Timedreceive

(* The invariant of the messages.                                          *)
Delivery == OneSender /\ OnePlace /\ Arrived

(* Steps that leave the messages where they are.                           *)
Quiet ==
    /\ UNCHANGED <<queue, got, sent>>
    /\ \A u \in Threads :
          /\ InSend(u)' <=> InSend(u)
          /\ Succeeded(u)' <=> Succeeded(u)
          /\ InSend(u) \/ Succeeded(u) =>
                buf'[u] = buf[u] /\ (fn'[u] \in Sends <=> fn[u] \in Sends)

LEMMA QuietKeeps == TypeOK /\ Delivery /\ Quiet => Delivery'
<1> SUFFICES ASSUME TypeOK, Delivery, Quiet PROVE Delivery'
  OBVIOUS
<1>1. \A u \in Threads, m \in Msgs : /\ Sending(u, m)' <=> Sending(u, m)
                                     /\ Holding(u, m)' <=> Holding(u, m)
  BY DEF Quiet, Sending, Holding
<1>2. \A m \in Msgs : /\ Held(m)' <=> Held(m)
                      /\ Somewhere(m)' <=> Somewhere(m)
  BY <1>1 DEF Quiet, Held, Somewhere
<1>3. OneSender'
  BY <1>1 DEF Delivery, OneSender, Quiet
<1>4. OnePlace'
  BY <1>1, <1>2 DEF Delivery, OnePlace, Quiet
<1>5. Arrived'
  BY <1>1, <1>2 DEF Delivery, Arrived, Quiet
<1> QED
  BY <1>3, <1>4, <1>5 DEF Delivery

(***************************************************************************)
(* The kernel's success: the message of a sender, which was nowhere, is in *)
(* the queue; one of the queue is in a receiver's buffer.                  *)
(***************************************************************************)
LEMMA TransferKeeps ==
    ASSUME TypeOK, Delivery, NEW t \in Threads, pc[t] \in {"call", "sleep"},
           Transfer(t)
    PROVE  Delivery'
<1>1. /\ UNCHANGED <<fn, got, sent>>
      /\ pc' = [pc EXCEPT ![t] = "back"]
      /\ errno' = [errno EXCEPT ![t] = "0"]
  BY DEF Transfer, Back, args
<1>2. \A u \in Threads : /\ InSend(u)' <=> InSend(u)
                         /\ Succeeded(u)' <=> u = t \/ Succeeded(u)
  BY <1>1 DEF TypeOK, InSend, Inside, Succeeded
<1>3. ~Succeeded(t)
  BY DEF Succeeded
<1>4. CASE fn[t] \in Sends
  <2> DEFINE m == buf[t]
  <2>1. InSend(t) /\ Sending(t, m)
    BY <1>4 DEF InSend, Inside, Sending
  <2>2. m \in Msgs /\ sent[m] = "calling" /\ ~Somewhere(m)
    BY <1>3, <2>1 DEF Delivery, OneSender, Arrived
  <2>3. UNCHANGED buf /\ queue' = [queue EXCEPT ![m] = 1]
    <3>1. UNCHANGED buf /\ queue' = [queue EXCEPT ![m] = @ + 1]
      BY <1>4 DEF Transfer
    <3>2. queue[m] = 0
      BY <2>2 DEF Delivery, OnePlace, Somewhere
    <3> QED
      BY <3>1, <3>2
  <2> HIDE DEF m
  <2>4. \A u \in Threads, x \in Msgs : /\ Sending(u, x)' <=> Sending(u, x)
                                       /\ Holding(u, x)' <=> Holding(u, x)
    BY <1>1, <1>2, <1>4, <2>3 DEF Sending, Holding
  <2>5. \A x \in Msgs : /\ Held(x)' <=> Held(x)
                        /\ Somewhere(x)' <=> x = m \/ Somewhere(x)
    BY <1>1, <2>2, <2>3, <2>4 DEF TypeOK, Held, Somewhere
  <2>6. OneSender'
    BY <1>1, <1>2, <2>3, <2>4 DEF Delivery, OneSender
  <2>7. OnePlace'
    <3>1. \A u \in Threads : Succeeded(u)' => buf'[u] \in Msgs
      BY <1>2, <2>2, <2>3 DEF Delivery, OnePlace, m
    <3>2. \A x \in Msgs :
             /\ queue'[x] \in {0, 1} /\ got'[x] \in {0, 1}
             /\ ~(queue'[x] = 1 /\ got'[x] = 1)
             /\ Held(x)' => queue'[x] = 0 /\ got'[x] = 0
      BY <1>1, <2>2, <2>3, <2>5 DEF TypeOK, Delivery, OnePlace, Somewhere
    <3> QED
      BY <2>4, <3>1, <3>2 DEF Delivery, OnePlace
  <2>8. Arrived'
    <3>1. \A u \in Threads : Sending(u, m) <=> u = t
      BY <2>1, <2>2 DEF Delivery, OneSender
    <3>2. \A u \in Threads, x \in Msgs :
             Sending(u, x)' => (Somewhere(x)' <=> Succeeded(u)')
      BY <1>2, <2>1, <2>4, <2>5, <3>1 DEF Delivery, Arrived, Sending
    <3> QED
      BY <1>1, <2>2, <2>5, <3>2 DEF Delivery, Arrived
  <2> QED
    BY <2>6, <2>7, <2>8 DEF Delivery
<1>5. CASE fn[t] \notin Sends
  <2>1. PICK m \in {x \in Msgs : Queued(x)} :
           /\ queue' = [queue EXCEPT ![m] = @ - 1]
           /\ buf' = [buf EXCEPT ![t] = m]
    BY <1>5 DEF Transfer
  <2>2. m \in Msgs /\ queue[m] = 1 /\ got[m] = 0 /\ ~Held(m)
    BY DEF Queued, Delivery, OnePlace
  <2>3. queue' = [queue EXCEPT ![m] = 0]
    BY <2>1, <2>2
  <2>4. ~InSend(t)
    BY <1>5 DEF InSend
  <2>5. \A u \in Threads, x \in Msgs :
           /\ Sending(u, x)' <=> Sending(u, x)
           /\ Holding(u, x)' <=> (u = t /\ x = m) \/ Holding(u, x)
    BY <1>1, <1>2, <1>3, <1>5, <2>1, <2>4 DEF TypeOK, Sending, Holding
  <2>6. \A x \in Msgs : /\ Held(x)' <=> x = m \/ Held(x)
                        /\ Somewhere(x)' <=> Somewhere(x)
    BY <1>1, <2>2, <2>3, <2>5 DEF TypeOK, Held, Somewhere
  <2>7. OneSender'
    BY <1>1, <1>2, <2>1, <2>4, <2>5 DEF TypeOK, Delivery, OneSender
  <2>8. OnePlace'
    <3>1. \A u \in Threads : Succeeded(u)' => buf'[u] \in Msgs
      BY <1>2, <2>1, <2>2 DEF TypeOK, Delivery, OnePlace
    <3>2. \A u \in Threads : ~Holding(u, m)
      BY <2>2 DEF Held
    <3>3. \A u, v \in Threads : \A x \in Msgs :
             Holding(u, x)' /\ Holding(v, x)' => u = v
      BY <2>5, <3>2 DEF Delivery, OnePlace
    <3>4. \A x \in Msgs :
             /\ queue'[x] \in {0, 1} /\ got'[x] \in {0, 1}
             /\ ~(queue'[x] = 1 /\ got'[x] = 1)
             /\ Held(x)' => queue'[x] = 0 /\ got'[x] = 0
      BY <1>1, <2>2, <2>3, <2>6 DEF TypeOK, Delivery, OnePlace
    <3> QED
      BY <3>1, <3>3, <3>4 DEF OnePlace
  <2>9. Arrived'
    BY <1>1, <1>2, <2>4, <2>5, <2>6 DEF Delivery, Arrived, Sending
  <2> QED
    BY <2>7, <2>8, <2>9 DEF Delivery
<1> QED
  BY <1>4, <1>5

(* The caller learns how the call ended; a received message is its own.    *)
LEMMA FinishKeeps ==
    ASSUME TypeOK, Delivery, NEW t \in Threads, pc[t] = "back",
           Finish(t, Result(errno[t]))
    PROVE  Delivery'
<1> DEFINE m == buf[t]
           ok == Result(errno[t]) = "OK"
<1>1. /\ UNCHANGED <<queue, fn>>
      /\ pc' = [pc EXCEPT ![t] = "done"]
      /\ buf' = [buf EXCEPT ![t] = NoMsg]
      /\ errno' = [errno EXCEPT ![t] = "0"]
  BY DEF Finish, Done, kernel
<1>2. ok <=> Succeeded(t)
  BY ResultIs DEF TypeOK, Succeeded
<1>3. \A u \in Threads : /\ InSend(u)' <=> u # t /\ InSend(u)
                         /\ Succeeded(u)' <=> u # t /\ Succeeded(u)
  BY <1>1 DEF TypeOK, InSend, Inside, Succeeded
<1>4. \A u \in Threads, x \in Msgs :
         /\ Sending(u, x)' <=> u # t /\ Sending(u, x)
         /\ Holding(u, x)' <=> u # t /\ Holding(u, x)
  BY <1>1, <1>3 DEF TypeOK, Sending, Holding
<1>5. CASE fn[t] \in Sends
  <2>1. UNCHANGED got
        /\ sent' = [sent EXCEPT ![m] = IF ok THEN "OK" ELSE "failed"]
    BY <1>5 DEF Finish
  <2>2. InSend(t) /\ Sending(t, m) /\ m \in Msgs
    BY <1>5 DEF InSend, Inside, Sending, Delivery, OneSender
  <2> HIDE DEF m, ok
  <2>3. \A u \in Threads : Sending(u, m) => u = t
    BY <2>2 DEF Delivery, OneSender
  <2>4. \A x \in Msgs : ~Holding(t, x)
    BY <1>5 DEF Holding
  <2>5. \A x \in Msgs : /\ Held(x)' <=> Held(x)
                        /\ Somewhere(x)' <=> Somewhere(x)
    BY <1>1, <1>4, <2>1, <2>4 DEF Held, Somewhere
  <2>6. OneSender'
    <3>1. ASSUME NEW u \in Threads, InSend(u)'
          PROVE  buf'[u] \in Msgs /\ sent'[buf'[u]] = "calling"
      <4>1. u # t /\ InSend(u) /\ buf'[u] = buf[u]
        BY <1>1, <1>3, <3>1 DEF TypeOK
      <4>2. buf[u] \in Msgs /\ sent[buf[u]] = "calling" /\ buf[u] # m
        BY <2>3, <4>1 DEF Delivery, OneSender, Sending
      <4> QED
        BY <2>1, <2>2, <4>1, <4>2 DEF TypeOK
    <3> QED
      BY <1>4, <3>1 DEF Delivery, OneSender
  <2>7. OnePlace'
    <3>1. \A u \in Threads : Succeeded(u)' => buf'[u] \in Msgs
      BY <1>1, <1>3 DEF TypeOK, Delivery, OnePlace
    <3> QED
      BY <1>1, <1>4, <2>1, <2>5, <3>1 DEF Delivery, OnePlace
  <2>8. Arrived'
    <3>1. Somewhere(m) <=> ok
      BY <1>2, <2>2 DEF Delivery, Arrived
    <3>2. \A x \in Msgs : /\ sent'[x] = "OK" => Somewhere(x)'
                          /\ sent'[x] \in {"new", "failed"} => ~Somewhere(x)'
      BY <2>1, <2>2, <2>5, <3>1 DEF TypeOK, Delivery, Arrived
    <3> QED
      BY <1>3, <1>4, <2>5, <3>2 DEF Delivery, Arrived
  <2> QED
    BY <2>6, <2>7, <2>8 DEF Delivery
<1>6. CASE fn[t] \notin Sends /\ ok
  <2>1. Succeeded(t) /\ Holding(t, m) /\ m \in Msgs
    BY <1>2, <1>6 DEF Holding, Delivery, OnePlace
  <2>2. queue[m] = 0 /\ got[m] = 0
    BY <2>1 DEF Delivery, OnePlace, Held
  <2>3. UNCHANGED sent /\ got' = [got EXCEPT ![m] = 1]
    <3>1. UNCHANGED sent /\ got' = [got EXCEPT ![m] = @ + 1]
      BY <1>6 DEF Finish
    <3> QED
      BY <2>2, <3>1
  <2> HIDE DEF m, ok
  <2>4. \A u \in Threads : Holding(u, m) => u = t
    BY <2>1 DEF Delivery, OnePlace
  <2>5. \A x \in Msgs : x # m => ~Holding(t, x)
    BY DEF Holding, m
  <2>6. \A x \in Msgs : /\ Held(x)' <=> x # m /\ Held(x)
                        /\ Somewhere(x)' <=> Somewhere(x)
    <3>1. \A x \in Msgs : Held(x)' <=> x # m /\ Held(x)
      BY <1>4, <2>1, <2>4, <2>5 DEF Held
    <3> QED
      BY <1>1, <2>1, <2>3, <3>1 DEF TypeOK, Held, Somewhere
  <2>7. \A x \in Msgs : ~Sending(t, x)
    BY <1>6 DEF Sending, InSend
  <2>8. OneSender'
    BY <1>1, <1>3, <1>4, <2>3 DEF TypeOK, Delivery, OneSender
  <2>9. OnePlace'
    <3>1. \A u \in Threads : Succeeded(u)' => buf'[u] \in Msgs
      BY <1>1, <1>3 DEF TypeOK, Delivery, OnePlace
    <3>2. \A x \in Msgs :
             /\ queue'[x] \in {0, 1} /\ got'[x] \in {0, 1}
             /\ ~(queue'[x] = 1 /\ got'[x] = 1)
             /\ Held(x)' => queue'[x] = 0 /\ got'[x] = 0
      BY <1>1, <2>1, <2>2, <2>3, <2>6 DEF TypeOK, Delivery, OnePlace
    <3> QED
      BY <1>4, <3>1, <3>2 DEF Delivery, OnePlace
  <2>10. Arrived'
    BY <1>3, <1>4, <2>3, <2>6 DEF Delivery, Arrived
  <2> QED
    BY <2>8, <2>9, <2>10 DEF Delivery
<1>7. CASE fn[t] \notin Sends /\ ~ok
  <2>1. UNCHANGED <<sent, got>>
    BY <1>7 DEF Finish
  <2>2. ~InSend(t) /\ ~Succeeded(t)
    BY <1>2, <1>7 DEF InSend
  <2>3. Quiet
    BY <1>1, <1>3, <2>1, <2>2 DEF TypeOK, Quiet
  <2> QED
    BY <2>3, QuietKeeps
<1> QED
  BY <1>5, <1>6, <1>7

(* A call starts: a sender's message has never been sent.                  *)
LEMMA EnterKeeps ==
    ASSUME TypeOK, Delivery, NEW t \in Threads, NEW q, NEW f, NEW n,
           Enter(t, q, f, n),
           \/ FillBuffer(t) /\ f \in Sends
           \/ UNCHANGED <<buf, sent>> /\ f \notin Sends
    PROVE  Delivery'
<1>1. /\ pc[t] = "idle" /\ UNCHANGED <<queue, got, errno>>
      /\ pc' = [pc EXCEPT ![t] = "call"] /\ fn' = [fn EXCEPT ![t] = f]
  BY DEF Enter, kernel
<1>2. \A u \in Threads :
         /\ InSend(u)' <=> (IF u = t THEN f \in Sends ELSE InSend(u))
         /\ Succeeded(u)' <=> Succeeded(u)
  BY <1>1 DEF TypeOK, InSend, Inside, Succeeded
<1>3. ~InSend(t) /\ ~Succeeded(t)
  BY <1>1 DEF InSend, Inside, Succeeded
<1>4. CASE UNCHANGED <<buf, sent>> /\ f \notin Sends
  <2>1. Quiet
    BY <1>1, <1>2, <1>3, <1>4 DEF TypeOK, Quiet
  <2> QED
    BY <2>1, QuietKeeps
<1>5. CASE FillBuffer(t) /\ f \in Sends
  <2>1. PICK m \in Msgs : /\ sent[m] = "new"
                          /\ sent' = [sent EXCEPT ![m] = "calling"]
                          /\ buf' = [buf EXCEPT ![t] = m]
    BY <1>5 DEF FillBuffer
  <2>2. \A u \in Threads, x \in Msgs :
           /\ Sending(u, x)' <=> (u = t /\ x = m) \/ Sending(u, x)
           /\ Holding(u, x)' <=> Holding(u, x)
    BY <1>1, <1>2, <1>3, <1>5, <2>1 DEF TypeOK, Sending, Holding
  <2>3. \A x \in Msgs : /\ Held(x)' <=> Held(x)
                        /\ Somewhere(x)' <=> Somewhere(x)
    BY <1>1, <2>2 DEF Held, Somewhere
  <2>4. \A u \in Threads : ~Sending(u, m)
    BY <2>1 DEF Delivery, OneSender, Sending
  <2>5. OneSender'
    <3>1. \A u \in Threads : InSend(u)' =>
             buf'[u] \in Msgs /\ sent'[buf'[u]] = "calling"
      BY <1>2, <2>1 DEF TypeOK, Delivery, OneSender
    <3> QED
      BY <2>2, <2>4, <3>1 DEF Delivery, OneSender
  <2>6. OnePlace'
    BY <1>1, <1>2, <1>3, <2>1, <2>2, <2>3 DEF TypeOK, Delivery, OnePlace
  <2>7. Arrived'
    <3>1. ~Somewhere(m)
      BY <2>1 DEF Delivery, Arrived
    <3> QED
      BY <1>2, <1>3, <2>1, <2>2, <2>3, <3>1 DEF TypeOK, Delivery, Arrived
  <2> QED
    BY <2>5, <2>6, <2>7 DEF Delivery
<1> QED
  BY <1>4, <1>5

(***************************************************************************)
(* What a step is, with the four entries told apart by what they do to     *)
(* the buffer.                                                             *)
(***************************************************************************)
LEMMA Steps ==
    ASSUME [Next]_vars
    PROVE  \/ \E t \in Threads : \/ SysCall(t) \/ Wake(t) \/ Expire(t)
                                 \/ Signal(t) \/ Translate(t) \/ Return(t)
           \/ \E t \in Threads, q \in Objects :
                \/ \E f \in OpenFlags, max \in MaxMessages :
                      Open(t, q, f, max)
                \/ Close(t, q)
                \/ \E f \in Fns, n \in Nat :
                      /\ Enter(t, q, f, n)
                      /\ \/ FillBuffer(t) /\ f \in Sends
                         \/ UNCHANGED <<buf, sent>> /\ f \notin Sends
           \/ Tick \/ UNCHANGED vars
<1>1. ASSUME NEW t \in Threads, NEW q \in Objects, Send(t, q)
      PROVE  \E f \in Fns, n \in Nat :
                /\ Enter(t, q, f, n)
                /\ FillBuffer(t) /\ f \in Sends
  BY <1>1 DEF Send, Fns, Sends
<1>2. ASSUME NEW t \in Threads, NEW q \in Objects, NEW k \in Timeouts,
             Timedsend(t, q, k)
      PROVE  \E f \in Fns, n \in Nat :
                /\ Enter(t, q, f, n)
                /\ FillBuffer(t) /\ f \in Sends
  BY <1>2, MqAssumption DEF Timedsend, Fns, Sends
<1>3. ASSUME NEW t \in Threads, NEW q \in Objects, Receive(t, q)
      PROVE  \E f \in Fns, n \in Nat :
                /\ Enter(t, q, f, n)
                /\ UNCHANGED <<buf, sent>> /\ f \notin Sends
  BY <1>3 DEF Receive, Fns, Sends
<1>4. ASSUME NEW t \in Threads, NEW q \in Objects, NEW k \in Timeouts,
             Timedreceive(t, q, k)
      PROVE  \E f \in Fns, n \in Nat :
                /\ Enter(t, q, f, n)
                /\ UNCHANGED <<buf, sent>> /\ f \notin Sends
  BY <1>4, MqAssumption DEF Timedreceive, Fns, Sends
<1> QED
  BY <1>1, <1>2, <1>3, <1>4 DEF Next, Step

LEMMA DeliveryStep ==
    ASSUME TypeOK, Delivery, [Next]_vars PROVE Delivery'
<1> USE DEF TypeOK, Done, Back, kernel, objects, args
<1>1. ASSUME NEW t \in Threads, SysCall(t) PROVE Delivery'
  <2>1. CASE Transfer(t)
    BY <1>1, <2>1, TransferKeeps DEF SysCall
  <2>2. CASE (Refuse(t) \/ Block(t)) /\ UNCHANGED <<queue, buf>>
    <3>1. Quiet
      BY <1>1, <2>2
         DEF SysCall, Refuse, Block, Quiet, InSend, Inside, Succeeded
    <3> QED
      BY <3>1, QuietKeeps
  <2> QED
    BY <1>1, <2>1, <2>2 DEF SysCall
<1>2. ASSUME NEW t \in Threads, Wake(t) PROVE Delivery'
  BY <1>2, TransferKeeps DEF Wake
<1>3. ASSUME NEW t \in Threads, Expire(t) \/ Signal(t) PROVE Delivery'
  <2>1. Quiet
    BY <1>3 DEF Expire, Signal, Quiet, InSend, Inside, Succeeded
  <2> QED
    BY <2>1, QuietKeeps
<1>4. ASSUME NEW t \in Threads, Translate(t) PROVE Delivery'
  <2>1. CASE errno[t] = "EINTR" /\ pc' = [pc EXCEPT ![t] = "call"]
             /\ errno' = [errno EXCEPT ![t] = "0"]
             /\ UNCHANGED <<kernel, objects, args, flaw, buf, ret, sent, got>>
    <3>1. Quiet
      BY <1>4, <2>1 DEF Translate, Quiet, InSend, Inside, Succeeded
    <3> QED
      BY <3>1, QuietKeeps
  <2>2. CASE Finish(t, Result(errno[t]))
    BY <1>4, <2>2, FinishKeeps DEF Translate
  <2> QED
    BY <1>4, <2>1, <2>2 DEF Translate
<1>5. ASSUME NEW t \in Threads, Return(t) PROVE Delivery'
  <2>1. Quiet
    BY <1>5 DEF Return, Quiet, InSend, Inside, Succeeded
  <2> QED
    BY <2>1, QuietKeeps
<1>6. ASSUME NEW t \in Threads, NEW q \in Objects, NEW f \in OpenFlags,
             NEW max \in MaxMessages, Open(t, q, f, max)
      PROVE  Delivery'
  <2>1. /\ UNCHANGED <<queue, got, sent, fn, buf, errno>>
        /\ pc[t] = "idle" /\ pc' = [pc EXCEPT ![t] = "done"]
    BY <1>6 DEF Open, OpenFailed
  <2>2. Quiet
    BY <2>1 DEF Quiet, InSend, Inside, Succeeded
  <2> QED
    BY <2>2, QuietKeeps
<1>7. ASSUME NEW t \in Threads, NEW q \in Objects, Close(t, q)
      PROVE  Delivery'
  <2>1. Quiet
    BY <1>7 DEF Close, Quiet, InSend, Inside, Succeeded
  <2> QED
    BY <2>1, QuietKeeps
<1>8. CASE Tick \/ UNCHANGED vars
  <2>1. Quiet
    BY <1>8 DEF Tick, vars, Quiet, InSend, Inside, Succeeded
  <2> QED
    BY <2>1, QuietKeeps
<1>9. ASSUME NEW t \in Threads, NEW q \in Objects, NEW f \in Fns,
             NEW n \in Nat, Enter(t, q, f, n),
             \/ FillBuffer(t) /\ f \in Sends
             \/ UNCHANGED <<buf, sent>> /\ f \notin Sends
      PROVE  Delivery'
  BY <1>9, EnterKeeps
<1> QED
  BY <1>1, <1>2, <1>3, <1>4, <1>5, <1>6, <1>7, <1>8, <1>9, Steps

(* No step lets ts and the timeout drift apart.                            *)
LEMMA DeadlineStep ==
    ASSUME TypeOK, Deadline, [Next]_vars PROVE Deadline'
<1> USE DEF TypeOK, Deadline, Inside, Done, Back, kernel, objects, args
<1>1. ASSUME NEW t \in Threads, SysCall(t) PROVE Deadline'
  BY <1>1 DEF SysCall, Refuse, Block, Transfer
<1>2. ASSUME NEW t \in Threads, Wake(t) PROVE Deadline'
  BY <1>2 DEF Wake, Transfer
<1>3. ASSUME NEW t \in Threads, Expire(t) \/ Signal(t) PROVE Deadline'
  BY <1>3 DEF Expire, Signal
<1>4. ASSUME NEW t \in Threads, Translate(t) PROVE Deadline'
  <2>1. Result(errno[t]) = "TIMEOUT" <=> errno[t] = "ETIMEDOUT"
    BY ResultIs
  <2> QED
    BY <1>4, <2>1 DEF Translate, Finish
<1>5. ASSUME NEW t \in Threads, Return(t) PROVE Deadline'
  BY <1>5 DEF Return
<1>6. ASSUME NEW t \in Threads, NEW q \in Objects, NEW f \in OpenFlags,
             NEW max \in MaxMessages, Open(t, q, f, max)
      PROVE  Deadline'
  <2>1. /\ UNCHANGED <<clock, left, due, errno>>
        /\ pc[t] = "idle" /\ pc' = [pc EXCEPT ![t] = "done"]
        /\ ret'[t] # "TIMEOUT"
        /\ \A u \in Threads : u # t => ret'[u] = ret[u]
    BY <1>6 DEF Open, OpenFailed
  <2> QED
    BY <2>1
<1>7. ASSUME NEW t \in Threads, NEW q \in Objects, Close(t, q)
      PROVE  Deadline'
  BY <1>7 DEF Close
<1>8. CASE Tick
  BY <1>8 DEF Tick, Minus1
<1>9. CASE UNCHANGED vars
  BY <1>9 DEF vars
<1>10. ASSUME NEW t \in Threads, NEW q \in Objects, NEW f \in Fns,
              NEW n \in Nat, Enter(t, q, f, n)
       PROVE  Deadline'
  BY <1>10 DEF Enter
<1> QED
  BY <1>1, <1>2, <1>3, <1>4, <1>5, <1>6, <1>7, <1>8, <1>9, <1>10, Steps

(* No two open objects share a descriptor.                                 *)
LEMMA DescriptorStep ==
    ASSUME TypeOK, Descriptors, [Next]_vars PROVE Descriptors'
<1> USE DEF TypeOK, Descriptors, Inside, IsOpen, Done, Back, kernel, objects,
            args
<1>1. ASSUME NEW t \in Threads, SysCall(t) PROVE Descriptors'
  BY <1>1 DEF SysCall, Refuse, Block, Transfer
<1>2. ASSUME NEW t \in Threads, Wake(t) PROVE Descriptors'
  BY <1>2 DEF Wake, Transfer
<1>3. ASSUME NEW t \in Threads, Expire(t) \/ Signal(t) PROVE Descriptors'
  BY <1>3 DEF Expire, Signal
<1>4. ASSUME NEW t \in Threads, Translate(t) PROVE Descriptors'
  BY <1>4 DEF Translate, Finish
<1>5. ASSUME NEW t \in Threads, Return(t) PROVE Descriptors'
  BY <1>5 DEF Return
<1>6. ASSUME NEW t \in Threads, NEW q \in Objects, NEW f \in OpenFlags,
             NEW max \in MaxMessages, Open(t, q, f, max)
      PROVE  Descriptors'
  <2>1. /\ UNCHANGED obj /\ pc' = [pc EXCEPT ![t] = "done"]
    BY <1>6 DEF Open, OpenFailed
  <2>2. CASE \E r : OpenFailed(t, q, r)
    BY <2>1, <2>2 DEF OpenFailed
  <2>3. ASSUME FreeFds # {},
               NEW d, d = CHOOSE x \in FreeFds : \A y \in FreeFds : x <= y,
               fds' = [fds EXCEPT ![d] = AccessMode(f)],
               mq_desc' = [mq_desc EXCEPT ![q] = d],
               asked' = [asked EXCEPT ![q] = f]
        PROVE  Descriptors'
    <3>1. d \in FreeFds
      <4>1. FreeFds \subseteq Nat
        BY MqAssumption DEF FreeFds, Fds
      <4> QED
        BY <2>3, <4>1, LowestFree
    <3>2. d \in Fds /\ fds[d] = "free"
      BY <3>1 DEF FreeFds
    <3>3. \A g : AccessMode(g) # "free"
      BY DEF AccessMode
    <3>4. \A r \in Objects : IsOpen(r) => mq_desc[r] # d
      BY <3>2, <3>3
    <3> HIDE DEF Descriptors
    <3>5. \A r \in Objects : r # q =>
             /\ asked'[r] = asked[r] /\ mq_desc'[r] = mq_desc[r]
             /\ IsOpen(r) =>
                  mq_desc[r] \in Fds
                  /\ fds'[mq_desc[r]] = AccessMode(asked[r])
      BY <2>3, <3>2, <3>4 DEF Descriptors
    <3>6. mq_desc'[q] = d /\ asked'[q] = f /\ fds'[d] = AccessMode(f)
      BY <2>3, <3>2 DEF Descriptors
    <3>7. /\ DOMAIN fds' = Fds /\ DOMAIN mq_desc' = Objects
          /\ DOMAIN asked' = Objects
      BY <2>3 DEF Descriptors
    <3>8. \A r \in Objects : IsOpen(r)' =>
             mq_desc'[r] \in Fds
             /\ fds'[mq_desc'[r]] = AccessMode(asked'[r])
      BY <3>2, <3>5, <3>6
    <3>9. \A r, w \in Objects :
             IsOpen(r)' /\ IsOpen(w)' /\ mq_desc'[r] = mq_desc'[w] => r = w
      BY <3>4, <3>5, <3>6 DEF Descriptors
    <3>10. \A u \in Threads : Inside(u)' => obj'[u] \in Objects
      BY <2>1 DEF Descriptors
    <3> QED
      BY <3>7, <3>8, <3>9, <3>10 DEF Descriptors
  <2> QED
    BY <1>6, <2>2, <2>3 DEF Open
<1>7. ASSUME NEW t \in Threads, NEW q \in Objects, Close(t, q)
      PROVE  Descriptors'
  <2>1. /\ UNCHANGED <<mq_desc, obj>> /\ pc' = [pc EXCEPT ![t] = "done"]
        /\ \/ UNCHANGED fds
           \/ /\ mq_desc[q] \in Fds
              /\ fds' = [fds EXCEPT ![mq_desc[q]] = "free"]
        /\ asked' = [r \in Objects |->
                        IF r = q THEN Closed
                        ELSE IF IsOpen(r) /\ ~IsOpen(q)
                                /\ mq_desc[r] = mq_desc[q]
                             THEN Robbed ELSE asked[r]]
    BY <1>7 DEF Close
  <2>2. \A r \in Objects : IsOpen(r)' => r # q /\ IsOpen(r)
                                        /\ asked'[r] = asked[r]
                                        /\ mq_desc[r] # mq_desc[q]
    BY <2>1
  <2> QED
    BY <2>1, <2>2
<1>8. CASE Tick
  BY <1>8 DEF Tick
<1>9. CASE UNCHANGED vars
  BY <1>9 DEF vars
<1>10. ASSUME NEW t \in Threads, NEW q \in Objects, NEW f \in Fns,
              NEW n \in Nat, Enter(t, q, f, n)
       PROVE  Descriptors'
  BY <1>10 DEF Enter
<1> QED
  BY <1>1, <1>2, <1>3, <1>4, <1>5, <1>6, <1>7, <1>8, <1>9, <1>10, Steps

(***************************************************************************)
(* The invariant holds: every message is at one place at most and is       *)
(* accounted for, ts stays the timeout through every retry, and the open   *)
(* objects have descriptors of their own.                                  *)
(***************************************************************************)
THEOREM MqInvariant == Spec => []MqInv
<1>1. Init => MqInv
  <2> SUFFICES ASSUME Init PROVE MqInv
    OBVIOUS
  <2>1. TypeOK
    BY MqAssumption DEF Init, TypeOK, Errnos, Fns
  <2>2. \A t \in Threads : ~Inside(t) /\ ~InSend(t) /\ ~Succeeded(t)
    BY DEF Init, Inside, InSend, Succeeded
  <2>3. \A m \in Msgs : queue[m] = 0 /\ got[m] = 0 /\ sent[m] = "new"
    BY DEF Init
  <2>4. OneSender /\ OnePlace /\ Arrived
    BY <2>2, <2>3
       DEF OneSender, OnePlace, Arrived, Sending, Holding, Held, Somewhere
  <2>5. Deadline /\ Descriptors
    BY <2>2 DEF Init, Deadline, Descriptors, IsOpen
  <2> QED
    BY <2>1, <2>4, <2>5 DEF MqInv
<1>2. MqInv /\ [Next]_vars => MqInv'
  BY TypeStep, DeliveryStep, DeadlineStep, DescriptorStep
     DEF MqInv, Delivery
<1> QED
  BY <1>1, <1>2, PTL DEF Spec

(***************************************************************************)
(* Every message is delivered exactly once if its send has reported        *)
(* success, and never if it has reported a failure, however many calls are *)
(* interrupted and repeated.                                               *)
(***************************************************************************)
THEOREM MessagesExactlyOnce == Spec => []ExactlyOnce
<1>1. MqInv => ExactlyOnce
  <2> SUFFICES ASSUME MqInv, NEW m \in Msgs
               PROVE  /\ sent[m] = "OK" => Copies(m) = 1
                      /\ sent[m] = "calling" => Copies(m) <= 1
                      /\ sent[m] \in {"new", "failed"} => Copies(m) = 0
    BY DEF ExactlyOnce
  <2> DEFINE H == {t \in Threads : /\ pc[t] = "back" /\ errno[t] = "0"
                                   /\ fn[t] \notin Sends /\ buf[t] = m}
  <2>1. H = {t \in Threads : Holding(t, m)}
    BY DEF Holding, Succeeded
  <2>2. Cardinality(H) = IF Held(m) THEN 1 ELSE 0
    <3>1. CASE Held(m)
      <4>1. PICK t \in Threads : Holding(t, m)
        BY <3>1 DEF Held
      <4>2. \A u \in Threads : Holding(u, m) => u = t
        BY <4>1 DEF MqInv, OnePlace
      <4>3. H = {t}
        BY <2>1, <4>1, <4>2
      <4> HIDE DEF H
      <4> QED
        BY <3>1, <4>3, FS_Singleton
    <3>2. CASE ~Held(m)
      <4>1. H = {}
        BY <2>1, <3>2 DEF Held
      <4> HIDE DEF H
      <4> QED
        BY <3>2, <4>1, FS_EmptySet
    <3> QED
      BY <3>1, <3>2
  <2>3. Copies(m) = queue[m] + got[m] + Cardinality(H)
    BY DEF Copies
  <2> HIDE DEF H
  <2>4. Copies(m) = IF Somewhere(m) THEN 1 ELSE 0
    BY <2>2, <2>3 DEF MqInv, OnePlace, Somewhere
  <2> QED
    BY <2>4 DEF MqInv, Arrived
<1> QED
  BY <1>1, MqInvariant, PTL

(***************************************************************************)
(* No timed call reports OSAL_ERR_TIMEOUT early under CLOCK_REALTIME.      *)
(***************************************************************************)
THEOREM TimeoutsNotEarly == Spec => []TimeoutNotEarly
<1>1. MqInv => TimeoutNotEarly
  BY DEF MqInv, Deadline, TimeoutNotEarly
<1> QED
  BY <1>1, MqInvariant, PTL

(***************************************************************************)
(* The kernel refuses no open object what its flags asked for, whatever is *)
(* opened and closed meanwhile, unless its descriptor was closed through   *)
(* an object that had been closed before.                                  *)
(***************************************************************************)
THEOREM OpenObjectsServe == Spec => AccessAsAsked
<1> DEFINE A == \A t \in Threads :
                  errno[t] # "EBADF" /\ errno'[t] = "EBADF" =>
                      ~(IF fn[t] \in Sends THEN MaySend(obj[t])
                                           ELSE MayReceive(obj[t]))
<1>1. MqInv /\ [Next]_vars => [A]_vars
  <2> SUFFICES ASSUME MqInv, [Next]_vars, NEW u \in Threads,
                      errno[u] # "EBADF", errno'[u] = "EBADF"
               PROVE  ~(IF fn[u] \in Sends THEN MaySend(obj[u])
                                           ELSE MayReceive(obj[u]))
    OBVIOUS
  <2>1. pc[u] = "call" /\ BadFd(u)
    <3> USE DEF MqInv, TypeOK, Done, Back, kernel, objects, args
    <3>1. ASSUME NEW t \in Threads, SysCall(t)
          PROVE  pc[u] = "call" /\ BadFd(u)
      BY <3>1 DEF SysCall, Refuse, Block, Transfer
    <3>2. ASSUME NEW t \in Threads,
                 \/ Wake(t) \/ Expire(t) \/ Signal(t) \/ Return(t)
          PROVE  FALSE
      BY <3>2 DEF Wake, Transfer, Expire, Signal, Return
    <3>3. ASSUME NEW t \in Threads, Translate(t) PROVE FALSE
      BY <3>3 DEF Translate, Finish
    <3>4. CASE Tick \/ UNCHANGED vars
      BY <3>4 DEF Tick, vars
    <3>5. ASSUME NEW t \in Threads, NEW q \in Objects,
                 \/ Close(t, q)
                 \/ \E f \in OpenFlags, max \in MaxMessages :
                       Open(t, q, f, max)
                 \/ \E f \in Fns, n \in Nat : Enter(t, q, f, n)
          PROVE  FALSE
      BY <3>5 DEF Open, Close, Enter
    <3> QED
      BY <3>1, <3>2, <3>3, <3>4, <3>5, Steps
  <2>2. obj[u] \in Objects
    BY <2>1 DEF MqInv, Descriptors, Inside
  <2>3. SUFFICES ASSUME IsOpen(obj[u])
                 PROVE  ~(IF fn[u] \in Sends THEN MaySend(obj[u])
                                             ELSE MayReceive(obj[u]))
    BY DEF MaySend, MayReceive
  <2>4. Mode(u) = AccessMode(asked[obj[u]])
    <3>1. mq_desc[obj[u]] \in Fds
          /\ fds[mq_desc[obj[u]]] = AccessMode(asked[obj[u]])
      BY <2>2, <2>3 DEF MqInv, Descriptors
    <3>2. mq_desc[obj[u]] # NoFd
      BY <3>1, MqAssumption DEF Fds, NoFd
    <3> QED
      BY <3>1, <3>2 DEF Mode
  <2>5. CASE fn[u] \in Sends
    <3>1. AccessMode(asked[obj[u]]) = "r"
      BY <2>1, <2>4, <2>5 DEF BadFd, AccessMode
    <3> QED
      BY <2>5, <3>1 DEF MaySend, AccessMode
  <2>6. CASE fn[u] \notin Sends
    <3>1. AccessMode(asked[obj[u]]) = "w"
      BY <2>1, <2>4, <2>6 DEF BadFd, AccessMode
    <3> QED
      BY <2>6, <3>1 DEF MayReceive, AccessMode
  <2> QED
    BY <2>5, <2>6
<1>2. AccessAsAsked <=> [][A]_vars
  BY DEF AccessAsAsked
<1> QED
  BY <1>1, <1>2, MqInvariant, PTL DEF Spec
=============================================================================
