----------------------------- MODULE Task_proofs -----------------------------
(***************************************************************************)
(* Machine-checked proofs about the two models of posix/task.c: Task, for  *)
(* any number of threads that create, join and cancel each other, and      *)
(* TaskSched, for any number of threads that change each other's           *)
(* attributes, any processors, masks, policies and priorities.             *)
(***************************************************************************)
EXTENDS Task, TaskSched, TLAPS

TypeOK ==
    /\ pc \in [Threads -> Wrapper \cup {"none", "user", "poll", "join",
                                        "over"}]
    /\ start_args \in [Threads -> [running : {0, 1},
                                   user_arg : Args \cup {NoArg}]]
    /\ alive \in [Threads -> BOOLEAN]
    /\ creator \in [Threads -> Threads \cup {NoThread}]
    /\ target \in [Threads -> Threads \cup {NoThread}]
    /\ user_arg \in [Threads -> Args \cup {NoArg}]
    /\ applied \in [Threads -> {"no", "applied", "refused"}]
    /\ joiner \in [Threads -> Threads \cup {NoThread}]
    /\ cancelled \in [Threads -> BOOLEAN]
    /\ given \in [Threads -> Args \cup {NoArg}]
    /\ wild \subseteq Threads

(* The threads made by osal_task_create.                                   *)
Created == {t \in Threads \ {Main} : pc[t] # "none"}

(* Every created thread has a creator; the first thread has no wrapper.    *)
HasCreator ==
    /\ pc[Main] \notin Wrapper \cup {"none"}
    /\ \A t \in Created : creator[t] \in Threads /\ pc[creator[t]] # "none"

(* A frame exists exactly while its thread is in osal_task_create.         *)
FrameWhilePolling == \A c \in Threads : alive[c] <=> pc[c] = "poll"

(***************************************************************************)
(* The handshake: a thread in its wrapper is the one its creator waits     *)
(* for, and the frame still says "not running" and holds its argument,     *)
(* unless the creator was cancelled in osal_task_create.                   *)
(***************************************************************************)
Handshake ==
    \A t \in Created : pc[t] \in Wrapper =>
        /\ target[creator[t]] = t
        /\ pc[creator[t]] \in {"poll", "over"}
        /\ pc[creator[t]] = "poll" =>
            /\ start_args[creator[t]].running = 0
            /\ start_args[creator[t]].user_arg = given[t]

(* A thread past that step has its attributes.                             *)
SetUp ==
    \A t \in Created : pc[t] \in Wrapper \ {"run"} \/ applied[t] # "no"

(* Only created threads read a frame.                                      *)
WildCreated == wild \subseteq Created

IInv ==
    /\ TypeOK /\ HasCreator /\ FrameWhilePolling /\ Handshake /\ SetUp
    /\ WildCreated /\ StartArgsAlive /\ OwnArgument

(* What the threads do to their own entries only.                          *)
LEMMA TypeStep == TypeOK /\ [Next]_vars => TypeOK'
<1> SUFFICES ASSUME TypeOK, [Next]_vars PROVE TypeOK'
  OBVIOUS
<1> USE TaskAssumption DEF TypeOK, Wrapper, Goto
<1>1. ASSUME NEW c \in Threads, NEW t \in Threads, NEW a \in Args,
             Create(c, t, a)
      PROVE  TypeOK'
  BY <1>1 DEF Create
<1>2. ASSUME NEW t \in Threads, CreateReturns(t) \/ JoinReturns(t)
      PROVE  TypeOK'
  BY <1>2 DEF CreateReturns, JoinReturns
<1>3. ASSUME NEW t \in Threads, WrapperCopy(t) PROVE TypeOK'
  BY <1>3 DEF WrapperCopy, Touch
<1>4. ASSUME NEW t \in Threads, WrapperAttr(t) PROVE TypeOK'
  BY <1>4 DEF WrapperAttr
<1>5. ASSUME NEW t \in Threads, WrapperRun(t) PROVE TypeOK'
  BY <1>5 DEF WrapperRun, Touch
<1>6. ASSUME NEW t \in Threads, Exit(t) PROVE TypeOK'
  BY <1>6 DEF Exit
<1>7. ASSUME NEW c \in Threads, NEW t \in Threads, Destroy(c, t)
      PROVE  TypeOK'
  BY <1>7 DEF Destroy
<1>8. ASSUME NEW t \in Threads, Cancelled(t) PROVE TypeOK'
  BY <1>8 DEF Cancelled
<1>9. ASSUME NEW c \in Threads, NEW t \in Threads, Join(c, t) PROVE TypeOK'
  BY <1>9 DEF Join
<1>10. CASE UNCHANGED vars
  BY <1>10 DEF vars
<1> QED
  BY <1>1, <1>2, <1>3, <1>4, <1>5, <1>6, <1>7, <1>8, <1>9, <1>10
     DEF Next, Step

(***************************************************************************)
(* Each step keeps the invariant.                                          *)
(***************************************************************************)
LEMMA InvStep == IInv /\ [Next]_vars => IInv'
<1> SUFFICES ASSUME IInv, [Next]_vars PROVE IInv'
  OBVIOUS
<1>0. TypeOK'
  BY TypeStep DEF IInv
<1> USE <1>0, TaskAssumption
    DEF IInv, TypeOK, HasCreator, FrameWhilePolling, Handshake, SetUp,
        WildCreated, StartArgsAlive, OwnArgument, Created, Orphan, Wrapper,
        Goto
<1>1. ASSUME NEW c \in Threads, NEW t \in Threads, NEW a \in Args,
             Create(c, t, a)
      PROVE  IInv'
  <2>1. c # t /\ t # Main /\ Created' = Created \cup {t}
    BY <1>1 DEF Create
  <2>2. \A s \in Created : creator[s] # t /\ creator'[s] = creator[s]
                           /\ pc[s] # "none" /\ s # t
    BY <1>1 DEF Create
  <2>3. HasCreator' /\ FrameWhilePolling' /\ WildCreated'
    BY <1>1, <2>1 DEF Create
  <2>4. Handshake'
    BY <1>1, <2>1, <2>2 DEF Create
  <2>5. SetUp'
    BY <1>1, <2>1 DEF Create
  <2>6. StartArgsAlive' /\ OwnArgument'
    BY <1>1, <2>1, <2>2 DEF Create
  <2> QED
    BY <2>3, <2>4, <2>5, <2>6
<1>2. ASSUME NEW t \in Threads, CreateReturns(t) PROVE IInv'
  BY <1>2 DEF CreateReturns
<1>3. ASSUME NEW t \in Threads, WrapperCopy(t) PROVE IInv'
  BY <1>3 DEF WrapperCopy, Touch, Frame
<1>4. ASSUME NEW t \in Threads, WrapperAttr(t) PROVE IInv'
  BY <1>4 DEF WrapperAttr
<1>5. ASSUME NEW t \in Threads, WrapperRun(t) PROVE IInv'
  BY <1>5 DEF WrapperRun, Touch
<1>6. ASSUME NEW t \in Threads, Exit(t) PROVE IInv'
  BY <1>6 DEF Exit
<1>7. ASSUME NEW c \in Threads, NEW t \in Threads, Destroy(c, t)
      PROVE  IInv'
  BY <1>7 DEF Destroy
<1>8. ASSUME NEW t \in Threads, Cancelled(t) PROVE IInv'
  BY <1>8 DEF Cancelled
<1>9. ASSUME NEW c \in Threads, NEW t \in Threads, Join(c, t) PROVE IInv'
  BY <1>9 DEF Join
<1>10. ASSUME NEW t \in Threads, JoinReturns(t) PROVE IInv'
  BY <1>10 DEF JoinReturns
<1>11. CASE UNCHANGED vars
  BY <1>11 DEF vars
<1> QED
  BY <1>1, <1>2, <1>3, <1>4, <1>5, <1>6, <1>7, <1>8, <1>9, <1>10, <1>11
     DEF Next, Step

(***************************************************************************)
(* The invariant of the handshake holds, however threads create, join and  *)
(* cancel each other.                                                      *)
(***************************************************************************)
THEOREM HandshakeInvariant == Spec => []IInv
<1>1. Init => IInv
  BY TaskAssumption
     DEF Init, NoFrame, IInv, TypeOK, HasCreator, FrameWhilePolling,
         Handshake, SetUp, WildCreated, StartArgsAlive, OwnArgument, Created,
         Orphan, Wrapper
<1> QED
  BY <1>1, InvStep, PTL DEF Spec

(***************************************************************************)
(* No wrapper uses the start arguments after osal_task_create has          *)
(* returned, except when the creator was destroyed inside of it.           *)
(***************************************************************************)
THEOREM FramesOutliveWrappers == Spec => []StartArgsAlive
<1>1. IInv => StartArgsAlive
  BY DEF IInv
<1> QED
  BY <1>1, HandshakeInvariant, PTL

(***************************************************************************)
(* Every handler gets the argument of its own osal_task_create, although   *)
(* the frame is used again and again.                                      *)
(***************************************************************************)
THEOREM HandlersGetOwnArgument == Spec => []OwnArgument
<1>1. IInv => OwnArgument
  BY DEF IInv
<1> QED
  BY <1>1, HandshakeInvariant, PTL

(***************************************************************************)
(* A thread whose osal_task_create has returned has asked for each of its  *)
(* attributes, granted or not, and is done with the caller's objects.      *)
(***************************************************************************)
THEOREM CreateReturnsSetUp == Spec => []CreatedIsSetUp
<1>1. IInv => CreatedIsSetUp
  BY DEF IInv, Handshake, SetUp, Created, CreatedIsSetUp
<1> QED
  BY <1>1, HandshakeInvariant, PTL
-----------------------------------------------------------------------------
(***************************************************************************)
(* Scheduling attributes (TaskSched).                                      *)
(***************************************************************************)
SchedPCs == {"none", "policy", "priority", "affinity", "idle", "create",
             "set", "setaff", "getaff", "done"}
Setters == {"set_policy", "set_priority", "set_task_attr"}
Pairs == [policy : Policies, priority : Int]
LastPolicies == OsalPolicies \cup {Muddled}

SchedTypeOK ==
    /\ sched \in [Tasks -> Pairs] /\ param \in [Tasks -> Pairs]
    /\ affinity \in [Tasks -> SUBSET Cpus]
    /\ spc \in [Tasks -> SchedPCs]
    /\ DOMAIN call = Tasks /\ DOMAIN ret = Tasks /\ DOMAIN mask = Tasks
    /\ tid \in [Tasks -> Tasks] /\ arg \in [Tasks -> Nat]
    /\ attr \in [Tasks -> Attrs \cup {NoAttr}]
    /\ lastMask \in [Tasks -> Masks] /\ lastPolicy \in [Tasks -> LastPolicies]

(* Somebody waits in osal_task_create for every task in its wrapper.       *)
Awaited ==
    \A t \in Tasks : spc[t] \in {"policy", "priority", "affinity"} =>
        \E c \in Tasks : spc[c] = "create" /\ tid[c] = t

(* The pair about to be written fits what was asked for: nothing the       *)
(* thread has read before is needed to know that.                          *)
Prepared ==
    \A c \in Tasks :
        /\ spc[c] = "set" =>
              /\ call[c] \in Setters
              /\ call[c] = "set_policy" =>
                    /\ arg[c] \in OsalPolicies
                    /\ param[c].policy = FromOsal(arg[c]) /\ Valid(param[c])
              /\ call[c] = "set_priority" =>
                    param[c].priority = Clamp(param[c].policy, ToInt(arg[c]))
              /\ call[c] = "set_task_attr" =>
                    param[c].policy \in OsalPolicies /\ mask[c] \in Masks
        /\ spc[c] = "setaff" =>
              call[c] = "set_task_attr" /\ mask[c] \in Masks
        /\ spc[c] = "getaff" => call[c] \notin Setters

(* The kernel has what was last asked for a task, as far as that is known. *)
KernelAgrees ==
    \A t \in Tasks :
        /\ \/ lastPolicy[t] = ToOsal(sched[t].policy)
           \/ lastPolicy[t] = Muddled
        /\ lastMask[t] # {} => affinity[t] = lastMask[t] \cap Cpus

SchedInv ==
    SchedTypeOK /\ Awaited /\ Prepared /\ KernelAgrees /\ NeverInvalid
-----------------------------------------------------------------------------
(***************************************************************************)
(* The clamped priority is legal, whatever the policy, and none that is    *)
(* legal is nearer to the one asked for.                                   *)
(***************************************************************************)
LEMMA ClampIsNearest ==
    ASSUME NEW p, NEW n \in Int
    PROVE  /\ Clamp(p, n) \in PriorityMin(p) .. PriorityMax(p)
           /\ Clamp(p, n) \in Int
           /\ \A m \in PriorityMin(p) .. PriorityMax(p) :
                 Distance(Clamp(p, n), n) <= Distance(m, n)
<1>1. /\ PriorityMin(p) \in Nat /\ PriorityMax(p) \in Nat
      /\ PriorityMin(p) <= PriorityMax(p)
  BY TaskSchedAssumption DEF PriorityMin, PriorityMax
<1> QED
  BY <1>1 DEF Clamp, Distance

(* A priority is an int after the conversion.                              *)
LEMMA ToIntIs ==
    ASSUME NEW n \in Nat
    PROVE  ToInt(n) \in Int /\ (n < SignBit => ToInt(n) = n)
  BY TaskSchedAssumption DEF ToInt

(* Names of policies are translated there and back.                        *)
LEMMA PoliciesTranslate ==
    /\ \A p \in OsalPolicies : /\ FromOsal(p) \in Policies
                               /\ ToOsal(FromOsal(p)) = p
                               /\ p \in Policies /\ ToOsal(p) = p
    /\ \A p \in Policies : ToOsal(p) \in OsalPolicies
  BY DEF OsalPolicies, Policies, FromOsal, ToOsal, SCHED_OTHER, SCHED_FIFO,
         SCHED_RR, SCHED_BATCH, OSAL_FIFO, OSAL_ROUND_ROBIN, OSAL_OTHER

(* A mask that could be set can be read.                                   *)
LEMMA MaskIsRead ==
    ASSUME NEW S, S \subseteq 0 .. MaskBits - 1, NEW m \in GetAffinityMasks(S)
    PROVE  m = S
<1>1. {j \in S : j >= MaskBits} = {}
  <2>1. \A j \in S : j \in 0 .. MaskBits - 1
    OBVIOUS
  <2>2. \A j \in 0 .. MaskBits - 1 : ~(j >= MaskBits)
    BY TaskSchedAssumption
  <2> QED
    BY <2>1, <2>2
<1>2. PICK T \in SUBSET {j \in S : j >= MaskBits} :
         m = (S \cap (0 .. MaskBits - 1)) \cup {j % MaskBits : j \in T}
  BY DEF GetAffinityMasks
<1>3. T = {}
  BY <1>1, <1>2
<1> QED
  BY <1>2, <1>3

(* The attributes of a new task are those asked for, or none.              *)
LEMMA AttrIs ==
    ASSUME SchedTypeOK, NEW t \in Tasks
    PROVE  /\ attr[t].policy = 0 \/ attr[t].policy \in OsalPolicies
           /\ attr[t].priority \in Nat /\ attr[t].affinity \in Masks
<1>1. attr[t] \in Attrs \/ attr[t] = NoAttr
  BY DEF SchedTypeOK
<1>2. CASE attr[t] \in Attrs
  <2>1. /\ attr[t].policy \in AskedPolicies
        /\ attr[t].priority \in AttrPriorities
        /\ attr[t].affinity \in AttrMasks
    BY <1>2 DEF Attrs
  <2>2. attr[t].priority \in 0 .. 2 * SignBit - 1
    BY <2>1, TaskSchedAssumption
  <2> QED
    BY <2>1, <2>2, TaskSchedAssumption
<1>3. CASE attr[t] = NoAttr
  BY <1>3 DEF NoAttr, Masks
<1> QED
  BY <1>1, <1>2, <1>3

LEMMA SchedInitially == SchedInit => SchedInv
<1> SUFFICES ASSUME SchedInit PROVE SchedInv
  OBVIOUS
<1> USE TaskSchedAssumption DEF SchedInit
<1>1. Default \in Pairs /\ ToOsal(Default.policy) = OSAL_OTHER
      /\ OSAL_OTHER \in OsalPolicies
  BY DEF Default, Pairs, Policies, OsalPolicies, ToOsal, SCHED_OTHER,
         SCHED_FIFO, SCHED_RR, SCHED_BATCH, OSAL_OTHER
<1>2. SchedTypeOK
  BY <1>1 DEF SchedTypeOK, SchedPCs, Masks, LastPolicies
<1>3. Awaited /\ Prepared /\ KernelAgrees /\ NeverInvalid
  BY <1>1 DEF Awaited, Prepared, KernelAgrees, NeverInvalid
<1> QED
  BY <1>2, <1>3 DEF SchedInv

(***************************************************************************)
(* The steps of the wrapper: it waits with its creator, and changes only   *)
(* its own attributes.                                                     *)
(***************************************************************************)
LEMMA WrapperWrites ==
    ASSUME SchedInv, NEW t \in Tasks,
           WrapperPolicy(t) \/ WrapperPriority(t)
    PROVE  SchedInv'
<1> USE TaskSchedAssumption DEF SchedInv
<1>1. /\ UNCHANGED <<affinity, local, ret, attr, lastMask>>
      /\ spc[t] \in {"policy", "priority"}
      /\ spc' = [spc EXCEPT ![t] =
                    IF spc[t] = "policy" THEN "priority" ELSE "affinity"]
  BY DEF WrapperPolicy, WrapperPriority, SchedGoto, last
<1>2. \/ UNCHANGED <<sched, lastPolicy>>
      \/ \E s \in Pairs, p \in LastPolicies :
            /\ sched' = [sched EXCEPT ![t] = s]
            /\ ToOsal(s.policy) = p \/ p = Muddled
            /\ lastPolicy' = [lastPolicy EXCEPT ![t] = p]
  <2>1. CASE WrapperPolicy(t)
    <3> DEFINE p == attr[t].policy
               s == [policy   |-> FromOsal(p),
                     priority |-> Clamp(FromOsal(p), sched[t].priority)]
    <3>1. p = 0 \/ p \in OsalPolicies
      BY AttrIs
    <3>2. sched[t].priority \in Int
      BY DEF SchedTypeOK, Pairs
    <3>3. p # 0 => s \in Pairs /\ ToOsal(s.policy) = p
      BY <3>1, <3>2, PoliciesTranslate, ClampIsNearest DEF Pairs
    <3> QED
      BY <2>1, <3>1, <3>3 DEF WrapperPolicy, LastPolicies
  <2>2. CASE WrapperPriority(t)
    <3> DEFINE p == sched[t].policy
               s == [policy   |-> p,
                     priority |-> Clamp(p, ToInt(attr[t].priority))]
    <3>1. ToInt(attr[t].priority) \in Int
      BY AttrIs, ToIntIs
    <3>2. p \in Policies
      BY DEF SchedTypeOK, Pairs
    <3>3. s \in Pairs /\ lastPolicy[t] \in {ToOsal(s.policy), Muddled}
      BY <3>1, <3>2, ClampIsNearest DEF Pairs, KernelAgrees
    <3>4. /\ lastPolicy[t] \in LastPolicies
          /\ lastPolicy = [lastPolicy EXCEPT ![t] = lastPolicy[t]]
      BY DEF SchedTypeOK
    <3>5. /\ UNCHANGED lastPolicy
          /\ UNCHANGED sched \/ sched' = [sched EXCEPT ![t] = s]
      BY <2>2 DEF WrapperPriority, last
    <3> QED
      BY <3>3, <3>4, <3>5
  <2> QED
    BY <2>1, <2>2
<1>3. SchedTypeOK'
  BY <1>1, <1>2 DEF SchedTypeOK, SchedPCs, local
<1>4. Awaited'
  BY <1>1 DEF Awaited, SchedTypeOK, local
<1>5. Prepared' /\ NeverInvalid'
  BY <1>1 DEF Prepared, NeverInvalid, SchedTypeOK, local
<1>6. KernelAgrees'
  BY <1>1, <1>2 DEF KernelAgrees, SchedTypeOK
<1> QED
  BY <1>3, <1>4, <1>5, <1>6

(* An affinity is set, of one task.                                        *)
LEMMA AffinityWritten ==
    ASSUME SchedInv, NEW t \in Tasks, NEW m \in Masks,
           SetAffinityOf(t, m) \/ UNCHANGED <<affinity, lastMask>>,
           UNCHANGED <<sched, lastPolicy>>
    PROVE  /\ affinity' \in [Tasks -> SUBSET Cpus]
           /\ lastMask' \in [Tasks -> Masks]
           /\ KernelAgrees'
<1>1. \/ UNCHANGED <<affinity, lastMask>>
      \/ /\ affinity' = [affinity EXCEPT ![t] = m \cap Cpus]
         /\ lastMask' = [lastMask EXCEPT ![t] = m]
  BY DEF SetAffinityOf
<1> QED
  BY <1>1 DEF SchedInv, SchedTypeOK, KernelAgrees

LEMMA WrapperEnds ==
    ASSUME SchedInv, NEW t \in Tasks, WrapperAffinity(t) PROVE SchedInv'
<1> USE TaskSchedAssumption DEF SchedInv
<1> DEFINE c == CHOOSE c \in Tasks : spc[c] = "create" /\ tid[c] = t
<1>1. c \in Tasks /\ spc[c] = "create" /\ tid[c] = t
  BY DEF WrapperAffinity, Awaited
<1>2. /\ spc[t] = "affinity"
      /\ spc' = [spc EXCEPT ![t] = "idle", ![c] = "idle"]
      /\ tid' = [tid EXCEPT ![c] = c]
      /\ attr' = [attr EXCEPT ![t] = NoAttr]
      /\ UNCHANGED <<sched, call, arg, param, mask, ret, lastPolicy>>
      /\ \/ UNCHANGED <<affinity, lastMask>>
         \/ SetAffinityOf(t, attr[t].affinity) /\ attr[t].affinity \in Masks
  BY AttrIs DEF WrapperAffinity
<1> HIDE DEF c
<1>3. /\ affinity' \in [Tasks -> SUBSET Cpus] /\ KernelAgrees'
      /\ lastMask' \in [Tasks -> Masks]
  <2>1. {} \in Masks
    BY DEF Masks
  <2> QED
    BY <1>2, <2>1, AffinityWritten
<1>4. SchedTypeOK'
  BY <1>1, <1>2, <1>3 DEF SchedTypeOK, SchedPCs
<1>5. Awaited'
  BY <1>1, <1>2 DEF Awaited, SchedTypeOK
<1>6. Prepared' /\ NeverInvalid'
  BY <1>1, <1>2 DEF Prepared, NeverInvalid, SchedTypeOK
<1> QED
  BY <1>3, <1>4, <1>5, <1>6

LEMMA TaskCreated ==
    ASSUME SchedInv, NEW c \in Tasks, NEW t \in Tasks,
           NEW a \in Attrs \cup {NoAttr}, CreateTask(c, t, a)
    PROVE  SchedInv'
<1> USE DEF SchedInv
<1>1. /\ spc[c] = "idle" /\ spc[t] = "none"
      /\ sched' = [sched EXCEPT ![t] = sched[c]]
      /\ affinity' = [affinity EXCEPT ![t] = affinity[c]]
      /\ lastMask' = [lastMask EXCEPT ![t] = lastMask[c]]
      /\ lastPolicy' = [lastPolicy EXCEPT ![t] = lastPolicy[c]]
      /\ attr' = [attr EXCEPT ![t] = a]
      /\ tid' = [tid EXCEPT ![c] = t]
      /\ spc' = [spc EXCEPT ![c] = "create", ![t] = "policy"]
      /\ UNCHANGED <<call, arg, param, mask, ret>>
  BY DEF CreateTask
<1>2. SchedTypeOK'
  BY <1>1 DEF SchedTypeOK, SchedPCs
<1>3. Awaited'
  BY <1>1 DEF Awaited, SchedTypeOK
<1>4. Prepared' /\ NeverInvalid'
  BY <1>1 DEF Prepared, NeverInvalid, SchedTypeOK
<1>5. KernelAgrees'
  BY <1>1 DEF KernelAgrees, SchedTypeOK
<1> QED
  BY <1>2, <1>3, <1>4, <1>5

(* A running task goes to another statement of its own calls.              *)
LEMMA OwnCall ==
    ASSUME SchedInv, NEW c \in Tasks, NEW l,
           spc[c] \in {"idle", "set", "setaff", "getaff", "done"},
           l \in {"idle", "set", "setaff", "getaff", "done"},
           spc' = [spc EXCEPT ![c] = l],
           \/ UNCHANGED tid
           \/ \E t \in Tasks : tid' = [tid EXCEPT ![c] = t]
    PROVE  /\ Awaited' /\ spc' \in [Tasks -> SchedPCs]
           /\ tid' \in [Tasks -> Tasks]
<1>1. spc' \in [Tasks -> SchedPCs] /\ tid' \in [Tasks -> Tasks]
  BY DEF SchedInv, SchedTypeOK, SchedPCs
<1>2. Awaited'
  BY DEF SchedInv, SchedTypeOK, Awaited
<1> QED
  BY <1>1, <1>2

LEMMA HandleIs ==
    ASSUME NEW c \in Tasks, NEW h \in Tasks \cup {Null}
    PROVE  Tid(c, h) \in Tasks
  BY DEF Tid

(* A call begins by reading the pair and preparing the new one.            *)
LEMMA CallPrepares ==
    ASSUME SchedInv, NEW c \in Tasks, NEW h \in Tasks \cup {Null},
           \/ \E p \in AskedPolicies : SetPolicy(c, h, p)
           \/ \E n \in Priorities : SetPriority(c, h, n)
           \/ h \in Tasks /\ \E a \in Attrs : SetTaskAttr(c, h, a)
    PROVE  SchedInv'
<1> USE TaskSchedAssumption DEF SchedInv
<1>1. /\ spc[c] = "idle" /\ spc' = [spc EXCEPT ![c] = "set"]
      /\ tid' = [tid EXCEPT ![c] = Tid(c, h)]
      /\ UNCHANGED <<sched, affinity, ret, attr, last>>
  BY DEF SetPolicy, SetPriority, SetTaskAttr, Begin, SchedGoto
<1>2. Tid(c, h) \in Tasks
  BY HandleIs
<1>3. Awaited' /\ spc' \in [Tasks -> SchedPCs] /\ tid' \in [Tasks -> Tasks]
  BY <1>1, <1>2, OwnCall
<1>4. KernelAgrees'
  BY <1>1 DEF KernelAgrees, last
<1>5. sched[Tid(c, h)] \in Pairs /\ sched[Tid(c, h)].priority \in Int
      /\ sched[Tid(c, h)].policy \in Policies
  BY <1>2 DEF SchedTypeOK, Pairs
<1>6. ASSUME NEW f, NEW s \in Pairs, NEW n \in Nat, NEW m,
             call' = [call EXCEPT ![c] = f],
             param' = [param EXCEPT ![c] = s],
             arg' = [arg EXCEPT ![c] = n] \/ (UNCHANGED arg /\ n = arg[c]),
             mask' = [mask EXCEPT ![c] = m] \/ (UNCHANGED mask /\ m = mask[c]),
             \/ /\ f = "set_policy" /\ n \in OsalPolicies
                /\ s.policy = FromOsal(n) /\ Valid(s)
             \/ f = "set_priority" /\ s.priority = Clamp(s.policy, ToInt(n))
             \/ f = "set_task_attr" /\ s.policy \in OsalPolicies /\ m \in Masks
      PROVE  SchedTypeOK' /\ Prepared' /\ NeverInvalid'
  <2>1. SchedTypeOK'
    BY <1>1, <1>3, <1>6 DEF SchedTypeOK, last
  <2>2. /\ param'[c] = s /\ call'[c] = f /\ arg'[c] = n /\ mask'[c] = m
        /\ spc'[c] = "set"
        /\ \A d \in Tasks \ {c} : /\ param'[d] = param[d] /\ arg'[d] = arg[d]
                                  /\ call'[d] = call[d] /\ mask'[d] = mask[d]
                                  /\ spc'[d] = spc[d]
    BY <1>1, <1>6 DEF SchedTypeOK
  <2>3. Prepared'
    BY <1>6, <2>2 DEF Prepared, Setters, Valid
  <2>4. NeverInvalid'
    BY <1>1, <2>2 DEF NeverInvalid
  <2> QED
    BY <2>1, <2>3, <2>4
<1>7. ASSUME NEW p \in AskedPolicies, SetPolicy(c, h, p)
      PROVE  SchedTypeOK' /\ Prepared' /\ NeverInvalid'
  <2> DEFINE k == Clamp(FromOsal(p), sched[Tid(c, h)].priority)
             s == [policy |-> FromOsal(p), priority |-> k]
  <2>1. p \in OsalPolicies /\ p \in Nat /\ FromOsal(p) \in Policies
    BY PoliciesTranslate
       DEF OsalPolicies, OSAL_FIFO, OSAL_ROUND_ROBIN, OSAL_OTHER
  <2>2. k \in Int /\ k \in PriorityMin(FromOsal(p)) .. PriorityMax(FromOsal(p))
    BY <1>5, ClampIsNearest
  <2>3. s \in Pairs /\ Valid(s) /\ s.policy = FromOsal(p)
    BY <2>1, <2>2 DEF Pairs, Valid
  <2>4. /\ call' = [call EXCEPT ![c] = "set_policy"]
        /\ param' = [param EXCEPT ![c] = s]
        /\ arg' = [arg EXCEPT ![c] = p] /\ UNCHANGED mask
    BY <1>7 DEF SetPolicy, Begin
  <2> HIDE DEF s
  <2> QED
    BY <1>6, <2>1, <2>3, <2>4
<1>8. ASSUME NEW n \in Priorities, SetPriority(c, h, n)
      PROVE  SchedTypeOK' /\ Prepared' /\ NeverInvalid'
  <2> DEFINE p == sched[Tid(c, h)].policy
             s == [policy |-> p, priority |-> Clamp(p, ToInt(n))]
  <2>0. n \in Nat
    OBVIOUS
  <2>1. Clamp(p, ToInt(n)) \in Int
    BY <2>0, ClampIsNearest, ToIntIs
  <2>2. s \in Pairs /\ s.priority = Clamp(s.policy, ToInt(n))
    BY <1>5, <2>1 DEF Pairs
  <2>3. /\ call' = [call EXCEPT ![c] = "set_priority"]
        /\ param' = [param EXCEPT ![c] = s]
        /\ arg' = [arg EXCEPT ![c] = n] /\ UNCHANGED mask
    BY <1>8 DEF SetPriority, Begin
  <2> HIDE DEF s
  <2> QED
    BY <1>6, <2>0, <2>2, <2>3
<1>9. ASSUME NEW a \in Attrs, SetTaskAttr(c, h, a)
      PROVE  SchedTypeOK' /\ Prepared' /\ NeverInvalid'
  <2> DEFINE s == [policy |-> a.policy, priority |-> ToInt(a.priority)]
  <2>1. /\ a.policy \in OsalPolicies /\ a.policy \in Policies
        /\ ToInt(a.priority) \in Int /\ a.affinity \in Masks
    <3>1. /\ a.policy \in AskedPolicies /\ a.priority \in AttrPriorities
          /\ a.affinity \in AttrMasks
      BY DEF Attrs
    <3>2. a.priority \in 0 .. 2 * SignBit - 1
      BY <3>1
    <3>3. a.priority \in Nat
      BY <3>2
    <3> QED
      BY <3>1, <3>3, PoliciesTranslate, ToIntIs
  <2>2. s \in Pairs /\ s.policy \in OsalPolicies
    BY <2>1 DEF Pairs
  <2>3. /\ call' = [call EXCEPT ![c] = "set_task_attr"]
        /\ param' = [param EXCEPT ![c] = s]
        /\ mask' = [mask EXCEPT ![c] = a.affinity] /\ UNCHANGED arg
    BY <1>9 DEF SetTaskAttr, Begin
  <2>4. arg[c] \in Nat
    BY DEF SchedTypeOK
  <2> HIDE DEF s
  <2> QED
    BY <1>6, <2>1, <2>2, <2>3, <2>4
<1> QED
  BY <1>3, <1>4, <1>7, <1>8, <1>9

(***************************************************************************)
(* The prepared pair is written, if the kernel takes it; of an             *)
(* osal_task_set_priority or osal_task_set_policy it is never illegal.     *)
(***************************************************************************)
LEMMA PairPrepared ==
    ASSUME SchedInv, NEW c \in Tasks, WriteBack(c)
    PROVE  /\ call[c] \in Setters /\ param[c] \in Pairs /\ arg[c] \in Nat
           /\ Written(c) \in Tasks
           /\ call[c] # "set_task_attr" => Valid(param[c])
           /\ SetSchedResult(c, Written(c), param[c]) \in
                 {"OK", "INVALID_PARAM", "PERMISSION_DENIED"}
           /\ Valid(param[c]) =>
                 SetSchedResult(c, Written(c), param[c]) # "INVALID_PARAM"
<1>1. spc[c] = "set" /\ param[c] \in Pairs /\ arg[c] \in Nat
      /\ tid[c] \in Tasks
  BY DEF WriteBack, SchedInv, SchedTypeOK
<1>2. call[c] \in Setters /\ Written(c) \in Tasks
  BY <1>1 DEF SchedInv, Prepared, Written
<1>3. call[c] = "set_policy" => Valid(param[c])
  BY <1>1 DEF SchedInv, Prepared
<1>4. call[c] = "set_priority" => Valid(param[c])
  BY <1>1, ClampIsNearest, ToIntIs DEF SchedInv, Prepared, Valid
<1>5. /\ SetSchedResult(c, Written(c), param[c]) \in
            {"OK", "INVALID_PARAM", "PERMISSION_DENIED"}
      /\ Valid(param[c]) =>
            SetSchedResult(c, Written(c), param[c]) # "INVALID_PARAM"
  BY DEF SetSchedResult
<1> QED
  BY <1>1, <1>2, <1>3, <1>4, <1>5 DEF Setters

LEMMA PairWritten ==
    ASSUME SchedInv, NEW c \in Tasks, WriteBack(c) PROVE SchedInv'
<1> DEFINE r == SetSchedResult(c, Written(c), param[c])
           l == IF r = "OK" /\ call[c] = "set_task_attr"
                THEN "setaff" ELSE "done"
<1>1. /\ call[c] \in Setters /\ param[c] \in Pairs /\ Written(c) \in Tasks
      /\ call[c] # "set_task_attr" => r # "INVALID_PARAM"
  BY PairPrepared
<1>2. /\ spc[c] = "set" /\ spc' = [spc EXCEPT ![c] = l]
      /\ ret' = [ret EXCEPT ![c] = r]
      /\ UNCHANGED <<affinity, local, attr, lastMask>>
  BY DEF WriteBack, SchedGoto, Put
<1>3. /\ sched' \in [Tasks -> Pairs] /\ lastPolicy' \in [Tasks -> LastPolicies]
      /\ \A t \in Tasks : \/ lastPolicy'[t] = ToOsal(sched'[t].policy)
                          \/ lastPolicy'[t] = Muddled
  <2>0. /\ sched \in [Tasks -> Pairs] /\ lastPolicy \in [Tasks -> LastPolicies]
        /\ tid[c] \in Tasks
        /\ \A t \in Tasks : \/ lastPolicy[t] = ToOsal(sched[t].policy)
                            \/ lastPolicy[t] = Muddled
    BY DEF SchedInv, SchedTypeOK, KernelAgrees
  <2>1. CASE r # "OK"
    BY <2>0, <2>1 DEF WriteBack
  <2>2. CASE r = "OK"
    <3>1. sched' = [sched EXCEPT ![Written(c)] = param[c]] /\ Wrote(c)
      BY <2>2 DEF WriteBack
    <3>3. CASE call[c] = "set_policy"
      <4>1. arg[c] \in OsalPolicies /\ param[c].policy = FromOsal(arg[c])
        BY <1>2, <3>3 DEF SchedInv, Prepared
      <4>2. ToOsal(param[c].policy) = arg[c]
        BY <4>1, PoliciesTranslate
      <4>3. /\ Written(c) = c
            /\ lastPolicy' = [t \in Tasks |->
                                IF t \in {c, tid[c]} THEN Asked(c)
                                                     ELSE lastPolicy[t]]
        BY <3>1, <3>3 DEF Wrote, Written
      <4>4. Asked(c) = IF tid[c] = c THEN arg[c] ELSE Muddled
        BY <3>3 DEF Asked
      <4> QED
        BY <1>1, <2>0, <3>1, <4>1, <4>2, <4>3, <4>4 DEF LastPolicies
    <3>4. CASE call[c] # "set_policy"
      <4>1. Written(c) = tid[c]
        BY <3>4 DEF Written
      <4>2. lastPolicy' = [lastPolicy EXCEPT ![tid[c]] = Asked(c)]
        BY <2>0, <3>1, <3>4 DEF Wrote
      <4>3. /\ Asked(c) \in LastPolicies
            /\ Asked(c) = ToOsal(param[c].policy) \/ Asked(c) = Muddled
        <5>1. CASE call[c] = "set_priority"
          <6>1. \/ Asked(c) = Muddled
                \/ /\ sched[tid[c]].policy = param[c].policy
                   /\ Asked(c) = lastPolicy[tid[c]]
            BY <5>1 DEF Asked
          <6> QED
            BY <2>0, <6>1 DEF LastPolicies
        <5>2. CASE call[c] = "set_task_attr"
          <6>1. param[c].policy \in OsalPolicies /\ Asked(c) = param[c].policy
            BY <1>2, <5>2 DEF SchedInv, Prepared, Asked
          <6>2. ToOsal(param[c].policy) = param[c].policy
            BY <6>1, PoliciesTranslate
          <6> QED
            BY <6>1, <6>2 DEF LastPolicies
        <5> QED
          BY <1>1, <3>4, <5>1, <5>2 DEF Setters
      <4> QED
        BY <1>1, <2>0, <3>1, <4>1, <4>2, <4>3
    <3> QED
      BY <3>3, <3>4
  <2> QED
    BY <2>1, <2>2
<1>4. l \in {"setaff", "done"} /\ (l = "setaff" => call[c] = "set_task_attr")
  OBVIOUS
<1> HIDE DEF l, r
<1>5. Awaited' /\ spc' \in [Tasks -> SchedPCs] /\ tid' \in [Tasks -> Tasks]
  BY <1>2, <1>4, OwnCall DEF local
<1>6. SchedTypeOK'
  BY <1>2, <1>3, <1>5 DEF SchedInv, SchedTypeOK, local
<1>7. Prepared'
  BY <1>2, <1>4 DEF SchedInv, SchedTypeOK, Prepared, local
<1>8. NeverInvalid'
  BY <1>1, <1>2, <1>4 DEF SchedInv, SchedTypeOK, NeverInvalid, local
<1>9. KernelAgrees'
  BY <1>2, <1>3 DEF SchedInv, KernelAgrees
<1> QED
  BY <1>5, <1>6, <1>7, <1>8, <1>9 DEF SchedInv

(* The calls that set an affinity or read attributes, and the returns.     *)
LEMMA OtherCalls ==
    ASSUME SchedInv, NEW c \in Tasks, NEW h \in Tasks \cup {Null},
           \/ WriteAffinity(c) \/ ReadAffinity(c) \/ Return(c)
           \/ \E m \in AskedMasks : SetAffinity(c, h, m)
           \/ GetAffinity(c, h)
           \/ h \in Tasks /\ GetTaskAttr(c, h)
    PROVE  SchedInv'
<1> USE TaskSchedAssumption DEF SchedInv
<1>0. Tid(c, h) \in Tasks
  BY HandleIs
<1>1. /\ UNCHANGED <<sched, attr, lastPolicy>>
      /\ \E l \in {"idle", "getaff", "done"} :
            /\ spc' = [spc EXCEPT ![c] = l]
            /\ spc[c] \in {"idle", "setaff", "getaff", "done"}
      /\ \/ UNCHANGED tid
         \/ \E t \in Tasks : tid' = [tid EXCEPT ![c] = t]
  BY <1>0
     DEF WriteAffinity, ReadAffinity, Return, SetAffinity, GetAffinity,
         GetTaskAttr, Begin, SchedGoto, local, last
<1>2. Awaited' /\ spc' \in [Tasks -> SchedPCs] /\ tid' \in [Tasks -> Tasks]
  BY <1>1, OwnCall
<1>3. /\ affinity' \in [Tasks -> SUBSET Cpus] /\ KernelAgrees'
      /\ lastMask' \in [Tasks -> Masks]
  <2>1. {} \in Masks /\ tid[c] \in Tasks
    BY DEF Masks, SchedTypeOK
  <2>2. CASE WriteAffinity(c)
    <3>1. SetAffinityOf(tid[c], mask[c]) /\ mask[c] \in Masks
      BY <2>2 DEF WriteAffinity, Prepared
    <3> QED
      BY <1>1, <2>1, <3>1, AffinityWritten
  <2>3. ASSUME NEW m \in AskedMasks, SetAffinity(c, h, m)
        PROVE  /\ affinity' \in [Tasks -> SUBSET Cpus] /\ KernelAgrees'
               /\ lastMask' \in [Tasks -> Masks]
    <3>1. /\ m \in Masks
          /\ \/ SetAffinityOf(Tid(c, h), m)
             \/ UNCHANGED <<affinity, lastMask>>
      BY <2>3 DEF SetAffinity
    <3> QED
      BY <1>0, <1>1, <3>1, AffinityWritten
  <2>4. CASE UNCHANGED <<affinity, lastMask>>
    BY <1>1, <2>1, <2>4, AffinityWritten
  <2> QED
    BY <2>2, <2>3, <2>4
       DEF ReadAffinity, Return, GetAffinity, GetTaskAttr, last
<1>4. /\ param' \in [Tasks -> Pairs] /\ arg' \in [Tasks -> Nat]
      /\ DOMAIN call' = Tasks /\ DOMAIN ret' = Tasks /\ DOMAIN mask' = Tasks
  <2>1. Default \in Pairs
    BY DEF Default, Pairs, Policies, SCHED_OTHER, SCHED_FIFO, SCHED_RR,
           SCHED_BATCH
  <2>2. h \in Tasks => sched[h] \in Pairs
    BY DEF SchedTypeOK
  <2> QED
    BY <2>1, <2>2
       DEF SchedTypeOK, WriteAffinity, ReadAffinity, Return, SetAffinity,
           GetAffinity, GetTaskAttr, Begin, Put, local, last
<1>5. SchedTypeOK'
  BY <1>1, <1>2, <1>3, <1>4 DEF SchedTypeOK
<1>6. /\ spc'[c] \notin {"set", "setaff"}
      /\ spc'[c] # "idle" => call'[c] \notin {"set_policy", "set_priority"}
      /\ spc'[c] = "getaff" => call'[c] \notin Setters
      /\ \A d \in Tasks \ {c} :
            /\ spc'[d] = spc[d] /\ call'[d] = call[d] /\ arg'[d] = arg[d]
            /\ param'[d] = param[d] /\ mask'[d] = mask[d] /\ ret'[d] = ret[d]
  BY DEF SchedTypeOK, Prepared, Setters, WriteAffinity, ReadAffinity,
         Return, SetAffinity, GetAffinity, GetTaskAttr, Begin, SchedGoto,
         Put, local, last
<1>7. Prepared'
  BY <1>6 DEF Prepared
<1>8. NeverInvalid'
  BY <1>6 DEF NeverInvalid
<1> QED
  BY <1>2, <1>3, <1>5, <1>7, <1>8

LEMMA SchedStep == SchedInv /\ [SchedNext]_schedvars => SchedInv'
<1> SUFFICES ASSUME SchedInv, [SchedNext]_schedvars PROVE SchedInv'
  OBVIOUS
<1>1. CASE UNCHANGED schedvars
  <2>1. SchedTypeOK' /\ Awaited'
    BY <1>1 DEF schedvars, local, last, SchedInv, SchedTypeOK, Awaited
  <2>2. Prepared' /\ KernelAgrees' /\ NeverInvalid'
    BY <1>1
       DEF schedvars, local, last, SchedInv, Prepared, KernelAgrees,
           NeverInvalid, Valid
  <2> QED
    BY <2>1, <2>2 DEF SchedInv
<1>2. CASE SchedNext
  <2> PICK c \in Tasks :
        \/ WrapperPolicy(c) \/ WrapperPriority(c) \/ WrapperAffinity(c)
        \/ WriteBack(c) \/ WriteAffinity(c) \/ ReadAffinity(c) \/ Return(c)
        \/ \E t \in Tasks, a \in Attrs \cup {NoAttr} : CreateTask(c, t, a)
        \/ \E h \in Tasks \cup {Null} :
              \/ \E p \in AskedPolicies : SetPolicy(c, h, p)
              \/ \E n \in Priorities : SetPriority(c, h, n)
              \/ \E m \in AskedMasks : SetAffinity(c, h, m)
              \/ GetAffinity(c, h)
        \/ \E t \in Tasks :
              \/ \E a \in Attrs : SetTaskAttr(c, t, a)
              \/ GetTaskAttr(c, t)
    BY <1>2 DEF SchedNext
  <2> QED
    BY WrapperWrites, WrapperEnds, TaskCreated, CallPrepares, PairWritten,
       OtherCalls
<1> QED
  BY <1>1, <1>2

(***************************************************************************)
(* The invariant of the attributes: every pair that osal_task_set_policy   *)
(* or osal_task_set_priority is about to write is legal on its own,        *)
(* whatever other threads do since it was read, and the kernel has what    *)
(* each task was given last.                                               *)
(***************************************************************************)
THEOREM SchedInvariant == SchedSpec => []SchedInv
  BY SchedInitially, SchedStep, PTL DEF SchedSpec

(***************************************************************************)
(* osal_task_set_policy and osal_task_set_priority never fail with         *)
(* OSAL_ERR_INVALID_PARAM.                                                 *)
(***************************************************************************)
THEOREM PairsAreLegal == SchedSpec => []NeverInvalid
<1>1. SchedInv => NeverInvalid
  BY DEF SchedInv
<1> QED
  BY <1>1, SchedInvariant, PTL

(* A call leaves "set" only by its own write, and reads a mask only in its *)
(* own step.                                                               *)
LEMMA CallsEnd ==
    ASSUME SchedInv, SchedNext, NEW c \in Tasks, spc'[c] = "done"
    PROVE  /\ spc[c] = "set" => WriteBack(c)
           /\ spc[c] = "getaff" => ReadAffinity(c)
<1> USE DEF SchedInv, SchedTypeOK
<1>1. PICK d \in Tasks :
        \/ WrapperPolicy(d) \/ WrapperPriority(d) \/ WrapperAffinity(d)
        \/ WriteBack(d) \/ WriteAffinity(d) \/ ReadAffinity(d) \/ Return(d)
        \/ \E t \in Tasks, a \in Attrs \cup {NoAttr} : CreateTask(d, t, a)
        \/ \E h \in Tasks \cup {Null} :
              \/ \E p \in AskedPolicies : SetPolicy(d, h, p)
              \/ \E n \in Priorities : SetPriority(d, h, n)
              \/ \E m \in AskedMasks : SetAffinity(d, h, m)
              \/ GetAffinity(d, h)
        \/ \E t \in Tasks :
              \/ \E a \in Attrs : SetTaskAttr(d, t, a)
              \/ GetTaskAttr(d, t)
  BY DEF SchedNext
<1>2. CASE WrapperAffinity(d)
  <2> DEFINE e == CHOOSE e \in Tasks : spc[e] = "create" /\ tid[e] = d
  <2>1. e \in Tasks /\ spc[e] = "create"
    BY <1>2 DEF WrapperAffinity, Awaited
  <2>2. spc' = [spc EXCEPT ![d] = "idle", ![e] = "idle"]
    BY <1>2 DEF WrapperAffinity
  <2> HIDE DEF e
  <2> QED
    BY <2>1, <2>2
<1>3. CASE ~WrapperAffinity(d)
  <2>1. c # d => spc'[c] = spc[c] \/ spc'[c] = "policy"
    BY <1>1, <1>3
       DEF WrapperPolicy, WrapperPriority, WriteBack, WriteAffinity,
           ReadAffinity, Return, CreateTask, SetPolicy, SetPriority,
           SetAffinity, GetAffinity, SetTaskAttr, GetTaskAttr, SchedGoto
  <2>2. spc[d] \in {"set", "getaff"} => WriteBack(d) \/ ReadAffinity(d)
    BY <1>1, <1>3
       DEF WrapperPolicy, WrapperPriority, WriteAffinity, Return, CreateTask,
           SetPolicy, SetPriority, SetAffinity, GetAffinity, SetTaskAttr,
           GetTaskAttr, Begin
  <2>3. spc[c] \in {"set", "getaff"} => c = d
    BY <2>1
  <2> QED
    BY <2>2, <2>3 DEF WriteBack, ReadAffinity
<1> QED
  BY <1>2, <1>3

(***************************************************************************)
(* A successful osal_task_set_priority leaves the thread with the legal    *)
(* priority of its policy that is nearest to the one asked for, whatever   *)
(* was changed between its read and its write - if an int can hold it.     *)
(***************************************************************************)
THEOREM PriorityIsNearest == SchedSpec => NearestPriority
<1>1. ASSUME SchedInv, SchedNext, NEW c \in Tasks, NEW t \in Tasks,
             call[c] = "set_priority", spc[c] = "set", ret'[c] = "OK",
             spc'[c] = "done", t = tid[c], arg[c] < SignBit,
             NEW n \in PriorityMin(sched'[t].policy)
                         .. PriorityMax(sched'[t].policy)
      PROVE  Distance(GetPriority(t)', arg[c]) <= Distance(n, arg[c])
  <2>1. WriteBack(c)
    BY <1>1, CallsEnd
  <2>2. Written(c) = t
    BY <1>1 DEF Written
  <2>3. SetSchedResult(c, t, param[c]) = "OK"
    BY <1>1, <2>1, <2>2 DEF WriteBack, Put, SchedInv, SchedTypeOK
  <2>4. sched'[t] = param[c]
    BY <1>1, <2>1, <2>2, <2>3 DEF WriteBack, SchedInv, SchedTypeOK
  <2>5. /\ param[c].priority = Clamp(param[c].policy, arg[c])
        /\ arg[c] \in Nat
    BY <1>1, ToIntIs DEF SchedInv, Prepared, SchedTypeOK
  <2> QED
    BY <1>1, <2>4, <2>5, ClampIsNearest DEF GetPriority
<1>2. SchedInv /\ [SchedNext]_schedvars =>
         [\A c, t \in Tasks :
            call[c] = "set_priority" /\ spc[c] = "set" /\ ret'[c] = "OK"
              /\ spc'[c] = "done" /\ t = tid[c] /\ arg[c] < SignBit =>
              LET p == sched'[t].policy
              IN  \A n \in PriorityMin(p) .. PriorityMax(p) :
                     Distance(GetPriority(t)', arg[c])
                       <= Distance(n, arg[c])]_schedvars
  BY <1>1
<1> QED
  BY <1>2, SchedInvariant, PTL DEF SchedSpec, NearestPriority

(***************************************************************************)
(* The affinity that is read is the one that was set last, cut to the      *)
(* processors that exist, whoever set it.                                  *)
(***************************************************************************)
THEOREM AffinityIsLast == SchedSpec => AffinityReadsBack
<1>1. ASSUME SchedInv, SchedNext, NEW c \in Tasks, spc[c] = "getaff",
             spc'[c] = "done", lastMask[tid[c]] # {}
      PROVE  mask'[c] = lastMask[tid[c]] \cap Cpus
  <2>1. tid[c] \in Tasks /\ lastMask[tid[c]] \in Masks
    BY <1>1 DEF SchedInv, SchedTypeOK
  <2>2. affinity[tid[c]] = lastMask[tid[c]] \cap Cpus
    BY <1>1, <2>1 DEF SchedInv, KernelAgrees
  <2>3. affinity[tid[c]] \subseteq 0 .. MaskBits - 1
    BY <2>1, <2>2 DEF Masks
  <2>4. PICK m \in GetAffinityMasks(affinity[tid[c]]) :
           mask' = [mask EXCEPT ![c] = m]
    BY <1>1, CallsEnd DEF ReadAffinity
  <2>5. m = affinity[tid[c]]
    BY <2>3, MaskIsRead
  <2> QED
    BY <1>1, <2>2, <2>4, <2>5 DEF SchedInv, SchedTypeOK
<1>2. SchedInv /\ [SchedNext]_schedvars =>
         [\A c \in Tasks :
            spc[c] = "getaff" /\ spc'[c] = "done" /\ lastMask[tid[c]] # {} =>
                mask'[c] = lastMask[tid[c]] \cap Cpus]_schedvars
  BY <1>1
<1> QED
  BY <1>2, SchedInvariant, PTL DEF SchedSpec, AffinityReadsBack

(***************************************************************************)
(* The policy that is read is the one last asked for by the handle of the  *)
(* thread, although two functions give the kernel different numbers for    *)
(* it; the threads that PolicyReadsBack names are excepted.                *)
(***************************************************************************)
THEOREM PolicyIsLast == SchedSpec => []PolicyReadsBack
<1>1. SchedInv => PolicyReadsBack
  BY DEF SchedInv, KernelAgrees, PolicyReadsBack, GetPolicy
<1> QED
  BY <1>1, SchedInvariant, PTL
=============================================================================
