------------------------------ MODULE TaskSched ------------------------------
(***************************************************************************)
(* Scheduling attributes of tasks in the POSIX port (posix/task.c): policy *)
(* and priority, which the kernel keeps per thread and changes as a pair,  *)
(* and the affinity.  osal_task_set_policy and osal_task_set_priority read *)
(* the pair, change one half and write both back, osal_task_set_task_attr  *)
(* writes the pair and then the affinity: in steps that other threads      *)
(* interleave with.  The wrapper of a new task applies its attributes with *)
(* the same functions.  An affinity mask is the set of its bits.           *)
(*                                                                         *)
(* spc[t]: none, not started; policy, priority, affinity: the wrapper is   *)
(* about to apply these; idle: between calls; create: in osal_task_create; *)
(* set, setaff, getaff: about to write the pair, to write or to read the   *)
(* affinity; done: about to return ret.                                    *)
(***************************************************************************)
EXTENDS Integers

CONSTANTS
    Tasks,
    Started,        (* threads running at the start                        *)
    Privileged,     (* threads that may ask for real-time scheduling       *)
    Null,           (* the handle NULL                                     *)
    Cpus,           (* processors of the machine, numbered from 0          *)
    MaskBits,       (* bits of an affinity mask, 32 in the code            *)
    MaxPrio,        (* highest real-time priority, 99 on Linux             *)
    SignBit,        (* value of the sign bit of an int, 2^31 in the code   *)
    AskedPolicies,  (* bound: policies asked for                           *)
    Priorities,     (* bound: priorities osal_task_set_priority is given   *)
    AttrPriorities, (* bound: priorities in an attribute record            *)
    AskedMasks,     (* bound: masks osal_task_set_affinity is given        *)
    AttrMasks,      (* bound: masks in an attribute record                 *)
    Calls           (* functions the threads call                          *)

(* The kernel's policies, and the ones of task.h.                          *)
SCHED_OTHER == 0
SCHED_FIFO == 1
SCHED_RR == 2
SCHED_BATCH == 3
OSAL_FIFO == 1
OSAL_ROUND_ROBIN == 2
OSAL_OTHER == 3
Policies == {SCHED_OTHER, SCHED_FIFO, SCHED_RR, SCHED_BATCH}
OsalPolicies == {OSAL_FIFO, OSAL_ROUND_ROBIN, OSAL_OTHER}
Masks == SUBSET (0 .. MaskBits - 1)

ASSUME TaskSchedAssumption ==
    /\ Started \subseteq Tasks /\ Privileged \subseteq Tasks
    /\ Null \notin Tasks
    /\ Cpus \subseteq Nat /\ Cpus # {} /\ MaskBits \in Nat \ {0}
    /\ MaxPrio \in Nat \ {0} /\ SignBit \in Nat /\ MaxPrio < SignBit
    /\ AskedPolicies \subseteq OsalPolicies
    /\ Priorities \subseteq 0 .. 2 * SignBit - 1
    /\ AttrPriorities \subseteq 0 .. 2 * SignBit - 1
    /\ AskedMasks \subseteq Masks /\ AttrMasks \subseteq Masks

VARIABLES
    sched,      (* per thread: [policy, priority] as the kernel has it     *)
    affinity,   (* per thread: the processors it may run on                *)
    spc, call,  (* per thread: next statement, function it is in           *)
    tid,        (* per thread: the thread the handle stands for            *)
    arg,        (* per thread: the policy or priority asked for            *)
    param,      (* per thread: the pair the function writes, or has read   *)
    mask,       (* per thread: the mask it sets, or has read               *)
    ret,        (* per thread: the result                                  *)
    attr,       (* per thread: attributes its wrapper has to apply         *)
    lastMask,   (* history, per thread: the mask its affinity was set to   *)
                (* last, {} if it never was                                *)
    lastPolicy  (* history, per thread: the policy of task.h that was last *)
                (* asked for it, by its handle, with the result OSAL_OK;   *)
                (* Muddled if the call changed another thread's policy, or *)
                (* if a call that asks for none has changed it since       *)

local == <<call, tid, arg, param, mask>>
last == <<lastMask, lastPolicy>>
schedvars == <<sched, affinity, spc, local, ret, attr, last>>

Realtime(p) == p \in {SCHED_FIFO, SCHED_RR}
(* sched_get_priority_min, sched_get_priority_max                          *)
PriorityMin(p) == IF Realtime(p) THEN 1 ELSE 0
PriorityMax(p) == IF Realtime(p) THEN MaxPrio ELSE 0
Valid(s) == s.priority \in PriorityMin(s.policy) .. PriorityMax(s.policy)

(* pthread_setschedparam: range first, then permission.                    *)
SetSchedResult(c, t, s) ==
    IF ~Valid(s) THEN "INVALID_PARAM"
    ELSE IF \/ c \in Privileged \/ ~Realtime(s.policy)
            \/ s.policy = sched[t].policy /\ s.priority <= sched[t].priority
         THEN "OK" ELSE "PERMISSION_DENIED"

(* pthread_setaffinity_np leaves out processors that are not there and     *)
(* refuses an empty set.                                                   *)
SetAffinityResult(m) == IF m \cap Cpus = {} THEN "INVALID_PARAM" ELSE "OK"

SetAffinityOf(t, m) ==
    IF SetAffinityResult(m) = "OK"
    THEN /\ affinity' = [affinity EXCEPT ![t] = m \cap Cpus]
         /\ lastMask' = [lastMask EXCEPT ![t] = m]
    ELSE UNCHANGED <<affinity, lastMask>>

(* The masks that may be read for a set of processors: from the width of   *)
(* the mask on 1u << j is undefined, and sets the bit j modulo the width,  *)
(* or none.                                                                *)
GetAffinityMasks(S) ==
    {(S \cap (0 .. MaskBits - 1)) \cup {j % MaskBits : j \in T} :
        T \in SUBSET {j \in S : j >= MaskBits}}

(* Mutant: a priority that is too high becomes the lowest one.             *)
ClampToMin(p, n) ==
    IF PriorityMin(p) > n \/ PriorityMax(p) < n THEN PriorityMin(p) ELSE n

(* The priority is forced into the range of the policy.                    *)
Clamp(p, n) ==
    IF PriorityMin(p) > n THEN PriorityMin(p)
    ELSE IF PriorityMax(p) < n THEN PriorityMax(p) ELSE n

(* An osal_uint32_t is assigned to the int sched_priority.                 *)
ToInt(n) == IF n >= SignBit THEN n - 2 * SignBit ELSE n

FromOsal(p) ==
    CASE p = OSAL_FIFO -> SCHED_FIFO
      [] p = OSAL_ROUND_ROBIN -> SCHED_RR
      [] OTHER -> SCHED_OTHER

ToOsal(p) ==
    CASE p = SCHED_FIFO -> OSAL_FIFO
      [] p = SCHED_RR -> OSAL_ROUND_ROBIN
      [] OTHER -> OSAL_OTHER

SchedGoto(t, l) == spc' = [spc EXCEPT ![t] = l]
Put(t, r) == ret' = [ret EXCEPT ![t] = r]
Muddled == 0
NoAttr == [policy |-> 0, priority |-> 0, affinity |-> {}]
Attrs == [policy : AskedPolicies, priority : AttrPriorities,
          affinity : AttrMasks]
Default == [policy |-> SCHED_OTHER, priority |-> 0]
Applying == {"none", "policy", "priority", "affinity"}
Running == {t \in Tasks : spc[t] \notin Applying}
(* The thread a handle stands for in a call by c.                          *)
Tid(c, h) == IF h = Null THEN c ELSE h
-----------------------------------------------------------------------------
(* A process may be started with any affinity, by taskset for one.         *)
SchedInit ==
    /\ sched = [t \in Tasks |-> Default]
    /\ \E S \in (SUBSET Cpus) \ {{}} : affinity = [t \in Tasks |-> S]
    /\ spc = [t \in Tasks |-> IF t \in Started THEN "idle" ELSE "none"]
    /\ call = [t \in Tasks |-> "none"]
    /\ tid = [t \in Tasks |-> t]
    /\ arg = [t \in Tasks |-> 0]
    /\ param = [t \in Tasks |-> Default]
    /\ mask = [t \in Tasks |-> {}]
    /\ ret = [t \in Tasks |-> "OK"]
    /\ attr = [t \in Tasks |-> NoAttr]
    /\ lastMask = [t \in Tasks |-> {}]
    /\ lastPolicy = [t \in Tasks |-> OSAL_OTHER]

(* osal_task_create: the new thread inherits its creator's scheduling, the *)
(* creator waits for the wrapper.                                          *)
CreateTask(c, t, a) ==
    /\ "create" \in Calls /\ spc[c] = "idle" /\ spc[t] = "none"
    /\ sched' = [sched EXCEPT ![t] = sched[c]]
    /\ affinity' = [affinity EXCEPT ![t] = affinity[c]]
    /\ lastMask' = [lastMask EXCEPT ![t] = lastMask[c]]
    /\ lastPolicy' = [lastPolicy EXCEPT ![t] = lastPolicy[c]]
    /\ attr' = [attr EXCEPT ![t] = a]
    /\ tid' = [tid EXCEPT ![c] = t]
    /\ spc' = [spc EXCEPT ![c] = "create", ![t] = "policy"]
    /\ UNCHANGED <<call, arg, param, mask, ret>>

(* posix_task_wrapper sets policy, priority and affinity, each if it is    *)
(* not 0; the results are only printed.                                    *)
WrapperPolicy(t) ==
    /\ spc[t] = "policy"
    /\ LET p == FromOsal(attr[t].policy)
           s == [policy |-> p, priority |-> Clamp(p, sched[t].priority)]
       IN  IF attr[t].policy = 0 \/ SetSchedResult(t, t, s) # "OK"
           THEN UNCHANGED <<sched, lastPolicy>>
           ELSE /\ sched' = [sched EXCEPT ![t] = s]
                /\ lastPolicy' = [lastPolicy EXCEPT ![t] = attr[t].policy]
    /\ SchedGoto(t, "priority")
    /\ UNCHANGED <<affinity, local, ret, attr, lastMask>>

WrapperPriority(t) ==
    /\ spc[t] = "priority"
    /\ LET p == sched[t].policy
           s == [policy |-> p, priority |-> Clamp(p, ToInt(attr[t].priority))]
       IN  IF attr[t].priority = 0 \/ SetSchedResult(t, t, s) # "OK"
           THEN UNCHANGED sched
           ELSE sched' = [sched EXCEPT ![t] = s]
    /\ SchedGoto(t, "affinity")
    /\ UNCHANGED <<affinity, local, ret, attr, last>>

(* Then running is set, and osal_task_create returns OSAL_OK whatever the  *)
(* results were.                                                           *)
WrapperAffinity(t) ==
    /\ spc[t] = "affinity"
    /\ IF attr[t].affinity = {} THEN UNCHANGED <<affinity, lastMask>>
       ELSE SetAffinityOf(t, attr[t].affinity)
    /\ attr' = [attr EXCEPT ![t] = NoAttr]
    /\ LET c == CHOOSE c \in Tasks : spc[c] = "create" /\ tid[c] = t
       IN  /\ spc' = [spc EXCEPT ![t] = "idle", ![c] = "idle"]
           /\ tid' = [tid EXCEPT ![c] = c]
    /\ UNCHANGED <<sched, call, arg, param, mask, ret, lastPolicy>>

Begin(c, f, h) ==
    /\ f \in Calls /\ spc[c] = "idle" /\ Tid(c, h) \in Running
    /\ call' = [call EXCEPT ![c] = f]
    /\ tid' = [tid EXCEPT ![c] = Tid(c, h)]
    /\ UNCHANGED attr

(* osal_task_set_policy, up to the clamping                                *)
SetPolicy(c, h, p) ==
    /\ Begin(c, "set_policy", h)
    /\ arg' = [arg EXCEPT ![c] = p]
    /\ param' = [param EXCEPT ![c] =
                    [policy   |-> FromOsal(p),
                     priority |-> Clamp(FromOsal(p),
                                        sched[Tid(c, h)].priority)]]
    /\ SchedGoto(c, "set")
    /\ UNCHANGED <<sched, affinity, mask, ret, last>>

(* osal_task_set_priority, up to the clamping                              *)
SetPriority(c, h, n) ==
    /\ Begin(c, "set_priority", h)
    /\ arg' = [arg EXCEPT ![c] = n]
    /\ LET p == sched[Tid(c, h)].policy
       IN  param' = [param EXCEPT ![c] =
                        [policy |-> p, priority |-> Clamp(p, ToInt(n))]]
    /\ SchedGoto(c, "set")
    /\ UNCHANGED <<sched, affinity, mask, ret, last>>

(* osal_task_set_task_attr: no handle NULL, no clamping, and the policy    *)
(* number of task.h is given to the kernel as it is.                       *)
SetTaskAttr(c, t, a) ==
    /\ Begin(c, "set_task_attr", t)
    /\ param' = [param EXCEPT ![c] = [policy   |-> a.policy,
                                      priority |-> ToInt(a.priority)]]
    /\ mask' = [mask EXCEPT ![c] = a.affinity]
    /\ SchedGoto(c, "set")
    /\ UNCHANGED <<sched, affinity, arg, ret, last>>

(* Mutant: all three write the attributes of the caller.                   *)
WrittenCaller(c) == c

(* The write: set_policy writes the CALLER's attributes, the others the    *)
(* ones of the thread the handle stands for.                               *)
Written(c) == IF call[c] = "set_policy" THEN c ELSE tid[c]

(* The policy that the caller has asked for by that.                       *)
(* osal_task_set_priority asks for none, but writes one.                   *)
Asked(c) ==
    CASE call[c] = "set_policy" -> IF tid[c] = c THEN arg[c] ELSE Muddled
      [] call[c] = "set_task_attr" -> param[c].policy
      [] call[c] = "set_priority" ->
            IF sched[tid[c]].policy = param[c].policy
            THEN lastPolicy[tid[c]] ELSE Muddled

Wrote(c) ==
    lastPolicy' =
        [t \in Tasks |->
            IF t = tid[c] \/ (t = c /\ call[c] = "set_policy")
            THEN Asked(c) ELSE lastPolicy[t]]

(* Mutant: the policy is read once more, after the clamping.               *)
WriteBackFreshPolicy(c) ==
    /\ spc[c] = "set"
    /\ LET s == IF call[c] # "set_priority" THEN param[c]
                ELSE [param[c] EXCEPT !.policy = sched[tid[c]].policy]
           r == SetSchedResult(c, Written(c), s)
       IN  /\ Put(c, r)
           /\ IF r # "OK" THEN UNCHANGED <<sched, lastPolicy>>
              ELSE sched' = [sched EXCEPT ![Written(c)] = s] /\ Wrote(c)
           /\ SchedGoto(c, IF r = "OK" /\ call[c] = "set_task_attr"
                           THEN "setaff" ELSE "done")
    /\ UNCHANGED <<affinity, local, attr, lastMask>>

(* pthread_setschedparam with the pair computed before                     *)
WriteBack(c) ==
    /\ spc[c] = "set"
    /\ LET r == SetSchedResult(c, Written(c), param[c])
       IN  /\ Put(c, r)
           /\ IF r # "OK" THEN UNCHANGED <<sched, lastPolicy>>
              ELSE sched' = [sched EXCEPT ![Written(c)] = param[c]] /\ Wrote(c)
           /\ SchedGoto(c, IF r = "OK" /\ call[c] = "set_task_attr"
                           THEN "setaff" ELSE "done")
    /\ UNCHANGED <<affinity, local, attr, lastMask>>

(* The second half of osal_task_set_task_attr; the mask 0 is an error.     *)
WriteAffinity(c) ==
    /\ spc[c] = "setaff"
    /\ SetAffinityOf(tid[c], mask[c])
    /\ Put(c, SetAffinityResult(mask[c]))
    /\ SchedGoto(c, "done")
    /\ UNCHANGED <<sched, local, attr, lastPolicy>>

(* Mutant: the caller's affinity is set.                                   *)
SetAffinityCaller(c, h, m) ==
    /\ Begin(c, "set_affinity", h)
    /\ IF SetAffinityResult(m) # "OK" THEN UNCHANGED <<affinity, lastMask>>
       ELSE /\ affinity' = [affinity EXCEPT ![c] = m \cap Cpus]
            /\ lastMask' = [lastMask EXCEPT ![Tid(c, h)] = m]
    /\ Put(c, IF m = {} THEN "OK" ELSE SetAffinityResult(m))
    /\ SchedGoto(c, "done")
    /\ UNCHANGED <<sched, arg, param, mask, lastPolicy>>

(* osal_task_set_affinity: here the mask 0 means "leave it".               *)
SetAffinity(c, h, m) ==
    /\ Begin(c, "set_affinity", h)
    /\ IF m = {} THEN UNCHANGED <<affinity, lastMask>>
                 ELSE SetAffinityOf(Tid(c, h), m)
    /\ Put(c, IF m = {} THEN "OK" ELSE SetAffinityResult(m))
    /\ SchedGoto(c, "done")
    /\ UNCHANGED <<sched, arg, param, mask, lastPolicy>>

(* osal_task_get_task_attr: the kernel's policy number and the priority,   *)
(* then the affinity.                                                      *)
GetTaskAttr(c, t) ==
    /\ Begin(c, "get_task_attr", t)
    /\ param' = [param EXCEPT ![c] = sched[t]]
    /\ SchedGoto(c, "getaff")
    /\ UNCHANGED <<sched, affinity, arg, mask, ret, last>>

(* osal_task_get_affinity                                                  *)
GetAffinity(c, h) ==
    /\ Begin(c, "get_affinity", h)
    /\ SchedGoto(c, "getaff")
    /\ UNCHANGED <<sched, affinity, arg, param, mask, ret, last>>

ReadAffinity(c) ==
    /\ spc[c] = "getaff"
    /\ \E m \in GetAffinityMasks(affinity[tid[c]]) :
          mask' = [mask EXCEPT ![c] = m]
    /\ SchedGoto(c, "done")
    /\ UNCHANGED <<sched, affinity, call, tid, arg, param, ret, attr, last>>

(* osal_task_get_policy and osal_task_get_priority are a single read each, *)
(* with these results; a priority the kernel has fits both its types.      *)
GetPolicy(t) == ToOsal(sched[t].policy)
GetPriority(t) == sched[t].priority

Return(c) ==
    /\ spc[c] = "done"
    /\ SchedGoto(c, "idle")
    /\ call' = [call EXCEPT ![c] = "none"]
    /\ tid' = [tid EXCEPT ![c] = c]
    /\ arg' = [arg EXCEPT ![c] = 0]
    /\ param' = [param EXCEPT ![c] = Default]
    /\ mask' = [mask EXCEPT ![c] = {}]
    /\ Put(c, "OK")
    /\ UNCHANGED <<sched, affinity, attr, last>>

SchedNext ==
    \E c \in Tasks :
        \/ WrapperPolicy(c) \/ WrapperPriority(c) \/ WrapperAffinity(c)
        \/ WriteBack(c) \/ WriteAffinity(c) \/ ReadAffinity(c) \/ Return(c)
        \/ \E t \in Tasks, a \in Attrs \cup {NoAttr} : CreateTask(c, t, a)
        \/ \E h \in Tasks \cup {Null} :
              \/ \E p \in AskedPolicies : SetPolicy(c, h, p)
              \/ \E n \in Priorities : SetPriority(c, h, n)
              \/ \E m \in AskedMasks : SetAffinity(c, h, m)
              \/ GetAffinity(c, h)
        \/ \E t \in Tasks :
              \/ \E a \in Attrs : SetTaskAttr(c, t, a)
              \/ GetTaskAttr(c, t)

SchedSpec == SchedInit /\ [][SchedNext]_schedvars
-----------------------------------------------------------------------------
(***************************************************************************)
(* osal_task_set_policy and osal_task_set_priority never fail with         *)
(* OSAL_ERR_INVALID_PARAM: the pair they write is consistent, whatever the *)
(* other threads change between the read and the write, and whatever       *)
(* osal_task_set_task_attr has set before.                                 *)
(***************************************************************************)
NeverInvalid ==
    \A c \in Tasks :
        spc[c] = "done" /\ call[c] \in {"set_policy", "set_priority"} =>
            ret[c] # "INVALID_PARAM"

Distance(a, b) == IF a < b THEN b - a ELSE a - b

(***************************************************************************)
(* A successful osal_task_set_priority leaves the thread with the legal    *)
(* priority of its policy that is nearest to the one asked for, also when  *)
(* that is no legal one, as long as it is a number an int can hold:        *)
(* task.c:478 turns the others negative, and they end at the lowest.       *)
(***************************************************************************)
NearestPriority ==
    [][\A c, t \in Tasks :
          call[c] = "set_priority" /\ spc[c] = "set" /\ ret'[c] = "OK"
            /\ spc'[c] = "done" /\ t = tid[c] /\ arg[c] < SignBit =>
            LET p == sched'[t].policy
            IN  \A n \in PriorityMin(p) .. PriorityMax(p) :
                   Distance(GetPriority(t)', arg[c])
                     <= Distance(n, arg[c])]_schedvars

(***************************************************************************)
(* What a thread's affinity was set to last, by osal_task_set_affinity,    *)
(* osal_task_set_task_attr or when it or its creator was created, is what  *)
(* is read back, cut to the processors that exist, whoever reads it, also  *)
(* on a machine with more processors than the mask has bits.               *)
(***************************************************************************)
AffinityReadsBack ==
    [][\A c \in Tasks :
          spc[c] = "getaff" /\ spc'[c] = "done" /\ lastMask[tid[c]] # {} =>
              mask'[c] = lastMask[tid[c]] \cap Cpus]_schedvars

(***************************************************************************)
(* osal_task_get_policy returns the policy that was last asked for the     *)
(* thread by its handle, although osal_task_set_task_attr gives the kernel *)
(* the numbers of task.h and osal_task_set_policy the kernel's, and        *)
(* whatever priorities are set meanwhile - except for the threads on both  *)
(* sides of an osal_task_set_policy on another thread's handle, which      *)
(* changes the caller (task.c:389) against task.h:169, and for a thread    *)
(* whose policy was changed between the read and the write of an           *)
(* osal_task_set_priority, which undoes it, each until its policy is set   *)
(* anew.                                                                   *)
(***************************************************************************)
PolicyReadsBack ==
    \A t \in Tasks : lastPolicy[t] \in {GetPolicy(t), Muddled}

=============================================================================
