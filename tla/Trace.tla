-------------------------------- MODULE Trace --------------------------------
(***************************************************************************)
(* The timing trace (trace.c) in the arrangement INTRODUCTION.md shows: a  *)
(* cyclic task stores time stamps in a double buffer, a print task waits   *)
(* for a full buffer and analyses it, and a third task asks for the last   *)
(* time.  The trace has no lock: every load and store of the shared fields *)
(* is a step, in program order (stores are assumed to become visible in    *)
(* that order).  The binary semaphore takes effect in one step, as         *)
(* BinarySemaphore_proofs shows of its implementation.                     *)
(*                                                                         *)
(* A time stamp is the number of the sample, so consecutive samples differ *)
(* by exactly one.                                                         *)
(***************************************************************************)
EXTENDS Integers, TraceBuffer

CONSTANT MaxSamples   (* bound: samples the cyclic task takes              *)

ASSUME MaxSamplesAssumption == MaxSamples \in Nat

VARIABLES
    act_buf, pos, time_in_ns, sync_sem,     (* fields of osal_trace_t      *)
    tmp,                                    (* trace->tmp, the intervals   *)
    stored,      (* samples stored so far, the time stamp of the last one  *)
    wpc,         (* next statement of osal_trace_time in the cyclic task   *)
    apc, act_buffer, i,                     (* locals of the analysis      *)
    switched,    (* history: the readers (analyser, monitor) during whose  *)
                 (* call the buffers were switched                         *)
    event,       (* history: stored at the post the analysis follows       *)
    posted,      (* history: stored at the last post                       *)
    analysed,    (* history: last sample of the last analysed buffer       *)
    mpc, last_buf, last_time,               (* locals of get_last_time     *)
    since        (* history: samples complete when get_last_time is called *)

writer == <<act_buf, pos, time_in_ns, stored, wpc>>
analyser == <<tmp, apc, act_buffer, i, event, analysed>>
monitor == <<mpc, last_buf, last_time, since>>
vars == <<writer, sync_sem, posted, switched, analyser, monitor>>

Other(b) == IF b = 0 THEN 1 ELSE 0
-----------------------------------------------------------------------------
(* osal_trace_alloc: both buffers zeroed, nothing to analyse.              *)
Init ==
    /\ act_buf = 0 /\ pos = 0
    /\ time_in_ns = [b \in {0, 1} |-> [k \in Slots |-> 0]]
    /\ sync_sem = 0
    /\ tmp = [k \in Slots |-> 0]
    /\ stored = 0 /\ wpc = "store"
    /\ apc = "wait" /\ act_buffer = 1 /\ i = 0
    /\ switched = {} /\ event = 0 /\ posted = 0 /\ analysed = 0
    /\ mpc = "idle" /\ last_buf = 0 /\ last_time = 0 /\ since = 0
-----------------------------------------------------------------------------
(* osal_trace_point, osal_trace_time: time_in_ns[act_buf][pos] = time      *)
StoreTime ==
    /\ wpc = "store" /\ stored < MaxSamples
    /\ stored' = stored + 1
    /\ time_in_ns' = [time_in_ns EXCEPT ![act_buf][pos] = stored + 1]
    /\ wpc' = "inc"
    /\ UNCHANGED <<act_buf, pos, sync_sem, posted, switched, analyser, monitor>>

(* trace->pos++; if (trace->pos >= trace->cnt)                             *)
IncPos ==
    /\ wpc = "inc"
    /\ pos' = pos + 1
    /\ wpc' = IF pos + 1 >= Cnt THEN "flip" ELSE "store"
    /\ UNCHANGED <<act_buf, time_in_ns, stored, sync_sem, posted, switched,
                   analyser, monitor>>

(* act_buf = act_buf == 0 ? 1 : 0                                          *)
Flip ==
    /\ wpc = "flip"
    /\ act_buf' = Other(act_buf)
    /\ switched' = {"analyser", "monitor"}
    /\ wpc' = "reset"
    /\ UNCHANGED <<pos, time_in_ns, stored, sync_sem, posted, analyser,
                   monitor>>

(* Mutant: the position is not reset.                                      *)
ResetPosForgotten ==
    /\ wpc = "reset"
    /\ wpc' = "post"
    /\ UNCHANGED <<act_buf, pos, time_in_ns, stored, sync_sem, posted, switched,
                   analyser, monitor>>

(* trace->pos = 0                                                          *)
ResetPos ==
    /\ wpc = "reset"
    /\ pos' = 0
    /\ wpc' = "post"
    /\ UNCHANGED <<act_buf, time_in_ns, stored, sync_sem, posted, switched,
                   analyser, monitor>>

(* Mutant: a buffer that fills while an analysis runs is not announced.    *)
PostSyncIfIdle ==
    /\ wpc = "post"
    /\ sync_sem' = IF apc = "wait" THEN 1 ELSE sync_sem
    /\ posted' = stored
    /\ wpc' = "store"
    /\ UNCHANGED <<act_buf, pos, time_in_ns, stored, switched, analyser,
                   monitor>>

(* osal_binary_semaphore_post: the flag is set, whether or not it was.     *)
PostSync ==
    /\ wpc = "post"
    /\ sync_sem' = 1
    /\ posted' = stored
    /\ wpc' = "store"
    /\ UNCHANGED <<act_buf, pos, time_in_ns, stored, switched, analyser,
                   monitor>>
-----------------------------------------------------------------------------
(* osal_trace_timedwait returns OK (a timeout changes nothing).            *)
Timedwait ==
    /\ apc = "wait" /\ sync_sem = 1
    /\ sync_sem' = 0
    /\ event' = posted
    /\ apc' = "pick"
    /\ UNCHANGED <<tmp, act_buffer, i, analysed, writer, posted, switched,
                   monitor>>

(* Mutant: the buffer being filled is analysed.                            *)
PickBufferActive ==
    /\ apc = "pick"
    /\ act_buffer' = act_buf
    /\ i' = 0 /\ switched' = switched \ {"analyser"}
    /\ apc' = "read"
    /\ UNCHANGED <<tmp, event, analysed, writer, sync_sem, posted, monitor>>

(* osal_trace_analyze: int act_buffer = act_buf == 1 ? 0 : 1               *)
PickBuffer ==
    /\ apc = "pick"
    /\ act_buffer' = IF act_buf = 1 THEN 0 ELSE 1
    /\ i' = 0 /\ switched' = switched \ {"analyser"}
    /\ apc' = "read"
    /\ UNCHANGED <<tmp, event, analysed, writer, sync_sem, posted, monitor>>

(* One round of the first loop; the sums and the second loop read tmp only *)
(* and are in TraceAnalyze.                                                *)
ReadInterval ==
    /\ apc = "read" /\ i < Cnt - 1
    /\ tmp' = [tmp EXCEPT ![i] =
                  time_in_ns[act_buffer][i + 1] - time_in_ns[act_buffer][i]]
    /\ i' = i + 1
    /\ UNCHANGED <<apc, act_buffer, event, analysed, writer, sync_sem, posted,
                   switched, monitor>>

AnalysisDone ==
    /\ apc = "read" /\ i >= Cnt - 1
    /\ analysed' = time_in_ns[act_buffer][Cnt - 1]
    /\ apc' = "done"
    /\ UNCHANGED <<tmp, act_buffer, i, event, writer, sync_sem, posted,
                   switched, monitor>>

PrintResults ==
    /\ apc = "done"
    /\ apc' = "wait"
    /\ UNCHANGED <<tmp, act_buffer, i, event, analysed, writer, sync_sem,
                   posted, switched, monitor>>
-----------------------------------------------------------------------------
(* osal_trace_get_last_time in a third task: last_buf is read first,       *)
LoadBuf ==
    /\ mpc = "idle"
    /\ last_buf' = act_buf
    /\ since' = IF wpc = "store" THEN stored ELSE stored - 1
    /\ switched' = IF wpc = "reset" THEN switched \cup {"monitor"}
                                    ELSE switched \ {"monitor"}
    /\ mpc' = "test"
    /\ UNCHANGED <<last_time, writer, sync_sem, posted, analyser>>

(* then pos,                                                               *)
TestPos ==
    /\ mpc = "test"
    /\ mpc' = IF pos = 0 THEN "wrapped" ELSE "plain"
    /\ UNCHANGED <<last_buf, last_time, since, writer, sync_sem, posted,
                   switched, analyser>>

(* Mutant: the buffer that has just been begun is taken.                   *)
LoadWrappedSameBuf ==
    /\ mpc = "wrapped"
    /\ last_time' = time_in_ns[last_buf][Cnt - 1]
    /\ mpc' = "done"
    /\ UNCHANGED <<last_buf, since, writer, sync_sem, posted, switched,
                   analyser>>

(* and, at the start of a buffer, act_buf once more: the sample before is  *)
(* the last one of the other buffer.                                       *)
LoadWrapped ==
    /\ mpc = "wrapped"
    /\ last_buf' = Other(act_buf)
    /\ last_time' = time_in_ns[Other(act_buf)][Cnt - 1]
    /\ mpc' = "done"
    /\ UNCHANGED <<since, writer, sync_sem, posted, switched, analyser>>

(* Otherwise pos is read a second time; -1 stands for what lies outside of *)
(* the buffer, which is read when pos has gone back to 0 in between.       *)
LoadPlain ==
    /\ mpc = "plain"
    /\ last_time' = IF pos = 0 THEN -1 ELSE time_in_ns[last_buf][pos - 1]
    /\ mpc' = "done"
    /\ UNCHANGED <<last_buf, since, writer, sync_sem, posted, switched,
                   analyser>>

MonitorDone ==
    /\ mpc = "done"
    /\ mpc' = "idle"
    /\ UNCHANGED <<last_buf, last_time, since, writer, sync_sem, posted,
                   switched, analyser>>

(* Mutant: the last slot of the active buffer instead of the other one.    *)
GetLastTimeSameBuf ==
    IF pos = 0 THEN time_in_ns[act_buf][Cnt - 1]
               ELSE time_in_ns[act_buf][pos - 1]

(* osal_trace_get_last_time called by the cyclic task itself.              *)
GetLastTime ==
    IF pos = 0 THEN time_in_ns[Other(act_buf)][Cnt - 1]
               ELSE time_in_ns[act_buf][pos - 1]
-----------------------------------------------------------------------------
WriterNext == StoreTime \/ IncPos \/ Flip \/ ResetPos \/ PostSync
AnalyserNext ==
    Timedwait \/ PickBuffer \/ ReadInterval \/ AnalysisDone \/ PrintResults
MonitorNext == LoadBuf \/ TestPos \/ LoadWrapped \/ LoadPlain \/ MonitorDone

Next == WriterNext \/ AnalyserNext \/ MonitorNext

Spec == Init /\ [][Next]_vars

(* The cyclic task and the print task keep running.                        *)
Fairness == WF_vars(WriterNext) /\ WF_vars(AnalyserNext)
FairSpec == Spec /\ Fairness
-----------------------------------------------------------------------------
(***************************************************************************)
(* osal_trace_time never stores outside of a buffer, whatever the switch   *)
(* of buffers leaves in pos.                                               *)
(***************************************************************************)
StoreInBounds == wpc = "store" => pos < Cnt

(***************************************************************************)
(* An analysis during which the buffers were not switched has seen exactly *)
(* one full buffer of consecutive samples, and one at least as recent as   *)
(* the event that started it, however late the print task runs and however *)
(* many events were merged in the semaphore.                               *)
(***************************************************************************)
UndisturbedAnalysisIsOneBuffer ==
    apc = "done" /\ "analyser" \notin switched =>
        /\ \A k \in 0 .. Cnt - 2 : tmp[k] = 1
        /\ analysed >= event
        /\ analysed % Cnt = 0

(***************************************************************************)
(* Between two calls of osal_trace_time the cyclic task gets its own last  *)
(* time stamp back, across the switch of buffers too (test_trace.cc:31).   *)
(***************************************************************************)
OwnLastTime == wpc = "store" => GetLastTime = stored

(***************************************************************************)
(* No full buffer goes unnoticed for good: when the cyclic task stops, the *)
(* print task ends up having analysed the last buffer that was filled.     *)
(***************************************************************************)
LastBufferAnalysed == <>[](analysed = MaxSamples - (MaxSamples % Cnt))

(***************************************************************************)
(* osal_trace_get_last_time called by another task returns a stored time   *)
(* no older than the last one whose osal_trace_time had returned when the  *)
(* call was made, provided that the buffers are not being switched during  *)
(* the call.                                                               *)
(***************************************************************************)
RecentUnlessSwitched ==
    mpc = "done" /\ "monitor" \notin switched => last_time >= since

=============================================================================
