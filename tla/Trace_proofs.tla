----------------------------- MODULE Trace_proofs -----------------------------
(***************************************************************************)
(* Machine-checked proofs about Trace, for buffers of any size and any     *)
(* number of samples, and about the loops of TraceAnalyze, for words of    *)
(* any width.                                                              *)
(***************************************************************************)
EXTENDS Trace, TraceAnalyze, WellFoundedInduction, TLAPS

(***************************************************************************)
(* The samples stored in the active buffer, and the number of the last     *)
(* sample before its first one.  Between Flip and ResetPos the position    *)
(* still counts the samples of the buffer that is full.                    *)
(***************************************************************************)
Filled == IF wpc = "inc" THEN pos + 1 ELSE IF wpc = "reset" THEN 0 ELSE pos
Base == stored - Filled

(***************************************************************************)
(* The inductive invariant of the cyclic task: where pos may be at each    *)
(* statement, what the buffer being filled holds so far, and that the      *)
(* other buffer holds the Cnt samples before, if there were any.           *)
(***************************************************************************)
WriterTypeOK ==
    /\ act_buf \in {0, 1} /\ stored \in Nat
    /\ time_in_ns \in [{0, 1} -> [Slots -> Nat]]
    /\ wpc \in {"store", "inc", "flip", "reset", "post"}

PosOK ==
    /\ pos \in 0 .. Cnt
    /\ wpc \in {"store", "inc"} => pos < Cnt
    /\ wpc \in {"flip", "reset"} => pos = Cnt
    /\ wpc = "post" => pos = 0

BaseOK ==
    /\ Base \in Nat /\ Base % Cnt = 0
    /\ wpc \in {"reset", "post"} => Base > 0

ActiveBuffer ==
    \A k \in 0 .. Filled - 1 : time_in_ns[act_buf][k] = Base + k + 1

OtherBuffer ==
    /\ time_in_ns[Other(act_buf)][Cnt - 1] = Base
    /\ Base > 0 =>
        \A k \in Slots : time_in_ns[Other(act_buf)][k] = Base - Cnt + k + 1

WriterInv == WriterTypeOK /\ PosOK /\ BaseOK /\ ActiveBuffer /\ OtherBuffer

(* A multiple of the buffer size is followed by one a buffer later.        *)
LEMMA NextMultiple ==
    ASSUME NEW m \in Nat, NEW c \in Nat \ {0}, m % c = 0
    PROVE  (m + c) % c = 0
<1>1. m = c * (m \div c) + (m % c) /\ m \div c \in Nat
  OBVIOUS
<1>2. m + c = c * ((m \div c) + 1)
  BY <1>1
<1>3. \A q \in Nat : (c * q) % c = 0
  OBVIOUS
<1> QED
  BY <1>1, <1>2, <1>3

(* Only the switch of the buffers begins a new one; every other step of    *)
(* the cyclic task, and every step of the readers, leaves Base alone.      *)
LEMMA BaseMoves ==
    ASSUME WriterInv, [Next]_vars
    PROVE  Base' = IF Flip THEN Base + Cnt ELSE Base
<1> USE CntAssumption DEF WriterInv, WriterTypeOK, PosOK, BaseOK, Base, Filled
<1>1. CASE StoreTime
  BY <1>1 DEF StoreTime, Flip
<1>2. CASE IncPos
  BY <1>2 DEF IncPos, Flip
<1>3. CASE Flip
  BY <1>3 DEF Flip
<1>4. CASE ResetPos
  BY <1>4 DEF ResetPos, Flip
<1>5. CASE PostSync
  BY <1>5 DEF PostSync, Flip
<1>6. CASE UNCHANGED writer
  <2>1. ~Flip
    BY <1>6 DEF Flip, writer
  <2> QED
    BY <1>6, <2>1 DEF writer
<1> QED
  BY <1>1, <1>2, <1>3, <1>4, <1>5, <1>6
     DEF Next, WriterNext, AnalyserNext, MonitorNext, vars,
         Timedwait, PickBuffer, ReadInterval, AnalysisDone, PrintResults,
         LoadBuf, TestPos, LoadWrapped, LoadPlain, MonitorDone

(* The cyclic task keeps its invariant, and the readers do not disturb it. *)
LEMMA WriterStep == WriterInv /\ [Next]_vars => WriterInv'
<1> SUFFICES ASSUME WriterInv, [Next]_vars PROVE WriterInv'
  OBVIOUS
<1> USE CntAssumption
<1>1. Base' = IF Flip THEN Base + Cnt ELSE Base
  BY BaseMoves
<1>2. CASE StoreTime
  <2>1. WriterTypeOK' /\ PosOK'
    <3>1. pos \in Slots /\ stored + 1 \in Nat
      BY <1>2 DEF StoreTime, WriterInv, WriterTypeOK, PosOK, Slots
    <3>2. [time_in_ns[act_buf] EXCEPT ![pos] = stored + 1] \in [Slots -> Nat]
      BY <3>1 DEF WriterInv, WriterTypeOK
    <3>3. WriterTypeOK'
      BY <1>2, <3>1, <3>2 DEF StoreTime, WriterInv, WriterTypeOK
    <3> QED
      BY <1>2, <3>3 DEF StoreTime, WriterInv, PosOK
  <2>2. BaseOK' /\ Base' = Base /\ Base \in Nat
    BY <1>1, <1>2 DEF StoreTime, Flip, WriterInv, BaseOK
  <2>3. pos \in Slots /\ pos \in Nat /\ Base = stored - pos
        /\ Filled' = pos + 1 /\ Filled = pos
    BY <1>2 DEF StoreTime, WriterInv, WriterTypeOK, PosOK, Base, Filled, Slots
  <2>4. /\ time_in_ns'[act_buf][pos] = stored + 1
        /\ \A k \in Slots \ {pos} :
               time_in_ns'[act_buf][k] = time_in_ns[act_buf][k]
        /\ time_in_ns'[Other(act_buf)] = time_in_ns[Other(act_buf)]
        /\ act_buf' = act_buf
    BY <1>2, <2>3 DEF StoreTime, WriterInv, WriterTypeOK, Other
  <2>5. ActiveBuffer'
    <3> SUFFICES ASSUME NEW k \in 0 .. pos
                 PROVE  time_in_ns'[act_buf][k] = Base + k + 1
      BY <2>2, <2>3, <2>4 DEF ActiveBuffer
    <3>1. CASE k = pos
      BY <2>2, <2>3, <2>4, <3>1 DEF WriterInv, WriterTypeOK
    <3>2. CASE k # pos
      <4>1. k \in 0 .. Filled - 1 /\ k \in Slots \ {pos}
        BY <2>3, <3>2 DEF Slots
      <4> QED
        BY <2>4, <4>1 DEF WriterInv, ActiveBuffer
    <3> QED
      BY <3>1, <3>2
  <2>6. OtherBuffer'
    BY <2>2, <2>4 DEF WriterInv, OtherBuffer
  <2> QED
    BY <2>1, <2>2, <2>5, <2>6 DEF WriterInv
<1>3. CASE IncPos
  <2>1. WriterTypeOK' /\ PosOK'
    BY <1>3 DEF IncPos, WriterInv, WriterTypeOK, PosOK
  <2>2. BaseOK' /\ Base' = Base
    BY <1>1, <1>3 DEF IncPos, Flip, WriterInv, BaseOK
  <2>3. Filled' = Filled
    BY <1>3 DEF IncPos, WriterInv, PosOK, Filled
  <2>4. ActiveBuffer' /\ OtherBuffer'
    BY <1>3, <2>2, <2>3 DEF IncPos, WriterInv, ActiveBuffer, OtherBuffer
  <2> QED
    BY <2>1, <2>2, <2>4 DEF WriterInv
<1>4. CASE Flip
  <2>1. WriterTypeOK' /\ PosOK'
    BY <1>4 DEF Flip, WriterInv, WriterTypeOK, PosOK, Other
  <2>2. Base' = Base + Cnt /\ Base \in Nat /\ Base' > 0
    BY <1>1, <1>4 DEF WriterInv, BaseOK
  <2>3. BaseOK'
    <3>1. (Base + Cnt) % Cnt = 0
      BY <2>2, NextMultiple DEF WriterInv, BaseOK
    <3>2. Base' \in Nat /\ Base' % Cnt = 0
      BY <2>2, <3>1
    <3> QED
      BY <2>2, <3>2 DEF BaseOK
  <2>4. Filled = Cnt /\ Filled' = 0
    BY <1>4 DEF Flip, WriterInv, PosOK, Filled
  <2>5. Other(act_buf)' = act_buf /\ time_in_ns' = time_in_ns
    BY <1>4 DEF Flip, WriterInv, WriterTypeOK, Other
  <2>6. ActiveBuffer'
    BY <2>4 DEF ActiveBuffer
  <2>7. OtherBuffer'
    BY <2>2, <2>4, <2>5 DEF WriterInv, ActiveBuffer, OtherBuffer, Slots
  <2> QED
    BY <2>1, <2>3, <2>6, <2>7 DEF WriterInv
<1>5. CASE ResetPos \/ PostSync
  <2>1. WriterTypeOK' /\ PosOK'
    BY <1>5 DEF ResetPos, PostSync, WriterInv, WriterTypeOK, PosOK
  <2>2. BaseOK' /\ Base' = Base
    BY <1>1, <1>5 DEF ResetPos, PostSync, Flip, WriterInv, BaseOK
  <2>3. Filled' = Filled
    BY <1>5 DEF ResetPos, PostSync, WriterInv, PosOK, Filled
  <2>4. ActiveBuffer' /\ OtherBuffer'
    BY <1>5, <2>2, <2>3
       DEF ResetPos, PostSync, WriterInv, ActiveBuffer, OtherBuffer
  <2> QED
    BY <2>1, <2>2, <2>4 DEF WriterInv
<1>6. CASE UNCHANGED writer
  BY <1>6 DEF writer, WriterInv, WriterTypeOK, PosOK, BaseOK, ActiveBuffer,
              OtherBuffer, Base, Filled
<1> QED
  BY <1>2, <1>3, <1>4, <1>5, <1>6
     DEF Next, WriterNext, AnalyserNext, MonitorNext, vars,
         Timedwait, PickBuffer, ReadInterval, AnalysisDone, PrintResults,
         LoadBuf, TestPos, LoadWrapped, LoadPlain, MonitorDone

LEMMA WriterInit == Init => WriterInv
<1> SUFFICES ASSUME Init PROVE WriterInv
  OBVIOUS
<1>1. 0 % Cnt = 0
  BY CntAssumption
<1> QED
  BY <1>1, CntAssumption
     DEF Init, WriterInv, WriterTypeOK, PosOK, BaseOK, ActiveBuffer,
         OtherBuffer, Base, Filled, Slots, Other

(***************************************************************************)
(* The invariant of the cyclic task holds, for every buffer size and at    *)
(* every switch.                                                           *)
(***************************************************************************)
THEOREM WriterCorrect == Spec => []WriterInv
BY WriterInit, WriterStep, PTL DEF Spec

(***************************************************************************)
(* No store outside of a buffer.                                           *)
(***************************************************************************)
THEOREM StoresInBounds == Spec => []StoreInBounds
<1>1. WriterInv => StoreInBounds
  BY DEF WriterInv, PosOK, StoreInBounds
<1> QED
  BY <1>1, WriterCorrect, PTL

(***************************************************************************)
(* The cyclic task reads its own last time stamp, whichever of the two     *)
(* buffers it is in.                                                       *)
(***************************************************************************)
THEOREM LastTimeIsOwn == Spec => []OwnLastTime
<1>1. WriterInv => OwnLastTime
  BY CntAssumption
     DEF WriterInv, WriterTypeOK, PosOK, ActiveBuffer, OtherBuffer, Base,
         Filled, OwnLastTime, GetLastTime
<1> QED
  BY <1>1, WriterCorrect, PTL
-----------------------------------------------------------------------------
(***************************************************************************)
(* The analyser: an event is a full buffer, so the buffer that is picked   *)
(* is one; as long as the buffers are not switched, Base stands still and  *)
(* every interval read so far is one of that buffer.                       *)
(***************************************************************************)
EventOK ==
    /\ posted \in Nat /\ posted <= Base
    /\ event \in Nat /\ event <= Base
    /\ sync_sem = 1 \/ apc # "wait" => Base > 0

AnalysisOK ==
    /\ tmp \in [Slots -> Int] /\ act_buffer \in {0, 1}
    /\ apc \in {"wait", "pick", "read", "done"}
    /\ apc = "read" => i \in Nat
    /\ apc \in {"read", "done"} /\ "analyser" \notin switched =>
        /\ act_buffer = Other(act_buf)
        /\ \A k \in 0 .. Cnt - 2 : k < i \/ apc = "done" => tmp[k] = 1
        /\ apc = "done" => analysed = Base

AnalyserInv == EventOK /\ AnalysisOK

(* The event and the last post are never ahead of the full buffers.        *)
LEMMA EventStep ==
    ASSUME WriterInv, EventOK, [Next]_vars
    PROVE  EventOK'
<1>1. Base' \in Nat /\ Base' >= Base /\ Base \in Nat
  BY BaseMoves, CntAssumption DEF WriterInv, BaseOK
<1>2. CASE PostSync
  <2>1. posted' = Base /\ Base > 0
    BY <1>2 DEF PostSync, WriterInv, WriterTypeOK, PosOK, BaseOK, Base, Filled
  <2> QED
    BY <1>1, <1>2, <2>1 DEF PostSync, EventOK, analyser
<1>3. CASE Timedwait
  BY <1>1, <1>3 DEF Timedwait, EventOK
<1>4. CASE ~PostSync /\ ~Timedwait
  <2>1. UNCHANGED <<posted, event, sync_sem>>
        /\ (apc' # "wait" => apc # "wait")
    BY <1>4
       DEF Next, WriterNext, AnalyserNext, MonitorNext, vars, analyser,
           StoreTime, IncPos, Flip, ResetPos,
           PickBuffer, ReadInterval, AnalysisDone, PrintResults,
           LoadBuf, TestPos, LoadWrapped, LoadPlain, MonitorDone
  <2> QED
    BY <1>1, <2>1 DEF EventOK
<1> QED
  BY <1>2, <1>3, <1>4

(* An analysis sees one buffer or knows that it may not have.              *)
LEMMA AnalysisStep ==
    ASSUME WriterInv, EventOK, AnalysisOK, [Next]_vars
    PROVE  AnalysisOK'
<1> USE CntAssumption
<1>1. Base' = IF Flip THEN Base + Cnt ELSE Base
  BY BaseMoves
<1>2. CASE Flip
  BY <1>2 DEF Flip, AnalysisOK, analyser
<1>3. CASE UNCHANGED <<analyser, act_buf>> /\ ~Flip
           /\ ("analyser" \in switched' <=> "analyser" \in switched)
  BY <1>1, <1>3 DEF AnalysisOK, analyser, Other
<1>4. CASE PickBuffer
  BY <1>4 DEF PickBuffer, AnalysisOK, writer, WriterInv, WriterTypeOK, Other
<1>5. CASE ReadInterval
  <2>1. CASE "analyser" \in switched
    <3>1. i \in Slots /\ i + 1 \in Slots
      BY <1>5 DEF ReadInterval, AnalysisOK, Slots
    <3>2. time_in_ns[act_buffer] \in [Slots -> Nat]
      BY DEF AnalysisOK, WriterInv, WriterTypeOK
    <3>3. time_in_ns[act_buffer][i + 1] - time_in_ns[act_buffer][i] \in Int
      BY <3>1, <3>2
    <3> QED
      BY <1>5, <2>1, <3>1, <3>3 DEF ReadInterval, AnalysisOK
  <2>2. CASE "analyser" \notin switched
    <3>1. i \in Slots /\ i + 1 \in Slots /\ act_buffer = Other(act_buf)
          /\ Base > 0 /\ Base \in Nat
      BY <1>5, <2>2 DEF ReadInterval, AnalysisOK, Slots, EventOK, WriterInv,
                        BaseOK
    <3>2. time_in_ns[act_buffer][i + 1] - time_in_ns[act_buffer][i] = 1
      <4>1. /\ time_in_ns[act_buffer][i] = Base - Cnt + i + 1
            /\ time_in_ns[act_buffer][i + 1] = Base - Cnt + (i + 1) + 1
        BY <3>1 DEF WriterInv, OtherBuffer
      <4> QED
        BY <3>1, <4>1 DEF Slots
    <3> QED
      BY <1>5, <2>2, <3>1, <3>2 DEF ReadInterval, AnalysisOK, writer, Slots,
                                    Other
  <2> QED
    BY <2>1, <2>2
<1>6. CASE AnalysisDone
  <2>1. "analyser" \notin switched => time_in_ns[act_buffer][Cnt - 1] = Base
    BY <1>6 DEF AnalysisDone, AnalysisOK, WriterInv, OtherBuffer
  <2>2. Base' = Base
    BY <1>1, <1>6 DEF AnalysisDone, Flip, writer
  <2> QED
    BY <1>6, <2>1, <2>2 DEF AnalysisDone, AnalysisOK, writer, Other
<1>7. CASE Timedwait \/ PrintResults
  BY <1>7 DEF Timedwait, PrintResults, AnalysisOK
<1>8. CASE StoreTime \/ IncPos \/ ResetPos \/ PostSync \/ MonitorNext
           \/ UNCHANGED vars
  <2>1. UNCHANGED <<analyser, act_buf>>
        /\ ("analyser" \in switched' <=> "analyser" \in switched)
    BY <1>8
       DEF StoreTime, IncPos, ResetPos, PostSync, MonitorNext, LoadBuf,
           TestPos, LoadWrapped, LoadPlain, MonitorDone, vars, writer
  <2>2. ~Flip
    BY <2>1 DEF Flip, WriterInv, WriterTypeOK, Other
  <2> QED
    BY <1>3, <2>1, <2>2
<1> QED
  BY <1>2, <1>4, <1>5, <1>6, <1>7, <1>8 DEF Next, WriterNext, AnalyserNext

(***************************************************************************)
(* An undisturbed analysis has seen one full buffer of consecutive         *)
(* samples, at least as recent as its event.                               *)
(***************************************************************************)
THEOREM AnalysisCorrect == Spec => []UndisturbedAnalysisIsOneBuffer
<1>1. Init => WriterInv /\ AnalyserInv
  <2>1. Init => WriterInv
    BY WriterInit
  <2>2. Init => AnalyserInv
    BY CntAssumption DEF Init, AnalyserInv, EventOK, AnalysisOK, Base, Filled
  <2> QED
    BY <2>1, <2>2
<1>2. WriterInv /\ AnalyserInv /\ [Next]_vars => (WriterInv /\ AnalyserInv)'
  BY WriterStep, EventStep, AnalysisStep DEF AnalyserInv
<1>3. WriterInv /\ AnalyserInv => UndisturbedAnalysisIsOneBuffer
  BY DEF WriterInv, BaseOK, AnalyserInv, EventOK, AnalysisOK,
         UndisturbedAnalysisIsOneBuffer
<1> QED
  BY <1>1, <1>2, <1>3, PTL DEF Spec
-----------------------------------------------------------------------------
(***************************************************************************)
(* osal_trace_get_last_time in another task.  Complete is the last sample  *)
(* whose time can be found through pos and act_buf.  While the buffers are *)
(* not switched last_buf is the active one, and once pos was not 0 it does *)
(* not go back to 0.                                                       *)
(***************************************************************************)
Complete == IF wpc = "inc" THEN stored - 1 ELSE stored

MonitorInv ==
    /\ mpc \in {"idle", "test", "wrapped", "plain", "done"}
    /\ since \in Int
    /\ mpc # "idle" => since <= Complete
    /\ mpc \in {"test", "wrapped", "plain"} /\ "monitor" \notin switched =>
        /\ last_buf = act_buf /\ wpc # "reset"
        /\ mpc = "plain" => pos > 0
        /\ mpc = "wrapped" => since <= Base
    /\ mpc = "done" /\ "monitor" \notin switched => last_time >= since

(* Every step keeps the promise of the call that is being made.            *)
LEMMA MonitorStep ==
    ASSUME WriterInv, MonitorInv, [Next]_vars
    PROVE  MonitorInv'
<1> USE CntAssumption
<1>1. Base' = IF Flip THEN Base + Cnt ELSE Base
  BY BaseMoves
<1>2. CASE Flip
  BY <1>2 DEF Flip, MonitorInv, monitor, Complete
<1>3. CASE StoreTime \/ IncPos \/ ResetPos \/ PostSync
  <2>1. UNCHANGED <<act_buf, switched, monitor>> /\ Base' = Base
    BY <1>1, <1>3 DEF StoreTime, IncPos, ResetPos, PostSync, Flip
  <2>2. Complete <= Complete'
    BY <1>3 DEF StoreTime, IncPos, ResetPos, PostSync, Complete, WriterInv,
                WriterTypeOK
  <2>3. wpc # "reset" => wpc' # "reset" /\ (pos > 0 => pos' > 0)
    BY <1>3 DEF StoreTime, IncPos, ResetPos, PostSync, WriterInv, PosOK
  <2>4. Complete \in Int /\ Complete' \in Int
    BY <1>3 DEF StoreTime, IncPos, ResetPos, PostSync, Complete, WriterInv,
                WriterTypeOK
  <2> QED
    BY <2>1, <2>2, <2>3, <2>4 DEF MonitorInv, monitor
<1>4. CASE AnalyserNext \/ UNCHANGED vars
  <2>1. UNCHANGED <<writer, monitor>>
        /\ ("monitor" \in switched' <=> "monitor" \in switched)
    BY <1>4 DEF AnalyserNext, Timedwait, PickBuffer, ReadInterval,
                AnalysisDone, PrintResults, vars
  <2> QED
    BY <2>1 DEF MonitorInv, writer, monitor, Complete, Base, Filled
<1>5. CASE LoadBuf
  BY <1>5 DEF LoadBuf, MonitorInv, writer, Complete, WriterInv, WriterTypeOK
<1>6. CASE TestPos
  <2>1. pos = 0 /\ wpc # "reset" => Complete = Base
    BY DEF Complete, Base, Filled, WriterInv, WriterTypeOK, PosOK
  <2>2. Base' = Base /\ Complete' = Complete
    BY <1>6 DEF TestPos, writer, Base, Filled, Complete
  <2>3. pos \in Nat
    BY DEF WriterInv, PosOK
  <2> QED
    BY <1>6, <2>1, <2>2, <2>3 DEF TestPos, MonitorInv, writer
<1>7. CASE LoadWrapped
  <2>1. time_in_ns[Other(act_buf)][Cnt - 1] = Base
    BY DEF WriterInv, OtherBuffer
  <2> QED
    BY <1>7, <2>1 DEF LoadWrapped, MonitorInv, writer, Complete
<1>8. CASE LoadPlain
  <2>1. ASSUME "monitor" \notin switched PROVE last_time' >= since
    <3>1. last_buf = act_buf /\ wpc # "reset" /\ pos > 0 /\ pos - 1 \in Slots
          /\ pos - 1 \in 0 .. Filled - 1
      BY <1>8, <2>1 DEF LoadPlain, MonitorInv, WriterInv, PosOK, Slots,
                        Filled
    <3>2. last_time' = Base + pos
      BY <1>8, <3>1 DEF LoadPlain, WriterInv, PosOK, ActiveBuffer, BaseOK
    <3>3. Base + pos = Complete
      BY <3>1 DEF Base, Filled, Complete, WriterInv, WriterTypeOK, PosOK
    <3> QED
      BY <1>8, <3>2, <3>3 DEF LoadPlain, MonitorInv
  <2> QED
    BY <1>8, <2>1 DEF LoadPlain, MonitorInv, writer, Complete
<1>9. CASE MonitorDone
  BY <1>9 DEF MonitorDone, MonitorInv
<1> QED
  BY <1>2, <1>3, <1>4, <1>5, <1>6, <1>7, <1>8, <1>9
     DEF Next, WriterNext, MonitorNext

(***************************************************************************)
(* A call of osal_trace_get_last_time during which the buffers are not     *)
(* switched returns a time no older than the last one complete before it.  *)
(***************************************************************************)
THEOREM LastTimeIsRecent == Spec => []RecentUnlessSwitched
<1>1. Init => WriterInv /\ MonitorInv
  BY WriterInit DEF Init, MonitorInv
<1>2. WriterInv /\ MonitorInv /\ [Next]_vars => (WriterInv /\ MonitorInv)'
  BY WriterStep, MonitorStep
<1>3. MonitorInv => RecentUnlessSwitched
  BY DEF MonitorInv, RecentUnlessSwitched
<1> QED
  BY <1>1, <1>2, <1>3, PTL DEF Spec
-----------------------------------------------------------------------------
(***************************************************************************)
(* The loops of the analysis.                                              *)
(***************************************************************************)
Words == 0 .. 2 * SignBit - 1

StatTypeOK ==
    /\ kind \in {"abs", "rel"} /\ (kind = "abs" => Cnt >= 2)
    /\ given \in [Slots -> Stamps] /\ samples \in [Slots -> Stamps]
    /\ over \in Nat /\ torn \in BOOLEAN
    /\ loop \in {"first", "second", "done"} /\ n \in 0 .. Rounds
    /\ deltas \in [Slots -> Words]
    /\ avg \in Words /\ avg_jit \in Words /\ max_jit \in Nat
    /\ min_val \in Words /\ max_val \in Words

(* The number of values the first loop has seen.                           *)
Seen == IF loop = "first" THEN n ELSE Rounds

(* Unless it is torn, an analysis still finds the values it was given.     *)
Kept ==
    ~torn => /\ \A k \in Slots : Needed(k) => samples[k] = given[k]
             /\ kind = "abs" => \A k \in 0 .. Seen - 1 :
                                    deltas[k] = Interval(given, k)

Extremes ==
    ~torn => /\ \A k \in 0 .. Seen - 1 :
                    Interval(given, k) \in min_val .. max_val
             /\ Seen > 0 =>
                   /\ \E k \in 0 .. Seen - 1 : Interval(given, k) = min_val
                   /\ \E k \in 0 .. Seen - 1 : Interval(given, k) = max_val

(* The differences add up to a distance, whatever wraps around.            *)
Telescope ==
    ~torn /\ kind = "abs" =>
        avg = IF loop = "first"
              THEN Word(given[n] - given[0])
              ELSE Word(given[Cnt - 1] - given[0]) \div (Cnt - 1)

(* Nothing wraps around.                                                   *)
Regular == kind = "abs" => Increasing

AverageBetween ==
    ~torn /\ Regular =>
        IF loop = "first"
        THEN /\ kind = "abs" => given[0] <= given[n]
             /\ n * min_val <= avg /\ avg <= n * max_val
        ELSE min_val <= avg /\ avg <= max_val

(* The second loop: the largest deviation so far is one of them, and the   *)
(* sum of the squares lies between its square and n times its square.      *)
Deviation(k) == Abs(avg - Interval(given, k))

Jitter ==
    /\ loop = "first" => max_jit = 0 /\ avg_jit = 0
    /\ ~torn /\ Regular /\ loop = "second" =>
        /\ \A k \in 0 .. n - 1 : Deviation(k) <= max_jit
        /\ IF n = 0 THEN max_jit = 0
                    ELSE \E k \in 0 .. n - 1 : Deviation(k) = max_jit
        /\ avg_jit <= n * (max_jit * max_jit)
        /\ Cnt * (max_jit * max_jit) < 2 * SignBit =>
               max_jit * max_jit <= avg_jit

StatInv ==
    /\ StatTypeOK /\ Kept /\ Extremes /\ Telescope /\ AverageBetween
    /\ Jitter /\ FiguresAgree

-----------------------------------------------------------------------------
(***************************************************************************)
(* The arithmetic of the loops.                                            *)
(***************************************************************************)
(* Products of natural numbers grow with their factors.                    *)
LEMMA ProductGrows ==
    ASSUME NEW a \in Nat, NEW b \in Nat, NEW c \in Nat, a <= b
    PROVE  c * a <= c * b /\ c * a \in Nat /\ c * b \in Nat
<1>1. b - a \in Nat /\ b = a + (b - a)
  OBVIOUS
<1>2. c * (b - a) \in Nat /\ c * a \in Nat /\ c * b \in Nat
  BY <1>1
<1>3. c * (a + (b - a)) = c * a + c * (b - a)
  BY <1>1
<1> QED
  BY <1>1, <1>2, <1>3

LEMMA SquareGrows ==
    ASSUME NEW a \in Nat, NEW b \in Nat, a <= b
    PROVE  a * a <= b * b /\ a * a \in Nat /\ b * b \in Nat
<1>1. a * a <= a * b /\ a * a \in Nat /\ a * b \in Nat
  BY ProductGrows
<1>2. b * a <= b * b /\ b * b \in Nat
  BY ProductGrows
<1>3. a * b = b * a
  OBVIOUS
<1> QED
  BY <1>1, <1>2, <1>3

LEMMA ZeroTimes == \A a \in Nat : 0 * a = 0
  OBVIOUS

LEMMA SumOfEqual ==
    ASSUME NEW a \in Nat, NEW c \in Nat
    PROVE  (c + 1) * a = c * a + a
  OBVIOUS

(* The bounds of the summands bound a sum, also when one is added.         *)
LEMMA SumBetween ==
    ASSUME NEW c \in Nat, NEW s \in Nat, NEW a \in Nat, NEW b \in Nat,
           NEW v \in Nat, c * a <= s, s <= c * b, a <= v, v <= b
    PROVE  (c + 1) * a <= s + v /\ s + v <= (c + 1) * b
<1> DEFINE x == c * a
<1> DEFINE y == c * b
<1>1. x \in Nat /\ y \in Nat /\ x <= s /\ s <= y
  OBVIOUS
<1>2. (c + 1) * a = x + a /\ (c + 1) * b = y + b
  BY SumOfEqual
<1> HIDE DEF x, y
<1> QED
  BY <1>1, <1>2

(* A quotient lies between the same bounds as the mean it stands for.      *)
LEMMA QuotientBetween ==
    ASSUME NEW s \in Nat, NEW c \in Nat \ {0}, NEW a \in Nat, NEW b \in Nat,
           c * a <= s, s <= c * b
    PROVE  s \div c \in Nat /\ a <= s \div c /\ s \div c <= b
<1> DEFINE q == s \div c
<1>1. q \in Nat /\ s % c \in 0 .. c - 1 /\ s = c * q + (s % c)
  OBVIOUS
<1> HIDE DEF q
<1>2. ASSUME q + 1 <= a PROVE FALSE
  <2>1. c * (q + 1) <= c * a
    BY <1>1, <1>2, ProductGrows
  <2>2. c * (q + 1) = c * q + c
    BY <1>1
  <2> QED
    BY <1>1, <2>1, <2>2
<1>3. ASSUME b + 1 <= q PROVE FALSE
  <2>1. c * (b + 1) <= c * q
    BY <1>1, <1>3, ProductGrows
  <2>2. c * (b + 1) = c * b + c
    OBVIOUS
  <2> QED
    BY <1>1, <2>1, <2>2
<1>4. a <= q /\ q <= b
  BY <1>1, <1>2, <1>3
<1> QED
  BY <1>1, <1>4 DEF q

(* What a word holds, and when it holds the number itself.                 *)
LEMMA WordIs ==
    ASSUME NEW x \in Int
    PROVE  /\ Word(x) \in Words
           /\ x \in Words => Word(x) = x
           /\ x \in Nat => Word(x) <= x
<1>1. 2 * SignBit \in Nat \ {0}
  BY WordAssumption
<1> DEFINE w == 2 * SignBit
<1>2. w \in Nat \ {0}
  BY <1>1
<1> HIDE DEF w
<1>3. x % w \in 0 .. w - 1
  BY <1>2
<1>4. x \in 0 .. w - 1 => x % w = x
  BY <1>2
<1>5. x \in Nat => x % w <= x
  <2>1. CASE x < w
    BY <1>2, <1>4, <2>1
  <2>2. CASE x >= w
    BY <1>2, <1>3, <2>2
  <2> QED
    BY <1>2, <2>1, <2>2
<1> QED
  BY <1>3, <1>4, <1>5 DEF w, Word, Words

(* Two numbers that differ by a multiple of w have the same remainder.     *)
LEMMA SameRemainder ==
    ASSUME NEW w \in Nat \ {0}, NEW x \in Int, NEW y \in Int, NEW d \in Int,
           x = y + w * d
    PROVE  x % w = y % w
<1> DEFINE p == x \div w
<1> DEFINE q == y \div w
<1> DEFINE r == x % w
<1> DEFINE t == y % w
<1>1. p \in Int /\ r \in 0 .. w - 1 /\ x = w * p + r
  OBVIOUS
<1>2. q \in Int /\ t \in 0 .. w - 1 /\ y = w * q + t
  OBVIOUS
<1> HIDE DEF p, q, r, t
<1> DEFINE e == p - q - d
<1>3. e \in Int /\ w * e = w * p - w * q - w * d
  BY <1>1, <1>2
<1>4. w * e = t - r /\ w * e < w /\ -w < w * e
  BY <1>1, <1>2, <1>3
<1> HIDE DEF e
<1>5. e = 0
  <2>1. ASSUME e >= 1 PROVE FALSE
    <3>1. w * 1 <= w * e
      BY <1>3, <2>1, ProductGrows
    <3> QED
      BY <1>3, <1>4, <3>1
  <2>2. ASSUME e <= -1 PROVE FALSE
    <3>1. -e \in Nat /\ 1 <= -e
      BY <1>3, <2>2
    <3>2. w * 1 <= w * (-e)
      BY <3>1, ProductGrows
    <3>3. w * (-e) = -(w * e)
      BY <1>3
    <3> QED
      BY <1>3, <1>4, <3>2, <3>3
  <2> QED
    BY <1>3, <2>1, <2>2
<1>6. r = t
  BY <1>1, <1>2, <1>4, <1>5
<1> QED
  BY <1>6 DEF r, t

(* Words are added like numbers.                                           *)
LEMMA WordSum ==
    ASSUME NEW x \in Int, NEW y \in Int
    PROVE  Word(Word(x) + Word(y)) = Word(x + y)
<1> DEFINE w == 2 * SignBit
<1>1. w \in Nat \ {0}
  BY WordAssumption
<1> HIDE DEF w
<1>2. x % w \in Int /\ x \div w \in Int /\ x = w * (x \div w) + (x % w)
  BY <1>1
<1>3. y % w \in Int /\ y \div w \in Int /\ y = w * (y \div w) + (y % w)
  BY <1>1
<1> DEFINE a == x \div w
<1> DEFINE b == y \div w
<1>4. a \in Int /\ b \in Int
  BY <1>2, <1>3
<1>5. x + y = ((x % w) + (y % w)) + (w * a + w * b)
  BY <1>1, <1>2, <1>3
<1> HIDE DEF a, b
<1>6. w * (a + b) = w * a + w * b /\ a + b \in Int
  BY <1>1, <1>4
<1>7. (x + y) % w = ((x % w) + (y % w)) % w
  <2> DEFINE z == x + y
  <2> DEFINE u == (x % w) + (y % w)
  <2>1. z = u + w * (a + b)
    BY <1>5, <1>6
  <2>2. z \in Int /\ u \in Int
    BY <1>2, <1>3
  <2> HIDE DEF z, u
  <2>3. z % w = u % w
    BY <1>1, <1>6, <2>1, <2>2, SameRemainder
  <2> QED
    BY <2>3 DEF z, u
<1> QED
  BY <1>7 DEF w, Word

(* A deviation that fits into a signed word is read back as it is.         *)
LEMMA DeviationIs ==
    ASSUME NEW x \in 0 .. SignBit - 1, NEW y \in 0 .. SignBit - 1
    PROVE  Abs(Signed(Word(x - y))) = Abs(x - y)
<1> DEFINE w == 2 * SignBit
<1>1. w \in Nat \ {0} /\ SignBit \in Nat
  BY WordAssumption
<1>2. CASE x >= y
  <2>1. x - y \in Words /\ x - y < SignBit
    BY <1>1, <1>2 DEF Words
  <2>2. Word(x - y) = x - y
    BY <2>1, WordIs
  <2> QED
    BY <1>1, <1>2, <2>1, <2>2 DEF Signed, Abs
<1>3. CASE x < y
  <2>1. x - y + w \in Words /\ x - y + w >= SignBit
    BY <1>1, <1>3 DEF Words
  <2>2. (x - y + w) % w = (x - y) % w
    <3> DEFINE z == x - y + w
    <3> DEFINE u == x - y
    <3> HIDE DEF w
    <3> DEFINE one == 1
    <3>1. z = u + w * one /\ z \in Int /\ u \in Int /\ one \in Int
      BY <1>1
    <3> HIDE DEF z, u, one
    <3>2. z % w = u % w
      BY <1>1, <3>1, SameRemainder
    <3> QED
      BY <3>2 DEF z, u
  <2>3. Word(x - y) = x - y + w
    BY <1>1, <2>1, <2>2, WordIs DEF Word
  <2>4. Signed(Word(x - y)) = x - y
    BY <1>1, <2>1, <2>3 DEF Signed
  <2> QED
    BY <2>4
<1> QED
  BY <1>1, <1>2, <1>3

(* Every natural number has a root: the number before the first one whose  *)
(* square is larger.                                                       *)
LEMMA SqrtIs ==
    ASSUME NEW x \in Nat
    PROVE  /\ Sqrt(x) \in 0 .. x
           /\ Sqrt(x) * Sqrt(x) <= x
           /\ x < (Sqrt(x) + 1) * (Sqrt(x) + 1)
<1> DEFINE T == {r \in Nat : x < r * r}
<1>1. x + 1 \in T
  <2>1. (x + 1) * (x + 1) = x * (x + 1) + (x + 1) /\ x * (x + 1) \in Nat
    OBVIOUS
  <2> QED
    BY <2>1
<1>2. PICK m \in T : \A y \in T : ~(<<y, m>> \in OpToRel(<, Nat))
  BY <1>1, NatLessThanWellFounded, WFMin
<1>3. m \in Nat /\ x < m * m
  BY <1>2
<1>4. m # 0
  BY <1>3
<1> DEFINE r == m - 1
<1>5. r \in Nat /\ r < m /\ m = r + 1
  BY <1>3, <1>4
<1>6. r * r <= x
  <2>1. ~(r \in T)
    BY <1>2, <1>3, <1>5 DEF OpToRel
  <2> HIDE DEF r
  <2>2. r * r \in Nat
    BY <1>5
  <2> QED
    BY <1>5, <2>1, <2>2
<1>7. r <= x
  <2> HIDE DEF r
  <2>1. CASE r = 0
    BY <2>1
  <2>2. CASE r >= 1
    <3>1. r * 1 <= r * r
      BY <1>5, <2>2, ProductGrows
    <3> QED
      BY <1>5, <1>6, <3>1
  <2> QED
    BY <1>5, <2>1, <2>2
<1>8. r \in 0 .. x /\ r * r <= x /\ x < (r + 1) * (r + 1)
  BY <1>3, <1>5, <1>6, <1>7
<1> HIDE DEF r
<1>9. \E q \in 0 .. x : q * q <= x /\ x < (q + 1) * (q + 1)
  BY <1>8
<1> QED
  BY <1>9 DEF Sqrt

-----------------------------------------------------------------------------
(***************************************************************************)
(* Each part of the invariant is kept by every step.                       *)
(***************************************************************************)
LEMMA QuotientLess ==
    ASSUME NEW s \in Nat, NEW c \in Nat \ {0}
    PROVE  s \div c \in 0 .. s
<1>1. c * 0 <= s /\ s <= c * s
  <2>1. s * 1 <= s * c
    BY ProductGrows
  <2> QED
    BY <2>1
<1> QED
  BY <1>1, QuotientBetween

(* What does not change during an analysis.                                *)
LEMMA StatFrame ==
    ASSUME [StatNext]_statvars
    PROVE  /\ kind' = kind /\ given' = given /\ Rounds' = Rounds
           /\ Stamps' = Stamps /\ Regular' = Regular
           /\ \A k : Interval(given, k)' = Interval(given, k)
<1>1. kind' = kind /\ given' = given
  BY DEF StatNext, statvars, buffer, AddValue, Divide, AddDeviation, Root,
         Overwrite
<1> QED
  BY <1>1 DEF Rounds, Stamps, Regular, Increasing, Interval

LEMMA RoundsIs == StatTypeOK => Rounds \in Nat \ {0} /\ Rounds <= Cnt
  BY CntAssumption DEF StatTypeOK, Rounds

(* The values are words, and while nothing wraps around they are the       *)
(* intervals and fit into a signed word.                                   *)
LEMMA IntervalWord ==
    ASSUME StatTypeOK, NEW b \in [Slots -> Stamps], NEW k \in 0 .. Rounds - 1
    PROVE  Interval(b, k) \in Words
<1>1. CASE kind = "abs"
  <2>1. k \in Slots /\ k + 1 \in Slots
    BY <1>1, CntAssumption DEF Slots, Rounds
  <2>2. b[k + 1] - b[k] \in Int
    BY <1>1, <2>1, WordAssumption DEF Stamps
  <2> QED
    BY <1>1, <2>2, WordIs DEF Interval
<1>2. CASE kind = "rel"
  <2>1. k \in Slots
    BY <1>2, CntAssumption DEF Slots, Rounds
  <2> QED
    BY <1>2, <2>1, WordAssumption DEF Stamps, Interval, Words
<1> QED
  BY <1>1, <1>2 DEF StatTypeOK

LEMMA IntervalIs ==
    ASSUME StatTypeOK, Regular, NEW k \in 0 .. Rounds - 1
    PROVE  /\ Interval(given, k) \in 0 .. SignBit - 1
           /\ kind = "abs" => Interval(given, k) = given[k + 1] - given[k]
           /\ kind = "rel" => Interval(given, k) \in 0 .. MaxInterval
<1>1. CASE kind = "abs"
  <2>1. k \in Slots /\ k + 1 \in Slots /\ k \in 0 .. Cnt - 2
    BY <1>1, CntAssumption DEF Slots, Rounds
  <2>2. given[k] \in 0 .. MaxStamp /\ given[k + 1] \in 0 .. MaxStamp
    BY <1>1, <2>1 DEF StatTypeOK, Stamps
  <2>3. given[k] <= given[k + 1]
    BY <1>1, <2>1 DEF Regular, Increasing
  <2>4. given[k + 1] - given[k] \in Words /\
        given[k + 1] - given[k] \in 0 .. SignBit - 1
    BY <2>2, <2>3, WordAssumption DEF Words
  <2> QED
    BY <1>1, <2>4, WordIs DEF Interval
<1>2. CASE kind = "rel"
  <2>1. k \in Slots
    BY <1>2, CntAssumption DEF Slots, Rounds
  <2> QED
    BY <1>2, <2>1, WordAssumption DEF StatTypeOK, Stamps, Interval
<1> QED
  BY <1>1, <1>2 DEF StatTypeOK

LEMMA StatTypeStep == StatTypeOK /\ [StatNext]_statvars => StatTypeOK'
<1> SUFFICES ASSUME StatTypeOK, [StatNext]_statvars PROVE StatTypeOK'
  OBVIOUS
<1>1. kind' = kind /\ given' = given /\ Rounds' = Rounds /\ Stamps' = Stamps
  BY StatFrame
<1>2. Rounds \in Nat \ {0} /\ Rounds <= Cnt
  BY RoundsIs
<1>3. CASE AddValue
  <2> DEFINE v == Interval(samples, n)
  <2>1. n \in 0 .. Rounds - 1 /\ n \in Slots
    BY <1>2, <1>3, CntAssumption DEF StatTypeOK, AddValue, Slots
  <2>2. v \in Words
    BY <2>1, IntervalWord DEF StatTypeOK
  <2> HIDE DEF v
  <2>3. Word(avg + v) \in Words
    <3>1. avg + v \in Int
      BY <2>2, WordAssumption DEF StatTypeOK, Words
    <3> QED
      BY <3>1, WordIs
  <2>4. /\ deltas' = IF kind = "abs" THEN [deltas EXCEPT ![n] = v] ELSE deltas
        /\ avg' = Word(avg + v)
        /\ min_val' \in {v, min_val} /\ max_val' \in {v, max_val}
        /\ n' = n + 1
    BY <1>3 DEF AddValue, v
  <2>5. UNCHANGED <<samples, over, torn, loop, avg_jit, max_jit>>
    BY <1>3 DEF AddValue, buffer
  <2>6. deltas' \in [Slots -> Words]
    BY <2>1, <2>2, <2>4 DEF StatTypeOK
  <2>7. n' \in 0 .. Rounds
    BY <1>2, <2>1, <2>4
  <2> QED
    BY <1>1, <2>2, <2>3, <2>4, <2>5, <2>6, <2>7 DEF StatTypeOK
<1>4. CASE Divide
  <2>1. avg \div Rounds \in 0 .. avg
    BY <1>2, QuotientLess, WordAssumption DEF StatTypeOK, Words
  <2>2. avg' \in Words
    BY <1>4, <2>1, WordAssumption DEF StatTypeOK, Words, Divide
  <2> QED
    BY <1>1, <1>2, <1>4, <2>2 DEF StatTypeOK, Divide, buffer
<1>5. CASE AddDeviation
  <2> DEFINE v == IF kind = "abs" THEN deltas[n] ELSE samples[n]
  <2> DEFINE dev == Abs(Signed(Word(avg - v)))
  <2>1. n \in 0 .. Rounds - 1 /\ n \in Slots
    BY <1>2, <1>5, CntAssumption DEF StatTypeOK, AddDeviation, Slots
  <2>2. v \in Int
    BY <2>1, WordAssumption DEF StatTypeOK, Words, Stamps
  <2>3. dev \in Nat
    <3> HIDE DEF v
    <3>1. avg - v \in Int
      BY <2>2, WordAssumption DEF StatTypeOK, Words
    <3>2. Word(avg - v) \in Words
      BY <3>1, WordIs
    <3> QED
      BY <3>2, WordAssumption DEF Words, Signed, Abs
  <2>4. /\ max_jit' = Larger(dev, max_jit)
        /\ avg_jit' = Word(avg_jit + dev * dev)
        /\ n' = n + 1
    BY <1>5 DEF AddDeviation
  <2>5. UNCHANGED <<samples, over, torn, loop, deltas, avg, min_val, max_val>>
    BY <1>5 DEF AddDeviation, buffer
  <2> HIDE DEF dev
  <2>6. max_jit' \in Nat
    BY <2>3, <2>4 DEF StatTypeOK, Larger
  <2>7. avg_jit' \in Words
    <3>1. dev * dev \in Nat
      BY <2>3
    <3>2. avg_jit + dev * dev \in Int
      BY <3>1, WordAssumption DEF StatTypeOK, Words
    <3> QED
      BY <2>4, <3>2, WordIs
  <2>8. n' \in 0 .. Rounds
    BY <1>2, <2>1, <2>4
  <2> QED
    BY <1>1, <2>5, <2>6, <2>7, <2>8 DEF StatTypeOK
<1>6. CASE Root
  <2>1. avg_jit \div Cnt \in 0 .. avg_jit
    BY CntAssumption, QuotientLess, WordAssumption DEF StatTypeOK, Words
  <2>2. Sqrt(avg_jit \div Cnt) \in 0 .. (avg_jit \div Cnt)
    BY <2>1, SqrtIs, WordAssumption DEF StatTypeOK, Words
  <2>3. avg_jit' \in Words
    BY <1>6, <2>1, <2>2, WordAssumption DEF StatTypeOK, Words, Root
  <2> QED
    BY <1>1, <1>6, <2>3 DEF StatTypeOK, Root, buffer
<1>7. CASE Overwrite
  <2>1. samples' \in [Slots -> Stamps]
    BY <1>7 DEF StatTypeOK, Overwrite
  <2> QED
    BY <1>1, <1>7, <2>1 DEF StatTypeOK, Overwrite, results
<1>8. CASE UNCHANGED statvars
  BY <1>1, <1>8 DEF StatTypeOK, statvars, buffer, results
<1> QED
  BY <1>3, <1>4, <1>5, <1>6, <1>7, <1>8 DEF StatNext

(* What a round of the first loop does, unless the analysis is torn.       *)
LEMMA Adds ==
    ASSUME StatTypeOK, Kept, AddValue, ~torn
    PROVE  LET v == Interval(given, n)
           IN  /\ n \in 0 .. Rounds - 1 /\ n \in Slots /\ v \in Words
               /\ loop = "first" /\ Seen = n /\ Seen' = n + 1
               /\ avg' = Word(avg + v)
               /\ min_val' = IF n = 0 \/ min_val > v THEN v ELSE min_val
               /\ max_val' = IF n = 0 \/ max_val < v THEN v ELSE max_val
               /\ deltas' = IF kind = "abs" THEN [deltas EXCEPT ![n] = v]
                                            ELSE deltas
               /\ n' = n + 1
               /\ UNCHANGED <<buffer, loop, avg_jit, max_jit>>
<1>1. loop = "first" /\ n < Rounds
  BY DEF AddValue
<1>2. n \in 0 .. Rounds - 1 /\ n \in Slots
  BY RoundsIs, CntAssumption DEF AddValue, StatTypeOK, Slots
<1>3. Interval(given, n) \in Words
  BY <1>2, IntervalWord DEF StatTypeOK
<1>4. Seen = n /\ Seen' = n + 1
  BY <1>1 DEF AddValue, Seen
<1>5. Interval(samples, n) = Interval(given, n)
  <2>1. Needed(n) /\ (kind = "abs" => Needed(n + 1) /\ n + 1 \in Slots)
    BY <1>1, <1>2, CntAssumption DEF Needed, Rounds, Slots
  <2> QED
    BY <1>2, <2>1 DEF Kept, Interval
<1> QED
  BY <1>1, <1>2, <1>3, <1>4, <1>5 DEF AddValue

(* After the first loop everything has been seen.                          *)
LEMMA SeenStays ==
    ASSUME StatTypeOK, [StatNext]_statvars, ~AddValue
    PROVE  Seen' = Seen
<1>1. Rounds' = Rounds
  BY StatFrame
<1>2. CASE Divide
  <2>1. n = Rounds
    BY <1>2, RoundsIs DEF StatTypeOK, Divide
  <2> QED
    BY <1>1, <1>2, <2>1 DEF Seen, Divide
<1>3. CASE AddDeviation \/ Root
  BY <1>1, <1>3 DEF Seen, AddDeviation, Root
<1>4. CASE Overwrite \/ UNCHANGED statvars
  BY <1>1, <1>4 DEF Seen, Overwrite, statvars
<1> QED
  BY <1>2, <1>3, <1>4 DEF StatNext

LEMMA NotTorn == StatTypeOK /\ [StatNext]_statvars /\ ~torn' => ~torn
  BY DEF StatTypeOK, StatNext, statvars, buffer, AddValue, Divide,
         AddDeviation, Root, Overwrite

LEMMA KeptStep == StatTypeOK /\ Kept /\ [StatNext]_statvars => Kept'
<1> SUFFICES ASSUME StatTypeOK, Kept, [StatNext]_statvars, ~torn' PROVE Kept'
  BY DEF Kept
<1>1. /\ kind' = kind /\ given' = given
      /\ \A k : Interval(given, k)' = Interval(given, k)
  BY StatFrame
<1>2. ~torn
  BY NotTorn
<1>3. CASE AddValue
  <2>1. samples' = samples /\ \A k \in Slots : Needed(k)' => Needed(k)
    BY <1>1, <1>3, RoundsIs DEF AddValue, buffer, Needed, Slots, Rounds,
                                StatTypeOK
  <2>2. ASSUME kind = "abs", NEW k \in 0 .. Seen' - 1
        PROVE  deltas'[k] = Interval(given, k)
    <3>1. k \in 0 .. n /\ n \in Slots /\ Seen = n
      BY <1>2, <1>3, <2>2, Adds
    <3>2. deltas' = [deltas EXCEPT ![n] = Interval(given, n)]
      BY <1>2, <1>3, <2>2, Adds
    <3>3. k # n => k \in 0 .. Seen - 1 /\ k \in Slots
      BY <3>1, CntAssumption DEF Slots
    <3>4. CASE k = n
      BY <3>1, <3>2, <3>4 DEF StatTypeOK
    <3>5. CASE k # n
      BY <1>2, <2>2, <3>1, <3>2, <3>3, <3>5 DEF StatTypeOK, Kept
    <3> QED
      BY <3>4, <3>5
  <2> QED
    BY <1>1, <1>2, <2>1, <2>2 DEF Kept
<1>4. CASE ~AddValue
  <2>1. Seen' = Seen
    BY <1>4, SeenStays
  <2>2. deltas' = deltas
    BY <1>4 DEF StatNext, statvars, Divide, AddDeviation, Root, Overwrite
  <2>3. ASSUME NEW k \in Slots, Needed(k)' PROVE samples'[k] = given[k]
    <3>1. CASE Divide \/ AddDeviation \/ Root \/ UNCHANGED statvars
      <4>1. samples' = samples /\ Needed(k)
        BY <1>1, <2>3, <3>1, RoundsIs
        DEF statvars, buffer, Divide, AddDeviation, Root, Needed, Rounds,
            Slots, StatTypeOK
      <4> QED
        BY <1>2, <4>1 DEF Kept
    <3>2. CASE Overwrite
      <4>1. Needed(k) /\ ~Needed(over)
        BY <1>1, <2>3, <3>2 DEF Overwrite, Needed, Rounds
      <4>2. samples'[k] = samples[k]
        BY <3>2, <4>1 DEF Overwrite, StatTypeOK
      <4> QED
        BY <1>2, <4>1, <4>2 DEF Kept
    <3> QED
      BY <1>4, <3>1, <3>2 DEF StatNext
  <2> QED
    BY <1>1, <1>2, <2>1, <2>2, <2>3 DEF Kept
<1> QED
  BY <1>3, <1>4

LEMMA ExtremesStep ==
    StatTypeOK /\ Kept /\ Extremes /\ [StatNext]_statvars => Extremes'
<1> SUFFICES ASSUME StatTypeOK, Kept, Extremes, [StatNext]_statvars, ~torn'
             PROVE  Extremes'
  BY DEF Extremes
<1>1. \A k : Interval(given, k)' = Interval(given, k)
  BY StatFrame
<1>2. ~torn
  BY NotTorn
<1>3. CASE AddValue
  <2> DEFINE v == Interval(given, n)
  <2>1. /\ n \in 0 .. Rounds - 1 /\ v \in Words /\ Seen = n /\ Seen' = n + 1
        /\ min_val' = IF n = 0 \/ min_val > v THEN v ELSE min_val
        /\ max_val' = IF n = 0 \/ max_val < v THEN v ELSE max_val
    BY <1>2, <1>3, Adds
  <2>2. v \in Nat /\ min_val \in Nat /\ max_val \in Nat /\ n \in Nat
    BY <2>1, RoundsIs, WordAssumption DEF StatTypeOK, Words
  <2>3. v = Interval(given, n)
    OBVIOUS
  <2> HIDE DEF v
  <2>4. /\ n > 0 => min_val' <= min_val /\ max_val <= max_val'
        /\ v \in min_val' .. max_val'
    <3>1. CASE n = 0
      BY <2>1, <2>2, <3>1
    <3>2. CASE n > 0
      <4>1. 0 \in 0 .. Seen - 1
        BY <2>1, <2>2, <3>2
      <4>2. Interval(given, 0) \in min_val .. max_val
        BY <1>2, <4>1 DEF Extremes
      <4>3. min_val <= max_val
        BY <2>2, <4>2
      <4> QED
        BY <2>1, <2>2, <3>2, <4>3
    <3> QED
      BY <2>2, <3>1, <3>2
  <2>5. ASSUME NEW k \in 0 .. Seen' - 1
        PROVE  Interval(given, k) \in min_val' .. max_val'
    <3>1. CASE k = n
      BY <2>3, <2>4, <3>1
    <3>2. CASE k # n
      <4>1. k \in 0 .. Seen - 1 /\ n > 0
        BY <2>1, <2>2, <2>5, <3>2
      <4>2. Interval(given, k) \in min_val .. max_val
        BY <1>2, <4>1 DEF Extremes
      <4>3. min_val' \in Nat /\ max_val' \in Nat
        BY <2>1, <2>2
      <4> QED
        BY <2>2, <2>4, <4>1, <4>2, <4>3
    <3> QED
      BY <3>1, <3>2
  <2>6. /\ n \in 0 .. Seen' - 1
        /\ \A k \in 0 .. Seen - 1 : k \in 0 .. Seen' - 1
    BY <2>1, <2>2
  <2>7. \E k \in 0 .. Seen' - 1 : Interval(given, k) = min_val'
    <3>1. CASE min_val' = v
      BY <2>3, <2>6, <3>1
    <3>2. CASE min_val' # v
      <4>1. min_val' = min_val /\ Seen > 0
        BY <2>1, <2>2, <3>2
      <4> QED
        BY <1>2, <2>6, <4>1 DEF Extremes
    <3> QED
      BY <3>1, <3>2
  <2>8. \E k \in 0 .. Seen' - 1 : Interval(given, k) = max_val'
    <3>1. CASE max_val' = v
      BY <2>3, <2>6, <3>1
    <3>2. CASE max_val' # v
      <4>1. max_val' = max_val /\ Seen > 0
        BY <2>1, <2>2, <3>2
      <4> QED
        BY <1>2, <2>6, <4>1 DEF Extremes
    <3> QED
      BY <3>1, <3>2
  <2> QED
    BY <1>1, <2>5, <2>7, <2>8 DEF Extremes
<1>4. CASE ~AddValue
  <2>1. Seen' = Seen
    BY <1>4, SeenStays
  <2>2. min_val' = min_val /\ max_val' = max_val
    BY <1>4 DEF StatNext, statvars, results, Divide, AddDeviation, Root,
                Overwrite
  <2> QED
    BY <1>1, <1>2, <2>1, <2>2 DEF Extremes
<1> QED
  BY <1>3, <1>4

LEMMA TelescopeStep ==
    StatTypeOK /\ Kept /\ Telescope /\ [StatNext]_statvars => Telescope'
<1> SUFFICES ASSUME StatTypeOK, Kept, Telescope, [StatNext]_statvars, ~torn',
                    kind' = "abs"
             PROVE  Telescope'
  BY DEF Telescope
<1>1. kind = "abs" /\ given' = given /\ ~torn
  BY StatFrame, NotTorn
<1>2. CASE AddValue
  <2>1. /\ n \in 0 .. Rounds - 1 /\ n' = n + 1
        /\ avg' = Word(avg + Interval(given, n))
        /\ loop = "first" /\ loop' = "first"
    BY <1>1, <1>2, Adds
  <2>2. n \in Slots /\ n + 1 \in Slots /\ 0 \in Slots
    BY <1>1, <2>1, CntAssumption DEF Slots, Rounds
  <2> DEFINE x == given[n] - given[0]
  <2> DEFINE y == given[n + 1] - given[n]
  <2>3. x \in Int /\ y \in Int /\ x + y = given[n + 1] - given[0]
    BY <2>2, WordAssumption DEF StatTypeOK, Stamps
  <2>4. avg = Word(x) /\ Interval(given, n) = Word(y)
    BY <1>1, <2>1 DEF Telescope, Interval
  <2> HIDE DEF x, y
  <2>5. avg' = Word(x + y)
    BY <2>1, <2>3, <2>4, WordSum
  <2> QED
    BY <1>1, <2>1, <2>3, <2>5 DEF Telescope
<1>3. CASE Divide
  <2>1. n = Cnt - 1 /\ Rounds = Cnt - 1 /\ loop = "first"
    BY <1>1, <1>3, CntAssumption DEF StatTypeOK, Divide, Rounds
  <2> QED
    BY <1>1, <1>3, <2>1 DEF Telescope, Divide
<1>4. CASE AddDeviation \/ Root \/ Overwrite \/ UNCHANGED statvars
  <2>1. avg' = avg /\ (n' = n \/ loop # "first")
        /\ (loop' = "first" <=> loop = "first")
    BY <1>4 DEF AddDeviation, Root, Overwrite, statvars, results
  <2> QED
    BY <1>1, <2>1 DEF Telescope
<1> QED
  BY <1>2, <1>3, <1>4 DEF StatNext

(* While nothing wraps around, the next value can be added as a number.    *)
LEMMA AddsNumber ==
    ASSUME StatTypeOK, Kept, Extremes, Telescope, AverageBetween, AddValue,
           ~torn, Regular
    PROVE  /\ avg' = avg + Interval(given, n)
           /\ kind = "abs" => given[0] <= given[n + 1]
<1> DEFINE v == Interval(given, n)
<1>1. /\ n \in 0 .. Rounds - 1 /\ loop = "first" /\ Seen = n
      /\ avg' = Word(avg + v)
  BY Adds
<1>2. n \in Nat /\ Rounds \in Nat /\ Rounds <= Cnt
  BY <1>1, RoundsIs
<1>3. n * min_val <= avg /\ avg <= n * max_val
  BY <1>1 DEF AverageBetween
<1>4. CASE kind = "abs"
  <2>1. n \in Slots /\ n + 1 \in Slots /\ 0 \in Slots
    BY <1>1, <1>4, CntAssumption DEF Slots, Rounds
  <2>2. given[0] <= given[n] /\ v = given[n + 1] - given[n] /\ v >= 0
    BY <1>1, <1>4, IntervalIs, WordAssumption DEF AverageBetween
  <2>3. \A k \in Slots : given[k] \in 0 .. MaxStamp
    BY <1>4 DEF StatTypeOK, Stamps
  <2> HIDE DEF v
  <2>4. /\ given[n] - given[0] \in Words
        /\ given[n + 1] - given[0] \in Words
        /\ given[0] <= given[n + 1]
    BY <2>1, <2>2, <2>3, WordAssumption DEF Words
  <2>5. avg = given[n] - given[0]
    <3>1. avg = Word(given[n] - given[0])
      BY <1>1, <1>4 DEF Telescope
    <3>2. given[n] - given[0] \in Int
      BY <2>1, <2>3
    <3> QED
      BY <2>4, <3>1, <3>2, WordIs
  <2>6. avg + v = given[n + 1] - given[0]
    BY <2>1, <2>2, <2>3, <2>5
  <2>7. Word(avg + v) = avg + v
    <3>1. avg + v \in Int /\ avg + v \in Words
      BY <2>1, <2>3, <2>4, <2>6
    <3> QED
      BY <3>1, WordIs
  <2> QED
    BY <1>1, <2>4, <2>7 DEF v
<1>5. CASE kind = "rel"
  <2>1. v \in 0 .. MaxInterval
    BY <1>1, <1>5, IntervalIs
  <2> HIDE DEF v
  <2>2. avg <= n * MaxInterval /\ n * MaxInterval \in Nat
    <3>1. CASE n = 0
      BY <1>3, <3>1, WordAssumption DEF StatTypeOK, Words
    <3>2. CASE n > 0
      <4>1. PICK k \in 0 .. n - 1 : Interval(given, k) = max_val
        BY <1>1, <3>2 DEF Extremes
      <4>2. k \in 0 .. Rounds - 1
        BY <1>1, <1>2
      <4>3. max_val \in 0 .. MaxInterval
        BY <1>5, <4>1, <4>2, IntervalIs
      <4>4. n * max_val <= n * MaxInterval /\ n * max_val \in Nat
            /\ n * MaxInterval \in Nat
        BY <1>2, <4>3, ProductGrows, WordAssumption
      <4> QED
        BY <1>3, <4>4, WordAssumption DEF StatTypeOK, Words
    <3> QED
      BY <1>2, <3>1, <3>2
  <2>3. (n + 1) * MaxInterval = n * MaxInterval + MaxInterval
    BY <1>2, SumOfEqual, WordAssumption
  <2>4. /\ MaxInterval * (n + 1) <= MaxInterval * Cnt
        /\ MaxInterval * (n + 1) = (n + 1) * MaxInterval
        /\ MaxInterval * Cnt = Cnt * MaxInterval
    BY <1>1, <1>2, CntAssumption, ProductGrows, WordAssumption
  <2>5. avg \in Nat /\ avg + v \in Nat
    BY <2>1, WordAssumption DEF StatTypeOK, Words
  <2>6. avg + v < 2 * SignBit
    <3> DEFINE a == n * MaxInterval
    <3> DEFINE b == (n + 1) * MaxInterval
    <3> DEFINE c == Cnt * MaxInterval
    <3>1. avg <= a /\ a \in Nat /\ b = a + MaxInterval /\ b <= c
          /\ c < 2 * SignBit
      BY <2>2, <2>3, <2>4, WordAssumption
    <3>2. b \in Nat /\ c \in Nat
      BY <1>2, CntAssumption, WordAssumption
    <3> HIDE DEF a, b, c
    <3> QED
      BY <2>1, <2>5, <3>1, <3>2, WordAssumption
  <2>7. Word(avg + v) = avg + v
    <3>1. avg + v \in Int /\ avg + v \in Words
      BY <2>5, <2>6, WordAssumption DEF Words
    <3> QED
      BY <3>1, WordIs
  <2> QED
    BY <1>1, <1>5, <2>7 DEF v
<1> QED
  BY <1>4, <1>5 DEF StatTypeOK

LEMMA BetweenStep ==
    /\ StatTypeOK /\ Kept /\ Extremes /\ Telescope /\ AverageBetween
    /\ [StatNext]_statvars
    => AverageBetween'
<1> SUFFICES ASSUME StatTypeOK, Kept, Extremes, Telescope, AverageBetween,
                    [StatNext]_statvars, ~torn', Regular'
             PROVE  AverageBetween'
  BY DEF AverageBetween
<1>1. kind' = kind /\ given' = given /\ Regular /\ ~torn
  BY StatFrame, NotTorn
<1>2. avg \in Nat /\ min_val \in Nat /\ max_val \in Nat /\ n \in Nat
  BY RoundsIs, WordAssumption DEF StatTypeOK, Words
<1>3. CASE AddValue
  <2> DEFINE v == Interval(given, n)
  <2>1. /\ avg' = avg + v
        /\ kind = "abs" => given[0] <= given[n + 1]
    BY <1>1, <1>3, AddsNumber
  <2>2. /\ v \in Words /\ loop = "first" /\ loop' = "first" /\ n' = n + 1
        /\ min_val' = IF n = 0 \/ min_val > v THEN v ELSE min_val
        /\ max_val' = IF n = 0 \/ max_val < v THEN v ELSE max_val
    BY <1>1, <1>3, Adds
  <2>3. n * min_val <= avg /\ avg <= n * max_val
    BY <1>1, <2>2 DEF AverageBetween
  <2> HIDE DEF v
  <2>4. /\ v \in Nat /\ min_val' \in Nat /\ max_val' \in Nat
        /\ min_val' <= v /\ v <= max_val'
        /\ n > 0 => min_val' <= min_val /\ max_val <= max_val'
    BY <1>2, <2>2, WordAssumption DEF Words
  <2>5. n * min_val' <= avg /\ avg <= n * max_val'
        /\ n * min_val' \in Nat /\ n * max_val' \in Nat
    <3>1. CASE n = 0
      <4>1. 0 * max_val = 0 /\ 0 * min_val' = 0 /\ 0 * max_val' = 0
        BY <1>2, <2>4, ZeroTimes
      <4> QED
        BY <1>2, <2>3, <3>1, <4>1
    <3>2. CASE n > 0
      <4>1. /\ n * min_val' <= n * min_val /\ n * max_val <= n * max_val'
            /\ n * min_val' \in Nat /\ n * min_val \in Nat
            /\ n * max_val' \in Nat /\ n * max_val \in Nat
        BY <1>2, <2>4, <3>2, ProductGrows
      <4> QED
        BY <1>2, <2>3, <4>1
    <3> QED
      BY <1>2, <3>1, <3>2
  <2>6. (n + 1) * min_val' <= avg' /\ avg' <= (n + 1) * max_val'
    BY <1>2, <2>1, <2>4, <2>5, SumBetween
  <2> QED
    BY <1>1, <2>1, <2>2, <2>6 DEF AverageBetween
<1>4. CASE Divide
  <2>1. n = Rounds /\ loop = "first"
    BY <1>4, RoundsIs DEF StatTypeOK, Divide
  <2>2. Rounds * min_val <= avg /\ avg <= Rounds * max_val
    BY <1>1, <2>1 DEF AverageBetween
  <2>3. min_val <= avg \div Rounds /\ avg \div Rounds <= max_val
    BY <1>2, <2>2, RoundsIs, QuotientBetween
  <2> QED
    BY <1>4, <2>3 DEF AverageBetween, Divide
<1>5. CASE AddDeviation \/ Root \/ Overwrite \/ UNCHANGED statvars
  <2>1. /\ avg' = avg /\ min_val' = min_val /\ max_val' = max_val
        /\ (n' = n \/ loop # "first") /\ (loop' = "first" <=> loop = "first")
    BY <1>5 DEF AddDeviation, Root, Overwrite, statvars, results
  <2> QED
    BY <1>1, <2>1 DEF AverageBetween
<1> QED
  BY <1>3, <1>4, <1>5 DEF StatNext

(* A square is added to the sum: it stays below the bound, and above the   *)
(* largest one.                                                            *)
LEMMA SquaresAdd ==
    ASSUME NEW c \in Nat, NEW s \in Nat, NEW m \in Nat, NEW d \in Nat,
           s <= c * (m * m)
    PROVE  LET M == Larger(d, m)
           IN  /\ M \in Nat /\ m <= M /\ d <= M
               /\ s + d * d <= (c + 1) * (M * M)
               /\ m * m <= s => M * M <= s + d * d
<1> DEFINE M == Larger(d, m)
<1>1. M \in Nat /\ m <= M /\ d <= M /\ (M = d \/ M = m)
  BY DEF Larger
<1> HIDE DEF M
<1> DEFINE a == m * m
<1> DEFINE b == d * d
<1> DEFINE e == M * M
<1>2. a \in Nat /\ b \in Nat /\ e \in Nat /\ a <= e /\ b <= e
  BY <1>1, SquareGrows
<1>3. e = b \/ e = a
  BY <1>1
<1> DEFINE x == c * a
<1> DEFINE y == c * e
<1>4. s <= x
  OBVIOUS
<1> HIDE DEF a, b, e
<1>5. x <= y /\ x \in Nat /\ y \in Nat
  BY <1>2, ProductGrows
<1>6. (c + 1) * e = y + e
  BY <1>2, SumOfEqual
<1> HIDE DEF x, y
<1>7. s + b <= (c + 1) * e
  BY <1>2, <1>4, <1>5, <1>6
<1>8. a <= s => e <= s + b
  BY <1>2, <1>3
<1> QED
  BY <1>1, <1>7, <1>8 DEF M, a, b, e

(* The value of the second loop is that of the first, and its deviation is *)
(* a number.                                                               *)
LEMMA Deviates ==
    ASSUME StatTypeOK, Kept, Extremes, AverageBetween, AddDeviation, ~torn,
           Regular
    PROVE  /\ n \in 0 .. Rounds - 1 /\ n' = n + 1 /\ Deviation(n) \in Nat
           /\ max_jit' = Larger(Deviation(n), max_jit)
           /\ avg_jit' = Word(avg_jit + Deviation(n) * Deviation(n))
<1> DEFINE v == IF kind = "abs" THEN deltas[n] ELSE samples[n]
<1> DEFINE dev == Abs(Signed(Word(avg - v)))
<1>1. /\ loop = "second" /\ n' = n + 1
      /\ max_jit' = Larger(dev, max_jit)
      /\ avg_jit' = Word(avg_jit + dev * dev)
  BY DEF AddDeviation
<1>2. n \in 0 .. Rounds - 1 /\ Rounds \in Nat \ {0} /\ Seen = Rounds
  BY <1>1, RoundsIs DEF StatTypeOK, AddDeviation, Seen
<1>3. v = Interval(given, n)
  <2>1. CASE kind = "abs"
    BY <1>2, <2>1 DEF Kept
  <2>2. CASE kind = "rel"
    <3>1. n \in Slots /\ Needed(n)
      BY <1>1, <1>2, <2>2, CntAssumption DEF Needed, Slots, Rounds
    <3> QED
      BY <2>2, <3>1 DEF Kept, Interval
  <2> QED
    BY <2>1, <2>2 DEF StatTypeOK
<1>4. v \in 0 .. SignBit - 1
  BY <1>2, <1>3, IntervalIs
<1>5. avg \in 0 .. SignBit - 1
  <2>1. PICK k \in 0 .. Rounds - 1 : Interval(given, k) = max_val
    BY <1>2 DEF Extremes
  <2>2. max_val \in 0 .. SignBit - 1
    BY <2>1, IntervalIs
  <2>3. avg <= max_val
    BY <1>1 DEF AverageBetween
  <2> QED
    BY <2>2, <2>3, WordAssumption DEF StatTypeOK, Words
<1>6. dev = Abs(avg - v)
  <2> HIDE DEF v
  <2> QED
    BY <1>4, <1>5, DeviationIs
<1>7. dev = Deviation(n)
  BY <1>3, <1>6 DEF Deviation
<1>8. Abs(avg - v) \in Nat
  <2> HIDE DEF v
  <2> QED
    BY <1>4, <1>5, WordAssumption DEF Abs
<1> QED
  BY <1>1, <1>2, <1>6, <1>7, <1>8

LEMMA JitterStep ==
    /\ StatTypeOK /\ Kept /\ Extremes /\ AverageBetween /\ Jitter
    /\ [StatNext]_statvars
    => Jitter'
<1> SUFFICES ASSUME StatTypeOK, Kept, Extremes, AverageBetween, Jitter,
                    [StatNext]_statvars
             PROVE  Jitter'
  OBVIOUS
<1>1. loop' = "first" => max_jit' = 0 /\ avg_jit' = 0
  BY DEF Jitter, StatNext, statvars, results, AddValue, Divide, AddDeviation,
         Root, Overwrite
<1> SUFFICES ASSUME ~torn', Regular', loop' = "second" PROVE Jitter'
  BY <1>1 DEF Jitter
<1>2. Regular /\ ~torn /\ \A k : Interval(given, k)' = Interval(given, k)
  BY StatFrame, NotTorn
<1>3. CASE Divide
  <2>1. max_jit = 0 /\ avg_jit = 0
    BY <1>3 DEF Jitter, Divide
  <2>2. max_jit' = 0 /\ avg_jit' = 0 /\ n' = 0
    BY <1>3, <2>1 DEF Divide
  <2> QED
    BY <2>2 DEF Jitter
<1>4. CASE AddDeviation
  <2> DEFINE d == Deviation(n)
  <2> DEFINE m == max_jit
  <2> DEFINE M == Larger(d, m)
  <2>1. /\ n \in 0 .. Rounds - 1 /\ n' = n + 1 /\ d \in Nat
        /\ max_jit' = M /\ avg_jit' = Word(avg_jit + d * d)
    BY <1>2, <1>4, Deviates
  <2>2. loop = "second" /\ avg' = avg
    BY <1>4 DEF AddDeviation
  <2>3. n \in Nat /\ m \in Nat /\ avg_jit \in Nat /\ n + 1 <= Cnt
    BY <2>1, RoundsIs, CntAssumption, WordAssumption DEF StatTypeOK, Words
  <2>4. \A k : Deviation(k)' = Deviation(k)
    BY <1>2, <2>2 DEF Deviation
  <2>5. /\ \A k \in 0 .. n - 1 : Deviation(k) <= m
        /\ IF n = 0 THEN m = 0
                    ELSE \E k \in 0 .. n - 1 : Deviation(k) = m
        /\ avg_jit <= n * (m * m)
        /\ Cnt * (m * m) < 2 * SignBit => m * m <= avg_jit
    BY <1>2, <2>2 DEF Jitter
  <2>6. d = Deviation(n)
    OBVIOUS
  <2> HIDE DEF d, m
  <2>7. /\ M \in Nat /\ m <= M /\ d <= M /\ (M = d \/ M = m)
        /\ avg_jit + d * d <= (n + 1) * (M * M)
        /\ m * m <= avg_jit => M * M <= avg_jit + d * d
    BY <2>1, <2>3, <2>5, SquaresAdd DEF Larger
  <2> HIDE DEF M
  <2>8. \A k \in 0 .. n : Deviation(k) <= M
    <3> SUFFICES ASSUME NEW k \in 0 .. n PROVE Deviation(k) <= M
      OBVIOUS
    <3>1. CASE k = n
      BY <2>6, <2>7, <3>1
    <3>2. CASE k # n
      <4>1. k \in 0 .. n - 1 /\ k \in 0 .. Rounds - 1
        BY <2>1, <2>3, <3>2, RoundsIs
      <4>2. Deviation(k) \in Nat
        BY <1>2, <4>1, IntervalIs, WordAssumption
        DEF Deviation, Abs, StatTypeOK, Words
      <4> QED
        BY <2>3, <2>5, <2>7, <4>1, <4>2
    <3> QED
      BY <3>1, <3>2
  <2>9. \E k \in 0 .. n : Deviation(k) = M
    <3>1. CASE M = d
      BY <2>3, <2>6, <3>1
    <3>2. CASE M # d
      <4>1. M = m /\ n # 0
        BY <2>1, <2>3, <2>5, <2>7, <3>2
      <4>2. PICK k \in 0 .. n - 1 : Deviation(k) = m
        BY <2>5, <4>1
      <4> QED
        BY <2>3, <4>1, <4>2
    <3> QED
      BY <3>1, <3>2
  <2> DEFINE x == avg_jit + d * d
  <2> DEFINE e == M * M
  <2>10. x \in Nat /\ e \in Nat /\ Word(x) <= x
    <3>1. d * d \in Nat /\ M * M \in Nat
      BY <2>1, <2>7
    <3>2. x \in Nat
      BY <2>3, <3>1
    <3> HIDE DEF x
    <3> QED
      BY <3>1, <3>2, WordIs
  <2>11. avg_jit' = Word(x) /\ x <= (n + 1) * e
    BY <2>1, <2>7
  <2>12. avg_jit' <= (n + 1) * e
    <3> HIDE DEF x, e
    <3>1. (n + 1) * e \in Nat /\ Word(x) \in Int
      BY <2>3, <2>10, WordIs, WordAssumption DEF Words
    <3> QED
      BY <2>10, <2>11, <3>1
  <2>13. ASSUME Cnt * e < 2 * SignBit PROVE e <= avg_jit'
    <3> DEFINE a == m * m
    <3>1. a <= e /\ a \in Nat
      BY <2>3, <2>7, SquareGrows
    <3>2. a <= avg_jit => e <= x
      BY <2>7
    <3>3. Cnt * a < 2 * SignBit => a <= avg_jit
      BY <2>5
    <3> HIDE DEF x, e, a
    <3>4. Cnt * a <= Cnt * e /\ Cnt * a \in Nat /\ Cnt * e \in Nat
      BY <2>10, <3>1, CntAssumption, ProductGrows
    <3>5. e <= x
      BY <2>13, <3>2, <3>3, <3>4, WordAssumption
    <3>6. /\ e * (n + 1) <= e * Cnt
          /\ e * (n + 1) = (n + 1) * e /\ e * Cnt = Cnt * e
      BY <2>3, <2>10, CntAssumption, ProductGrows
    <3>7. x < 2 * SignBit
      <4> DEFINE f == (n + 1) * e
      <4> DEFINE g == Cnt * e
      <4>1. x <= f /\ f <= g /\ g < 2 * SignBit /\ f \in Nat /\ g \in Nat
        BY <2>3, <2>10, <2>11, <2>13, <3>4, <3>6
      <4> HIDE DEF f, g
      <4> QED
        BY <2>10, <4>1, WordAssumption
    <3>8. Word(x) = x
      BY <2>10, <3>7, WordIs, WordAssumption DEF Words
    <3> QED
      BY <2>11, <3>5, <3>8
  <2>14. 0 .. n' - 1 = 0 .. n /\ n' # 0
    BY <2>1, <2>3
  <2> QED
    BY <2>1, <2>4, <2>8, <2>9, <2>12, <2>13, <2>14 DEF Jitter
<1>5. CASE Overwrite \/ UNCHANGED statvars
  <2>1. UNCHANGED <<loop, n, avg, avg_jit, max_jit>>
    BY <1>5 DEF Overwrite, statvars, results
  <2>2. \A k : Deviation(k)' = Deviation(k)
    BY <1>2, <2>1 DEF Deviation
  <2> QED
    BY <1>2, <2>1, <2>2 DEF Jitter
<1>6. CASE AddValue \/ Root
  BY <1>6 DEF AddValue, Root
<1> QED
  BY <1>3, <1>4, <1>5, <1>6 DEF StatNext

(* The root of a mean of squares: s is the sum of at most c of them, and m *)
(* the largest number squared.                                             *)
LEMMA RootOfMean ==
    ASSUME NEW c \in Nat \ {0}, NEW s \in Nat, NEW m \in Nat,
           s <= c * (m * m)
    PROVE  LET r == Sqrt(s \div c)
           IN  /\ r <= m
               /\ m * m <= s => m * m < c * ((r + 1) * (r + 1))
<1> DEFINE q == s \div c
<1> DEFINE r == Sqrt(q)
<1>1. q \in Nat /\ s % c \in 0 .. c - 1 /\ s = c * q + (s % c)
  OBVIOUS
<1>2. q <= m * m /\ m * m \in Nat
  <2> DEFINE a == m * m
  <2>1. a \in Nat /\ s <= c * a /\ c * 0 <= s
    OBVIOUS
  <2> HIDE DEF a
  <2>2. s \div c <= a
    BY <2>1, QuotientBetween
  <2> QED
    BY <2>1, <2>2 DEF a
<1> HIDE DEF q
<1>3. r \in Nat /\ r * r <= q /\ q < (r + 1) * (r + 1)
  <2>1. /\ Sqrt(q) \in 0 .. q
        /\ Sqrt(q) * Sqrt(q) <= q
        /\ q < (Sqrt(q) + 1) * (Sqrt(q) + 1)
    BY ONLY <1>1, SqrtIs, Zenon
  <2>2. r \in Nat
    BY ONLY <1>1, <2>1
  <2> QED
    BY ONLY <2>1, <2>2, Zenon
<1> HIDE DEF r
<1>4. r <= m
  <2> SUFFICES ASSUME m + 1 <= r PROVE FALSE
    BY <1>3
  <2>1. (m + 1) * (m + 1) <= r * r
    BY <1>3, SquareGrows
  <2>2. (m + 1) * (m + 1) = m * m + (m + m + 1)
    OBVIOUS
  <2>3. r * r \in Nat
    BY <1>3
  <2> QED
    BY <1>1, <1>2, <1>3, <2>1, <2>2, <2>3
<1>5. s < c * ((r + 1) * (r + 1))
  <2> DEFINE b == (r + 1) * (r + 1)
  <2>1. b \in Nat /\ q + 1 <= b
    BY <1>1, <1>3
  <2> HIDE DEF b
  <2>2. c * (q + 1) <= c * b /\ c * (q + 1) = c * q + c /\ c * b \in Nat
        /\ c * q \in Nat
    BY <1>1, <2>1, ProductGrows
  <2> DEFINE x == c * q
  <2> DEFINE y == c * b
  <2>3. x \in Nat /\ y \in Nat /\ x + c <= y /\ s = x + (s % c)
    BY <1>1, <2>2
  <2> HIDE DEF x, y
  <2>4. s < y
    BY <1>1, <2>3
  <2> QED
    BY <2>4 DEF y, b
<1>6. m * m <= s => m * m < c * ((r + 1) * (r + 1))
  <2> DEFINE y == c * ((r + 1) * (r + 1))
  <2>1. y \in Nat
    BY <1>3
  <2>2. s < y
    BY <1>5
  <2> HIDE DEF y
  <2>3. m * m <= s => m * m < y
    BY <1>2, <2>1, <2>2
  <2> QED
    BY <2>3 DEF y
<1> QED
  BY <1>4, <1>6 DEF q, r

(* At the end of the second loop the largest deviation is that of the      *)
(* minimum or of the maximum.                                              *)
LEMMA FarthestIs ==
    ASSUME StatTypeOK, Extremes, AverageBetween, Jitter, ~torn, Regular,
           loop = "second", n = Rounds
    PROVE  /\ min_val <= avg /\ avg <= max_val
           /\ max_jit = Larger(max_val - avg, avg - min_val)
<1>1. Rounds \in Nat \ {0} /\ Seen = Rounds
  BY RoundsIs DEF Seen
<1>2. /\ avg \in Nat /\ min_val \in Nat /\ max_val \in Nat /\ max_jit \in Nat
      /\ min_val <= avg /\ avg <= max_val
  BY WordAssumption DEF StatTypeOK, Words, AverageBetween
<1>3. PICK k \in 0 .. Rounds - 1 : Interval(given, k) = min_val
  BY <1>1 DEF Extremes
<1>4. PICK l \in 0 .. Rounds - 1 : Interval(given, l) = max_val
  BY <1>1 DEF Extremes
<1>5. PICK j \in 0 .. Rounds - 1 : Deviation(j) = max_jit
  BY <1>1 DEF Jitter
<1>6. Interval(given, j) \in min_val .. max_val
  BY <1>1, <1>5 DEF Extremes
<1>7. Deviation(k) <= max_jit /\ Deviation(l) <= max_jit
  BY <1>1, <1>3, <1>4 DEF Jitter
<1>8. Deviation(k) = avg - min_val /\ Deviation(l) = max_val - avg
  BY <1>2, <1>3, <1>4 DEF Deviation, Abs
<1>9. Deviation(j) <= avg - min_val \/ Deviation(j) <= max_val - avg
  BY <1>2, <1>6 DEF Deviation, Abs
<1> QED
  BY <1>2, <1>5, <1>7, <1>8, <1>9 DEF Larger

LEMMA FiguresStep == StatInv /\ [StatNext]_statvars => FiguresAgree'
<1> SUFFICES ASSUME StatInv, [StatNext]_statvars, Finished', Regular'
             PROVE  FiguresAgree'
  BY DEF FiguresAgree, Regular
<1> USE DEF StatInv
<1>1. Regular /\ ~torn /\ loop' = "done"
  BY StatFrame, NotTorn DEF Finished
<1>2. CASE Root
  <2>1. /\ loop = "second" /\ n = Rounds
        /\ avg_jit' = Sqrt(avg_jit \div Cnt)
        /\ UNCHANGED <<avg, max_jit, min_val, max_val>>
    BY <1>2, RoundsIs DEF Root, StatTypeOK
  <2>2. /\ min_val <= avg /\ avg <= max_val
        /\ max_jit = Larger(max_val - avg, avg - min_val)
    BY <1>1, <2>1, FarthestIs
  <2> DEFINE e == max_jit * max_jit
  <2>3. /\ avg_jit <= Rounds * e
        /\ Cnt * e < 2 * SignBit => e <= avg_jit
    BY <1>1, <2>1 DEF Jitter
  <2>4. max_jit \in Nat /\ avg_jit \in Nat /\ e \in Nat
    BY WordAssumption DEF StatTypeOK, Words
  <2>5. avg_jit <= Cnt * e
    <3> HIDE DEF e
    <3>1. e * Rounds <= e * Cnt /\ e * Rounds = Rounds * e /\ e * Cnt = Cnt * e
      BY <2>4, RoundsIs, CntAssumption, ProductGrows
    <3>2. Rounds * e \in Nat /\ Cnt * e \in Nat
      BY <2>4, RoundsIs, CntAssumption
    <3> QED
      BY <2>3, <2>4, <3>1, <3>2
  <2>6. /\ avg_jit' <= max_jit
        /\ e <= avg_jit => e < Cnt * ((avg_jit' + 1) * (avg_jit' + 1))
    BY <2>1, <2>4, <2>5, CntAssumption, RootOfMean
  <2> QED
    BY <2>1, <2>2, <2>3, <2>6 DEF FiguresAgree
<1>3. CASE UNCHANGED statvars
  BY <1>3 DEF FiguresAgree, Finished, Increasing, statvars, buffer, results
<1>4. CASE AddValue \/ Divide \/ AddDeviation \/ Overwrite
  BY <1>1, <1>4 DEF AddValue, Divide, AddDeviation, Overwrite
<1> QED
  BY <1>2, <1>3, <1>4 DEF StatNext

LEMMA StatInitial == StatInit => StatInv
<1> SUFFICES ASSUME StatInit PROVE StatInv
  OBVIOUS
<1> USE DEF StatInit
<1>1. StatTypeOK
  <2>1. Rounds \in Nat \ {0}
    BY CntAssumption DEF Rounds
  <2>2. 0 \in Words /\ deltas \in [Slots -> Words]
    BY WordAssumption DEF Words
  <2>3. 0 \in 0 .. Rounds
    BY <2>1
  <2> QED
    BY <2>2, <2>3 DEF StatTypeOK
<1>2. Seen = 0
  BY DEF Seen
<1>3. Kept /\ Extremes
  BY <1>2 DEF Kept, Extremes
<1>4. kind = "abs" => given[0] \in Int /\ given[0] - given[0] = 0
  BY CntAssumption, WordAssumption DEF Slots, Stamps
<1>5. Word(0) = 0
  BY WordIs, WordAssumption DEF Words
<1>6. Telescope
  BY <1>4, <1>5 DEF Telescope
<1>7. AverageBetween
  BY <1>4 DEF AverageBetween
<1>8. Jitter /\ FiguresAgree
  BY DEF Jitter, FiguresAgree, Finished
<1> QED
  BY <1>1, <1>3, <1>6, <1>7, <1>8 DEF StatInv

(***************************************************************************)
(* The invariant of the two loops of osal_trace_analyze_min_max and        *)
(* osal_trace_analyze_rel_min_max, for every buffer, while the cyclic task *)
(* may overwrite it.                                                       *)
(***************************************************************************)
THEOREM StatCorrect == StatSpec => []StatInv
<1>1. StatInv /\ [StatNext]_statvars => StatInv'
  BY StatTypeStep, KeptStep, ExtremesStep, TelescopeStep, BetweenStep,
     JitterStep, FiguresStep DEF StatInv
<1> QED
  BY <1>1, StatInitial, PTL DEF StatSpec

(***************************************************************************)
(* The average of osal_trace_analyze_min_max is the distance of the first  *)
(* and the last stamp over the number of intervals, for every size of      *)
(* buffer and width of word, and wherever the clock was set back.          *)
(***************************************************************************)
THEOREM AverageCorrect == StatSpec => []AverageIsMeanDistance
<1>1. StatInv => AverageIsMeanDistance
  <2> SUFFICES ASSUME StatInv, Finished, kind = "abs",
                      given[0] <= given[Cnt - 1]
               PROVE  avg = (given[Cnt - 1] - given[0]) \div (Cnt - 1)
    BY DEF AverageIsMeanDistance
  <2>1. avg = Word(given[Cnt - 1] - given[0]) \div (Cnt - 1)
    BY DEF StatInv, Telescope, Finished
  <2>2. given[Cnt - 1] \in 0 .. MaxStamp /\ given[0] \in 0 .. MaxStamp
    BY CntAssumption DEF StatInv, StatTypeOK, Slots, Stamps
  <2>3. given[Cnt - 1] - given[0] \in Words
    BY <2>2, WordAssumption DEF Words
  <2>4. Word(given[Cnt - 1] - given[0]) = given[Cnt - 1] - given[0]
    BY <2>2, <2>3, WordIs
  <2> QED
    BY <2>1, <2>4
<1> QED
  BY <1>1, StatCorrect, PTL

(***************************************************************************)
(* The figures of both analyses fit together, although the sum of the      *)
(* squares may overflow, and although the cyclic task may overwrite what   *)
(* the analysis has already read.                                          *)
(***************************************************************************)
THEOREM FiguresCorrect == StatSpec => []FiguresAgree
<1>1. StatInv => FiguresAgree
  BY DEF StatInv
<1> QED
  BY <1>1, StatCorrect, PTL

(***************************************************************************)
(* Minimum and maximum of both analyses are those of the buffer at the     *)
(* call.                                                                   *)
(***************************************************************************)
THEOREM ExtremesCorrect == StatSpec => []ExtremesOfBuffer
<1>1. StatInv => ExtremesOfBuffer
  BY RoundsIs DEF StatInv, Extremes, Seen, Finished, ExtremesOfBuffer
<1> QED
  BY <1>1, StatCorrect, PTL

=============================================================================
