----------------------------- MODULE TraceAnalyze -----------------------------
(***************************************************************************)
(* osal_trace_analyze_min_max ("abs": the buffer holds time stamps) and    *)
(* osal_trace_analyze_rel_min_max ("rel": it holds intervals) of trace.c,  *)
(* one step per round of their two loops, with the unsigned words of the   *)
(* code: every sum and difference is taken modulo 2 * SignBit, and a       *)
(* deviation is read back as a signed word.  Meanwhile the cyclic task may *)
(* come round to the buffer that is analysed and overwrite it from the     *)
(* beginning.  osal_trace_analyze and osal_trace_analyze_rel are the same  *)
(* without the results min_val and max_val.                                *)
(***************************************************************************)
EXTENDS Integers, TraceBuffer

CONSTANTS
    SignBit,      (* 2^63: a word holds 0 .. 2 * SignBit - 1               *)
    MaxStamp,     (* bound on time stamps                                  *)
    MaxInterval,  (* bound on the intervals of a relative trace            *)
    MaxOver       (* bound: samples stored during an analysis              *)

(* Time stamps stay below 2^63 ns, 292 years, and so do intervals; those   *)
(* of one buffer together last less than 584 years.                        *)
ASSUME WordAssumption ==
    /\ SignBit \in Nat /\ MaxStamp \in Nat /\ MaxInterval \in Nat
    /\ MaxStamp < SignBit /\ MaxInterval < SignBit
    /\ Cnt * MaxInterval < 2 * SignBit
    /\ MaxOver \in Nat

VARIABLES
    kind,        (* which of the two functions                             *)
    samples,     (* time_in_ns[act_buffer], the buffer that is analysed    *)
    given,       (* history: samples when the function was called          *)
    over,        (* samples the cyclic task has overwritten since          *)
    torn,        (* history: one of them before it had been read           *)
    loop, n,     (* which loop, and its index i                            *)
    deltas,      (* trace->tmp                                             *)
    avg, avg_jit, max_jit, min_val, max_val      (* the result parameters  *)

buffer == <<kind, given, samples, over, torn>>
results == <<avg, avg_jit, max_jit, min_val, max_val>>
statvars == <<buffer, loop, n, deltas, results>>

Word(x) == x % (2 * SignBit)
Signed(x) == IF x >= SignBit THEN x - 2 * SignBit ELSE x
Abs(x) == IF x < 0 THEN -x ELSE x
Larger(x, y) == IF x > y THEN x ELSE y

(* sqrt() of a double, cut to an integer by the assignment.                *)
Sqrt(x) == CHOOSE r \in 0 .. x : r * r <= x /\ x < (r + 1) * (r + 1)

Stamps == 0 .. (IF kind = "abs" THEN MaxStamp ELSE MaxInterval)
Rounds == IF kind = "abs" THEN Cnt - 1 ELSE Cnt
Interval(b, k) == IF kind = "abs" THEN Word(b[k + 1] - b[k]) ELSE b[k]

(* The rest of the analysis reads slot k of the buffer: "abs" needs it in  *)
(* its first loop only, "rel" in both.                                     *)
Needed(k) ==
    IF kind = "abs" THEN loop = "first" /\ n < Rounds /\ n <= k
                    ELSE loop = "first" \/ (loop = "second" /\ n <= k)
-----------------------------------------------------------------------------
(* With one sample per buffer the absolute analysis would divide by 0.     *)
StatInit ==
    /\ kind \in {"abs", "rel"} /\ (kind = "abs" => Cnt >= 2)
    /\ given \in [Slots -> Stamps] /\ samples = given
    /\ over = 0 /\ torn = FALSE
    /\ loop = "first" /\ n = 0
    /\ deltas = [k \in Slots |-> 0]
    /\ avg = 0 /\ avg_jit = 0 /\ max_jit = 0 /\ min_val = 0 /\ max_val = 0

(* Mutant: the first value does not start the minimum and the maximum.     *)
AddValueUnset ==
    /\ loop = "first" /\ n < Rounds
    /\ LET v == Interval(samples, n)
       IN  /\ deltas' = IF kind = "abs" THEN [deltas EXCEPT ![n] = v]
                                        ELSE deltas
           /\ avg' = Word(avg + v)
           /\ min_val' = IF min_val > v THEN v ELSE min_val
           /\ max_val' = IF max_val < v THEN v ELSE max_val
    /\ n' = n + 1
    /\ UNCHANGED <<buffer, loop, avg_jit, max_jit>>

(* A round of the first loop.                                              *)
AddValue ==
    /\ loop = "first" /\ n < Rounds
    /\ LET v == Interval(samples, n)
       IN  /\ deltas' = IF kind = "abs" THEN [deltas EXCEPT ![n] = v]
                                        ELSE deltas
           /\ avg' = Word(avg + v)
           /\ min_val' = IF n = 0 \/ min_val > v THEN v ELSE min_val
           /\ max_val' = IF n = 0 \/ max_val < v THEN v ELSE max_val
    /\ n' = n + 1
    /\ UNCHANGED <<buffer, loop, avg_jit, max_jit>>

(* Mutant: the sum is divided by the number of samples, not of intervals.  *)
DivideByCnt ==
    /\ loop = "first" /\ n >= Rounds
    /\ avg' = avg \div Cnt
    /\ loop' = "second" /\ n' = 0
    /\ UNCHANGED <<buffer, deltas, avg_jit, max_jit, min_val, max_val>>

(* avg /= cnt - 1, or cnt                                                  *)
Divide ==
    /\ loop = "first" /\ n >= Rounds
    /\ avg' = avg \div Rounds
    /\ loop' = "second" /\ n' = 0
    /\ UNCHANGED <<buffer, deltas, avg_jit, max_jit, min_val, max_val>>

(* Mutant: the second loop takes the differences from the buffer again.    *)
AddDeviationReread ==
    /\ loop = "second" /\ n < Rounds
    /\ LET dev == Abs(Signed(Word(avg - Interval(samples, n))))
       IN  /\ max_jit' = Larger(dev, max_jit)
           /\ avg_jit' = Word(avg_jit + dev * dev)
    /\ n' = n + 1
    /\ UNCHANGED <<buffer, loop, deltas, avg, min_val, max_val>>

(* A round of the second loop: "abs" has kept its values in tmp, "rel"     *)
(* reads the buffer once more.  (The square of a signed word is taken to   *)
(* wrap around like an unsigned one.)                                      *)
AddDeviation ==
    /\ loop = "second" /\ n < Rounds
    /\ LET v == IF kind = "abs" THEN deltas[n] ELSE samples[n]
           dev == Abs(Signed(Word(avg - v)))
       IN  /\ max_jit' = Larger(dev, max_jit)
           /\ avg_jit' = Word(avg_jit + dev * dev)
    /\ n' = n + 1
    /\ UNCHANGED <<buffer, loop, deltas, avg, min_val, max_val>>

(* avg_jit = sqrt(avg_jit / cnt)                                           *)
Root ==
    /\ loop = "second" /\ n >= Rounds
    /\ avg_jit' = Sqrt(avg_jit \div Cnt)
    /\ loop' = "done"
    /\ UNCHANGED <<buffer, n, deltas, avg, max_jit, min_val, max_val>>

(* osal_trace_time of the cyclic task, after it has switched to the buffer *)
(* that is analysed.                                                       *)
Overwrite ==
    /\ loop # "done" /\ over \in Slots /\ over < MaxOver
    /\ \E time \in Stamps : samples' = [samples EXCEPT ![over] = time]
    /\ over' = over + 1
    /\ torn' = (torn \/ Needed(over))
    /\ UNCHANGED <<kind, given, loop, n, deltas, results>>

StatNext == AddValue \/ Divide \/ AddDeviation \/ Root \/ Overwrite

StatSpec == StatInit /\ [][StatNext]_statvars
-----------------------------------------------------------------------------
(* The analysis has ended and stayed ahead of the cyclic task.             *)
Finished == loop = "done" /\ ~torn

Increasing == \A k \in 0 .. Cnt - 2 : given[k] <= given[k + 1]

(***************************************************************************)
(* The average interval is the distance of the first and the last stamp    *)
(* over the number of intervals, even if the clock was set back in between *)
(* and single differences wrap around, as long as it ends no earlier than  *)
(* it began.                                                               *)
(***************************************************************************)
AverageIsMeanDistance ==
    Finished /\ kind = "abs" /\ given[0] <= given[Cnt - 1] =>
        avg = (given[Cnt - 1] - given[0]) \div (Cnt - 1)

(***************************************************************************)
(* On a clock that does not go back the figures fit together, also when    *)
(* the cyclic task overwrites the buffer behind the analysis: the average  *)
(* lies between minimum and maximum, the maximum jitter is the distance of *)
(* the farther one, the average jitter does not exceed it, and unless the  *)
(* sum of the squares may overflow it is at most sqrt(cnt) times smaller   *)
(* (up to rounding).                                                       *)
(***************************************************************************)
FiguresAgree ==
    Finished /\ (kind = "abs" => Increasing) =>
        /\ min_val <= avg /\ avg <= max_val
        /\ max_jit = Larger(max_val - avg, avg - min_val)
        /\ avg_jit <= max_jit
        /\ Cnt * (max_jit * max_jit) < 2 * SignBit =>
               max_jit * max_jit < Cnt * ((avg_jit + 1) * (avg_jit + 1))

(***************************************************************************)
(* Minimum and maximum are those of all values of the buffer as it was     *)
(* when the analysis was called: no value is left out (the relative        *)
(* analysis has one more than the absolute one), and both are reached.     *)
(***************************************************************************)
ExtremesOfBuffer ==
    Finished =>
        /\ \A k \in 0 .. Rounds - 1 :
               Interval(given, k) \in min_val .. max_val
        /\ \E k \in 0 .. Rounds - 1 : Interval(given, k) = min_val
        /\ \E k \in 0 .. Rounds - 1 : Interval(given, k) = max_val

=============================================================================
