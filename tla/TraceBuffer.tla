----------------------------- MODULE TraceBuffer -----------------------------
(***************************************************************************)
(* What Trace and TraceAnalyze share: the size of the two buffers of an    *)
(* osal_trace_t.                                                           *)
(***************************************************************************)
EXTENDS Integers

CONSTANT Cnt   (* trace->cnt, the samples per buffer                       *)

ASSUME CntAssumption == Cnt \in Nat \ {0}

Slots == 0 .. Cnt - 1

=============================================================================
