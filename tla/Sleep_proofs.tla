---------------------------- MODULE Sleep_proofs ----------------------------
(***************************************************************************)
(* No sleep ends early: TypeOK and NotEarly of Sleep for any set of        *)
(* threads, any bound on the durations and any clock sources.              *)
(***************************************************************************)
EXTENDS Sleep, TLAPS

(* Time left decreases within its range, and not below what it covers.     *)
LEMMA LessFacts ==
    ASSUME NEW m \in Durations, NEW n \in Durations
    PROVE  /\ Less(m) \in Durations
           /\ m >= n => Less(m) >= Less(n)
           /\ m = 0 => Less(m) = 0
  BY SleepAssumption DEF Less, Durations

LEMMA TypeInit == Init => TypeOK
  BY SleepAssumption DEF Init, TypeOK, Durations

LEMMA TypeNext == TypeOK /\ [Next]_vars => TypeOK'
  <1> SUFFICES ASSUME TypeOK, [Next]_vars PROVE TypeOK'
    OBVIOUS
  <1> USE SleepAssumption DEF TypeOK, Goto, Finish, Durations
  <1>1. CASE UNCHANGED vars
    BY <1>1 DEF vars, locals
  <1>2. ASSUME NEW t \in Threads, NEW n \in Durations, Sleep(t, n)
        PROVE  TypeOK'
    BY <1>2 DEF Sleep
  <1>3. ASSUME NEW t \in Threads, NEW n \in Durations, SleepUntil(t, n)
        PROVE  TypeOK'
    BY <1>3 DEF SleepUntil
  <1>4. ASSUME NEW t \in Threads, NEW n \in Durations, BusyWait(t, n)
        PROVE  TypeOK'
    BY <1>4 DEF BusyWait
  <1>5. ASSUME NEW t \in Threads, SleepUntilInvalid(t) PROVE TypeOK'
    BY <1>5 DEF SleepUntilInvalid
  <1>6. ASSUME NEW t \in Threads, Interrupt(t) PROVE TypeOK'
    BY <1>6 DEF Interrupt
  <1>7. ASSUME NEW t \in Threads, FallAsleep(t) PROVE TypeOK'
    BY <1>7 DEF FallAsleep
  <1>8. ASSUME NEW t \in Threads, Rejected(t) PROVE TypeOK'
    <2>1. CASE op[t] = "until"
      BY <1>8, <2>1 DEF Rejected
    <2>2. CASE op[t] = "sleep"
      <3>1. PICK n \in Durations : ts' = [ts EXCEPT ![t] = n]
        BY <1>8, <2>2 DEF Rejected
      <3>2. UNCHANGED <<clock, pc, op, due, left, ret>>
        BY <1>8, <2>2 DEF Rejected
      <3>3. pc[t] = "call" /\ clock = "raw"
        BY <1>8 DEF Rejected
      <3> QED BY <3>1, <3>2, <3>3
    <2> QED BY <1>8, <2>1, <2>2 DEF Rejected
  <1>9. ASSUME NEW t \in Threads, WakeUp(t) PROVE TypeOK'
    BY <1>9 DEF WakeUp
  <1>10. ASSUME NEW t \in Threads, SpinEnds(t) PROVE TypeOK'
    BY <1>10 DEF SpinEnds
  <1>11. ASSUME NEW t \in Threads, Return(t) PROVE TypeOK'
    BY <1>11 DEF Return
  <1>12. CASE Tick
    BY <1>12, LessFacts DEF Tick
  <1> QED
    BY <1>1, <1>2, <1>3, <1>4, <1>5, <1>6, <1>7, <1>8, <1>9, <1>10, <1>11,
       <1>12 DEF Next, Step

(***************************************************************************)
(* The state of the sleeping functions keeps its types; in particular no   *)
(* rest is longer than the longest sleep anybody may ask for.              *)
(***************************************************************************)
THEOREM TypeCorrect == Spec => []TypeOK
  BY TypeInit, TypeNext, PTL DEF Spec

LEMMA SleepInvNext == TypeOK /\ SleepInv /\ [Next]_vars => SleepInv'
  <1> SUFFICES ASSUME TypeOK, SleepInv, [Next]_vars,
                      NEW s \in Threads
               PROVE  Covered(s)'
    BY DEF SleepInv
  <1>0. Covered(s)
    BY DEF SleepInv
  <1> USE <1>0, SleepAssumption
  <1> USE DEF Covered, TypeOK, Goto, Finish, Durations
  <1>1. CASE UNCHANGED vars
    BY <1>1 DEF vars, locals
  <1>2. ASSUME NEW t \in Threads, NEW n \in Durations, Sleep(t, n)
        PROVE  Covered(s)'
    BY <1>2 DEF Sleep
  <1>3. ASSUME NEW t \in Threads, NEW n \in Durations, SleepUntil(t, n)
        PROVE  Covered(s)'
    BY <1>3 DEF SleepUntil
  <1>4. ASSUME NEW t \in Threads, NEW n \in Durations, BusyWait(t, n)
        PROVE  Covered(s)'
    BY <1>4 DEF BusyWait
  <1>5. ASSUME NEW t \in Threads, SleepUntilInvalid(t) PROVE Covered(s)'
    BY <1>5 DEF SleepUntilInvalid
  <1>6. ASSUME NEW t \in Threads, Interrupt(t) PROVE Covered(s)'
    BY <1>6 DEF Interrupt
  <1>7. ASSUME NEW t \in Threads, FallAsleep(t) PROVE Covered(s)'
    BY <1>7 DEF FallAsleep
  <1>8. ASSUME NEW t \in Threads, Rejected(t) PROVE Covered(s)'
    <2>1. CASE op[t] = "until"
      BY <1>8, <2>1 DEF Rejected
    <2>2. CASE op[t] = "sleep"
      <3>1. PICK n \in Durations : ts' = [ts EXCEPT ![t] = n]
        BY <1>8, <2>2 DEF Rejected
      <3>2. UNCHANGED <<clock, pc, op, due, left, ret>>
        BY <1>8, <2>2 DEF Rejected
      <3>3. pc[t] = "call" /\ clock = "raw"
        BY <1>8 DEF Rejected
      <3> QED BY <3>1, <3>2, <3>3
    <2> QED BY <1>8, <2>1, <2>2 DEF Rejected
  <1>9. ASSUME NEW t \in Threads, WakeUp(t) PROVE Covered(s)'
    BY <1>9 DEF WakeUp
  <1>10. ASSUME NEW t \in Threads, SpinEnds(t) PROVE Covered(s)'
    BY <1>10 DEF SpinEnds
  <1>11. ASSUME NEW t \in Threads, Return(t) PROVE Covered(s)'
    BY <1>11 DEF Return
  <1>12. CASE Tick
    BY <1>12 DEF Tick, Less
  <1> QED
    BY <1>1, <1>2, <1>3, <1>4, <1>5, <1>6, <1>7, <1>8, <1>9, <1>10, <1>11,
       <1>12 DEF Next, Step

(***************************************************************************)
(* No sleep of any length that reports success ends before its time,       *)
(* however often signals interrupt it, for osal_sleep, osal_sleep_until    *)
(* and osal_busy_wait_until_nsec.                                          *)
(***************************************************************************)
THEOREM NeverEarly == Spec => []NotEarly
  <1>1. Init => SleepInv
    BY DEF Init, SleepInv, Covered
  <1>2. SleepInv => NotEarly
    BY DEF SleepInv, Covered, NotEarly
  <1> QED
    BY <1>1, <1>2, SleepInvNext, TypeCorrect, PTL DEF Spec

=============================================================================
