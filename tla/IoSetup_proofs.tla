--------------------------- MODULE IoSetup_proofs ---------------------------
(***************************************************************************)
(* Machine-checked proofs about IoSetup, for any number of processes and   *)
(* slots, of messages, reads and deaths.                                   *)
(***************************************************************************)
EXTENDS IoSetup, SequenceTheorems, TLAPS

SetupPCs == {"down", "open", "map", "magic", "init", "greet", "done",
             "failed"}
(* A writer before its message can be seen.                                *)
Copying == {"copy", "copying", "publish"}
Unpublished == {"test", "drop", "store"} \cup Copying
WriterPCs == {"idle", "post"} \cup Unpublished
(* A reader that has moved act_printed to the message it copies.           *)
Taking == {"copy", "copying"}
ReaderPCs == {"idle", "wait", "test", "load", "advance", "unavailable"}
                 \cup Taking
Fields == {InitOrder[k] : k \in DOMAIN InitOrder}

SetupStates == [pc : SetupPCs, creat : BOOLEAN, done : Nat]
ProcType == setup \in [Procs -> SetupStates]

CountType == crashes \in Nat /\ printed \in Nat /\ got \in Seq(Nat)

RingType ==
    /\ act_printed \in Slots /\ act_written \in Slots /\ sem \in Nat
    /\ msgs \in [Slots -> Nat]

WriterType ==
    /\ wpc \in [Writers -> WriterPCs] /\ wmsg \in [Writers -> Nat]
    /\ next_write \in [Writers -> Slots] /\ wreg \in [Writers -> Slots]

ReaderType == rpc \in ReaderPCs /\ slot \in Slots /\ half \in Nat

TypeOK == ProcType /\ CountType /\ RingType /\ WriterType /\ ReaderType

(***************************************************************************)
(* The fields are stored in order and never unset, so the magic vouches    *)
(* for all of them.                                                        *)
(***************************************************************************)
FieldsStored ==
    /\ "magic" \in header => Fields \subseteq header
    /\ \A p \in Procs :
          /\ setup[p].pc \in {"down", "open", "map", "magic"} =>
                setup[p].done = 0
          /\ setup[p].pc = "init" =>
                /\ setup[p].done < Len(InitOrder)
                /\ \A k \in 1 .. setup[p].done : InitOrder[k] \in header
          /\ setup[p].pc \in {"greet", "done"} => "magic" \in header

(* Only who is set up prints or reads, so the ring is untouched before.    *)
Attached ==
    /\ rpc # "idle" => setup[Logger].pc = "done"
    /\ \A w \in Writers : wpc[w] # "idle" => setup[w].pc \in {"greet", "done"}
    /\ "magic" \notin header =>
          /\ act_printed = 0 /\ act_written = 0 /\ sem = 0
          /\ got = <<>> /\ printed = 0 /\ msgs = [s \in Slots |-> Torn]

(* Set-ups that do not overlap: the second one finds the magic.            *)
OneSetsUp ==
    ~raced =>
        /\ \A p, q \in Procs : SettingUp(p) /\ SettingUp(q) => p = q
        /\ \A p \in Procs : setup[p].pc = "init" => "magic" \notin header

SetupInv ==
    TypeOK /\ FieldsStored /\ Attached /\ OneSetsUp /\ ReaderNotStranded
-----------------------------------------------------------------------------
(***************************************************************************)
(* How far slot b is ahead of slot a, the slots from the last one read to  *)
(* the last one written, and how many there are to read.                   *)
(***************************************************************************)
Dist(a, b) == IF a <= b THEN b - a ELSE b + max_messages - a
Ahead(s) == Dist(act_printed, s)
Used == Ahead(act_written)
Window == {s \in Slots : Ahead(s) <= Used}

(***************************************************************************)
(* While nothing was discarded and neither printing nor setting up has     *)
(* overlapped.  The writer fills the slot behind the window,               *)
(***************************************************************************)
Calm == ~dropped /\ ~mixed /\ ~raced

OneWriter ==
    /\ \A v, w \in Writers : wpc[v] # "idle" /\ wpc[w] # "idle" => v = w
    /\ \A w \in Writers :
          /\ wpc[w] # "idle" => wmsg[w] = printed
          /\ wpc[w] \in Unpublished => next_write[w] = NextSlot(act_written)
          /\ wpc[w] \in Copying => next_write[w] # act_printed
          /\ wpc[w] = "publish" => msgs[next_write[w]] = wmsg[w]

(* the reader takes the first slot of it,                                  *)
FirstOfWindow ==
    /\ rpc \in {"load", "advance"} \cup Taking => slot = act_printed
    /\ rpc \in {"load", "advance"} => act_printed # act_written
    /\ rpc = "copying" => half = msgs[act_printed]

(* and the messages in it are newer and newer, and newer than those read.  *)
Increasing ==
    /\ \A s, r \in Window : Ahead(s) < Ahead(r) => msgs[s] < msgs[r]
    /\ \A s \in Window : /\ msgs[s] <= printed
                         /\ \A w \in Writers :
                              wpc[w] \in Unpublished => msgs[s] < printed
    /\ \A k \in 1 .. Len(got) :
          /\ got[k] # Torn /\ got[k] <= msgs[act_printed]
          /\ k > 1 => got[k] > got[k - 1]
          /\ rpc \in Taking => got[k] < msgs[act_printed]
    /\ rpc \in Taking => msgs[act_printed] # Torn

(* As long as nobody has died they are numbered without gaps.              *)
Taken == Len(got) + (IF rpc \in Taking THEN 1 ELSE 0)
Pending == IF \E w \in Writers : wpc[w] \in Unpublished THEN 1 ELSE 0

NoGaps ==
    crashes = 0 =>
        /\ printed = Taken + Used + Pending
        /\ \A s \in Window : msgs[s] = Taken + Ahead(s)
        /\ \A k \in 1 .. Len(got) : got[k] = k

RingInv == Calm => OneWriter /\ FirstOfWindow /\ Increasing /\ NoGaps
-----------------------------------------------------------------------------
(***************************************************************************)
(* When calls do not overlap: one process at a time does anything, and the *)
(* reader and the writer find act_printed as they left it.                 *)
(***************************************************************************)
OneAtATime ==
    /\ ~raced /\ printed <= MaxSerial
    /\ \A p, q \in Procs : ~Resting(p) /\ ~Resting(q) => p = q
    /\ \A p \in Procs : ~Resting(p) =>
          rpc = "idle" /\ \A w \in Writers : wpc[w] # "idle" => w = p
    /\ \A v, w \in Writers : wpc[v] # "idle" /\ wpc[w] # "idle" => v = w
    /\ rpc # "idle" => \A w \in Writers : wpc[w] = "idle"

WriterSteady ==
    \A w \in Writers :
        /\ wpc[w] # "idle" => wmsg[w] \in 1 .. MaxSerial
        /\ wpc[w] \in Unpublished => next_write[w] = NextSlot(act_written)
        /\ wpc[w] \in {"drop", "store"} =>
              next_write[w] = act_printed /\ wreg[w] = act_printed
        /\ wpc[w] \in Copying => next_write[w] # act_printed
        /\ wpc[w] = "publish" => msgs[next_write[w]] = wmsg[w]

SerialInv == serial => OneAtATime /\ FirstOfWindow /\ WriterSteady
-----------------------------------------------------------------------------
(* The ring's arithmetic without a remainder.                              *)
LEMMA NextSlotIs ==
    ASSUME NEW n \in Slots
    PROVE  /\ NextSlot(n) = IF n + 1 = max_messages THEN 0 ELSE n + 1
           /\ NextSlot(n) \in Slots
<1>1. n \in Nat /\ n < max_messages /\ max_messages \in Nat
      /\ max_messages >= 2
  BY RingAssumption DEF Slots
<1>2. CASE n + 1 = max_messages
  <2>1. (n + 1) % max_messages = 0
    BY <1>1, <1>2
  <2> QED
    BY <1>1, <1>2, <2>1 DEF NextSlot, Slots
<1>3. CASE n + 1 < max_messages
  <2>1. (n + 1) % max_messages = n + 1
    BY <1>1, <1>3
  <2> QED
    BY <1>1, <1>3, <2>1 DEF NextSlot, Slots
<1> QED
  BY <1>1, <1>2, <1>3

LEMMA ZeroSlot == 0 \in Slots
  BY RingAssumption DEF Slots

(* The magic is the last of the fields.                                    *)
LEMMA MagicIsLast ==
    /\ Len(InitOrder) = 7 /\ DOMAIN InitOrder = 1 .. 7
    /\ InitOrder[7] = "magic"
    /\ \A k \in 1 .. 6 : InitOrder[k] # "magic"
  BY DEF InitOrder

(* What happens to the state of a set-up.                                  *)
LEMMA SetupChanges ==
    ASSUME NEW r \in SetupStates
    PROVE  /\ \A l \in SetupPCs : [r EXCEPT !.pc = l] \in SetupStates
           /\ \A n \in Nat : [r EXCEPT !.done = n] \in SetupStates
           /\ [r EXCEPT !.creat = TRUE] \in SetupStates
           /\ \A l \in SetupPCs : [Down EXCEPT !.pc = l] \in SetupStates
           /\ Down \in SetupStates
           /\ r.done \in Nat
  BY DEF SetupStates, Down, SetupPCs

LEMMA ProcStep ==
    ASSUME ProcType, NEW p \in Procs,
           \/ \E l \in SetupPCs : SetupGoto(p, l)
           \/ \E r \in SetupStates : setup' = [setup EXCEPT ![p] = r]
           \/ UNCHANGED setup
    PROVE  ProcType'
<1>1. ASSUME NEW l \in SetupPCs, SetupGoto(p, l) PROVE ProcType'
  <2>1. setup[p] \in SetupStates
    BY DEF ProcType
  <2>2. [setup[p] EXCEPT !.pc = l] \in SetupStates
    BY <2>1, SetupChanges
  <2>3. setup' = [setup EXCEPT ![p] = [setup[p] EXCEPT !.pc = l]]
    BY <1>1 DEF SetupGoto
  <2> QED
    BY <2>2, <2>3 DEF ProcType
<1>2. ASSUME NEW r \in SetupStates, setup' = [setup EXCEPT ![p] = r]
      PROVE  ProcType'
  BY <1>2 DEF ProcType
<1> QED
  BY <1>1, <1>2 DEF ProcType

LEMMA TypeStep == TypeOK /\ [SetupNext]_allvars => TypeOK'
<1> SUFFICES ASSUME TypeOK, [SetupNext]_allvars PROVE TypeOK'
  OBVIOUS
<1> USE DEF TypeOK, ringvars, ring, wlocal, rlocal, shmvars, setupvars,
            history
<1>1. ASSUME NEW p \in Procs,
             \/ Start(p) \/ TestMagic(p) \/ Greeted(p) \/ Open(p)
             \/ OpenReturned(p) \/ Map(p)
      PROVE  TypeOK'
  <2>1. ProcType'
    <3>1. setup[p] \in SetupStates
      BY DEF ProcType
    <3>2. CASE Start(p) \/ TestMagic(p) \/ Map(p)
      <4>1. \E l \in SetupPCs : SetupGoto(p, l)
        BY <3>2 DEF SetupPCs, Start, TestMagic, Map
      <4> QED
        BY <4>1, ProcStep
    <3>3. CASE OpenReturned(p)
      <4>1. \E r \in SetupStates : setup' = [setup EXCEPT ![p] = r]
        BY <3>1, <3>3, SetupChanges DEF SetupPCs, OpenReturned
      <4> QED
        BY <4>1, ProcStep
    <3>4. CASE Greeted(p)
      <4>1. \E r \in SetupStates : setup' = [setup EXCEPT ![p] = r]
        BY <3>1, <3>4, SetupChanges DEF SetupPCs, Greeted
      <4> QED
        BY <4>1, ProcStep
    <3>5. CASE Open(p)
      BY <3>5, ProcStep DEF Open
    <3> QED
      BY <1>1, <3>2, <3>3, <3>4, <3>5
  <2>2. UNCHANGED <<ringvars, crashes>>
    BY <1>1 DEF Start, TestMagic, Greeted, Open, OpenReturned, Map
  <2> QED
    BY <2>1, <2>2 DEF CountType, RingType, WriterType, ReaderType
<1>2. ASSUME NEW p \in Procs, InitField(p) PROVE TypeOK'
  <2>1. ProcType'
    <3>1. setup[p] \in SetupStates
      BY DEF ProcType
    <3>2. setup[p].done \in Nat /\ setup[p].done + 1 \in Nat
      BY <3>1 DEF SetupStates
    <3>3. \E r \in SetupStates : setup' = [setup EXCEPT ![p] = r]
      BY <1>2, <3>1, <3>2, SetupChanges DEF SetupPCs, InitField
    <3> QED
      BY <3>3, ProcStep
  <2>2. RingType'
    BY <1>2, ZeroSlot DEF RingType, InitField
  <2> QED
    BY <1>2, <2>1, <2>2 DEF CountType, WriterType, ReaderType, InitField
<1>3. ASSUME NEW p \in Procs, BeginPrint(p),
             Greet(p) \/ UNCHANGED setup
      PROVE  TypeOK'
  <2>1. ProcType'
    BY <1>3 DEF ProcType, SetupStates, Greet
  <2>2. WriterType'
    BY <1>3, NextSlotIs, SetupAssumption
       DEF WriterType, WriterPCs, Unpublished, BeginPrint, LoadNextWrite,
           CountType, RingType
  <2> QED
    BY <1>3, <2>1, <2>2
       DEF CountType, RingType, ReaderType, BeginPrint, LoadNextWrite
<1>4. ASSUME NEW w \in Procs, PrintStep(w) PROVE TypeOK'
  <2>1. UNCHANGED <<setup, crashes, printed, got, rlocal>>
    BY <1>4
       DEF PrintStep, PrintNext, TestFull, ReloadPrinted, DropOldest,
           BeginCopy, EndCopy, Publish, PostSem
  <2>2. WriterType'
    BY <1>4, ZeroSlot, SetupAssumption
       DEF WriterType, WriterPCs, Unpublished, Copying, Torn, RingType,
           PrintStep, PrintNext, TestFull, ReloadPrinted, DropOldest,
           BeginCopy, EndCopy, Publish, PostSem, ForgetWriter
  <2>3. RingType'
    <3>1. NextSlot(wreg[w]) \in Slots /\ next_write[w] \in Slots
          /\ wmsg[w] \in Nat
      BY NextSlotIs, SetupAssumption DEF WriterType
    <3> QED
      BY <1>4, <3>1
         DEF RingType, Torn, PrintStep, PrintNext, TestFull, ReloadPrinted,
             DropOldest, BeginCopy, EndCopy, Publish, PostSem
  <2> QED
    BY <2>1, <2>2, <2>3 DEF ProcType, CountType, ReaderType
<1>5. ASSUME NEW p \in Procs, Crash(p) PROVE TypeOK'
  <2>1. ProcType'
    BY <1>5 DEF ProcType, SetupStates, SetupPCs, Down, Crash
  <2>2. WriterType'
    BY <1>5, ZeroSlot, SetupAssumption
       DEF WriterType, WriterPCs, Torn, Crash, ForgetWriter
  <2>3. ReaderType'
    BY <1>5, ZeroSlot DEF ReaderType, ReaderPCs, Torn, Crash, ForgetReader
  <2> QED
    BY <1>5, <2>1, <2>2, <2>3 DEF CountType, RingType, Crash
<1>6. ASSUME NEW t \in BOOLEAN, Read(t) PROVE TypeOK'
  BY <1>6
     DEF Read, GetMessage, ProcType, CountType, RingType, WriterType,
         ReaderType, ReaderPCs
<1>7. CASE ReadStep
  <2>1. UNCHANGED <<setup, crashes, printed, wlocal>>
    BY <1>7
       DEF ReadStep, ReadNext, SemTaken, SemTimeout, TestMessage,
           LoadPrinted, Advance, ReadFirstHalf, ReadSecondHalf, Unavailable
  <2>2. got' \in Seq(Nat)
    <3>1. UNCHANGED got \/ ReadSecondHalf
      BY <1>7
         DEF ReadStep, ReadNext, SemTaken, SemTimeout, TestMessage,
             LoadPrinted, Advance, ReadFirstHalf, Unavailable
    <3>2. CASE ReadSecondHalf
      BY <3>2 DEF CountType, RingType, ReaderType, Torn, ReadSecondHalf
    <3> QED
      BY <3>1, <3>2 DEF CountType
  <2>3. NextSlot(slot) \in Slots
    BY NextSlotIs DEF ReaderType
  <2>4. RingType'
    BY <1>7, <2>3
       DEF RingType, ReadStep, ReadNext, SemTaken, SemTimeout, TestMessage,
           LoadPrinted, Advance, ReadFirstHalf, ReadSecondHalf, Unavailable
  <2>5. ReaderType'
    BY <1>7, <2>3, ZeroSlot
       DEF ReaderType, ReaderPCs, Taking, RingType, Torn, ReadStep, ReadNext,
           SemTaken, SemTimeout, TestMessage, LoadPrinted, Advance,
           ReadFirstHalf, ReadSecondHalf, Unavailable, ForgetReader
  <2> QED
    BY <2>1, <2>2, <2>4, <2>5 DEF ProcType, CountType, WriterType
<1>8. CASE UNCHANGED allvars
  BY <1>8
     DEF allvars, ProcType, CountType, RingType, WriterType, ReaderType
<1> QED
  BY <1>1, <1>2, <1>3, <1>4, <1>5, <1>6, <1>7, <1>8
     DEF SetupNext, SetupStep, Greet, PrintMessage

(***************************************************************************)
(* What the steps do to the set-up of a process: the statement it goes to, *)
(* and how many fields it has stored or lines it has printed.              *)
(***************************************************************************)
Moves(p, l, n) ==
    /\ setup'[p].pc = l /\ setup'[p].done = n
    /\ \A q \in Procs \ {p} : setup'[q] = setup[q]

LEMMA GotoMoves ==
    ASSUME ProcType, NEW p \in Procs, NEW l, SetupGoto(p, l)
    PROVE  Moves(p, l, setup[p].done)
  BY DEF ProcType, SetupStates, SetupGoto, Moves

LEMMA StartMoves ==
    ASSUME ProcType, NEW p \in Procs, Start(p)
    PROVE  /\ setup[p].pc = "down" /\ Moves(p, "open", setup[p].done)
           /\ raced' = (raced \/ \E q \in Procs : SettingUp(q))
           /\ UNCHANGED <<ringvars, header, crashes>>
  BY GotoMoves DEF Start

LEMMA OpenMoves ==
    ASSUME ProcType, NEW p \in Procs, OpenReturned(p) \/ Map(p)
    PROVE  /\ setup[p].pc \in {"open", "map"}
           /\ \E l \in {"open", "map", "magic", "failed"} :
                 Moves(p, l, setup[p].done)
           /\ UNCHANGED <<ringvars, header, history>>
<1>1. CASE Map(p)
  BY <1>1, GotoMoves DEF Map
<1>2. CASE OpenReturned(p)
  <2>1. setup[p] \in SetupStates
    BY DEF ProcType
  <2>2. CASE shm[p].ret = "OK"
    <3>1. setup' = [setup EXCEPT ![p] = [setup[p] EXCEPT !.pc = "map"]]
      BY <1>2, <2>2 DEF OpenReturned
    <3>2. Moves(p, "map", setup[p].done)
      BY <2>1, <3>1 DEF Moves, ProcType, SetupStates
    <3> QED
      BY <1>2, <3>2 DEF OpenReturned
  <2>3. CASE shm[p].ret # "OK" /\ setup[p].creat
    <3>1. setup' = [setup EXCEPT ![p] = [setup[p] EXCEPT !.pc = "failed"]]
      BY <1>2, <2>3 DEF OpenReturned
    <3>2. Moves(p, "failed", setup[p].done)
      BY <2>1, <3>1 DEF Moves, ProcType, SetupStates
    <3> QED
      BY <1>2, <3>2 DEF OpenReturned
  <2>4. CASE shm[p].ret # "OK" /\ ~setup[p].creat
    <3>1. setup' = [setup EXCEPT ![p] = [setup[p] EXCEPT !.creat = TRUE]]
      BY <1>2, <2>4 DEF OpenReturned
    <3>2. Moves(p, "open", setup[p].done)
      BY <1>2, <2>1, <3>1 DEF Moves, ProcType, SetupStates, OpenReturned
    <3> QED
      BY <1>2, <3>2 DEF OpenReturned
  <2> QED
    BY <2>2, <2>3, <2>4
<1> QED
  BY <1>1, <1>2

LEMMA TestMoves ==
    ASSUME ProcType, NEW p \in Procs, TestMagic(p)
    PROVE  /\ setup[p].pc = "magic"
           /\ \/ Moves(p, "failed", setup[p].done)
              \/ "magic" \in header /\ Moves(p, "greet", setup[p].done)
              \/ "magic" \notin header /\ Moves(p, "init", setup[p].done)
           /\ UNCHANGED <<ringvars, header, history>>
  BY GotoMoves DEF TestMagic

LEMMA InitMoves ==
    ASSUME ProcType, NEW p \in Procs, InitField(p)
    PROVE  LET k == setup[p].done + 1
           IN  /\ setup[p].pc = "init" /\ k \in Nat
               /\ header' = header \cup {InitOrder[k]}
               /\ \/ k < Len(InitOrder) /\ Moves(p, "init", k)
                  \/ ~(k < Len(InitOrder)) /\ Moves(p, "done", 0)
               /\ act_printed' \in {0, act_printed}
               /\ act_written' \in {0, act_written} /\ sem' \in {0, sem}
               /\ UNCHANGED <<msgs, wlocal, rlocal, printed, gets, got,
                              dropped, history>>
<1> DEFINE k == setup[p].done + 1
<1>1. setup[p] \in SetupStates /\ setup[p].done \in Nat /\ k \in Nat
  BY DEF ProcType, SetupStates
<1>2. setup' = [setup EXCEPT ![p] =
                   IF k < Len(InitOrder) THEN [@ EXCEPT !.done = k]
                   ELSE [Down EXCEPT !.pc = "done"]]
  BY DEF InitField
<1>3. /\ setup[p].pc = "init" /\ header' = header \cup {InitOrder[k]}
      /\ act_printed' \in {0, act_printed}
      /\ act_written' \in {0, act_written} /\ sem' \in {0, sem}
      /\ UNCHANGED <<msgs, wlocal, rlocal, printed, gets, got, dropped,
                     history>>
  BY DEF InitField
<1> HIDE DEF k
<1>4. CASE k < Len(InitOrder)
  <2>1. setup' = [setup EXCEPT ![p] = [setup[p] EXCEPT !.done = k]]
    BY <1>2, <1>4
  <2>2. Moves(p, "init", k)
    BY <1>1, <1>3, <2>1 DEF Moves, ProcType, SetupStates
  <2> QED
    BY <1>1, <1>3, <1>4, <2>2 DEF k
<1>5. CASE ~(k < Len(InitOrder))
  <2>1. setup' = [setup EXCEPT ![p] = [Down EXCEPT !.pc = "done"]]
    BY <1>2, <1>5
  <2>2. Moves(p, "done", 0)
    BY <1>1, <2>1 DEF Moves, ProcType, SetupStates, Down
  <2> QED
    BY <1>1, <1>3, <1>5, <2>2 DEF k
<1> QED
  BY <1>4, <1>5

LEMMA GreetMoves ==
    ASSUME ProcType, NEW p \in Procs
    PROVE  /\ Greet(p) => setup[p].pc = "greet"
                          /\ Moves(p, "greet", setup[p].done + 1)
           /\ Greeted(p) => setup[p].pc = "greet" /\ Moves(p, "done", 0)
                            /\ wpc[p] = "idle"
                            /\ UNCHANGED <<ringvars, header, history>>
           /\ Crash(p) => Moves(p, "down", 0)
  BY DEF ProcType, SetupStates, Greet, Greeted, Crash, Down, Moves

(* The steps of printing and reading leave the set-up alone.               *)
LEMMA RingSteps ==
    ASSUME TypeOK, [SetupNext]_allvars
    PROVE  \/ \E p \in Procs :
                \/ Start(p) \/ OpenReturned(p) \/ Map(p) \/ TestMagic(p)
                \/ InitField(p) \/ Greet(p) \/ Greeted(p) \/ Crash(p)
           \/ \E w \in Writers :
                /\ PrintMessage(w) \/ PrintStep(w)
                /\ UNCHANGED setupvars
           \/ (ReadStep \/ \E t \in BOOLEAN : Read(t))
              /\ UNCHANGED <<setupvars, history, wlocal>>
           \/ UNCHANGED <<ringvars, setupvars, history>>
  BY SetupAssumption
     DEF SetupNext, SetupStep, Open, allvars, PrintMessage, PrintStep,
         BeginPrint, Read, ReadStep, setupvars, history, ringvars, GetMessage,
         ReadNext, SemTaken, SemTimeout, TestMessage, LoadPrinted, Advance,
         ReadFirstHalf, ReadSecondHalf, Unavailable

LEMMA SerialStays == [SetupNext]_allvars => UNCHANGED serial
  BY DEF SetupNext, allvars

LEMMA FieldsStep ==
    ASSUME TypeOK, FieldsStored, [SetupNext]_allvars PROVE FieldsStored'
<1> USE DEF TypeOK, setupvars
<1>1. ASSUME NEW p \in Procs, Start(p) PROVE FieldsStored'
  BY <1>1, StartMoves DEF FieldsStored, Moves
<1>2. ASSUME NEW p \in Procs, OpenReturned(p) \/ Map(p) PROVE FieldsStored'
  BY <1>2, OpenMoves DEF FieldsStored, Moves
<1>3. ASSUME NEW p \in Procs, TestMagic(p) PROVE FieldsStored'
  BY <1>3, TestMoves, MagicIsLast DEF FieldsStored, Moves
<1>4. ASSUME NEW p \in Procs, InitField(p) PROVE FieldsStored'
  <2> DEFINE k == setup[p].done + 1
  <2>1. /\ setup[p].pc = "init" /\ k \in Nat
        /\ header' = header \cup {InitOrder[k]}
        /\ \/ k < Len(InitOrder) /\ Moves(p, "init", k)
           \/ ~(k < Len(InitOrder)) /\ Moves(p, "done", 0)
    BY <1>4, InitMoves
  <2>2. setup[p].done \in Nat
    BY DEF ProcType, SetupStates
  <2>3. \A j \in 1 .. setup[p].done : InitOrder[j] \in header
    BY <2>1 DEF FieldsStored
  <2>4. k \in 1 .. 7
    BY <2>1, <2>2, MagicIsLast DEF FieldsStored
  <2>5. \A j \in 1 .. k : InitOrder[j] \in header'
    BY <2>1, <2>2, <2>3
  <2> HIDE DEF k
  <2>6. k = 7 => Fields \subseteq header'
    BY <2>5, MagicIsLast DEF Fields
  <2>7. "magic" \in header' => Fields \subseteq header'
    <3>1. CASE k = 7
      BY <2>6, <3>1
    <3>2. CASE k # 7
      <4>1. InitOrder[k] # "magic"
        BY <2>4, <3>2, MagicIsLast
      <4> QED
        BY <2>1, <4>1 DEF FieldsStored
    <3> QED
      BY <3>1, <3>2
  <2>8. CASE k < Len(InitOrder) /\ Moves(p, "init", k)
    BY <2>1, <2>5, <2>7, <2>8 DEF FieldsStored, Moves
  <2>9. CASE ~(k < Len(InitOrder)) /\ Moves(p, "done", 0)
    <3>1. k = 7 /\ "magic" \in header'
      BY <2>1, <2>4, <2>9, MagicIsLast
    <3> QED
      BY <2>1, <2>7, <2>9, <3>1 DEF FieldsStored, Moves
  <2> QED
    BY <2>1, <2>8, <2>9
<1>5. ASSUME NEW p \in Procs, Greet(p) \/ Greeted(p) PROVE FieldsStored'
  <2>1. UNCHANGED header
    BY <1>5 DEF Greet, Greeted, BeginPrint
  <2> QED
    BY <1>5, <2>1, GreetMoves DEF FieldsStored, Moves
<1>6. ASSUME NEW p \in Procs, Crash(p) PROVE FieldsStored'
  <2>1. UNCHANGED header
    BY <1>6 DEF Crash
  <2> QED
    BY <1>6, <2>1, GreetMoves DEF FieldsStored, Moves
<1>7. CASE UNCHANGED setupvars
  BY <1>7 DEF FieldsStored
<1> QED
  BY <1>1, <1>2, <1>3, <1>4, <1>5, <1>6, <1>7, RingSteps

LEMMA AttachedStep ==
    ASSUME TypeOK, FieldsStored, Attached, [SetupNext]_allvars
    PROVE  Attached'
<1> USE SetupAssumption
    DEF TypeOK, setupvars, ringvars, ring, wlocal, rlocal
<1>1. ASSUME NEW p \in Procs, Start(p) PROVE Attached'
  BY <1>1, StartMoves DEF Attached, Moves
<1>2. ASSUME NEW p \in Procs, OpenReturned(p) \/ Map(p) PROVE Attached'
  BY <1>2, OpenMoves DEF Attached, Moves
<1>3. ASSUME NEW p \in Procs, TestMagic(p) PROVE Attached'
  BY <1>3, TestMoves DEF Attached, Moves
<1>4. ASSUME NEW p \in Procs, InitField(p) PROVE Attached'
  BY <1>4, InitMoves DEF Attached, Moves
<1>5. ASSUME NEW p \in Procs, Greet(p) PROVE Attached'
  <2>1. "magic" \in header /\ header' = header /\ rpc' = rpc
        /\ \A w \in Writers : w # p => wpc'[w] = wpc[w]
    BY <1>5 DEF FieldsStored, Greet, BeginPrint, LoadNextWrite, WriterType
  <2> QED
    BY <1>5, <2>1, GreetMoves DEF Attached, Moves
<1>6. ASSUME NEW p \in Procs, Greeted(p) PROVE Attached'
  BY <1>6, GreetMoves DEF Attached, Moves
<1>7. ASSUME NEW p \in Procs, Crash(p) PROVE Attached'
  <2>1. /\ UNCHANGED <<header, ring, printed, got>>
        /\ \A w \in Writers : wpc'[w] = IF w = p THEN "idle" ELSE wpc[w]
        /\ IF p = Logger THEN rpc' = "idle" ELSE rpc' = rpc
    BY <1>7 DEF Crash, ForgetWriter, ForgetReader, WriterType
  <2> QED
    BY <1>7, <2>1, GreetMoves DEF Attached, Moves
<1>8. ASSUME NEW w \in Writers, PrintMessage(w) \/ PrintStep(w),
             UNCHANGED setupvars
      PROVE  Attached'
  <2>1. setup[w].pc \in {"greet", "done"} /\ rpc' = rpc
        /\ \A v \in Writers : v # w => wpc'[v] = wpc[v]
    BY <1>8
       DEF Attached, PrintMessage, BeginPrint, LoadNextWrite, PrintStep,
           PrintNext, TestFull, ReloadPrinted, DropOldest, BeginCopy, EndCopy,
           Publish, PostSem, ForgetWriter, WriterType
  <2>2. "magic" \in header
    BY <2>1 DEF FieldsStored
  <2> QED
    BY <1>8, <2>1, <2>2 DEF Attached
<1>9. CASE (ReadStep \/ \E t \in BOOLEAN : Read(t))
           /\ UNCHANGED <<setupvars, history, wlocal>>
  <2>1. setup[Logger].pc = "done"
    BY <1>9
       DEF Attached, Read, ReadStep, ReadNext, SemTaken, SemTimeout,
           TestMessage, LoadPrinted, Advance, ReadFirstHalf, ReadSecondHalf,
           Unavailable
  <2>2. "magic" \in header
    BY <2>1 DEF FieldsStored
  <2> QED
    BY <1>9, <2>1, <2>2 DEF Attached
<1>10. CASE UNCHANGED <<ringvars, setupvars, history>>
  BY <1>10 DEF Attached
<1> QED
  BY <1>1, <1>2, <1>3, <1>4, <1>5, <1>6, <1>7, <1>8, <1>9, <1>10, RingSteps

LEMMA OneSetsUpStep ==
    ASSUME TypeOK, FieldsStored, OneSetsUp, [SetupNext]_allvars
    PROVE  OneSetsUp'
<1> USE DEF TypeOK, setupvars, history, SettingUp
<1>1. ASSUME NEW p \in Procs, Start(p) PROVE OneSetsUp'
  BY <1>1, StartMoves DEF OneSetsUp, Moves
<1>2. ASSUME NEW p \in Procs, OpenReturned(p) \/ Map(p) PROVE OneSetsUp'
  BY <1>2, OpenMoves DEF OneSetsUp, Moves
<1>3. ASSUME NEW p \in Procs, TestMagic(p) PROVE OneSetsUp'
  BY <1>3, TestMoves DEF OneSetsUp, Moves
<1>4. ASSUME NEW p \in Procs, InitField(p) PROVE OneSetsUp'
  <2> DEFINE k == setup[p].done + 1
  <2>1. /\ setup[p].pc = "init" /\ k \in Nat /\ raced' = raced
        /\ header' = header \cup {InitOrder[k]}
        /\ \/ k < Len(InitOrder) /\ Moves(p, "init", k)
           \/ ~(k < Len(InitOrder)) /\ Moves(p, "done", 0)
    BY <1>4, InitMoves
  <2>2. setup[p].done \in Nat
    BY DEF ProcType, SetupStates
  <2>3. k < Len(InitOrder) => InitOrder[k] # "magic"
    BY <2>2, MagicIsLast
  <2> HIDE DEF k
  <2> QED
    BY <2>1, <2>3 DEF OneSetsUp, Moves
<1>5. ASSUME NEW p \in Procs, Greet(p) \/ Greeted(p) \/ Crash(p)
      PROVE  OneSetsUp'
  <2>1. UNCHANGED <<header, raced>>
    BY <1>5 DEF Greet, Greeted, Crash, BeginPrint
  <2>2. \E l \in {"greet", "done", "down"} : \E n : Moves(p, l, n)
    BY <1>5, GreetMoves
  <2> QED
    BY <2>1, <2>2 DEF OneSetsUp, Moves
<1>6. CASE UNCHANGED setupvars /\ UNCHANGED raced
  BY <1>6 DEF OneSetsUp
<1>7. ASSUME NEW w \in Writers, PrintMessage(w) \/ PrintStep(w)
      PROVE  UNCHANGED raced
  BY <1>7 DEF PrintMessage, PrintStep, BeginPrint
<1> QED
  BY <1>1, <1>2, <1>3, <1>4, <1>5, <1>6, <1>7, RingSteps

(***************************************************************************)
(* A set-up that initialises the ring disturbs nobody, unless two overlap. *)
(***************************************************************************)
LEMMA InitIsAlone ==
    ASSUME TypeOK, FieldsStored, Attached, OneSetsUp, ~raced,
           NEW p \in Procs, InitField(p)
    PROVE  /\ UNCHANGED <<ring, wlocal, rlocal, printed, got, dropped,
                          crashes, mixed, raced>>
           /\ rpc = "idle" /\ \A w \in Writers : wpc[w] = "idle"
<1>1. "magic" \notin header
  BY DEF InitField, OneSetsUp
<1>2. rpc = "idle" /\ \A w \in Writers : wpc[w] = "idle"
  BY <1>1, SetupAssumption DEF FieldsStored, Attached
<1>3. act_printed = 0 /\ act_written = 0 /\ sem = 0
  BY <1>1 DEF Attached
<1> QED
  BY <1>2, <1>3, InitMoves DEF TypeOK, ring, history

LEMMA StrandedStep ==
    ASSUME TypeOK, FieldsStored, Attached, OneSetsUp, ReaderNotStranded,
           [SetupNext]_allvars
    PROVE  ReaderNotStranded'
<1> USE SetupAssumption DEF ringvars, ring, wlocal, rlocal, history
<1>1. ASSUME NEW p \in Procs,
             \/ Start(p) \/ OpenReturned(p) \/ Map(p) \/ TestMagic(p)
             \/ Greeted(p)
      PROVE  ReaderNotStranded'
  <2>1. UNCHANGED <<ringvars, crashes>>
    BY <1>1 DEF Start, OpenReturned, Map, TestMagic, Greeted
  <2>2. raced => raced'
    BY <1>1 DEF Start, OpenReturned, Map, TestMagic, Greeted
  <2> QED
    BY <2>1, <2>2 DEF ReaderNotStranded
<1>2. ASSUME NEW p \in Procs, InitField(p) PROVE ReaderNotStranded'
  <2>1. CASE raced
    BY <1>2, <2>1 DEF ReaderNotStranded, InitField
  <2>2. CASE ~raced
    BY <1>2, <2>2, InitIsAlone DEF ReaderNotStranded
  <2> QED
    BY <2>1, <2>2
<1>3. ASSUME NEW w \in Writers, BeginPrint(w) PROVE ReaderNotStranded'
  <2>1. UNCHANGED <<ring, rpc, crashes, raced>> /\ wpc'[w] = "test"
    BY <1>3 DEF BeginPrint, LoadNextWrite, TypeOK, WriterType
  <2> QED
    BY <2>1 DEF ReaderNotStranded
<1>4. ASSUME NEW w \in Writers, PrintStep(w) PROVE ReaderNotStranded'
  <2>1. (sem \in Nat /\ sem' = sem + 1) \/ wpc'[w] # "idle"
    BY <1>4
       DEF PrintStep, PrintNext, TestFull, ReloadPrinted, DropOldest,
           BeginCopy, EndCopy, Publish, PostSem, TypeOK, RingType, WriterType
  <2>2. rpc' = rpc /\ crashes' = crashes /\ raced' = raced
    BY <1>4
       DEF PrintStep, PrintNext, TestFull, ReloadPrinted, DropOldest,
           BeginCopy, EndCopy, Publish, PostSem
  <2> QED
    BY <2>1, <2>2 DEF ReaderNotStranded
<1>5. ASSUME NEW p \in Procs, Crash(p) PROVE ReaderNotStranded'
  BY <1>5 DEF Crash, ReaderNotStranded, TypeOK, CountType
<1>6. ASSUME NEW t \in BOOLEAN, Read(t) PROVE ReaderNotStranded'
  BY <1>6 DEF Read, GetMessage, ReaderNotStranded
<1>7. CASE ReadStep
  <2>1. rpc' # "wait"
    BY <1>7
       DEF ReadStep, ReadNext, SemTaken, SemTimeout, TestMessage,
           LoadPrinted, Advance, ReadFirstHalf, ReadSecondHalf, Unavailable,
           ForgetReader
  <2> QED
    BY <2>1 DEF ReaderNotStranded
<1>8. CASE UNCHANGED <<ringvars, setupvars, history>>
  BY <1>8 DEF ReaderNotStranded
<1> QED
  BY <1>1, <1>2, <1>3, <1>4, <1>5, <1>6, <1>7, <1>8, RingSteps
     DEF Greet, PrintMessage

(***************************************************************************)
(* The invariant of the set-up holds, whoever dies and starts again.       *)
(***************************************************************************)
THEOREM SetupInvariant == SetupSpec => []SetupInv
<1>1. SetupInit => SetupInv
  <2> SUFFICES ASSUME SetupInit PROVE SetupInv
    OBVIOUS
  <2> USE SetupAssumption, ZeroSlot DEF SetupInit, Init
  <2>1. ProcType
    BY DEF ProcType, SetupStates, SetupPCs, Down
  <2>2. CountType /\ RingType /\ ReaderType
    BY DEF CountType, RingType, ReaderType, ReaderPCs, Torn
  <2>3. WriterType
    BY DEF WriterType, WriterPCs, Torn
  <2>4. FieldsStored /\ OneSetsUp
    BY DEF FieldsStored, OneSetsUp, SettingUp, Down
  <2>5. Attached /\ ReaderNotStranded
    BY DEF Attached, ReaderNotStranded
  <2> QED
    BY <2>1, <2>2, <2>3, <2>4, <2>5 DEF SetupInv, TypeOK
<1>2. SetupInv /\ [SetupNext]_allvars => SetupInv'
  BY TypeStep, FieldsStep, AttachedStep, OneSetsUpStep, StrandedStep
     DEF SetupInv
<1> QED
  BY <1>1, <1>2, PTL DEF SetupSpec

(***************************************************************************)
(* Whoever has come through osal_io_shm_setup with the memory mapped finds *)
(* every field initialised.                                                *)
(***************************************************************************)
THEOREM AttachedInitialised == SetupSpec => []AttachedIsInitialised
<1>1. SetupInv => AttachedIsInitialised
  BY DEF SetupInv, FieldsStored, Fields, AttachedIsInitialised
<1> QED
  BY <1>1, SetupInvariant, PTL

(***************************************************************************)
(* No reader is left waiting beside a message, however the ring overflows  *)
(* and however many processes print.                                       *)
(***************************************************************************)
THEOREM NoReaderStranded == SetupSpec => []ReaderNotStranded
<1>1. SetupInv => ReaderNotStranded
  BY DEF SetupInv
<1> QED
  BY <1>1, SetupInvariant, PTL
-----------------------------------------------------------------------------
(***************************************************************************)
(* Distances in the ring.                                                  *)
(***************************************************************************)
LEMMA DistIs ==
    ASSUME NEW a \in Slots, NEW b \in Slots
    PROVE  /\ Dist(a, b) \in 0 .. max_messages - 1
           /\ Dist(a, b) = 0 <=> a = b
  BY RingAssumption DEF Dist, Slots

LEMMA DistInjective ==
    ASSUME NEW a \in Slots, NEW b \in Slots, NEW c \in Slots,
           Dist(a, b) = Dist(a, c)
    PROVE  b = c
  BY RingAssumption DEF Dist, Slots

(* One slot further on for the writer, and for the reader.                 *)
LEMMA DistWritten ==
    ASSUME NEW a \in Slots, NEW b \in Slots
    PROVE  /\ NextSlot(b) # a => Dist(a, NextSlot(b)) = Dist(a, b) + 1
           /\ NextSlot(b) = a <=> Dist(a, b) = max_messages - 1
<1>1. NextSlot(b) = IF b + 1 = max_messages THEN 0 ELSE b + 1
  BY NextSlotIs
<1> QED
  BY <1>1, RingAssumption DEF Dist, Slots

LEMMA DistRead ==
    ASSUME NEW a \in Slots, NEW b \in Slots, a # b
    PROVE  Dist(NextSlot(a), b) = Dist(a, b) - 1
<1>1. NextSlot(a) = IF a + 1 = max_messages THEN 0 ELSE a + 1
  BY NextSlotIs
<1> QED
  BY <1>1, RingAssumption DEF Dist, Slots

LEMMA NextSlotInjective ==
    ASSUME NEW a \in Slots, NEW b \in Slots, NextSlot(a) = NextSlot(b)
    PROVE  a = b
<1>1. /\ NextSlot(a) = IF a + 1 = max_messages THEN 0 ELSE a + 1
      /\ NextSlot(b) = IF b + 1 = max_messages THEN 0 ELSE b + 1
  BY NextSlotIs
<1>2. a \in Nat /\ b \in Nat /\ max_messages \in Nat
  BY RingAssumption DEF Slots
<1>3. (IF a + 1 = max_messages THEN 0 ELSE a + 1)
        = (IF b + 1 = max_messages THEN 0 ELSE b + 1)
  BY <1>1, Zenon
<1> QED
  BY <1>2, <1>3

LEMMA NextSlotIsOther == \A a \in Slots : NextSlot(a) # a
<1> SUFFICES ASSUME NEW a \in Slots PROVE NextSlot(a) # a
  OBVIOUS
<1>1. NextSlot(a) = IF a + 1 = max_messages THEN 0 ELSE a + 1
  BY NextSlotIs
<1> QED
  BY <1>1, RingAssumption DEF Slots

(* The window begins with act_printed and ends with act_written.           *)
LEMMA WindowEnds ==
    ASSUME RingType
    PROVE  /\ act_printed \in Window /\ act_written \in Window
           /\ Ahead(act_printed) = 0 /\ Used \in 0 .. max_messages - 1
           /\ \A s \in Slots : Ahead(s) \in 0 .. max_messages - 1
           /\ \A s \in Window : s \in Slots /\ Ahead(s) \in 0 .. Used
<1>1. act_printed \in Slots /\ act_written \in Slots
  BY DEF RingType
<1>2. Ahead(act_printed) = 0
  BY <1>1, DistIs DEF Ahead
<1>3. \A s \in Slots : Ahead(s) \in 0 .. max_messages - 1
  BY <1>1, DistIs DEF Ahead
<1>4. Used \in 0 .. max_messages - 1
  BY <1>1, <1>3 DEF Used
<1>5. Ahead(act_printed) <= Used /\ Ahead(act_written) <= Used
  <2>1. Ahead(act_written) = Used
    BY DEF Used
  <2> QED
    BY <1>2, <1>4, <2>1
<1>6. act_printed \in Window /\ act_written \in Window
  BY <1>1, <1>5 DEF Window
<1>7. ASSUME NEW s \in Window PROVE s \in Slots /\ Ahead(s) \in 0 .. Used
  <2>1. s \in Slots /\ Ahead(s) <= Used
    BY DEF Window
  <2>2. Ahead(s) \in 0 .. max_messages - 1
    BY <1>3, <2>1
  <2> QED
    BY <1>4, <2>1, <2>2
<1> QED
  BY <1>2, <1>3, <1>4, <1>6, <1>7

(* Overlaps and losses are never forgotten.                                *)
LEMMA CalmBefore ==
    ASSUME [SetupNext]_allvars, Calm' PROVE Calm
<1> USE DEF ringvars, history, Calm
<1>1. ASSUME NEW p \in Procs, SetupStep(p) \/ Crash(p) \/ PrintMessage(p)
      PROVE  Calm
  <2>1. CASE Start(p)
    BY <2>1 DEF Start
  <2>2. CASE BeginPrint(p)
    BY <2>2 DEF BeginPrint, LoadNextWrite
  <2>3. CASE \/ Open(p) \/ OpenReturned(p) \/ Map(p) \/ TestMagic(p)
             \/ InitField(p) \/ Greeted(p) \/ Crash(p)
    BY <2>3 DEF Open, OpenReturned, Map, TestMagic, InitField, Greeted, Crash
  <2> QED
    BY <1>1, <2>1, <2>2, <2>3 DEF SetupStep, Greet, PrintMessage
<1>2. ASSUME NEW p \in Procs, PrintStep(p) PROVE Calm
  BY <1>2
     DEF PrintStep, PrintNext, TestFull, ReloadPrinted, DropOldest,
         BeginCopy, EndCopy, Publish, PostSem
<1>3. CASE ReadStep \/ \E t \in BOOLEAN : Read(t)
  BY <1>3
     DEF Read, GetMessage, ReadStep, ReadNext, SemTaken, SemTimeout,
         TestMessage, LoadPrinted, Advance, ReadFirstHalf, ReadSecondHalf,
         Unavailable
<1>4. CASE UNCHANGED allvars
  BY <1>4 DEF allvars
<1> QED
  BY <1>1, <1>2, <1>3, <1>4 DEF SetupNext

(* The state of the ring, as far as the invariant sees it, is the same.    *)
LEMMA RingQuiet ==
    ASSUME OneWriter, Increasing, NoGaps,
           UNCHANGED <<act_printed, act_written, msgs, wlocal, printed, got,
                       crashes>>,
           rpc' \in Taking <=> rpc \in Taking
    PROVE  OneWriter' /\ Increasing' /\ NoGaps'
<1>1. UNCHANGED <<act_printed, act_written, msgs, wpc, wmsg, next_write>>
  BY DEF wlocal
<1>2. OneWriter'
  BY <1>1 DEF OneWriter
<1>3. Used' = Used /\ Window' = Window
      /\ \A s \in Slots : Ahead(s)' = Ahead(s)
  BY <1>1 DEF Used, Window, Ahead
<1>4. Window \subseteq Slots
  BY DEF Window
<1>5. Increasing'
  BY <1>1, <1>3, <1>4 DEF Increasing
<1>6. Taken' = Taken /\ Pending' = Pending
  BY <1>1 DEF Taken, Pending
<1>7. NoGaps'
  BY <1>1, <1>3, <1>4, <1>6 DEF NoGaps
<1> QED
  BY <1>2, <1>5, <1>7

(***************************************************************************)
(* The reader.                                                             *)
(***************************************************************************)
LEMMA ReadKeeps ==
    ASSUME TypeOK, TypeOK', OneWriter, FirstOfWindow, Increasing, NoGaps,
           ReadStep \/ \E t \in BOOLEAN : Read(t)
    PROVE  OneWriter' /\ FirstOfWindow' /\ Increasing' /\ NoGaps'
<1> USE DEF wlocal, rlocal, history
<1>1. ASSUME \/ SemTaken \/ SemTimeout \/ TestMessage \/ LoadPrinted
             \/ ReadFirstHalf \/ Unavailable \/ \E t \in BOOLEAN : Read(t),
             UNCHANGED crashes
      PROVE  OneWriter' /\ FirstOfWindow' /\ Increasing' /\ NoGaps'
  <2>1. UNCHANGED <<act_printed, act_written, msgs, wlocal, printed, got>>
    BY <1>1
       DEF ring, SemTaken, SemTimeout, TestMessage, LoadPrinted,
           ReadFirstHalf, Unavailable, Read, GetMessage
  <2>2. rpc' \in Taking <=> rpc \in Taking
    BY <1>1
       DEF Taking, SemTaken, SemTimeout, TestMessage, LoadPrinted,
           ReadFirstHalf, Unavailable, ForgetReader, Read, GetMessage
  <2>3. FirstOfWindow'
    BY <1>1, <2>1
       DEF FirstOfWindow, Taking, SemTaken, SemTimeout, TestMessage,
           LoadPrinted, ReadFirstHalf, Unavailable, ForgetReader, Read,
           GetMessage
  <2> QED
    BY <1>1, <2>1, <2>2, <2>3, RingQuiet
<1>2. ASSUME ReadSecondHalf, UNCHANGED crashes
      PROVE  OneWriter' /\ FirstOfWindow' /\ Increasing' /\ NoGaps'
  <2>1. /\ rpc = "copying" /\ rpc' = "idle"
        /\ UNCHANGED <<act_printed, act_written, msgs, wlocal, printed>>
        /\ got' = Append(got, msgs[act_printed])
    BY <1>2 DEF ReadSecondHalf, ForgetReader, FirstOfWindow, Taking, ring
  <2>2. /\ got \in Seq(Nat) /\ Len(got) \in Nat /\ msgs[act_printed] \in Nat
        /\ act_printed \in Slots
    BY DEF TypeOK, CountType, RingType
  <2>3. /\ Len(got') = Len(got) + 1
        /\ \A k \in 1 .. Len(got) : got'[k] = got[k]
        /\ got'[Len(got) + 1] = msgs[act_printed]
    BY <2>1, <2>2
  <2>4. Used' = Used /\ Window' = Window
        /\ \A s \in Slots : Ahead(s)' = Ahead(s)
    BY <2>1 DEF Used, Window, Ahead
  <2>5. Window \subseteq Slots
    BY DEF Window
  <2>6. OneWriter' /\ FirstOfWindow'
    BY <2>1 DEF OneWriter, FirstOfWindow, Taking
  <2>7. Increasing'
    <3>1. ASSUME NEW k \in 1 .. Len(got')
          PROVE  /\ got'[k] # Torn /\ got'[k] <= msgs[act_printed]
                 /\ k > 1 => got'[k] > got'[k - 1]
      <4>1. /\ \A j \in 1 .. Len(got) :
                 /\ got[j] # Torn /\ got[j] < msgs[act_printed]
                 /\ j > 1 => got[j] > got[j - 1]
            /\ msgs[act_printed] # Torn
        BY <2>1 DEF Increasing, Taking
      <4>2. CASE k \in 1 .. Len(got)
        <5>1. k > 1 => k - 1 \in 1 .. Len(got)
          BY <2>2, <4>2
        <5>2. /\ got'[k] = got[k]
              /\ k > 1 => got'[k - 1] = got[k - 1]
          BY <2>3, <4>2, <5>1
        <5>3. \A j \in 1 .. Len(got) : got[j] \in Nat
          BY <2>2
        <5> QED
          BY <2>2, <4>1, <4>2, <5>2, <5>3
      <4>3. CASE k = Len(got) + 1
        <5>1. k > 1 => /\ k - 1 \in 1 .. Len(got) /\ k - 1 = Len(got)
                       /\ got'[k - 1] = got[k - 1]
          BY <2>2, <2>3, <4>3
        <5>2. k > 1 => got'[k - 1] < msgs[act_printed]
          BY <4>1, <5>1
        <5>3. \A j \in 1 .. Len(got) : got[j] \in Nat
          BY <2>2
        <5> QED
          BY <2>2, <2>3, <4>1, <4>3, <5>1, <5>2, <5>3
      <4> QED
        BY <2>2, <2>3, <4>2, <4>3
    <3> QED
      BY <2>1, <2>4, <2>5, <3>1 DEF Increasing, Taking
  <2>8. NoGaps'
    <3>1. Taken' = Taken /\ Pending' = Pending
      BY <2>1, <2>2, <2>3 DEF Taken, Pending, Taking
    <3>2. crashes = 0 => msgs[act_printed] = Len(got) + 1
      BY <2>1, <2>2, WindowEnds DEF NoGaps, Taken, Taking, TypeOK
    <3>3. crashes = 0 => \A k \in 1 .. Len(got') : got'[k] = k
      <4> SUFFICES ASSUME crashes = 0, NEW k \in 1 .. Len(got')
                   PROVE  got'[k] = k
        OBVIOUS
      <4>1. CASE k \in 1 .. Len(got)
        BY <2>3, <4>1 DEF NoGaps
      <4>2. CASE k = Len(got) + 1
        BY <2>3, <3>2, <4>2
      <4> QED
        BY <2>2, <2>3, <4>1, <4>2
    <3> QED
      BY <1>2, <2>1, <2>4, <2>5, <3>1, <3>3 DEF NoGaps
  <2> QED
    BY <2>6, <2>7, <2>8
<1>3. ASSUME Advance, UNCHANGED crashes
      PROVE  OneWriter' /\ FirstOfWindow' /\ Increasing' /\ NoGaps'
  <2>1. /\ rpc = "advance" /\ rpc' = "copy" /\ act_printed # act_written
        /\ act_printed' = NextSlot(act_printed) /\ slot' = act_printed'
        /\ UNCHANGED <<act_written, msgs, wlocal, printed, got>>
    BY <1>3 DEF Advance, FirstOfWindow
  <2>2. /\ act_printed \in Slots /\ act_written \in Slots
        /\ act_printed' \in Slots /\ msgs \in [Slots -> Nat]
    BY DEF TypeOK, RingType
  <2>3. \A s \in Slots \ {act_printed} :
           Ahead(s) \in Nat \ {0} /\ Ahead(s)' = Ahead(s) - 1
    BY <2>1, <2>2, DistRead, DistIs DEF Ahead
  <2>4. Used \in Nat \ {0} /\ Used' = Used - 1
    BY <2>1, <2>2, <2>3 DEF Used
  <2>5. \A s \in Window' : s \in Window /\ s # act_printed
    <3> SUFFICES ASSUME NEW s \in Window'
                 PROVE  s \in Window /\ s # act_printed
      OBVIOUS
    <3>1. s \in Slots /\ Ahead(s)' <= Used'
      BY DEF Window
    <3>2. Used <= max_messages - 1 /\ max_messages \in Nat
      BY WindowEnds, RingAssumption DEF TypeOK
    <3>3. s = act_printed => Dist(NextSlot(act_printed), s) = max_messages - 1
      BY <2>2, DistWritten, NextSlotIs
    <3>4. s # act_printed
      BY <2>1, <2>4, <3>1, <3>2, <3>3 DEF Ahead
    <3>5. Ahead(s) <= Used
      BY <2>3, <2>4, <3>1, <3>4
    <3> QED
      BY <3>1, <3>4, <3>5 DEF Window
  <2>6. PICK x \in Slots : x = act_printed'
    BY <2>2
  <2>7. x \in Window /\ x # act_printed /\ Ahead(x) = 1
    <3>1. x # act_printed
      BY <2>1, <2>2, <2>6, NextSlotIsOther
    <3>2. Dist(act_printed, act_printed) = 0
      BY <2>2, DistIs
    <3>3. Ahead(x) = 1
      BY <2>1, <2>2, <2>6, <3>1, <3>2, DistWritten DEF Ahead
    <3> QED
      BY <2>4, <3>1, <3>3 DEF Window
  <2>8. msgs[act_printed] < msgs[x] /\ msgs[act_printed] \in Nat
        /\ msgs[x] \in Nat
    <3>1. act_printed \in Window /\ Ahead(act_printed) = 0
      BY WindowEnds DEF TypeOK
    <3> QED
      BY <2>2, <2>7, <3>1 DEF Increasing
  <2>9. OneWriter'
    <3>1. NextSlot(act_written) # act_printed'
      BY <2>1, <2>2, NextSlotInjective
    <3>2. \A w \in Writers : wpc[w] \in Copying => wpc[w] \in Unpublished
      BY DEF Unpublished
    <3> QED
      BY <2>1, <3>1, <3>2 DEF OneWriter
  <2>10. FirstOfWindow'
    BY <2>1 DEF FirstOfWindow, Taking
  <2>11. Increasing'
    <3>1. \A s, r \in Window' : Ahead(s)' < Ahead(r)' => msgs[s] < msgs[r]
      <4> SUFFICES ASSUME NEW s \in Window', NEW r \in Window',
                          Ahead(s)' < Ahead(r)'
                   PROVE  msgs[s] < msgs[r]
        OBVIOUS
      <4>1. /\ s \in Window /\ r \in Window
            /\ s \in Slots \ {act_printed} /\ r \in Slots \ {act_printed}
        BY <2>5 DEF Window
      <4>2. Ahead(s) < Ahead(r)
        BY <2>3, <4>1
      <4> QED
        BY <4>1, <4>2 DEF Increasing
    <3>2. \A s \in Window' : /\ msgs[s] <= printed
                             /\ \A w \in Writers :
                                  wpc[w] \in Unpublished => msgs[s] < printed
      BY <2>5 DEF Increasing
    <3>3. \A k \in 1 .. Len(got) :
             /\ got[k] # Torn /\ got[k] < msgs[x] /\ got[k] <= msgs[x]
             /\ k > 1 => got[k] > got[k - 1]
      <4>1. \A k \in 1 .. Len(got) : got[k] \in Nat
        BY DEF TypeOK, CountType
      <4> QED
        BY <2>8, <4>1 DEF Increasing
    <3>4. msgs[x] # Torn
      BY <2>8 DEF Torn
    <3> QED
      BY <2>1, <2>6, <3>1, <3>2, <3>3, <3>4 DEF Increasing
  <2>12. NoGaps'
    <3>1. Len(got) \in Nat /\ Taken' = Taken + 1 /\ Pending' = Pending
          /\ Pending \in Nat /\ Taken \in Nat
      BY <2>1 DEF Taken, Pending, Taking, TypeOK, CountType
    <3>2. ASSUME crashes = 0
          PROVE  printed = Taken' + Used' + Pending'
      BY <2>4, <3>1, <3>2 DEF NoGaps
    <3>3. ASSUME crashes = 0, NEW s \in Window'
          PROVE  msgs[s] = Taken' + Ahead(s)'
      <4>1. s \in Window /\ s \in Slots \ {act_printed}
        BY <2>5 DEF Window
      <4>2. msgs[s] = Taken + Ahead(s)
        BY <3>3, <4>1 DEF NoGaps
      <4> QED
        BY <2>3, <3>1, <4>1, <4>2
    <3> QED
      BY <1>3, <2>1, <3>2, <3>3 DEF NoGaps
  <2> QED
    BY <2>9, <2>10, <2>11, <2>12
<1> QED
  BY <1>1, <1>2, <1>3 DEF ReadStep, ReadNext, Read

(***************************************************************************)
(* The writer.  As long as it stays behind the window, nothing the reader  *)
(* sees changes;                                                           *)
(***************************************************************************)
LEMMA BehindWindow ==
    ASSUME TypeOK, FirstOfWindow, Increasing, NoGaps,
           UNCHANGED <<act_printed, act_written, printed, got, rlocal,
                       crashes>>,
           \A s \in Window : msgs'[s] = msgs[s],
           \A w \in Writers :
               wpc'[w] \in Unpublished <=> wpc[w] \in Unpublished
    PROVE  FirstOfWindow' /\ Increasing' /\ NoGaps'
<1>1. Used' = Used /\ Window' = Window
      /\ \A s \in Slots : Ahead(s)' = Ahead(s)
  BY DEF Used, Window, Ahead
<1>2. Window \subseteq Slots /\ act_printed \in Window
  BY WindowEnds DEF TypeOK
<1>3. FirstOfWindow'
  BY <1>2 DEF FirstOfWindow, rlocal
<1>4. Increasing'
  BY <1>1, <1>2 DEF Increasing, rlocal
<1>5. Taken' = Taken /\ Pending' = Pending
  BY DEF Taken, Pending, rlocal
<1>6. NoGaps'
  BY <1>1, <1>2, <1>5 DEF NoGaps
<1> QED
  BY <1>3, <1>4, <1>6

(* the slot after act_written is behind it;                                *)
LEMMA NextIsBehind ==
    ASSUME RingType, NextSlot(act_written) # act_printed
    PROVE  /\ NextSlot(act_written) \in Slots \ Window
           /\ Ahead(NextSlot(act_written)) = Used + 1
           /\ Used + 1 <= max_messages - 1
<1>1. act_written \in Slots /\ act_printed \in Slots
  BY DEF RingType
<1>2. NextSlot(act_written) \in Slots
  BY <1>1, NextSlotIs
<1>3. Ahead(NextSlot(act_written)) = Used + 1
  BY <1>1, DistWritten DEF Ahead, Used
<1>4. Used \in Nat /\ Ahead(NextSlot(act_written)) \in 0 .. max_messages - 1
  BY <1>2, WindowEnds
<1>5. max_messages \in Nat
  BY RingAssumption
<1> QED
  BY <1>2, <1>3, <1>4, <1>5 DEF Window

(* publishing its slot adds it to the window.                              *)
LEMMA PrintKeeps ==
    ASSUME TypeOK, TypeOK', OneWriter, FirstOfWindow, Increasing, NoGaps,
           NEW w \in Writers, PrintStep(w), ~dropped'
    PROVE  OneWriter' /\ FirstOfWindow' /\ Increasing' /\ NoGaps'
<1> USE DEF ring, history
<1>0. UNCHANGED <<printed, got, rlocal, crashes>>
      /\ \A v \in Writers \ {w} : wpc'[v] = wpc[v]
  BY DEF PrintStep, PrintNext, TestFull, ReloadPrinted, DropOldest,
         BeginCopy, EndCopy, Publish, PostSem, ForgetWriter, TypeOK,
         WriterType
<1>1. CASE TestFull(w) \/ ReloadPrinted(w)
  <2>1. UNCHANGED <<act_printed, act_written, msgs, wmsg, next_write>>
    BY <1>1 DEF TestFull, ReloadPrinted
  <2>2. /\ wpc[w] \in Unpublished /\ wpc'[w] \in Unpublished
        /\ wpc'[w] \in Copying => next_write[w] # act_printed
        /\ wpc'[w] \notin {"idle", "publish"} /\ wpc[w] # "idle"
    BY <1>1
       DEF TestFull, ReloadPrinted, Unpublished, Copying, TypeOK, WriterType
  <2>3. OneWriter'
    BY <1>0, <2>1, <2>2 DEF OneWriter
  <2> QED
    BY <1>0, <2>1, <2>2, <2>3, BehindWindow
<1>2. CASE PostSem(w)
  <2>1. /\ UNCHANGED <<act_printed, act_written, msgs>>
        /\ wpc[w] = "post" /\ wpc'[w] = "idle"
        /\ \A v \in Writers \ {w} :
              wmsg'[v] = wmsg[v] /\ next_write'[v] = next_write[v]
    BY <1>2 DEF PostSem, ForgetWriter, TypeOK, WriterType
  <2>2. OneWriter'
    BY <1>0, <2>1 DEF OneWriter, Unpublished, Copying
  <2> QED
    BY <1>0, <2>1, <2>2, BehindWindow DEF Unpublished, Copying
<1>3. CASE BeginCopy(w) \/ EndCopy(w)
  <2>1. /\ UNCHANGED <<act_printed, act_written, wmsg, next_write>>
        /\ wpc[w] \in Copying /\ wpc'[w] \in Copying
        /\ \E m \in Nat : msgs' = [msgs EXCEPT ![next_write[w]] = m]
        /\ wpc'[w] = "publish" =>
              msgs' = [msgs EXCEPT ![next_write[w]] = wmsg[w]]
    BY <1>3
       DEF BeginCopy, EndCopy, Copying, TypeOK, WriterType, Torn
  <2>2. /\ next_write[w] = NextSlot(act_written)
        /\ next_write[w] # act_printed
    BY <2>1 DEF OneWriter, Unpublished
  <2>3. next_write[w] \in Slots \ Window
    BY <2>2, NextIsBehind DEF TypeOK
  <2>4. \A s \in Window : msgs'[s] = msgs[s]
    BY <2>1, <2>3 DEF TypeOK, RingType, Window
  <2>5. OneWriter'
    <3>1. \A v \in Writers \ {w} : wpc[v] = "idle"
      BY <2>1 DEF OneWriter, Copying
    <3>2. wpc'[w] = "publish" => msgs'[next_write[w]] = wmsg[w]
      BY <2>1, <2>3 DEF TypeOK, RingType
    <3> QED
      BY <1>0, <2>1, <2>2, <3>1, <3>2 DEF OneWriter, Copying, Unpublished
  <2> QED
    BY <1>0, <2>1, <2>4, <2>5, BehindWindow DEF Unpublished
<1>4. CASE Publish(w)
  <2>1. /\ wpc[w] = "publish" /\ wpc'[w] = "post"
        /\ act_written' = next_write[w]
        /\ UNCHANGED <<act_printed, msgs, wmsg, next_write>>
    BY <1>4 DEF Publish, TypeOK, WriterType
  <2>2. PICK x \in Slots : x = next_write[w]
    BY DEF TypeOK, WriterType
  <2>3. /\ x = NextSlot(act_written) /\ x # act_printed
        /\ msgs[x] = printed /\ printed \in Nat
        /\ \A v \in Writers \ {w} : wpc[v] = "idle"
    BY <2>1, <2>2
       DEF OneWriter, Unpublished, Copying, TypeOK, CountType
  <2>4. x \notin Window /\ Ahead(x) = Used + 1 /\ Used \in Nat
    BY <2>3, NextIsBehind, WindowEnds DEF TypeOK
  <2>5. \A s \in Slots : Ahead(s)' = Ahead(s) /\ Ahead(s) \in Nat
    BY <2>1, WindowEnds DEF Ahead, TypeOK
  <2>6. Used' = Used + 1
    BY <2>1, <2>2, <2>4 DEF Used, Ahead
  <2>7. Window' = Window \cup {x}
    <3>1. ASSUME NEW s \in Slots
          PROVE  Ahead(s) <= Used + 1 <=> Ahead(s) <= Used \/ s = x
      <4>1. Ahead(s) = Ahead(x) <=> s = x
        BY DistInjective DEF Ahead, TypeOK, RingType
      <4> QED
        BY <2>4, <2>5, <4>1
    <3> QED
      BY <2>4, <2>5, <2>6, <3>1 DEF Window
  <2>8. \A s \in Window : s \in Slots /\ Ahead(s) < Ahead(x)
    BY <2>4, <2>5 DEF Window
  <2>9. \A s \in Window : msgs[s] < printed
    BY <2>1 DEF Increasing, Unpublished, Copying
  <2>10. OneWriter'
    BY <1>0, <2>1, <2>3 DEF OneWriter, Unpublished, Copying
  <2>11. FirstOfWindow'
    BY <1>0, <2>1, <2>2, <2>3 DEF FirstOfWindow, rlocal
  <2>12. \A v \in Writers : wpc'[v] \notin Unpublished
    BY <1>0, <2>1, <2>3 DEF Unpublished, Copying
  <2>13. Increasing'
    <3>1. ASSUME NEW s \in Window', NEW r \in Window', Ahead(s)' < Ahead(r)'
          PROVE  msgs[s] < msgs[r]
      <4>1. s \in Slots /\ r \in Slots /\ Ahead(s) < Ahead(r)
        BY <2>5, <3>1 DEF Window
      <4>2. CASE r = x
        BY <2>3, <2>7, <2>9, <4>1, <4>2, <2>5
      <4>3. CASE r # x /\ s # x
        BY <2>7, <4>1, <4>3 DEF Increasing
      <4>4. CASE r # x /\ s = x
        BY <2>5, <2>7, <2>8, <4>1, <4>4
      <4> QED
        BY <4>2, <4>3, <4>4
    <3>2. \A s \in Window' : msgs[s] <= printed
      BY <2>3, <2>7 DEF Increasing
    <3> QED
      BY <1>0, <2>1, <2>12, <3>1, <3>2 DEF Increasing, rlocal
  <2>14. NoGaps'
    <3>1. Taken' = Taken /\ Pending = 1 /\ Pending' = 0 /\ Taken \in Nat
      BY <1>0, <2>1, <2>12
         DEF Taken, Pending, Unpublished, Copying, rlocal, TypeOK, CountType
    <3>2. ASSUME crashes = 0 PROVE msgs[x] = Taken + Ahead(x)
      BY <2>3, <2>4, <3>1, <3>2 DEF NoGaps
    <3>3. ASSUME crashes = 0, NEW s \in Window'
          PROVE  msgs[s] = Taken' + Ahead(s)'
      BY <2>5, <2>7, <2>8, <3>1, <3>2, <3>3 DEF NoGaps
    <3>4. ASSUME crashes = 0 PROVE printed = Taken' + Used' + Pending'
      BY <2>4, <2>6, <3>1, <3>4 DEF NoGaps
    <3> QED
      BY <1>0, <2>1, <3>3, <3>4 DEF NoGaps
  <2> QED
    BY <2>10, <2>11, <2>13, <2>14
<1>5. CASE DropOldest(w)
  BY <1>5 DEF DropOldest
<1> QED
  BY <1>1, <1>2, <1>3, <1>4, <1>5 DEF PrintStep, PrintNext

(* A call of osal_printf begins while no other one is under way.           *)
LEMMA BeginKeeps ==
    ASSUME TypeOK, OneWriter, FirstOfWindow, Increasing, NoGaps,
           NEW w \in Writers, BeginPrint(w), ~mixed'
    PROVE  OneWriter' /\ FirstOfWindow' /\ Increasing' /\ NoGaps'
<1>1. \A v \in Writers : wpc[v] = "idle"
  BY DEF BeginPrint
<1>2. /\ UNCHANGED <<act_printed, act_written, msgs, got, rlocal, crashes>>
      /\ printed' = printed + 1 /\ printed \in Nat
      /\ wpc'[w] = "test" /\ wmsg'[w] = printed + 1
      /\ next_write'[w] = NextSlot(act_written)
      /\ \A v \in Writers \ {w} : wpc'[v] = "idle"
  BY <1>1
     DEF BeginPrint, LoadNextWrite, ring, TypeOK, WriterType, CountType
<1>3. OneWriter'
  BY <1>2 DEF OneWriter, Unpublished, Copying
<1>4. FirstOfWindow'
  BY <1>2 DEF FirstOfWindow, rlocal
<1>5. Used' = Used /\ Window' = Window
      /\ \A s \in Slots : Ahead(s)' = Ahead(s)
  BY <1>2 DEF Used, Window, Ahead
<1>6. Window \subseteq Slots /\ \A s \in Window : msgs[s] \in Nat
  BY DEF Window, TypeOK, RingType
<1>7. Increasing'
  <2>1. \A s \in Window' : msgs[s] <= printed' /\ msgs[s] < printed'
    BY <1>2, <1>5, <1>6 DEF Increasing
  <2> QED
    BY <1>2, <1>5, <1>6, <2>1 DEF Increasing, rlocal
<1>8. Taken' = Taken /\ Pending = 0 /\ Pending' = 1 /\ Taken \in Nat
      /\ Used \in Nat
  BY <1>1, <1>2, WindowEnds
     DEF Taken, Pending, Unpublished, Copying, rlocal, TypeOK, CountType
<1>9. NoGaps'
  BY <1>2, <1>5, <1>6, <1>8 DEF NoGaps
<1> QED
  BY <1>3, <1>4, <1>7, <1>9

(* A process dies.                                                         *)
LEMMA CrashKeeps ==
    ASSUME TypeOK, OneWriter, FirstOfWindow, Increasing,
           NEW p \in Writers, Crash(p)
    PROVE  OneWriter' /\ FirstOfWindow' /\ Increasing' /\ NoGaps'
<1>1. /\ UNCHANGED <<act_printed, act_written, msgs, got, printed>>
      /\ crashes \in Nat /\ crashes' = crashes + 1
      /\ wpc'[p] = "idle"
      /\ \A v \in Writers \ {p} : wpc'[v] = wpc[v] /\ wmsg'[v] = wmsg[v]
                                  /\ next_write'[v] = next_write[v]
      /\ rpc' = "idle" \/ UNCHANGED <<rpc, slot, half>>
  BY DEF Crash, ForgetWriter, ForgetReader, ring, rlocal, TypeOK, WriterType,
         CountType
<1>2. OneWriter'
  BY <1>1 DEF OneWriter, Unpublished, Copying
<1>3. FirstOfWindow'
  BY <1>1 DEF FirstOfWindow, Taking
<1>4. Used' = Used /\ Window' = Window
      /\ \A s \in Slots : Ahead(s)' = Ahead(s)
  BY <1>1 DEF Used, Window, Ahead
<1>5. \A v \in Writers :
         wpc'[v] \in Unpublished => wpc[v] \in Unpublished
  BY <1>1 DEF Unpublished, Copying
<1>6. Window \subseteq Slots
  BY DEF Window
<1>7. Increasing'
  BY <1>1, <1>4, <1>5, <1>6 DEF Increasing, Taking
<1>8. NoGaps'
  BY <1>1 DEF NoGaps
<1> QED
  BY <1>2, <1>3, <1>7, <1>8

LEMMA RingStep ==
    ASSUME SetupInv, SetupInv', RingInv, [SetupNext]_allvars PROVE RingInv'
<1> SUFFICES ASSUME Calm'
             PROVE  OneWriter' /\ FirstOfWindow' /\ Increasing' /\ NoGaps'
  BY DEF RingInv
<1>0. /\ TypeOK /\ TypeOK' /\ ~raced /\ ~mixed' /\ ~dropped'
      /\ OneWriter /\ FirstOfWindow /\ Increasing /\ NoGaps
  BY CalmBefore DEF SetupInv, RingInv, Calm
<1> USE <1>0, SetupAssumption DEF ringvars, ring, wlocal, rlocal, history
<1>1. ASSUME UNCHANGED <<act_printed, act_written, msgs, wlocal, rlocal,
                         printed, got, crashes>>
      PROVE  OneWriter' /\ FirstOfWindow' /\ Increasing' /\ NoGaps'
  <2>1. FirstOfWindow'
    BY <1>1 DEF FirstOfWindow
  <2> QED
    BY <1>1, <2>1, RingQuiet
<1>2. ASSUME NEW p \in Procs,
             \/ Start(p) \/ OpenReturned(p) \/ Map(p) \/ TestMagic(p)
             \/ Greeted(p)
      PROVE  OneWriter' /\ FirstOfWindow' /\ Increasing' /\ NoGaps'
  <2>1. UNCHANGED <<ringvars, crashes>>
    BY <1>2 DEF Start, OpenReturned, Map, TestMagic, Greeted
  <2> QED
    BY <1>1, <2>1
<1>3. ASSUME NEW p \in Procs, InitField(p)
      PROVE  OneWriter' /\ FirstOfWindow' /\ Increasing' /\ NoGaps'
  BY <1>1, <1>3, InitIsAlone DEF SetupInv
<1>4. ASSUME NEW w \in Writers, BeginPrint(w)
      PROVE  OneWriter' /\ FirstOfWindow' /\ Increasing' /\ NoGaps'
  BY <1>4, BeginKeeps
<1>5. ASSUME NEW w \in Writers, PrintStep(w)
      PROVE  OneWriter' /\ FirstOfWindow' /\ Increasing' /\ NoGaps'
  BY <1>5, PrintKeeps
<1>6. ASSUME NEW p \in Procs, Crash(p)
      PROVE  OneWriter' /\ FirstOfWindow' /\ Increasing' /\ NoGaps'
  BY <1>6, CrashKeeps
<1>7. CASE ReadStep \/ \E t \in BOOLEAN : Read(t)
  BY <1>7, ReadKeeps
<1>8. CASE UNCHANGED <<ringvars, setupvars, history>>
  BY <1>1, <1>8
<1> QED
  BY <1>2, <1>3, <1>4, <1>5, <1>6, <1>7, <1>8, RingSteps
     DEF Greet, PrintMessage

LEMMA RingBegins == SetupInit => RingInv
<1> SUFFICES ASSUME SetupInit PROVE RingInv
  OBVIOUS
<1>1. 0 \in Slots /\ act_printed = 0 /\ act_written = 0
      /\ msgs = [s \in Slots |-> Torn]
  BY ZeroSlot DEF SetupInit, Init
<1>2. Used = 0
  BY <1>1, DistIs DEF Used, Ahead
<1>3. \A s \in Window : s = 0 /\ Ahead(s) = 0 /\ msgs[s] = 0
  <2> SUFFICES ASSUME NEW s \in Window
               PROVE  s = 0 /\ Ahead(s) = 0 /\ msgs[s] = 0
    OBVIOUS
  <2>1. s \in Slots /\ Ahead(s) <= 0
    BY <1>2 DEF Window
  <2>2. Ahead(s) \in 0 .. max_messages - 1 /\ (Ahead(s) = 0 <=> s = 0)
    BY <1>1, <2>1, DistIs DEF Ahead
  <2> QED
    BY <1>1, <2>1, <2>2, RingAssumption DEF Torn
<1>4. OneWriter /\ FirstOfWindow
  BY DEF SetupInit, Init, OneWriter, FirstOfWindow, Unpublished, Copying,
         Taking
<1>5. /\ Len(got) = 0 /\ printed = 0 /\ rpc = "idle"
      /\ \A w \in Writers : wpc[w] \notin Unpublished
  BY DEF SetupInit, Init, Unpublished, Copying
<1>6. Increasing
  BY <1>3, <1>5 DEF Increasing, Taking
<1>7. Taken = 0 /\ Pending = 0
  BY <1>5 DEF Taken, Pending, Taking
<1>8. NoGaps
  BY <1>2, <1>3, <1>5, <1>7 DEF NoGaps
<1> QED
  BY <1>4, <1>6, <1>8 DEF RingInv

(***************************************************************************)
(* The ring's invariant: the unread messages are a window of growing       *)
(* numbers that the reader takes from its front, behind which the writer   *)
(* works.                                                                  *)
(***************************************************************************)
THEOREM RingInvariant == SetupSpec => []RingInv
<1>1. SetupInv /\ SetupInv' /\ RingInv /\ [SetupNext]_allvars => RingInv'
  BY RingStep
<1> QED
  BY <1>1, RingBegins, SetupInvariant, PTL DEF SetupSpec

(***************************************************************************)
(* The reader gets complete messages, in order and once, and if nobody     *)
(* dies all of them, unless the ring overflows or processes print, or set  *)
(* up, at the same time: for rings of any size.                            *)
(***************************************************************************)
THEOREM MessagesInOrder == SetupSpec => []InOrderUnlessFull
<1>1. RingInv => InOrderUnlessFull
  BY DEF RingInv, Calm, Increasing, NoGaps, InOrderUnlessFull
<1> QED
  BY <1>1, RingInvariant, PTL
-----------------------------------------------------------------------------
(***************************************************************************)
(* Calls that do not overlap.                                              *)
(***************************************************************************)
LEMMA SerialStep ==
    ASSUME SetupInv, SetupInv', SerialInv, [SetupNext]_allvars
    PROVE  SerialInv'
<1>0. SUFFICES ASSUME serial
               PROVE  OneAtATime' /\ FirstOfWindow' /\ WriterSteady'
  BY SerialStays DEF SerialInv
<1>i. /\ TypeOK /\ TypeOK' /\ OneAtATime /\ FirstOfWindow /\ WriterSteady
  BY <1>0 DEF SetupInv, SerialInv
<1> USE <1>0, <1>i, SetupAssumption
    DEF ringvars, ring, wlocal, rlocal, history
<1>1. ASSUME UNCHANGED <<act_printed, act_written, msgs, wlocal, rlocal>>
      PROVE  FirstOfWindow' /\ WriterSteady'
  BY <1>1 DEF FirstOfWindow, WriterSteady
<1>2. ASSUME NEW p \in Procs, Start(p)
      PROVE  OneAtATime' /\ FirstOfWindow' /\ WriterSteady'
  <2>1. UNCHANGED ringvars /\ Moves(p, "open", setup[p].done)
    BY <1>2, StartMoves DEF TypeOK
  <2>2. AllIdle /\ \A q \in Procs : Resting(q)
    BY <1>2 DEF Start
  <2>3. ~raced'
    BY <1>2, <2>2 DEF Start, SettingUp, Resting, OneAtATime
  <2>4. OneAtATime'
    BY <2>1, <2>2, <2>3 DEF OneAtATime, Moves, Resting, AllIdle
  <2> QED
    BY <1>1, <2>1, <2>4
<1>3. ASSUME NEW p \in Procs,
             OpenReturned(p) \/ Map(p) \/ TestMagic(p) \/ Greeted(p)
      PROVE  OneAtATime' /\ FirstOfWindow' /\ WriterSteady'
  <2>1. /\ UNCHANGED <<ringvars, raced>> /\ ~Resting(p)
        /\ \E l, n : Moves(p, l, n)
    BY <1>3, OpenMoves, TestMoves, GreetMoves DEF TypeOK, Resting
  <2>2. \A q \in Procs : q # p => (Resting(q)' <=> Resting(q))
    BY <2>1 DEF Moves, Resting
  <2>3. OneAtATime'
    BY <2>1, <2>2 DEF OneAtATime
  <2> QED
    BY <1>1, <2>1, <2>3
<1>4. ASSUME NEW p \in Procs, InitField(p)
      PROVE  OneAtATime' /\ FirstOfWindow' /\ WriterSteady'
  <2>1. ~raced
    BY DEF OneAtATime
  <2>2. /\ UNCHANGED <<ring, wlocal, rlocal, printed, raced>>
    BY <1>4, <2>1, InitIsAlone DEF SetupInv
  <2>3. ~Resting(p) /\ \A q \in Procs : q # p => (Resting(q)' <=> Resting(q))
    BY <1>4, InitMoves DEF Moves, Resting, TypeOK
  <2>4. OneAtATime'
    BY <2>2, <2>3 DEF OneAtATime
  <2> QED
    BY <1>1, <2>2, <2>4
<1>5. ASSUME NEW w \in Writers, BeginPrint(w),
             \A q \in Procs : q # w => Resting(q)',
             \A q \in Procs : Resting(q)' <=> Resting(q)
      PROVE  OneAtATime' /\ FirstOfWindow' /\ WriterSteady'
  <2>1. /\ UNCHANGED <<act_printed, act_written, msgs, rlocal, raced>>
        /\ AllIdle /\ printed < MaxSerial /\ printed' = printed + 1
        /\ wpc'[w] = "test" /\ wmsg'[w] = printed + 1
        /\ next_write'[w] = NextSlot(act_written)
        /\ \A v \in Writers \ {w} : wpc'[v] = wpc[v]
    BY <1>5 DEF BeginPrint, LoadNextWrite, Bound, TypeOK, WriterType
  <2>2. printed \in Nat /\ MaxSerial \in Nat
    BY BoundsAssumption DEF TypeOK, CountType
  <2>3. OneAtATime'
    BY <1>5, <2>1, <2>2 DEF OneAtATime, AllIdle
  <2>4. FirstOfWindow'
    BY <2>1 DEF FirstOfWindow
  <2>5. WriterSteady'
    BY <2>1, <2>2 DEF WriterSteady, AllIdle, Unpublished, Copying
  <2> QED
    BY <2>3, <2>4, <2>5
<1>6. ASSUME NEW p \in Procs, Greet(p)
      PROVE  OneAtATime' /\ FirstOfWindow' /\ WriterSteady'
  <2>1. BeginPrint(p) /\ ~Resting(p)
    BY <1>6 DEF Greet, Resting
  <2>2. \A q \in Procs : Resting(q)' <=> Resting(q)
    BY <1>6, <2>1, GreetMoves DEF TypeOK, Moves, Resting
  <2>3. \A q \in Procs : q # p => Resting(q)
    BY <2>1 DEF OneAtATime
  <2> QED
    BY <1>5, <2>1, <2>2, <2>3
<1>7. ASSUME NEW w \in Writers, PrintMessage(w)
      PROVE  OneAtATime' /\ FirstOfWindow' /\ WriterSteady'
  <2>1. \A q \in Procs : Resting(q)' <=> Resting(q)
    BY <1>7 DEF PrintMessage, Resting
  <2> QED
    BY <1>5, <1>7, <2>1 DEF PrintMessage
<1>8. ASSUME NEW w \in Writers, PrintStep(w)
      PROVE  OneAtATime' /\ FirstOfWindow' /\ WriterSteady'
  <2>1. /\ wpc[w] # "idle" /\ UNCHANGED <<rlocal, setup, raced, printed>>
        /\ \A v \in Writers \ {w} : wpc'[v] = wpc[v]
    BY <1>8
       DEF PrintStep, PrintNext, TestFull, ReloadPrinted, DropOldest,
           BeginCopy, EndCopy, Publish, PostSem, ForgetWriter, TypeOK,
           WriterType, setupvars
  <2>2. rpc = "idle" /\ \A v \in Writers \ {w} : wpc[v] = "idle"
    BY <2>1 DEF OneAtATime
  <2>3. OneAtATime'
    BY <2>1, <2>2 DEF OneAtATime, Resting
  <2>4. FirstOfWindow'
    BY <2>1, <2>2 DEF FirstOfWindow, Taking
  <2>5. WriterSteady'
    <3>1. act_printed \in Slots /\ NextSlot(act_printed) # act_printed
      BY NextSlotIsOther DEF TypeOK, RingType
    <3>2. next_write[w] \in Slots
      BY DEF TypeOK, WriterType
    <3>3. CASE TestFull(w) \/ ReloadPrinted(w)
      BY <2>1, <2>2, <3>3
         DEF TestFull, ReloadPrinted, WriterSteady, Unpublished, Copying,
             TypeOK, WriterType
    <3>4. CASE DropOldest(w)
      BY <2>1, <2>2, <3>1, <3>4
         DEF DropOldest, WriterSteady, Unpublished, Copying, TypeOK,
             WriterType
    <3>5. CASE BeginCopy(w) \/ EndCopy(w)
      BY <2>1, <2>2, <3>2, <3>5
         DEF BeginCopy, EndCopy, WriterSteady, Unpublished, Copying, TypeOK,
             WriterType, RingType
    <3>6. CASE Publish(w) \/ PostSem(w)
      BY <2>1, <2>2, <3>6
         DEF Publish, PostSem, ForgetWriter, WriterSteady, Unpublished,
             Copying, TypeOK, WriterType
    <3> QED
      BY <1>8, <3>3, <3>4, <3>5, <3>6 DEF PrintStep, PrintNext
  <2> QED
    BY <2>3, <2>4, <2>5
<1>9. CASE (ReadStep \/ \E t \in BOOLEAN : Read(t))
           /\ UNCHANGED <<setupvars, history, wlocal>>
  <2>1. /\ \A w \in Writers : wpc[w] = "idle"
        /\ \A q \in Procs : Resting(q)
    BY <1>9
       DEF OneAtATime, Read, GetMessage, AllIdle, ReadStep, ReadNext,
           SemTaken, SemTimeout, TestMessage, LoadPrinted, Advance,
           ReadFirstHalf, ReadSecondHalf, Unavailable
  <2>2. UNCHANGED printed
    BY <1>9
       DEF Read, GetMessage, ReadStep, ReadNext,
           SemTaken, SemTimeout, TestMessage, LoadPrinted, Advance,
           ReadFirstHalf, ReadSecondHalf, Unavailable
  <2>3. OneAtATime'
    BY <1>9, <2>1, <2>2 DEF OneAtATime, Resting, setupvars
  <2>4. WriterSteady'
    BY <1>9, <2>1 DEF WriterSteady, Unpublished, Copying
  <2>5. FirstOfWindow'
    BY <1>9
       DEF FirstOfWindow, Taking, Read, GetMessage, ReadStep, ReadNext,
           SemTaken, SemTimeout, TestMessage, LoadPrinted, Advance,
           ReadFirstHalf, ReadSecondHalf, Unavailable, ForgetReader
  <2> QED
    BY <2>3, <2>4, <2>5
<1>10. ASSUME NEW p \in Procs, Crash(p) PROVE FALSE
  BY <1>10 DEF Crash
<1>11. CASE UNCHANGED <<ringvars, setupvars, history>>
  <2>1. OneAtATime'
    BY <1>11 DEF OneAtATime, Resting, setupvars
  <2> QED
    BY <1>1, <1>11, <2>1
<1> QED
  BY <1>2, <1>3, <1>4, <1>6, <1>7, <1>8, <1>9, <1>10, <1>11, RingSteps

(***************************************************************************)
(* The invariant of calls that do not overlap, however often the ring is   *)
(* full.                                                                   *)
(***************************************************************************)
THEOREM SerialInvariant == SetupSpec => []SerialInv
<1>1. SetupInit => SerialInv
  BY BoundsAssumption, SetupAssumption
     DEF SetupInit, Init, SerialInv, OneAtATime, FirstOfWindow, WriterSteady,
         Resting, Down, Taking, Unpublished, Copying
<1>2. SetupInv /\ SetupInv' /\ SerialInv /\ [SetupNext]_allvars => SerialInv'
  BY SerialStep
<1> QED
  BY <1>1, <1>2, SetupInvariant, PTL DEF SetupSpec
-----------------------------------------------------------------------------
(***************************************************************************)
(* The messages in the k slots after a, of a ring m written up to b.       *)
(***************************************************************************)
At(a, k) == (a + k) % max_messages
Messages(a, b, m) ==
    [k \in 1 .. ((b + max_messages - a) % max_messages) |-> m[At(a, k)]]

LEMMA Remainder ==
    ASSUME NEW x \in 0 .. 2 * max_messages - 1
    PROVE  /\ x < max_messages => x % max_messages = x
           /\ ~(x < max_messages) => x % max_messages = x - max_messages
<1>1. max_messages \in Nat \ {0} /\ x \in Nat
  BY RingAssumption
<1>2. CASE x < max_messages
  BY <1>1, <1>2
<1>3. CASE x >= max_messages
  <2>1. x - max_messages \in 0 .. max_messages - 1
    BY <1>1, <1>3
  <2> QED
    BY <1>1, <1>3, <2>1
<1> QED
  BY <1>1, <1>2, <1>3

LEMMA AtSum ==
    ASSUME NEW a, NEW k, a + k \in 0 .. 2 * max_messages - 1
    PROVE  /\ a + k < max_messages => At(a, k) = a + k
           /\ ~(a + k < max_messages) => At(a, k) = (a + k) - max_messages
<1> DEFINE x == a + k
<1>1. /\ x < max_messages => x % max_messages = x
      /\ ~(x < max_messages) => x % max_messages = x - max_messages
  BY Remainder, Zenon
<1> QED
  BY <1>1, Zenon DEF At

LEMMA AtIs ==
    ASSUME NEW a \in Slots, NEW k \in 0 .. max_messages - 1
    PROVE  /\ At(a, k) \in Slots /\ Dist(a, At(a, k)) = k
           /\ At(a, 1) = NextSlot(a)
           /\ k + 1 <= max_messages - 1 =>
                 At(NextSlot(a), k) = At(a, k + 1)
<1>1. /\ a \in Nat /\ a < max_messages /\ k \in Nat /\ k < max_messages
      /\ max_messages \in Nat /\ max_messages >= 2
  BY RingAssumption DEF Slots
<1>2. a + k \in 0 .. 2 * max_messages - 1
  BY <1>1
<1>3. /\ a + k < max_messages => At(a, k) = a + k
      /\ ~(a + k < max_messages) => At(a, k) = (a + k) - max_messages
  BY <1>2, AtSum, Zenon
<1>4. At(a, k) \in Slots /\ Dist(a, At(a, k)) = k
  BY <1>1, <1>3 DEF Dist, Slots
<1>5. ASSUME k + 1 <= max_messages - 1
      PROVE  At(NextSlot(a), k) = At(a, k + 1)
  <2>1. a + (k + 1) \in 0 .. 2 * max_messages - 1
    BY <1>1
  <2>2. /\ a + (k + 1) < max_messages => At(a, k + 1) = a + (k + 1)
        /\ ~(a + (k + 1) < max_messages) =>
              At(a, k + 1) = (a + (k + 1)) - max_messages
    BY <2>1, AtSum, Zenon
  <2>3. NextSlot(a) = IF a + 1 = max_messages THEN 0 ELSE a + 1
    BY NextSlotIs
  <2>4. NextSlot(a) + k \in 0 .. 2 * max_messages - 1
    BY <1>1, <2>3
  <2>5. /\ NextSlot(a) + k < max_messages =>
              At(NextSlot(a), k) = NextSlot(a) + k
        /\ ~(NextSlot(a) + k < max_messages) =>
              At(NextSlot(a), k) = (NextSlot(a) + k) - max_messages
    BY <2>4, AtSum, Zenon
  <2> QED
    BY <1>1, <1>5, <2>2, <2>3, <2>5
<1> QED
  BY <1>4, <1>5 DEF At, NextSlot

LEMMA MessagesAre ==
    ASSUME NEW a \in Slots, NEW b \in Slots, NEW m \in [Slots -> Nat]
    PROVE  /\ Messages(a, b, m) \in Seq(Nat)
           /\ Len(Messages(a, b, m)) = Dist(a, b)
           /\ Dist(a, b) \in 0 .. max_messages - 1
           /\ \A k \in 1 .. Dist(a, b) :
                 /\ k \in 0 .. max_messages - 1
                 /\ At(a, k) \in Slots
                 /\ Messages(a, b, m)[k] = m[At(a, k)]
<1>1. /\ a \in Nat /\ a < max_messages /\ b \in Nat /\ b < max_messages
      /\ max_messages \in Nat /\ max_messages >= 2
  BY RingAssumption DEF Slots
<1>2. (b + max_messages - a) % max_messages = Dist(a, b)
  <2>1. b + max_messages - a \in 0 .. 2 * max_messages - 1
    BY <1>1
  <2> DEFINE x == b + max_messages - a
  <2>2. /\ x < max_messages => x % max_messages = x
        /\ ~(x < max_messages) => x % max_messages = x - max_messages
    BY <2>1, Remainder, Zenon
  <2> QED
    BY <1>1, <2>2 DEF Dist
<1>3. Dist(a, b) \in 0 .. max_messages - 1
  BY DistIs
<1>4. \A k \in 1 .. Dist(a, b) :
          k \in 0 .. max_messages - 1 /\ At(a, k) \in Slots
  <2> SUFFICES ASSUME NEW k \in 1 .. Dist(a, b)
               PROVE  k \in 0 .. max_messages - 1 /\ At(a, k) \in Slots
    OBVIOUS
  <2>1. k \in 0 .. max_messages - 1
    BY <1>1, <1>3
  <2> QED
    BY <2>1, AtIs
<1>5. Messages(a, b, m) = [k \in 1 .. Dist(a, b) |-> m[At(a, k)]]
  BY <1>2 DEF Messages
<1>6. Dist(a, b) \in Nat /\ \A k \in 1 .. Dist(a, b) : m[At(a, k)] \in Nat
  BY <1>3, <1>4
<1> HIDE DEF Dist, At
<1>7. [k \in 1 .. Dist(a, b) |-> m[At(a, k)]] \in Seq(Nat)
  BY <1>6, IsASeq
<1> QED
  BY <1>3, <1>4, <1>5, <1>6, <1>7

(* What the slots behind them hold does not matter.                        *)
LEMMA MessagesSame ==
    ASSUME NEW a \in Slots, NEW b \in Slots,
           NEW m \in [Slots -> Nat], NEW n \in [Slots -> Nat],
           \A s \in Slots : Dist(a, s) <= Dist(a, b) => n[s] = m[s]
    PROVE  Messages(a, b, n) = Messages(a, b, m)
<1>1. ASSUME NEW k \in 1 .. Dist(a, b)
      PROVE  Messages(a, b, n)[k] = Messages(a, b, m)[k]
  <2>1. /\ k \in 0 .. max_messages - 1 /\ At(a, k) \in Slots
        /\ Messages(a, b, n)[k] = n[At(a, k)]
        /\ Messages(a, b, m)[k] = m[At(a, k)]
        /\ Dist(a, b) \in 0 .. max_messages - 1
    BY MessagesAre
  <2>2. Dist(a, At(a, k)) = k
    BY <2>1, AtIs
  <2>3. Dist(a, At(a, k)) <= Dist(a, b)
    BY <2>1, <2>2
  <2> QED
    BY <2>1, <2>3
<1>2. /\ Messages(a, b, n) \in Seq(Nat) /\ Messages(a, b, m) \in Seq(Nat)
      /\ Len(Messages(a, b, n)) = Dist(a, b)
      /\ Len(Messages(a, b, m)) = Dist(a, b)
  BY MessagesAre
<1> QED
  BY <1>1, <1>2, SeqEqual

(* The slot after b is added to them,                                      *)
LEMMA MessagesAdd ==
    ASSUME NEW a \in Slots, NEW b \in Slots, NEW m \in [Slots -> Nat],
           NextSlot(b) # a
    PROVE  Messages(a, NextSlot(b), m)
               = Append(Messages(a, b, m), m[NextSlot(b)])
<1> DEFINE d == Dist(a, b)
           old == Messages(a, b, m)
           new == Messages(a, NextSlot(b), m)
<1>1. NextSlot(b) \in Slots /\ Dist(a, NextSlot(b)) = d + 1
  BY NextSlotIs, DistWritten
<1>2. /\ old \in Seq(Nat) /\ Len(old) = d /\ d \in 0 .. max_messages - 1
      /\ \A k \in 1 .. d : old[k] = m[At(a, k)]
  BY MessagesAre
<1>3. /\ new \in Seq(Nat) /\ Len(new) = d + 1
      /\ d + 1 \in 0 .. max_messages - 1
      /\ \A k \in 1 .. d + 1 : new[k] = m[At(a, k)]
  <2> DEFINE e == Dist(a, NextSlot(b))
  <2>1. /\ new \in Seq(Nat) /\ Len(new) = e /\ e \in 0 .. max_messages - 1
        /\ \A k \in 1 .. e : new[k] = m[At(a, k)]
    BY <1>1, MessagesAre
  <2>2. e = d + 1
    BY <1>1
  <2> HIDE DEF d, e, new
  <2> QED
    BY <2>1, <2>2
<1>4. At(a, d + 1) = NextSlot(b)
  <2>1. At(a, d + 1) \in Slots /\ Dist(a, At(a, d + 1)) = d + 1
    BY <1>3, AtIs
  <2> QED
    BY <1>1, <2>1, DistInjective
<1> HIDE DEF d, old, new
<1>5. m[NextSlot(b)] \in Nat /\ d \in Nat
  BY <1>1, <1>2, RingAssumption
<1>6. /\ Append(old, m[NextSlot(b)]) \in Seq(Nat)
      /\ Len(Append(old, m[NextSlot(b)])) = d + 1
      /\ \A k \in 1 .. d : Append(old, m[NextSlot(b)])[k] = old[k]
      /\ Append(old, m[NextSlot(b)])[d + 1] = m[NextSlot(b)]
  BY <1>2, <1>5, AppendProperties
<1>7. \A k \in 1 .. d + 1 : new[k] = Append(old, m[NextSlot(b)])[k]
  <2> SUFFICES ASSUME NEW k \in 1 .. d + 1
               PROVE  new[k] = Append(old, m[NextSlot(b)])[k]
    OBVIOUS
  <2>1. k \in 1 .. d \/ k = d + 1
    BY <1>5
  <2> QED
    BY <1>2, <1>3, <1>4, <1>6, <2>1
<1>8. new = Append(old, m[NextSlot(b)])
  BY <1>3, <1>6, <1>7, SeqEqual
<1> QED
  BY <1>8 DEF old, new

(* and the slot after a taken from them.                                   *)
LEMMA MessagesTake ==
    ASSUME NEW a \in Slots, NEW b \in Slots, NEW m \in [Slots -> Nat], a # b
    PROVE  /\ Messages(a, b, m) # <<>>
           /\ Head(Messages(a, b, m)) = m[NextSlot(a)]
           /\ Messages(NextSlot(a), b, m) = Tail(Messages(a, b, m))
<1> DEFINE d == Dist(a, b)
           old == Messages(a, b, m)
           new == Messages(NextSlot(a), b, m)
<1>1. NextSlot(a) \in Slots /\ Dist(NextSlot(a), b) = d - 1 /\ d # 0
  BY NextSlotIs, DistRead, DistIs
<1>2. /\ old \in Seq(Nat) /\ Len(old) = d /\ d \in 0 .. max_messages - 1
      /\ \A k \in 1 .. d : old[k] = m[At(a, k)]
  BY MessagesAre
<1>3. /\ new \in Seq(Nat) /\ Len(new) = d - 1
      /\ \A k \in 1 .. d - 1 : /\ k \in 0 .. max_messages - 1
                               /\ new[k] = m[At(NextSlot(a), k)]
  BY <1>1, MessagesAre, Zenon
<1>4. At(a, 1) = NextSlot(a)
  BY DEF At, NextSlot
<1>5. \A k \in 1 .. d - 1 : At(NextSlot(a), k) = At(a, k + 1)
  <2> SUFFICES ASSUME NEW k \in 1 .. d - 1
               PROVE  At(NextSlot(a), k) = At(a, k + 1)
    OBVIOUS
  <2>1. k \in 0 .. max_messages - 1 /\ k + 1 <= max_messages - 1
    BY <1>2, RingAssumption
  <2> QED
    BY <2>1, AtIs
<1> HIDE DEF d, old, new
<1>6. d \in Nat /\ d > 0
  BY <1>1, <1>2, RingAssumption
<1>7. old # <<>> /\ Head(old) = old[1]
  BY <1>2, <1>6
<1>8. /\ Tail(old) \in Seq(Nat) /\ Len(Tail(old)) = d - 1
      /\ \A k \in 1 .. d - 1 : Tail(old)[k] = old[k + 1]
  BY <1>2, <1>7, HeadTailProperties
<1>9. \A k \in 1 .. d - 1 : new[k] = Tail(old)[k]
  <2> SUFFICES ASSUME NEW k \in 1 .. d - 1 PROVE new[k] = Tail(old)[k]
    OBVIOUS
  <2>1. k + 1 \in 1 .. d
    BY <1>6
  <2> QED
    BY <1>2, <1>3, <1>5, <1>8, <2>1
<1>10. new = Tail(old)
  BY <1>3, <1>8, <1>9, SeqEqual
<1>11. old[1] = m[NextSlot(a)]
  BY <1>2, <1>4, <1>6
<1> QED
  BY <1>7, <1>10, <1>11 DEF old, new

LEMMA UnreadIs ==
    /\ Unread = Messages(act_printed, act_written, msgs)
    /\ Unread' = Messages(act_printed', act_written', msgs')
  BY DEF Unread, Messages, At

(***************************************************************************)
(* Every step of calls that do not overlap adds a message to the log, or   *)
(* discards or removes one, or does nothing to it.                         *)
(***************************************************************************)
Same == Unread' = Unread /\ HandedOut' = HandedOut

LEMMA PrintLogs ==
    ASSUME SetupInv, SetupInv', SerialInv, serial, UNCHANGED serial,
           NEW w \in Writers, PrintStep(w)
    PROVE  Same \/ Log!Next
<1>i. /\ TypeOK /\ TypeOK' /\ OneAtATime /\ WriterSteady
  BY DEF SetupInv, SerialInv
<1>0. /\ wpc[w] # "idle" /\ UNCHANGED <<rlocal, got>>
  BY DEF PrintStep, PrintNext, TestFull, ReloadPrinted, DropOldest,
         BeginCopy, EndCopy, Publish, PostSem
<1>1. rpc = "idle" /\ rpc' = "idle" /\ HandedOut = got /\ HandedOut' = got
  BY <1>i, <1>0 DEF OneAtATime, HandedOut, rlocal
<1>2. /\ act_printed \in Slots /\ act_written \in Slots
      /\ msgs \in [Slots -> Nat] /\ msgs' \in [Slots -> Nat]
  BY <1>i DEF TypeOK, RingType
<1>3. CASE TestFull(w) \/ ReloadPrinted(w) \/ PostSem(w)
  <2>1. UNCHANGED <<act_printed, act_written, msgs>>
    BY <1>3 DEF TestFull, ReloadPrinted, PostSem, ring
  <2> QED
    BY <1>1, <2>1, UnreadIs DEF Same
<1>4. CASE BeginCopy(w) \/ EndCopy(w)
  <2>1. /\ UNCHANGED <<act_printed, act_written>>
        /\ \A s \in Slots \ {next_write[w]} : msgs'[s] = msgs[s]
    BY <1>2, <1>4 DEF BeginCopy, EndCopy
  <2>2. next_write[w] = NextSlot(act_written)
        /\ next_write[w] # act_printed
    BY <1>i, <1>4 DEF BeginCopy, EndCopy, WriterSteady, Unpublished, Copying
  <2>3. next_write[w] \notin Window
    BY <1>i, <2>2, NextIsBehind DEF TypeOK
  <2>4. \A s \in Slots :
           Dist(act_printed, s) <= Dist(act_printed, act_written) =>
               msgs'[s] = msgs[s]
    BY <2>1, <2>3 DEF Window, Ahead, Used
  <2>5. Unread' = Unread
    BY <1>2, <2>1, <2>4, UnreadIs, MessagesSame
  <2> QED
    BY <1>1, <2>5 DEF Same
<1>5. CASE Publish(w)
  <2>1. /\ UNCHANGED <<act_printed, msgs>> /\ act_written' = next_write[w]
    BY <1>5 DEF Publish
  <2>2. /\ next_write[w] = NextSlot(act_written)
        /\ next_write[w] # act_printed
        /\ msgs[next_write[w]] = wmsg[w] /\ wmsg[w] \in 1 .. MaxSerial
    BY <1>i, <1>5 DEF Publish, WriterSteady, Unpublished, Copying
  <2>3. Unread' = Append(Unread, wmsg[w])
    BY <1>2, <2>1, <2>2, UnreadIs, MessagesAdd
  <2>4. Len(Unread) = Used /\ Used + 1 <= max_messages - 1
    BY <1>i, <1>2, <2>2, UnreadIs, MessagesAre, NextIsBehind
       DEF TypeOK, Used, Ahead
  <2>5. Used \in Nat
    BY <1>i, WindowEnds DEF TypeOK
  <2>6. Len(Unread) < max_messages - 1
    BY <2>4, <2>5, RingAssumption
  <2>7. Log!Add(wmsg[w])
    BY <1>1, <2>3, <2>6 DEF Log!Add
  <2> QED
    BY <2>2, <2>7 DEF Log!Next
<1>6. CASE DropOldest(w)
  <2>1. /\ UNCHANGED <<act_written, msgs>>
        /\ act_printed' = NextSlot(wreg[w])
    BY <1>6 DEF DropOldest
  <2>2. wreg[w] = act_printed /\ NextSlot(act_written) = act_printed
    BY <1>i, <1>6 DEF DropOldest, WriterSteady, Unpublished
  <2>3. act_printed # act_written
    BY <1>2, <2>2, NextSlotIsOther
  <2>4. Unread' = Tail(Unread)
    BY <1>2, <2>1, <2>2, <2>3, UnreadIs, MessagesTake
  <2>5. Len(Unread) = max_messages - 1
    BY <1>2, <2>2, UnreadIs, MessagesAre, DistWritten
  <2>6. Log!Discard
    BY <1>1, <2>4, <2>5 DEF Log!Discard
  <2> QED
    BY <2>6 DEF Log!Next
<1> QED
  BY <1>3, <1>4, <1>5, <1>6 DEF PrintStep, PrintNext

LEMMA ReadLogs ==
    ASSUME SetupInv, SerialInv, serial, UNCHANGED serial,
           ReadStep \/ \E t \in BOOLEAN : Read(t)
    PROVE  Same \/ Log!Next
<1>i. /\ TypeOK /\ FirstOfWindow
  BY DEF SetupInv, SerialInv
<1>1. /\ act_printed \in Slots /\ act_written \in Slots
      /\ msgs \in [Slots -> Nat]
  BY <1>i DEF TypeOK, RingType
<1>2. CASE Advance
  <2>1. /\ UNCHANGED <<act_written, msgs, got>> /\ slot = act_printed
        /\ act_printed # act_written
        /\ act_printed' = NextSlot(act_printed)
        /\ slot' = NextSlot(act_printed)
        /\ rpc = "advance" /\ rpc' = "copy"
    BY <1>i, <1>2 DEF Advance, FirstOfWindow
  <2>2. /\ Unread # <<>> /\ Unread' = Tail(Unread)
        /\ Head(Unread) = msgs[NextSlot(act_printed)]
    BY <1>1, <2>1, UnreadIs, MessagesTake
  <2>3. HandedOut = got /\ HandedOut' = Append(got, Head(Unread))
    BY <2>1, <2>2 DEF HandedOut
  <2>4. Log!Remove
    BY <2>2, <2>3 DEF Log!Remove
  <2> QED
    BY <2>4 DEF Log!Next
<1>3. CASE ~Advance
  <2>1. UNCHANGED <<act_printed, act_written, msgs>>
    BY <1>3
       DEF Read, GetMessage, ReadStep, ReadNext, SemTaken, SemTimeout,
           TestMessage, LoadPrinted, Advance, ReadFirstHalf, ReadSecondHalf,
           Unavailable, ring
  <2>2. HandedOut' = HandedOut
    BY <1>i, <1>3
       DEF Read, GetMessage, ReadStep, ReadNext, SemTaken, SemTimeout,
           TestMessage, LoadPrinted, Advance, ReadFirstHalf, ReadSecondHalf,
           Unavailable, ForgetReader, ring, HandedOut, FirstOfWindow, Taking
  <2> QED
    BY <2>1, <2>2, UnreadIs DEF Same
<1> QED
  BY <1>2, <1>3

LEMMA LogStep ==
    ASSUME SetupInv, SetupInv', SerialInv, [SetupNext]_allvars
    PROVE  [Log!Next]_(Log!vars)
<1>0. UNCHANGED serial
  BY SerialStays
<1>1. CASE ~serial
  BY <1>0, <1>1 DEF Log!vars
<1>2. CASE serial
  <2>0. TypeOK /\ ~raced
    BY <1>2 DEF SetupInv, SerialInv, OneAtATime
  <2> USE SetupAssumption DEF ringvars, ring, wlocal, rlocal, history
  <2>1. Same => UNCHANGED Log!vars
    BY <1>0, <1>2 DEF Same, Log!vars
  <2>2. ASSUME UNCHANGED <<act_printed, act_written, msgs, rpc, slot, got>>
        PROVE  Same
    BY <2>2, UnreadIs DEF Same, HandedOut
  <2>3. ASSUME NEW p \in Procs,
               \/ Start(p) \/ OpenReturned(p) \/ Map(p) \/ TestMagic(p)
               \/ Greeted(p)
        PROVE  Same
    <3>1. UNCHANGED ringvars
      BY <2>3 DEF Start, OpenReturned, Map, TestMagic, Greeted
    <3> QED
      BY <2>2, <3>1
  <2>4. ASSUME NEW p \in Procs, InitField(p) PROVE Same
    BY <2>0, <2>2, <2>4, InitIsAlone DEF SetupInv
  <2>5. ASSUME NEW w \in Writers, BeginPrint(w) PROVE Same
    BY <2>2, <2>5 DEF BeginPrint, LoadNextWrite
  <2>6. ASSUME NEW w \in Writers, PrintStep(w) PROVE Same \/ Log!Next
    BY <1>0, <1>2, <2>6, PrintLogs
  <2>7. CASE ReadStep \/ \E t \in BOOLEAN : Read(t)
    BY <1>0, <1>2, <2>1, <2>7, ReadLogs
  <2>8. ASSUME NEW p \in Procs, Crash(p) PROVE FALSE
    BY <1>2, <2>8 DEF Crash
  <2>9. CASE UNCHANGED <<ringvars, setupvars, history>>
    BY <2>1, <2>2, <2>9
  <2> QED
    BY <2>0, <2>1, <2>3, <2>4, <2>5, <2>6, <2>7, <2>8, <2>9, RingSteps
       DEF Greet, PrintMessage
<1> QED
  BY <1>1, <1>2

(***************************************************************************)
(* When calls do not overlap the ring implements the log of BoundedLog:    *)
(* osal_printf adds a message and gives up the oldest one only when the    *)
(* ring is full, and osal_io_shm_get_message hands out what is left, once  *)
(* and in order.                                                           *)
(***************************************************************************)
THEOREM RingIsLog == SetupSpec => ImplementsLog
<1>1. SetupInit => Log!Init
  <2> SUFFICES ASSUME SetupInit PROVE Log!Init
    OBVIOUS
  <2>1. /\ act_printed = 0 /\ act_written = 0 /\ rpc = "idle"
        /\ got = <<>> /\ msgs \in [Slots -> Nat]
    BY DEF SetupInit, Init, Torn
  <2>2. Unread \in Seq(Nat) /\ Len(Unread) = 0
    BY <2>1, ZeroSlot, UnreadIs, MessagesAre, DistIs
  <2>3. Unread = <<>> /\ HandedOut = <<>>
    BY <2>1, <2>2, EmptySeq DEF HandedOut
  <2> QED
    BY <2>3 DEF Log!Init
<1>2. SetupInv /\ SetupInv' /\ SerialInv /\ [SetupNext]_allvars
          => [Log!Next]_(Log!vars)
  BY LogStep
<1> QED
  BY <1>1, <1>2, SetupInvariant, SerialInvariant, PTL
     DEF SetupSpec, ImplementsLog, Log!Spec
=============================================================================
