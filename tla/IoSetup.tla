------------------------------- MODULE IoSetup -------------------------------
(***************************************************************************)
(* osal_io_shm_setup (io.c) composed with the shared memory it opens (Shm) *)
(* and the message ring it sets up (IoShm): processes that print and one   *)
(* that reads (tools/logger), each of which calls osal_io_shm_setup once   *)
(* after it was started, and any of which may die at any step and be       *)
(* started again.                                                          *)
(*                                                                         *)
(* A process has one thread; while osal_io_shm_buffer is NULL it prints to *)
(* its console.                                                            *)
(*                                                                         *)
(* setup[p].pc is down, not started or not yet set up; open, inside        *)
(* osal_shm_open; map, magic and init, the statements after it; greet,     *)
(* printing that the magic was found; done; failed, set up without memory  *)
(* or killed by touching it.                                               *)
(***************************************************************************)
EXTENDS IoShm, Shm

CONSTANTS
    Logger,         (* the process that reads                              *)
    GreetingLines,  (* what a process prints when it finds the magic       *)
    MaxCrashes      (* bound: processes that die                           *)

ASSUME SetupAssumption ==
    /\ Logger \in Writers /\ Procs = Writers
    /\ GreetingLines \in Nat \ {0} /\ MaxCrashes \in Nat

VARIABLES
    header,     (* fields of osal_io_shm_t that have been stored; the      *)
                (* memory is zero before, and so is the magic              *)
    setup,      (* per process: the statement, CREAT was tried, the fields *)
                (* stored or the lines printed so far                      *)
    crashes,    (* history: processes that died                            *)
    raced,      (* history: two processes were setting up at a time        *)
    mixed       (* history: two processes were printing at a time          *)

setupvars == <<header, setup>>
history == <<crashes, raced, mixed>>
ringvars == <<ring, wlocal, rlocal, printed, gets, got, dropped>>
allvars == <<ringvars, serial, shmvars, setupvars, history>>

Down == [pc |-> "down", creat |-> FALSE, done |-> 0]

Resting(p) == setup[p].pc \in {"down", "done", "failed"}
SettingUp(p) == setup[p].pc \in {"open", "map", "magic", "init"}
-----------------------------------------------------------------------------
SetupInit ==
    /\ Init /\ ShmInit
    /\ header = {}
    /\ setup = [p \in Procs |-> Down]
    /\ crashes = 0 /\ raced = FALSE /\ mixed = FALSE

SetupGoto(p, l) == setup' = [setup EXCEPT ![p].pc = l]

(* osal_io_shm_setup is called.                                            *)
Start(p) ==
    /\ setup[p].pc = "down"
    /\ serial => AllIdle /\ \A q \in Procs : Resting(q)
    /\ raced' = (raced \/ \E q \in Procs : SettingUp(q))
    /\ SetupGoto(p, "open")
    /\ UNCHANGED <<ringvars, shmvars, header, crashes, mixed>>

(* The steps of osal_shm_open.                                             *)
Open(p) ==
    /\ setup[p].pc = "open"
    /\ LET creat == setup[p].creat
       IN  \/ ShmOpen(p, creat) \/ ShmOpenFails(p, creat)
           \/ ShmOpenZero(p, creat)
           \/ ShmStat(p) \/ ShmTruncate(p)
    /\ UNCHANGED <<ringvars, setupvars, history>>

(* What does not exist is created, by a second call; after that an error   *)
(* ends the set-up - with the result OSAL_OK.                              *)
OpenReturned(p) ==
    /\ setup[p].pc = "open" /\ shm[p].pc = "ret"
    /\ shm' = [shm EXCEPT ![p].pc = "idle"]
    /\ setup' = [setup EXCEPT ![p] =
                    IF shm[p].ret = "OK" THEN [@ EXCEPT !.pc = "map"]
                    ELSE IF @.creat THEN [@ EXCEPT !.pc = "failed"]
                    ELSE [@ EXCEPT !.creat = TRUE]]
    /\ UNCHANGED <<ringvars, object, header, history>>

(* osal_io_shm_buffer is set when the memory is mapped.                    *)
Map(p) ==
    /\ setup[p].pc = "map"
    /\ \E r \in {"OK", "OUT_OF_MEMORY", "INVALID_PARAM"} :
          /\ ShmMap(p, r)
          /\ SetupGoto(p, IF r = "OK" THEN "magic" ELSE "failed")
    /\ UNCHANGED <<ringvars, header, history>>

(* Mutant: a process that creates the memory does not look for the magic.  *)
TestMagicIfOpened(p) ==
    /\ setup[p].pc = "magic"
    /\ SetupGoto(p, IF object # "sized" THEN "failed"
                    ELSE IF "magic" \in header /\ ~setup[p].creat
                    THEN "greet" ELSE "init")
    /\ UNCHANGED <<ringvars, shmvars, header, history>>

(* Touching the memory kills the process if the object has no size: its    *)
(* ftruncate failed, and the second osal_shm_open went unnoticed.          *)
TestMagic(p) ==
    /\ setup[p].pc = "magic"
    /\ SetupGoto(p, IF object # "sized" THEN "failed"
                    ELSE IF "magic" \in header THEN "greet" ELSE "init")
    /\ UNCHANGED <<ringvars, shmvars, header, history>>

(* Mutant: the magic is the first field stored.                            *)
InitOrderMagicFirst ==
    <<"magic", "max_messages", "max_message_size", "act_printed",
      "act_written", "mtx", "sem">>

(* The fields in the order they are stored; new_msg, which nobody reads,   *)
(* follows the magic.                                                      *)
InitOrder ==
    <<"max_messages", "max_message_size", "act_printed", "act_written",
      "mtx", "sem", "magic">>

(* One field is initialised, whatever it holds.                            *)
InitField(p) ==
    LET k == setup[p].done + 1
        Reset(f, v) == IF InitOrder[k] = f THEN 0 ELSE v
    IN  /\ setup[p].pc = "init"
        /\ header' = header \cup {InitOrder[k]}
        /\ act_printed' = Reset("act_printed", act_printed)
        /\ act_written' = Reset("act_written", act_written)
        /\ sem' = Reset("sem", sem)
        /\ setup' = [setup EXCEPT ![p] =
                        IF k < Len(InitOrder) THEN [@ EXCEPT !.done = k]
                        ELSE [Down EXCEPT !.pc = "done"]]
        /\ UNCHANGED <<msgs, wlocal, rlocal, printed, gets, got, dropped,
                       shmvars, history>>

(* osal_printf is entered, by the program or by osal_io_shm_setup itself.  *)
BeginPrint(w) ==
    /\ LoadNextWrite(w)
    /\ mixed' = (mixed \/ \E v \in Writers : wpc[v] # "idle")
    /\ UNCHANGED <<shmvars, header, crashes, raced>>

Greet(p) ==
    /\ setup[p].pc = "greet" /\ setup[p].done < GreetingLines
    /\ BeginPrint(p)
    /\ setup' = [setup EXCEPT ![p].done = @ + 1]

Greeted(p) ==
    /\ setup[p].pc = "greet" /\ setup[p].done = GreetingLines
    /\ wpc[p] = "idle"
    /\ setup' = [setup EXCEPT ![p] = [Down EXCEPT !.pc = "done"]]
    /\ UNCHANGED <<ringvars, shmvars, header, history>>
-----------------------------------------------------------------------------
(* A process that is set up prints, or reads.                              *)
PrintMessage(w) ==
    /\ w # Logger /\ setup[w].pc = "done"
    /\ serial => \A q \in Procs : Resting(q)
    /\ BeginPrint(w)
    /\ UNCHANGED setup

Read(t) ==
    /\ setup[Logger].pc = "done"
    /\ serial => \A q \in Procs : Resting(q)
    /\ GetMessage(t)
    /\ UNCHANGED <<shmvars, setupvars, history>>

PrintStep(w) ==
    /\ PrintNext(w)
    /\ UNCHANGED <<shmvars, setupvars, history>>

ReadStep ==
    /\ ReadNext
    /\ UNCHANGED <<shmvars, setupvars, history>>

(* A process dies between two of its steps; it may be started again.       *)
Crash(p) ==
    /\ crashes < MaxCrashes /\ ~serial
    /\ setup[p].pc \notin {"down", "failed"}
    /\ crashes' = crashes + 1
    /\ setup' = [setup EXCEPT ![p] = Down]
    /\ ShmCrash(p)
    /\ ForgetWriter(p)
    /\ \/ p = Logger /\ ForgetReader
       \/ p # Logger /\ UNCHANGED rlocal
    /\ UNCHANGED <<ring, printed, gets, got, dropped, header, raced, mixed>>

SetupStep(p) ==
    \/ Start(p) \/ Open(p) \/ OpenReturned(p) \/ Map(p) \/ TestMagic(p)
    \/ InitField(p) \/ Greet(p) \/ Greeted(p)

SetupNext ==
    /\ \/ \E p \in Procs : SetupStep(p) \/ PrintMessage(p) \/ PrintStep(p)
                           \/ Crash(p)
       \/ ReadStep \/ \E t \in BOOLEAN : Read(t)
    /\ UNCHANGED serial

SetupSpec == SetupInit /\ [][SetupNext]_allvars
-----------------------------------------------------------------------------
(***************************************************************************)
(* A process that has come through osal_io_shm_setup with the memory       *)
(* mapped finds every field initialised - max_messages above all, by which *)
(* osal_printf divides - although processes set up at the same time and    *)
(* die half way: the magic is stored after the fields it vouches for.      *)
(***************************************************************************)
AttachedIsInitialised ==
    \A p \in Procs :
        setup[p].pc \in {"greet", "done"} =>
            {InitOrder[k] : k \in DOMAIN InitOrder} \subseteq header

(***************************************************************************)
(* Printing and reading need no lock as long as the ring does not          *)
(* overflow, one process prints at a time and one process sets up at a     *)
(* time: the reader gets messages complete, in order and at most once,     *)
(* whoever dies and starts again (a set-up that begins later never wipes   *)
(* the ring); and if nobody dies it misses none.                           *)
(***************************************************************************)
InOrderUnlessFull ==
    ~dropped /\ ~mixed /\ ~raced =>
        \A k \in 1 .. Len(got) :
            /\ got[k] # Torn
            /\ k > 1 => got[k] > got[k - 1]
            /\ crashes = 0 => got[k] = k

(***************************************************************************)
(* A reader blocked in the semaphore is never left there with a message in *)
(* the ring: the semaphore is up, or a writer is on its way to post it,    *)
(* even when the ring overflows, several processes print at a time and     *)
(* more than one of them moves act_printed.  Unless a process has died, or *)
(* two have initialised the ring.                                          *)
(***************************************************************************)
ReaderNotStranded ==
    rpc = "wait" /\ act_printed # act_written =>
        \/ sem > 0 \/ \E w \in Writers : wpc[w] # "idle"
        \/ crashes > 0 \/ raced

=============================================================================
