--------------------------------- MODULE Shm ---------------------------------
(***************************************************************************)
(* The POSIX port of shared memory (posix/shm.c): processes that open and  *)
(* map one named object.  osal_shm_open is three system calls - shm_open,  *)
(* fstat and, for an object without a size, ftruncate - between which      *)
(* other processes make theirs.  All processes ask for the same size.      *)
(*                                                                         *)
(* shm[p].pc is idle; stat and trunc, inside osal_shm_open; ret, about to  *)
(* return from it.                                                         *)
(***************************************************************************)
CONSTANT Procs      (* the processes                                       *)

VARIABLES
    object,     (* the named object: absent, empty (no size yet) or sized  *)
    shm         (* per process: osal_shm_t, and the state of the call      *)

shmvars == <<object, shm>>

(* A zeroed osal_shm_t (a static variable): size is FALSE for 0.           *)
NewShm == [pc |-> "idle", ret |-> "OK", size |-> FALSE]

ShmInit == object = "absent" /\ shm = [p \in Procs |-> NewShm]

ShmReturn(p, r) == shm' = [shm EXCEPT ![p].pc = "ret", ![p].ret = r]
-----------------------------------------------------------------------------
(* The object that shm_open finds or creates.                              *)
Found(creat) ==
    /\ object # "absent" \/ creat
    /\ object' = IF object = "absent" THEN "empty" ELSE object

(* osal_shm_open, with or without OSAL_SHM_ATTR__FLAG__CREAT: shm_open     *)
(* returns a descriptor,                                                   *)
ShmOpen(p, creat) ==
    /\ shm[p].pc = "idle"
    /\ Found(creat)
    /\ shm' = [shm EXCEPT ![p].pc = "stat"]

(* or fails: errno is translated to an error code, except that the result  *)
(* stays OSAL_OK for one the switch does not name (ENFILE).                *)
ShmOpenFails(p, creat) ==
    /\ shm[p].pc = "idle"
    /\ \/ object = "absent" /\ ~creat /\ ShmReturn(p, "NOT_FOUND")
       \/ \E r \in {"PERMISSION_DENIED", "SYSTEM_LIMIT_REACHED", "OK"} :
             ShmReturn(p, r)
    /\ UNCHANGED object

(* The test "> 0" takes the valid descriptor 0 for a failure, with the     *)
(* errno an earlier call has left, if any.                                 *)
ShmOpenZero(p, creat) ==
    /\ shm[p].pc = "idle"
    /\ Found(creat)
    /\ \E r \in {"OK", "NOT_FOUND"} : ShmReturn(p, r)

(* An object that has a size keeps it,                                     *)
ShmStat(p) ==
    /\ shm[p].pc = "stat"
    /\ shm' = [shm EXCEPT
                  ![p] = IF object = "sized"
                         THEN [pc |-> "ret", ret |-> "OK", size |-> TRUE]
                         ELSE [@ EXCEPT !.pc = "trunc"]]
    /\ UNCHANGED object

(* an empty one gets the size asked for.                                   *)
ShmTruncate(p) ==
    /\ shm[p].pc = "trunc"
    /\ \E done \in BOOLEAN :
          /\ object' = IF done THEN "sized" ELSE object
          /\ shm' = [shm EXCEPT ![p] =
                        [pc   |-> "ret", size |-> TRUE,
                         ret  |-> IF done THEN "OK" ELSE "OPERATION_FAILED"]]

(* osal_shm_map: mmap refuses a size of 0, and may fail for other reasons. *)
ShmMap(p, r) ==
    /\ r \in IF shm[p].size THEN {"OK", "OUT_OF_MEMORY"} ELSE {"INVALID_PARAM"}
    /\ UNCHANGED shmvars

(* The process dies; the object stays.                                     *)
ShmCrash(p) ==
    /\ shm' = [shm EXCEPT ![p] = NewShm]
    /\ UNCHANGED object

=============================================================================
