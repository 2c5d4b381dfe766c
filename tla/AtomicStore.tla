----------------------------- MODULE AtomicStore -----------------------------
(***************************************************************************)
(* What the files of the object database promise: the node has a state in  *)
(* memory and one on disk, and saving replaces the one on disk as a whole. *)
(* Stopped in the middle of a save, the disk has the old state, the new    *)
(* one, or none, and then the node starts from genesis and replays.        *)
(***************************************************************************)
CONSTANTS
    States,         \* the states of the objects
    Genesis         \* the state a node without files starts with

VARIABLES
    memory,         \* the state in memory, Genesis while down
    saved,          \* the state on disk, Genesis if there is none
    status          \* down, up, saving, saved, or undefined

svars == <<memory, saved, status>>

StoreInit == memory = Genesis /\ saved = Genesis /\ status = "down"

Start ==
    /\ status = "down" /\ status' = "up"
    /\ memory' = saved /\ UNCHANGED saved

Work == status = "up" /\ memory' \in States /\ UNCHANGED <<saved, status>>

BeginSave == status = "up" /\ status' = "saving" /\ UNCHANGED <<memory, saved>>

(* The old state goes before the new one is there. *)
Replace == status = "saving" /\ saved' = Genesis /\ UNCHANGED <<memory, status>>

Save ==
    /\ status = "saving" /\ status' = "saved"
    /\ saved' = memory /\ UNCHANGED memory

EndSave == status = "saved" /\ status' = "up" /\ UNCHANGED <<memory, saved>>

(* The process ends: closed, killed, or by an exception. *)
Stop ==
    /\ status \in {"up", "saving", "saved"} /\ status' = "down"
    /\ memory' = Genesis /\ UNCHANGED saved

(* The state on disk is deleted on purpose. *)
Delete == status = "down" /\ saved' = Genesis /\ UNCHANGED <<memory, status>>

(* A deletion that is interrupted leaves nothing to rely on until the next *)
(* one is completed.                                                       *)
Interrupt ==
    /\ status = "down" /\ status' = "undefined"
    /\ saved' = Genesis /\ UNCHANGED memory
Recover == status = "undefined" /\ status' = "down" /\ UNCHANGED <<memory, saved>>

StoreNext ==
    \/ Start \/ Work \/ BeginSave \/ Replace \/ Save \/ EndSave \/ Stop
    \/ Delete \/ Interrupt \/ Recover

StoreSpec == StoreInit /\ [][StoreNext]_svars
==============================================================================
