----------------------------- MODULE ObjectFiles -----------------------------
(***************************************************************************)
(* The files of the object database: flush, wipe and open, and the version *)
(* check of database::open, for a process that can be killed between any   *)
(* two operations on the file system.                                      *)
(*                                                                         *)
(* A state of the objects is a number; an index of a state is that number. *)
(* The indexes are saved and deleted in any order: the saves are parallel  *)
(* tasks and remove_all is free in its order.                              *)
(***************************************************************************)
EXTENDS Naturals

CONSTANTS
    Indexes,        \* the indexes of the object database
    PropertyIndex,  \* the one of the global properties, which open() looks for
    MaxState,       \* bound: how many states the objects go through
    MaxKills,       \* bound: how often the process ends
    Missing,        \* no directory, or no file
    Torn            \* a file that is being written

Names == {"current", "tmp", "old"}
Genesis == 0
States == 0..MaxState
Contents == States \union {Missing, Torn}
Directories == [lock : BOOLEAN, files : [Indexes -> Contents]]

(* What is asked of the constants: the marks are no states and no          *)
(* directory.                                                              *)
FilesConstants ==
    /\ PropertyIndex \in Indexes
    /\ MaxState \in Nat /\ MaxKills \in Nat
    /\ Missing \notin States /\ Torn \notin States /\ Missing # Torn
    /\ \A d \in Directories : d # Missing

ASSUME FilesAssumption == FilesConstants

VARIABLES
    memory,         \* the state of each index in memory
    dirs,           \* object_database, object_database.tmp, object_database.old
    db_version,     \* the file db_version: current, other, or Missing
    step,             \* the next step of the process
    tasks,          \* the indexes still to be saved
    partial,        \* a wipe asked for by the user was killed
    kills           \* how often the process ended

filesVars == <<memory, dirs, db_version, step, tasks, partial, kills>>

Whole(s) == [i \in Indexes |-> s]
NoFiles == Whole(Missing)

Exists(n) == dirs[n] # Missing
HasFiles(n) == Exists(n) /\ (dirs[n].lock \/ dirs[n].files # NoFiles)

FilesInit ==
    /\ memory = Whole(Genesis)
    /\ dirs = [n \in Names |-> Missing]
    /\ db_version = Missing
    /\ step = "down" /\ tasks = {} /\ partial = FALSE /\ kills = 0

(* A state that is whole changes into a later one. *)
ObjectsChange ==
    /\ step = "up"
    /\ \E s \in States : memory = Whole(s) /\ s < MaxState /\ memory' = Whole(s + 1)
    /\ UNCHANGED <<dirs, db_version, step, tasks, partial, kills>>

-----------------------------------------------------------------------------
(* flush(): files left in object_database.tmp by an earlier one stay until *)
(* they are written over.                                                  *)
StartFlush ==
    /\ step = "up" /\ step' = "saving"
    /\ tasks' = Indexes
    /\ dirs' = [dirs EXCEPT !["tmp"] =
           [lock |-> TRUE, files |-> IF Exists("tmp") THEN @.files ELSE NoFiles]]
    /\ UNCHANGED <<memory, db_version, partial, kills>>

(* An index is truncated, and then written. *)
SaveIndex(i) ==
    /\ step = "saving" /\ i \in tasks
    /\ \/ /\ dirs["tmp"].files[i] # Torn
          /\ dirs' = [dirs EXCEPT !["tmp"].files[i] = Torn]
          /\ UNCHANGED tasks
       \/ /\ dirs["tmp"].files[i] = Torn
          /\ dirs' = [dirs EXCEPT !["tmp"].files[i] = memory[i]]
          /\ tasks' = tasks \ {i}
    /\ UNCHANGED <<memory, db_version, step, partial, kills>>

RemoveLockEarly ==    \* mutant: the tasks are not waited for
    /\ step = "saving" /\ step' = "rename_current"
    /\ dirs' = [dirs EXCEPT !["tmp"].lock = FALSE]
    /\ UNCHANGED <<memory, db_version, tasks, partial, kills>>

RemoveLock ==
    /\ step = "saving" /\ tasks = {} /\ step' = "rename_current"
    /\ dirs' = [dirs EXCEPT !["tmp"].lock = FALSE]
    /\ UNCHANGED <<memory, db_version, tasks, partial, kills>>

(* A directory that has files is not replaced by a rename: it throws. *)
CanRename(to) == ~HasFiles(to)
Renamed(from, to) == [dirs EXCEPT ![to] = dirs[from], ![from] = Missing]

RenameCurrent ==
    /\ step = "rename_current"
    /\ Exists("current") => CanRename("old")
    /\ step' = "rename_tmp"
    /\ dirs' = IF Exists("current") THEN Renamed("current", "old") ELSE dirs
    /\ UNCHANGED <<memory, db_version, tasks, partial, kills>>

FlushSwallows ==    \* mutant: the failed rename is ignored
    /\ step = "rename_current" /\ Exists("current") /\ ~CanRename("old")
    /\ step' = "remove_old"
    /\ UNCHANGED <<memory, dirs, db_version, tasks, partial, kills>>

(* The exception leaves close() or open() and ends the process. *)
FlushThrows ==
    /\ step = "rename_current" /\ Exists("current") /\ ~CanRename("old")
    /\ step' = "down" /\ memory' = Whole(Genesis)
    /\ UNCHANGED <<dirs, db_version, tasks, partial, kills>>

RenameTmp ==
    /\ step = "rename_tmp" /\ step' = "remove_old"
    /\ dirs' = Renamed("tmp", "current")
    /\ UNCHANGED <<memory, db_version, tasks, partial, kills>>

(* remove_all: one file after the other, then the directory. *)
RemoveFile(n, i) ==
    /\ Exists(n) /\ dirs[n].files[i] # Missing
    /\ dirs' = [dirs EXCEPT ![n].files[i] = Missing]

RemoveOldFile(i) ==
    /\ step = "remove_old" /\ RemoveFile("old", i)
    /\ UNCHANGED <<memory, db_version, step, tasks, partial, kills>>

RemoveOld ==
    /\ step = "remove_old" /\ ~HasFiles("old") /\ step' = "up"
    /\ dirs' = [dirs EXCEPT !["old"] = Missing]
    /\ UNCHANGED <<memory, db_version, tasks, partial, kills>>

-----------------------------------------------------------------------------
(* The process ends, in the middle of anything or after a flush. *)
ProcessEnds ==
    /\ step # "down" /\ kills < MaxKills
    /\ step' = "down" /\ kills' = kills + 1
    /\ memory' = Whole(Genesis)
    /\ partial' = (partial \/ step = "wiping")
    /\ UNCHANGED <<dirs, db_version, tasks>>

(* --replay-blockchain: wipe() before open(). *)
StartWipe ==
    /\ step = "down" /\ step' = "wiping"
    /\ UNCHANGED <<memory, dirs, db_version, tasks, partial, kills>>

(* Another version of the program is installed. *)
Upgrade ==
    /\ step = "down" /\ db_version = "current" /\ db_version' = "other"
    /\ UNCHANGED <<memory, dirs, step, tasks, partial, kills>>

(* open() begins with the version; without the right one it wipes. *)
CheckVersion ==
    /\ step = "down"
    /\ step' = IF db_version = "current" THEN "loading" ELSE "versioning"
    /\ UNCHANGED <<memory, dirs, db_version, tasks, partial, kills>>

RemoveCurrentFile(i) ==
    /\ step \in {"wiping", "versioning"} /\ RemoveFile("current", i)
    /\ UNCHANGED <<memory, db_version, step, tasks, partial, kills>>

(* The directory itself goes, and the version is written. *)
Wiped ==
    /\ step \in {"wiping", "versioning"} /\ ~HasFiles("current")
    /\ dirs' = [dirs EXCEPT !["current"] = Missing]
    /\ partial' = FALSE
    /\ IF step = "versioning"
       THEN db_version' = "current" /\ step' = "loading"
       ELSE db_version' = db_version /\ step' =
            IF db_version = "current" THEN "loading" ELSE "versioning"
    /\ UNCHANGED <<memory, tasks, kills>>

(* object_database::open ignores a locked directory and loads the files    *)
(* that exist.  Without global properties the genesis state is built, on   *)
(* top of what was loaded.                                                 *)
Loaded ==
    LET files == IF Exists("current") /\ ~dirs["current"].lock
                 THEN dirs["current"].files ELSE NoFiles
    IN IF files[PropertyIndex] # Missing THEN files
       ELSE [i \in Indexes |-> IF files[i] = Missing THEN Genesis ELSE Torn]

Load ==
    /\ step = "loading" /\ step' = "up"
    /\ memory' = Loaded
    /\ UNCHANGED <<dirs, db_version, tasks, partial, kills>>

FilesNext ==
    \/ ObjectsChange \/ StartFlush \/ RemoveLock \/ RenameCurrent \/ FlushThrows
    \/ RenameTmp \/ RemoveOld
    \/ \E i \in Indexes : SaveIndex(i) \/ RemoveOldFile(i) \/ RemoveCurrentFile(i)
    \/ ProcessEnds \/ StartWipe \/ Upgrade \/ CheckVersion \/ Wiped \/ Load

FilesSpec == FilesInit /\ [][FilesNext]_filesVars

-----------------------------------------------------------------------------
Steps == {"down", "up", "saving", "rename_current", "rename_tmp", "remove_old",
          "wiping", "versioning", "loading"}

(* The files and the process. *)
FilesTypeOK ==
    /\ memory \in [Indexes -> Contents]
    /\ dirs \in [Names -> Directories \union {Missing}]
    /\ db_version \in {"current", "other", Missing}
    /\ step \in Steps /\ tasks \subseteq Indexes
    /\ partial \in BOOLEAN /\ kills \in 0..MaxKills

(* A running node has one state of all its indexes, however the processes  *)
(* before it ended: open() never mixes the indexes of two flushes, nor a   *)
(* flush and a torn file.  And what open() would find is a whole state at  *)
(* any time, also in the middle of a flush.  The exception is a wipe asked *)
(* for and then killed: its deletion is neither marked by a lock nor       *)
(* repeated by open().                                                     *)
FilesWhole ==
    ~partial =>
        /\ step = "up" => \E s \in States : memory = Whole(s)
        /\ (Exists("current") /\ step # "wiping" /\ db_version = "current")
              => \E s \in States : dirs["current"] = [lock |-> FALSE, files |-> Whole(s)]

State(f) == IF \E s \in States : f = Whole(s) THEN f[PropertyIndex] ELSE Torn

(* What the process and the files amount to. *)
InMemory == IF partial THEN Genesis ELSE State(memory)

OnDisk ==
    IF partial \/ step = "wiping" \/ db_version # "current" \/ ~Exists("current")
    THEN Genesis ELSE State(dirs["current"].files)

Status ==
    IF partial THEN "undefined"
    ELSE CASE step \in {"down", "wiping", "versioning", "loading"} -> "down"
           [] step \in {"saving", "rename_current", "rename_tmp"} -> "saving"
           [] step = "remove_old" -> "saved"
           [] step = "up" -> "up"

ObjectStore == INSTANCE AtomicStore WITH
    memory <- InMemory, saved <- OnDisk, status <- Status

(* The files behave like one state on disk that is replaced as a whole:    *)
(* flush, its renames and its failures, kills, wipes and changes of the    *)
(* version implement AtomicStore.                                          *)
ImplementsStore == ObjectStore!StoreSpec
==============================================================================
