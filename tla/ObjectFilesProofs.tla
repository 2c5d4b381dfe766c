-------------------------- MODULE ObjectFilesProofs --------------------------
(***************************************************************************)
(* Proofs about ObjectFiles: the files of the object database are whole    *)
(* whenever open() would use them, and they implement AtomicStore, however *)
(* many indexes there are and however often the process is killed.         *)
(***************************************************************************)
EXTENDS ObjectFiles, TLAPS

Working == {"up", "saving", "rename_current", "rename_tmp", "remove_old"}
Resting == {"down", "wiping", "versioning", "loading"}

MemoryWhole == \E s \in States : memory = Whole(s)
CurrentWhole ==
    \E s \in States : dirs["current"] = [lock |-> FALSE, files |-> Whole(s)]

(* What holds between the operations on the file system: a process that is *)
(* not up has loaded nothing, the files that were saved are those of the   *)
(* memory, and the version is only right once the directory is.            *)
StepOK ==
    /\ step \in Resting => memory = Whole(Genesis)
    /\ step \in Working \union {"loading"} => db_version = "current"
    /\ step = "versioning" => db_version # "current"
    /\ step = "saving" => /\ Exists("tmp")
                        /\ \A i \in Indexes \ tasks : dirs["tmp"].files[i] = memory[i]
    /\ step \in {"rename_current", "rename_tmp"} =>
           dirs["tmp"] = [lock |-> FALSE, files |-> memory]

WholeOK ==
    ~partial => /\ step \in Working => MemoryWhole
                /\ (Exists("current") /\ step # "wiping" /\ db_version = "current")
                       => CurrentWhole

FilesInv == FilesTypeOK /\ StepOK /\ WholeOK

-----------------------------------------------------------------------------
(* Directories and states. *)

LEMMA WholeType ==
    ASSUME FilesConstants
    PROVE  /\ Genesis \in States
           /\ \A s \in States : Whole(s) \in [Indexes -> Contents]
           /\ NoFiles \in [Indexes -> Contents]
           /\ Missing \in Contents /\ Torn \in Contents
  BY DEF FilesConstants, Genesis, States, Whole, NoFiles, Contents

LEMMA DirectoryType ==
    ASSUME FilesConstants, FilesTypeOK
    PROVE  /\ DOMAIN dirs = Names
           /\ \A n \in Names : /\ dirs[n] \in Directories \union {Missing}
                               /\ Exists(n) => dirs[n] \in Directories
  BY DEF FilesTypeOK, Exists

(* Writing or deleting a file of a directory leaves a directory, and the   *)
(* other files.                                                            *)
LEMMA FileChange ==
    ASSUME FilesConstants, FilesTypeOK, NEW n \in Names, Exists(n),
           NEW i \in Indexes, NEW c \in Contents,
           dirs' = [dirs EXCEPT ![n].files[i] = c]
    PROVE  /\ dirs' \in [Names -> Directories \union {Missing}]
           /\ dirs'[n] \in Directories /\ dirs'[n].lock = dirs[n].lock
           /\ \A m \in Names \ {n} : dirs'[m] = dirs[m]
           /\ dirs'[n] # Missing
  <1>1. dirs[n] \in Directories /\ dirs \in [Names -> Directories \union {Missing}]
    BY DEF Exists, FilesTypeOK
  <1>2. dirs' = [dirs EXCEPT ![n] = [dirs[n] EXCEPT !.files = [dirs[n].files EXCEPT ![i] = c]]]
    OBVIOUS
  <1> DEFINE d == [dirs[n] EXCEPT !.files = [dirs[n].files EXCEPT ![i] = c]]
  <1>3. /\ d \in Directories /\ d.lock = dirs[n].lock
        /\ d.files = [dirs[n].files EXCEPT ![i] = c]
    BY <1>1 DEF Directories
  <1>4. d # Missing
    BY <1>3 DEF FilesConstants
  <1> HIDE DEF d
  <1>5. dirs'[n] = d /\ \A m \in Names \ {n} : dirs'[m] = dirs[m]
    BY <1>1, <1>2 DEF d
  <1>6. dirs' \in [Names -> Directories \union {Missing}]
    BY <1>1, <1>2, <1>3 DEF d
  <1> QED BY <1>3, <1>4, <1>5, <1>6

(* Replacing a directory. *)
LEMMA DirectoryChange ==
    ASSUME FilesTypeOK, NEW n \in Names, NEW d \in Directories \union {Missing},
           dirs' = [dirs EXCEPT ![n] = d]
    PROVE  /\ dirs' \in [Names -> Directories \union {Missing}]
           /\ dirs'[n] = d
           /\ \A m \in Names \ {n} : dirs'[m] = dirs[m]
  BY DEF FilesTypeOK

LEMMA RenameChange ==
    ASSUME FilesTypeOK, NEW from \in Names, NEW to \in Names, from # to,
           dirs' = Renamed(from, to)
    PROVE  /\ dirs' \in [Names -> Directories \union {Missing}]
           /\ dirs'[to] = dirs[from] /\ dirs'[from] = Missing
           /\ \A m \in Names \ {from, to} : dirs'[m] = dirs[m]
  BY DEF FilesTypeOK, Renamed

(* The lock of a directory. *)
LEMMA LockChange ==
    ASSUME FilesConstants, FilesTypeOK, NEW n \in Names, Exists(n),
           dirs' = [dirs EXCEPT ![n].lock = FALSE]
    PROVE  /\ dirs' \in [Names -> Directories \union {Missing}]
           /\ dirs'[n] = [lock |-> FALSE, files |-> dirs[n].files]
           /\ \A m \in Names \ {n} : dirs'[m] = dirs[m]
  <1>1. dirs[n] \in Directories /\ dirs \in [Names -> Directories \union {Missing}]
    BY DEF Exists, FilesTypeOK
  <1>2. [dirs[n] EXCEPT !.lock = FALSE] = [lock |-> FALSE, files |-> dirs[n].files]
    <2>1. \A x : [dirs[n] EXCEPT !.lock = x] = [lock |-> x, files |-> dirs[n].files]
      BY <1>1 DEF Directories
    <2> QED BY <2>1, Zenon
  <1>3. [lock |-> FALSE, files |-> dirs[n].files] \in Directories
    BY <1>1 DEF Directories
  <1>4. dirs' = [dirs EXCEPT ![n] = [dirs[n] EXCEPT !.lock = FALSE]]
    OBVIOUS
  <1> QED BY <1>1, <1>2, <1>3, <1>4

-----------------------------------------------------------------------------
(* The invariant holds at every step. *)

(* What a step that leaves the current directory alone carries over, *)
DiskWhole ==
    ~partial => ((Exists("current") /\ step # "wiping" /\ db_version = "current")
                     => CurrentWhole)
LEMMA DiskKept ==
    ASSUME WholeOK, partial' = partial, dirs'["current"] = dirs["current"],
           db_version' = db_version, step = "wiping" => step' = "wiping"
    PROVE  DiskWhole'
  BY DEF WholeOK, DiskWhole, Exists, CurrentWhole

(* and one that leaves the memory alone. *)
MemWhole == ~partial => (step \in Working => MemoryWhole)
LEMMA MemKept ==
    ASSUME WholeOK, partial' = partial, memory' = memory,
           step' \in Working => step \in Working
    PROVE  MemWhole'
  BY DEF WholeOK, MemWhole, MemoryWhole

LEMMA WholeParts == WholeOK <=> DiskWhole /\ MemWhole
  BY DEF WholeOK, DiskWhole, MemWhole

LEMMA FilesInvInit == FilesConstants /\ FilesInit => FilesInv
  <1> SUFFICES ASSUME FilesConstants, FilesInit PROVE FilesInv
    OBVIOUS
  <1>1. FilesTypeOK
    <2>1. partial \in BOOLEAN
      BY Zenon DEF FilesInit
    <2>2. memory \in [Indexes -> Contents]
      BY WholeType DEF FilesInit
    <2>3. dirs \in [Names -> Directories \union {Missing}]
      BY DEF FilesInit
    <2>4. kills \in 0..MaxKills
      BY DEF FilesInit, FilesConstants
    <2> QED BY <2>1, <2>2, <2>3, <2>4 DEF FilesInit, FilesTypeOK, Steps
  <1>2. StepOK
    BY DEF FilesInit, StepOK, Resting, Working
  <1>3. WholeOK
    <2>1. ~Exists("current")
      BY DEF FilesInit, Exists, Names
    <2> QED BY <2>1 DEF FilesInit, WholeOK, Working
  <1> QED BY <1>1, <1>2, <1>3 DEF FilesInv

(* What open() puts into memory when it finds a whole state or nothing. *)
LEMMA LoadedIsWhole ==
    ASSUME FilesConstants, Exists("current") => CurrentWhole
    PROVE  /\ \E s \in States : Loaded = Whole(s)
           /\ ~Exists("current") => Loaded = Whole(Genesis)
           /\ \A s \in States :
                  dirs["current"] = [lock |-> FALSE, files |-> Whole(s)]
                      /\ Exists("current") => Loaded = Whole(s)
  <1>1. ASSUME ~Exists("current") PROVE Loaded = Whole(Genesis)
    <2>1. Loaded = IF NoFiles[PropertyIndex] # Missing THEN NoFiles
                   ELSE [i \in Indexes |-> IF NoFiles[i] = Missing THEN Genesis ELSE Torn]
      BY <1>1 DEF Loaded
    <2> QED BY <2>1 DEF NoFiles, Whole, FilesConstants
  <1>2. ASSUME NEW s \in States, Exists("current"),
               dirs["current"] = [lock |-> FALSE, files |-> Whole(s)]
        PROVE  Loaded = Whole(s)
    <2>1. ~dirs["current"].lock /\ dirs["current"].files = Whole(s)
      BY <1>2
    <2>2. Whole(s)[PropertyIndex] # Missing
      BY DEF FilesConstants, Whole
    <2> QED BY <1>2, <2>1, <2>2 DEF Loaded
  <1>3. \E s \in States : Loaded = Whole(s)
    BY <1>1, <1>2, WholeType DEF CurrentWhole
  <1> QED BY <1>1, <1>2, <1>3

LEMMA LoadedType ==
    ASSUME FilesConstants, FilesTypeOK
    PROVE  Loaded \in [Indexes -> Contents]
  <1> DEFINE files == IF Exists("current") /\ ~dirs["current"].lock
                      THEN dirs["current"].files ELSE NoFiles
  <1>1. files \in [Indexes -> Contents]
    BY WholeType, DirectoryType DEF Names, Directories
  <1>2. Genesis \in Contents /\ Torn \in Contents
    BY WholeType DEF Contents
  <1>3. Loaded = IF files[PropertyIndex] # Missing THEN files
                 ELSE [i \in Indexes |-> IF files[i] = Missing THEN Genesis ELSE Torn]
    BY DEF Loaded
  <1> HIDE DEF files
  <1> QED BY <1>1, <1>2, <1>3

LEMMA FilesStep == FilesConstants /\ FilesInv /\ [FilesNext]_filesVars => FilesInv'
  <1> SUFFICES ASSUME FilesConstants, FilesInv, [FilesNext]_filesVars PROVE FilesInv'
    OBVIOUS
  <1>core. FilesTypeOK /\ StepOK /\ WholeOK
    BY DEF FilesInv
  <1>names. /\ "current" \in Names /\ "tmp" \in Names /\ "old" \in Names
            /\ "current" \in Names \ {"tmp"} /\ "current" \in Names \ {"old"}
            /\ "tmp" \in Names \ {"old"} /\ "tmp" \in Names \ {"current"}
            /\ "tmp" \in Names \ {"current", "old"}
    BY DEF Names
  <1>1. ASSUME ObjectsChange PROVE FilesInv'
    <2>1. PICK s \in States : memory = Whole(s) /\ s < MaxState /\ memory' = Whole(s + 1)
      BY <1>1 DEF ObjectsChange
    <2>2. s + 1 \in States
      BY <2>1 DEF States, FilesConstants
    <2>3. /\ step = "up" /\ UNCHANGED <<dirs, db_version, step, tasks, partial, kills>>
      BY <1>1 DEF ObjectsChange
    <2>4. FilesTypeOK'
      BY <1>core, <2>1, <2>2, <2>3, WholeType DEF FilesTypeOK
    <2>5. StepOK'
      BY <1>core, <2>3 DEF StepOK, Resting, Working
    <2>6. DiskWhole'
      BY <1>core, <2>3, DiskKept
    <2>7. MemWhole'
      BY <2>1, <2>2 DEF MemWhole, MemoryWhole
    <2> QED BY <2>4, <2>5, <2>6, <2>7 DEF FilesInv, WholeOK, DiskWhole, MemWhole
  <1>2. ASSUME StartFlush PROVE FilesInv'
    <2> DEFINE d == [lock |-> TRUE, files |-> IF Exists("tmp") THEN dirs["tmp"].files
                                              ELSE NoFiles]
    <2>1. /\ step = "up" /\ step' = "saving" /\ tasks' = Indexes
          /\ UNCHANGED <<memory, db_version, partial, kills>>
      BY <1>2 DEF StartFlush
    <2>2. dirs' = [dirs EXCEPT !["tmp"] = d]
      BY <1>2 DEF StartFlush
    <2>3. d \in Directories
      BY <1>core, <1>names, WholeType, DirectoryType DEF Directories
    <2> HIDE DEF d
    <2>4. /\ dirs' \in [Names -> Directories \union {Missing}]
          /\ dirs'["tmp"] = d /\ dirs'["current"] = dirs["current"]
      BY <1>core, <1>names, <2>2, <2>3, DirectoryChange
    <2>5. FilesTypeOK'
      BY <1>core, <2>1, <2>4 DEF FilesTypeOK, Steps
    <2>6. StepOK'
      BY <1>core, <2>1, <2>3, <2>4 DEF StepOK, Resting, Working, Exists, FilesConstants
    <2>7. DiskWhole' /\ MemWhole'
      BY <1>core, <2>1, <2>4, DiskKept, MemKept DEF Working
    <2> QED BY <2>5, <2>6, <2>7 DEF FilesInv, WholeOK, DiskWhole, MemWhole
  <1>3. ASSUME RemoveLock PROVE FilesInv'
    <2>1. /\ step = "saving" /\ tasks = {} /\ step' = "rename_current"
          /\ dirs' = [dirs EXCEPT !["tmp"].lock = FALSE]
          /\ UNCHANGED <<memory, db_version, tasks, partial, kills>>
      BY <1>3 DEF RemoveLock
    <2>2. Exists("tmp") /\ \A i \in Indexes : dirs["tmp"].files[i] = memory[i]
      BY <1>core, <2>1 DEF StepOK
    <2>3. /\ dirs' \in [Names -> Directories \union {Missing}]
          /\ dirs'["tmp"] = [lock |-> FALSE, files |-> dirs["tmp"].files]
          /\ dirs'["current"] = dirs["current"]
      BY <1>core, <1>names, <2>1, <2>2, LockChange
    <2>4. dirs["tmp"].files = memory
      <3>1. dirs["tmp"].files \in [Indexes -> Contents]
        BY <1>core, <1>names, <2>2, DirectoryType DEF Directories
      <3> QED BY <1>core, <2>2, <3>1 DEF FilesTypeOK
    <2>5. FilesTypeOK'
      BY <1>core, <2>1, <2>3 DEF FilesTypeOK, Steps
    <2>6. dirs'["tmp"] = [lock |-> FALSE, files |-> memory']
      BY <2>1, <2>3, <2>4
    <2>7. StepOK'
      BY <1>core, <2>1, <2>6 DEF StepOK, Resting, Working
    <2>8. DiskWhole' /\ MemWhole'
      BY <1>core, <2>1, <2>3, DiskKept, MemKept DEF Working
    <2> QED BY <2>5, <2>7, <2>8 DEF FilesInv, WholeOK, DiskWhole, MemWhole
  <1>4. ASSUME RenameCurrent PROVE FilesInv'
    <2>1. /\ step = "rename_current" /\ step' = "rename_tmp"
          /\ dirs' = IF Exists("current") THEN Renamed("current", "old") ELSE dirs
          /\ UNCHANGED <<memory, db_version, tasks, partial, kills>>
      BY <1>4 DEF RenameCurrent
    <2>2. /\ dirs' \in [Names -> Directories \union {Missing}]
          /\ dirs'["tmp"] = dirs["tmp"] /\ dirs'["current"] = Missing
      <3>1. CASE Exists("current")
        BY <1>core, <1>names, <2>1, <3>1, RenameChange
      <3>2. CASE ~Exists("current")
        BY <1>core, <2>1, <3>2 DEF Exists, FilesTypeOK
      <3> QED BY <3>1, <3>2
    <2>3. FilesTypeOK'
      BY <1>core, <2>1, <2>2 DEF FilesTypeOK, Steps
    <2>4. StepOK'
      BY <1>core, <2>1, <2>2 DEF StepOK, Resting, Working
    <2>5. DiskWhole'
      BY <2>2 DEF DiskWhole, Exists
    <2>6. MemWhole'
      BY <1>core, <2>1, MemKept DEF Working
    <2> QED BY <2>3, <2>4, <2>5, <2>6 DEF FilesInv, WholeOK, DiskWhole, MemWhole
  <1>5. ASSUME FlushThrows PROVE FilesInv'
    <2>1. /\ step = "rename_current" /\ step' = "down" /\ memory' = Whole(Genesis)
          /\ UNCHANGED <<dirs, db_version, tasks, partial, kills>>
      BY <1>5 DEF FlushThrows
    <2>2. FilesTypeOK'
      BY <1>core, <2>1, WholeType DEF FilesTypeOK, Steps
    <2>3. StepOK'
      BY <1>core, <2>1 DEF StepOK, Resting, Working
    <2>4. DiskWhole' /\ MemWhole'
      BY <1>core, <2>1, DiskKept DEF MemWhole, Working
    <2> QED BY <2>2, <2>3, <2>4 DEF FilesInv, WholeOK, DiskWhole, MemWhole
  <1>6. ASSUME RenameTmp PROVE FilesInv'
    <2>1. /\ step = "rename_tmp" /\ step' = "remove_old" /\ dirs' = Renamed("tmp", "current")
          /\ UNCHANGED <<memory, db_version, tasks, partial, kills>>
      BY <1>6 DEF RenameTmp
    <2>2. /\ dirs' \in [Names -> Directories \union {Missing}]
          /\ dirs'["current"] = dirs["tmp"]
      BY <1>core, <1>names, <2>1, RenameChange
    <2>3. FilesTypeOK'
      BY <1>core, <2>1, <2>2 DEF FilesTypeOK, Steps
    <2>4. StepOK'
      BY <1>core, <2>1 DEF StepOK, Resting, Working
    <2>5. MemWhole'
      BY <1>core, <2>1, MemKept DEF Working
    <2>6. DiskWhole'
      <3>1. dirs["tmp"] = [lock |-> FALSE, files |-> memory]
        BY <1>core, <2>1 DEF StepOK
      <3>2. ~partial => MemoryWhole
        BY <1>core, <2>1 DEF WholeOK, Working
      <3> QED BY <2>1, <2>2, <3>1, <3>2 DEF DiskWhole, MemoryWhole, CurrentWhole
    <2> QED BY <2>3, <2>4, <2>5, <2>6 DEF FilesInv, WholeOK, DiskWhole, MemWhole
  <1>7. ASSUME RemoveOld PROVE FilesInv'
    <2>1. /\ step = "remove_old" /\ step' = "up" /\ dirs' = [dirs EXCEPT !["old"] = Missing]
          /\ UNCHANGED <<memory, db_version, tasks, partial, kills>>
      BY <1>7 DEF RemoveOld
    <2>2. /\ dirs' \in [Names -> Directories \union {Missing}]
          /\ dirs'["current"] = dirs["current"]
      BY <1>core, <1>names, <2>1, DirectoryChange
    <2>3. FilesTypeOK'
      BY <1>core, <2>1, <2>2 DEF FilesTypeOK, Steps
    <2>4. StepOK'
      BY <1>core, <2>1 DEF StepOK, Resting, Working
    <2>5. DiskWhole' /\ MemWhole'
      BY <1>core, <2>1, <2>2, DiskKept, MemKept DEF Working
    <2> QED BY <2>3, <2>4, <2>5 DEF FilesInv, WholeOK, DiskWhole, MemWhole
  <1>8. ASSUME NEW i \in Indexes, SaveIndex(i) PROVE FilesInv'
    <2>1. /\ step = "saving" /\ UNCHANGED <<memory, db_version, step, partial, kills>>
      BY <1>8 DEF SaveIndex
    <2>2. PICK c \in Contents :
              /\ dirs' = [dirs EXCEPT !["tmp"].files[i] = c]
              /\ \/ tasks' = tasks /\ i \in tasks
                 \/ tasks' = tasks \ {i} /\ c = memory[i]
      <3>1. Torn \in Contents /\ memory[i] \in Contents
        BY <1>core, WholeType DEF FilesTypeOK
      <3>2. CASE /\ dirs' = [dirs EXCEPT !["tmp"].files[i] = Torn] /\ UNCHANGED tasks
        BY <1>8, <3>1, <3>2 DEF SaveIndex
      <3>3. CASE /\ dirs' = [dirs EXCEPT !["tmp"].files[i] = memory[i]]
                 /\ tasks' = tasks \ {i}
        BY <3>1, <3>3
      <3> QED BY <1>8, <3>2, <3>3 DEF SaveIndex
    <2>3. /\ Exists("tmp")
          /\ \A j \in Indexes \ tasks : dirs["tmp"].files[j] = memory[j]
      BY <1>core, <2>1 DEF StepOK
    <2>4. /\ dirs' \in [Names -> Directories \union {Missing}] /\ dirs'["tmp"] # Missing
          /\ \A j \in Indexes :
                 dirs'["tmp"].files[j] = IF j = i THEN c ELSE dirs["tmp"].files[j]
          /\ dirs'["current"] = dirs["current"]
      <3>1. dirs' = [dirs EXCEPT !["tmp"].files[i] = c] /\ c \in Contents
        BY <2>2
      <3>2. /\ dirs' \in [Names -> Directories \union {Missing}] /\ dirs'["tmp"] # Missing
            /\ dirs'["current"] = dirs["current"]
        BY <1>core, <1>names, <2>3, <3>1, FileChange
      <3>3. \A j \in Indexes :
                dirs'["tmp"].files[j] = IF j = i THEN c ELSE dirs["tmp"].files[j]
        <4>1. dirs["tmp"] \in Directories /\ DOMAIN dirs = Names
          BY <1>core, <1>names, <2>3, DirectoryType
        <4> QED BY <1>names, <3>1, <4>1 DEF Directories
      <3> QED BY <3>2, <3>3
    <2>5. dirs["tmp"].files \in [Indexes -> Contents]
      BY <1>core, <1>names, <2>3, DirectoryType DEF Directories
    <2>6. \A j \in Indexes \ tasks' : dirs'["tmp"].files[j] = memory[j]
      BY <2>2, <2>3, <2>4, <2>5
    <2>7. FilesTypeOK'
      BY <1>core, <2>1, <2>2, <2>4 DEF FilesTypeOK
    <2>8. StepOK'
      BY <1>core, <2>1, <2>4, <2>6 DEF StepOK, Resting, Working, Exists
    <2>9. DiskWhole' /\ MemWhole'
      BY <1>core, <2>1, <2>4, DiskKept, MemKept
    <2> QED BY <2>7, <2>8, <2>9 DEF FilesInv, WholeOK, DiskWhole, MemWhole
  <1>9. ASSUME NEW i \in Indexes, RemoveOldFile(i) PROVE FilesInv'
    <2>1. /\ step = "remove_old" /\ Exists("old")
          /\ dirs' = [dirs EXCEPT !["old"].files[i] = Missing]
          /\ UNCHANGED <<memory, db_version, step, tasks, partial, kills>>
      BY <1>9 DEF RemoveOldFile, RemoveFile
    <2>2. /\ dirs' \in [Names -> Directories \union {Missing}]
          /\ dirs'["current"] = dirs["current"]
      BY <1>core, <1>names, <2>1, WholeType, FileChange
    <2>3. FilesTypeOK'
      BY <1>core, <2>1, <2>2 DEF FilesTypeOK
    <2>4. StepOK'
      BY <1>core, <2>1 DEF StepOK, Resting, Working
    <2>5. DiskWhole' /\ MemWhole'
      BY <1>core, <2>1, <2>2, DiskKept, MemKept
    <2> QED BY <2>3, <2>4, <2>5 DEF FilesInv, WholeOK, DiskWhole, MemWhole
  <1>10. ASSUME NEW i \in Indexes, RemoveCurrentFile(i) PROVE FilesInv'
    <2>1. /\ step \in {"wiping", "versioning"} /\ Exists("current")
          /\ dirs' = [dirs EXCEPT !["current"].files[i] = Missing]
          /\ UNCHANGED <<memory, db_version, step, tasks, partial, kills>>
      BY <1>10 DEF RemoveCurrentFile, RemoveFile
    <2>2. dirs' \in [Names -> Directories \union {Missing}]
      BY <1>core, <1>names, <2>1, WholeType, FileChange
    <2>3. FilesTypeOK'
      BY <1>core, <2>1, <2>2 DEF FilesTypeOK
    <2>4. StepOK'
      BY <1>core, <2>1 DEF StepOK, Resting, Working
    <2>5. DiskWhole' /\ MemWhole'
      BY <1>core, <2>1, MemKept DEF StepOK, DiskWhole
    <2> QED BY <2>3, <2>4, <2>5 DEF FilesInv, WholeOK, DiskWhole, MemWhole
  <1>11. ASSUME ProcessEnds PROVE FilesInv'
    <2>1. /\ step' = "down" /\ memory' = Whole(Genesis)
          /\ UNCHANGED <<dirs, db_version, tasks>>
          /\ kills < MaxKills /\ kills' = kills + 1
      BY <1>11 DEF ProcessEnds
    <2>2. partial' \in BOOLEAN
      BY <1>11, Zenon DEF ProcessEnds
    <2>3. ~partial' => ~partial /\ step # "wiping"
      BY <1>11 DEF ProcessEnds
    <2>4. kills' \in 0..MaxKills
      BY <1>core, <2>1 DEF FilesTypeOK, FilesConstants
    <2>5. FilesTypeOK'
      BY <1>core, <2>1, <2>2, <2>4, WholeType DEF FilesTypeOK, Steps
    <2>6. StepOK'
      BY <2>1 DEF StepOK, Resting, Working
    <2>7. DiskWhole' /\ MemWhole'
      BY <1>core, <2>1, <2>3 DEF DiskWhole, MemWhole, Working, WholeOK, Exists, CurrentWhole
    <2> QED BY <2>5, <2>6, <2>7 DEF FilesInv, WholeOK, DiskWhole, MemWhole
  <1>12. ASSUME StartWipe \/ CheckVersion PROVE FilesInv'
    <2>1. /\ step = "down" /\ step' \in {"wiping", "loading", "versioning"}
          /\ step' = "loading" => db_version = "current"
          /\ step' = "versioning" => db_version # "current"
          /\ UNCHANGED <<memory, dirs, db_version, tasks, partial, kills>>
      BY <1>12 DEF StartWipe, CheckVersion
    <2>2. FilesTypeOK'
      BY <1>core, <2>1 DEF FilesTypeOK, Steps
    <2>3. StepOK'
      BY <1>core, <2>1 DEF StepOK, Resting, Working
    <2>4. DiskWhole' /\ MemWhole'
      BY <1>core, <2>1, DiskKept, MemKept DEF Working
    <2> QED BY <2>2, <2>3, <2>4 DEF FilesInv, WholeOK, DiskWhole, MemWhole
  <1>13. ASSUME Upgrade PROVE FilesInv'
    <2>1. /\ step = "down" /\ db_version' = "other"
          /\ UNCHANGED <<memory, dirs, step, tasks, partial, kills>>
      BY <1>13 DEF Upgrade
    <2>2. FilesTypeOK' /\ StepOK'
      BY <1>core, <2>1 DEF FilesTypeOK, StepOK, Resting, Working
    <2>3. DiskWhole' /\ MemWhole'
      BY <1>core, <2>1, MemKept DEF DiskWhole
    <2> QED BY <2>2, <2>3 DEF FilesInv, WholeOK, DiskWhole, MemWhole
  <1>14. ASSUME Wiped PROVE FilesInv'
    <2>1. /\ step \in {"wiping", "versioning"} /\ dirs' = [dirs EXCEPT !["current"] = Missing]
          /\ step' \in {"loading", "versioning"}
          /\ db_version' \in {"current", db_version}
          /\ step' = "loading" => db_version' = "current"
          /\ step' = "versioning" => db_version' # "current"
          /\ UNCHANGED <<memory, tasks, kills>>
      BY <1>14 DEF Wiped
    <2>2. partial' \in BOOLEAN
      BY <1>14, Zenon DEF Wiped
    <2>3. dirs' \in [Names -> Directories \union {Missing}] /\ dirs'["current"] = Missing
      BY <1>core, <1>names, <2>1, DirectoryChange
    <2>4. FilesTypeOK'
      BY <1>core, <2>1, <2>2, <2>3 DEF FilesTypeOK, Steps
    <2>5. StepOK'
      BY <1>core, <2>1 DEF StepOK, Resting, Working
    <2>6. DiskWhole' /\ MemWhole'
      BY <2>1, <2>3 DEF DiskWhole, MemWhole, Exists, Working
    <2> QED BY <2>4, <2>5, <2>6 DEF FilesInv, WholeOK, DiskWhole, MemWhole
  <1>15. ASSUME Load PROVE FilesInv'
    <2>1. /\ step = "loading" /\ step' = "up" /\ memory' = Loaded
          /\ UNCHANGED <<dirs, db_version, tasks, partial, kills>>
      BY <1>15 DEF Load
    <2>2. FilesTypeOK'
      BY <1>core, <2>1, LoadedType DEF FilesTypeOK, Steps
    <2>3. StepOK'
      BY <1>core, <2>1 DEF StepOK, Resting, Working
    <2>4. DiskWhole'
      BY <1>core, <2>1, DiskKept
    <2>5. MemWhole'
      <3>1. ~partial => (Exists("current") => CurrentWhole)
        BY <1>core, <2>1 DEF WholeOK, StepOK
      <3> QED BY <2>1, <3>1, LoadedIsWhole DEF MemWhole, MemoryWhole
    <2> QED BY <2>2, <2>3, <2>4, <2>5 DEF FilesInv, WholeOK, DiskWhole, MemWhole
  <1>16. CASE UNCHANGED filesVars
    <2>1. FilesTypeOK' /\ StepOK'
      BY <1>core, <1>16 DEF filesVars, FilesTypeOK, StepOK, Exists
    <2>2. DiskWhole' /\ MemWhole'
      BY <1>core, <1>16, DiskKept, MemKept DEF filesVars
    <2> QED BY <2>1, <2>2 DEF FilesInv, WholeOK, DiskWhole, MemWhole
  <1> QED BY <1>1, <1>2, <1>3, <1>4, <1>5, <1>6, <1>7, <1>8, <1>9, <1>10, <1>11,
             <1>12, <1>13, <1>14, <1>15, <1>16 DEF FilesNext

(* However the processes before it ended, a running node has one state of  *)
(* all its indexes, and the directory that open() would read holds one     *)
(* flush as a whole, for any indexes and any number of kills.              *)
THEOREM FilesStayWhole == FilesSpec => []FilesWhole
  <1>1. FilesInv => FilesWhole
    BY DEF FilesInv, WholeOK, FilesWhole, Working, MemoryWhole, CurrentWhole
  <1>2. FilesInit => FilesInv
    BY FilesInvInit, FilesAssumption
  <1>3. FilesInv /\ [FilesNext]_filesVars => FilesInv'
    BY FilesStep, FilesAssumption
  <1> QED BY <1>1, <1>2, <1>3, PTL DEF FilesSpec

-----------------------------------------------------------------------------
(* The files implement AtomicStore. *)

LEMMA StateOfWhole ==
    ASSUME FilesConstants, NEW s \in States
    PROVE  State(Whole(s)) = s
  BY DEF State, Whole, FilesConstants

(* The three parts of the abstract state. *)
LEMMA StatusOf ==
    ASSUME FilesTypeOK
    PROVE  /\ partial => Status = "undefined"
           /\ ~partial /\ step \in Resting => Status = "down"
           /\ ~partial /\ step \in {"saving", "rename_current", "rename_tmp"}
                  => Status = "saving"
           /\ ~partial /\ step = "remove_old" => Status = "saved"
           /\ ~partial /\ step = "up" => Status = "up"
  BY DEF Status, Resting

LEMMA InMemoryOf ==
    ASSUME FilesConstants, FilesTypeOK, StepOK
    PROVE  /\ partial => InMemory = Genesis
           /\ ~partial => InMemory = State(memory)
           /\ step \in Resting => InMemory = Genesis
  BY StateOfWhole, WholeType DEF InMemory, StepOK

LEMMA OnDiskOf ==
    /\ partial \/ step = "wiping" \/ db_version # "current" \/ ~Exists("current")
           => OnDisk = Genesis
    /\ ~partial /\ step # "wiping" /\ db_version = "current" /\ Exists("current")
           => OnDisk = State(dirs["current"].files)
  BY DEF OnDisk

(* A step that leaves what they are made of alone. *)
LEMMA DiskSame ==
    ASSUME partial' = partial, dirs'["current"] = dirs["current"],
           db_version' = db_version, step' = "wiping" <=> step = "wiping"
    PROVE  OnDisk' = OnDisk
  BY DEF OnDisk, Exists

LEMMA MemorySame ==
    ASSUME partial' = partial, memory' = memory
    PROVE  InMemory' = InMemory
  BY DEF InMemory

(* While a wipe that was killed has not been completed, only the           *)
(* completion of one is a step of the store.                               *)
LEMMA UndefinedStutters ==
    ASSUME partial, partial'
    PROVE  UNCHANGED <<InMemory, OnDisk, Status>>
  BY DEF InMemory, OnDisk, Status

LEMMA StoreStep ==
    ASSUME FilesConstants, FilesInv, FilesInv', [FilesNext]_filesVars
    PROVE  [ObjectStore!StoreNext]_ObjectStore!svars
  <1>core. /\ FilesTypeOK /\ StepOK /\ WholeOK /\ FilesTypeOK' /\ StepOK' /\ WholeOK'
    BY DEF FilesInv
  <1>bool. partial \in BOOLEAN /\ partial' \in BOOLEAN
    BY <1>core DEF FilesTypeOK
  <1>names. /\ "current" \in Names /\ "tmp" \in Names /\ "old" \in Names
            /\ "current" \in Names \ {"tmp"} /\ "current" \in Names \ {"old"}
    BY DEF Names
  <1>stat. /\ partial => Status = "undefined"
           /\ ~partial /\ step \in Resting => Status = "down"
           /\ ~partial /\ step \in {"saving", "rename_current", "rename_tmp"}
                  => Status = "saving"
           /\ ~partial /\ step = "remove_old" => Status = "saved"
           /\ ~partial /\ step = "up" => Status = "up"
    BY <1>core, StatusOf
  <1>stat2. /\ partial' => Status' = "undefined"
            /\ ~partial' /\ step' \in Resting => Status' = "down"
            /\ ~partial' /\ step' \in {"saving", "rename_current", "rename_tmp"}
                   => Status' = "saving"
            /\ ~partial' /\ step' = "remove_old" => Status' = "saved"
            /\ ~partial' /\ step' = "up" => Status' = "up"
    BY DEF Status, Resting
  <1>mem. step \in Resting => InMemory = Genesis
    BY <1>core, InMemoryOf
  <1>mem2. step' \in Resting => InMemory' = Genesis
    BY <1>core, StateOfWhole, WholeType DEF InMemory, StepOK
  <1>stutter. ASSUME InMemory' = InMemory, OnDisk' = OnDisk, Status' = Status
              PROVE  [ObjectStore!StoreNext]_ObjectStore!svars
    BY <1>stutter DEF ObjectStore!svars
  <1>undefined. ASSUME partial, partial' PROVE [ObjectStore!StoreNext]_ObjectStore!svars
    BY <1>stutter, <1>undefined, UndefinedStutters
  <1>1. ASSUME ObjectsChange PROVE [ObjectStore!StoreNext]_ObjectStore!svars
    <2>1. PICK s \in States : memory = Whole(s) /\ s < MaxState /\ memory' = Whole(s + 1)
      BY <1>1 DEF ObjectsChange
    <2>2. s + 1 \in States
      BY <2>1 DEF States, FilesConstants
    <2>3. /\ step = "up" /\ UNCHANGED <<dirs, db_version, step, tasks, partial, kills>>
      BY <1>1 DEF ObjectsChange
    <2>4. CASE ~partial
      <3>1. InMemory' \in States
        BY <2>1, <2>2, <2>3, <2>4, StateOfWhole DEF InMemory
      <3>2. OnDisk' = OnDisk
        BY <2>3, DiskSame
      <3>3. ObjectStore!Work
        BY <1>stat, <1>stat2, <2>3, <2>4, <3>1, <3>2 DEF ObjectStore!Work
      <3> QED BY <3>3 DEF ObjectStore!StoreNext
    <2> QED BY <1>undefined, <2>3, <2>4
  <1>2. ASSUME StartFlush PROVE [ObjectStore!StoreNext]_ObjectStore!svars
    <2>1. step = "up" /\ step' = "saving" /\ UNCHANGED <<memory, db_version, partial>>
      BY <1>2 DEF StartFlush
    <2>2. dirs'["current"] = dirs["current"]
      BY <1>core, <1>2, <1>names DEF StartFlush, FilesTypeOK
    <2>3. InMemory' = InMemory /\ OnDisk' = OnDisk
      BY <2>1, <2>2, DiskSame, MemorySame
    <2>4. CASE ~partial
      <3>1. ObjectStore!BeginSave
        BY <1>stat, <1>stat2, <2>1, <2>3, <2>4 DEF ObjectStore!BeginSave
      <3> QED BY <3>1 DEF ObjectStore!StoreNext
    <2> QED BY <1>undefined, <2>1, <2>4
  <1>3. ASSUME RemoveLock PROVE [ObjectStore!StoreNext]_ObjectStore!svars
    <2>1. /\ step = "saving" /\ step' = "rename_current"
          /\ UNCHANGED <<memory, db_version, partial>>
      BY <1>3 DEF RemoveLock
    <2>2. dirs'["current"] = dirs["current"]
      BY <1>core, <1>3, <1>names DEF RemoveLock, FilesTypeOK
    <2>3. InMemory' = InMemory /\ OnDisk' = OnDisk
      BY <2>1, <2>2, DiskSame, MemorySame
    <2> QED BY <1>stutter, <1>stat, <1>stat2, <2>1, <2>3
  <1>4. ASSUME RenameCurrent PROVE [ObjectStore!StoreNext]_ObjectStore!svars
    <2>1. /\ step = "rename_current" /\ step' = "rename_tmp"
          /\ dirs' = IF Exists("current") THEN Renamed("current", "old") ELSE dirs
          /\ UNCHANGED <<memory, db_version, partial>>
      BY <1>4 DEF RenameCurrent
    <2>2. dirs'["current"] = Missing
      <3>1. CASE Exists("current")
        BY <1>core, <1>names, <2>1, <3>1, RenameChange
      <3>2. CASE ~Exists("current")
        BY <2>1, <3>2 DEF Exists
      <3> QED BY <3>1, <3>2
    <2>3. InMemory' = InMemory /\ OnDisk' = Genesis
      BY <2>1, <2>2, MemorySame DEF OnDisk, Exists
    <2>4. CASE ~partial
      <3>1. ObjectStore!Replace
        BY <1>stat, <1>stat2, <2>1, <2>3, <2>4 DEF ObjectStore!Replace
      <3> QED BY <3>1 DEF ObjectStore!StoreNext
    <2> QED BY <1>undefined, <2>1, <2>4
  <1>5. ASSUME FlushThrows PROVE [ObjectStore!StoreNext]_ObjectStore!svars
    <2>1. /\ step = "rename_current" /\ step' = "down"
          /\ UNCHANGED <<dirs, db_version, partial>>
      BY <1>5 DEF FlushThrows
    <2>2. InMemory' = Genesis /\ OnDisk' = OnDisk
      BY <1>mem2, <2>1, DiskSame DEF Resting
    <2>3. CASE ~partial
      <3>1. ObjectStore!Stop
        BY <1>stat, <1>stat2, <2>1, <2>2, <2>3 DEF ObjectStore!Stop, Resting
      <3> QED BY <3>1 DEF ObjectStore!StoreNext
    <2> QED BY <1>undefined, <2>1, <2>3
  <1>6. ASSUME RenameTmp PROVE [ObjectStore!StoreNext]_ObjectStore!svars
    <2>1. /\ step = "rename_tmp" /\ step' = "remove_old" /\ dirs' = Renamed("tmp", "current")
          /\ UNCHANGED <<memory, db_version, partial>>
      BY <1>6 DEF RenameTmp
    <2>2. dirs'["current"] = dirs["tmp"] /\ dirs["tmp"] = [lock |-> FALSE, files |-> memory]
      BY <1>core, <1>names, <2>1, RenameChange DEF StepOK
    <2>3. dirs'["current"].files = memory
      BY <2>2
    <2>4. dirs'["current"] # Missing /\ db_version' = "current"
      <3>1. [lock |-> FALSE, files |-> memory] \in Directories
        BY <1>core DEF FilesTypeOK, Directories
      <3> QED BY <1>core, <2>1, <2>2, <3>1 DEF FilesConstants, StepOK, Working
    <2>5. CASE ~partial
      <3>1. OnDisk' = State(memory) /\ InMemory = State(memory) /\ InMemory' = InMemory
        BY <2>1, <2>3, <2>4, <2>5, MemorySame DEF OnDisk, InMemory, Exists
      <3>2. ObjectStore!Save
        BY <1>stat, <1>stat2, <2>1, <2>5, <3>1 DEF ObjectStore!Save
      <3> QED BY <3>2 DEF ObjectStore!StoreNext
    <2> QED BY <1>undefined, <2>1, <2>5
  <1>7. ASSUME RemoveOld PROVE [ObjectStore!StoreNext]_ObjectStore!svars
    <2>1. /\ step = "remove_old" /\ step' = "up" /\ UNCHANGED <<memory, db_version, partial>>
      BY <1>7 DEF RemoveOld
    <2>2. dirs'["current"] = dirs["current"]
      BY <1>core, <1>7, <1>names DEF RemoveOld, FilesTypeOK
    <2>3. InMemory' = InMemory /\ OnDisk' = OnDisk
      BY <2>1, <2>2, DiskSame, MemorySame
    <2>4. CASE ~partial
      <3>1. ObjectStore!EndSave
        BY <1>stat, <1>stat2, <2>1, <2>3, <2>4 DEF ObjectStore!EndSave
      <3> QED BY <3>1 DEF ObjectStore!StoreNext
    <2> QED BY <1>undefined, <2>1, <2>4
  <1>8. ASSUME NEW i \in Indexes, SaveIndex(i) \/ RemoveOldFile(i)
        PROVE  [ObjectStore!StoreNext]_ObjectStore!svars
    <2>1. UNCHANGED <<memory, db_version, step, partial>>
      BY <1>8 DEF SaveIndex, RemoveOldFile
    <2>2. dirs'["current"] = dirs["current"]
      BY <1>core, <1>8, <1>names DEF SaveIndex, RemoveOldFile, RemoveFile, FilesTypeOK
    <2>3. InMemory' = InMemory /\ OnDisk' = OnDisk /\ Status' = Status
      BY <2>1, <2>2, DiskSame, MemorySame DEF Status
    <2> QED BY <1>stutter, <2>3
  <1>9. ASSUME NEW i \in Indexes, RemoveCurrentFile(i)
        PROVE  [ObjectStore!StoreNext]_ObjectStore!svars
    <2>1. step \in {"wiping", "versioning"} /\ UNCHANGED <<memory, db_version, step, partial>>
      BY <1>9 DEF RemoveCurrentFile
    <2>2. OnDisk = Genesis /\ OnDisk' = Genesis
      BY <1>core, <2>1 DEF OnDisk, StepOK
    <2>3. InMemory' = InMemory /\ Status' = Status
      BY <2>1, MemorySame DEF Status
    <2> QED BY <1>stutter, <2>2, <2>3
  <1>10. ASSUME ProcessEnds PROVE [ObjectStore!StoreNext]_ObjectStore!svars
    <2>1. /\ step # "down" /\ step' = "down" /\ UNCHANGED <<dirs, db_version>>
          /\ InMemory' = Genesis
      BY <1>10, <1>mem2 DEF ProcessEnds, Resting
    <2>2. partial' <=> (partial \/ step = "wiping")
      BY <1>10 DEF ProcessEnds
    <2>3. CASE ~partial /\ step = "wiping"
      <3>1. OnDisk' = Genesis /\ InMemory = Genesis
        BY <1>mem, <2>2, <2>3 DEF OnDisk, Resting
      <3>2. ObjectStore!Interrupt
        BY <1>stat, <1>stat2, <2>1, <2>2, <2>3, <3>1 DEF ObjectStore!Interrupt, Resting
      <3> QED BY <3>2 DEF ObjectStore!StoreNext
    <2>4. CASE ~partial /\ step \in {"versioning", "loading"}
      <3>1. OnDisk' = OnDisk /\ InMemory = Genesis
        BY <1>mem, <2>1, <2>2, <2>4 DEF OnDisk, Exists, Resting
      <3> QED BY <1>stutter, <1>stat, <1>stat2, <2>1, <2>2, <2>4, <3>1 DEF Resting
    <2>5. CASE ~partial /\ step \in Working
      <3>1. OnDisk' = OnDisk
        BY <2>1, <2>2, <2>5 DEF OnDisk, Exists, Working
      <3>2. ObjectStore!Stop
        BY <1>stat, <1>stat2, <2>1, <2>2, <2>5, <3>1 DEF ObjectStore!Stop, Resting, Working
      <3> QED BY <3>2 DEF ObjectStore!StoreNext
    <2>6. step \in {"down", "wiping", "versioning", "loading"} \union Working
      BY <1>core DEF FilesTypeOK, Steps, Working
    <2> QED BY <1>undefined, <2>1, <2>2, <2>3, <2>4, <2>5, <2>6
  <1>11. ASSUME StartWipe \/ Upgrade PROVE [ObjectStore!StoreNext]_ObjectStore!svars
    <2>1. /\ step = "down" /\ step' \in {"wiping", "down"} /\ UNCHANGED partial
          /\ step' = "wiping" \/ db_version' # "current"
      BY <1>11 DEF StartWipe, Upgrade
    <2>2. OnDisk' = Genesis /\ InMemory' = Genesis /\ InMemory = Genesis
      BY <1>mem, <1>mem2, <2>1 DEF OnDisk, Resting
    <2>3. CASE ~partial
      <3>1. ObjectStore!Delete
        BY <1>stat, <1>stat2, <2>1, <2>2, <2>3 DEF ObjectStore!Delete, Resting
      <3> QED BY <3>1 DEF ObjectStore!StoreNext
    <2> QED BY <1>undefined, <2>1, <2>3
  <1>12. ASSUME CheckVersion PROVE [ObjectStore!StoreNext]_ObjectStore!svars
    <2>1. /\ step = "down" /\ step' \in {"loading", "versioning"}
          /\ UNCHANGED <<memory, dirs, db_version, partial>>
      BY <1>12 DEF CheckVersion
    <2>2. InMemory' = InMemory /\ OnDisk' = OnDisk
      BY <2>1, DiskSame, MemorySame
    <2> QED BY <1>stutter, <1>stat, <1>stat2, <2>1, <2>2 DEF Resting
  <1>13. ASSUME Wiped PROVE [ObjectStore!StoreNext]_ObjectStore!svars
    <2>1. /\ step \in {"wiping", "versioning"} /\ step' \in {"loading", "versioning"}
          /\ ~partial' /\ dirs' = [dirs EXCEPT !["current"] = Missing]
      BY <1>13 DEF Wiped
    <2>2. dirs'["current"] = Missing
      BY <1>core, <1>names, <2>1, DirectoryChange
    <2>3. OnDisk' = Genesis /\ OnDisk = Genesis
      BY <1>core, <2>1, <2>2 DEF OnDisk, Exists, StepOK
    <2>4. InMemory = Genesis /\ InMemory' = Genesis
      BY <1>mem, <1>mem2, <2>1 DEF Resting
    <2>5. CASE partial
      <3>1. ObjectStore!Recover
        BY <1>stat, <1>stat2, <2>1, <2>3, <2>4, <2>5 DEF ObjectStore!Recover, Resting
      <3> QED BY <3>1 DEF ObjectStore!StoreNext
    <2>6. CASE ~partial
      BY <1>stutter, <1>stat, <1>stat2, <2>1, <2>3, <2>4, <2>6 DEF Resting
    <2> QED BY <2>5, <2>6
  <1>14. ASSUME Load PROVE [ObjectStore!StoreNext]_ObjectStore!svars
    <2>1. /\ step = "loading" /\ step' = "up" /\ memory' = Loaded
          /\ UNCHANGED <<dirs, db_version, partial>>
      BY <1>14 DEF Load
    <2>2. OnDisk' = OnDisk
      BY <2>1, DiskSame
    <2>3. CASE ~partial
      <3>1. db_version = "current" /\ (Exists("current") => CurrentWhole)
        BY <1>core, <2>1, <2>3 DEF StepOK, WholeOK
      <3>2. State(Loaded) = OnDisk
        <4>1. CASE ~Exists("current")
          BY <3>1, <4>1, LoadedIsWhole, StateOfWhole, WholeType DEF OnDisk
        <4>2. CASE Exists("current")
          <5>1. PICK s \in States : dirs["current"] = [lock |-> FALSE, files |-> Whole(s)]
            BY <3>1, <4>2 DEF CurrentWhole
          <5>2. Loaded = Whole(s)
            BY <3>1, <4>2, <5>1, LoadedIsWhole
          <5>3. OnDisk = State(Whole(s))
            BY <2>1, <2>3, <3>1, <4>2, <5>1 DEF OnDisk
          <5> QED BY <5>2, <5>3
        <4> QED BY <4>1, <4>2
      <3>3. InMemory' = OnDisk
        BY <2>1, <2>3, <3>2 DEF InMemory
      <3>4. ObjectStore!Start
        BY <1>stat, <1>stat2, <2>1, <2>2, <2>3, <3>3 DEF ObjectStore!Start, Resting
      <3> QED BY <3>4 DEF ObjectStore!StoreNext
    <2> QED BY <1>undefined, <2>1, <2>3
  <1>15. CASE UNCHANGED filesVars
    <2>1. InMemory' = InMemory /\ OnDisk' = OnDisk /\ Status' = Status
      BY <1>15, DiskSame, MemorySame DEF filesVars, Status
    <2> QED BY <1>stutter, <2>1
  <1> QED BY <1>1, <1>2, <1>3, <1>4, <1>5, <1>6, <1>7, <1>8, <1>9, <1>10, <1>11,
             <1>12, <1>13, <1>14, <1>15 DEF FilesNext

(* flush with its renames and failures, open, wipes, changes of the        *)
(* version and kills at any moment implement a state on disk that is       *)
(* replaced as a whole.                                                    *)
THEOREM FilesImplementStore == FilesSpec => ImplementsStore
  <1>1. FilesInit => ObjectStore!StoreInit
    <2> SUFFICES ASSUME FilesInit PROVE ObjectStore!StoreInit
      OBVIOUS
    <2>1. Status = "down"
      BY DEF FilesInit, Status
    <2>2. InMemory = Genesis
      BY StateOfWhole, WholeType, FilesAssumption DEF FilesInit, InMemory
    <2>3. OnDisk = Genesis
      BY DEF FilesInit, OnDisk, Exists, Names
    <2> QED BY <2>1, <2>2, <2>3 DEF ObjectStore!StoreInit
  <1>2. FilesInit => FilesInv
    BY FilesInvInit, FilesAssumption
  <1>3. FilesInv /\ [FilesNext]_filesVars => FilesInv'
    BY FilesStep, FilesAssumption
  <1>4. FilesInv /\ FilesInv' /\ [FilesNext]_filesVars => [ObjectStore!StoreNext]_ObjectStore!svars
    BY StoreStep, FilesAssumption
  <1> QED BY <1>1, <1>2, <1>3, <1>4, PTL DEF FilesSpec, ImplementsStore, ObjectStore!StoreSpec
==============================================================================
