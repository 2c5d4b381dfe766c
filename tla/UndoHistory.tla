----------------------------- MODULE UndoHistory -----------------------------
(***************************************************************************)
(* The undo database with a history variable that remembers, for every     *)
(* undo state on the stack, the contents of the object database when that  *)
(* state was pushed.  With it the undo database is shown to implement      *)
(* SnapshotStack: the differences it records are as good as full copies.   *)
(***************************************************************************)
EXTENDS UndoDatabase

VARIABLE snaps      \* snaps[i]: the contents when stack[i] was pushed

hvars == <<vars, snaps>>

Contents == [objects : Table, next_id : NextIds]
Now == [objects |-> objects, next_id |-> next_id]

AllButLast(s) == SubSeq(s, 1, Len(s) - 1)

HInit == Init /\ snaps = <<>>

HWrite ==
    /\ \/ \E ix \in Indexes, obj \in Objects : Create(ix, obj)
       \/ \E id \in Ids, d \in Data : Modify(id, d)
       \/ \E id \in Ids : Remove(id)
    /\ snaps' = IF stack = <<>> /\ ~disabled THEN <<Now>> ELSE snaps

HStart ==
    /\ \E force \in BOOLEAN : StartSession(force)
    /\ snaps' = Append(Trimmed(snaps), Now)

HDrop == (Undo \/ Merge \/ PopCommit) /\ snaps' = AllButLast(snaps)

HKeep ==
    /\ Commit \/ (\E n \in MaxSizes : SetMaxSize(n)) \/ Disable \/ Enable
    /\ snaps' = snaps

HNext == HWrite \/ HStart \/ HDrop \/ HKeep

HSpec == HInit /\ [][HNext]_hvars

-----------------------------------------------------------------------------
(* The contents just after the period that stack[i] records. *)
After(i) == IF i = Len(stack) THEN Now ELSE snaps[i + 1]

(* The entries of an undo state fit the contents it will be applied to:    *)
(* an id is in one of its three sets at most, ids it created or changed    *)
(* are present, ids it removed are absent, keys have not changed, and it   *)
(* created exactly the present objects numbered from the old next id on.   *)
Fits(state, c) ==
    /\ \A id \in Ids :
        /\ id \in state.new_ids =>
              /\ c.objects[id] # None
              /\ state.old_values[id] = None /\ state.removed[id] = None
              /\ state.old_index_next_ids[id[1]] # None
              /\ id[2] >= state.old_index_next_ids[id[1]]
        /\ state.old_values[id] # None =>
              /\ c.objects[id] # None /\ state.removed[id] = None
              /\ state.old_values[id].key = c.objects[id].key
        /\ state.removed[id] # None =>
              c.objects[id] = None /\ id[2] < c.next_id[id[1]]
        /\ (/\ \/ state.removed[id] # None
               \/ c.objects[id] # None /\ id \notin state.new_ids
            /\ state.old_index_next_ids[id[1]] # None) =>
               id[2] < state.old_index_next_ids[id[1]]
    /\ \A ix \in Indexes : state.old_index_next_ids[ix] # None =>
            state.old_index_next_ids[ix] <= c.next_id[ix]

(* Contents the program can have: numbers from the next id on are unused   *)
(* and no two objects of an index share the unique key.                    *)
Sound(c) ==
    /\ \A id \in Ids : c.objects[id] # None => id[2] < c.next_id[id[1]]
    /\ UniqueKeys(c.objects)

(* Taking the state back leads from contents c to contents p. *)
Exact(state, c, p) ==
    /\ Reverted(state, c.objects) = p.objects
    /\ RevertedNext(state, c.next_id) = p.next_id

(* Every undo state, applied to the contents that followed it, gives back  *)
(* exactly the contents at the moment it was pushed, however the writes,   *)
(* nested sessions, merges, commits, trims and pops since then went.       *)
HistoryExact ==
    /\ Len(snaps) = Len(stack)
    /\ \A i \in 1..Len(stack) : Exact(stack[i], After(i), snaps[i])

(* The states and snapshots fit each other: with HistoryExact this is the  *)
(* inductive reason why reverting never throws.                            *)
HistoryFits ==
    /\ Sound(Now)
    /\ \A i \in 1..Len(stack) : Sound(snaps[i]) /\ Fits(stack[i], After(i))

(* Recording is off only while there is no history and no session, and    *)
(* only the outermost session can be one that was forced on a disabled     *)
(* database; below such a session nothing is committed.                    *)
FlagsAgree ==
    /\ disabled => stack = <<>> /\ sessions = <<>>
    /\ \A i \in 1..Len(sessions) :
           sessions[i] => i = 1 /\ Len(stack) = Len(sessions)

(* The inductive invariant behind the properties above. *)
UndoInv ==
    /\ TypeOK
    /\ snaps \in Seq(Contents)
    /\ SessionsHaveStates
    /\ FlagsAgree
    /\ HistoryExact
    /\ HistoryFits

(* The undo database behaves as a stack of snapshots.                      *)
Snapshots == INSTANCE SnapshotStack
    WITH States <- Contents, contents <- Now, snapshots <- snaps,
         open <- active

ImplementsSnapshots == Snapshots!Spec
=============================================================================
