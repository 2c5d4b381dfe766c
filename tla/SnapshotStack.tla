---------------------------- MODULE SnapshotStack ----------------------------
(***************************************************************************)
(* What the undo database promises its users: a database with a stack of   *)
(* snapshots of earlier contents.  Undoing a session and popping a commit  *)
(* bring back the newest snapshot exactly; merging and committing keep the *)
(* contents; only the oldest snapshots are ever forgotten.                 *)
(***************************************************************************)
EXTENDS Integers, Sequences

CONSTANT States     \* the possible contents of the database

VARIABLES
    contents,       \* the contents now
    snapshots,      \* earlier contents, newest last
    open            \* how many of the newest snapshots belong to sessions

vars == <<contents, snapshots, open>>

AllButLast(s) == SubSeq(s, 1, Len(s) - 1)

Init ==
    /\ contents \in States
    /\ snapshots = <<>>
    /\ open = 0

(* A write outside any session may itself start a history. *)
Write ==
    /\ contents' \in States
    /\ \/ snapshots' = snapshots
       \/ snapshots = <<>> /\ snapshots' = <<contents>>
    /\ UNCHANGED open

Start ==
    /\ \E k \in 1..(Len(snapshots) + 1) :
           snapshots' = Append(SubSeq(snapshots, k, Len(snapshots)), contents)
    /\ open' = open + 1
    /\ UNCHANGED contents

Rollback ==
    /\ open > 0 /\ snapshots # <<>>
    /\ contents' = snapshots[Len(snapshots)]
    /\ snapshots' = AllButLast(snapshots)
    /\ open' = open - 1

Join ==
    /\ open > 0 /\ snapshots # <<>>
    /\ snapshots' = AllButLast(snapshots)
    /\ open' = open - 1
    /\ UNCHANGED contents

Keep ==
    /\ open > 0
    /\ open' = open - 1
    /\ UNCHANGED <<contents, snapshots>>

PopSnapshot ==
    /\ open = 0 /\ snapshots # <<>>
    /\ contents' = snapshots[Len(snapshots)]
    /\ snapshots' = AllButLast(snapshots)
    /\ UNCHANGED open

Next == Write \/ Start \/ Rollback \/ Join \/ Keep \/ PopSnapshot

Spec == Init /\ [][Next]_vars
=============================================================================
