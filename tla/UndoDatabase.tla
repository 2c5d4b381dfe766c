---------------------------- MODULE UndoDatabase ----------------------------
(***************************************************************************)
(* graphene::db::undo_database together with the primary_index operations  *)
(* that call its hooks.                                                    *)
(*                                                                         *)
(* The object database is a table of objects per index.  Every create,     *)
(* modify and remove first tells the undo database, which records in the   *)
(* undo_state on top of its stack what is needed to take the change back.  *)
(* Sessions nest; a session is undone (also by its destructor), merged     *)
(* into the one below, or committed; a committed state can later be popped *)
(* when a block is reverted.                                               *)
(*                                                                         *)
(* An object carries a unique secondary key, fixed at creation (the uids,  *)
(* transaction ids and sequence numbers of the chain's objects), and data. *)
(***************************************************************************)
EXTENDS Integers, Sequences

CONSTANTS
    Indexes,    \* the object types, one primary_index each
    MaxNumber,  \* bound: the instance numbers of an index are 0..MaxNumber
    Keys,       \* values of the unique secondary key of an object
    Data,       \* values of the rest of an object
    MaxSizes,   \* the values the chain gives set_max_size
    MaxStack,   \* bound: the undo states the model lets accumulate
    None        \* no object, no saved value

ASSUME BoundsAssumption ==
    /\ MaxNumber \in Nat
    /\ MaxStack \in Nat
    /\ MaxSizes \subseteq Nat

Ids == Indexes \X (0..MaxNumber)
Objects == [key : Keys, data : Data]
Slot == Objects \union {None}
Table == [Ids -> Slot]
NextIds == [Indexes -> 0..(MaxNumber + 1)]

ASSUME NoneAssumption == None \notin Objects /\ None \notin Int

(***************************************************************************)
(* struct undo_state.  A map is a function that is None outside its keys.  *)
(***************************************************************************)
UndoState ==
    [old_values         : Table,
     old_index_next_ids : [Indexes -> (0..(MaxNumber + 1)) \union {None}],
     new_ids            : SUBSET Ids,
     removed            : Table]

EmptyState ==
    [old_values         |-> [id \in Ids |-> None],
     old_index_next_ids |-> [ix \in Indexes |-> None],
     new_ids            |-> {},
     removed            |-> [id \in Ids |-> None]]

VARIABLES
    objects,    \* the contents of the indexes: id -> object or None
    next_id,    \* primary_index::_next_id, the number part
    stack,      \* undo_database::_stack, newest state last
    active,     \* undo_database::_active_sessions
    sessions,   \* the live session objects, innermost last: _disable_on_exit
    disabled,   \* undo_database::_disabled
    max_size    \* undo_database::_max_size

vars == <<objects, next_id, stack, active, sessions, disabled, max_size>>

Top == stack[Len(stack)]

(* Two objects of one index never share the unique key. *)
UniqueKeys(tab) ==
    \A id1, id2 \in Ids :
        (/\ id1 # id2 /\ id1[1] = id2[1]
         /\ tab[id1] # None /\ tab[id2] # None) => tab[id1].key # tab[id2].key

Init ==
    /\ objects = [id \in Ids |-> None]
    /\ next_id = [ix \in Indexes |-> 0]
    /\ stack = <<>>
    /\ active = 0
    /\ sessions = <<>>
    /\ disabled = FALSE
    /\ max_size \in MaxSizes

-----------------------------------------------------------------------------
(***************************************************************************)
(* The three hooks, on the state that is recording.                        *)
(***************************************************************************)
on_create(state, id) ==
    [state EXCEPT
        !.old_index_next_ids[id[1]] = IF @ = None THEN id[2] ELSE @,
        !.new_ids = @ \union {id}]

OnModifyAlwaysSaves(state, id, obj) ==    \* mutant: no early return
    [state EXCEPT !.old_values[id] = obj]

on_modify(state, id, obj) ==
    IF id \in state.new_ids \/ state.old_values[id] # None
    THEN state
    ELSE [state EXCEPT !.old_values[id] = obj]

OnRemoveKeepsNew(state, id, obj) ==    \* mutant: new_ids is not consulted
    IF state.old_values[id] # None
    THEN [state EXCEPT !.removed[id] = state.old_values[id],
                       !.old_values[id] = None]
    ELSE [state EXCEPT !.removed[id] = IF @ # None THEN @ ELSE obj]

on_remove(state, id, obj) ==
    IF id \in state.new_ids
    THEN [state EXCEPT !.new_ids = @ \ {id}]
    ELSE IF state.old_values[id] # None
    THEN [state EXCEPT !.removed[id] = state.old_values[id],
                       !.old_values[id] = None]
    ELSE [state EXCEPT !.removed[id] = IF @ # None THEN @ ELSE obj]

(* The state a hook records into; on an empty stack the hook first adds   *)
(* one, which belongs to no session.  While disabled a hook does nothing.  *)
Recording == IF stack = <<>> THEN EmptyState ELSE Top

Record(state) ==
    stack' = IF disabled THEN stack
             ELSE IF stack = <<>> THEN <<state>>
             ELSE [stack EXCEPT ![Len(stack)] = state]

CreateReusesId(ix, obj) ==    \* mutant: the next id is not advanced
    LET id == <<ix, next_id[ix]>> IN
    /\ objects[id] = None
    /\ UniqueKeys([objects EXCEPT ![id] = obj])
    /\ objects' = [objects EXCEPT ![id] = obj]
    /\ Record(on_create(Recording, id))
    /\ UNCHANGED <<next_id, active, sessions, disabled, max_size>>

(* primary_index::create: the new object takes the next id; a uniqueness  *)
(* conflict throws before anything changes.                                *)
Create(ix, obj) ==
    LET id == <<ix, next_id[ix]>> IN
    /\ next_id[ix] <= MaxNumber
    /\ objects[id] = None
    /\ UniqueKeys([objects EXCEPT ![id] = obj])
    /\ objects' = [objects EXCEPT ![id] = obj]
    /\ next_id' = [next_id EXCEPT ![ix] = @ + 1]
    /\ Record(on_create(Recording, id))
    /\ UNCHANGED <<active, sessions, disabled, max_size>>

(* primary_index::modify: save_undo before the change. *)
Modify(id, d) ==
    /\ objects[id] # None
    /\ objects' = [objects EXCEPT ![id].data = d]
    /\ Record(on_modify(Recording, id, objects[id]))
    /\ UNCHANGED <<next_id, active, sessions, disabled, max_size>>

(* primary_index::remove: on_remove before the erase. *)
Remove(id) ==
    /\ objects[id] # None
    /\ objects' = [objects EXCEPT ![id] = None]
    /\ Record(on_remove(Recording, id, objects[id]))
    /\ UNCHANGED <<next_id, active, sessions, disabled, max_size>>

-----------------------------------------------------------------------------
(***************************************************************************)
(* start_undo_session(force).  Callers start a session without force only  *)
(* while the database is enabled.  They nest at most max_size + 1 deep,    *)
(* so that trimming the front never takes the state of a live session.     *)
(***************************************************************************)
ExcessOneMore(s) ==    \* mutant: >= in the loop that trims
    IF Len(s) >= max_size THEN Len(s) - max_size + 1 ELSE 0

Excess(s) == IF Len(s) > max_size THEN Len(s) - max_size ELSE 0
Trimmed(s) == SubSeq(s, Excess(s) + 1, Len(s))

StartSession(force) ==
    /\ disabled => force
    /\ Len(sessions) <= max_size
    /\ Len(stack) < MaxStack
    /\ stack' = Append(Trimmed(stack), EmptyState)
    /\ active' = active + 1
    /\ sessions' = Append(sessions, disabled)
    /\ disabled' = FALSE
    /\ UNCHANGED <<objects, next_id, max_size>>

(***************************************************************************)
(* Taking a state back, in the four passes of undo() and pop_commit().     *)
(***************************************************************************)
RestoreOld(state, tab) ==
    [id \in Ids |->
        IF state.old_values[id] # None THEN state.old_values[id] ELSE tab[id]]

DropNew(state, tab) ==
    [id \in Ids |-> IF id \in state.new_ids THEN None ELSE tab[id]]

PutBack(state, tab) ==
    [id \in Ids |->
        IF state.removed[id] # None THEN state.removed[id] ELSE tab[id]]

Reverted(state, tab) ==
    PutBack(state, DropNew(state, RestoreOld(state, tab)))

RevertedNext(state, next) ==
    [ix \in Indexes |->
        IF state.old_index_next_ids[ix] # None
        THEN state.old_index_next_ids[ix] ELSE next[ix]]

(* One of the passes throws: get_object finds no object to modify or to    *)
(* remove, or an index refuses an insert.                                  *)
RevertThrows(state, tab) ==
    LET tab1 == RestoreOld(state, tab)
        tab2 == DropNew(state, tab1)
    IN \/ \E id \in Ids : state.old_values[id] # None /\ tab[id] = None
       \/ \E id \in state.new_ids : tab1[id] = None
       \/ \E id \in Ids : state.removed[id] # None /\ tab2[id] # None
       \/ ~UniqueKeys(tab1)
       \/ ~UniqueKeys(PutBack(state, tab2))

EndSession ==
    /\ active' = active - 1
    /\ sessions' = SubSeq(sessions, 1, Len(sessions) - 1)
    /\ disabled' = (disabled \/ sessions[Len(sessions)])

(* undo(), from session::undo or the session's destructor. *)
Undo ==
    /\ active > 0
    /\ ~disabled
    /\ ~RevertThrows(Top, objects)
    /\ objects' = Reverted(Top, objects)
    /\ next_id' = RevertedNext(Top, next_id)
    /\ stack' = SubSeq(stack, 1, Len(stack) - 1)
    /\ EndSession
    /\ UNCHANGED max_size

(***************************************************************************)
(* merge(): the composition A;B of the two top states, by the 4x4 matrix   *)
(* of the comment in the code.                                             *)
(***************************************************************************)
MergedKeepsNewest(A, B) ==    \* mutant: upd + del keeps the later value
    LET created == A.new_ids \union B.new_ids
        gone(id) == B.removed[id] # None /\ id \notin created
        old(id) == IF id \in A.new_ids \/ A.old_values[id] # None
                   THEN A.old_values[id] ELSE B.old_values[id]
    IN [old_values |-> [id \in Ids |-> IF gone(id) THEN None ELSE old(id)],
        old_index_next_ids |->
            [ix \in Indexes |-> IF A.old_index_next_ids[ix] # None
                                THEN A.old_index_next_ids[ix]
                                ELSE B.old_index_next_ids[ix]],
        new_ids |-> created \ {id \in Ids : B.removed[id] # None},
        removed |-> [id \in Ids |-> IF gone(id) THEN B.removed[id]
                                    ELSE A.removed[id]]]

Merged(A, B) ==
    LET created == A.new_ids \union B.new_ids
        upd(id) == IF id \in A.new_ids \/ A.old_values[id] # None
                   THEN A.old_values[id]
                   ELSE IF B.old_values[id] # None
                   THEN B.old_values[id] ELSE None
    IN [old_values |->
            [id \in Ids |-> IF B.removed[id] # None /\ id \notin created
                            THEN None ELSE upd(id)],
        old_index_next_ids |->
            [ix \in Indexes |-> IF A.old_index_next_ids[ix] # None
                                THEN A.old_index_next_ids[ix]
                                ELSE B.old_index_next_ids[ix]],
        new_ids |-> created \ {id \in Ids : B.removed[id] # None},
        removed |->
            [id \in Ids |->
                IF B.removed[id] = None \/ id \in created THEN A.removed[id]
                ELSE IF upd(id) # None THEN upd(id) ELSE B.removed[id]]]

(* The cells the code asserts never happen: del+upd and del+del, and      *)
(* new, upd or del followed by new, which it assumes away.                 *)
MergeOutOfOrder(A, B) ==
    \/ \E id \in Ids : /\ A.removed[id] # None
                       /\ B.old_values[id] # None \/ B.removed[id] # None
    \/ \E id \in B.new_ids : \/ id \in A.new_ids
                             \/ A.old_values[id] # None
                             \/ A.removed[id] # None

Merge ==
    /\ active > 0
    /\ \/ /\ active = 1 /\ Len(stack) = 1
          /\ stack' = <<>>
       \/ /\ Len(stack) >= 2
          /\ stack' = Append(SubSeq(stack, 1, Len(stack) - 2),
                             Merged(stack[Len(stack) - 1], Top))
    /\ EndSession
    /\ UNCHANGED <<objects, next_id, max_size>>

(* Only the session around a block is committed: it is the outermost one, *)
(* and it is never forced on a disabled database.                          *)
Commit ==
    /\ active > 0
    /\ sessions = <<FALSE>>
    /\ EndSession
    /\ UNCHANGED <<objects, next_id, stack, max_size>>

(* pop_commit() ends with enable(), whatever the flag was. *)
PopCommit ==
    /\ active = 0
    /\ stack # <<>>
    /\ ~RevertThrows(Top, objects)
    /\ objects' = Reverted(Top, objects)
    /\ next_id' = RevertedNext(Top, next_id)
    /\ stack' = SubSeq(stack, 1, Len(stack) - 1)
    /\ disabled' = FALSE
    /\ UNCHANGED <<active, sessions, max_size>>

(* update_undo_db_size sets the bound while the block's session is open. *)
SetMaxSize(n) ==
    /\ Len(sessions) <= n + 1
    /\ max_size' = n
    /\ UNCHANGED <<objects, next_id, stack, active, sessions, disabled>>

(* init_genesis and reindex switch recording off and on between sessions, *)
(* with no history to keep.                                                *)
Disable ==
    /\ sessions = <<>> /\ stack = <<>>
    /\ disabled' = TRUE
    /\ UNCHANGED <<objects, next_id, stack, active, sessions, max_size>>

Enable ==
    /\ sessions = <<>>
    /\ disabled' = FALSE
    /\ UNCHANGED <<objects, next_id, stack, active, sessions, max_size>>

Next ==
    \/ \E ix \in Indexes, obj \in Objects : Create(ix, obj)
    \/ \E id \in Ids, d \in Data : Modify(id, d)
    \/ \E id \in Ids : Remove(id)
    \/ \E force \in BOOLEAN : StartSession(force)
    \/ Undo
    \/ Merge
    \/ Commit
    \/ PopCommit
    \/ \E n \in MaxSizes : SetMaxSize(n)
    \/ Disable
    \/ Enable

Spec == Init /\ [][Next]_vars

-----------------------------------------------------------------------------
(* The state has the shape of the code's members. *)
TypeOK ==
    /\ objects \in Table
    /\ next_id \in NextIds
    /\ stack \in Seq(UndoState)
    /\ active \in Nat
    /\ sessions \in Seq(BOOLEAN)
    /\ disabled \in BOOLEAN
    /\ max_size \in MaxSizes

(* Undoing or popping the newest state can always be carried out: every    *)
(* object it wants to restore or remove is there, every removed object can *)
(* be put back without meeting its own id or another object's unique key.  *)
(* An exception here would leave undo() half done inside a destructor.     *)
RevertNeverThrows ==
    stack # <<>> => ~RevertThrows(Top, objects)

(* merge() never meets a cell of its matrix marked N/A, so neither of its  *)
(* two asserts can fail.                                                   *)
MergeMatrixSound ==
    Len(stack) >= 2 => ~MergeOutOfOrder(stack[Len(stack) - 1], Top)

(* Trimming old states never takes the state of a session that is still    *)
(* open: merge() finds its two states and undo() its own.                  *)
SessionsHaveStates ==
    /\ active = Len(sessions)
    /\ active <= Len(stack)
=============================================================================
