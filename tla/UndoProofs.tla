----------------------------- MODULE UndoProofs -----------------------------
(***************************************************************************)
(* Proofs about the undo database.  The lemmas say what one hook, one      *)
(* merge and one revert do to a single undo state and the contents around  *)
(* it; the theorems carry them through every step of the specification.    *)
(***************************************************************************)
EXTENDS UndoHistory, TLAPS

USE BoundsAssumption, NoneAssumption

(* The contents of one slot after a revert: put back, else dropped, else   *)
(* restored, else as it was.                                               *)
LEMMA RevertedAt ==
    ASSUME NEW st \in UndoState, NEW t \in Table
    PROVE  /\ Reverted(st, t) \in Table
           /\ \A id \in Ids : Reverted(st, t)[id] =
                  IF st.removed[id] # None THEN st.removed[id]
                  ELSE IF id \in st.new_ids THEN None
                  ELSE IF st.old_values[id] # None THEN st.old_values[id]
                  ELSE t[id]
  BY DEF Reverted, PutBack, DropNew, RestoreOld, UndoState, Table, Slot

(* The same for the next ids. *)
LEMMA RevertedNextAt ==
    ASSUME NEW st \in UndoState, NEW n \in NextIds
    PROVE  /\ RevertedNext(st, n) \in NextIds
           /\ \A ix \in Indexes : RevertedNext(st, n)[ix] =
                  IF st.old_index_next_ids[ix] # None
                  THEN st.old_index_next_ids[ix] ELSE n[ix]
  BY DEF RevertedNext, UndoState, NextIds

(* A fresh state undoes nothing and fits any contents. *)
LEMMA EmptyStateExact ==
    ASSUME NEW c \in Contents
    PROVE  /\ EmptyState \in UndoState
           /\ Exact(EmptyState, c, c)
           /\ Fits(EmptyState, c)
  <1>1. EmptyState \in UndoState
    BY DEF EmptyState, UndoState, Table, Slot
  <1>2. Exact(EmptyState, c, c)
    <2>1. c.objects \in Table /\ c.next_id \in NextIds
      BY DEF Contents
    <2>2. Reverted(EmptyState, c.objects) = c.objects
      BY <2>1, <1>1, RevertedAt DEF EmptyState, Table
    <2>3. RevertedNext(EmptyState, c.next_id) = c.next_id
      BY <2>1, <1>1, RevertedNextAt DEF EmptyState, NextIds
    <2> QED BY <2>2, <2>3 DEF Exact
  <1>3. Fits(EmptyState, c)
    BY DEF EmptyState, Fits, Ids
  <1> QED BY <1>1, <1>2, <1>3

-----------------------------------------------------------------------------
(* Each hook keeps the state exact: what it records takes back the write   *)
(* that goes with it, whatever the state held before.                      *)
LEMMA CreateExact ==
    ASSUME NEW st \in UndoState, NEW c \in Contents, NEW p \in Contents,
           Exact(st, c, p), Fits(st, c), Sound(c),
           NEW ix \in Indexes, NEW obj \in Objects,
           NEW id \in Ids, id = <<ix, c.next_id[ix]>>,
           NEW d, d = [objects |-> [c.objects EXCEPT ![id] = obj],
                       next_id |-> [c.next_id EXCEPT ![ix] = @ + 1]],
           UniqueKeys(d.objects)
    PROVE  /\ on_create(st, id) \in UndoState
           /\ d \in Contents
           /\ Exact(on_create(st, id), d, p)
           /\ Fits(on_create(st, id), d)
           /\ Sound(d)
  <1> DEFINE new == on_create(st, id)
  <1>1. id[1] = ix /\ id[2] = c.next_id[ix] /\ c.next_id[ix] \in 0..MaxNumber
    BY DEF Ids
  <1>2. c.objects \in Table /\ c.next_id \in NextIds
    BY DEF Contents
  <1>3. d \in Contents
    BY <1>1, <1>2 DEF Contents, Table, Slot, NextIds
  <1>4. /\ new \in UndoState
        /\ new.old_values = st.old_values /\ new.removed = st.removed
        /\ new.new_ids = st.new_ids \union {id}
        /\ \A x \in Indexes : new.old_index_next_ids[x] =
              IF x = ix /\ st.old_index_next_ids[ix] = None THEN id[2]
              ELSE st.old_index_next_ids[x]
    BY <1>1, <1>2 DEF on_create, UndoState, NextIds, Ids
  <1>5. c.objects[id] = None /\ st.old_values[id] = None
        /\ st.removed[id] = None /\ id \notin st.new_ids
    BY <1>1, <1>2 DEF Fits, Sound, NextIds
  <1>6. Reverted(new, d.objects) = Reverted(st, c.objects)
    <2>1. Reverted(new, d.objects) \in Table /\ Reverted(st, c.objects) \in Table
      BY <1>2, <1>3, <1>4, RevertedAt DEF Contents
    <2>2. ASSUME NEW i \in Ids
          PROVE  Reverted(new, d.objects)[i] = Reverted(st, c.objects)[i]
      <3>2. d.objects[i] = IF i = id THEN obj ELSE c.objects[i]
        BY <1>2 DEF Table
      <3> HIDE DEF new
      <3> QED BY <1>4, <1>5, <3>2 DEF Reverted, PutBack, DropNew, RestoreOld
    <2> HIDE DEF new
    <2> QED BY <2>1, <2>2 DEF Table
  <1>7. RevertedNext(new, d.next_id) = RevertedNext(st, c.next_id)
    <2>1. /\ RevertedNext(new, d.next_id) \in NextIds
          /\ RevertedNext(st, c.next_id) \in NextIds
      BY <1>2, <1>3, <1>4, RevertedNextAt DEF Contents
    <2>2. ASSUME NEW x \in Indexes
          PROVE  RevertedNext(new, d.next_id)[x] = RevertedNext(st, c.next_id)[x]
      <3>2. d.next_id[x] = IF x = ix THEN c.next_id[x] + 1 ELSE c.next_id[x]
        BY <1>2 DEF NextIds
      <3>3. id[2] # None
        BY <1>1, <1>2 DEF NextIds
      <3> HIDE DEF new
      <3> QED BY <1>1, <1>4, <3>2, <3>3 DEF RevertedNext
    <2> HIDE DEF new
    <2> QED BY <2>1, <2>2 DEF NextIds
  <1>8. Exact(new, d, p)
    BY <1>6, <1>7 DEF Exact
  <1>9. Fits(new, d)
    <2>1. ASSUME NEW x \in Indexes
          PROVE /\ d.next_id[x] = IF x = ix THEN c.next_id[x] + 1 ELSE c.next_id[x]
                /\ c.next_id[x] \in Nat
                /\ new.old_index_next_ids[x] # None =>
                       new.old_index_next_ids[x] \in Nat
      BY <1>2, <1>4 DEF NextIds, UndoState
    <2>2. ASSUME NEW i \in Ids
          PROVE  /\ d.objects[i] = IF i = id THEN obj ELSE c.objects[i]
                 /\ i[1] \in Indexes /\ i[2] \in Nat
      BY <1>2 DEF Table, Ids
    <2>3. obj # None /\ id[2] \in Nat /\ id[2] # None
      BY <1>1, <2>2
    <2> HIDE DEF new
    <2>4. \A x \in Indexes : new.old_index_next_ids[x] # None =>
            new.old_index_next_ids[x] <= d.next_id[x]
      BY <1>1, <1>4, <2>1, <2>3 DEF Fits
    <2>5. \A i \in Ids : i = id \/ i # id
      OBVIOUS
    <2>6. \A i \in Ids :
        /\ i \in new.new_ids =>
              /\ d.objects[i] # None
              /\ new.old_values[i] = None /\ new.removed[i] = None
              /\ new.old_index_next_ids[i[1]] # None
              /\ i[2] >= new.old_index_next_ids[i[1]]
      BY <1>1, <1>4, <1>5, <2>1, <2>2, <2>3 DEF Fits
    <2>7. \A i \in Ids :
        /\ new.old_values[i] # None =>
              /\ d.objects[i] # None /\ new.removed[i] = None
              /\ new.old_values[i].key = d.objects[i].key
        /\ new.removed[i] # None => d.objects[i] = None
      BY <1>1, <1>4, <1>5, <2>2, <2>3 DEF Fits
    <2>8. \A i \in Ids :
        /\ new.removed[i] # None => i[2] < d.next_id[i[1]]
        /\ (/\ \/ new.removed[i] # None
               \/ d.objects[i] # None /\ i \notin new.new_ids
            /\ new.old_index_next_ids[i[1]] # None) =>
               i[2] < new.old_index_next_ids[i[1]]
      BY <1>1, <1>4, <1>5, <2>1, <2>2, <2>3 DEF Fits, Sound
    <2> QED BY <2>4, <2>6, <2>7, <2>8 DEF Fits
  <1>10. Sound(d)
    BY <1>1, <1>2 DEF Sound, Table, NextIds, Ids
  <1> QED BY <1>3, <1>4, <1>8, <1>9, <1>10

(* on_modify saves the value before the first change of the session. *)
LEMMA ModifyExact ==
    ASSUME NEW st \in UndoState, NEW c \in Contents, NEW p \in Contents,
           Exact(st, c, p), Fits(st, c), Sound(c),
           NEW id \in Ids, NEW obj \in Objects,
           c.objects[id] # None, obj.key = c.objects[id].key,
           NEW d, d = [objects |-> [c.objects EXCEPT ![id] = obj],
                       next_id |-> c.next_id]
    PROVE  /\ on_modify(st, id, c.objects[id]) \in UndoState
           /\ d \in Contents
           /\ Exact(on_modify(st, id, c.objects[id]), d, p)
           /\ Fits(on_modify(st, id, c.objects[id]), d)
           /\ Sound(d)
  <1> DEFINE new == on_modify(st, id, c.objects[id])
  <1>1. c.objects \in Table /\ c.next_id \in NextIds
    BY DEF Contents
  <1>2. d \in Contents /\ d.next_id = c.next_id
        /\ \A i \in Ids : d.objects[i] = IF i = id THEN obj ELSE c.objects[i]
    BY <1>1 DEF Contents, Table, Slot
  <1>3. /\ new \in UndoState
        /\ new.removed = st.removed /\ new.new_ids = st.new_ids
        /\ new.old_index_next_ids = st.old_index_next_ids
        /\ \A i \in Ids : new.old_values[i] =
              IF i = id /\ id \notin st.new_ids /\ st.old_values[id] = None
              THEN c.objects[id] ELSE st.old_values[i]
    BY <1>1 DEF on_modify, UndoState, Table, Slot
  <1>4. id[1] \in Indexes /\ st.removed[id] = None
        /\ id[2] < c.next_id[id[1]]
    BY DEF Fits, Sound, Ids
  <1>5. Reverted(new, d.objects) = Reverted(st, c.objects)
    <2>1. ASSUME NEW i \in Ids
          PROVE  Reverted(new, d.objects)[i] = Reverted(st, c.objects)[i]
      <3> HIDE DEF new
      <3> QED BY <1>2, <1>3, <1>4 DEF Reverted, PutBack, DropNew, RestoreOld
    <2> HIDE DEF new
    <2> QED BY <2>1 DEF Reverted, PutBack
  <1>6. RevertedNext(new, d.next_id) = RevertedNext(st, c.next_id)
    BY <1>2, <1>3 DEF RevertedNext
  <1>7. Exact(new, d, p)
    BY <1>5, <1>6 DEF Exact
  <1>8. Fits(new, d)
    <2>1. obj # None /\ \A i \in Ids : i[1] \in Indexes /\ i[2] \in Nat
      BY DEF Ids
    <2>2. id \notin st.new_ids /\ st.old_values[id] = None =>
             (st.old_index_next_ids[id[1]] # None =>
                 id[2] < st.old_index_next_ids[id[1]])
      BY <1>4 DEF Fits
    <2> HIDE DEF new
    <2> QED BY <1>2, <1>3, <1>4, <2>1, <2>2 DEF Fits
  <1>9. Sound(d)
    BY <1>1, <1>2, <1>4 DEF Sound, UniqueKeys
  <1> QED BY <1>2, <1>3, <1>7, <1>8, <1>9

(* on_remove keeps the value the object had when the state was pushed. *)
LEMMA RemoveExact ==
    ASSUME NEW st \in UndoState, NEW c \in Contents, NEW p \in Contents,
           Exact(st, c, p), Fits(st, c), Sound(c),
           NEW id \in Ids, c.objects[id] # None,
           NEW d, d = [objects |-> [c.objects EXCEPT ![id] = None],
                       next_id |-> c.next_id]
    PROVE  /\ on_remove(st, id, c.objects[id]) \in UndoState
           /\ d \in Contents
           /\ Exact(on_remove(st, id, c.objects[id]), d, p)
           /\ Fits(on_remove(st, id, c.objects[id]), d)
           /\ Sound(d)
  <1> DEFINE new == on_remove(st, id, c.objects[id])
  <1>1. c.objects \in Table /\ c.next_id \in NextIds
    BY DEF Contents
  <1>2. d \in Contents /\ d.next_id = c.next_id
        /\ \A i \in Ids : d.objects[i] = IF i = id THEN None ELSE c.objects[i]
    BY <1>1 DEF Contents, Table, Slot
  <1>3. id[1] \in Indexes /\ st.removed[id] = None
        /\ id[2] < c.next_id[id[1]]
    BY DEF Fits, Sound, Ids
  <1>4. /\ new \in UndoState
        /\ new.new_ids = st.new_ids \ {id}
        /\ new.old_index_next_ids = st.old_index_next_ids
        /\ \A i \in Ids : new.old_values[i] =
              IF i = id /\ id \notin st.new_ids THEN None ELSE st.old_values[i]
        /\ \A i \in Ids : new.removed[i] =
              IF i = id /\ id \notin st.new_ids
              THEN IF st.old_values[id] # None
                   THEN st.old_values[id] ELSE c.objects[id]
              ELSE st.removed[i]
    <2>1. CASE id \in st.new_ids
      BY <2>1 DEF on_remove, UndoState
    <2>2. CASE id \notin st.new_ids /\ st.old_values[id] # None
      BY <2>2 DEF on_remove, UndoState, Table, Slot
    <2>3. CASE id \notin st.new_ids /\ st.old_values[id] = None
      BY <1>1, <1>3, <2>3 DEF on_remove, UndoState, Table, Slot
    <2> QED BY <2>1, <2>2, <2>3
  <1>5. Reverted(new, d.objects) = Reverted(st, c.objects)
    <2>1. ASSUME NEW i \in Ids
          PROVE  Reverted(new, d.objects)[i] = Reverted(st, c.objects)[i]
      <3>1. i = id /\ id \in st.new_ids => st.old_values[i] = None
        BY DEF Fits
      <3> HIDE DEF new
      <3> QED BY <1>2, <1>3, <1>4, <3>1
              DEF Reverted, PutBack, DropNew, RestoreOld
    <2> HIDE DEF new
    <2> QED BY <2>1 DEF Reverted, PutBack
  <1>6. RevertedNext(new, d.next_id) = RevertedNext(st, c.next_id)
    BY <1>2, <1>4 DEF RevertedNext
  <1>7. Exact(new, d, p)
    BY <1>5, <1>6 DEF Exact
  <1>8. Fits(new, d)
    <2>1. \A i \in Ids : i[1] \in Indexes /\ i[2] \in Nat
      BY DEF Ids
    <2> HIDE DEF new
    <2> QED BY <1>2, <1>3, <1>4, <2>1 DEF Fits
  <1>9. Sound(d)
    BY <1>1, <1>2 DEF Sound, UniqueKeys
  <1> QED BY <1>2, <1>4, <1>7, <1>8, <1>9

-----------------------------------------------------------------------------
(* A revert from contents the state fits, to sound contents, meets none of *)
(* the exceptions of undo() and pop_commit().                              *)
LEMMA RevertSafe ==
    ASSUME NEW st \in UndoState, NEW c \in Contents, NEW p \in Contents,
           Exact(st, c, p), Fits(st, c), Sound(c), Sound(p)
    PROVE  ~RevertThrows(st, c.objects)
  <1> DEFINE tab1 == RestoreOld(st, c.objects)
             tab2 == DropNew(st, tab1)
  <1>1. \A id \in Ids : st.old_values[id] # None => c.objects[id] # None
    BY DEF Fits
  <1>2. \A id \in st.new_ids : tab1[id] # None
    BY DEF Fits, RestoreOld, UndoState
  <1>3. \A id \in Ids : st.removed[id] # None => tab2[id] = None
    BY DEF Fits, RestoreOld, DropNew
  <1>4. UniqueKeys(tab1)
    BY DEF Fits, RestoreOld, Sound, UniqueKeys
  <1>5. UniqueKeys(PutBack(st, tab2))
    BY DEF Exact, Reverted, Sound
  <1> QED BY <1>1, <1>2, <1>3, <1>4, <1>5 DEF RevertThrows

(* The matrix of merge(): the merged state takes back in one revert what   *)
(* the two states take back one after the other, and no N/A cell occurs.   *)
LEMMA MergeExact ==
    ASSUME NEW A \in UndoState, NEW B \in UndoState,
           NEW c \in Contents, NEW m \in Contents, NEW p \in Contents,
           Exact(B, c, m), Fits(B, c), Sound(m),
           Exact(A, m, p), Fits(A, m)
    PROVE  /\ ~MergeOutOfOrder(A, B)
           /\ Merged(A, B) \in UndoState
           /\ Exact(Merged(A, B), c, p)
           /\ Fits(Merged(A, B), c)
  <1> DEFINE M == Merged(A, B)
  <1>1. \A id \in Ids : m.objects[id] =
            IF B.removed[id] # None THEN B.removed[id]
            ELSE IF id \in B.new_ids THEN None
            ELSE IF B.old_values[id] # None THEN B.old_values[id]
            ELSE c.objects[id]
    BY DEF Exact, Reverted, PutBack, DropNew, RestoreOld
  <1>2. \A ix \in Indexes : m.next_id[ix] =
            IF B.old_index_next_ids[ix] # None
            THEN B.old_index_next_ids[ix] ELSE c.next_id[ix]
    BY DEF Exact, RevertedNext
  <1>3. \A id \in Ids : id[1] \in Indexes /\ id[2] \in Nat
    BY DEF Ids
  <1>4. ~MergeOutOfOrder(A, B)
    BY <1>1, <1>2, <1>3 DEF MergeOutOfOrder, Fits, UndoState
  <1>5. \A id \in Ids :
          /\ id \in M.new_ids <=>
                (id \in A.new_ids \/ id \in B.new_ids) /\ B.removed[id] = None
          /\ M.old_values[id] =
                IF B.removed[id] # None /\ id \notin A.new_ids THEN None
                ELSE IF id \in A.new_ids \/ A.old_values[id] # None
                THEN A.old_values[id] ELSE B.old_values[id]
          /\ M.removed[id] =
                IF B.removed[id] = None \/ id \in A.new_ids THEN A.removed[id]
                ELSE IF A.old_values[id] # None THEN A.old_values[id]
                ELSE B.removed[id]
    <2>1. \A id \in Ids : B.removed[id] # None =>
             id \notin B.new_ids /\ B.old_values[id] = None
      BY DEF Fits
    <2> QED BY <2>1 DEF Merged, UndoState
  <1>6. \A ix \in Indexes : M.old_index_next_ids[ix] =
          IF A.old_index_next_ids[ix] # None
          THEN A.old_index_next_ids[ix] ELSE B.old_index_next_ids[ix]
    BY DEF Merged
  <1>7. M \in UndoState
    BY DEF Merged, UndoState, Table, Slot
  <1> HIDE DEF M
  <1>8. Reverted(M, c.objects) = p.objects
    <2>1. ASSUME NEW id \in Ids
          PROVE  Reverted(M, c.objects)[id] = Reverted(A, m.objects)[id]
      <3>1. /\ A.removed[id] # None =>
                   B.removed[id] = None /\ B.old_values[id] = None
                   /\ id \notin B.new_ids
            /\ id \in B.new_ids => id \notin A.new_ids /\ A.old_values[id] = None
        BY <1>4 DEF MergeOutOfOrder
      <3>2. /\ id \in A.new_ids => A.old_values[id] = None /\ A.removed[id] = None
            /\ A.old_values[id] # None => A.removed[id] = None
            /\ id \in B.new_ids => B.old_values[id] = None /\ B.removed[id] = None
            /\ B.old_values[id] # None => B.removed[id] = None
            /\ B.removed[id] # None => c.objects[id] = None
        BY DEF Fits
      <3> QED BY <1>1, <1>5, <3>1, <3>2
              DEF Reverted, PutBack, DropNew, RestoreOld
    <2>2. Reverted(M, c.objects) = Reverted(A, m.objects)
      BY <2>1 DEF Reverted, PutBack
    <2> QED BY <2>2 DEF Exact
  <1>9. RevertedNext(M, c.next_id) = p.next_id
    <2>1. ASSUME NEW ix \in Indexes
          PROVE  RevertedNext(M, c.next_id)[ix] = RevertedNext(A, m.next_id)[ix]
      BY <1>2, <1>6 DEF RevertedNext
    <2>2. RevertedNext(M, c.next_id) = RevertedNext(A, m.next_id)
      BY <2>1 DEF RevertedNext
    <2> QED BY <2>2 DEF Exact
  <1>10. Fits(M, c)
    <2>1. \A ix \in Indexes :
             /\ c.next_id[ix] \in Nat
             /\ A.old_index_next_ids[ix] # None => A.old_index_next_ids[ix] \in Nat
             /\ B.old_index_next_ids[ix] # None => B.old_index_next_ids[ix] \in Nat
      BY DEF Contents, NextIds, UndoState
    <2>2. \A ix \in Indexes : M.old_index_next_ids[ix] # None =>
             M.old_index_next_ids[ix] <= c.next_id[ix]
      BY <1>2, <1>6, <2>1 DEF Fits
    <2>3. ASSUME NEW id \in Ids, id \in M.new_ids
          PROVE  /\ c.objects[id] # None
                 /\ M.old_values[id] = None /\ M.removed[id] = None
                 /\ M.old_index_next_ids[id[1]] # None
                 /\ id[2] >= M.old_index_next_ids[id[1]]
      BY <1>1, <1>2, <1>3, <1>4, <1>5, <1>6, <2>1, <2>3
         DEF Fits, MergeOutOfOrder
    <2>4. ASSUME NEW id \in Ids, M.old_values[id] # None
          PROVE  /\ c.objects[id] # None /\ M.removed[id] = None
                 /\ M.old_values[id].key = c.objects[id].key
      BY <1>1, <1>4, <1>5, <2>4 DEF Fits, MergeOutOfOrder
    <2>5. ASSUME NEW id \in Ids, M.removed[id] # None
          PROVE  c.objects[id] = None /\ id[2] < c.next_id[id[1]]
      BY <1>1, <1>2, <1>3, <1>4, <1>5, <2>1, <2>5 DEF Fits, MergeOutOfOrder
    <2>6. ASSUME NEW id \in Ids,
                 \/ M.removed[id] # None
                 \/ c.objects[id] # None /\ id \notin M.new_ids,
                 M.old_index_next_ids[id[1]] # None
          PROVE  id[2] < M.old_index_next_ids[id[1]]
      BY <1>1, <1>2, <1>3, <1>4, <1>5, <1>6, <2>1, <2>6
         DEF Fits, MergeOutOfOrder, Sound
    <2> QED BY <2>2, <2>3, <2>4, <2>5, <2>6 DEF Fits
  <1> QED BY <1>4, <1>7, <1>8, <1>9, <1>10 DEF Exact, M

-----------------------------------------------------------------------------
(***************************************************************************)
(* The inductive invariant.  It speaks of each level of the stack and its  *)
(* two neighbouring contents only, so a step has to be argued for the top  *)
(* one or two levels.                                                      *)
(***************************************************************************)
LEMMA InitInv == HInit => UndoInv
  <1> SUFFICES ASSUME HInit PROVE UndoInv
    OBVIOUS
  <1> USE DEF HInit, Init
  <1>1. TypeOK
    <2>1. stack \in Seq(UndoState) /\ sessions \in Seq(BOOLEAN)
      OBVIOUS
    <2>2. objects \in Table /\ next_id \in NextIds
      BY DEF Table, Slot, NextIds
    <2> QED BY <2>1, <2>2 DEF TypeOK
  <1>2. HistoryExact /\ HistoryFits
    BY DEF HistoryExact, HistoryFits, Sound, UniqueKeys, Now
  <1> QED BY <1>1, <1>2 DEF UndoInv, SessionsHaveStates, FlagsAgree

(* Any write whose hook keeps the recording state exact keeps the history. *)
LEMMA WriteKeeps ==
    ASSUME UndoInv,
           NEW st \in UndoState, Now' \in Contents,
           Exact(st, Now', IF stack = <<>> THEN Now ELSE snaps[Len(stack)]),
           Fits(st, Now'), Sound(Now'),
           Record(st),
           snaps' = IF stack = <<>> /\ ~disabled THEN <<Now>> ELSE snaps,
           UNCHANGED <<active, sessions, disabled, max_size>>
    PROVE  UndoInv'
  <1> USE DEF UndoInv
  <1>1. objects' \in Table /\ next_id' \in NextIds /\ Now \in Contents
    BY DEF Now, Contents, TypeOK
  <1>2. stack' \in Seq(UndoState) /\ Len(stack') = IF stack = <<>> /\ ~disabled
                                                  THEN 1 ELSE Len(stack)
    BY DEF Record, TypeOK
  <1>3. TypeOK'
    BY <1>1, <1>2 DEF TypeOK
  <1>4. snaps' \in Seq(Contents)
    BY <1>1
  <1>5. SessionsHaveStates' /\ FlagsAgree'
    BY <1>2 DEF SessionsHaveStates, FlagsAgree, Record, TypeOK
  <1>6. HistoryExact' /\ HistoryFits'
    <2>1. CASE disabled
      BY <2>1 DEF HistoryExact, HistoryFits, FlagsAgree, Record
    <2>2. CASE ~disabled /\ stack = <<>>
      <3>1. stack' = <<st>> /\ snaps' = <<Now>>
        BY <2>2 DEF Record
      <3>2. After(1)' = Now'
        BY <3>1 DEF After
      <3> QED BY <2>2, <3>1, <3>2 DEF HistoryExact, HistoryFits
    <2>3. CASE ~disabled /\ stack # <<>>
      <3>1. /\ snaps' = snaps /\ Len(stack') = Len(stack)
            /\ Len(stack) \in Nat \ {0}
            /\ \A i \in 1..Len(stack) :
                  stack'[i] = IF i = Len(stack) THEN st ELSE stack[i]
        BY <2>3 DEF Record, TypeOK
      <3>2. \A i \in 1..Len(stack) :
               After(i)' = IF i = Len(stack) THEN Now' ELSE After(i)
        BY <3>1 DEF After
      <3> QED BY <2>3, <3>1, <3>2 DEF HistoryExact, HistoryFits
    <2> QED BY <2>1, <2>2, <2>3
  <1> QED BY <1>3, <1>4, <1>5, <1>6

LEMMA HWriteKeeps == ASSUME UndoInv, HWrite PROVE UndoInv'
  <1> USE DEF UndoInv
  <1> DEFINE p == IF stack = <<>> THEN Now ELSE snaps[Len(stack)]
  <1>1. Now \in Contents /\ Sound(Now) /\ p \in Contents
    <2>1. Now \in Contents /\ Sound(Now)
      BY DEF Now, Contents, TypeOK, HistoryFits
    <2>2. stack # <<>> => Len(stack) \in 1..Len(snaps)
      BY DEF TypeOK, HistoryExact
    <2> QED BY <2>1, <2>2
  <1>2. /\ Recording \in UndoState
        /\ Exact(Recording, Now, p) /\ Fits(Recording, Now)
    <2>1. CASE stack = <<>>
      BY <1>1, <2>1, EmptyStateExact DEF Recording
    <2>2. CASE stack # <<>>
      BY <2>2 DEF Recording, Top, TypeOK, HistoryExact, HistoryFits, After
    <2> QED BY <2>1, <2>2
  <1>3. ASSUME NEW ix \in Indexes, NEW obj \in Objects, Create(ix, obj)
        PROVE  UndoInv'
    <2> DEFINE id == <<ix, next_id[ix]>>
    <2>1. Now' = [objects |-> [objects EXCEPT ![id] = obj],
                  next_id |-> [next_id EXCEPT ![ix] = @ + 1]]
      BY <1>3 DEF Create, Now
    <2>2. /\ on_create(Recording, id) \in UndoState
          /\ Now' \in Contents
          /\ Exact(on_create(Recording, id), Now', p)
          /\ Fits(on_create(Recording, id), Now')
          /\ Sound(Now')
      <3> HIDE DEF UndoInv, p
      <3>1. next_id[ix] <= MaxNumber /\ UniqueKeys(Now'.objects)
        BY <1>3, <2>1 DEF Create
      <3>3. id \in Ids
        BY <3>1 DEF UndoInv, TypeOK, NextIds, Ids
      <3>2. /\ id = <<ix, Now.next_id[ix]>>
            /\ Now' = [objects |-> [Now.objects EXCEPT ![id] = obj],
                       next_id |-> [Now.next_id EXCEPT ![ix] = @ + 1]]
        BY <2>1 DEF Now
      <3> HIDE DEF id
      <3> QED BY <1>1, <1>2, <3>1, <3>2, <3>3, CreateExact
    <2> QED BY <1>3, <2>2, WriteKeeps DEF Create, HWrite
  <1>4. ASSUME NEW id \in Ids, NEW d \in Data, Modify(id, d)
        PROVE  UndoInv'
    <2> DEFINE obj == [objects[id] EXCEPT !.data = d]
    <2>1. objects[id] \in Objects /\ obj \in Objects /\ obj.key = objects[id].key
      BY <1>4 DEF Modify, TypeOK, Table, Slot, Objects
    <2>2. Now' = [objects |-> [objects EXCEPT ![id] = obj], next_id |-> next_id]
      BY <1>4 DEF Modify, Now
    <2>3. /\ on_modify(Recording, id, objects[id]) \in UndoState
          /\ Now' \in Contents
          /\ Exact(on_modify(Recording, id, objects[id]), Now', p)
          /\ Fits(on_modify(Recording, id, objects[id]), Now')
          /\ Sound(Now')
      <3> HIDE DEF UndoInv, p, obj
      <3>1. objects[id] # None
        BY <1>4 DEF Modify
      <3>2. Now.objects = objects /\ Now.next_id = next_id
        BY DEF Now
      <3> QED BY <1>1, <1>2, <2>1, <2>2, <3>1, <3>2, ModifyExact
    <2> QED BY <1>4, <2>3, WriteKeeps DEF Modify, HWrite
  <1>5. ASSUME NEW id \in Ids, Remove(id)
        PROVE  UndoInv'
    <2>1. Now' = [objects |-> [objects EXCEPT ![id] = None], next_id |-> next_id]
      BY <1>5 DEF Remove, Now
    <2>2. /\ on_remove(Recording, id, objects[id]) \in UndoState
          /\ Now' \in Contents
          /\ Exact(on_remove(Recording, id, objects[id]), Now', p)
          /\ Fits(on_remove(Recording, id, objects[id]), Now')
          /\ Sound(Now')
      <3> HIDE DEF UndoInv, p
      <3>1. objects[id] # None
        BY <1>5 DEF Remove
      <3>2. Now.objects = objects /\ Now.next_id = next_id
        BY DEF Now
      <3> QED BY <1>1, <1>2, <2>1, <3>1, <3>2, RemoveExact
    <2> QED BY <1>5, <2>2, WriteKeeps DEF Remove, HWrite
  <1> QED BY <1>3, <1>4, <1>5 DEF HWrite

(* What trimming the front of a sequence leaves. *)
LEMMA TrimmedAt ==
    ASSUME NEW S, NEW s \in Seq(S), max_size \in Nat
    PROVE  /\ Excess(s) \in 0..Len(s)
           /\ Trimmed(s) \in Seq(S) /\ Len(Trimmed(s)) = Len(s) - Excess(s)
           /\ \A i \in 1..(Len(s) - Excess(s)) : Trimmed(s)[i] = s[i + Excess(s)]
  <1>1. Len(s) \in Nat /\ Excess(s) \in 0..Len(s)
    BY DEF Excess
  <1> QED BY <1>1 DEF Trimmed

LEMMA HStartKeeps == ASSUME UndoInv, HStart PROVE UndoInv'
  <1> DEFINE k == Excess(stack)
             n == Len(stack)
  <1>1. /\ Len(sessions) <= max_size
        /\ stack' = Append(Trimmed(stack), EmptyState)
        /\ active' = active + 1
        /\ sessions' = Append(sessions, disabled)
        /\ disabled' = FALSE
        /\ objects' = objects /\ next_id' = next_id /\ max_size' = max_size
    BY Zenon DEF HStart, StartSession
  <1>2. Now \in Contents /\ Now' = Now
    BY <1>1 DEF UndoInv, Now, Contents, TypeOK
  <1>3. max_size \in Nat /\ stack \in Seq(UndoState) /\ snaps \in Seq(Contents)
        /\ sessions \in Seq(BOOLEAN) /\ disabled \in BOOLEAN
        /\ EmptyState \in UndoState
    BY <1>2, EmptyStateExact DEF UndoInv, TypeOK
  <1>4. n \in Nat /\ Len(snaps) = n /\ Len(sessions) \in Nat
    BY <1>3 DEF UndoInv, HistoryExact
  <1>5. /\ k \in 0..n
        /\ stack' \in Seq(UndoState) /\ Len(stack') = n - k + 1
        /\ \A i \in 1..Len(stack') :
              stack'[i] = IF i = Len(stack') THEN EmptyState ELSE stack[i + k]
    <2>1. /\ k \in 0..n /\ Trimmed(stack) \in Seq(UndoState)
          /\ Len(Trimmed(stack)) = n - k
          /\ \A i \in 1..(n - k) : Trimmed(stack)[i] = stack[i + k]
      BY <1>3, TrimmedAt
    <2> HIDE DEF k, n
    <2> QED BY <1>1, <1>3, <1>4, <2>1
  <1>6. snaps' = Append(Trimmed(snaps), Now) /\ Excess(snaps) = k
    BY <1>4 DEF HStart, Excess
  <1>7. /\ snaps' \in Seq(Contents) /\ Len(snaps') = n - k + 1
        /\ \A i \in 1..Len(snaps') :
              snaps'[i] = IF i = Len(snaps') THEN Now ELSE snaps[i + k]
    <2>1. /\ k \in 0..n /\ Trimmed(snaps) \in Seq(Contents)
          /\ Len(Trimmed(snaps)) = n - k
          /\ \A i \in 1..(n - k) : Trimmed(snaps)[i] = snaps[i + k]
      BY <1>3, <1>4, <1>6, TrimmedAt
    <2> HIDE DEF k, n
    <2> QED BY <1>2, <1>4, <1>6, <2>1, SMTT(30)
  <1>8. k \in Nat /\ Len(stack') = n - k + 1 /\ Len(snaps') = n - k + 1 /\ k <= n
    BY <1>4, <1>5, <1>7
  <1>9. /\ sessions' \in Seq(BOOLEAN) /\ Len(sessions') = Len(sessions) + 1
        /\ \A i \in 1..Len(sessions) : sessions'[i] = sessions[i]
        /\ sessions'[Len(sessions) + 1] = disabled
    BY <1>1, <1>3
  <1>10. TypeOK'
    <2>1. active' \in Nat
      BY <1>1 DEF UndoInv, TypeOK
    <2> QED BY <1>1, <1>5, <1>9, <2>1 DEF UndoInv, TypeOK
  <1>11. SessionsHaveStates'
    <2>1. active = Len(sessions) /\ active <= n
      BY DEF UndoInv, SessionsHaveStates
    <2>2. n <= max_size => k = 0
      BY <1>3, <1>4 DEF Excess
    <2>3. n > max_size => n - k = max_size
      BY <1>3, <1>4 DEF Excess
    <2> HIDE DEF k, n
    <2>4. active + 1 <= n - k + 1
      BY <1>1, <1>3, <1>4, <1>8, <2>1, <2>2, <2>3
    <2> QED BY <1>1, <1>8, <1>9, <2>1, <2>4 DEF SessionsHaveStates
  <1> HIDE DEF k, n
  <1>12. FlagsAgree'
    <2>1. ASSUME NEW i \in 1..Len(sessions'), sessions'[i]
          PROVE  i = 1 /\ Len(stack') = Len(sessions')
      <3>1. CASE i = Len(sessions) + 1
        <4>1. disabled
          <5>1. sessions'[i] = disabled
            BY <1>9, <3>1
          <5> QED BY <2>1, <5>1
        <4>2. stack = <<>> /\ sessions = <<>>
          BY <4>1 DEF UndoInv, FlagsAgree
        <4> QED BY <1>4, <1>8, <1>9, <3>1, <4>2 DEF n
      <3>2. CASE i \in 1..Len(sessions)
        <4>1. sessions[i] /\ i = 1 /\ n = Len(sessions)
          BY <1>9, <2>1, <3>2 DEF UndoInv, FlagsAgree, n
        <4>2. k = 0
          BY <1>1, <1>3, <1>4, <4>1 DEF k, n, Excess
        <4> QED BY <1>8, <1>9, <4>1, <4>2
      <3> QED BY <1>4, <1>9, <3>1, <3>2
    <2> QED BY <1>1, <2>1 DEF FlagsAgree
  <1>13. \A i \in 1..(n - k + 1) :
           After(i)' = IF i = n - k + 1 THEN Now ELSE After(i + k)
    <2>1. ASSUME NEW i \in 1..(n - k + 1)
          PROVE  After(i)' = IF i = n - k + 1 THEN Now ELSE After(i + k)
      <3>1. CASE i = n - k + 1
        BY <1>2, <1>8, <3>1 DEF After
      <3>2. CASE i # n - k + 1
        <4>1. i + 1 \in 1..(n - k + 1) /\ i + k \in 1..n
          BY <1>4, <1>8, <3>2
        <4>2. After(i)' = snaps'[i + 1]
          BY <1>8, <3>2 DEF After
        <4>3. i + k = n => snaps'[i + 1] = Now
          BY <1>4, <1>7, <1>8, <3>2, <4>1
        <4>4. i + k # n => snaps'[i + 1] = snaps[i + k + 1]
          BY <1>4, <1>7, <1>8, <3>2, <4>1
        <4> QED BY <3>2, <4>2, <4>3, <4>4 DEF After, n
      <3> QED BY <3>1, <3>2
    <2> QED BY <2>1
  <1>14. Exact(EmptyState, Now, Now) /\ Fits(EmptyState, Now)
    BY <1>2, EmptyStateExact
  <1>15. ASSUME NEW i \in 1..(n - k + 1)
         PROVE  /\ Exact(stack'[i], After(i)', snaps'[i])
                /\ Sound(snaps'[i]) /\ Fits(stack'[i], After(i)')
    <2>1. CASE i = n - k + 1
      BY <1>5, <1>7, <1>8, <1>13, <1>14, <2>1 DEF UndoInv, HistoryFits
    <2>2. CASE i # n - k + 1
      <3>1. i + k \in 1..n
        BY <1>4, <1>8, <2>2
      <3>2. stack'[i] = stack[i + k] /\ snaps'[i] = snaps[i + k]
            /\ After(i)' = After(i + k)
        BY <1>5, <1>7, <1>8, <1>13, <2>2
      <3> QED BY <3>1, <3>2 DEF UndoInv, HistoryExact, HistoryFits, n
    <2> QED BY <2>1, <2>2
  <1>16. Sound(Now')
    BY <1>2 DEF UndoInv, HistoryFits
  <1> QED BY <1>7, <1>8, <1>10, <1>11, <1>12, <1>15, <1>16
          DEF UndoInv, HistoryExact, HistoryFits

(* Ending the innermost session keeps the flags in order. *)
LEMMA EndKeeps ==
    ASSUME UndoInv, active > 0, EndSession,
           Len(stack') = Len(stack) - 1
    PROVE  /\ active' \in Nat /\ sessions' \in Seq(BOOLEAN)
           /\ disabled' \in BOOLEAN
           /\ SessionsHaveStates'
           /\ FlagsAgree'
  <1> USE DEF UndoInv
  <1>1. /\ Len(sessions) \in Nat \ {0} /\ active = Len(sessions)
        /\ Len(stack) \in Nat /\ active <= Len(stack) /\ ~disabled
    BY DEF TypeOK, SessionsHaveStates, FlagsAgree
  <1>2. /\ sessions' \in Seq(BOOLEAN) /\ Len(sessions') = Len(sessions) - 1
        /\ \A i \in 1..Len(sessions') : sessions'[i] = sessions[i]
    BY <1>1 DEF EndSession, TypeOK
  <1>3. active' \in Nat /\ active' = active - 1
    BY <1>1 DEF EndSession
  <1>4. disabled' = sessions[Len(sessions)] /\ disabled' \in BOOLEAN
    <2>1. sessions[Len(sessions)] \in BOOLEAN
      BY <1>1 DEF TypeOK
    <2> QED BY <1>1, <2>1, Zenon DEF EndSession
  <1>5. SessionsHaveStates'
    BY <1>1, <1>2, <1>3 DEF SessionsHaveStates
  <1>6. disabled' => Len(sessions) = 1 /\ Len(stack) = 1
    <2>1. sessions[Len(sessions)] => Len(sessions) = 1 /\ Len(stack) = 1
      BY <1>1 DEF FlagsAgree
    <2> QED BY <1>4, <2>1
  <1>7. FlagsAgree'
    BY <1>1, <1>2, <1>6 DEF FlagsAgree
  <1> QED BY <1>2, <1>3, <1>4, <1>5, <1>7

(* Removing the newest level and going back to its snapshot. *)
LEMMA RevertKeeps ==
    ASSUME UndoInv, stack # <<>>,
           objects' = Reverted(Top, objects),
           next_id' = RevertedNext(Top, next_id),
           stack' = SubSeq(stack, 1, Len(stack) - 1),
           snaps' = AllButLast(snaps)
    PROVE  /\ Now' = snaps[Len(stack)]
           /\ Now' \in Contents
           /\ stack' \in Seq(UndoState) /\ Len(stack') = Len(stack) - 1
           /\ snaps' \in Seq(Contents)
           /\ HistoryExact' /\ HistoryFits'
  <1> DEFINE n == Len(stack)
  <1>1. n \in Nat /\ n >= 1 /\ Len(snaps) = n
        /\ stack \in Seq(UndoState) /\ snaps \in Seq(Contents)
    BY DEF UndoInv, TypeOK, HistoryExact
  <1>2. Now' = snaps[n] /\ snaps[n] \in Contents
    <2>1. Exact(stack[n], Now, snaps[n]) /\ snaps[n] \in Contents
      BY <1>1 DEF UndoInv, HistoryExact, After
    <2>2. objects' = snaps[n].objects /\ next_id' = snaps[n].next_id
      BY <2>1 DEF Exact, Now, Top
    <2> QED BY <2>1, <2>2 DEF Now, Contents
  <1>3. /\ stack' \in Seq(UndoState) /\ Len(stack') = n - 1
        /\ \A i \in 1..(n - 1) : stack'[i] = stack[i]
    BY <1>1
  <1>4. /\ snaps' \in Seq(Contents) /\ Len(snaps') = n - 1
        /\ \A i \in 1..(n - 1) : snaps'[i] = snaps[i]
    BY <1>1 DEF AllButLast
  <1> HIDE DEF n
  <1>5. ASSUME NEW i \in 1..(n - 1)
        PROVE  After(i)' = After(i) /\ i \in 1..n
    <2>1. CASE i = n - 1
      BY <1>1, <1>2, <1>3, <2>1 DEF After, n
    <2>2. CASE i # n - 1
      BY <1>1, <1>3, <1>4, <2>2 DEF After, n
    <2> QED BY <2>1, <2>2
  <1>6. HistoryExact'
    BY <1>3, <1>4, <1>5 DEF UndoInv, HistoryExact, n
  <1>7. HistoryFits'
    <2>1. Sound(Now')
      BY <1>1, <1>2 DEF UndoInv, HistoryFits, n
    <2> QED BY <1>3, <1>4, <1>5, <2>1 DEF UndoInv, HistoryFits, n
  <1> QED BY <1>2, <1>3, <1>4, <1>6, <1>7 DEF n

LEMMA UndoKeeps ==
    ASSUME UndoInv, Undo, snaps' = AllButLast(snaps)
    PROVE  UndoInv' /\ Now' = snaps[Len(snaps)]
  <1>1. stack # <<>> /\ Len(snaps) = Len(stack)
    BY DEF UndoInv, Undo, SessionsHaveStates, TypeOK, HistoryExact
  <1>2. /\ Now' = snaps[Len(stack)]
        /\ Now' \in Contents
        /\ stack' \in Seq(UndoState) /\ Len(stack') = Len(stack) - 1
        /\ snaps' \in Seq(Contents)
        /\ HistoryExact' /\ HistoryFits'
    BY <1>1, RevertKeeps DEF Undo
  <1>3. /\ active' \in Nat /\ sessions' \in Seq(BOOLEAN)
        /\ disabled' \in BOOLEAN
        /\ SessionsHaveStates' /\ FlagsAgree'
    BY <1>2, EndKeeps DEF Undo
  <1>4. TypeOK'
    BY <1>2, <1>3 DEF UndoInv, TypeOK, Now, Contents, Undo
  <1> QED BY <1>1, <1>2, <1>3, <1>4 DEF UndoInv

LEMMA PopKeeps ==
    ASSUME UndoInv, PopCommit, snaps' = AllButLast(snaps)
    PROVE  UndoInv' /\ Now' = snaps[Len(snaps)]
  <1>1. stack # <<>> /\ Len(snaps) = Len(stack) /\ Len(stack) \in Nat
    BY DEF UndoInv, PopCommit, TypeOK, HistoryExact
  <1>2. /\ Now' = snaps[Len(stack)]
        /\ Now' \in Contents
        /\ stack' \in Seq(UndoState) /\ Len(stack') = Len(stack) - 1
        /\ snaps' \in Seq(Contents)
        /\ HistoryExact' /\ HistoryFits'
    BY <1>1, RevertKeeps DEF PopCommit
  <1>3. /\ active' = 0 /\ active = 0 /\ sessions' = sessions
        /\ disabled' = FALSE /\ max_size' = max_size
    BY DEF PopCommit
  <1>4. Len(sessions) = 0 /\ stack # <<>>
    BY <1>1, <1>3 DEF UndoInv, SessionsHaveStates
  <1>5. SessionsHaveStates'
    BY <1>1, <1>2, <1>3, <1>4 DEF SessionsHaveStates
  <1>6. FlagsAgree'
    BY <1>3, <1>4 DEF FlagsAgree
  <1>7. TypeOK'
    BY <1>2, <1>3 DEF UndoInv, TypeOK, Now, Contents
  <1> QED BY <1>1, <1>2, <1>5, <1>6, <1>7 DEF UndoInv

LEMMA MergeKeeps ==
    ASSUME UndoInv, Merge, snaps' = AllButLast(snaps)
    PROVE  UndoInv' /\ Now' = Now
  <1> DEFINE n == Len(stack)
             M == Merged(stack[n - 1], stack[n])
  <1>1. /\ n \in Nat /\ n >= 1 /\ Len(snaps) = n
        /\ stack \in Seq(UndoState) /\ snaps \in Seq(Contents)
    BY DEF UndoInv, TypeOK, HistoryExact, Merge, SessionsHaveStates
  <1>2. /\ snaps' \in Seq(Contents) /\ Len(snaps') = n - 1
        /\ \A i \in 1..(n - 1) : snaps'[i] = snaps[i]
    BY <1>1 DEF AllButLast
  <1>3. Now' = Now /\ Now \in Contents /\ Sound(Now)
    BY DEF UndoInv, TypeOK, Now, Contents, Merge, HistoryFits
  <1>4. /\ stack' \in Seq(UndoState) /\ Len(stack') = n - 1
        /\ HistoryExact' /\ HistoryFits'
    <2>1. CASE stack' = <<>> /\ n = 1
      BY <1>2, <1>3, <2>1 DEF HistoryExact, HistoryFits
    <2>2. CASE /\ n >= 2
               /\ stack' = Append(SubSeq(stack, 1, n - 2), M)
      <3>1. /\ stack[n] \in UndoState /\ stack[n - 1] \in UndoState
            /\ snaps[n] \in Contents /\ snaps[n - 1] \in Contents
        BY <1>1, <2>2
      <3>2. /\ Exact(stack[n], Now, snaps[n]) /\ Fits(stack[n], Now)
            /\ Exact(stack[n - 1], snaps[n], snaps[n - 1])
            /\ Fits(stack[n - 1], snaps[n])
            /\ Sound(snaps[n]) /\ Sound(snaps[n - 1])
        BY <1>1, <2>2 DEF UndoInv, HistoryExact, HistoryFits, After
      <3>3. /\ M \in UndoState
            /\ Exact(M, Now, snaps[n - 1]) /\ Fits(M, Now)
        BY <1>3, <3>1, <3>2, MergeExact
      <3> HIDE DEF M, n
      <3>4. /\ stack' \in Seq(UndoState) /\ Len(stack') = n - 1
            /\ stack'[n - 1] = M
            /\ \A i \in 1..(n - 2) : stack'[i] = stack[i]
        <4>1. /\ SubSeq(stack, 1, n - 2) \in Seq(UndoState)
              /\ Len(SubSeq(stack, 1, n - 2)) = n - 2
              /\ \A i \in 1..(n - 2) : SubSeq(stack, 1, n - 2)[i] = stack[i]
          BY <1>1, <2>2 DEF n
        <4> QED BY <1>1, <2>2, <3>3, <4>1
      <3>5. ASSUME NEW i \in 1..(n - 1)
            PROVE  /\ Exact(stack'[i], After(i)', snaps'[i])
                   /\ Sound(snaps'[i]) /\ Fits(stack'[i], After(i)')
        <4>1. CASE i = n - 1
          <5>1. After(i)' = Now /\ snaps'[i] = snaps[n - 1] /\ stack'[i] = M
            BY <1>2, <1>3, <3>4, <4>1 DEF After
          <5> QED BY <3>2, <3>3, <5>1
        <4>2. CASE i # n - 1
          <5>1. i \in 1..(n - 2) /\ i \in 1..n /\ i + 1 \in 1..(n - 1)
            BY <1>1, <4>2
          <5>2. After(i)' = After(i)
            BY <1>2, <3>4, <4>2, <5>1 DEF After, n
          <5>3. stack'[i] = stack[i] /\ snaps'[i] = snaps[i]
            BY <1>2, <3>4, <5>1
          <5> QED BY <5>1, <5>2, <5>3 DEF UndoInv, HistoryExact, HistoryFits, n
        <4> QED BY <4>1, <4>2
      <3> QED BY <1>2, <1>3, <3>4, <3>5 DEF HistoryExact, HistoryFits
    <2> QED BY <2>1, <2>2 DEF Merge, Top
  <1>5. /\ active' \in Nat /\ sessions' \in Seq(BOOLEAN)
        /\ disabled' \in BOOLEAN
        /\ SessionsHaveStates' /\ FlagsAgree'
    BY <1>4, EndKeeps DEF Merge
  <1>6. TypeOK'
    BY <1>4, <1>5 DEF UndoInv, TypeOK, Merge
  <1> QED BY <1>2, <1>3, <1>4, <1>5, <1>6 DEF UndoInv

(* Commit, set_max_size and the switches change no level of the history. *)
LEMMA LevelsUnchanged ==
    ASSUME UndoInv, UNCHANGED <<objects, next_id, stack, snaps>>
    PROVE  HistoryExact' /\ HistoryFits' /\ Now' = Now
  <1>1. Now' = Now
    BY DEF Now
  <1>2. \A i : After(i)' = After(i)
    BY <1>1 DEF After
  <1> QED BY <1>1, <1>2 DEF UndoInv, HistoryExact, HistoryFits

LEMMA HKeepKeeps == ASSUME UndoInv, HKeep PROVE UndoInv' /\ Now' = Now
  <1>1. /\ objects' = objects /\ next_id' = next_id /\ stack' = stack
        /\ snaps' = snaps
    BY DEF HKeep, Commit, SetMaxSize, Disable, Enable
  <1>2. HistoryExact' /\ HistoryFits' /\ Now' = Now
    BY <1>1, LevelsUnchanged
  <1>3. CASE Commit
    <2>1. /\ sessions = <<FALSE>> /\ sessions' = <<>>
          /\ active = 1 /\ active' = 0
      BY <1>3 DEF Commit, EndSession, UndoInv, SessionsHaveStates, TypeOK
    <2>2. disabled' = FALSE /\ max_size' = max_size
      <3>1. disabled = FALSE
        BY <2>1 DEF UndoInv, FlagsAgree, TypeOK
      <3>2. sessions[Len(sessions)] = FALSE
        BY <2>1
      <3>3. disabled' = (disabled \/ sessions[Len(sessions)]) /\ max_size' = max_size
        BY <1>3, Zenon DEF Commit, EndSession
      <3> QED BY <3>1, <3>2, <3>3
    <2>3. TypeOK'
      <3>1. sessions' \in Seq(BOOLEAN) /\ active' \in Nat
        BY <2>1
      <3> QED BY <1>1, <2>2, <3>1 DEF UndoInv, TypeOK
    <2>4. SessionsHaveStates' /\ FlagsAgree'
      BY <1>1, <2>1, <2>2 DEF UndoInv, TypeOK, SessionsHaveStates, FlagsAgree
    <2> QED BY <1>1, <1>2, <2>3, <2>4 DEF UndoInv
  <1>4. ASSUME NEW m \in MaxSizes, SetMaxSize(m) PROVE UndoInv'
    <2>1. TypeOK' /\ SessionsHaveStates' /\ FlagsAgree'
      BY <1>4 DEF SetMaxSize, UndoInv, TypeOK, SessionsHaveStates, FlagsAgree
    <2> QED BY <1>1, <1>2, <2>1 DEF UndoInv
  <1>5. CASE Disable \/ Enable
    <2>1. /\ sessions = <<>> /\ sessions' = sessions /\ active' = active
          /\ max_size' = max_size /\ disabled' \in BOOLEAN
          /\ disabled' => stack = <<>>
      BY <1>5 DEF Disable, Enable
    <2>2. TypeOK' /\ SessionsHaveStates' /\ FlagsAgree'
      BY <1>1, <2>1 DEF UndoInv, TypeOK, SessionsHaveStates, FlagsAgree
    <2> QED BY <1>1, <1>2, <2>2 DEF UndoInv
  <1> QED BY <1>2, <1>3, <1>4, <1>5 DEF HKeep

-----------------------------------------------------------------------------
(* UndoInv is inductive. *)
LEMMA NextInv == UndoInv /\ [HNext]_hvars => UndoInv'
  <1> SUFFICES ASSUME UndoInv, [HNext]_hvars PROVE UndoInv'
    OBVIOUS
  <1>1. CASE HWrite
    BY <1>1, HWriteKeeps
  <1>2. CASE HStart
    BY <1>2, HStartKeeps
  <1>3. CASE HDrop
    BY <1>3, UndoKeeps, MergeKeeps, PopKeeps DEF HDrop
  <1>4. CASE HKeep
    BY <1>4, HKeepKeeps
  <1>5. CASE UNCHANGED hvars
    <2>1. UNCHANGED <<objects, next_id, stack, active, sessions, disabled,
                      max_size, snaps>>
      BY <1>5 DEF hvars, vars
    <2>2. HistoryExact' /\ HistoryFits'
      BY <2>1, LevelsUnchanged
    <2>3. TypeOK' /\ SessionsHaveStates' /\ FlagsAgree'
      BY <2>1 DEF UndoInv, TypeOK, SessionsHaveStates, FlagsAgree
    <2> QED BY <2>1, <2>2, <2>3 DEF UndoInv
  <1> QED BY <1>1, <1>2, <1>3, <1>4, <1>5 DEF HNext

(* In every reachable state the invariant holds: in particular every undo  *)
(* state takes the objects back exactly to its snapshot.                   *)
THEOREM UndoInvariant == HSpec => []UndoInv
  BY InitInv, NextInv, PTL DEF HSpec

(* The members of undo_database keep their types. *)
THEOREM UndoTypeOK == HSpec => []TypeOK
  <1>1. UndoInv => TypeOK
    BY DEF UndoInv
  <1> QED BY <1>1, UndoInvariant, PTL

(* The recorded differences are as good as copies of the whole database.   *)
THEOREM UndoHistoryExact == HSpec => []HistoryExact
  <1>1. UndoInv => HistoryExact
    BY DEF UndoInv
  <1> QED BY <1>1, UndoInvariant, PTL

(* No open session loses its undo state to trimming. *)
THEOREM UndoSessionsHaveStates == HSpec => []SessionsHaveStates
  <1>1. UndoInv => SessionsHaveStates
    BY DEF UndoInv
  <1> QED BY <1>1, UndoInvariant, PTL

(* undo() and pop_commit() never throw half way: the newest state can be   *)
(* applied to the objects as they are, in the order of the code's passes.  *)
THEOREM UndoRevertNeverThrows == HSpec => []RevertNeverThrows
  <1>1. UndoInv => RevertNeverThrows
    <2> SUFFICES ASSUME UndoInv, stack # <<>>
                 PROVE  ~RevertThrows(Top, objects)
      BY DEF RevertNeverThrows
    <2> DEFINE n == Len(stack)
    <2>1. n \in 1..Len(stack) /\ Len(snaps) = n /\ snaps \in Seq(Contents)
          /\ stack[n] \in UndoState
      BY DEF UndoInv, TypeOK, HistoryExact
    <2>2. /\ Exact(stack[n], Now, snaps[n]) /\ Fits(stack[n], Now)
          /\ Sound(Now) /\ Sound(snaps[n]) /\ snaps[n] \in Contents
      BY <2>1 DEF UndoInv, HistoryExact, HistoryFits, After
    <2>3. Now \in Contents /\ Now.objects = objects
      BY DEF UndoInv, TypeOK, Now, Contents
    <2> QED BY <2>1, <2>2, <2>3, RevertSafe DEF Top
  <1> QED BY <1>1, UndoInvariant, PTL

(* merge() never meets a cell of its matrix that the code asserts away. *)
THEOREM UndoMergeMatrixSound == HSpec => []MergeMatrixSound
  <1>1. UndoInv => MergeMatrixSound
    <2> SUFFICES ASSUME UndoInv, Len(stack) >= 2
                 PROVE  ~MergeOutOfOrder(stack[Len(stack) - 1], stack[Len(stack)])
      BY DEF MergeMatrixSound, Top
    <2> DEFINE n == Len(stack)
    <2>1. /\ n \in 1..Len(stack) /\ n - 1 \in 1..Len(stack) /\ Len(snaps) = n
          /\ snaps \in Seq(Contents)
          /\ stack[n] \in UndoState /\ stack[n - 1] \in UndoState
      BY DEF UndoInv, TypeOK, HistoryExact
    <2>2. snaps[n] \in Contents /\ snaps[n - 1] \in Contents
      BY <2>1
    <2>3. /\ Exact(stack[n], Now, snaps[n]) /\ Fits(stack[n], Now)
          /\ Exact(stack[n - 1], snaps[n], snaps[n - 1])
          /\ Fits(stack[n - 1], snaps[n]) /\ Sound(snaps[n])
      BY <2>1 DEF UndoInv, HistoryExact, HistoryFits, After
    <2>4. Now \in Contents
      BY DEF UndoInv, TypeOK, Now, Contents
    <2> QED BY <2>1, <2>2, <2>3, <2>4, MergeExact
  <1> QED BY <1>1, UndoInvariant, PTL

-----------------------------------------------------------------------------
(* Every step of the undo database is a step of the stack of snapshots. *)
LEMMA StepRefines ==
    ASSUME UndoInv, UndoInv', [HNext]_hvars
    PROVE  [Snapshots!Next]_(Snapshots!vars)
  <1> USE DEF Snapshots!AllButLast, AllButLast
  <1>1. /\ Now \in Contents /\ Now' \in Contents
        /\ Len(snaps) = Len(stack) /\ Len(snaps) \in Nat
        /\ active = Len(sessions) /\ active \in Nat /\ active <= Len(stack)
    BY DEF UndoInv, TypeOK, Now, Contents, HistoryExact, SessionsHaveStates
  <1>2. CASE HWrite
    <2>1. active' = active
      BY <1>2 DEF HWrite, Create, Modify, Remove
    <2>2. snaps' = snaps \/ (snaps = <<>> /\ snaps' = <<Now>>)
      BY <1>2 DEF HWrite, UndoInv, HistoryExact
    <2> QED BY <1>1, <2>1, <2>2 DEF Snapshots!Write, Snapshots!Next
  <1>3. CASE HStart
    <2>1. active' = active + 1 /\ Now' = Now
      BY <1>3 DEF HStart, StartSession, Now
    <2>2. Excess(snaps) + 1 \in 1..(Len(snaps) + 1)
      BY <1>1 DEF Excess, UndoInv, TypeOK
    <2>3. snaps' = Append(SubSeq(snaps, Excess(snaps) + 1, Len(snaps)), Now)
      BY <1>3 DEF HStart, Trimmed
    <2> QED BY <2>1, <2>2, <2>3 DEF Snapshots!Start, Snapshots!Next
  <1>4. ASSUME Undo, snaps' = AllButLast(snaps)
        PROVE  Snapshots!Next
    <2>1. Now' = snaps[Len(snaps)]
      BY <1>4, UndoKeeps
    <2>2. active > 0 /\ active' = active - 1 /\ snaps # <<>>
      BY <1>1, <1>4 DEF Undo, EndSession
    <2> QED BY <1>4, <2>1, <2>2 DEF Snapshots!Rollback, Snapshots!Next
  <1>5. ASSUME Merge, snaps' = AllButLast(snaps)
        PROVE  Snapshots!Next
    <2>1. Now' = Now
      BY <1>5, MergeKeeps
    <2>2. active > 0 /\ active' = active - 1 /\ snaps # <<>>
      BY <1>1, <1>5 DEF Merge, EndSession
    <2> QED BY <1>5, <2>1, <2>2 DEF Snapshots!Join, Snapshots!Next
  <1>6. ASSUME PopCommit, snaps' = AllButLast(snaps)
        PROVE  Snapshots!Next
    <2>1. Now' = snaps[Len(snaps)]
      BY <1>6, PopKeeps
    <2>2. active = 0 /\ active' = active /\ snaps # <<>>
      BY <1>1, <1>6 DEF PopCommit, UndoInv, TypeOK
    <2> QED BY <1>6, <2>1, <2>2 DEF Snapshots!PopSnapshot, Snapshots!Next
  <1>7. CASE HKeep
    <2>1. Now' = Now /\ snaps' = snaps
      BY <1>7, HKeepKeeps DEF HKeep
    <2>2. CASE Commit
      <3>1. active > 0 /\ active' = active - 1
        BY <2>2 DEF Commit, EndSession
      <3> QED BY <2>1, <3>1 DEF Snapshots!Keep, Snapshots!Next
    <2>3. CASE (\E m \in MaxSizes : SetMaxSize(m)) \/ Disable \/ Enable
      <3>1. active' = active
        BY <2>3 DEF SetMaxSize, Disable, Enable
      <3> QED BY <2>1, <3>1 DEF Snapshots!vars
    <2> QED BY <1>7, <2>2, <2>3 DEF HKeep
  <1>8. CASE UNCHANGED hvars
    BY <1>8 DEF hvars, vars, Now, Snapshots!vars
  <1> QED BY <1>2, <1>3, <1>4, <1>5, <1>6, <1>7, <1>8 DEF HNext, HDrop

(* The undo database implements a stack of full snapshots: whatever is     *)
(* written, nested, merged, committed or trimmed in between, undo() and    *)
(* pop_commit() bring back exactly the contents at the start.              *)
THEOREM UndoRefinesSnapshots == HSpec => ImplementsSnapshots
  <1>1. HInit => Snapshots!Init
    BY InitInv DEF HInit, Init, Snapshots!Init, UndoInv, TypeOK, Now, Contents
  <1>2. UndoInv /\ UndoInv' /\ [HNext]_hvars => [Snapshots!Next]_(Snapshots!vars)
    BY StepRefines
  <1> QED BY <1>1, <1>2, UndoInvariant, PTL
          DEF HSpec, ImplementsSnapshots, Snapshots!Spec
=============================================================================
