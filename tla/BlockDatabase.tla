---------------------------- MODULE BlockDatabase ----------------------------
(***************************************************************************)
(* graphene::chain::block_database: the blocks on disk.  The index file    *)
(* has one entry per block number, addressed by the number inside the id   *)
(* under which a block is stored; the entry keeps that id and the position *)
(* of the block's bytes.                                                   *)
(***************************************************************************)
EXTENDS BlockTree

VARIABLE log    \* the index file up to its last entry: number -> entry

(* An entry the file has no block for: never written (the file is sparse)  *)
(* or removed (block_size 0), which keeps the id.                          *)
Hole == [id |-> <<>>, data |-> None]
Entries == [id : Blocks \union {<<>>}, data : Blocks \union {None}]

LogInit == log = <<>>

StoredAtEnd(l, id, b) ==    \* mutant: the index file is appended to
    Append(l, [id |-> id, data |-> b])

(* store: the id says where, whatever block is given. *)
Stored(l, id, b) ==
    [n \in 1..MaxOf(Len(id), Len(l)) |->
        IF n = Len(id) THEN [id |-> id, data |-> b]
        ELSE IF n <= Len(l) THEN l[n] ELSE Hole]

Store(id, b) == log' = Stored(log, id, b)

(* An entry is readable if its bytes are the block of its id. *)
Readable(l, n) == n \in 1..Len(l) /\ l[n].data # None /\ l[n].data = l[n].id

(* fetch_optional and fetch_by_number *)
FetchOptional(l, id) ==
    IF Readable(l, Len(id)) /\ l[Len(id)].id = id THEN id ELSE None
FetchByNumber(l, n) == IF Readable(l, n) THEN l[n].data ELSE None

(* last_index_entry also cuts the unreadable entries off the index file. *)
LastReadable(l) ==
    CHOOSE n \in 0..Len(l) :
        /\ n = 0 \/ Readable(l, n)
        /\ \A m \in (n + 1)..Len(l) : ~Readable(l, m)
Cut(l) == SubSeq(l, 1, LastReadable(l))

(* remove of last_id(), again and again, until none is above n *)
Dropped(l, n) == Cut(SubSeq(l, 1, MinOf(n, Len(l))))
=============================================================================
