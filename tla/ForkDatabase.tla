---------------------------- MODULE ForkDatabase ----------------------------
(***************************************************************************)
(* graphene::chain::fork_database: the tree of recent blocks.              *)
(*                                                                         *)
(* The items of the tree hold weak pointers to their predecessors, so an   *)
(* item stays in the index when the item before it is erased and freed,    *)
(* but can no longer be walked back from.  `linked' records which items    *)
(* still can.  `held' are the items a caller keeps alive.                  *)
(***************************************************************************)
EXTENDS BlockTree, FiniteSets

VARIABLES
    index,      \* _index: the ids of its items
    linked,     \* the items whose prev pointer is alive
    head,       \* _head, which need not be in the index, or None
    headLink,   \* whether _head's own prev pointer is alive
    max_size,   \* _max_size
    held        \* items kept alive by a caller's branches

forkVars == <<index, linked, head, headLink, max_size, held>>

(* fork_database::_max_size before the first block is applied *)
InitialMaxSize == 1024

ForkInit ==
    /\ index = {} /\ linked = {}
    /\ head = None /\ headLink = FALSE
    /\ max_size = InitialMaxSize
    /\ held = {}

(* What erasing items does to the pointers of the others: an item is freed *)
(* once it is not in the index, not held and not the head.                 *)
Erase(kept, alive) ==
    /\ index' = kept
    /\ linked' = {b \in linked : b \in alive /\ Prev(b) \in alive}
    /\ headLink' = (headLink /\ Prev(head) \in alive)

(* _push_block refuses a block that is too old or that does not link. *)
TooOld(b) == head # None /\ Len(b) <= MaxOf(0, Len(head) - max_size)
Unlinkable(b) == head # None /\ Len(b) > 1 /\ Prev(b) \notin index
CanPush(b) == ~TooOld(b) /\ ~Unlinkable(b)

(* _push_block: an item of that id that is there already stays, and the    *)
(* new item can still become the head.                                     *)
ForkPush(b) ==
    LET link == head # None /\ Len(b) > 1
        grown == head = None \/ Len(b) > Len(head)
        min_num == IF head # None /\ grown
                   THEN MaxOf(0, Len(b) - max_size) ELSE 0
        kept == {c \in index \union {b} : Len(c) >= min_num}
        links == IF link /\ b \notin index THEN linked \union {b} ELSE linked
    IN /\ index' = kept
       /\ linked' = {c \in links : c \in kept /\ Prev(c) \in kept}
       /\ head' = IF grown THEN b ELSE head
       /\ headLink' = IF grown THEN link /\ Prev(b) \in kept
                      ELSE headLink /\ Prev(head) \in kept
       /\ UNCHANGED <<max_size, held>>

CanPopAny == head # None    \* mutant: prev is not checked

(* pop_block: only with a predecessor to step back to. *)
CanPop == head # None /\ headLink

ForkPop ==
    /\ head' = Prev(head)
    /\ headLink' = (Prev(head) \in linked)
    /\ UNCHANGED <<index, linked, max_size, held>>

(* set_max_size drops the items that are now too far behind the head. *)
ForkSetMaxSize(n) ==
    LET kept == IF head = None THEN index
                ELSE {c \in index : Len(c) >= MaxOf(0, Len(head) - n)}
    IN /\ max_size' = n
       /\ Erase(kept, kept \union held \union {head})
       /\ UNCHANGED <<head, held>>

(* remove.  A head of that id is then an item of its own, which no other   *)
(* item points to.                                                         *)
ForkRemove(S) ==
    /\ Erase(index \ S, (index \ S) \union held)
    /\ UNCHANGED <<head, max_size, held>>

(* close() takes the block it popped out of the index as well. *)
ForkPopAndRemove(b) ==
    LET alive == (index \ {b}) \union {Prev(head)}
    IN /\ index' = index \ {b}
       /\ linked' = {c \in linked : c \in alive /\ Prev(c) \in alive}
       /\ head' = Prev(head)
       /\ headLink' = (Prev(head) \in linked')
       /\ UNCHANGED <<max_size, held>>

(* start_block: the first item, on an empty index. *)
ForkStart(b) ==
    /\ index' = {b} /\ linked' = {}
    /\ head' = b /\ headLink' = FALSE
    /\ UNCHANGED <<max_size, held>>

(* reset, when the process ends: the next one starts with a new object,    *)
(* and so with the size a fork database is constructed with.               *)
ForkReset ==
    /\ index' = {} /\ linked' = {}
    /\ head' = None /\ headLink' = FALSE
    /\ held' = {}
    /\ max_size' = InitialMaxSize

(* set_head, to an item a branch holds. *)
ForkSetHead(b) ==
    /\ head' = b
    /\ headLink' = (b \in linked)
    /\ UNCHANGED <<index, linked, max_size, held>>

(***************************************************************************)
(* fetch_branch_from: the blocks of the two branches, newest first, back   *)
(* to the pair that have the same previous block.  When one head is an     *)
(* ancestor of the other, that pair is one block.                          *)
(***************************************************************************)
Lowest(a, b) ==
    CHOOSE n \in 1..MinOf(Len(a), Len(b)) :
        /\ Prefix(a, n - 1) = Prefix(b, n - 1)
        /\ n < MinOf(Len(a), Len(b)) => Prefix(a, n) # Prefix(b, n)

CanFetchBranches(a, b) ==
    /\ a \in index /\ b \in index
    /\ LET low == Lowest(a, b)
       IN /\ \A n \in (low + 1)..Len(a) : Prefix(a, n) \in linked
          /\ \A n \in (low + 1)..Len(b) : Prefix(b, n) \in linked

Hold(S) == held' = S /\ UNCHANGED <<index, linked, head, headLink, max_size>>
Release ==
    /\ held' = {}
    /\ Erase(index, index \union {head})
    /\ UNCHANGED <<head, max_size>>
=============================================================================
