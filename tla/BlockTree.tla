------------------------------ MODULE BlockTree ------------------------------
(***************************************************************************)
(* Blocks and their ids.  A block is the sequence of labels of the blocks  *)
(* that lead to it from genesis, its own label last.  The sequence is the  *)
(* block's id, its length the block's number (which the id contains), the  *)
(* sequence without its last label the id of the previous block, and <<>>  *)
(* the zero id that precedes block 1.                                      *)
(***************************************************************************)
EXTENDS Integers, Sequences

CONSTANTS
    Blocks,     \* the blocks that are ever pushed, with all their ancestors
    None        \* no block

Prev(b) == SubSeq(b, 1, Len(b) - 1)
Prefix(b, n) == SubSeq(b, 1, n)

ASSUME BlocksAssumption ==
    /\ \A b \in Blocks : /\ b \in Seq(STRING) /\ b # <<>>
                         /\ \A n \in 1..Len(b) : Prefix(b, n) \in Blocks
    /\ None \notin Blocks /\ None # <<>>

MaxOf(a, b) == IF a > b THEN a ELSE b
MinOf(a, b) == IF a < b THEN a ELSE b
=============================================================================
