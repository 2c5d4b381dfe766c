------------------------------- MODULE MCChain -------------------------------
(* Small block trees.  The label of a block names its signer and variant. *)
EXTENDS ChainDatabase

Closure(S) == UNION {{Prefix(b, n) : n \in 1..Len(b)} : b \in S}

(* A fork from genesis, and one above block 1 against a longer chain       *)
(* signed by both witnesses, long enough for blocks to become irreversible *)
(* and leave the fork database; the tip of the longest one is invalid.     *)
ForkedBlocks ==
    Closure({<<"a", "a", "a", "b", "a">>, <<"a", "b", "b", "a", "b", "b">>,
             <<"b", "b">>})
ForkedInvalid == {<<"a", "b", "b", "a", "b", "b">>}

(* Two short forks from genesis, one of which splits again; its tip is     *)
(* invalid.                                                                *)
SwitchBlocks ==
    Closure({<<"a", "a", "a">>, <<"a", "b", "b", "b">>, <<"b", "b", "a">>})
SwitchInvalid == {<<"a", "b", "b", "b">>}

(* Two sides of a partition, each signing alone; everything is valid. *)
PartitionBlocks ==
    Closure({<<"a", "a", "a", "a">>, <<"a", "b", "b", "b", "b">>})

NoBlocks == {}

SignerOf == [b \in Blocks |-> IF b[Len(b)] = "a" THEN "w1" ELSE "w2"]
=============================================================================
