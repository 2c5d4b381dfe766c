------------------------------ MODULE MCRestart ------------------------------
(* Three forks that overtake one another, for a node that stops and starts. *)
EXTENDS ChainRestart

RestartBlocks ==
    UNION {{Prefix(b, n) : n \in 1..Len(b)} :
           b \in {<<"a", "b", "a", "b", "a">>, <<"a", "b", "b">>, <<"b", "a">>}}

NoBlocks == {}

SignerOf == [b \in Blocks |-> IF b[Len(b)] = "a" THEN "w1" ELSE "w2"]
=============================================================================
