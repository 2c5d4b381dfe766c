-------------------------------- MODULE MCNode -------------------------------
(* Three parts of a node next to its chain of blocks: stopping and starting *)
(* it, the files of its objects, and its waiting transactions.  They share  *)
(* nothing; each behaviour is of one of them.                               *)
EXTENDS MCRestart, ObjectFiles

CONSTANTS
    Txs, Cpu, Size, Growing, Growth, MaxUntilExpiration, MaxBlockSize,
    BlockCpuLimit, MaxTime, MaxLength, MaxPending

VARIABLES
    part,
    blocks, states, pending, session, scratch, last

CpuOf == [a |-> 2, b |-> 2, c |-> 1]
SizeOf == [a |-> 1, b |-> 1, c |-> 1]

(* Of three transactions b needs a, and c refers to the first block of one  *)
(* fork and cannot follow a.                                                *)
Transactions == INSTANCE PendingTransactions WITH
    chain <- blocks,
    Expiration <- [a |-> 3, b |-> 4, c |-> 4],
    Reference <- [a |-> [num |-> 0, time |-> 0], b |-> [num |-> 0, time |-> 0],
                  c |-> [num |-> 1, time |-> 1]],
    Needs <- [a |-> {}, b |-> {"a"}, c |-> {}],
    Excludes <- [a |-> {"c"}, b |-> {}, c |-> {"a"}],
    Payloads <- {<<>>, <<"a">>, <<"c">>, <<"a", "b">>, <<"b">>}

txVars == <<blocks, states, pending, session, scratch, last>>

NodeInit ==
    /\ part \in {"restart", "files", "transactions"}
    /\ RInit /\ FilesInit /\ Transactions!TxInit

NodeNext ==
    \/ part = "restart" /\ RNext /\ UNCHANGED <<part, filesVars, txVars>>
    \/ part = "files" /\ FilesNext /\ UNCHANGED <<part, rvars, txVars>>
    \/ part = "transactions" /\ Transactions!TxNext /\ UNCHANGED <<part, rvars, filesVars>>

NodeSpec == NodeInit /\ [][NodeNext]_<<part, rvars, filesVars, txVars>>

(* The shape of the state of each part. *)
NodeTypeOK == RTypeOK /\ FilesTypeOK /\ Transactions!TxTypeOK

(* The properties of PendingTransactions. *)
AppliedOnce == Transactions!AppliedOnce
NotLost == Transactions!NotLost
OwnBlockApplies == Transactions!OwnBlockApplies
==============================================================================
