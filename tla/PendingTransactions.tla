------------------------- MODULE PendingTransactions -------------------------
(***************************************************************************)
(* Transactions that wait for a block: push_transaction, what push_block   *)
(* does with the waiting and the popped ones, the list against duplicates, *)
(* and generate_block with its limits.                                     *)
(*                                                                         *)
(* The undo history is a stack of states, one per block, the last one that *)
(* of the head (see UndoDatabase).  A state has the duplicate list, the    *)
(* time and, for what transactions do, the set of those that were applied: *)
(* a transaction may need others before it and may exclude others.         *)
(***************************************************************************)
EXTENDS Naturals, Sequences, SequencesExt

CONSTANTS
    Txs,                \* the transactions
    Expiration,         \* of each, a time
    Reference,          \* of each, the number and time of a block (TaPoS)
    Needs,              \* of each, the transactions that must come before it
    Excludes,           \* of each, the transactions that make it invalid
    Cpu, Size,          \* of each, what is billed and what it adds to a block
    Growing, Growth,    \* those whose result is larger when applied again
    MaxUntilExpiration, \* maximum_time_until_expiration
    MaxBlockSize,       \* maximum_block_size
    BlockCpuLimit,      \* block_cpu_limit
    Payloads,           \* bound: the transactions of blocks of other nodes
    MaxTime, MaxLength, \* bounds: the last time, the length of a chain
    MaxPending          \* bound: how many transactions wait

VARIABLES
    chain,              \* the blocks: their time and transactions
    states,             \* the state before block 1 and after each block
    pending,            \* _pending_tx
    session,            \* whether _pending_tx_session is valid
    scratch,            \* the state in the pending session
    last                \* the last call and how it ended

txvars == <<chain, states, pending, session, scratch, last>>

Genesis == [known |-> {}, done |-> {}, time |-> 0, num |-> 0]

HeadState == states[Len(states)]
Current == IF session THEN scratch ELSE HeadState

TxInit ==
    /\ chain = <<>> /\ states = <<Genesis>>
    /\ pending = <<>> /\ session = FALSE /\ scratch = Genesis
    /\ last = [call |-> "none", result |-> "ok"]

-----------------------------------------------------------------------------
(* _apply_transaction *)
Tapos(c, tx) ==
    LET ref == Reference[tx]
    IN ref.num = 0 \/ (ref.num <= Len(c) /\ c[ref.num].time = ref.time)

InTimeExpired(c, s, tx) ==    \* mutant: the head's time is not compared
    s.num > 0 => Tapos(c, tx) /\ Expiration[tx] <= s.time + MaxUntilExpiration

(* Nothing of it is checked before the first block. *)
InTime(c, s, tx) ==
    s.num > 0 => /\ Tapos(c, tx)
                 /\ Expiration[tx] <= s.time + MaxUntilExpiration
                 /\ s.time <= Expiration[tx]

CanApply(c, s, tx) ==
    /\ tx \notin s.known
    /\ InTime(c, s, tx)
    /\ Needs[tx] \subseteq s.done
    /\ Excludes[tx] \intersect s.done = {}

Applied(s, tx) == [s EXCEPT !.known = @ \union {tx}, !.done = @ \union {tx}]

(* _push_transaction *)
Push(c, p, tx) ==
    IF CanApply(c, p.state, tx)
    THEN [txs |-> Append(p.txs, tx), state |-> Applied(p.state, tx)]
    ELSE p

PushTransaction(tx) ==
    /\ Len(pending) < MaxPending
    /\ LET p == Push(chain, [txs |-> pending, state |-> Current], tx)
       IN /\ pending' = p.txs /\ scratch' = p.state
          /\ last' = [call |-> "push_transaction", result |->
                       IF p.txs # pending THEN "ok" ELSE "threw"]
    /\ session' = TRUE
    /\ UNCHANGED <<chain, states>>

-----------------------------------------------------------------------------
(* update_global_dynamic_data *)
Begin(s, time) == [s EXCEPT !.time = time, !.num = @ + 1]

ClearExpiredTransactions(s) ==
    [s EXCEPT !.known = {tx \in @ : ~(s.time > Expiration[tx])}]

TotalCpu(txs) == FoldLeft(LAMBDA n, tx : n + Cpu[tx], 0, txs)

(* _apply_block, as far as transactions are concerned. *)
ApplyBlock(c, s, b) ==
    LET Step(r, tx) == [ok    |-> r.ok /\ CanApply(c, r.state, tx),
                        state |-> Applied(r.state, tx)]
        r == FoldLeft(Step, [ok |-> TRUE, state |-> Begin(s, b.time)], b.txs)
    IN [ok    |-> r.ok /\ b.time > s.time /\ TotalCpu(b.txs) <= BlockCpuLimit,
        state |-> ClearExpiredTransactions(r.state)]

(* The chain and its states after blocks are applied, up to the first that *)
(* fails.                                                                  *)
ApplyBlocks(c, ss, blocks) ==
    LET Step(r, b) ==
            LET a == ApplyBlock(r.chain, r.states[Len(r.states)], b)
            IN IF r.ok /\ a.ok
               THEN [ok |-> TRUE, chain |-> Append(r.chain, b),
                     states |-> Append(r.states, a.state)]
               ELSE [r EXCEPT !.ok = FALSE]
    IN FoldLeft(Step, [ok |-> TRUE, chain |-> c, states |-> ss], blocks)

TxsOf(blocks) == FlattenSeq([i \in DOMAIN blocks |-> blocks[i].txs])

(* pending_transactions_restorer, when push_block is over, however it was: *)
(* the popped transactions and then those that were waiting.               *)
RestorePendingOnly(c, s, popped, waiting) ==    \* mutant: popped ones are dropped
    FoldLeft(LAMBDA p, tx : IF tx \in p.state.known THEN p ELSE Push(c, p, tx),
             [txs |-> <<>>, state |-> s], waiting)

Restore(c, s, popped, waiting) ==
    FoldLeft(LAMBDA p, tx : IF tx \in p.state.known THEN p ELSE Push(c, p, tx),
             [txs |-> <<>>, state |-> s], popped \o waiting)

(* A push_block after which c is the chain. *)
PushBlockEnds(c, ss, popped, call, ok) ==
    /\ chain' = c /\ states' = ss
    /\ LET p == Restore(c, ss[Len(ss)], popped, pending)
           opened == \E i \in DOMAIN (popped \o pending) :
                         (popped \o pending)[i] \notin ss[Len(ss)].known
       IN /\ pending' = p.txs /\ scratch' = p.state
          /\ session' = opened
    /\ last' = [call |-> call, result |-> IF ok THEN "ok" ELSE "threw"]

(* A block on top of the head arrives. *)
PushBlock(b) ==
    /\ Len(chain) < MaxLength
    /\ LET r == ApplyBlocks(chain, states, <<b>>)
       IN PushBlockEnds(r.chain, r.states, <<>>, "push_block", r.ok)

(* The block that makes another fork longer arrives: n blocks are popped   *)
(* and those of the fork applied.  If one fails, the ones before it are    *)
(* popped again and the old ones applied.                                  *)
SwitchForks(n, fork) ==
    LET kept == Len(chain) - n
        base == SubSeq(chain, 1, kept)
        r == ApplyBlocks(base, SubSeq(states, 1, kept + 1), fork)
        popped == TxsOf(SubSeq(chain, kept + 1, Len(chain)))
        bad == TxsOf(SubSeq(r.chain, kept + 1, Len(r.chain)))
    IN /\ n \in 1..Len(chain) /\ Len(fork) = n + 1 /\ kept + n < MaxLength
       /\ IF r.ok
          THEN PushBlockEnds(r.chain, r.states, popped, "switch_forks", TRUE)
          ELSE PushBlockEnds(chain, states, bad \o popped, "switch_forks", FALSE)

-----------------------------------------------------------------------------
(* _generate_block.  Transactions that do not fit are passed over, those   *)
(* that fail are left out.  What a transaction was billed stays in the sum *)
(* when it is passed over for it.                                          *)
CpuExhausted(cpu) == cpu >= BlockCpuLimit

GrownSize(tx) == Size[tx] + IF tx \in Growing THEN Growth ELSE 0

SelectBySize(g, tx) ==    \* mutant: the cpu time is not looked at
    IF g.size + Size[tx] >= MaxBlockSize \/ ~CanApply(chain, g.state, tx)
    THEN g
    ELSE [txs |-> Append(g.txs, tx), state |-> Applied(g.state, tx),
          cpu |-> g.cpu + Cpu[tx], size |-> g.size + GrownSize(tx)]

Select(g, tx) ==
    IF g.size + Size[tx] >= MaxBlockSize \/ CpuExhausted(g.cpu)
        \/ ~CanApply(chain, g.state, tx)
    THEN g
    ELSE IF CpuExhausted(g.cpu + Cpu[tx])
    THEN [g EXCEPT !.cpu = @ + Cpu[tx]]
    ELSE [txs |-> Append(g.txs, tx), state |-> Applied(g.state, tx),
          cpu |-> g.cpu + Cpu[tx], size |-> g.size + GrownSize(tx)]

GenerateBlock(when) ==
    LET g == FoldLeft(Select, [txs |-> <<>>, state |-> Begin(HeadState, when),
                               cpu |-> 0, size |-> 1], pending)
        r == ApplyBlocks(chain, states, <<[txs |-> g.txs, time |-> when]>>)
    IN /\ Len(chain) < MaxLength /\ when > HeadState.time
       /\ IF g.size <= MaxBlockSize
          THEN PushBlockEnds(r.chain, r.states, <<>>, "generate_block", r.ok)
          ELSE \* the assertion on the size: the session is gone
               /\ session' = FALSE /\ scratch' = HeadState
               /\ last' = [call |-> "generate_block", result |-> "oversize"]
               /\ UNCHANGED <<chain, states, pending>>

(* Blocks of other nodes.  Those inside a fork are empty. *)
OtherBlocks == [txs : Payloads, time : 1..MaxTime]
Forks ==
    {f \in SeqOf(OtherBlocks, MaxLength) :
        /\ Len(f) > 1
        /\ \A i \in 2..Len(f) : f[i].time > f[i-1].time
        /\ \A i \in 2..(Len(f) - 1) : f[i].txs = <<>>}

TxNext ==
    \/ \E tx \in Txs : PushTransaction(tx)
    \/ \E b \in OtherBlocks : PushBlock(b)
    \/ \E n \in 1..MaxLength, f \in Forks : SwitchForks(n, f)
    \/ \E when \in 1..MaxTime : GenerateBlock(when)

TxSpec == TxInit /\ [][TxNext]_txvars

-----------------------------------------------------------------------------
Calls == {"none", "push_transaction", "push_block", "switch_forks", "generate_block"}
StateType == [known : SUBSET Txs, done : SUBSET Txs, time : 0..MaxTime,
              num : 0..MaxLength]

(* The chain, its states and the waiting transactions. *)
TxTypeOK ==
    /\ chain \in Seq([txs : Seq(Txs), time : 1..MaxTime])
    /\ states \in Seq(StateType) /\ Len(states) = Len(chain) + 1
    /\ pending \in Seq(Txs) /\ session \in BOOLEAN /\ scratch \in StateType
    /\ last \in [call : Calls, result : {"ok", "threw", "oversize"}]

(* No transaction is in a chain twice, though the list against duplicates  *)
(* forgets those that have expired, forks bring the time back and both the *)
(* popped and the waiting transactions are pushed again after a block.     *)
AppliedOnce == IsInjective(TxsOf(chain))

(* A transaction that was waiting, or was in a block that is popped, is in *)
(* the new chain or waits, unless it is invalid where the chain now is:    *)
(* the restorer loses none, whatever push_block did.                       *)
NotLost ==
    [][last'.call \in {"push_block", "switch_forks", "generate_block"} =>
         \A tx \in ToSet(TxsOf(chain) \o pending) :
            \/ tx \in ToSet(TxsOf(chain') \o pending')
            \/ ~CanApply(chain', Current', tx)]_txvars

(* A block that generate_block has put together can be applied: its limits *)
(* are those that apply_block checks, and what applied while the block was *)
(* filled applies again.                                                   *)
OwnBlockApplies ==
    last.call = "generate_block" => last.result # "threw"
==============================================================================
