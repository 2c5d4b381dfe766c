---------------------------- MODULE ChainDatabase ----------------------------
(***************************************************************************)
(* database::push_block with everything it drives: the fork database, the  *)
(* object state with its undo history, and the block log.                  *)
(*                                                                         *)
(* The object state is the chain that was applied, so it is written as the *)
(* head block's id.  The undo history is the stack of snapshots that       *)
(* UndoDatabase implements, here the chains before each block.             *)
(*                                                                         *)
(* push_block is one call but its loops are taken one iteration at a time, *)
(* so that a shutdown or a crash can fall between two of them; nothing     *)
(* else runs meanwhile.                                                    *)
(***************************************************************************)
EXTENDS ForkDatabase, BlockDatabase

CONSTANTS
    Witnesses,      \* the active witnesses
    Signer,         \* the witness that signed a block
    Invalid,        \* the blocks whose transactions or fields fail to apply
    MaxUndoHistory, \* GRAPHENE_MAX_UNDO_HISTORY
    MaxDepth,       \* how deep undo sessions nest while a transaction runs
    InOrder         \* whether a block is only pushed after its predecessor

ASSUME ChainAssumption ==
    /\ IsFiniteSet(Witnesses) /\ Witnesses # {}
    /\ Signer \in [Blocks -> Witnesses]
    /\ Invalid \subseteq Blocks
    /\ MaxUndoHistory \in Nat \ {0}
    /\ MaxDepth \in Nat /\ MaxDepth >= 2
    /\ InOrder \in BOOLEAN

VARIABLES
    chain,      \* the head block of the object state
    undo,       \* the snapshots of the committed undo states, newest last
    undoMax,    \* undo_database::_max_size
    pc,         \* where push_block is
    new,        \* its argument
    target,     \* the fork head it switches to
    before,     \* the head block when it was called
    outcome,    \* how the last call ended
    final       \* history: the highest block number that was irreversible

pushVars == <<pc, new, target, before, outcome>>
stateVars == <<log, chain, undo, undoMax, final>>
vars == <<forkVars, stateVars, pushVars>>

(* undo_database::_max_size before the first block is applied:            *)
(* initialize_indexes sets it to GRAPHENE_MIN_UNDO_HISTORY.                *)
InitialUndoMax == 10

Init ==
    /\ ForkInit
    /\ LogInit
    /\ chain = <<>> /\ undo = <<>> /\ undoMax = InitialUndoMax
    /\ pc = "idle" /\ new = <<>> /\ target = <<>> /\ before = <<>>
    /\ outcome = "none" /\ final = 0

-----------------------------------------------------------------------------
(***************************************************************************)
(* The last irreversible block of a chain: the number that 75% of the      *)
(* witnesses have signed at or after, never moving back.                   *)
(***************************************************************************)
Heads == Blocks \union {<<>>}
Percent75 == 75

LastConfirmed(c, w) ==
    CHOOSE n \in 0..Len(c) :
        /\ n = 0 \/ Signer[Prefix(c, n)] = w
        /\ \A m \in (n + 1)..Len(c) : Signer[Prefix(c, m)] # w

(* The element nth_element puts at `offset'. *)
ConfirmedByMost(c) ==
    LET size == Cardinality(Witnesses)
        offset == ((100 - Percent75) * size) \div 100
        AtLeast(n) == {w \in Witnesses : LastConfirmed(c, w) >= n}
    IN CHOOSE n \in 0..Len(c) :
           /\ Cardinality(AtLeast(n)) >= size - offset
           /\ \A m \in (n + 1)..Len(c) : Cardinality(AtLeast(m)) < size - offset

LIB ==
    [c \in Heads |->
        CHOOSE n \in {ConfirmedByMost(Prefix(c, k)) : k \in 0..Len(c)} :
            \A k \in 0..Len(c) : ConfirmedByMost(Prefix(c, k)) <= n]

-----------------------------------------------------------------------------
NewestFromFront(s, n) == SubSeq(s, 1, MinOf(n, Len(s)))    \* mutant: pop_back

(* Starting a session inside depth - 1 others forgets the oldest states. *)
Newest(s, n) == SubSeq(s, MaxOf(0, Len(s) - n) + 1, Len(s))
Retained(depth) == Newest(undo, MaxOf(0, undoMax - (depth - 1)))

NewSizeTight(b) == Len(b) - LIB[Prev(b)]    \* mutant: without the + 1

NewSizeLoose(b) == Len(b) + 2    \* mutant: the irreversible block is ignored

(* update_undo_db_size, with the irreversible block of the previous block *)
NewSize(b) == Len(b) - LIB[Prev(b)] + 1

(* validate_block_header, update_global_dynamic_data's check of the undo   *)
(* history, and the evaluation of the block's contents                     *)
Applies(b) ==
    /\ Prev(b) = chain
    /\ Len(b) - LIB[Prev(b)] < MaxUndoHistory
    /\ b \notin Invalid

(* A session, apply_block, store under `id', commit.  A proposal that the  *)
(* block executes opens a session inside the block's.                      *)
ApplyAndStore(b, id) ==
    /\ chain' = b
    /\ \E depth \in 1..(MaxDepth - 1) : undo' = Append(Retained(depth), chain)
    /\ undoMax' = NewSize(b)
    /\ ForkSetMaxSize(NewSize(b))
    /\ Store(id, b)
    /\ final' = MaxOf(final, LIB[b])

(* The session is undone.  The sizes are not part of the undone state:    *)
(* they stay changed if the block failed after they were updated.          *)
ApplyFails(b) ==
    /\ \E depth \in 1..(MaxDepth - 1) : undo' = Retained(depth)
    /\ \/ UNCHANGED <<undoMax, forkVars>>
       \/ /\ Prev(b) = chain
          /\ undoMax' = NewSize(b)
          /\ ForkSetMaxSize(NewSize(b))
    /\ UNCHANGED <<chain, log, final>>

Return(result) ==
    /\ pc' = "idle" /\ outcome' = result /\ target' = <<>>
    /\ UNCHANGED <<new, before>>

Goto(label) == pc' = label /\ UNCHANGED <<new, target, before, outcome>>

-----------------------------------------------------------------------------
(* _push_transaction: the pending session, the transaction's and those of *)
(* the proposals it executes.  Only what they forget outlives them here.   *)
PushTransaction(depth) ==
    /\ pc = "idle"
    /\ undo' = Retained(depth)
    /\ UNCHANGED <<forkVars, log, chain, undoMax, final, pushVars>>

(* push_block puts the block into the fork database first. *)
PushBlock(b) ==
    /\ pc = "idle"
    /\ new' = b /\ before' = chain
    /\ \/ /\ ~CanPush(b)
          /\ outcome' = "threw"
          /\ UNCHANGED <<forkVars, pc>>
       \/ /\ CanPush(b)
          /\ ForkPush(b)
          /\ pc' = "forked"
          /\ UNCHANGED outcome
    /\ UNCHANGED <<stateVars, target>>

(* The fork head builds on the chain: the new block is applied. *)
Extend ==
    /\ pc = "forked" /\ Prev(head) = chain
    /\ Applies(new)
    /\ ApplyAndStore(new, new)
    /\ Return("applied")

ExtendFails ==
    /\ pc = "forked" /\ Prev(head) = chain
    /\ ~Applies(new)
    /\ ApplyFails(new)
    /\ Goto("remove")

RemoveNew ==
    /\ pc = "remove"
    /\ ForkRemove({new})
    /\ Return("threw")
    /\ UNCHANGED stateVars

StayOnOneLonger ==    \* mutant: off by one in the comparison of the heights
    /\ pc = "forked" /\ Prev(head) # chain
    /\ Len(head) <= Len(chain) + 1
    /\ Return("kept")
    /\ UNCHANGED <<forkVars, stateVars>>

(* The fork head is no longer than the chain: nothing else to do. *)
StayOnFork ==
    /\ pc = "forked" /\ Prev(head) # chain
    /\ Len(head) <= Len(chain)
    /\ Return("kept")
    /\ UNCHANGED <<forkVars, stateVars>>

(* A longer fork: fetch both branches, then pop, apply and, on a failure, *)
(* go back.                                                                *)
StartSwitch ==
    /\ pc = "forked" /\ Prev(head) # chain
    /\ Len(head) > Len(chain)
    /\ \/ /\ ~CanFetchBranches(head, chain)
          /\ Return("threw")
          /\ UNCHANGED forkVars
       \/ /\ CanFetchBranches(head, chain)
          /\ LET low == Lowest(head, chain)
             IN Hold({Prefix(head, n) : n \in low..Len(head)} \union
                     {Prefix(chain, n) : n \in low..Len(chain)})
          /\ target' = head
          /\ pc' = "pop"
          /\ UNCHANGED <<new, before, outcome>>
    /\ UNCHANGED stateVars

ForkPoint == Prefix(before, Lowest(target, before) - 1)

(* pop_block, in the switch and in the way back.  An exception leaves what *)
(* was popped so far popped.                                               *)
BlockFound == chain \in index \/ FetchOptional(log, chain) # None
CanPopBlock == BlockFound /\ CanPop /\ undo # <<>>

PopState ==
    /\ chain' = undo[Len(undo)]
    /\ undo' = SubSeq(undo, 1, Len(undo) - 1)
    /\ UNCHANGED <<log, undoMax, final>>

PopBlock ==
    /\ pc \in {"pop", "repop"} /\ chain # ForkPoint
    /\ CanPopBlock
    /\ ForkPop
    /\ PopState
    /\ UNCHANGED pushVars

PopThrows ==
    /\ pc \in {"pop", "repop"} /\ chain # ForkPoint
    /\ ~CanPopBlock
    /\ IF BlockFound /\ CanPop THEN ForkPop ELSE UNCHANGED forkVars
    /\ Goto("throw")
    /\ UNCHANGED stateVars

(* The branch vectors go out of scope with the exception. *)
Throw ==
    /\ pc = "throw"
    /\ Release
    /\ Return("threw")
    /\ UNCHANGED stateVars

OnTarget == pc = "apply" \/ (pc = "pop" /\ chain = ForkPoint)
NextOf(b) == Prefix(b, Len(chain) + 1)

ApplyFork ==
    /\ OnTarget /\ chain # target
    /\ Applies(NextOf(target))
    /\ ApplyAndStore(NextOf(target), NextOf(target))
    /\ Goto("apply")

FinishSwitch ==
    /\ pc = "apply" /\ chain = target
    /\ Release
    /\ Return("switched")
    /\ UNCHANGED stateVars

ApplyForkFails ==
    /\ OnTarget /\ chain # target
    /\ ~Applies(NextOf(target))
    /\ ApplyFails(NextOf(target))
    /\ Goto("cleanup")

RemoveRestStuck ==    \* mutant: the loop does not advance its iterator
    /\ pc = "cleanup"
    /\ ForkRemove({NextOf(target)})
    /\ UNCHANGED <<stateVars, pushVars>>

(* The rest of the branch is removed from the fork database, which gets    *)
(* its old head back.                                                      *)
RemoveRest ==
    /\ pc = "cleanup"
    /\ ForkRemove({Prefix(target, n) : n \in (Len(chain) + 1)..Len(target)})
    /\ Goto("sethead")
    /\ UNCHANGED stateVars

SetHead ==
    /\ pc = "sethead"
    /\ ForkSetHead(before)
    /\ Goto("repop")
    /\ UNCHANGED stateVars

(* Every restored block is stored under the id of the new block. *)
RestoreFork ==
    /\ pc = "restore" \/ (pc = "repop" /\ chain = ForkPoint)
    /\ chain # before
    /\ Applies(NextOf(before))
    /\ ApplyAndStore(NextOf(before), new)
    /\ Goto(IF NextOf(before) = before THEN "throw" ELSE "restore")

(* The steps of a call of push_block that is under way. *)
PushStep ==
    \/ Extend \/ ExtendFails \/ RemoveNew
    \/ StayOnFork \/ StartSwitch
    \/ PopBlock \/ PopThrows \/ Throw
    \/ ApplyFork \/ FinishSwitch \/ ApplyForkFails
    \/ RemoveRest \/ SetHead \/ RestoreFork

(* A peer delivers a block.  When blocks come in order, the predecessor is *)
(* known.                                                                  *)
Deliver(b) ==
    /\ InOrder => Len(b) = 1 \/ Prev(b) \in index
    /\ PushBlock(b)

Next ==
    \/ \E depth \in 2..MaxDepth : PushTransaction(depth)
    \/ \E b \in Blocks : Deliver(b)
    \/ PushStep

Spec == Init /\ [][Next]_vars

(* A call that is under way runs on: it is one thread's synchronous call. *)
CallSpec == Spec /\ WF_vars(PushStep)

(* Peers offer every block they have again and again. *)
PeerSpec == CallSpec /\ \A b \in Blocks : SF_vars(Deliver(b))

-----------------------------------------------------------------------------
Labels == {"idle", "forked", "remove", "pop", "apply", "cleanup", "sethead",
           "repop", "restore", "throw"}
Outcomes == {"none", "applied", "kept", "switched", "threw"}

(* The state has the shape of the code's members; in particular _head is a *)
(* block whenever it is not null.                                          *)
TypeOK ==
    /\ index \subseteq Blocks /\ linked \subseteq Blocks /\ held \subseteq Blocks
    /\ head \in Blocks \union {None} /\ headLink \in BOOLEAN
    /\ max_size \in Nat /\ undoMax \in Nat /\ final \in Nat
    /\ log \in Seq(Entries)
    /\ chain \in Heads /\ undo \in Seq(Heads)
    /\ pc \in Labels /\ outcome \in Outcomes
    /\ new \in Heads /\ target \in Heads /\ before \in Heads

(* The undo history is always the chain of the last blocks before the      *)
(* head, without a gap: at every step of a push, of a fork switch and of   *)
(* its way back, undoing the newest state is exactly popping the head      *)
(* block.                                                                  *)
UndoIsHistory ==
    /\ Len(undo) <= Len(chain)
    /\ \A i \in 1..Len(undo) :
           undo[i] = Prefix(chain, Len(chain) - Len(undo) + i - 1)

(* No block is cut off from the undo history before its number has been    *)
(* irreversible, except for one per level of sessions that nest deeper     *)
(* than the pending session and a transaction in it: the sizes computed    *)
(* by update_undo_db_size leave room for those two only.                   *)
UndoReachesReversible ==
    Len(chain) - Len(undo) <= final + (MaxDepth - 2)

(* push_block returns without an exception only if the chain has become at *)
(* least as long as the block that was pushed.                             *)
PushCatchesUp ==
    (pc = "idle" /\ outcome # "threw") => Len(chain) >= Len(new)

(* Whatever a push does, also one that fails half way, the chain keeps the *)
(* blocks before the one that was irreversible when the head block before  *)
(* the push was applied.                                                   *)
IrreversibleKept ==
    LET kept == LIB[Prev(before)] - 1
    IN (before # <<>> /\ kept > 0) =>
           Len(chain) >= kept /\ Prefix(chain, kept) = Prefix(before, kept)

(* A call of push_block returns: none of its loops runs forever. *)
PushReturns == (pc # "idle") ~> (pc = "idle")

(* The longest chain is adopted in the end when every block is valid and   *)
(* delivered after its predecessor, in whatever order the forks arrive.    *)
Converges ==
    <>[](\A b \in Blocks : Len(b) <= Len(chain))

(* "Push block "may fail" in which case every partial change is unwound":  *)
(* after a push that throws, the chain is what it was before.              *)
PushUnwinds ==
    (pc = "idle" /\ outcome = "threw") => chain = before

(* "After push block is successful the block is appended to the chain      *)
(* database on disk": between calls the block log holds the chain.         *)
LogMatchesChain ==
    pc = "idle" =>
        \A n \in 1..Len(chain) : FetchByNumber(log, n) = Prefix(chain, n)
=============================================================================
