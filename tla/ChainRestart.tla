---------------------------- MODULE ChainRestart ----------------------------
(***************************************************************************)
(* A node that is closed, killed and opened again: database::close, open   *)
(* and reindex around ChainDatabase.                                       *)
(*                                                                         *)
(* What survives is the object state of the last flush and the block log.  *)
(* A process that is killed loses the object state; of the log it can lose *)
(* the write of the last store, since every store begins by seeking, which *)
(* writes out the one before.                                              *)
(***************************************************************************)
EXTENDS ChainDatabase

CONSTANTS
    ReadAhead,          \* how many blocks reindex reads before it applies one
    MaxStops            \* bound: how often the node stops

ASSUME RestartAssumption ==
    /\ ReadAhead \in Nat \ {0}
    /\ MaxStops \in Nat

VARIABLES
    phase,      \* what the node does: up, closing, down, replay
    saved,      \* the object state on disk
    unsynced,   \* the log before the last store
    torn,       \* the number of the entry of the last store, 0 if none
    cutoff,     \* close: the block to rewind to
    nextRead,   \* reindex: next_block_num
    lastRead,   \* reindex: last_block_num
    queue,      \* reindex: the blocks read and not yet applied
    position,   \* reindex: i
    closed,     \* history: the head when the node was closed, None if killed
    opened,     \* how the last open ended
    stops       \* how often the node has stopped

reindexVars == <<nextRead, lastRead, queue, position>>
restartVars == <<phase, saved, cutoff, reindexVars, closed, opened, stops>>
diskVars == <<unsynced, torn>>
rvars == <<vars, restartVars, diskVars>>

RInit ==
    /\ Init
    /\ phase = "up" /\ saved = <<>> /\ cutoff = 0
    /\ unsynced = <<>> /\ torn = 0
    /\ nextRead = 1 /\ lastRead = 0 /\ queue = <<>> /\ position = 1
    /\ closed = None /\ opened = "ok" /\ stops = 0

(* A block that was applied is stored, under its own number or, on the way *)
(* back from a failed switch, under that of the new block.                 *)
Sync ==
    LET stored == Len(chain') > Len(chain)
    IN /\ unsynced' = IF stored THEN log ELSE unsynced
       /\ torn' = IF ~stored THEN torn
                  ELSE IF pc \in {"repop", "restore"} THEN Len(new)
                  ELSE Len(chain')

Synced == unsynced' = log' /\ torn' = 0

(* The node runs: blocks and transactions arrive, calls proceed. *)
Run ==
    /\ phase = "up"
    /\ Next
    /\ Sync
    /\ UNCHANGED restartVars

-----------------------------------------------------------------------------
(* Nothing of the process is left. *)
Forget ==
    /\ ForkReset
    /\ undo' = <<>> /\ undoMax' = InitialUndoMax
    /\ pc' = "idle" /\ new' = <<>> /\ target' = <<>> /\ before' = <<>>
    /\ outcome' = "none"
    /\ queue' = <<>> /\ nextRead' = 1 /\ lastRead' = 0 /\ position' = 1
    /\ cutoff' = 0

(* The process ends without close(): the last store is on disk, or not, or *)
(* only its index entry is.                                                *)
Kill ==
    /\ phase \in {"up", "closing", "replay"} /\ stops < MaxStops
    /\ phase' = "down" /\ stops' = stops + 1
    /\ closed' = None
    /\ \/ log' = log
       \/ log' = unsynced
       \/ torn # 0 /\ log' = [log EXCEPT ![torn].data = None]
    /\ Synced
    /\ chain' = saved
    /\ Forget
    /\ UNCHANGED <<saved, opened, final>>

(* close(): rewind to the last irreversible block, as far as possible. *)
Close ==
    /\ phase = "up" /\ pc = "idle" /\ stops < MaxStops
    /\ phase' = "closing" /\ stops' = stops + 1
    /\ closed' = chain
    /\ cutoff' = LIB[chain]
    /\ UNCHANGED <<vars, diskVars, saved, reindexVars, opened>>

Rewind ==
    /\ phase = "closing"
    /\ Len(chain) > cutoff /\ CanPopBlock
    /\ ForkPopAndRemove(chain)
    /\ PopState
    /\ UNCHANGED <<pushVars, restartVars, diskVars>>

(* flush() writes the object state, also when rewinding threw. *)
Flush ==
    /\ phase = "closing"
    /\ ~(Len(chain) > cutoff /\ CanPopBlock)
    /\ phase' = "down"
    /\ saved' = chain
    /\ UNCHANGED log
    /\ Synced
    /\ Forget
    /\ UNCHANGED <<chain, final, closed, opened, stops>>

-----------------------------------------------------------------------------
(* An exception in open() ends the process; the log keeps what it has. *)
OpenFails ==
    /\ phase' = "down" /\ opened' = "failed"
    /\ chain' = saved
    /\ Forget
    /\ Synced
    /\ UNCHANGED <<saved, closed, stops, final>>

OpenDone ==
    /\ phase' = "up" /\ opened' = "ok"
    /\ UNCHANGED <<saved, cutoff, closed, stops, final, undo, undoMax, pushVars>>

(* --replay-blockchain deletes the object state. *)
Wipe ==
    /\ phase = "down"
    /\ saved' = <<>> /\ chain' = <<>>
    /\ UNCHANGED <<forkVars, log, undo, undoMax, final, pushVars, phase, cutoff,
                   reindexVars, closed, opened, stops, diskVars>>

Last == LastReadable(log)

(* Nothing to replay. *)
OpenCurrent ==
    /\ phase = "down"
    /\ Last = 0 \/ Last = Len(chain)
    /\ log' = Cut(log) /\ Synced
    /\ OpenDone
    /\ UNCHANGED <<forkVars, chain, reindexVars>>

(* reindex(): with undo history from the start, or first without. *)
UndoPoint == IF lastRead < MaxUndoHistory THEN 0 ELSE lastRead - MaxUndoHistory

OpenBehindAtHead ==    \* mutant: replay starts with the head block again
    /\ phase = "down"
    /\ Last > Len(chain) /\ Len(chain) > 0
    /\ log' = Cut(log) /\ Synced
    /\ lastRead' = Last
    /\ nextRead' = Len(chain) /\ position' = Len(chain)
    /\ ForkStart(FetchByNumber(log, Len(chain)))
    /\ phase' = "replay"
    /\ UNCHANGED <<chain, undo, undoMax, final, pushVars, saved, cutoff, queue,
                   closed, opened, stops>>

OpenBehindShort ==    \* mutant: the last block of the log is not replayed
    /\ phase = "down"
    /\ Last > Len(chain)
    /\ log' = Cut(log) /\ Synced
    /\ lastRead' = Last - 1
    /\ nextRead' = Len(chain) + 1 /\ position' = Len(chain) + 1
    /\ UNCHANGED forkVars
    /\ phase' = "replay"
    /\ UNCHANGED <<chain, undo, undoMax, final, pushVars, saved, cutoff, queue,
                   closed, opened, stops>>

OpenBehind ==
    /\ phase = "down"
    /\ Last > Len(chain)
    /\ log' = Cut(log) /\ Synced
    /\ lastRead' = Last
    /\ nextRead' = Len(chain) + 1 /\ position' = Len(chain) + 1
    /\ IF Len(chain) > 0 /\ Len(chain) >= UndoPoint'
       THEN ForkStart(FetchByNumber(log, Len(chain)))
       ELSE UNCHANGED forkVars
    /\ phase' = "replay"
    /\ UNCHANGED <<chain, undo, undoMax, final, pushVars, saved, cutoff, queue,
                   closed, opened, stops>>

(* Reading ahead; at a gap everything above the block to apply next goes,  *)
(* blocks that were read already included.                                 *)
Reading == phase = "replay" /\ nextRead <= lastRead /\ Len(queue) < ReadAhead

ReadBlock ==
    /\ Reading /\ pc = "idle"
    /\ LET b == FetchByNumber(log, nextRead)
       IN \/ /\ b # None
             /\ queue' = Append(queue, b)
             /\ nextRead' = nextRead + 1
             /\ UNCHANGED <<log, diskVars>>
          \/ /\ b = None
             /\ log' = Dropped(log, position)
             /\ Synced
             /\ nextRead' = lastRead + 1
             /\ UNCHANGED queue
    /\ UNCHANGED <<forkVars, chain, undo, undoMax, final, pushVars, phase, saved,
                   cutoff, lastRead, position, closed, opened, stops>>

(* The block at the front of the queue is next. *)
Replaying == phase = "replay" /\ ~Reading /\ queue # <<>> /\ pc = "idle"
Pushed == new = Head(queue)

(* Below the undo point a block is applied and nothing else. *)
ReplayApply ==
    /\ Replaying /\ position < UndoPoint
    /\ \/ /\ Applies(Head(queue))
          /\ chain' = Head(queue)
          /\ undoMax' = NewSize(Head(queue))
          /\ ForkSetMaxSize(NewSize(Head(queue)))
          /\ final' = MaxOf(final, LIB[Head(queue)])
          /\ queue' = Tail(queue) /\ position' = position + 1
          /\ UNCHANGED <<log, undo, pushVars, phase, saved, diskVars, cutoff,
                         nextRead, lastRead, closed, opened, stops>>
       \/ /\ ~Applies(Head(queue))
          /\ UNCHANGED log
          /\ OpenFails

(* From there on it is pushed; the object state is flushed at that point. *)
ReplayPush ==
    /\ Replaying /\ position >= UndoPoint /\ ~Pushed
    /\ PushBlock(Head(queue))
    /\ saved' = IF position = UndoPoint THEN chain ELSE saved
    /\ UNCHANGED <<diskVars, phase, cutoff, reindexVars, closed, opened, stops>>

ReplayStep ==
    /\ phase = "replay"
    /\ PushStep
    /\ Sync
    /\ UNCHANGED restartVars

ReplayPushedFlushes ==    \* mutant: the object state is flushed after the push
    /\ Replaying /\ Pushed /\ outcome # "threw"
    /\ saved' = chain
    /\ queue' = Tail(queue) /\ position' = position + 1
    /\ UNCHANGED <<vars, phase, diskVars, cutoff, nextRead, lastRead, closed,
                   opened, stops>>

ReplayPushed ==
    /\ Replaying /\ Pushed
    /\ \/ /\ outcome # "threw"
          /\ queue' = Tail(queue) /\ position' = position + 1
          /\ UNCHANGED <<vars, phase, saved, diskVars, cutoff, nextRead,
                         lastRead, closed, opened, stops>>
       \/ /\ outcome = "threw"
          /\ UNCHANGED log
          /\ OpenFails

ReplayDone ==
    /\ phase = "replay" /\ ~Reading /\ queue = <<>>
    /\ OpenDone
    /\ UNCHANGED <<forkVars, log, chain, diskVars, reindexVars>>

RNext ==
    \/ Run
    \/ Kill \/ Close \/ Rewind \/ Flush \/ Wipe
    \/ OpenCurrent \/ OpenBehind
    \/ ReadBlock \/ ReplayApply \/ ReplayPush \/ ReplayStep \/ ReplayPushed
    \/ ReplayDone

RSpec == RInit /\ [][RNext]_rvars

-----------------------------------------------------------------------------
Phases == {"up", "closing", "down", "replay"}

(* The state of the node around the chain database. *)
RTypeOK ==
    /\ TypeOK
    /\ phase \in Phases /\ opened \in {"ok", "failed"}
    /\ saved \in Heads /\ closed \in Heads \union {None}
    /\ unsynced \in Seq(Entries) /\ torn \in 0..Len(log) /\ queue \in Seq(Blocks)
    /\ {cutoff, nextRead, lastRead, position, stops} \subseteq Nat
    /\ phase = "down" => chain = saved

(* A node that was closed can be opened: rewinding, flushing, cutting the  *)
(* log and replaying it never make open() throw.                           *)
CleanOpenSucceeds == opened = "failed" => closed = None

(* A node that was closed comes back with the chain it had, although       *)
(* close() flushed an older object state.  It can come back with more: a   *)
(* push that failed leaves blocks in the log that the chain had lost.      *)
RestartRestores ==
    [][(phase # "up" /\ phase' = "up" /\ closed # None)
           => /\ Len(chain') >= Len(closed)
              /\ Prefix(chain', Len(closed)) = closed]_rvars

(* The object state on disk is never ahead of the log, however the node    *)
(* stopped: open()'s assertion holds, whichever way ids of one number      *)
(* compare, and reindex() finds the block of the head to start from.       *)
LogReachesSaved ==
    (phase = "down" /\ saved # <<>>) =>
        /\ Last >= Len(saved)
        /\ FetchByNumber(log, Len(saved)) = saved

(* Between calls a running node's log holds its chain, also after it was   *)
(* killed in the middle of a call and opened again.                        *)
LogSurvives == phase = "up" => LogMatchesChain

(* "you might want to force a replay": opening from an empty object state  *)
(* by replaying the log works, whatever happened before.                   *)
ReplayRebuilds == opened = "failed" => saved # <<>>
=============================================================================
