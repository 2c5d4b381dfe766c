--------------------------- MODULE WitnessSchedule ---------------------------
(***************************************************************************)
(* Who may sign blocks: a round is scheduled of the witnesses with the     *)
(* most votes, of some of the others in proportion to their votes, and of  *)
(* some in proportion to what is pledged.  The last two take turns in a    *)
(* virtual time each, an unsigned number that wraps around: a witness's    *)
(* turn comes when it has run a lap, at a speed that is its weight.        *)
(*                                                                         *)
(* A step is a whole round.  How the average of a pledge follows it is     *)
(* left open: it falls at once and rises in any steps.                     *)
(***************************************************************************)
EXTENDS Integers, FiniteSets, FiniteSetsExt

CONSTANTS
    Candidates,         \* the witnesses' accounts, numbers
    VotesFor,           \* bound: their total_votes
    Pledges,            \* bound: their pledges; 0 to resign
    MinedPledges,       \* bound: their total_mining_pledge
    MaxTime,            \* UINT128_MAX_VALUE, also the length of a lap
    TopMax,             \* by_vote_top_witness_count
    RestMax,            \* by_vote_rest_witness_count
    PledgeMax,          \* by_pledge_witness_count
    MinProducePledge,   \* min_witness_block_produce_pledge
    MaxScheduleCalls    \* bound: calls

ASSUME ScheduleAssumption ==
    /\ IsFiniteSet(Candidates) /\ Candidates \subseteq Nat
    /\ VotesFor \subseteq Nat /\ Pledges \subseteq Nat /\ MinedPledges \subseteq Nat
    /\ \E p \in Pledges : p > 0
    /\ MaxTime \in Nat
    /\ TopMax \in Nat /\ RestMax \in Nat /\ PledgeMax \in Nat

VARIABLES
    sched,              \* the witnesses and the schedule
    scheduleCalls       \* how many calls there have been

svars == <<sched, scheduleCalls>>

Lanes == {"vote", "pledge"}
NotScheduled == [pos |-> 0, at |-> 0, due |-> MaxTime]
NewCandidate(pledge) ==
    [valid |-> TRUE, key |-> TRUE, votes |-> 0, pledge |-> pledge, average |-> 0, mined |-> 0,
     lane |-> [l \in Lanes |-> NotScheduled]]

ScheduleInit ==
    /\ sched = [wit |-> [w \in Candidates |-> NewCandidate(CHOOSE p \in Pledges : p > 0)],
                time |-> [l \in Lanes |-> 0],
                active |-> Candidates]
    /\ scheduleCalls = 0

-----------------------------------------------------------------------------
ValidWitnesses(s) == {w \in Candidates : s.wit[w].valid}

(* What the lap's length is divided by, and what it is divided by for the  *)
(* part that has been run.                                                 *)
Weight(x, l) == IF l = "vote" THEN x.votes ELSE x.average + x.mined
Speed(x, l) == IF l = "vote" THEN x.votes ELSE x.average

(* The two parts of adjust_witness_votes and update_witness_avg_pledge. *)
Run(x, l, t) ==
    IF t <= x.lane[l].at THEN x
    ELSE [x EXCEPT !.lane[l] =
             [pos |-> (x.lane[l].pos + (t - x.lane[l].at) * Speed(x, l)) % (MaxTime + 1),
              at |-> t, due |-> x.lane[l].due]]

PlanWraps(x, l, t) ==   \* mutant: the overflow is not noticed
    [x EXCEPT !.lane[l].due =
        (x.lane[l].at + (MaxTime - x.lane[l].pos) \div (Weight(x, l) + 1)) % (MaxTime + 1)]

Plan(x, l, t) ==
    LET due == (x.lane[l].at + (MaxTime - x.lane[l].pos) \div (Weight(x, l) + 1))
                   % (MaxTime + 1)
    IN [x EXCEPT !.lane[l].due = IF due < t THEN MaxTime ELSE due]

ResetLane(s, l) ==
    [s EXCEPT !.time[l] = 0,
              !.wit = [w \in Candidates |->
                  IF ~s.wit[w].valid THEN s.wit[w]
                  ELSE [s.wit[w] EXCEPT !.lane[l] =
                      [pos |-> 0, at |-> 0, due |-> MaxTime \div (Weight(s.wit[w], l) + 1)]]]]

(* The witnesses that are gone through in the order of an index, until n   *)
(* that can be taken have been.  index[w] are those before w.              *)
Walked(index, n, takes) ==
    {w \in DOMAIN index : Cardinality(index[w] \intersect takes) < n}

(* The next turns of those that were gone through.  When the time of one   *)
(* would overflow the lane starts again from 0, for all of them.           *)
AdvanceStuck(s, l, walked) ==   \* mutant: an overflow resets nothing
    LET now == Max({s.wit[w].lane[l].due : w \in walked})
        next(w) == (now + MaxTime \div (Weight(s.wit[w], l) + 1)) % (MaxTime + 1)
    IN IF \E w \in walked : next(w) < now THEN s
       ELSE [s EXCEPT !.time[l] = now,
                      !.wit = [w \in Candidates |->
                          IF w \notin walked THEN s.wit[w]
                          ELSE [s.wit[w] EXCEPT !.lane[l] =
                                    [pos |-> 0, at |-> now, due |-> next(w)]]]]

Advance(s, l, walked) ==
    LET now == Max({s.wit[w].lane[l].due : w \in walked})
        next(w) == (now + MaxTime \div (Weight(s.wit[w], l) + 1)) % (MaxTime + 1)
    IN IF \E w \in walked : next(w) < now THEN ResetLane(s, l)
       ELSE [s EXCEPT !.time[l] = now,
                      !.wit = [w \in Candidates |->
                          IF w \notin walked THEN s.wit[w]
                          ELSE [s.wit[w] EXCEPT !.lane[l] =
                                    [pos |-> 0, at |-> now, due |-> next(w)]]]]

ByVotes(s) ==
    [w \in ValidWitnesses(s) |-> {v \in ValidWitnesses(s) :
        \/ s.wit[v].votes > s.wit[w].votes
        \/ s.wit[v].votes = s.wit[w].votes /\ v < w}]
BySchedule(s, l) ==
    [w \in ValidWitnesses(s) |-> {v \in ValidWitnesses(s) :
        \/ s.wit[v].lane[l].due < s.wit[w].lane[l].due
        \/ s.wit[v].lane[l].due = s.wit[w].lane[l].due /\ v < w}]

(* One lane of update_witness_schedule: r has the schedule so far. *)
LaneRound(r, l, n, takes) ==
    LET fits == {w \in takes \ r.active : r.wit[w].key}
        walked == Walked(BySchedule(r, l), n, fits)
        added == walked \intersect fits
    IN IF added = {} THEN r
       ELSE [Advance(r, l, walked) EXCEPT !.active = @ \union added]

UpdateWitnessSchedule ==
    LET keyed == {w \in Candidates : sched.wit[w].key}
        pledged == {w \in Candidates : sched.wit[w].pledge >= MinProducePledge}
        first == Walked(ByVotes(sched), TopMax, keyed)
    IN \E top \in {[sched EXCEPT !.active = first \intersect keyed]} :
       \E rest \in {LaneRound(top, "vote", RestMax, Candidates)} :
           sched' = LaneRound(rest, "pledge", PledgeMax, pledged)

-----------------------------------------------------------------------------
AdjustWitnessVotes(w, n) ==
    LET x == Run(sched.wit[w], "vote", sched.time["vote"])
    IN /\ sched.wit[w].valid
       /\ n # sched.wit[w].votes
       /\ sched' = [sched EXCEPT !.wit[w] =
              Plan([x EXCEPT !.votes = n], "vote", sched.time["vote"])]

(* The average pledge becomes the given one. *)
UpdateWitnessAvgPledge(s, w, average) ==
    LET t == s.time["pledge"]
        x == Run(s.wit[w], "pledge", t)
    IN IF x.average = average THEN [s EXCEPT !.wit[w] = x]
       ELSE [s EXCEPT !.wit[w] = Plan([x EXCEPT !.average = average], "pledge", t)]

WitnessUpdatePledge(w, n) ==
    /\ sched.wit[w].valid /\ n > 0 /\ n # sched.wit[w].pledge
    /\ \E average \in sched.wit[w].average..sched.wit[w].pledge :
           LET s == UpdateWitnessAvgPledge(sched, w, average)
           IN sched' = UpdateWitnessAvgPledge([s EXCEPT !.wit[w].pledge = n], w,
                                              IF average > n THEN n ELSE average)

AveragePledge(w) ==
    /\ sched.wit[w].valid
    /\ \E n \in (sched.wit[w].average + 1)..sched.wit[w].pledge :
           sched' = UpdateWitnessAvgPledge(sched, w, n)

MiningPledge(w, n) ==
    /\ sched.wit[w].valid /\ n # sched.wit[w].mined
    /\ sched' = [sched EXCEPT !.wit[w].mined = n]

(* witness_update with a key, and witness_report, which clears it. *)
WitnessKey(w) ==
    /\ sched.wit[w].valid
    /\ sched' = [sched EXCEPT !.wit[w].key = ~@]

ResignWitness(w) ==
    /\ sched.wit[w].valid
    /\ w \notin sched.active
    /\ sched' = [sched EXCEPT !.wit[w].valid = FALSE,
           !.wit[w].lane = [l \in Lanes |-> [sched.wit[w].lane[l] EXCEPT !.due = MaxTime]]]

CreateWitness(w, n) ==
    /\ ~sched.wit[w].valid /\ n > 0
    /\ sched' = [sched EXCEPT !.wit[w] = NewCandidate(n)]

ScheduleCall ==
    /\ scheduleCalls < MaxScheduleCalls
    /\ scheduleCalls' = scheduleCalls + 1
    /\ \E w \in Candidates :
           \/ \E n \in VotesFor : AdjustWitnessVotes(w, n)
           \/ \E n \in Pledges : WitnessUpdatePledge(w, n) \/ CreateWitness(w, n)
           \/ \E n \in MinedPledges : MiningPledge(w, n)
           \/ AveragePledge(w) \/ WitnessKey(w) \/ ResignWitness(w)

ScheduleRound ==
    /\ UpdateWitnessSchedule
    /\ UNCHANGED scheduleCalls

ScheduleNext == ScheduleCall \/ ScheduleRound

(* As long as blocks are produced, rounds end and new ones are scheduled. *)
ScheduleSpec == ScheduleInit /\ [][ScheduleNext]_svars /\ WF_svars(ScheduleRound)

-----------------------------------------------------------------------------
(* No turn of a witness is in the past, and none has run further than a    *)
(* lap: virtual time never goes back but to 0, for everybody, also when it *)
(* overflows in the middle of a round (update_witness_schedule,            *)
(* reset_witness_by_vote_schedule), and the positions never overflow.  And *)
(* whoever is on the schedule is a witness until the next round:           *)
(* update_last_irreversible_block looks each of them up.                   *)
ScheduleSound ==
    /\ \A w \in ValidWitnesses(sched), l \in Lanes :
           LET x == sched.wit[w].lane[l]
               t == sched.time[l]
           IN /\ x.at \in 0..t /\ x.due \in t..MaxTime
              /\ x.pos + (t - x.at) * Speed(sched.wit[w], l) \in 0..MaxTime
    /\ sched.active \subseteq ValidWitnesses(sched)

(* A witness with a key gets its turns once the changes have stopped, if   *)
(* it has votes or a pledge that suffices and has begun to count, whatever *)
(* has happened to votes, pledges and witnesses before and however often   *)
(* the virtual time overflows (update_witness_schedule).                   *)
TurnsCome ==
    \A w \in Candidates :
        LET x == sched.wit[w]
            entitled == \/ x.votes > 0
                        \/ x.pledge >= MinProducePledge /\ x.average > 0
        IN <>[](x.valid /\ x.key /\ entitled) => []<>(w \in sched.active)
=============================================================================
