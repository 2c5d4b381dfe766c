----------------------------- MODULE PledgeMining ----------------------------
(***************************************************************************)
(* Mining pledges: accounts pledge part of their balance to a witness, and *)
(* the witness, when it is scheduled by pledge, shares its pay with them.  *)
(* What is to be shared is kept per unit pledged, in bonus_per_pledge, and *)
(* credited to an account when its pledge changes, when the witness stops  *)
(* or resigns, and every BonusInterval blocks.                             *)
(*                                                                         *)
(* There is one witness account, which has a new witness object every time *)
(* it becomes a witness again.  A resigned object stays until the votes    *)
(* for it are cleared, which may take several blocks.                      *)
(***************************************************************************)
EXTENDS PledgeBalance, Folds

CONSTANTS
    Miners,             \* the accounts that pledge, numbers
    MiningAmounts,      \* bound: the amounts they pledge
    MinerBalance,       \* the balance they start with
    MiningDelay,        \* mining_pledge_release_delay
    WitnessPledge,      \* what the witness has pledged itself
    BonusRate,          \* bonus_rate, in percent
    BlockPay,           \* by_pledge_witness_pay_per_block
    BonusPrecision,     \* GRAPHENE_PLEDGE_BONUS_PRECISION
    BonusInterval,      \* blocks between distributions (10000)
    TwoTo64,            \* the range of total_mining_pledge, an uint64_t
    MaxMiningHead,      \* bound: the last block
    MaxMiningCalls      \* bound: the number of calls

ASSUME MiningAssumption ==
    /\ IsFiniteSet(Miners) /\ MiningAmounts \subseteq Nat /\ MinerBalance \in Nat
    /\ MiningDelay \in Nat \ {0} /\ WitnessPledge \in Nat \ {0}
    /\ BonusRate \in Nat /\ BlockPay \in Nat /\ BonusPrecision \in Nat \ {0}
    /\ BonusInterval \in Nat /\ TwoTo64 \in Nat \ {0}

VARIABLES
    mine,               \* the objects
    mineCalls           \* how many calls there have been

pvars == <<mine, mineCalls>>

NewWitness == [valid |-> TRUE, can |-> TRUE, total |-> 0, perPledge |-> NothingReleasing,
               unhandled |-> 0, need |-> 0, already |-> 0, last |-> 0]
NoPledge == [on |-> FALSE, last |-> 0, balance |-> NewPledge(0)]

MiningInit ==
    /\ mine = [head   |-> 1,
               signer |-> 1,
               seq    |-> 1,
               wit    |-> [q \in {1} |-> NewWitness],
               obj    |-> [a \in Miners |-> NoPledge],
               stats  |-> [a \in Miners |-> [core |-> MinerBalance, locked |-> 0, bonus |-> 0]],
               pay    |-> 0,
               paid   |-> 0]
    /\ mineCalls = 0

-----------------------------------------------------------------------------
PerPledge(w) == (w.unhandled * BonusPrecision) \div w.total
Unshared(w) == w.unhandled > 0 /\ w.total > 0

AccumulateBonus(w, from) ==
    SumOfFunction([b \in {b \in DOMAIN w.perPledge : b >= from} |-> w.perPledge[b]])
    + IF Unshared(w) THEN PerPledge(w) ELSE 0

(* The share of one account, by update_pledge_mining_bonus_by_account. *)
Share(s, w, a) ==
    (AccumulateBonus(w, s.obj[a].last + 1) * s.obj[a].balance.pledge) \div BonusPrecision

CreditShare(s, w, a) ==
    IF s.obj[a].balance.pledge = 0 THEN s
    ELSE [s EXCEPT !.stats[a].bonus = @ + Share(s, w, a), !.obj[a].last = s.head]

(* Everybody's, and the witness gets what is left. *)
CreditAll(s, w) ==
    LET on == {a \in Miners : s.obj[a].on}
        sent == SumOfFunction([a \in on |-> Share(s, w, a)])
        Credited(a) == IF a \in on THEN CreditShare(s, w, a) ELSE s
    IN [s EXCEPT !.stats = [a \in Miners |-> Credited(a).stats[a]],
                 !.obj = [a \in Miners |-> Credited(a).obj[a]],
                 !.pay = @ + w.need - w.already - sent]

ResignMining(s) ==
    [s EXCEPT !.obj = [a \in Miners |->
        IF ~s.obj[a].on THEN s.obj[a]
        ELSE [s.obj[a] EXCEPT !.balance = UpdatePledge(@, 0, s.head + MiningDelay)]]]

Current(s) == {q \in DOMAIN s.wit : s.wit[q].valid}

-----------------------------------------------------------------------------
(* The witness object, before its total changes: the bonus not yet shared  *)
(* is divided by the pledges that earned it.                               *)
ShareUnhandled(w, head) ==
    IF Unshared(w)
    THEN [w EXCEPT !.unhandled = 0, !.perPledge =
             IF head \in DOMAIN @ THEN @ ELSE WithEntry(@, head, PerPledge(w))]
    ELSE w

PledgeMiningUpdate(a, new) ==
    \E q \in Current(mine) :
        LET w == mine.wit[q]
            o == mine.obj[a]
            sent == IF o.on /\ o.balance.pledge > 0 THEN Share(mine, w, a) ELSE 0
            s == IF o.on THEN CreditShare(mine, w, a) ELSE mine
            locked == PledgeDelta(o.balance, new)
            updated == IF o.on
                      THEN [s.obj[a] EXCEPT !.balance = UpdatePledge(@, new, s.head + MiningDelay)]
                      ELSE [on |-> TRUE, last |-> s.head, balance |-> NewPledge(new)]
            v == [ShareUnhandled(w, s.head) EXCEPT
                     !.already = @ + sent,
                     !.total = (@ + new - o.balance.pledge) % TwoTo64]
            rest == IF v.need > v.already THEN v.need - v.already ELSE 0
            t == [s EXCEPT !.obj[a] = updated, !.stats[a].locked = @ + locked]
        IN /\ w.can
           /\ \/ /\ new > 0 /\ (o.on => new # o.balance.pledge)
                 /\ mine.stats[a].core - mine.stats[a].locked + TotalUnreleased(o.balance) >= new
              \/ new = 0 /\ o.on /\ o.balance.pledge > 0
           /\ mine' = IF v.total # 0 THEN [t EXCEPT !.wit[q] = v]
                      ELSE [t EXCEPT !.pay = @ + rest, !.wit[q] =
                               [v EXCEPT !.need = 0, !.already = 0,
                                         !.perPledge = NothingReleasing]]

PledgeBonusCollect(a, amount) ==
    /\ amount <= mine.stats[a].bonus
    /\ mine' = [mine EXCEPT !.stats[a].bonus = @ - amount, !.stats[a].core = @ + amount]

(* witness_update with a new pledge of zero; the witness that signs the    *)
(* block is active, and an active witness can not resign.                  *)
WitnessResign ==
    \E q \in Current(mine) :
        /\ q # mine.signer
        /\ mine' = [mine EXCEPT !.wit[q].valid = FALSE]

WitnessCreate ==
    /\ Current(mine) = {}
    /\ mine' = [mine EXCEPT !.seq = @ + 1,
                   !.wit = [q \in DOMAIN @ \union {mine.seq + 1} |->
                               IF q = mine.seq + 1 THEN NewWitness ELSE @[q]]]

Cleared(w, head) == [w EXCEPT !.unhandled = 0, !.need = 0, !.already = 0,
                              !.last = head, !.perPledge = NothingReleasing]

(* witness_update with can_pledge. *)
WitnessCanPledge(can) ==
    \E q \in Current(mine) :
        LET s == ResignMining(CreditAll(mine, mine.wit[q]))
        IN /\ can # mine.wit[q].can
           /\ mine' = IF can THEN [mine EXCEPT !.wit[q].can = TRUE]
                      ELSE [s EXCEPT !.wit[q] =
                               [Cleared(mine.wit[q], mine.head) EXCEPT !.can = FALSE, !.total = 0]]

-----------------------------------------------------------------------------
(* deposit_witness_pay *)
DepositPay(s, q) ==
    LET w == s.wit[q]
        bonus == (BlockPay * BonusRate * w.total) \div ((WitnessPledge + w.total) * 100)
    IN [s EXCEPT !.paid = @ + BlockPay, !.pay = @ + BlockPay - bonus,
                 !.wit[q] = [w EXCEPT !.unhandled = @ + bonus, !.need = @ + bonus,
                                      !.last = IF bonus > 0 /\ @ = 0 THEN s.head ELSE @]]

(* process_pledge_balance_release; an object that is empty then is removed. *)
ReleasePledges(s) ==
    LET After(o) == [o EXCEPT !.balance = ReleaseDue(@, s.head)]
        Step(o) == IF Due(o.balance, s.head) = {} THEN o
                   ELSE IF Emptied(After(o).balance) THEN NoPledge ELSE After(o)
    IN [s EXCEPT !.obj = [a \in Miners |-> Step(s.obj[a])],
                 !.stats = [a \in Miners |->
                     [s.stats[a] EXCEPT !.locked = @ - Released(s.obj[a].balance, s.head)]]]

(* clear_resigned_witness_votes, when no vote for the witness is left. *)
RemoveResigned(s) ==
    LET Drop(q, u) == ResignMining(CreditAll(u, s.wit[q]))
        t == MapThenFoldSet(Drop, s, LAMBDA q : q, LAMBDA S : Max(S),
                            DOMAIN s.wit \ Current(s))
    IN [t EXCEPT !.wit = [q \in Current(s) |-> s.wit[q]]]

(* update_pledge_mining_bonus; the latest object first. *)
DistributeBonus(s) ==
    LET due == {q \in DOMAIN s.wit :
                   /\ s.wit[q].total > 0
                   /\ DOMAIN s.wit[q].perPledge # {} \/ s.wit[q].unhandled > 0
                   /\ s.wit[q].last + BonusInterval <= s.head}
        Later(x, y) == \/ s.wit[x].last > s.wit[y].last
                       \/ s.wit[x].last = s.wit[y].last /\ x < y
        t == MapThenFoldSet(LAMBDA q, u : CreditAll(u, s.wit[q]), s, LAMBDA q : q,
                            LAMBDA S : CHOOSE x \in S : \A y \in S \ {x} : Later(y, x), due)
    IN [t EXCEPT !.wit = [q \in DOMAIN s.wit |->
            IF q \in due THEN Cleared(s.wit[q], s.head) ELSE s.wit[q]]]

(* The end of a block: its signer is paid, unless it is another witness    *)
(* (0), and the schedule says whether the witness signs the next one.      *)
MiningEndBlock(signs, votesLeft) ==
    LET s == ReleasePledges(IF mine.signer # 0 THEN DepositPay(mine, mine.signer) ELSE mine)
        t == DistributeBonus(IF votesLeft THEN s ELSE RemoveResigned(s))
    IN /\ mine.head < MaxMiningHead
       /\ signs => Current(mine) # {}
       /\ votesLeft => Current(mine) # DOMAIN mine.wit
       /\ mine' = [t EXCEPT !.head = @ + 1, !.signer = IF signs THEN t.seq ELSE 0]
       /\ UNCHANGED mineCalls

MiningCall ==
    \/ \E a \in Miners, n \in MiningAmounts : PledgeMiningUpdate(a, n)
    \/ \E a \in Miners : mine.stats[a].bonus > 0 /\ PledgeBonusCollect(a, mine.stats[a].bonus)
    \/ WitnessResign \/ WitnessCreate
    \/ \E can \in BOOLEAN : WitnessCanPledge(can)

MiningNext ==
    \/ mineCalls < MaxMiningCalls /\ MiningCall /\ mineCalls' = mineCalls + 1
    \/ \E signs, votesLeft \in BOOLEAN : MiningEndBlock(signs, votesLeft)

MiningSpec == MiningInit /\ [][MiningNext]_pvars

-----------------------------------------------------------------------------
MiningTypeOK ==
    /\ mine.head \in 1..MaxMiningHead /\ mineCalls \in 0..MaxMiningCalls
    /\ mine.signer \in {0} \union DOMAIN mine.wit /\ Cardinality(Current(mine)) <= 1
    /\ \A q \in DOMAIN mine.wit : q \in 1..mine.seq /\ mine.wit[q].total \in 0..(TwoTo64 - 1)

(* What an account may not spend is what it has pledged and what is still  *)
(* being released, through any sequence of changes of the pledge, stops    *)
(* and resignations of the witness, and releases at the end of blocks; it  *)
(* never exceeds the balance, and nothing is released late.                *)
MiningLocked ==
    \A a \in Miners :
        LET p == mine.obj[a].balance
        IN /\ mine.stats[a].locked = TotalUnreleased(p) /\ EntriesAddUp(p)
           /\ mine.stats[a].locked <= mine.stats[a].core
           /\ \A b \in DOMAIN p.releasing : b >= mine.head /\ p.releasing[b] > 0

(* check_invariants: what was issued as pay is in balances, bonuses and    *)
(* pay not yet collected, or still to be distributed.                      *)
MiningConserves ==
    LET Of(a) == mine.stats[a].core + mine.stats[a].bonus
        Held(q) == mine.wit[q].need - mine.wit[q].already
    IN Cardinality(Miners) * MinerBalance + mine.paid =
           mine.pay + FoldSet(LAMBDA a, n : Of(a) + n, 0, Miners)
                    + FoldSet(LAMBDA q, n : Held(q) + n, 0, DOMAIN mine.wit)
==============================================================================
