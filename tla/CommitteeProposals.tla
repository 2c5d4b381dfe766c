-------------------------- MODULE CommitteeProposals -------------------------
(***************************************************************************)
(* Proposals of the committee: its members propose changes and vote on     *)
(* them; an approved proposal is executed at its block, and tried again at *)
(* its expiration when that fails.  Every committee_update_interval blocks *)
(* a new committee takes over and the open proposals are dropped.          *)
(*                                                                         *)
(* Two kinds of items are modelled: changes of who is a registrar and who  *)
(* takes over the accounts of one that is not any more, and withdrawals    *)
(* from a platform's pledge; and the platform operations that change that  *)
(* pledge.                                                                 *)
(***************************************************************************)
EXTENDS PledgeBalance, Sequences, Folds, Functions

CONSTANTS
    Committees,         \* bound: the committees that may be voted in
    ProposalItems,      \* bound: the sequences of items that are proposed
    Schedules,          \* bound: when voting closes, the execution and the expiration
    Registrars,         \* the accounts that are registrars at the start
    RegistrarAccounts,  \* the accounts that may be registrars
    OwnerBalance,       \* the balance of the platform's owner
    PlatformPledges,    \* bound: the pledges of the platform; 0 to resign
    MinPlatformPledge,  \* platform_min_pledge
    PlatformDelay,      \* platform_pledge_release_delay
    CommitteeInterval,  \* committee_update_interval
    MaxOpenProposals,   \* bound: open proposals
    MaxCommitteeCalls,  \* bound: calls
    MaxCommitteeHead    \* bound: the last block

Nobody == "nobody"
Unchanged == "unchanged"
IsRegistrar(a) == [kind |-> "account", account |-> a, reg |-> "yes", to |-> Nobody]
TakenOver(a, b) == [kind |-> "account", account |-> a, reg |-> "no", to |-> b]
NewTakeover(a, b) == [kind |-> "account", account |-> a, reg |-> Unchanged, to |-> b]
Withdraw(n) == [kind |-> "withdraw", amount |-> n]

(* The items of a proposal are such that validate() accepts. *)
ItemOK(item) ==
    \/ item.kind = "withdraw" /\ item = Withdraw(item.amount)
    \/ \E a, b \in RegistrarAccounts :
           item \in {IsRegistrar(a), TakenOver(a, b), NewTakeover(a, b)}

ASSUME CommitteeAssumption ==
    /\ \A m \in Committees : IsFiniteSet(m) /\ m # {}
    /\ Nobody \notin RegistrarAccounts
    /\ \A items \in ProposalItems :
           items \in Seq(Range(items)) /\ \A i \in DOMAIN items : ItemOK(items[i])
    /\ \A t \in Schedules : t.execution \in Nat /\ t.expiration \in Nat

(* No proposal makes an account a registrar and lets it be taken over      *)
(* again in a later item: what it had taken over before would stay with    *)
(* it, as first_takeover is not set for the second item.                   *)
NotMadeAndTaken ==
    \A items \in ProposalItems : \A i, j \in DOMAIN items : \A a, b \in RegistrarAccounts :
        i < j => ~(items[i] = IsRegistrar(a) /\ items[j] = TakenOver(a, b))

VARIABLES
    com,                \* the objects
    committeeCalls,     \* how many calls there have been
    enacted             \* history: what the last step executed, with the committee of that time

comvars == <<com, committeeCalls, enacted>>

CommitteeInit ==
    /\ com \in {[head |-> 1, next |-> CommitteeInterval, members |-> m, open |-> <<>>,
                 number |-> 1, registrars |-> Registrars, takeover |-> <<>>,
                 owner |-> OwnerBalance, receiver |-> 0, pledge |-> NewPledge(0),
                 platform |-> FALSE, platformPledge |-> 0] : m \in Committees}
    /\ committeeCalls = 0
    /\ enacted = <<>>

-----------------------------------------------------------------------------
(* get_approve_threshold and the share of the votes for a proposal, in     *)
(* hundredths of a percent.                                                *)
ApproveThreshold(items) ==
    IF \E i \in DOMAIN items : items[i].kind = "account" THEN 6500 ELSE 5001

YesPercent(p, members) ==
    (Cardinality({m \in DOMAIN p.opinions : p.opinions[m]}) * 10000) \div Cardinality(members)

(* The items are gone through with a copy of who is a registrar, with the  *)
(* accounts for which an item has said so, and with the takeovers they     *)
(* lead to; an item that does not hold throws.  What an account had taken  *)
(* over goes on with the first item that says it is none.                  *)
Merged(f, g) == [o \in DOMAIN f \union DOMAIN g |-> IF o \in DOMAIN g THEN g[o] ELSE f[o]]
Redirected(map, S, b) == [o \in DOMAIN map \union S |-> IF o \in S THEN b ELSE map[o]]

FollowedNone(map, a) == {}     \* mutant: takeovers of the same proposal are not updated
Followed(map, a) == {o \in DOMAIN map : map[o] = a}

AccountItem(x, item) ==
    LET a == item.account
        stored == {o \in DOMAIN x.com.takeover : x.com.takeover[o] = a}
        map == IF item.reg = "no" /\ a \notin x.said THEN Redirected(x.map, stored, item.to)
               ELSE x.map
        reg == CASE item.reg = "yes" -> x.reg \union {a}
                 [] item.reg = "no" -> x.reg \ {a}
                 [] OTHER -> x.reg
        said == IF item.reg = Unchanged THEN x.said ELSE x.said \union {a}
    IN IF item.to = Nobody
       THEN [x EXCEPT !.map = WithoutEntries(map, {a}), !.reg = reg, !.said = said]
       ELSE [x EXCEPT !.ok = a \notin reg /\ item.to \in reg,
                      !.map = Redirected(map, Followed(map, a) \union {a}, item.to),
                      !.reg = reg, !.said = said]

(* A withdrawal takes effect at once: from what is being released first.   *)
(* A platform whose pledge falls below the least is given up.              *)
WithdrawItem(c, n) ==
    LET amount == Min({n, TotalUnreleased(c.pledge)})
        releasing == Min({c.pledge.total, amount})
        less == [ReduceReleasing(c.pledge, releasing) EXCEPT !.pledge = @ - (amount - releasing)]
        low == less.pledge < MinPlatformPledge
        d == [c EXCEPT !.receiver = @ + amount]
    IN IF Emptied(c.pledge) THEN c
       ELSE IF low
       THEN [d EXCEPT !.platform = FALSE,
                      !.pledge = IF less.pledge > 0
                                 THEN UpdatePledge(less, 0, c.head + PlatformDelay) ELSE less]
       ELSE [d EXCEPT !.pledge = less,
                      !.platformPledge = IF amount > releasing THEN less.pledge ELSE @]

Item(x, item) ==
    IF ~x.ok THEN x
    ELSE IF item.kind = "account" THEN AccountItem(x, item)
    ELSE [x EXCEPT !.com = WithdrawItem(@, item.amount)]

(* From the first item to the last. *)
EveryItem(x, items) ==
    MapThenFoldSet(LAMBDA item, y : Item(y, item), x, LAMBDA i : items[i], LAMBDA S : Max(S),
                   DOMAIN items)

(* Then the changes of accounts are applied, all of them: nobody takes     *)
(* over from those that were made registrars.                              *)
Applied(x) ==
    IF x.ok THEN [x EXCEPT !.com = [x.com EXCEPT !.registrars = x.reg,
                      !.takeover = WithoutEntries(Merged(@, x.map), x.said \intersect x.reg)]]
    ELSE x

Execute(c, items) ==
    Applied(EveryItem([ok |-> TRUE, com |-> c, map |-> <<>>, reg |-> c.registrars,
                       said |-> {}], items))

-----------------------------------------------------------------------------
Removed(c, n) == [c EXCEPT !.open = WithoutEntries(@, {n})]

(* Executed by the operation that completes the approval: a failure is the *)
(* operation's.                                                            *)
RunNow(c, n) ==
    LET p == c.open[n]
        Done(x) == [ok |-> x.ok, com |-> Removed(x.com, n), done |-> {n}]
    IN IF p.approved /\ c.head >= p.execution THEN Done(Execute(c, p.items))
       ELSE [ok |-> TRUE, com |-> c, done |-> {}]

(* Executed at the end of a block: a failure is kept to the log, and what  *)
(* the items did until then is not undone.                                 *)
RunSilently(r, n) ==
    LET p == r.com.open[n]
        Done(x) ==
            IF x.ok THEN [com |-> Removed(x.com, n), done |-> r.done \union {n}]
            ELSE IF p.execution >= p.expiration \/ p.expiration <= r.com.head
            THEN [r EXCEPT !.com = Removed(x.com, n)]
            ELSE [r EXCEPT !.com = [x.com EXCEPT !.open[n].execution = p.expiration]]
    IN Done(Execute(r.com, p.items))

ExecuteCommitteeProposals(c) ==
    LET due == {n \in DOMAIN c.open : c.open[n].approved /\ c.open[n].execution <= c.head}
        Before(m, n) == \/ c.open[m].execution < c.open[n].execution
                        \/ c.open[m].execution = c.open[n].execution /\ m < n
    IN MapThenFoldSet(LAMBDA n, r : RunSilently(r, n), [com |-> c, done |-> {}], LAMBDA n : n,
                      LAMBDA S : CHOOSE n \in S : \A m \in S \ {n} : Before(m, n), due)

UpdateCommittee(c, members) ==
    IF c.head < c.next THEN c
    ELSE [c EXCEPT !.open = <<>>, !.members = members, !.next = @ + CommitteeInterval]

-----------------------------------------------------------------------------
(* What is recorded of the proposals that were executed. *)
Enacted(done, c) == [n \in done |->
    [items |-> c.open[n].items, for |-> {m \in DOMAIN c.open[n].opinions : c.open[n].opinions[m]},
     members |-> com.members, early |-> c.head < c.open[n].execution]]

Voted(c, n) ==
    \E r \in {RunNow(c, n)} :
       /\ r.ok
       /\ com' = r.com
       /\ enacted' = Enacted(r.done, c)

CommitteeProposalCreate(m, items, closing, execution, expiration, for) ==
    LET n == com.number
        p == [items |-> items, closing |-> closing, execution |-> execution,
              expiration |-> expiration,
              opinions |-> [x \in IF for THEN {m} ELSE {} |-> TRUE], approved |-> FALSE]
    IN /\ Cardinality(DOMAIN com.open) < MaxOpenProposals
       /\ m \in com.members
       /\ closing \in com.head..com.next
       /\ expiration <= com.next /\ expiration >= execution
       /\ \A i \in DOMAIN items : items[i].kind = "withdraw" =>
              ~Emptied(com.pledge) /\ TotalUnreleased(com.pledge) >= items[i].amount
       /\ Voted([com EXCEPT !.number = @ + 1, !.open = WithEntry(@, n, [p EXCEPT !.approved =
              YesPercent(p, com.members) >= ApproveThreshold(items)])], n)

UpdateKeepsApproval(m, n, for) ==     \* mutant: a vote that is changed does not count
    LET p == com.open[n]
        q == [p EXCEPT !.opinions = WithEntry(@, m, for)]
    IN /\ com.head <= p.closing
       /\ m \in DOMAIN p.opinions => p.opinions[m] # for
       /\ Voted([com EXCEPT !.open[n] = [q EXCEPT !.approved =
              @ \/ YesPercent(q, com.members) >= ApproveThreshold(q.items)]], n)

CommitteeProposalUpdate(m, n, for) ==
    LET p == com.open[n]
        q == [p EXCEPT !.opinions = WithEntry(@, m, for)]
    IN /\ m \in com.members
       /\ com.head <= p.closing
       /\ m \in DOMAIN p.opinions => p.opinions[m] # for
       /\ Voted([com EXCEPT !.open[n] = [q EXCEPT !.approved =
              YesPercent(q, com.members) >= ApproveThreshold(q.items)]], n)

PlatformCreate(n) ==
    /\ ~com.platform
    /\ n >= MinPlatformPledge /\ n <= com.owner
    /\ com' = [com EXCEPT !.platform = TRUE, !.platformPledge = n,
                          !.pledge = UpdatePledge(@, n, 0)]
    /\ enacted' = <<>>

PlatformUpdateStale(n) ==    \* mutant: platform_object's own pledge is not written
    /\ com.platform
    /\ n > 0 => n >= MinPlatformPledge /\ n <= com.owner
    /\ com' = [com EXCEPT !.platform = n > 0,
                          !.pledge = UpdatePledge(@, n, com.head + PlatformDelay)]
    /\ enacted' = <<>>

PlatformUpdate(n) ==
    /\ com.platform
    /\ n > 0 => n >= MinPlatformPledge /\ n <= com.owner
    /\ com' = [com EXCEPT !.platform = n > 0, !.platformPledge = IF n > 0 THEN n ELSE @,
                          !.pledge = UpdatePledge(@, n, com.head + PlatformDelay)]
    /\ enacted' = <<>>

CommitteeCall ==
    /\ committeeCalls < MaxCommitteeCalls
    /\ committeeCalls' = committeeCalls + 1
    /\ \/ \E m \in com.members :
              \/ \E items \in ProposalItems, for \in BOOLEAN, t \in Schedules :
                     CommitteeProposalCreate(m, items, com.head + t.closing,
                         com.head + t.execution, com.head + t.expiration, for)
              \/ \E n \in DOMAIN com.open, for \in BOOLEAN : CommitteeProposalUpdate(m, n, for)
       \/ \E n \in PlatformPledges : PlatformCreate(n) \/ PlatformUpdate(n)

CommitteeEndBlock ==
    /\ com.head < MaxCommitteeHead
    /\ \E r \in {ExecuteCommitteeProposals(com)}, members \in Committees :
          LET c == [r.com EXCEPT !.pledge = ReleaseDue(@, com.head)]
          IN /\ com' = [UpdateCommittee(c, members) EXCEPT !.head = @ + 1]
             /\ enacted' = Enacted(r.done, com)
    /\ UNCHANGED committeeCalls

CommitteeNext == CommitteeCall \/ CommitteeEndBlock

CommitteeSpec == CommitteeInit /\ [][CommitteeNext]_comvars

-----------------------------------------------------------------------------
CommitteeTypeOK ==
    /\ com.members \in Committees /\ com.registrars \subseteq RegistrarAccounts
    /\ com.receiver \in Nat /\ com.pledge.pledge \in Nat /\ EntriesAddUp(com.pledge)
    /\ com.platform => com.platformPledge = com.pledge.pledge

(* A committee proposal is executed only with the votes of enough members  *)
(* of the committee that is in office then, and not before its block       *)
(* (update_committee drops the proposals whose votes are of the old one).  *)
CommitteeApproved ==
    \A n \in DOMAIN enacted :
        LET e == enacted[n]
        IN /\ Cardinality(e.for \intersect e.members) * 10000
                  >= ApproveThreshold(e.items) * Cardinality(e.members)
           /\ ~e.early
           /\ n \notin DOMAIN com.open

(* An account that was a registrar and is none now has somebody who takes  *)
(* over its accounts and is a registrar, also when that one loses its      *)
(* place, in a later proposal or in the same (execute_committee_proposal,  *)
(* get_registrar_takeover_object).                                         *)
TakeoversActive ==
    /\ \A a \in DOMAIN com.takeover :
           a \notin com.registrars /\ com.takeover[a] \in com.registrars
    /\ Registrars \subseteq com.registrars \union DOMAIN com.takeover

(* check_invariants: the accounts' balances add up to the supply; what is  *)
(* withdrawn from a platform's pledge comes from its owner's balance.      *)
CommitteeConserves == com.owner + com.receiver = OwnerBalance
=============================================================================
