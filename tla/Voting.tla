------------------------------- MODULE Voting --------------------------------
(***************************************************************************)
(* Governance votes: voters, the proxies they vote through, the candidates *)
(* they vote for, and the work at the end of each block, which is bounded. *)
(* Witnesses, committee members and platforms are voted for by three       *)
(* copies of the same code; a candidate here stands for one of any kind.   *)
(*                                                                         *)
(* Everything is in one record, gov, which the steps of a call hand on.    *)
(* head is the number of the block that is being applied and, with blocks  *)
(* one unit apart, its time.                                               *)
(***************************************************************************)
EXTENDS Integers, Sequences, FiniteSets, SequencesExt, FiniteSetsExt

CONSTANTS
    Uids,                   \* the accounts, positive numbers
    Candidates,             \* accounts that can be candidates
    Referred,               \* accounts whose referrer was a platform
    Platform,               \* that platform, a candidate
    Balances,               \* bound: the core balances of accounts
    MinVoting,              \* min_governance_voting_balance
    MaxVoted,               \* max_witnesses_voted_per_account
    MaxLevel,               \* max_governance_voting_proxy_level
    ExpireBlocks,           \* governance_voting_expiration_blocks
    VotesWindow,            \* max_governance_votes_seconds
    UpdateInterval,         \* governance_votes_update_interval
    MaxExpiredPerBlock,     \* GRAPHENE_MAX_EXPIRED_VOTERS_TO_PROCESS_PER_BLOCK
    MaxResignedPerBlock,    \* GRAPHENE_MAX_RESIGNED_WITNESS_VOTES_PER_BLOCK
    MaxHead,                \* bound: the last block
    MaxCalls                \* bound: the number of calls

VARIABLES
    gov,                    \* the objects
    calls,                  \* how many calls there have been
    stuck                   \* the end of a block did not come to an end

vvars == <<gov, calls, stuck>>

Self == <<0, 0>>            \* GRAPHENE_PROXY_TO_SELF_ACCOUNT_UID
Never == 1000               \* a block that is never reached
Levels == 1..MaxLevel

FirstCandidate == [seq |-> 1, valid |-> TRUE, total |-> 0]

VotingInit ==
    /\ gov = [head    |-> 1,
              account |-> [a \in Uids |->
                              [voter |-> FALSE, seq |-> 0, balance |-> Max(Balances)]],
              voters  |-> [k \in {} |-> {}],
              votes   |-> {},
              cands   |-> [c \in Candidates |-> FirstCandidate],
              gone    |-> {}]
    /\ calls = 0 /\ stuck = FALSE

-----------------------------------------------------------------------------
(* A vote object belongs to one voter object and one candidate object; a   *)
(* candidate that resigned is not found any more.                          *)
Live(s, vote) == s.cands[vote.cand].valid /\ s.cands[vote.cand].seq = vote.seq
VotesOf(s, k) == {v \in s.votes : v.voter = k}

TotalVotes(v) == v.effective + FoldLeft(LAMBDA n, x : n + x, 0, v.proxied)

AdjustCandidateVotes(s, c, delta) ==
    IF s.cands[c].valid THEN [s EXCEPT !.cands[c].total = @ + delta] ELSE s

AdjustCandidates(s, S, delta) ==
    FoldSet(LAMBDA c, t : AdjustCandidateVotes(t, c, delta), s, S)

(* Votes for candidates that are gone are dropped on the way. *)
AdjustVoterSelfVotes(s, k, delta) ==
    LET live == {v \in VotesOf(s, k) : Live(s, v)}
        dead == VotesOf(s, k) \ live
        t == AdjustCandidates(s, {v.cand : v \in live}, delta)
    IN [t EXCEPT !.votes = @ \ dead, !.voters[k].voted = @ - Cardinality(dead)]

(* The proxies of a voter, the nearest first, as far as votes reach. *)
ProxyChain(s, k) ==
    LET Follow(chain, level) ==
            LET p == s.voters[IF chain = <<>> THEN k ELSE Last(chain)].proxy
            IN IF p = Self THEN chain ELSE Append(chain, p)
    IN FoldLeft(Follow, <<>>, [l \in Levels |-> l])

LastProxy(chain, k) == IF chain = <<>> THEN k ELSE Last(chain)

AdjustReferrer(s, k, delta) ==
    IF k[1] \in Referred /\ s.cands[Platform].seq = 1
    THEN AdjustCandidateVotes(s, Platform, delta) ELSE s

(* A last proxy that goes on to another is beyond the reach of votes. *)
AdjustEnd(s, end, delta) ==
    IF s.voters[end].proxy = Self THEN AdjustVoterSelfVotes(s, end, delta) ELSE s

AddProxied(s, amount) ==
    [s EXCEPT !.voters = [p \in DOMAIN @ |-> [@[p] EXCEPT !.proxied =
        [l \in Levels |-> @[l] + amount[p, l]]]]]

AdjustVoterVotes(s, k, delta) ==
    LET Along(chain) ==
            LET passed == [p \in DOMAIN s.voters, l \in Levels |->
                              IF l <= Len(chain) /\ chain[l] = p THEN delta ELSE 0]
            IN AdjustEnd(AddProxied(s, passed), LastProxy(chain, k), delta)
    IN AdjustReferrer(Along(ProxyChain(s, k)), k, delta)

(* What a voter passes on to its proxy, level by level. *)
PassedOn(v) == [l \in Levels |-> IF l = 1 THEN v.effective ELSE v.proxied[l - 1]]
Negative(f) == [l \in DOMAIN f |-> -f[l]]
SumUpTo(f, n) == FoldSet(LAMBDA l, m : f[l] + m, 0, 1..n)

AdjustVoterProxyVotes(s, k, delta) ==
    LET Along(chain) ==
            LET got == [p \in DOMAIN s.voters, l \in Levels |->
                    FoldSet(LAMBDA i, n : n + IF chain[i] = p THEN delta[l - i + 1] ELSE 0,
                            0, {i \in DOMAIN chain : i <= l})]
            IN AdjustEnd(AddProxied(s, got), Last(chain),
                         SumUpTo(delta, MaxLevel - Len(chain) + 1))
    IN Along(ProxyChain(s, k))

(* proxy_last_vote_block: the voter's own last vote and those of its       *)
(* proxies, as a sequence that starts with the voter's.                    *)
Inherit(v, proxy) ==
    LET last == [i \in 1..(MaxLevel + 1) |->
                    IF i = 1 THEN v.last[1] ELSE proxy.last[i - 1]]
    IN [v EXCEPT !.last = last, !.effectiveLast = Max(ToSet(last))]

(* Along the chain, the far end first. *)
InheritAll(s, k) ==
    LET path == <<k>> \o ProxyChain(s, k)
        Step(i, t) == [t EXCEPT !.voters[path[i]] = Inherit(@, t.voters[path[i + 1]])]
    IN FoldRight(Step, [i \in 1..(Len(path) - 1) |-> i], s)

ClearVoterProxyVotes(s, k) ==
    InheritAll(AdjustVoterProxyVotes(s, k, Negative(PassedOn(s.voters[k]))), k)

ClearKeepsObjects(s, k) ==     \* mutant: the vote objects stay
    AdjustCandidates(s, {v.cand : v \in {v \in VotesOf(s, k) : Live(s, v)}},
                     -TotalVotes(s.voters[k]))

ClearVoterSelfVotes(s, k) ==
    LET live == {v \in VotesOf(s, k) : Live(s, v)}
        t == AdjustCandidates(s, {v.cand : v \in live}, -TotalVotes(s.voters[k]))
    IN [t EXCEPT !.votes = @ \ VotesOf(s, k), !.voters[k].voted = 0]

ClearVoterVotes(s, k) ==
    IF s.voters[k].proxy = Self THEN ClearVoterSelfVotes(s, k)
    ELSE ClearVoterProxyVotes(s, k)

Invalidated(v, now) ==
    [v EXCEPT !.valid = FALSE, !.votes = 0, !.votesAt = now, !.effective = 0,
              !.effectiveAt = now, !.nextUpdate = Never, !.proxy = Self]

Retire(s, k) ==
    LET p == s.voters[k].proxy
        u == IF p = Self THEN s ELSE [s EXCEPT !.voters[p].proxiedVoters = @ - 1]
    IN [u EXCEPT !.account[k[1]].voter = FALSE, !.voters[k] = Invalidated(@, s.head)]

InvalidateKeepsVotes(s, k) ==    \* mutant: the votes are not cleared
    IF s.voters[k].valid THEN Retire(s, k) ELSE s

InvalidateVoter(s, k) ==
    IF s.voters[k].valid THEN Retire(ClearVoterVotes(s, k), k) ELSE s

(* Deep: a voter that, with the proxies it votes through, did not vote for *)
(* long is no longer valid, although it may not have been processed yet.   *)
CheckVoterValid(s, k) ==
    LET path == <<k>> \o ProxyChain(s, k)
    IN /\ s.voters[k].valid
       /\ s.head >= ExpireBlocks =>
              \E n \in DOMAIN path : \E i \in 1..(MaxLevel + 2 - n) :
                  s.voters[path[n]].last[i] > s.head - ExpireBlocks

UpdateVoterEffectiveVotes(s, k) ==
    LET v == s.voters[k]
        now == s.head
        full == v.effective >= v.votes \/ now >= v.votesAt + VotesWindow
        grown == v.effective + ((v.votes - v.effective) * (now - v.effectiveAt))
                                   \div (VotesWindow - (v.effectiveAt - v.votesAt))
        effective == IF full THEN v.votes ELSE grown
        t == [s EXCEPT !.voters[k].effective = effective,
                       !.voters[k].effectiveAt = now,
                       !.voters[k].nextUpdate =
                            IF full THEN Never ELSE s.head + UpdateInterval]
    IN IF effective = v.effective THEN t
       ELSE AdjustVoterVotes(t, k, effective - v.effective)

-----------------------------------------------------------------------------
(* The calls.  The voter object of an account, valid or not. *)
KeyOf(s, a) == <<a, s.account[a].seq>>
StillVoter(s, a) == s.account[a].voter /\ CheckVoterValid(s, KeyOf(s, a))

(* A voter object that turns out to be no longer valid is invalidated by   *)
(* the call, and so is the one of the proxy.                               *)
DropInvalid(s, a) ==
    IF s.account[a].voter /\ ~StillVoter(s, a) THEN InvalidateVoter(s, KeyOf(s, a)) ELSE s
InvalidProxy(s, a) ==
    /\ StillVoter(s, a) /\ s.voters[KeyOf(s, a)].proxy # Self
    /\ ~CheckVoterValid(s, s.voters[KeyOf(s, a)].proxy)
DropInvalidProxy(s, a) ==
    IF InvalidProxy(s, a) THEN InvalidateVoter(s, s.voters[KeyOf(s, a)].proxy) ELSE s

NewVoter(s, a, proxy, voted) ==
    LET k == <<a, s.account[a].seq + 1>>
        v == [valid |-> TRUE, votes |-> s.account[a].balance, votesAt |-> s.head,
              effective |-> 0, effectiveAt |-> s.head,
              nextUpdate |-> s.head + UpdateInterval, proxy |-> proxy,
              proxiedVoters |-> 0, proxied |-> [l \in Levels |-> 0],
              last |-> [i \in 1..(MaxLevel + 1) |-> IF i = 1 THEN s.head ELSE 0],
              effectiveLast |-> s.head, voted |-> voted]
    IN [s EXCEPT !.account[a].voter = TRUE, !.account[a].seq = @ + 1,
                 !.voters = [x \in DOMAIN @ \union {k} |-> IF x = k THEN v ELSE @[x]]]

Touch(v, now) == [v EXCEPT !.last[1] = now, !.effectiveLast = now]

VoteFor(s, k, c) == [voter |-> k, cand |-> c, seq |-> s.cands[c].seq]

(* A voter whose proxy turned out to be invalid votes by itself again. *)
LeaveProxy(s, k) ==
    LET p == s.voters[k].proxy
    IN [ClearVoterProxyVotes(s, k) EXCEPT !.voters[p].proxiedVoters = @ - 1,
                                          !.voters[k].proxy = Self]

RemoveVotes(s, k, remove, dead, voted) ==
    [AdjustCandidates(s, remove, -TotalVotes(s.voters[k])) EXCEPT
        !.votes = @ \ (dead \union {VoteFor(s, k, c) : c \in remove}),
        !.voters[k] = [Touch(@, s.head) EXCEPT !.voted = voted]]

AddVotes(s, k, add) ==
    AdjustCandidates([s EXCEPT !.votes = @ \union {VoteFor(s, k, c) : c \in add}],
                     add, TotalVotes(s.voters[k]))

(* witness_vote_update, committee_member_vote_update, platform_vote_update *)
VoteUpdate(a, add, remove) ==
    LET k == KeyOf(gov, a)
        still == StillVoter(gov, a)
        bySelf == still /\ gov.voters[k].proxy = Self
        lost == InvalidProxy(gov, a)
        dead == IF bySelf THEN {v \in VotesOf(gov, k) : ~Live(gov, v)} ELSE {}
        voted == gov.voters[k].voted - Cardinality(dead) - Cardinality(remove)
                     + Cardinality(add)
        s == DropInvalid(DropInvalidProxy(gov, a), a)
        based == IF still
                 THEN RemoveVotes(IF lost THEN LeaveProxy(s, k) ELSE s, k, remove, dead, voted)
                 ELSE NewVoter(s, a, Self, Cardinality(add))
    IN /\ gov.account[a].balance >= MinVoting
       /\ \A c \in add \union remove : gov.cands[c].valid
       /\ (~still \/ lost) => remove = {}
       /\ Cardinality(add) <= MaxVoted
       /\ bySelf => /\ {VoteFor(gov, k, c) : c \in remove} \subseteq gov.votes
                    /\ {VoteFor(gov, k, c) : c \in add} \intersect gov.votes = {}
                    /\ voted <= MaxVoted
       /\ (still /\ ~bySelf /\ ~lost) => add \union remove = {}
       /\ \E t \in {based} : gov' = AddVotes(t, KeyOf(t, a), add)

(* The way up from the new proxy must not lead back to the voter. *)
NoLoop(s, k, proxy) == k \notin ToSet(ProxyChain(s, proxy))

(* The votes a voter now passes on, and its place among those of the proxy. *)
PassOn(s, k) ==
    IF s.voters[k].proxy = Self THEN s
    ELSE AdjustVoterProxyVotes(s, k, PassedOn(s.voters[k]))
CountVoter(s, p, n) ==
    IF p = Self THEN s ELSE [s EXCEPT !.voters[p].proxiedVoters = @ + n]

(* account_update_proxy, to another account or back to oneself. *)
AccountUpdateProxy(a, to) ==
    LET k == KeyOf(gov, a)
        still == StillVoter(gov, a)
        current == IF still THEN gov.voters[k].proxy ELSE Self
        lost == InvalidProxy(gov, a)
        proxy == IF to = 0 THEN Self ELSE KeyOf(gov, to)
        s == DropInvalid(DropInvalidProxy(gov, a), a)
        left == CountVoter(ClearVoterVotes(s, k), IF lost THEN Self ELSE current, -1)
        moved == [left EXCEPT !.voters[k] =
                     [Touch(@, gov.head) EXCEPT !.proxy = proxy]]
    IN /\ gov.account[a].balance >= MinVoting /\ a # to
       /\ to # 0 => StillVoter(gov, to)
       /\ (~still \/ current = Self \/ lost) => to # 0
       /\ (current # Self /\ ~lost) => proxy[1] # current[1]
       /\ (still /\ to # 0) => NoLoop(gov, k, proxy)
       /\ gov' = CountVoter(IF still THEN PassOn(moved, k) ELSE NewVoter(s, a, proxy, 0),
                            proxy, 1)

(* adjust_balance of the core asset. *)
AdjustCoreBalance(a, balance) ==
    LET k == KeyOf(gov, a)
        small == balance < gov.account[a].balance /\ balance < MinVoting
        s == IF gov.account[a].voter /\ small THEN InvalidateVoter(gov, k) ELSE gov
        paid == [s EXCEPT !.account[a].balance = balance]
        before == UpdateVoterEffectiveVotes(paid, k)
        after == [before EXCEPT !.voters[k].votes = balance, !.voters[k].votesAt = gov.head]
    IN /\ balance # gov.account[a].balance
       /\ gov' = IF paid.account[a].voter THEN UpdateVoterEffectiveVotes(after, k) ELSE paid

(* A candidate resigns, or the account becomes one again. *)
Resign(c) ==
    /\ gov.cands[c].valid
    /\ gov' = [gov EXCEPT !.cands[c].valid = FALSE,
                          !.gone = @ \union {<<c, gov.cands[c].seq>>}]

Candidate(c) ==
    /\ ~gov.cands[c].valid
    /\ gov' = [gov EXCEPT !.cands[c] = [seq |-> @.seq + 1, valid |-> TRUE, total |-> 0]]

-----------------------------------------------------------------------------
(* The end of a block.  Of the votes for candidates that resigned a        *)
(* bounded number is removed, and a candidate after the last of its votes. *)
Earlier(k, j) == k[1] < j[1] \/ (k[1] = j[1] /\ k[2] < j[2])
FirstKey(S) == CHOOSE k \in S : \A j \in S : k = j \/ Earlier(k, j)

ClearResignedVotes(s) ==
    LET dead == {v \in s.votes : <<v.cand, v.seq>> \in s.gone}
        Order(v, w) == \/ Earlier(<<v.cand, v.seq>>, <<w.cand, w.seq>>)
                       \/ v.cand = w.cand /\ v.seq = w.seq /\ Earlier(v.voter, w.voter)
        order == SetToSortSeq(dead, Order)
        full == Len(order) >= MaxResignedPerBlock
        last == order[MaxResignedPerBlock]
        Drop(t, v) == [t EXCEPT !.votes = @ \ {v}, !.voters[v.voter].voted = @ - 1]
        t == FoldLeft(Drop, s, IF full THEN SubSeq(order, 1, MaxResignedPerBlock) ELSE order)
    IN [t EXCEPT !.gone =
            IF full THEN {g \in @ : ~Earlier(g, <<last.cand, last.seq>>)} ELSE {}]

InvalidateExpired(s) ==
    LET old == {k \in DOMAIN s.voters : /\ s.voters[k].valid /\ s.voters[k].proxy = Self
                                        /\ s.voters[k].effectiveLast <= s.head - ExpireBlocks}
    IN IF s.head < ExpireBlocks THEN s
       ELSE FoldSet(LAMBDA k, t : InvalidateVoter(t, k), s, old)

(* A voter whose proxy is invalid becomes its own, or invalid as well. *)
ReleaseVoter(s, k, p) ==
    LET v == [Inherit(s.voters[k], s.voters[p]) EXCEPT !.proxy = Self]
        over == v.valid /\ v.effectiveLast + ExpireBlocks <= s.head
        t == [s EXCEPT !.voters[k] = IF over THEN Invalidated(v, s.head) ELSE v,
                       !.voters[p].proxiedVoters = @ - 1]
    IN IF over THEN [t EXCEPT !.account[k[1]].voter = FALSE] ELSE t

RemoveVoter(s, p) == [s EXCEPT !.voters = [k \in DOMAIN @ \ {p} |-> @[k]]]

(* By the last vote, then by uid and sequence. *)
FirstInvalid(s) ==
    LET invalid == {k \in DOMAIN s.voters : ~s.voters[k].valid}
        oldest == Min({s.voters[k].effectiveLast : k \in invalid})
    IN FirstKey({k \in invalid : s.voters[k].effectiveLast = oldest})

(* A voter that lets go of its proxy moves, in the index by_proxy that is  *)
(* being iterated over, to the voters without proxy; the iteration goes on *)
(* only when the next voter behind it there has the same proxy.            *)
GoesOn(s, k, p) ==
    /\ \A j \in DOMAIN s.voters : s.voters[j].proxy = Self => ~Earlier(k, j)
    /\ \E j \in DOMAIN s.voters : s.voters[j].proxy = p
    /\ \A j \in DOMAIN s.voters : s.voters[j].proxy # Self => ~Earlier(s.voters[j].proxy, p)

(* process_invalid_governance_voters: the first invalid voter releases     *)
(* voters that have it as proxy, and is removed when proxied_voters is     *)
(* zero.  Turn is one of them; one that changes nothing comes again.       *)
EndTurn(r, p, t, n, more) ==
    LET u == IF ~more /\ t.voters[p].proxiedVoters = 0 THEN RemoveVoter(t, p) ELSE t
    IN [s |-> u, n |-> n, of |-> IF more THEN p ELSE Self, stuck |-> u = r.s]

TurnOf(r, p) ==
    LET proxied == {k \in DOMAIN r.s.voters : r.s.voters[k].proxy = p}
        Released(k, t) ==
            EndTurn(r, p, t, r.n + 1, r.n + 1 < MaxExpiredPerBlock /\ GoesOn(t, k, p))
        Release(k) == Released(k, ReleaseVoter(r.s, k, p))
    IN IF proxied = {} THEN EndTurn(r, p, r.s, r.n, FALSE) ELSE Release(FirstKey(proxied))

ProcessInvalidVoters(s) ==
    LET Turn(r, i) ==
            IF \/ \A j \in DOMAIN r.s.voters : r.s.voters[j].valid
               \/ r.n >= MaxExpiredPerBlock
            THEN r
            ELSE TurnOf(r, IF r.of = Self THEN FirstInvalid(r.s) ELSE r.of)
    IN FoldLeft(Turn, [s |-> s, n |-> 0, of |-> Self, stuck |-> FALSE],
                [i \in 1..(2 * Cardinality(DOMAIN s.voters)) |-> i])

UpdateEffectiveVotes(s) ==
    FoldSet(LAMBDA k, t : UpdateVoterEffectiveVotes(t, k), s,
            {k \in DOMAIN s.voters : s.voters[k].nextUpdate <= s.head})

EndBlock ==
    /\ gov.head < MaxHead
    /\ \E r \in {ProcessInvalidVoters(InvalidateExpired(ClearResignedVotes(gov)))} :
          /\ stuck' = r.stuck
          /\ gov' = IF r.stuck THEN gov
                    ELSE [UpdateEffectiveVotes(r.s) EXCEPT !.head = @ + 1]
    /\ UNCHANGED calls

Call ==
    \/ \E a \in Uids, add, remove \in SUBSET Candidates :
           add \intersect remove = {} /\ VoteUpdate(a, add, remove)
    \/ \E a \in Uids, to \in Uids \union {0} : AccountUpdateProxy(a, to)
    \/ \E a \in Uids, b \in Balances : AdjustCoreBalance(a, b)
    \/ \E c \in Candidates : Resign(c) \/ Candidate(c)

VotingNext ==
    /\ ~stuck
    /\ \/ calls < MaxCalls /\ Call /\ calls' = calls + 1 /\ UNCHANGED stuck
       \/ EndBlock

VotingSpec == VotingInit /\ [][VotingNext]_vvars

-----------------------------------------------------------------------------
VotingTypeOK ==
    /\ gov.head \in 1..MaxHead /\ calls \in 0..MaxCalls /\ stuck \in BOOLEAN
    /\ \A k \in DOMAIN gov.voters :
          LET v == gov.voters[k]
          IN /\ k[1] \in Uids /\ k[2] \in 1..gov.account[k[1]].seq
             /\ v.effective \in 0..Max(Balances) /\ v.votes \in 0..Max(Balances)
             /\ v.voted \in 0..MaxVoted /\ v.proxiedVoters \in Nat
             /\ \A l \in Levels : v.proxied[l] \in Nat

Valid == {k \in DOMAIN gov.voters : gov.voters[k].valid}
SumOverVoters(f(_), S) == FoldSet(LAMBDA k, n : f(k) + n, 0, S)

(* What a candidate has been given is what the voters that now vote for it *)
(* have, with all that is proxied to them, and what a proxy has been given *)
(* is what the voters that now have it as proxy pass on: no sequence of    *)
(* votes, changes of proxy, expirations, resignations and balances leaves  *)
(* votes behind or counts them twice (check_invariants).                   *)
VotesTallied ==
    /\ \A c \in Candidates \ {Platform} : gov.cands[c].valid =>
          gov.cands[c].total = SumOverVoters(LAMBDA k : TotalVotes(gov.voters[k]),
                                   {k \in Valid : VoteFor(gov, k, c) \in gov.votes})
    /\ \A p \in Valid, l \in Levels :
          gov.voters[p].proxied[l] = SumOverVoters(LAMBDA k : PassedOn(gov.voters[k])[l],
                                         {k \in Valid : gov.voters[k].proxy = p})

(* No object refers to one that is gone, as the code takes for granted     *)
(* when it follows proxies and when it removes votes: an account that is a *)
(* voter has a valid voter object, a proxy exists and counts at least the  *)
(* voters that have it, and only voters that vote for themselves have      *)
(* votes, as many as they count.                                           *)
ReferencesKept ==
    /\ \A a \in Uids : gov.account[a].voter => KeyOf(gov, a) \in Valid
    /\ \A k \in Valid : gov.account[k[1]].voter /\ k = KeyOf(gov, k[1])
    /\ \A k \in DOMAIN gov.voters :
          /\ gov.voters[k].proxy \in DOMAIN gov.voters \union {Self}
          /\ gov.voters[k].proxiedVoters >=
                Cardinality({j \in DOMAIN gov.voters : gov.voters[j].proxy = k})
          /\ gov.voters[k].voted = Cardinality(VotesOf(gov, k))
    /\ \A v \in gov.votes : v.voter \in Valid /\ gov.voters[v.voter].proxy = Self

(* The comment in process_invalid_governance_voters: after a turn the first*)
(* invalid voter is another one, so that the loop comes to an end.         *)
VotersProcessed == ~stuck

(* check_invariants: a platform has the votes for it and those of the      *)
(* valid voters it referred.                                               *)
ReferredVotes ==
    gov.cands[Platform].valid =>
        gov.cands[Platform].total =
            SumOverVoters(LAMBDA k : TotalVotes(gov.voters[k]),
                {k \in Valid : VoteFor(gov, k, Platform) \in gov.votes})
          + SumOverVoters(LAMBDA k : gov.voters[k].effective,
                {k \in Valid : k[1] \in Referred /\ gov.cands[Platform].seq = 1})
==============================================================================
