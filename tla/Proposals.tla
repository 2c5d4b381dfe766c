------------------------------ MODULE Proposals ------------------------------
(***************************************************************************)
(* Proposed transactions: an account proposes operations, the accounts     *)
(* they need add and remove their approvals, and the transaction runs when *)
(* all have approved, or is tried a last time when the proposal expires.   *)
(*                                                                         *)
(* A proposed transaction is a sequence of transfers and of approvals of   *)
(* earlier proposals, which run them in turn.  One set of approvals stands *)
(* for those by owner, active and secondary authority and by key.          *)
(***************************************************************************)
EXTENDS Integers, Sequences, FiniteSets, FiniteSetsExt, TLC

CONSTANTS
    Signatories,        \* the accounts
    StartFunds,         \* account |-> the balance it starts with
    ProposedOps,        \* bound: the sequences of operations that are proposed
    ProposalLifetimes,  \* bound: how long proposals live
    Reviews,            \* bound: review_period_seconds; 0 for none
    MaxProposals,       \* bound: proposals created
    MaxProposalTime,    \* bound: the last block
    MaxProposalCalls    \* bound: calls

VARIABLES
    prop,               \* the proposals and the accounts' funds
    proposalTime,       \* the time of the block that is being applied
    nextProposal,
    proposalCalls,      \* how many calls there have been
    ran,                \* history: what each proposal that ran was like at that time
    direct              \* history: what direct transfers moved

propvars == <<prop, proposalTime, nextProposal, proposalCalls, ran, direct>>

Pay(a, b, n) == [op |-> "transfer", by |-> a, to |-> b, amount |-> n]
Approve(a, id) == [op |-> "approve", by |-> a, proposal |-> id]

Required(ops) == {ops[i].by : i \in DOMAIN ops}

ProposalsInit ==
    /\ prop = [funds |-> StartFunds, open |-> <<>>]
    /\ proposalTime = 1 /\ nextProposal = 1 /\ proposalCalls = 0
    /\ ran = <<>>
    /\ direct = [a \in Signatories |-> 0]

-----------------------------------------------------------------------------
Moved(funds, a, b, n) == [x \in Signatories |->
    funds[x] - (IF x = a THEN n ELSE 0) + (IF x = b THEN n ELSE 0)]

InReviewNever(p) == FALSE     \* mutant: approvals are taken during the review

InReview(p) == p.review # 0 /\ proposalTime >= p.review

IsAuthorizedToExecute(p) == Required(p.ops) \subseteq DOMAIN p.approvals

Without(open, id) == [i \in DOMAIN open \ {id} |-> open[i]]

Updated(p, add, del) == [p EXCEPT !.approvals =
    [a \in (DOMAIN @ \union add) \ del |-> IF a \in DOMAIN @ THEN @[a] ELSE proposalTime]]

(* The operators below return the world they leave, the proposals they     *)
(* ran, as they were then, and whether they threw.                         *)
RECURSIVE ApplyOps(_, _, _)
RECURSIVE UpdateProposal(_, _, _, _)

(* The operations of a transaction, until one throws. *)
ApplyOps(w, ops, done) ==
    IF ops = <<>> THEN [ok |-> TRUE, world |-> w, done |-> done]
    ELSE LET o == Head(ops)
             failed == [ok |-> FALSE, world |-> w, done |-> done]
         IN IF o.op = "transfer"
            THEN IF w.funds[o.by] < o.amount THEN failed
                 ELSE ApplyOps([w EXCEPT !.funds = Moved(@, o.by, o.to, o.amount)],
                               Tail(ops), done)
            ELSE LET r == UpdateProposal(w, o.proposal, {o.by}, {})
                 IN IF r.ok THEN ApplyOps(r.world, Tail(ops), done @@ r.done) ELSE failed

(* push_proposal: a session of its own, merged when no operation throws. *)
Executed(w, id, r) ==
    [r EXCEPT !.world.open = Without(@, id),
              !.done = @ @@ (id :> (w.open[id] @@ [at |-> proposalTime]))]

PushProposalPartial(w, id) ==     \* mutant: the session is not undone
    LET r == ApplyOps(w, w.open[id].ops, <<>>)
    IN IF r.ok THEN Executed(w, id, r) ELSE r

PushProposal(w, id) ==
    LET r == ApplyOps(w, w.open[id].ops, <<>>)
    IN IF r.ok THEN Executed(w, id, r) ELSE [ok |-> FALSE, world |-> w, done |-> <<>>]

(* proposal_update: an execution that fails is logged and tried again when *)
(* the proposal expires; with a review period there is none before that.   *)
UpdateProposal(w, id, add, del) ==
    IF ~ ( /\ id \in DOMAIN w.open
           /\ InReview(w.open[id]) => add = {}
           /\ del \subseteq DOMAIN w.open[id].approvals )
    THEN [ok |-> FALSE, world |-> w, done |-> <<>>]
    ELSE LET q == Updated(w.open[id], add, del)
             v == [w EXCEPT !.open[id] = q]
             r == PushProposal(v, id)
         IN IF q.review # 0 \/ ~ IsAuthorizedToExecute(q)
            THEN [ok |-> TRUE, world |-> v, done |-> <<>>]
            ELSE [r EXCEPT !.ok = TRUE]

(* clear_expired_proposals: the first by expiration and id, until none is  *)
(* due; a last try, and the proposal is gone whatever came of it.          *)
RECURSIVE ClearExpiredProposals(_, _)
ClearExpiredProposals(w, done) ==
    LET due == {i \in DOMAIN w.open : w.open[i].expires <= proposalTime}
        first == CHOOSE i \in due : \A j \in due :
                     \/ w.open[i].expires < w.open[j].expires
                     \/ w.open[i].expires = w.open[j].expires /\ i <= j
        r == PushProposal(w, first)
    IN IF due = {} THEN [world |-> w, done |-> done]
       ELSE IF IsAuthorizedToExecute(w.open[first])
            THEN ClearExpiredProposals([r.world EXCEPT !.open = Without(@, first)],
                                       done @@ r.done)
            ELSE ClearExpiredProposals([w EXCEPT !.open = Without(@, first)], done)

-----------------------------------------------------------------------------
ProposalCreate(ops, life, review) ==
    /\ nextProposal <= MaxProposals
    /\ review < life
    /\ \A i \in DOMAIN ops : ops[i].op = "approve" => ops[i].proposal < nextProposal
    /\ prop' = [prop EXCEPT !.open = @ @@ (nextProposal :>
           [ops |-> ops, expires |-> proposalTime + life,
            review |-> IF review = 0 THEN 0 ELSE proposalTime + life - review,
            approvals |-> <<>>])]
    /\ nextProposal' = nextProposal + 1
    /\ UNCHANGED <<ran, direct>>

ProposalUpdate(id, add, del) ==
    LET r == UpdateProposal(prop, id, add, del)
    IN /\ add \union del # {} /\ add \intersect del = {}
       /\ r.ok
       /\ prop' = r.world
       /\ ran' = ran @@ r.done
       /\ UNCHANGED <<nextProposal, direct>>

ProposalDelete(id, a) ==
    /\ a \in Required(prop.open[id].ops)
    /\ prop' = [prop EXCEPT !.open = Without(@, id)]
    /\ UNCHANGED <<nextProposal, ran, direct>>

(* Any other transaction that moves funds. *)
DirectTransfer(a, b) ==
    /\ prop.funds[a] >= 1
    /\ prop' = [prop EXCEPT !.funds = Moved(@, a, b, 1)]
    /\ direct' = Moved(direct, a, b, 1)
    /\ UNCHANGED <<nextProposal, ran>>

ProposalCall ==
    /\ proposalCalls < MaxProposalCalls
    /\ proposalCalls' = proposalCalls + 1
    /\ UNCHANGED proposalTime
    /\ \/ \E ops \in ProposedOps, life \in ProposalLifetimes, review \in Reviews :
              ProposalCreate(ops, life, review)
       \/ \E id \in DOMAIN prop.open :
              \/ \E a \in Signatories : \/ ProposalUpdate(id, {a}, {})
                                        \/ ProposalUpdate(id, {}, {a})
                                        \/ ProposalDelete(id, a)
       \/ \E a, b \in Signatories : a # b /\ DirectTransfer(a, b)

ProposalEndBlock ==
    LET r == ClearExpiredProposals(prop, <<>>)
    IN /\ proposalTime < MaxProposalTime
       /\ prop' = r.world
       /\ ran' = ran @@ r.done
       /\ proposalTime' = proposalTime + 1
       /\ UNCHANGED <<nextProposal, proposalCalls, direct>>

ProposalsNext == ProposalCall \/ ProposalEndBlock

ProposalsSpec == ProposalsInit /\ [][ProposalsNext]_propvars

-----------------------------------------------------------------------------
ProposalsTypeOK ==
    /\ \A a \in Signatories : prop.funds[a] \in Nat
    /\ DOMAIN prop.open \subseteq 1..(nextProposal - 1)
    /\ \A i \in DOMAIN prop.open : prop.open[i].expires >= proposalTime

(* A proposed transaction takes effect whole or not at all, and once: the  *)
(* funds are those at the start, moved by the direct transfers and by the  *)
(* transfers of the proposals that ran (push_proposal's session, tried     *)
(* when the last approval comes, again at expiration, and inside the       *)
(* session of a proposal that approves another).                           *)
ProposalsWhole ==
    \A a \in Signatories :
        prop.funds[a] = StartFunds[a] + direct[a]
            + MapThenSumSet(LAMBDA i : LET ops == ran[i].ops IN
                  MapThenSumSet(LAMBDA k :
                      IF ops[k].op # "transfer" THEN 0
                      ELSE (IF ops[k].to = a THEN ops[k].amount ELSE 0)
                           - (IF ops[k].by = a THEN ops[k].amount ELSE 0),
                      DOMAIN ops),
                  DOMAIN ran)

(* A proposal runs once, with the approval of every account its operations *)
(* need, and not after it expired; one with a review period runs only when *)
(* it expires, on approvals given before the review began                  *)
(* (proposal_update_evaluator, clear_expired_proposals).                   *)
RunsAsApproved ==
    /\ DOMAIN ran \intersect DOMAIN prop.open = {}
    /\ \A i \in DOMAIN ran :
        LET p == ran[i]
        IN /\ Required(p.ops) \subseteq DOMAIN p.approvals
           /\ p.at <= p.expires
           /\ p.review # 0 => /\ p.at = p.expires
                              /\ \A a \in DOMAIN p.approvals : p.approvals[a] < p.review
=============================================================================
