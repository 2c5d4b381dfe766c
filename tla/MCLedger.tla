------------------------------ MODULE MCLedger -------------------------------
(* The objects that operations and the end of a block change: orders, votes, *)
(* pledges, fees, proposals.  The parts share no object; each behaviour is   *)
(* of one of them.                                                           *)
EXTENDS Market, MCVoting, MCMining, Csaf, Proposals, MCCommittee

MCSupply == [core |-> 9, usd |-> 9]
MCFeePercent == [core |-> 0, usd |-> 60]
MCMaxMarketFee == [core |-> 0, usd |-> 3]
MCRewardPercent == [core |-> 0, usd |-> 70]
MCOffers == {[base |-> 3, quote |-> 2], [base |-> 2, quote |-> 3],
             [base |-> 4, quote |-> 2]}

MCStartFunds == [x |-> 1, y |-> 1, z |-> 0]
MCProposedOps == {<<Pay("x", "y", 1), Pay("y", "z", 2)>>, <<Pay("y", "x", 1)>>,
                  <<Approve("x", 1), Pay("z", "y", 1)>>}

VARIABLE part

LedgerInit ==
    /\ part \in {"market", "voting", "mining", "csaf", "proposals", "committee"}
    /\ MarketInit /\ VotingInit /\ MiningInit
    /\ CsafInit /\ ProposalsInit /\ CommitteeInit
    /\ part # "committee" => com.members = CHOOSE m \in Committees : TRUE

LedgerNext ==
    \/ part = "market" /\ MarketNext /\ UNCHANGED <<part, vvars, pvars, cvars, propvars, comvars>>
    \/ part = "voting" /\ VotingNext /\ UNCHANGED <<part, mvars, pvars, cvars, propvars, comvars>>
    \/ part = "mining" /\ MiningNext /\ UNCHANGED <<part, mvars, vvars, cvars, propvars, comvars>>
    \/ part = "csaf" /\ CsafNext /\ UNCHANGED <<part, mvars, vvars, pvars, propvars, comvars>>
    \/ part = "proposals" /\ ProposalsNext /\ UNCHANGED <<part, mvars, vvars, pvars, cvars, comvars>>
    \/ part = "committee" /\ CommitteeNext /\ UNCHANGED <<part, mvars, vvars, pvars, cvars, propvars>>

LedgerSpec ==
    LedgerInit /\ [][LedgerNext]_<<part, mvars, vvars, pvars, cvars, propvars, comvars>>

(* The shape of the state of each part. *)
LedgerTypeOK ==
    /\ MarketTypeOK /\ VotingTypeOK /\ MiningTypeOK
    /\ CsafTypeOK /\ ProposalsTypeOK /\ CommitteeTypeOK
==============================================================================
