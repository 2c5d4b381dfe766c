---------------------------- MODULE MCCommittee ------------------------------
EXTENDS CommitteeProposals

MCProposalItems ==
    {<<IsRegistrar(a)>> : a \in RegistrarAccounts}
    \union {<<TakenOver(p[1], p[2])>> : p \in {<<"p", "q">>, <<"q", "p">>, <<"q", "r">>, <<"r", "p">>}}
    \union {<<NewTakeover("p", "r")>>, <<Withdraw(1)>>,
            <<TakenOver("p", "q"), TakenOver("q", "r")>>,
            <<IsRegistrar("r"), TakenOver("q", "r")>>,
            <<TakenOver("q", "p"), IsRegistrar("q")>>,
            <<Withdraw(1), TakenOver("q", "r")>>}
ASSUME NotMadeAndTaken

MCSchedules == {[closing |-> 1, execution |-> 0, expiration |-> 0],
                [closing |-> 0, execution |-> 1, expiration |-> 2]}
==============================================================================
