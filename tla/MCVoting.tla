------------------------------ MODULE MCVoting -------------------------------
EXTENDS Voting
==============================================================================
