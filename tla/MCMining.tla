------------------------------ MODULE MCMining -------------------------------
EXTENDS PledgeMining
==============================================================================
