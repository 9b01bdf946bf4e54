------------------------- MODULE MCProposalDecision --------------------------
(* Instances of ProposalDecision for TLC.                                   *)
EXTENDS ProposalDecision, TLC

Interchangeable == Permutations(Proposal) \cup Permutations(Request)
=============================================================================
