----------------------------- MODULE MCAgentRun ------------------------------
(* Instances of AgentRun for TLC.                                           *)
EXTENDS AgentRun, TLC

CONSTANTS t1, t2, t3

(* Two assigned tools and one that is not.                                  *)
AllTools == {t1, t2, t3}
AssignedTools == {t1, t2}
Interchangeable == Permutations(AssignedTools)
=============================================================================
