----------------------------- MODULE MCRunQueue ------------------------------
(* Instances of RunQueue for TLC.  Agents, runs and sessions are            *)
(* interchangeable, which the safety runs exploit.                          *)
EXTENDS RunQueue, TLC

Interchangeable ==
    Permutations(Agent) \cup Permutations(Run) \cup Permutations(Session)

(* Every agent is saved once, or none is, or only one of them.              *)
EachEdited == [a \in Agent |-> 2]
NoneEdited == [a \in Agent |-> 1]
OneEdited == [a \in Agent |-> IF a = CHOOSE one \in Agent : TRUE THEN 2 ELSE 1]
=============================================================================
