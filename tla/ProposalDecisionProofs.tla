----------------------- MODULE ProposalDecisionProofs ------------------------
(****************************************************************************)
(* What the decision of proposals guarantees for every set of proposals and *)
(* requests.  The invariant ties each request that is past its INSERT to    *)
(* the record it has inserted: the keys of AI_APPROVAL make it the only one *)
(* for its decision.                                                        *)
(****************************************************************************)
EXTENDS ProposalDecision, TLAPS

(* r has inserted a record, and will say so if nothing fails.               *)
Recorded(r) == pc[r] \in {"update", "answer"} \/ answer[r] \in Decision

SameDecision(r, other) == target[other] = target[r] /\ decision[other] = decision[r]

RecordsKept == \A r \in Request : Recorded(r) => decision[r] \in approvals[target[r]]

RecordedOnce ==
    \A r, other \in Request : Recorded(r) /\ Recorded(other) /\ SameDecision(r, other) => other = r

AnswersAreDecisions ==
    \A r \in Request :
        /\ pc[r] # "done" => answer[r] = "none"
        /\ answer[r] \in Decision => answer[r] = decision[r]

DecisionInv == TypeOK /\ DecisionsAreRecorded /\ RecordsKept /\ RecordedOnce /\ AnswersAreDecisions

-----------------------------------------------------------------------------
(* The invariant holds initially.                                           *)
LEMMA DecisionInitInv == Init => DecisionInv
  BY DEF Init, DecisionInv, TypeOK, DecisionsAreRecorded, RecordsKept, RecordedOnce,
         AnswersAreDecisions, Recorded, Decision

(* A request that ends without success takes nothing from the others.       *)
LEMMA EndWithout ==
    ASSUME DecisionInv, NEW r \in Request, NEW what \in {"STALE_PROPOSAL", "failed"},
           pc' = [pc EXCEPT ![r] = "done"], Reply(r, what), UNCHANGED <<state, approvals, request>>
    PROVE  DecisionInv'
<1>1. \A other \in Request : Recorded(other)' => Recorded(other)
  BY DEF Recorded, Reply, DecisionInv, TypeOK, Decision
<1>2. TypeOK'
  BY DEF DecisionInv, TypeOK, Reply, request
<1>3. DecisionsAreRecorded' /\ RecordsKept' /\ RecordedOnce'
  BY <1>1 DEF DecisionInv, DecisionsAreRecorded, RecordsKept, RecordedOnce, SameDecision, request
<1>4. AnswersAreDecisions'
  BY DEF DecisionInv, TypeOK, AnswersAreDecisions, Reply, request, Decision
<1> QED BY <1>2, <1>3, <1>4 DEF DecisionInv

(* The INSERT makes the first record of its decision.                       *)
LEMMA RecordKeepsInv ==
    ASSUME DecisionInv, NEW r \in Request, Record(r)
    PROVE  DecisionInv'
<1>1. TypeOK /\ RecordsKept /\ RecordedOnce /\ AnswersAreDecisions /\ DecisionsAreRecorded
  BY DEF DecisionInv
<1>2. /\ decision[r] \notin approvals[target[r]] /\ pc[r] = "insert"
      /\ pc' = [pc EXCEPT ![r] = "update"]
      /\ approvals' = [approvals EXCEPT ![target[r]] = @ \cup {decision[r]}]
      /\ state' = state /\ target' = target /\ decision' = decision /\ answer' = answer
  BY DEF Record, Step, request
<1>3. TypeOK'
  BY <1>1, <1>2 DEF TypeOK
<1>4. \A other \in Request \ {r} : Recorded(other)' <=> Recorded(other)
  BY <1>1, <1>2 DEF Recorded, TypeOK
<1>5. \A other \in Request : Recorded(other) => ~SameDecision(r, other)
  BY <1>1, <1>2 DEF RecordsKept, SameDecision
<1>6. \A p \in Proposal : approvals[p] \subseteq approvals'[p]
  BY <1>1, <1>2 DEF TypeOK
<1>7. decision[r] \in approvals'[target[r]] /\ target[r] \in Proposal
  BY <1>1, <1>2 DEF TypeOK
<1>8. RecordsKept'
  BY <1>1, <1>2, <1>4, <1>6, <1>7 DEF RecordsKept, TypeOK
<1>9. RecordedOnce'
  BY <1>1, <1>2, <1>4, <1>5 DEF RecordedOnce, SameDecision
<1>10. DecisionsAreRecorded'
  BY <1>1, <1>2, <1>6 DEF DecisionsAreRecorded
<1>11. AnswersAreDecisions'
  BY <1>1, <1>2 DEF AnswersAreDecisions, TypeOK
<1> QED BY <1>3, <1>8, <1>9, <1>10, <1>11 DEF DecisionInv

(* The UPDATE and the answer rest on the record.                            *)
LEMMA SettleKeepsInv ==
    ASSUME DecisionInv, NEW r \in Request, Settle(r) \/ Answer(r)
    PROVE  DecisionInv'
<1>1. TypeOK /\ RecordsKept /\ RecordedOnce /\ AnswersAreDecisions /\ DecisionsAreRecorded
  BY DEF DecisionInv
<1>2. approvals' = approvals /\ target' = target /\ decision' = decision
  BY DEF Settle, Answer, request
<1>3. Recorded(r) /\ \A other \in Request \ {r} : Recorded(other)' <=> Recorded(other)
  BY <1>1 DEF Settle, Answer, Step, Reply, Recorded, TypeOK
<1>4. TypeOK'
  BY <1>1 DEF Settle, Answer, Step, Reply, request, TypeOK
<1>5. RecordsKept' /\ RecordedOnce'
  BY <1>1, <1>2, <1>3 DEF RecordsKept, RecordedOnce, SameDecision
<1>6. DecisionsAreRecorded'
  <2>1. decision[r] \in approvals[target[r]]
    BY <1>1, <1>3 DEF RecordsKept
  <2> QED BY <1>1, <2>1 DEF Settle, Answer, DecisionsAreRecorded, TypeOK
<1>7. AnswersAreDecisions'
  BY <1>1 DEF Settle, Answer, Step, Reply, request, AnswersAreDecisions, TypeOK
<1> QED BY <1>4, <1>5, <1>6, <1>7 DEF DecisionInv

(* Every step preserves the invariant.                                      *)
LEMMA DecisionNextInv == DecisionInv /\ [Next]_vars => DecisionInv'
<1> SUFFICES ASSUME DecisionInv, [Next]_vars PROVE DecisionInv'
  OBVIOUS
<1>1. ASSUME NEW r \in Request, Pending(r) PROVE DecisionInv'
  <2>1. /\ pc[r] = "select" /\ pc' = [pc EXCEPT ![r] = "insert"]
        /\ UNCHANGED <<state, approvals, target, decision, answer>>
    BY <1>1 DEF Pending, Step, request
  <2>2. TypeOK'
    BY <2>1 DEF DecisionInv, TypeOK
  <2>3. \A other \in Request : Recorded(other)' => Recorded(other)
    BY <2>1 DEF Recorded, DecisionInv, TypeOK
  <2>4. DecisionsAreRecorded' /\ RecordsKept' /\ RecordedOnce'
    BY <2>1, <2>3 DEF DecisionInv, DecisionsAreRecorded, RecordsKept, RecordedOnce, SameDecision
  <2>5. AnswersAreDecisions'
    BY <2>1 DEF DecisionInv, TypeOK, AnswersAreDecisions
  <2> QED BY <2>2, <2>4, <2>5 DEF DecisionInv
<1>2. ASSUME NEW r \in Request, Stale(r) \/ Duplicate(r) \/ Fail(r) PROVE DecisionInv'
  BY <1>2, EndWithout DEF Stale, Duplicate, Fail, Step
<1>3. CASE UNCHANGED vars
  BY <1>3 DEF vars, request, DecisionInv, TypeOK, DecisionsAreRecorded, RecordsKept, RecordedOnce,
              AnswersAreDecisions, Recorded, SameDecision
<1> QED BY <1>1, <1>2, <1>3, RecordKeepsInv, SettleKeepsInv DEF Next

-----------------------------------------------------------------------------
(* No proposal is decided without its record, and no two requests succeed   *)
(* with the same decision on it.                                            *)
LEMMA DecisionSafety == Spec => [](TypeOK /\ DecisionsAreRecorded /\ OneSuccess)
<1>1. DecisionInv => TypeOK /\ DecisionsAreRecorded /\ OneSuccess
  BY DEF DecisionInv, AnswersAreDecisions, RecordedOnce, Recorded, SameDecision, OneSuccess
<1> QED BY <1>1, DecisionInitInv, DecisionNextInv, PTL DEF Spec

(* Proposals, records and requests keep their types.                        *)
THEOREM DecisionTypes == Spec => []TypeOK
BY DecisionSafety, PTL

(* No proposal is decided without the record of its decision.               *)
THEOREM DecisionsHaveRecords == Spec => []DecisionsAreRecorded
BY DecisionSafety, PTL

(* No two requests succeed with the same decision on one proposal.          *)
THEOREM OneSucceeds == Spec => []OneSuccess
BY DecisionSafety, PTL

(* A decision stands, however late a concurrent request updates: the UPDATE *)
(* of decide_proposal names the state it expects.                           *)
THEOREM DecisionStands == Spec => DecisionsStand
<1>1. ASSUME DecisionInv, [Next]_vars
      PROVE  [\A p \in Proposal : state[p] # "PENDING_APPROVAL" => state'[p] = state[p]]_vars
  <2>1. ASSUME NEW r \in Request, Settle(r), NEW p \in Proposal, state[p] # "PENDING_APPROVAL"
        PROVE  state'[p] = state[p]
    BY <1>1, <2>1 DEF Settle, DecisionInv, TypeOK
  <2>2. ASSUME NEW r \in Request,
               Pending(r) \/ Stale(r) \/ Record(r) \/ Duplicate(r) \/ Answer(r) \/ Fail(r)
        PROVE  state' = state
    BY <2>2 DEF Pending, Stale, Record, Duplicate, Answer, Fail
  <2> QED BY <1>1, <2>1, <2>2 DEF Next
<1> QED BY <1>1, DecisionInitInv, DecisionNextInv, PTL DEF Spec, DecisionsStand
=============================================================================
