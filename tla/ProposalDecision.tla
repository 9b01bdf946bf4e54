-------------------------- MODULE ProposalDecision ---------------------------
(****************************************************************************)
(* Approving and rejecting action proposals: the routes of app/api/routes.py*)
(* and decide_proposal (app/repositories/iris_repository.py).  The three    *)
(* statements of decide_proposal are transactions of their own, so requests *)
(* of several approvers interleave between them and a request may break off *)
(* after each.  No code writes proposals: the model starts with proposals   *)
(* that are pending.                                                        *)
(****************************************************************************)
CONSTANTS
    Proposal,   \* (ProposalID, Revision, ActionHash)
    Request     \* requests of approvers

Decision == {"APPROVED", "REJECTED"}

VARIABLES
    state,      \* AI_ACTION_PROPOSAL.State
    approvals,  \* AI_APPROVAL: the decisions recorded on each proposal
    pc,         \* the next statement of each request
    target,     \* the proposal it is about
    decision,   \* what it decides
    answer      \* what its caller is told

request == <<target, decision>>
vars == <<state, approvals, pc, request, answer>>

Init ==
    /\ state = [p \in Proposal |-> "PENDING_APPROVAL"]
    /\ approvals = [p \in Proposal |-> {}]
    /\ pc = [r \in Request |-> "select"]
    /\ target \in [Request -> Proposal]
    /\ decision \in [Request -> Decision]
    /\ answer = [r \in Request |-> "none"]

Step(r, from, to) == pc[r] = from /\ pc' = [pc EXCEPT ![r] = to]

Reply(r, what) == answer' = [answer EXCEPT ![r] = what]

(* The SELECT finds the proposal pending.                                   *)
Pending(r) ==
    /\ state[target[r]] = "PENDING_APPROVAL"
    /\ Step(r, "select", "insert")
    /\ UNCHANGED <<state, approvals, request, answer>>

(* Mutant: the answer is what the SELECT found.                             *)
StaleTells(r) ==
    /\ Step(r, "select", "done")
    /\ Reply(r, state[target[r]])
    /\ UNCHANGED <<state, approvals, request>>

(* It finds it decided, or not at all: the caller's revision or hash is     *)
(* another one.  The answer is 409.                                         *)
Stale(r) ==
    /\ Step(r, "select", "done")
    /\ Reply(r, "STALE_PROPOSAL")
    /\ UNCHANGED <<state, approvals, request>>

(* Mutant: AI_APPROVAL without its unique keys.                             *)
RecordAgain(r) ==
    /\ Step(r, "insert", "update")
    /\ approvals' = [approvals EXCEPT ![target[r]] = @ \cup {decision[r]}]
    /\ UNCHANGED <<state, request, answer>>

(* The INSERT: its keys admit each decision on a proposal once.             *)
Record(r) ==
    /\ decision[r] \notin approvals[target[r]]
    /\ Step(r, "insert", "update")
    /\ approvals' = [approvals EXCEPT ![target[r]] = @ \cup {decision[r]}]
    /\ UNCHANGED <<state, request, answer>>

Duplicate(r) ==
    /\ decision[r] \in approvals[target[r]]
    /\ Step(r, "insert", "done")
    /\ Reply(r, "failed")
    /\ UNCHANGED <<state, approvals, request>>

(* Mutant: an UPDATE whose WHERE does not name the state.                   *)
SettleBlind(r) ==
    /\ Step(r, "update", "answer")
    /\ state' = [state EXCEPT ![target[r]] = decision[r]]
    /\ UNCHANGED <<approvals, request, answer>>

(* Mutant: REJECTED is stored whatever was decided.                         *)
SettleRejected(r) ==
    /\ Step(r, "update", "answer")
    /\ state' = [state EXCEPT ![target[r]] = IF @ = "PENDING_APPROVAL" THEN "REJECTED" ELSE @]
    /\ UNCHANGED <<approvals, request, answer>>

(* The UPDATE changes a proposal that is still pending, and no other.       *)
Settle(r) ==
    /\ Step(r, "update", "answer")
    /\ state' = [state EXCEPT ![target[r]] = IF @ = "PENDING_APPROVAL" THEN decision[r] ELSE @]
    /\ UNCHANGED <<approvals, request, answer>>

Answer(r) ==
    /\ Step(r, "answer", "done")
    /\ Reply(r, decision[r])
    /\ UNCHANGED <<state, approvals, request>>

(* A statement fails, or the process serving the request ends.              *)
Fail(r) ==
    /\ pc[r] # "done"
    /\ pc' = [pc EXCEPT ![r] = "done"]
    /\ Reply(r, "failed")
    /\ UNCHANGED <<state, approvals, request>>

Next ==
    \E r \in Request :
        \/ Pending(r) \/ Stale(r) \/ Record(r) \/ Duplicate(r)
        \/ Settle(r) \/ Answer(r) \/ Fail(r)

Spec == Init /\ [][Next]_vars

-----------------------------------------------------------------------------
(* Properties.                                                              *)

TypeOK ==
    /\ state \in [Proposal -> Decision \cup {"PENDING_APPROVAL"}]
    /\ approvals \in [Proposal -> SUBSET Decision]
    /\ pc \in [Request -> {"select", "insert", "update", "answer", "done"}]
    /\ target \in [Request -> Proposal]
    /\ decision \in [Request -> Decision]
    /\ answer \in [Request -> Decision \cup {"none", "STALE_PROPOSAL", "failed"}]

(* A proposal is never approved or rejected without the record of a DBA who *)
(* decided so: wherever a request breaks off, the decision of               *)
(* AI_ACTION_PROPOSAL is backed by AI_APPROVAL.                             *)
DecisionsAreRecorded ==
    \A p \in Proposal :
        state[p] # "PENDING_APPROVAL" => state[p] \in approvals[p]

(* Of several requests for the same decision on a proposal one at most is   *)
(* answered with success.                                                   *)
OneSuccess ==
    \A r, other \in Request :
        /\ answer[r] \in Decision /\ answer[other] = answer[r]
        /\ target[other] = target[r]
        => other = r

(* A request that read the proposal while it was pending does not overturn  *)
(* a decision made since.                                                   *)
DecisionsStand ==
    [][\A p \in Proposal : state[p] # "PENDING_APPROVAL" => state'[p] = state[p]]_vars
=============================================================================
