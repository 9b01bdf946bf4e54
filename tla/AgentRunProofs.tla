--------------------------- MODULE AgentRunProofs ----------------------------
(****************************************************************************)
(* What the stored state and report of a run say is true of its stored      *)
(* evidence, for every catalog, every budget and every point of failure.    *)
(*                                                                          *)
(* The inductive invariant RunInv relates the counters execute() keeps in   *)
(* memory to the rows it has stored: while the runner is trying, they agree *)
(* up to the one call being handled.                                        *)
(****************************************************************************)
EXTENDS AgentRun, SequenceTheorems, TLAPS

(* Statements between taking up a call and recording it.                    *)
Handling == {"check", "prepare", "recheck", "send", "reply", "record"}

Recorded(result) == \E i \in Ids : evidence[i].outcome = result

Arriving(result) == pc = "record" /\ outcome = result

(* The counters say which outcomes have been recorded or are about to be.   *)
Counted ==
    pc \in Trying =>
        /\ successes > 0 <=> Recorded("SUCCEEDED") \/ Arriving("SUCCEEDED")
        /\ failures > 0 <=> Recorded("FAILED") \/ Arriving("FAILED")

(* `messages` lags behind the evidence by the call being told, and          *)
(* `evidence_ids` holds the rows of the others, all of them, in order.      *)
Told ==
    /\ ToldIsRecorded
    /\ Len(evidenceIds) = Len(told)
    /\ \A i \in 1..Len(told) : evidenceIds[i] = i
    /\ pc \in Trying \ {"tell"} => Len(told) = Len(evidence)
    /\ pc = "tell" => /\ Len(evidence) = Len(told) + 1
                      /\ evidence[Len(evidence)].outcome = outcome

(* Every request is recorded, or belongs to the call being handled.         *)
Complete ==
    pc \in Trying => \A n \in 1..sent :
        (\E i \in Ids : evidence[i].request = n) \/ (pc \in {"reply", "record"} /\ request = n)

Budget ==
    /\ WithinBudget
    /\ pc \in Trying => calls <= MaxCalls /\ sent <= calls /\ Len(evidence) <= calls
    /\ pc \in {"check", "prepare", "recheck", "send"} => sent < calls
    /\ pc \in Handling => Len(evidence) < calls

ReportIsComplete ==
    state \in Reported => \A n \in 1..sent : \E i \in Ids : evidence[i].request = n

(* A verdict is the last thing a runner stores.                             *)
Ended == /\ state # "RUNNING" => pc = "gone"
         /\ EvidencedOutcome
         /\ ReportIsComplete
         /\ UncutReportsCite

Cleared == /\ pc \in {"prepare", "recheck", "send"} => tool \in Assigned
           /\ pc = "send" => tool \notin blocked
           /\ pc = "report" => successes > 0

RunInv == TypeOK /\ Counted /\ Told /\ Complete /\ Budget /\ Ended /\ Cleared
-----------------------------------------------------------------------------
(* A step that stores nothing and tells nothing leaves the tables' side of  *)
(* the invariant alone, unless a runner that has exited comes back.         *)
Quiet == UNCHANGED <<told, evidenceIds, evidence, row, sent>>

(* A step that sends, records, tells and ends nothing.                      *)
LEMMA QuietStep ==
    ASSUME RunInv, Quiet, pc = "gone" => pc' = "gone"
    PROVE  /\ Ended' /\ ToldIsRecorded' /\ WithinBudget'
           /\ Ids' = Ids /\ sent' = sent /\ told' = told /\ evidenceIds' = evidenceIds /\ evidence' = evidence
           /\ state' = state /\ report' = report
           /\ Recorded("SUCCEEDED")' <=> Recorded("SUCCEEDED")
           /\ Recorded("FAILED")' <=> Recorded("FAILED")
<1>1. /\ sent' = sent /\ told' = told /\ evidenceIds' = evidenceIds /\ evidence' = evidence /\ state' = state
      /\ report' = report /\ Ids' = Ids
  BY DEF Quiet, row, Ids
<1>2. /\ Recorded("SUCCEEDED")' <=> Recorded("SUCCEEDED")
      /\ Recorded("FAILED")' <=> Recorded("FAILED")
  BY <1>1 DEF Recorded
<1>3. ToldIsRecorded' /\ WithinBudget'
  BY <1>1 DEF RunInv, Told, Budget, ToldIsRecorded, WithinBudget
<1>4. EvidencedOutcome' /\ ReportIsComplete' /\ UncutReportsCite'
  BY <1>1 DEF RunInv, Ended, EvidencedOutcome, ReportIsComplete, UncutReportsCite
<1>5. state' # "RUNNING" => pc' = "gone"
  BY <1>1 DEF RunInv, Ended
<1> QED BY <1>1, <1>2, <1>3, <1>4, <1>5 DEF Ended

(* The registry as the runner finds it.                                     *)
LEMMA AtTypes ==
    ASSUME TypeOK, NEW here, NEW there, At(here, there), there \in Trying \cup {"fail", "gone"}
    PROVE  /\ enabled' \in [Tool -> BOOLEAN] /\ outdated' \subseteq Assigned
           /\ pc' \in Trying \cup {"fail", "gone"} /\ blocked' \subseteq Tool
           /\ \A t \in Tool : enabled[t] => t \notin blocked'
           /\ pc = here /\ pc' = there
BY DEF At, TypeOK, registry

(* What remains true when the runner gives up.                              *)
LEMMA GivingUp ==
    ASSUME RunInv, Quiet, TypeOK', pc # "gone", pc' \in {"fail", "gone"}
    PROVE  RunInv'
<1>1. Ended' /\ ToldIsRecorded' /\ WithinBudget'
  BY QuietStep
<1>2. Told'
  <2>1. Told /\ told' = told /\ evidenceIds' = evidenceIds
    BY DEF Quiet, RunInv
  <2>2. pc' \notin Trying
    BY DEF Trying
  <2> QED BY <1>1, <2>1, <2>2 DEF Told, Trying
<1>3. Counted' /\ Complete' /\ Budget' /\ Cleared'
  BY <1>1 DEF Counted, Complete, Budget, Cleared, Trying, Handling
<1> QED BY <1>1, <1>2, <1>3 DEF RunInv

-----------------------------------------------------------------------------
(* Steps that change nothing but the place of the runner.                   *)
LEMMA ProceedStep ==
    ASSUME RunInv, NEW here, NEW there, Proceed(here, there),
           \/ here \in Trying \cup {"fail"} /\ there \in {"fail", "gone"}
           \/ here = "check" /\ there = "prepare" /\ tool \in Assigned
           \/ here = "prepare" /\ there = "recheck"
           \/ here = "recheck" /\ there = "send" /\ enabled[tool]
    PROVE  RunInv'
<1>1. /\ TypeOK /\ Counted /\ Told /\ Complete /\ Budget /\ Cleared
  BY DEF RunInv
<1>2. /\ At(here, there) /\ Quiet /\ unchecked' = unchecked /\ left' = left
      /\ iteration' = iteration /\ calls' = calls /\ successes' = successes
      /\ failures' = failures /\ tool' = tool /\ request' = request /\ outcome' = outcome
  BY DEF Proceed, Quiet, counters, callVars
<1>3. pc = here /\ pc' = there /\ here # "gone"
  BY <1>2 DEF At, Trying
<1>4. /\ Ids' = Ids /\ sent' = sent /\ told' = told /\ evidenceIds' = evidenceIds /\ evidence' = evidence
      /\ state' = state /\ report' = report /\ Ended' /\ ToldIsRecorded' /\ WithinBudget'
      /\ Recorded("SUCCEEDED")' <=> Recorded("SUCCEEDED")
      /\ Recorded("FAILED")' <=> Recorded("FAILED")
  BY <1>2, <1>3, QuietStep
<1>5. there \in Trying \cup {"fail", "gone"}
  BY DEF Trying
<1>6. TypeOK'
  <2>1. /\ enabled' \in [Tool -> BOOLEAN] /\ outdated' \subseteq Assigned
        /\ pc' \in Trying \cup {"fail", "gone"} /\ blocked' \subseteq Tool
    BY <1>1, <1>2, <1>5, AtTypes
  <2> QED BY <1>1, <1>2, <1>4, <2>1 DEF TypeOK
<1>7. CASE there \in {"fail", "gone"}
  BY <1>2, <1>3, <1>6, <1>7, GivingUp
<1>8. CASE there \in {"prepare", "recheck", "send"}
  <2>1. here \in {"check", "prepare", "recheck"}
    BY <1>8
  <2>2. Counted' /\ Complete'
    BY <1>1, <1>2, <1>3, <1>4, <1>8, <2>1 DEF Counted, Complete, Arriving, Trying
  <2>3. Told' /\ Budget'
    BY <1>1, <1>2, <1>3, <1>4, <1>8, <2>1 DEF Told, Budget, Trying, Handling
  <2>4. Cleared'
    <3>1. there = "send" => tool \notin blocked'
      BY <1>1, <1>2, <1>5, AtTypes DEF TypeOK
    <3> QED BY <1>1, <1>2, <1>3, <1>8, <3>1 DEF Cleared
  <2> QED BY <1>4, <1>6, <2>2, <2>3, <2>4 DEF RunInv
<1> QED BY <1>5, <1>7, <1>8

(* A call whose outcome is known is about to be recorded.                   *)
LEMMA SettledStep ==
    ASSUME RunInv, NEW here \in Handling \ {"record"}, NEW result \in {"SUCCEEDED", "FAILED"},
           Settled(here, result)
    PROVE  RunInv'
<1>1. /\ TypeOK /\ Counted /\ Told /\ Complete /\ Budget /\ Cleared
  BY DEF RunInv
<1>2. /\ At(here, "record") /\ Quiet /\ unchecked' = unchecked /\ left' = left
      /\ iteration' = iteration /\ calls' = calls /\ tool' = tool /\ request' = request
      /\ outcome' = result
      /\ \/ result = "SUCCEEDED" /\ successes' = successes + 1 /\ failures' = failures
         \/ result = "FAILED" /\ failures' = failures + 1 /\ successes' = successes
  BY DEF Settled, Quiet
<1>3. pc = here /\ pc' = "record" /\ here \in Trying /\ here \notin {"tell", "record", "gone"}
  BY <1>2 DEF At, Trying, Handling
<1>4. /\ Ids' = Ids /\ sent' = sent /\ told' = told /\ evidenceIds' = evidenceIds /\ evidence' = evidence
      /\ state' = state /\ report' = report /\ Ended' /\ ToldIsRecorded' /\ WithinBudget'
      /\ Recorded("SUCCEEDED")' <=> Recorded("SUCCEEDED")
      /\ Recorded("FAILED")' <=> Recorded("FAILED")
  BY <1>2, <1>3, QuietStep
<1>5. TypeOK'
  <2>1. /\ enabled' \in [Tool -> BOOLEAN] /\ outdated' \subseteq Assigned
        /\ pc' \in Trying \cup {"fail", "gone"} /\ blocked' \subseteq Tool
    BY <1>1, <1>2, AtTypes DEF Trying
  <2> QED BY <1>1, <1>2, <1>4, <2>1 DEF TypeOK
<1>6. Counted'
  <2>1. successes \in Nat /\ failures \in Nat
    BY <1>1 DEF TypeOK
  <2>2. /\ successes > 0 <=> Recorded("SUCCEEDED")
        /\ failures > 0 <=> Recorded("FAILED")
    BY <1>1, <1>3 DEF Counted, Arriving
  <2>3. /\ Arriving("SUCCEEDED")' <=> result = "SUCCEEDED"
        /\ Arriving("FAILED")' <=> result = "FAILED"
    BY <1>2, <1>3 DEF Arriving
  <2>4. /\ successes' > 0 <=> Recorded("SUCCEEDED") \/ result = "SUCCEEDED"
        /\ failures' > 0 <=> Recorded("FAILED") \/ result = "FAILED"
    BY <1>2, <2>1, <2>2
  <2> QED BY <1>4, <2>3, <2>4 DEF Counted
<1>7. Complete'
  BY <1>1, <1>2, <1>3, <1>4 DEF Complete
<1>8. Told' /\ Budget' /\ Cleared'
  BY <1>1, <1>2, <1>3, <1>4 DEF Told, Budget, Cleared, Trying, Handling
<1> QED BY <1>4, <1>5, <1>6, <1>7, <1>8 DEF RunInv

(* Between calls: admission, the model's answer, the next call.             *)
LEMMA BetweenStep ==
    ASSUME RunInv, Start \/ Admit \/ Ask \/ NextCall
    PROVE  RunInv'
<1>1. /\ TypeOK /\ Counted /\ Told /\ Complete /\ Budget /\ Cleared
  BY DEF RunInv
<1>2. /\ Quiet /\ outcome' = outcome /\ successes' = successes /\ failures' = failures
  BY DEF Start, Admit, Ask, NextCall, Quiet, counters, callVars
<1>3. PICK here \in {"start", "admit", "ask", "next"},
           there \in {"admit", "ask", "next", "report", "check", "fail"} : At(here, there)
  BY DEF Start, Admit, Ask, NextCall
<1>4. /\ pc = here /\ pc' = there /\ here \in Trying /\ here \notin {"tell", "record", "reply"}
      /\ there \in Trying \cup {"fail"} /\ here # "gone"
  BY <1>3 DEF At, Trying
<1>5. /\ Ids' = Ids /\ sent' = sent /\ told' = told /\ evidenceIds' = evidenceIds /\ evidence' = evidence
      /\ state' = state /\ report' = report /\ Ended' /\ ToldIsRecorded' /\ WithinBudget'
      /\ Recorded("SUCCEEDED")' <=> Recorded("SUCCEEDED")
      /\ Recorded("FAILED")' <=> Recorded("FAILED")
  BY <1>2, <1>4, QuietStep
<1>6. /\ calls \in 0..MaxCalls /\ sent \in 0..calls /\ Len(evidence) <= calls
      /\ Len(evidence) \in Nat /\ MaxCalls \in Nat
  BY <1>1, <1>4, BudgetAssumption DEF TypeOK, Budget, Trying
<1>7. /\ \/ calls' = calls /\ there # "check"
         \/ calls' = calls + 1 /\ (calls' > MaxCalls <=> there = "fail")
      /\ there # "report" \/ successes > 0
  BY <1>3, <1>4, <1>6 DEF Start, Admit, Ask, NextCall, At, counters, OverBudget
<1>8. TypeOK'
  <2>1. /\ enabled' \in [Tool -> BOOLEAN] /\ outdated' \subseteq Assigned
        /\ pc' \in Trying \cup {"fail", "gone"} /\ blocked' \subseteq Tool
    BY <1>1, <1>3, <1>4, AtTypes
  <2>2. unchecked' \subseteq Assigned
    BY <1>1 DEF TypeOK, Start, Admit, Ask, NextCall
  <2>3. iteration' \in 0..MaxIterations /\ left' \in 0..MaxBatch
    BY <1>1, BudgetAssumption DEF TypeOK, Start, Admit, Ask, NextCall, counters
  <2>4. tool' \in Tool /\ request' \in 0..sent
    BY <1>1 DEF TypeOK, Start, Admit, Ask, NextCall, callVars
  <2>5. calls' \in 0..MaxCalls + 1
    BY <1>6, <1>7
  <2> QED BY <1>1, <1>2, <1>5, <2>1, <2>2, <2>3, <2>4, <2>5 DEF TypeOK
<1>9. CASE there = "fail"
  BY <1>2, <1>4, <1>8, <1>9, GivingUp
<1>10. CASE there # "fail"
  <2>1. Counted' /\ Complete'
    BY <1>1, <1>2, <1>4, <1>5, <1>10 DEF Counted, Complete, Arriving
  <2>2. Told'
    BY <1>1, <1>4, <1>5, <1>10 DEF Told, Trying
  <2>3. Budget'
    BY <1>4, <1>5, <1>6, <1>7, <1>10 DEF Budget, Handling
  <2>4. Cleared'
    BY <1>2, <1>4, <1>7 DEF Cleared
  <2> QED BY <1>5, <1>8, <2>1, <2>2, <2>3, <2>4 DEF RunInv
<1> QED BY <1>9, <1>10

(* A DBA's toggle touches nothing the invariant speaks of but Enabled.      *)
LEMMA ToggleStep == ASSUME RunInv, Toggle PROVE RunInv'
<1>1. /\ TypeOK /\ Counted /\ Told /\ Complete /\ Budget /\ Cleared
  BY DEF RunInv
<1>2. /\ Quiet /\ pc' = pc /\ outdated' = outdated /\ unchecked' = unchecked /\ left' = left
      /\ iteration' = iteration /\ calls' = calls /\ successes' = successes
      /\ failures' = failures /\ tool' = tool /\ request' = request /\ outcome' = outcome
      /\ blocked' = blocked
  BY DEF Toggle, Quiet, counters, callVars
<1>3. /\ Ids' = Ids /\ sent' = sent /\ told' = told /\ evidenceIds' = evidenceIds /\ evidence' = evidence
      /\ state' = state /\ report' = report /\ Ended' /\ ToldIsRecorded' /\ WithinBudget'
      /\ Recorded("SUCCEEDED")' <=> Recorded("SUCCEEDED")
      /\ Recorded("FAILED")' <=> Recorded("FAILED")
  BY <1>2, QuietStep
<1>4. enabled' \in [Tool -> BOOLEAN]
  BY <1>1 DEF Toggle, TypeOK
<1>5. TypeOK'
  BY <1>1, <1>2, <1>3, <1>4 DEF TypeOK
<1>6. Counted' /\ Complete'
  BY <1>1, <1>2, <1>3 DEF Counted, Complete, Arriving
<1>7. Told' /\ Budget' /\ Cleared'
  BY <1>1, <1>2, <1>3 DEF Told, Budget, Cleared
<1> QED BY <1>3, <1>5, <1>6, <1>7 DEF RunInv

-----------------------------------------------------------------------------
(* A sequence over a set is one over any larger set.                        *)
LEMMA WiderSeq ==
    ASSUME NEW S, NEW T, S \subseteq T, NEW seq \in Seq(S)
    PROVE  seq \in Seq(T)
<1>1. Len(seq) \in Nat /\ seq \in [1..Len(seq) -> S]
  OBVIOUS
<1>2. seq \in [1..Len(seq) -> T]
  BY <1>1
<1> QED BY <1>1, <1>2

(* A request is numbered when it is sent.                                   *)
LEMMA SendStep == ASSUME RunInv, Send PROVE RunInv'
<1>1. /\ TypeOK /\ Counted /\ Told /\ Complete /\ Budget /\ Cleared /\ Ended
  BY DEF RunInv
<1>2. /\ At("send", "reply") /\ sent' = sent + 1 /\ request' = sent + 1
      /\ told' = told /\ evidenceIds' = evidenceIds /\ evidence' = evidence /\ state' = state /\ report' = report
      /\ unchecked' = unchecked /\ left' = left /\ iteration' = iteration /\ calls' = calls
      /\ successes' = successes /\ failures' = failures /\ tool' = tool /\ outcome' = outcome
  BY DEF Send, counters, row
<1>3. pc = "send" /\ pc' = "reply" /\ sent \in Nat /\ Ids' = Ids
  BY <1>1, <1>2 DEF At, TypeOK, Ids
<1>4. TypeOK'
  <2>1. /\ enabled' \in [Tool -> BOOLEAN] /\ outdated' \subseteq Assigned
        /\ pc' \in Trying \cup {"fail", "gone"} /\ blocked' \subseteq Tool
    BY <1>1, <1>2, AtTypes DEF Trying
  <2>2. evidence' \in Seq([outcome: {"SUCCEEDED", "FAILED"}, request: 0..sent'])
    <3> DEFINE Old == [outcome: {"SUCCEEDED", "FAILED"}, request: 0..sent]
               New == [outcome: {"SUCCEEDED", "FAILED"}, request: 0..sent']
    <3>1. Old \subseteq New
      BY <1>2, <1>3
    <3>2. evidence \in Seq(Old)
      BY <1>1 DEF TypeOK
    <3> HIDE DEF Old, New
    <3> QED BY <1>2, <3>1, <3>2, WiderSeq DEF New
  <2>3. request' \in 0..sent' /\ sent' \in Nat
    BY <1>2, <1>3
  <2> QED BY <1>1, <1>2, <1>3, <2>1, <2>2, <2>3 DEF TypeOK
<1>5. Counted'
  BY <1>1, <1>2, <1>3 DEF Counted, Recorded, Arriving, Trying
<1>6. Told'
  BY <1>1, <1>2, <1>3 DEF Told, ToldIsRecorded, Trying
<1>7. Complete'
  <2>1. \A n \in 1..sent : \E i \in Ids : evidence[i].request = n
    BY <1>1, <1>3 DEF Complete, Trying
  <2>2. \A n \in 1..sent' : n \in 1..sent \/ n = sent + 1
    BY <1>2, <1>3
  <2> QED BY <1>2, <1>3, <2>1, <2>2 DEF Complete
<1>8. Budget'
  <2>1. calls \in Nat /\ MaxCalls \in Nat /\ Len(evidence) \in Nat
    BY <1>1, BudgetAssumption DEF TypeOK
  <2>2. sent < calls /\ calls <= MaxCalls /\ Len(evidence) < calls
    BY <1>1, <1>3 DEF Budget, Handling, Trying
  <2> QED BY <1>2, <1>3, <2>1, <2>2 DEF Budget, WithinBudget, Handling
<1>9. Ended' /\ Cleared'
  <2>1. state' = "RUNNING"
    BY <1>1, <1>2, <1>3 DEF Ended
  <2> QED BY <1>3, <2>1
      DEF Ended, Cleared, EvidencedOutcome, ReportIsComplete, UncutReportsCite, Reported
<1> QED BY <1>4, <1>5, <1>6, <1>7, <1>8, <1>9 DEF RunInv

(* Recording a call adds the outcome the counters already count.            *)
LEMMA RecordStep == ASSUME RunInv, Record PROVE RunInv'
<1> DEFINE new == [outcome |-> outcome, request |-> request]
<1>1. /\ TypeOK /\ Counted /\ Told /\ Complete /\ Budget /\ Cleared /\ Ended
  BY DEF RunInv
<1>2. /\ At("record", "tell") /\ evidence' = Append(evidence, new)
      /\ told' = told /\ evidenceIds' = evidenceIds /\ state' = state /\ report' = report /\ sent' = sent
      /\ unchecked' = unchecked /\ left' = left /\ iteration' = iteration /\ calls' = calls
      /\ successes' = successes /\ failures' = failures
      /\ tool' = tool /\ outcome' = outcome /\ request' = request
  BY DEF Record, counters, callVars, row
<1>3. /\ pc = "record" /\ pc' = "tell" /\ sent \in Nat /\ Len(evidence) \in Nat
      /\ evidence \in Seq([outcome: {"SUCCEEDED", "FAILED"}, request: 0..sent])
      /\ new \in [outcome: {"SUCCEEDED", "FAILED"}, request: 0..sent]
  BY <1>1, <1>2 DEF At, TypeOK
<1>4. /\ Len(evidence') = Len(evidence) + 1
      /\ \A i \in 1..Len(evidence) : evidence'[i] = evidence[i]
      /\ evidence'[Len(evidence) + 1] = new
      /\ evidence' \in Seq([outcome: {"SUCCEEDED", "FAILED"}, request: 0..sent])
  BY <1>2, <1>3
<1>5. /\ Ids' = Ids \cup {Len(evidence) + 1} /\ Len(evidence) + 1 \notin Ids
      /\ \A i \in Ids : evidence'[i] = evidence[i]
      /\ new.outcome = outcome /\ new.request = request
  BY <1>3, <1>4 DEF Ids
<1>6. TypeOK'
  <2>1. /\ enabled' \in [Tool -> BOOLEAN] /\ outdated' \subseteq Assigned
        /\ pc' \in Trying \cup {"fail", "gone"} /\ blocked' \subseteq Tool
    BY <1>1, <1>2, AtTypes DEF Trying
  <2>2. report' \in [cites: SUBSET Ids', cut: BOOLEAN]
    BY <1>1, <1>2, <1>5 DEF TypeOK
  <2> QED BY <1>1, <1>2, <1>4, <2>1, <2>2 DEF TypeOK
<1>7. Counted'
  <2>1. \A result : Recorded(result)' <=> Recorded(result) \/ outcome = result
    BY <1>4, <1>5 DEF Recorded
  <2>2. /\ successes > 0 <=> Recorded("SUCCEEDED") \/ outcome = "SUCCEEDED"
        /\ failures > 0 <=> Recorded("FAILED") \/ outcome = "FAILED"
    BY <1>1, <1>3 DEF Counted, Arriving, Trying
  <2> QED BY <1>2, <1>3, <2>1, <2>2 DEF Counted, Arriving
<1>8. Told'
  <2>1. /\ Len(told) = Len(evidence) /\ ToldIsRecorded
        /\ Len(evidenceIds) = Len(told) /\ \A i \in 1..Len(told) : evidenceIds[i] = i
    BY <1>1, <1>3 DEF Told, Trying
  <2>2. ToldIsRecorded'
    BY <1>2, <1>3, <1>4, <1>5, <2>1 DEF ToldIsRecorded
  <2>3. Len(evidence') = Len(told') + 1 /\ evidence'[Len(evidence')].outcome = outcome'
    BY <1>2, <1>3, <1>4, <1>5, <2>1
  <2> QED BY <1>2, <1>3, <2>1, <2>2, <2>3 DEF Told, Trying
<1>9. Complete'
  <2>1. \A n \in 1..sent : (\E i \in Ids : evidence[i].request = n) \/ request = n
    BY <1>1, <1>3 DEF Complete, Trying
  <2> QED BY <1>2, <1>3, <1>4, <1>5, <2>1 DEF Complete
<1>10. Budget'
  <2>1. calls \in Nat /\ MaxCalls \in Nat
    BY <1>1, BudgetAssumption DEF TypeOK
  <2>2. Len(evidence) < calls /\ calls <= MaxCalls /\ sent <= calls
    BY <1>1, <1>3 DEF Budget, Handling, Trying
  <2> QED BY <1>2, <1>3, <1>4, <2>1, <2>2 DEF Budget, WithinBudget, Handling
<1>11. Ended' /\ Cleared'
  <2>1. state' = "RUNNING"
    BY <1>1, <1>2, <1>3 DEF Ended
  <2> QED BY <1>3, <2>1
      DEF Ended, Cleared, EvidencedOutcome, ReportIsComplete, UncutReportsCite, Reported
<1> QED BY <1>6, <1>7, <1>8, <1>9, <1>10, <1>11 DEF RunInv

(* The model is told what has been recorded last.                           *)
LEMMA TellStep == ASSUME RunInv, Tell PROVE RunInv'
<1>1. /\ TypeOK /\ Counted /\ Told /\ Complete /\ Budget /\ Cleared /\ Ended
  BY DEF RunInv
<1>2. /\ At("tell", "next") /\ told' = Append(told, outcome)
      /\ evidenceIds' = Append(evidenceIds, Len(evidence))
      /\ evidence' = evidence /\ state' = state /\ report' = report /\ sent' = sent
      /\ unchecked' = unchecked /\ left' = left /\ iteration' = iteration /\ calls' = calls
      /\ successes' = successes /\ failures' = failures
      /\ tool' = tool /\ outcome' = outcome /\ request' = request
  BY DEF Tell, counters, callVars, row
<1>3. /\ pc = "tell" /\ pc' = "next" /\ Ids' = Ids
      /\ told \in Seq({"SUCCEEDED", "FAILED"}) /\ outcome \in {"SUCCEEDED", "FAILED"}
      /\ evidenceIds \in Seq(Nat) /\ Len(evidence) \in Nat
  BY <1>1, <1>2 DEF At, TypeOK, Ids
<1>4. /\ Len(told') = Len(told) + 1 /\ Len(told) \in Nat
      /\ \A i \in 1..Len(told) : told'[i] = told[i]
      /\ told'[Len(told) + 1] = outcome
      /\ told' \in Seq({"SUCCEEDED", "FAILED"})
  BY <1>2, <1>3
<1>5. /\ Len(evidenceIds') = Len(evidenceIds) + 1
      /\ \A i \in 1..Len(evidenceIds) : evidenceIds'[i] = evidenceIds[i]
      /\ evidenceIds'[Len(evidenceIds) + 1] = Len(evidence)
      /\ evidenceIds' \in Seq(Nat)
  BY <1>2, <1>3
<1>6. TypeOK'
  <2>1. /\ enabled' \in [Tool -> BOOLEAN] /\ outdated' \subseteq Assigned
        /\ pc' \in Trying \cup {"fail", "gone"} /\ blocked' \subseteq Tool
    BY <1>1, <1>2, AtTypes DEF Trying
  <2> QED BY <1>1, <1>2, <1>3, <1>4, <1>5, <2>1 DEF TypeOK
<1>7. Counted' /\ Complete'
  BY <1>1, <1>2, <1>3 DEF Counted, Complete, Recorded, Arriving, Trying
<1>8. Told'
  <2>1. /\ Len(evidence) = Len(told) + 1 /\ evidence[Len(evidence)].outcome = outcome
        /\ \A i \in 1..Len(told) : told[i] = evidence[i].outcome
    BY <1>1, <1>3 DEF Told, ToldIsRecorded
  <2>2. \A i \in 1..Len(told') : i \in 1..Len(told) \/ i = Len(told) + 1
    BY <1>4
  <2>3. ToldIsRecorded'
    BY <1>2, <1>4, <2>1, <2>2 DEF ToldIsRecorded
  <2>4. /\ Len(evidenceIds') = Len(told')
        /\ \A i \in 1..Len(told') : evidenceIds'[i] = i
    BY <1>1, <1>4, <1>5, <2>1, <2>2 DEF Told
  <2> QED BY <1>2, <1>3, <1>4, <2>1, <2>3, <2>4 DEF Told
<1>9. Budget' /\ Ended' /\ Cleared'
  BY <1>1, <1>2, <1>3
  DEF Budget, WithinBudget, Handling, Trying, Ended, Cleared, EvidencedOutcome,
      ReportIsComplete, UncutReportsCite
<1> QED BY <1>6, <1>7, <1>8, <1>9 DEF RunInv

-----------------------------------------------------------------------------
(* The end: the report is stored with the counters' verdict.                *)
LEMMA ReportStep == ASSUME RunInv, Report PROVE RunInv'
<1>1. /\ TypeOK /\ Counted /\ Told /\ Complete /\ Budget /\ Cleared /\ Ended
  BY DEF RunInv
<1>2. /\ At("report", "gone") /\ evidence' = evidence /\ sent' = sent /\ told' = told /\ evidenceIds' = evidenceIds
      /\ unchecked' = unchecked /\ left' = left /\ iteration' = iteration /\ calls' = calls
      /\ successes' = successes /\ failures' = failures
      /\ tool' = tool /\ outcome' = outcome /\ request' = request
  BY DEF Report, counters, callVars
<1>3. pc = "report" /\ pc' = "gone" /\ Ids' = Ids /\ successes > 0
  BY <1>1, <1>2 DEF At, Ids, Cleared
<1>4. Remembered = Ids
  <2>1. /\ Len(told) = Len(evidence) /\ Len(evidenceIds) = Len(told)
        /\ \A i \in 1..Len(told) : evidenceIds[i] = i
    BY <1>1, <1>3 DEF Told, Trying
  <2> QED BY <2>1 DEF Remembered, Ids
<1>5. PICK own \in SUBSET Remembered, cut \in BOOLEAN :
        \E kept \in IF cut THEN SUBSET Citing(own) ELSE {Citing(own)} :
           Finished(Verdict, [cites |-> kept, cut |-> cut])
  BY DEF Report
<1>6. PICK kept \in SUBSET Ids :
        /\ Finished(Verdict, [cites |-> kept, cut |-> cut])
        /\ ~cut => kept = Ids
  BY <1>5, <1>4 DEF Citing
<1>7. \/ state' = state /\ report' = report
      \/ /\ state' = (IF failures > 0 THEN "PARTIAL" ELSE "SUCCEEDED")
         /\ report' = [cites |-> kept, cut |-> cut]
  BY <1>6 DEF Finished, Verdict, row
<1>8. TypeOK'
  <2>1. /\ enabled' \in [Tool -> BOOLEAN] /\ outdated' \subseteq Assigned
        /\ pc' \in Trying \cup {"fail", "gone"} /\ blocked' \subseteq Tool
    BY <1>1, <1>2, AtTypes
  <2>2. report' \in [cites: SUBSET Ids', cut: BOOLEAN]
    BY <1>1, <1>3, <1>7 DEF TypeOK
  <2>3. state' \in {"RUNNING", "FAILED"} \cup Reported
    BY <1>1, <1>7 DEF TypeOK, Reported
  <2> QED BY <1>1, <1>2, <2>1, <2>2, <2>3 DEF TypeOK
<1>9. state \notin Reported
  BY <1>1, <1>3 DEF Ended, Reported
<1>10. EvidencedOutcome'
  <2>1. Recorded("SUCCEEDED") /\ (failures > 0 <=> Recorded("FAILED"))
    BY <1>1, <1>3 DEF Counted, Arriving, Trying
  <2> QED BY <1>2, <1>3, <1>7, <1>9, <2>1 DEF EvidencedOutcome, Recorded, Reported
<1>11. ReportIsComplete'
  BY <1>1, <1>2, <1>3 DEF ReportIsComplete, Complete, Trying
<1>12. UncutReportsCite'
  BY <1>3, <1>6, <1>7, <1>9 DEF UncutReportsCite
<1>13. Counted' /\ Told' /\ Complete' /\ Budget' /\ Cleared'
  BY <1>1, <1>2, <1>3
  DEF Counted, Told, ToldIsRecorded, Complete, Budget, WithinBudget, Cleared, Trying, Handling
<1> QED BY <1>3, <1>8, <1>10, <1>11, <1>12, <1>13 DEF RunInv, Ended

(* A run that is still RUNNING is failed, by the runner or for it.          *)
LEMMA FailStep == ASSUME RunInv, Fail \/ WorkerFinishes PROVE RunInv'
<1>1. /\ TypeOK /\ Counted /\ Told /\ Complete /\ Budget /\ Cleared /\ Ended
  BY DEF RunInv
<1>2. /\ At(pc, "gone") /\ evidence' = evidence /\ sent' = sent /\ told' = told /\ evidenceIds' = evidenceIds
      /\ unchecked' = unchecked /\ left' = left /\ iteration' = iteration /\ calls' = calls
      /\ successes' = successes /\ failures' = failures
      /\ tool' = tool /\ outcome' = outcome /\ request' = request
      /\ Finished("FAILED", NoReport)
  BY DEF Fail, WorkerFinishes, At, counters, callVars
<1>3. pc' = "gone" /\ Ids' = Ids
  BY <1>1, <1>2 DEF At, Ids
<1>4. \/ state' = state /\ report' = report
      \/ state' = "FAILED" /\ report' = NoReport
  BY <1>2 DEF Finished, row
<1>5. TypeOK'
  <2>1. /\ enabled' \in [Tool -> BOOLEAN] /\ outdated' \subseteq Assigned
        /\ pc' \in Trying \cup {"fail", "gone"} /\ blocked' \subseteq Tool
    BY <1>1, <1>2, AtTypes
  <2>2. report' \in [cites: SUBSET Ids', cut: BOOLEAN]
    <3>1. NoReport \in [cites: SUBSET Ids, cut: BOOLEAN]
      BY DEF NoReport
    <3>2. report \in [cites: SUBSET Ids, cut: BOOLEAN]
      BY <1>1 DEF TypeOK
    <3>3. [cites: SUBSET Ids', cut: BOOLEAN] = [cites: SUBSET Ids, cut: BOOLEAN]
      BY <1>3
    <3> QED BY <1>4, <3>1, <3>2, <3>3
  <2>3. state' \in {"RUNNING", "FAILED"} \cup Reported
    BY <1>1, <1>4 DEF TypeOK
  <2> QED BY <1>1, <1>2, <2>1, <2>2, <2>3 DEF TypeOK
<1>6. Ended'
  <2>1. CASE state' = state /\ report' = report
    BY <1>1, <1>2, <1>3, <2>1
    DEF Ended, EvidencedOutcome, ReportIsComplete, UncutReportsCite
  <2>2. CASE state' = "FAILED"
    BY <1>3, <2>2 DEF Ended, EvidencedOutcome, ReportIsComplete, UncutReportsCite, Reported
  <2> QED BY <1>4, <2>1, <2>2
<1>7. Counted' /\ Told' /\ Complete' /\ Budget' /\ Cleared'
  BY <1>1, <1>2, <1>3
  DEF Counted, Told, ToldIsRecorded, Complete, Budget, WithinBudget, Cleared, Trying, Handling
<1> QED BY <1>5, <1>6, <1>7 DEF RunInv

(* Every step, action by action.                                            *)
LEMMA RunNextInv == RunInv /\ [Next]_vars => RunInv'
<1> SUFFICES ASSUME RunInv, [Next]_vars PROVE RunInv'
  OBVIOUS
<1>1. CASE Start \/ Admit \/ Ask \/ NextCall
  BY <1>1, BetweenStep
<1>2. CASE Check
  BY <1>2, ProceedStep, SettledStep DEF Check, Handling
<1>3. CASE Prepare
  BY <1>3, ProceedStep, SettledStep DEF Prepare, Handling
<1>4. CASE Recheck
  BY <1>4, ProceedStep, SettledStep DEF Recheck, Handling
<1>5. CASE Send
  BY <1>5, SendStep
<1>6. CASE Reply
  BY <1>6, ProceedStep, SettledStep DEF Reply, Handling, Trying
<1>7. CASE Record \/ Tell \/ Report \/ Fail \/ WorkerFinishes \/ Toggle
  BY <1>7, RecordStep, TellStep, ReportStep, FailStep, ToggleStep
<1>8. CASE Raise
  BY <1>8, ProceedStep DEF Raise
<1>9. CASE Killed
  <2>1. pc \in Trying \cup {"fail"}
    BY <1>9 DEF Killed, RunInv, TypeOK
  <2> QED BY <1>9, <2>1, ProceedStep DEF Killed
<1>10. CASE UNCHANGED vars
  BY <1>10
  DEF vars, registry, counters, callVars, row, RunInv, TypeOK, Counted, Recorded, Arriving, Told,
      ToldIsRecorded, Complete, Budget, WithinBudget, Ended, EvidencedOutcome,
      ReportIsComplete, UncutReportsCite, Cleared, Ids
<1> QED BY <1>1, <1>2, <1>3, <1>4, <1>5, <1>6, <1>7, <1>8, <1>9, <1>10 DEF Next

(* The invariant holds initially.                                           *)
LEMMA RunInitInv == Init => RunInv
<1> SUFFICES ASSUME Init PROVE RunInv
  OBVIOUS
<1>1. /\ Len(evidence) = 0 /\ Len(told) = 0 /\ Len(evidenceIds) = 0
      /\ Ids = {} /\ evidence = <<>> /\ told = <<>> /\ evidenceIds = <<>>
  BY DEF Init, Ids
<1>2. MaxIterations \in Nat /\ MaxCalls \in Nat /\ MaxBatch \in Nat
  BY BudgetAssumption
<1>3. TypeOK
  BY <1>1, <1>2 DEF Init, TypeOK, Trying, NoReport
<1>4. Counted /\ Told /\ Complete
  BY <1>1 DEF Init, Counted, Recorded, Arriving, Told, ToldIsRecorded, Complete, Trying
<1>5. Budget /\ Ended /\ Cleared
  BY <1>1, <1>2
  DEF Init, Budget, WithinBudget, Handling, Ended, EvidencedOutcome, ReportIsComplete,
      UncutReportsCite, Cleared, Reported
<1> QED BY <1>3, <1>4, <1>5 DEF RunInv

-----------------------------------------------------------------------------
(* The inductive invariant holds in every reachable state.                  *)
THEOREM RunInvariant == Spec => []RunInv
BY RunInitInv, RunNextInv, PTL DEF Spec

(* Whatever the model answers and wherever the runner fails or is killed:   *)
(* the stored state is the one the stored evidence warrants, the model only *)
(* knows what is stored, a run with a report has stored all of its calls    *)
(* and cites them if the report fits, and no budget is exceeded.            *)
LEMMA RunSafety ==
    Spec => [](TypeOK /\ EvidencedOutcome /\ ToldIsRecorded /\ UncutReportsCite /\ WithinBudget)
<1>1. RunInv => TypeOK /\ EvidencedOutcome /\ ToldIsRecorded /\ UncutReportsCite /\ WithinBudget
  BY DEF RunInv, Told, Budget, Ended
<1> QED BY <1>1, RunInvariant, PTL

(* Counters, evidence and the stored row of execute() keep their types.     *)
THEOREM AgentRunTypes == Spec => []TypeOK
BY RunSafety, PTL

(* The stored state is the one the stored evidence warrants, wherever the   *)
(* runner failed.                                                           *)
THEOREM OutcomeIsEvidenced == Spec => []EvidencedOutcome
BY RunSafety, PTL

(* The model only knows what record_call has stored.                        *)
THEOREM NothingToldUnrecorded == Spec => []ToldIsRecorded
BY RunSafety, PTL

(* A report that fits cites every row stored for its run: the identifiers   *)
(* remembered are those of the stored rows whenever a report is made.       *)
THEOREM CitationsSurvive == Spec => []UncutReportsCite
BY RunSafety, PTL

(* No run sends more requests, or stores more rows of evidence, than its    *)
(* budget of calls, for every budget.                                       *)
THEOREM BudgetHolds == Spec => []WithinBudget
BY RunSafety, PTL

-----------------------------------------------------------------------------
(* Which row belongs to which request.                                      *)

(* The call at hand has not sent its request, or it has sent the last one,  *)
(* of which no row tells yet.                                               *)
Unrecorded ==
    /\ pc \in {"check", "prepare", "recheck"} => request = 0
    /\ pc = "record" => request = 0 \/ \A i \in Ids : evidence[i].request < request
    /\ pc = "reply" => \A i \in Ids : evidence[i].request < request

RowsInOrder ==
    /\ \A n \in 1..sent - 1 : \E i \in Ids : evidence[i].request = n
    /\ \A i, j \in Ids :
          i < j /\ evidence[j].request > 0 => evidence[i].request < evidence[j].request

RequestInv == RowsInOrder /\ Unrecorded

(* Steps that neither send nor record keep the order of rows and requests.  *)
LEMMA RowsStay ==
    ASSUME RowsInOrder, evidence' = evidence, sent' = sent
    PROVE  RowsInOrder' /\ Ids' = Ids
BY DEF RowsInOrder, Ids

(* A step from one statement to a later one of the same call.               *)
LEMMA UnrecordedStays ==
    ASSUME RequestInv, NEW here, NEW there, At(here, there), request' = request,
           evidence' = evidence, sent' = sent,
           \/ there \notin {"check", "prepare", "recheck", "record", "reply"}
           \/ /\ here \in {"check", "prepare", "recheck"}
              /\ there \in {"prepare", "recheck", "record"}
           \/ here = "reply" /\ there = "record"
    PROVE  RequestInv'
<1>1. pc = here /\ pc' = there
  BY DEF At
<1>2. RowsInOrder' /\ Ids' = Ids
  BY RowsStay DEF RequestInv
<1>3. Unrecorded'
  BY <1>1, <1>2 DEF RequestInv, Unrecorded
<1> QED BY <1>2, <1>3 DEF RequestInv

(* A request is sent only when all earlier ones have their rows.            *)
LEMMA RequestSent == ASSUME RunInv, RequestInv, Send PROVE RequestInv'
<1>1. /\ pc = "send" /\ pc' = "reply" /\ sent' = sent + 1 /\ request' = sent + 1
      /\ evidence' = evidence /\ Ids' = Ids
  BY DEF Send, At, Ids
<1>2. /\ sent \in Nat
      /\ \A i \in Ids : evidence[i].request \in 0..sent
  <2> DEFINE Row == [outcome: {"SUCCEEDED", "FAILED"}, request: 0..sent]
  <2>1. sent \in Nat /\ evidence \in Seq(Row)
    BY DEF RunInv, TypeOK
  <2>2. \A rec \in Row : rec.request \in 0..sent
    OBVIOUS
  <2> HIDE DEF Row
  <2>3. \A i \in Ids : evidence[i] \in Row
    BY <2>1 DEF Ids
  <2> QED BY <2>1, <2>2, <2>3
<1>3. \A n \in 1..sent : \E i \in Ids : evidence[i].request = n
  BY <1>1 DEF RunInv, Complete, Trying
<1>4. 1..sent' - 1 = 1..sent
  BY <1>1, <1>2
<1>5. RowsInOrder'
  BY <1>1, <1>3, <1>4 DEF RequestInv, RowsInOrder
<1>6. Unrecorded'
  BY <1>1, <1>2 DEF Unrecorded
<1> QED BY <1>5, <1>6 DEF RequestInv

(* The new row tells of no request, or of a later one than all others.      *)
LEMMA RequestRecorded == ASSUME RunInv, RequestInv, Record PROVE RequestInv'
<1> DEFINE new == [outcome |-> outcome, request |-> request]
           last == Len(evidence) + 1
<1>1. /\ pc = "record" /\ pc' = "tell" /\ evidence' = Append(evidence, new)
      /\ sent' = sent
  BY DEF Record, At
<1>2. /\ Len(evidence) \in Nat /\ request \in Nat
      /\ evidence \in Seq([outcome: {"SUCCEEDED", "FAILED"}, request: 0..sent])
      /\ new \in [outcome: {"SUCCEEDED", "FAILED"}, request: 0..sent]
  BY DEF RunInv, TypeOK
<1>3. /\ Ids' = Ids \cup {last} /\ Ids = 1..Len(evidence)
      /\ \A i \in Ids : evidence'[i] = evidence[i]
      /\ evidence'[last].request = request
  BY <1>1, <1>2 DEF Ids
<1>4. request = 0 \/ \A i \in Ids : evidence[i].request < request
  BY <1>1 DEF RequestInv, Unrecorded
<1>5. \A n \in 1..sent' - 1 : \E i \in Ids' : evidence'[i].request = n
  BY <1>1, <1>3 DEF RequestInv, RowsInOrder
<1>6. ASSUME NEW i \in Ids', NEW j \in Ids', i < j, evidence'[j].request > 0
      PROVE  evidence'[i].request < evidence'[j].request
  <2>1. i \in Ids
    BY <1>2, <1>3, <1>6
  <2>2. CASE j \in Ids
    BY <1>3, <1>6, <2>1, <2>2 DEF RequestInv, RowsInOrder
  <2>3. CASE j = last
    BY <1>3, <1>4, <1>6, <2>1, <2>3
  <2> QED BY <1>3, <2>2, <2>3
<1> QED BY <1>1, <1>5, <1>6 DEF RequestInv, RowsInOrder, Unrecorded

(* Rows and requests stay in order at every step.                           *)
LEMMA RequestNextInv == RunInv /\ RequestInv /\ [Next]_vars => RequestInv'
<1> SUFFICES ASSUME RunInv, RequestInv, [Next]_vars PROVE RequestInv'
  OBVIOUS
<1>1. CASE Start \/ Admit \/ Ask
  BY <1>1, UnrecordedStays DEF Start, Admit, Ask, callVars
<1>2. CASE NextCall
  <2>1. evidence' = evidence /\ sent' = sent
    BY <1>2 DEF NextCall
  <2>2. CASE request' = 0 /\ pc' \in {"fail", "check"}
    BY <2>1, <2>2, RowsStay DEF RequestInv, Unrecorded
  <2>3. CASE At("next", "ask") /\ request' = request
    BY <2>1, <2>3, UnrecordedStays
  <2> QED BY <1>2, <2>2, <2>3 DEF NextCall, At
<1>3. CASE Check \/ Prepare \/ Recheck \/ Reply
  BY <1>3, UnrecordedStays DEF Check, Prepare, Recheck, Reply, Proceed, Settled, callVars
<1>4. CASE Send
  BY <1>4, RequestSent
<1>5. CASE Record
  BY <1>5, RequestRecorded
<1>6. CASE Tell \/ Report \/ Fail \/ WorkerFinishes
  BY <1>6, UnrecordedStays DEF Tell, Report, Fail, WorkerFinishes, callVars
<1>7. CASE Raise \/ Killed
  BY <1>7, UnrecordedStays DEF Raise, Killed, Proceed, callVars
<1>8. CASE Toggle \/ UNCHANGED vars
  <2>1. pc' = pc /\ request' = request /\ evidence' = evidence /\ sent' = sent
    BY <1>8 DEF Toggle, vars, callVars
  <2> QED BY <2>1, RowsStay DEF RequestInv, Unrecorded
<1> QED BY <1>1, <1>2, <1>3, <1>4, <1>5, <1>6, <1>7, <1>8 DEF Next

(* For every budget and fault: only the last request of a run can be        *)
(* without its row, and rows come in the order of their requests.           *)
THEOREM LostIsLast == Spec => []OnlyTheLastIsLost
<1>1. Init => RequestInv
  BY DEF Init, RequestInv, RowsInOrder, Unrecorded, Ids
<1>2. RunInv /\ RequestInv => OnlyTheLastIsLost
  BY DEF RunInv, Ended, ReportIsComplete, RequestInv, RowsInOrder, OnlyTheLastIsLost
<1> QED BY <1>1, <1>2, RequestNextInv, RunInvariant, PTL DEF Spec

-----------------------------------------------------------------------------
(* A request is only sent for an assigned tool that was not blocked when    *)
(* the gateway looked last.                                                 *)
THEOREM RunDispatch == Spec => NoBlockedDispatch
<1>1. RunInv /\ [Next]_vars => [sent' # sent => tool \in Assigned \ blocked]_vars
  <2> SUFFICES ASSUME RunInv, Next, sent' # sent PROVE tool \in Assigned \ blocked
    OBVIOUS
  <2>1. ASSUME NEW here, NEW there, Proceed(here, there) PROVE FALSE
    BY <2>1 DEF Proceed
  <2>2. ASSUME NEW here, NEW result, Settled(here, result) PROVE FALSE
    BY <2>2 DEF Settled
  <2>3. ASSUME Start \/ Admit \/ Ask \/ NextCall \/ Record \/ Tell \/ Report \/ Fail
                 \/ WorkerFinishes \/ Toggle
        PROVE  FALSE
    BY <2>3 DEF Start, Admit, Ask, NextCall, Record, Tell, Report, Fail, WorkerFinishes, Toggle
  <2>4. ASSUME Check \/ Prepare \/ Recheck \/ Reply \/ Raise \/ Killed PROVE FALSE
    BY <2>1, <2>2, <2>4 DEF Check, Prepare, Recheck, Reply, Raise, Killed
  <2>5. Send
    BY <2>3, <2>4 DEF Next
  <2> QED BY <2>5 DEF Send, At, RunInv, Cleared
<1> QED BY <1>1, RunInvariant, PTL DEF Spec, NoBlockedDispatch

-----------------------------------------------------------------------------
(* The record of a run: what each step does to the stored outcomes.         *)
Outcomes == [i \in Ids |-> evidence[i].outcome]

(* A verdict is the one the stored calls warrant.                           *)
LEMMA VerdictWarranted ==
    ASSUME RunInv, pc = "report"
    PROVE  Stored!Warranted(Verdict)
<1>1. Recorded("SUCCEEDED") /\ (failures > 0 <=> Recorded("FAILED"))
  BY DEF RunInv, Counted, Arriving, Trying, Cleared
<1>2. \A result : Stored!Has(result) <=> Recorded(result)
  BY DEF Stored!Has, Recorded, Ids
<1> QED BY <1>1, <1>2 DEF Stored!Warranted, Verdict

(* A function over 1..n is a sequence.                                      *)
LEMMA FunctionIsSeq ==
    ASSUME NEW S, NEW n \in Nat, NEW f \in [1..n -> S]
    PROVE  f \in Seq(S) /\ Len(f) = n
OBVIOUS

(* Recording a call appends its outcome.                                    *)
LEMMA RecordAppends ==
    ASSUME RunInv, Record
    PROVE  Outcomes' = Append(Outcomes, outcome)
<1> DEFINE new == [outcome |-> outcome, request |-> request]
<1>1. evidence' = Append(evidence, new) /\ new.outcome = outcome
  BY DEF Record
<1>2. evidence \in Seq([outcome: {"SUCCEEDED", "FAILED"}, request: 0..sent])
      /\ outcome \in {"SUCCEEDED", "FAILED"} /\ new \in [outcome: {"SUCCEEDED", "FAILED"}, request: 0..sent]
  BY DEF RunInv, TypeOK
<1>3. /\ Len(evidence') = Len(evidence) + 1 /\ Len(evidence) \in Nat
      /\ \A i \in 1..Len(evidence) : evidence'[i] = evidence[i]
      /\ evidence'[Len(evidence) + 1] = new
      /\ \A i \in 1..Len(evidence) : evidence[i].outcome \in {"SUCCEEDED", "FAILED"}
  <2>1. \A i \in 1..Len(evidence) :
          evidence[i] \in [outcome: {"SUCCEEDED", "FAILED"}, request: 0..sent]
    BY <1>2, ElementOfSeq
  <2>2. \A i \in 1..Len(evidence) : evidence[i].outcome \in {"SUCCEEDED", "FAILED"}
    BY <2>1
  <2>3. new \in [outcome: {"SUCCEEDED", "FAILED"}, request: 0..sent]
    BY <1>2
  <2> HIDE DEF new
  <2>4. Len(evidence) \in Nat
    BY <1>2, LenProperties
  <2> QED BY <1>1, <1>2, <2>2, <2>3, <2>4, AppendProperties
<1>4. Outcomes \in Seq({"SUCCEEDED", "FAILED"}) /\ Len(Outcomes) = Len(evidence)
  <2>1. Outcomes \in [1..Len(evidence) -> {"SUCCEEDED", "FAILED"}]
    BY <1>3 DEF Outcomes, Ids
  <2> QED BY <1>3, <2>1, FunctionIsSeq
<1>5. Outcomes' \in Seq({"SUCCEEDED", "FAILED"}) /\ Len(Outcomes') = Len(evidence) + 1
  <2>1. Outcomes' \in [1..Len(evidence) + 1 -> {"SUCCEEDED", "FAILED"}]
    BY <1>1, <1>2, <1>3 DEF Outcomes, Ids
  <2> QED BY <1>3, <2>1, FunctionIsSeq
<1>6. /\ \A i \in 1..Len(evidence) : Outcomes'[i] = Outcomes[i]
      /\ Outcomes'[Len(evidence) + 1] = outcome
  BY <1>1, <1>3 DEF Outcomes, Ids
<1>7. /\ Append(Outcomes, outcome) \in Seq({"SUCCEEDED", "FAILED"})
      /\ Len(Append(Outcomes, outcome)) = Len(evidence) + 1
      /\ \A i \in 1..Len(evidence) : Append(Outcomes, outcome)[i] = Outcomes[i]
      /\ Append(Outcomes, outcome)[Len(evidence) + 1] = outcome
  BY <1>2, <1>4, AppendProperties
<1>8. \A i \in 1..Len(evidence) + 1 : Outcomes'[i] = Append(Outcomes, outcome)[i]
  BY <1>3, <1>6, <1>7
<1> QED BY <1>5, <1>7, <1>8, SeqEqual

(* Every step of the runner, its environment and the worker is a step of    *)
(* the record or leaves it alone.                                           *)
LEMMA RunStepsRecord ==
    ASSUME RunInv, [Next]_vars
    PROVE  [Stored!RecordNext]_(Stored!record)
<1> USE DEF Stored!RecordNext, Stored!record
<1>1. ASSUME UNCHANGED <<state, evidence>> PROVE UNCHANGED Stored!record
  BY <1>1 DEF Ids
<1>2. CASE Record
  <2>1. state = "RUNNING" /\ state' = state /\ outcome \in {"SUCCEEDED", "FAILED"}
    BY <1>2 DEF Record, At, row, RunInv, Ended, TypeOK
  <2> QED BY <1>2, <2>1, RecordAppends DEF Stored!CallRecorded, Outcomes
<1>3. ASSUME evidence' = evidence, state = "RUNNING", NEW verdict \in {"SUCCEEDED", "PARTIAL", "FAILED"},
             Stored!Warranted(verdict), state' = verdict
      PROVE  Stored!RunEnded
  BY <1>3 DEF Stored!RunEnded, Ids
<1>4. CASE Report
  <2>1. pc = "report" /\ evidence' = evidence
    BY <1>4 DEF Report, At
  <2>2. state = "RUNNING" /\ Verdict \in {"SUCCEEDED", "PARTIAL", "FAILED"}
    BY <2>1 DEF RunInv, Ended, Verdict
  <2>3. state' = Verdict
    BY <1>4, <2>2 DEF Report, Finished
  <2> QED BY <1>3, <2>1, <2>2, <2>3, VerdictWarranted
<1>5. CASE Fail \/ WorkerFinishes
  <2>1. evidence' = evidence /\ Finished("FAILED", NoReport)
    BY <1>5 DEF Fail, WorkerFinishes
  <2>2. Stored!Warranted("FAILED")
    BY DEF Stored!Warranted
  <2> QED BY <1>1, <1>3, <2>1, <2>2 DEF Finished, row
<1>6. ASSUME NEW here, NEW there, Proceed(here, there) PROVE UNCHANGED <<state, evidence>>
  BY <1>6 DEF Proceed, row
<1>7. ASSUME NEW here, NEW result, Settled(here, result) PROVE UNCHANGED <<state, evidence>>
  BY <1>7 DEF Settled, row
<1>8. CASE Check \/ Prepare \/ Recheck \/ Reply \/ Raise \/ Killed
  BY <1>1, <1>6, <1>7, <1>8 DEF Check, Prepare, Recheck, Reply, Raise, Killed
<1>9. CASE Start \/ Admit \/ Ask \/ NextCall \/ Send \/ Tell \/ Toggle
  BY <1>1, <1>9 DEF Start, Admit, Ask, NextCall, Send, Tell, Toggle, row
<1>10. CASE UNCHANGED vars
  BY <1>1, <1>10 DEF vars, row
<1> QED BY <1>2, <1>4, <1>5, <1>8, <1>9, <1>10 DEF Next

(* The statements of a runner, whatever fails between them, write the       *)
(* record a DBA may rely on: calls are added while the run is RUNNING, and  *)
(* it ends once, as they warrant.                                           *)
THEOREM RunRefinesRecord == Spec => RefinesRecord
<1>1. Init => Stored!RecordInit
  BY DEF Init, Stored!RecordInit, Ids
<1> QED BY <1>1, RunStepsRecord, RunInvariant, PTL DEF Spec, RefinesRecord, Stored!RecordSpec
=============================================================================
