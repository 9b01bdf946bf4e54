------------------------------ MODULE AgentRun -------------------------------
(****************************************************************************)
(* One runner process executing one run: execute() in app/mvp/runtime.py,   *)
(* the Gateway its tool calls go through (app/mvp/gateway.py) and the       *)
(* handler around both (worker/run_agent.py).  A DBA blocks and enables     *)
(* tools meanwhile, statements fail, and the worker may kill the runner.    *)
(*                                                                          *)
(* A step is one statement that talks to the database, the model or the     *)
(* target.  The model may answer anything; arguments and results are        *)
(* reduced to what became of them.  The evidence of a run is its rows of    *)
(* MVP_CALL, identified by their position.                                  *)
(****************************************************************************)
EXTENDS Integers, Sequences

CONSTANTS
    Tool,           \* operations of the catalog
    Assigned,       \* those the snapshot of the run binds
    MaxIterations,  \* model answers per run (8)
    MaxCalls,       \* tool calls per run (12)
    MaxBatch,       \* bound on the tool calls of one answer
    Faults          \* may statements fail and processes be killed?

ASSUME AssignedAssumption == Assigned \subseteq Tool
ASSUME BudgetAssumption ==
    MaxIterations \in Nat /\ MaxCalls \in Nat /\ MaxBatch \in Nat /\ Faults \in BOOLEAN

VARIABLES
    enabled,     \* AI_TOOL_VERSION.Enabled of each tool
    outdated,    \* assigned tools whose pinned contract was replaced
    pc,          \* the runner's next statement
    unchecked,   \* bindings Gateway() has not looked up yet
    iteration, calls, successes, failures,
    left,        \* calls of the model's last answer still to be handled
    tool,        \* the tool of the call being handled
    request,     \* the number of its HTTP request, 0 before it is sent
    outcome,     \* what became of it
    told,        \* outcomes of the tool results in `messages`
    evidenceIds, \* `evidence_ids`: the rows the runner knows it has stored
    evidence,    \* MVP_CALL: what was recorded for the run
    state,       \* MVP_RUN.State
    report,      \* MVP_RUN.Report: the evidence it cites, and was it cut off?
    sent,        \* history: how many HTTP requests were sent
    blocked      \* history: tools blocked when the runner made its last step

registry == <<enabled, outdated>>
counters == <<iteration, calls, successes, failures>>
callVars == <<tool, request, outcome>>
row == <<state, report>>
vars == <<registry, pc, unchecked, counters, left, callVars, told, evidenceIds, evidence, row, sent, blocked>>

Reported == {"SUCCEEDED", "PARTIAL"}
NoReport == [cites |-> {}, cut |-> FALSE]

Trying == {"start", "admit", "ask", "next", "check", "prepare", "recheck", "send",
           "reply", "record", "tell", "report"}

Init ==
    /\ enabled \in [Tool -> BOOLEAN]
    /\ outdated \in SUBSET Assigned
    /\ pc = "start"
    /\ unchecked = {}
    /\ iteration = 0 /\ calls = 0 /\ successes = 0 /\ failures = 0
    /\ left = 0
    /\ tool \in Tool /\ request = 0 /\ outcome = "FAILED"
    /\ told = <<>>
    /\ evidenceIds = <<>>
    /\ evidence = <<>>
    /\ state = "RUNNING"
    /\ report = NoReport
    /\ sent = 0
    /\ blocked = {}

At(here, there) ==
    /\ pc = here
    /\ pc' = there
    /\ blocked' = {t \in Tool : ~enabled[t]}
    /\ UNCHANGED registry

-----------------------------------------------------------------------------
(* Before the loop: the run is read and the gateway looks up its bindings.  *)

Start ==
    /\ At("start", "admit")
    /\ unchecked' = Assigned
    /\ UNCHANGED <<counters, left, callVars, told, evidenceIds, evidence, row, sent>>

Admissible(t) == t \notin outdated /\ enabled[t]

Admit ==
    \/ \E t \in unchecked :
          /\ Admissible(t)
          /\ At("admit", "admit")
          /\ unchecked' = unchecked \ {t}
          /\ UNCHANGED <<counters, left, callVars, told, evidenceIds, evidence, row, sent>>
    \/ /\ At("admit", IF unchecked = {} THEN "ask" ELSE "fail")
       /\ unchecked # {} => \E t \in unchecked : ~Admissible(t)
       /\ UNCHANGED <<unchecked, counters, left, callVars, told, evidenceIds, evidence, row, sent>>

-----------------------------------------------------------------------------
(* The model answers with tool calls or with a report, within a budget.     *)

(* Mutant: one answer too many.                                             *)
AskOnceMore ==
    /\ \/ /\ iteration <= MaxIterations
          /\ iteration' = iteration + 1
          /\ \/ left' \in 1..MaxBatch /\ At("ask", "next")
             \/ left' = 0 /\ successes > 0 /\ At("ask", "report")
             \/ left' = 0 /\ At("ask", "fail")
       \/ iteration > MaxIterations /\ At("ask", "fail") /\ UNCHANGED <<iteration, left>>
    /\ UNCHANGED <<unchecked, calls, successes, failures, callVars, told, evidenceIds, evidence, row, sent>>

(* Mutant: any call, successful or not, makes a report acceptable.          *)
AskForAnyCall ==
    /\ \/ /\ iteration < MaxIterations
          /\ iteration' = iteration + 1
          /\ \/ left' \in 1..MaxBatch /\ At("ask", "next")
             \/ left' = 0 /\ calls > 0 /\ At("ask", "report")
             \/ left' = 0 /\ At("ask", "fail")
       \/ iteration = MaxIterations /\ At("ask", "fail") /\ UNCHANGED <<iteration, left>>
    /\ UNCHANGED <<unchecked, calls, successes, failures, callVars, told, evidenceIds, evidence, row, sent>>

(* A report is refused if it is empty, and before the first success.        *)
Ask ==
    /\ \/ /\ iteration < MaxIterations
          /\ iteration' = iteration + 1
          /\ \/ left' \in 1..MaxBatch /\ At("ask", "next")
             \/ left' = 0 /\ successes > 0 /\ At("ask", "report")
             \/ left' = 0 /\ At("ask", "fail")
       \/ iteration = MaxIterations /\ At("ask", "fail") /\ UNCHANGED <<iteration, left>>
    /\ UNCHANGED <<unchecked, calls, successes, failures, callVars, told, evidenceIds, evidence, row, sent>>

(* Mutant: the budget is one call too large.                                *)
OverBudgetLate(n) == n > MaxCalls + 1

OverBudget(n) == n > MaxCalls

NextCall ==
    /\ \/ /\ left = 0
          /\ At("next", "ask")
          /\ UNCHANGED <<calls, left, tool, request>>
       \/ /\ left > 0
          /\ calls' = calls + 1
          /\ left' = left - 1
          /\ tool' \in Tool
          /\ request' = 0
          /\ At("next", IF OverBudget(calls') THEN "fail" ELSE "check")
    /\ UNCHANGED <<unchecked, iteration, successes, failures, outcome, told, evidenceIds, evidence, row, sent>>

-----------------------------------------------------------------------------
(* Gateway.execute.  A ToolError or ValueError is an outcome to record.     *)

(* Mutant: failed calls leave no evidence.                                  *)
SettledQuietly(here, result) ==
    /\ At(here, IF result = "SUCCEEDED" THEN "record" ELSE "next")
    /\ outcome' = result
    /\ IF result = "SUCCEEDED" THEN successes' = successes + 1 /\ UNCHANGED failures
       ELSE failures' = failures + 1 /\ UNCHANGED successes
    /\ UNCHANGED <<unchecked, iteration, calls, left, tool, request, told, evidenceIds, evidence, row, sent>>

Settled(here, result) ==
    /\ At(here, "record")
    /\ outcome' = result
    /\ IF result = "SUCCEEDED" THEN successes' = successes + 1 /\ UNCHANGED failures
       ELSE failures' = failures + 1 /\ UNCHANGED successes
    /\ UNCHANGED <<unchecked, iteration, calls, left, tool, request, told, evidenceIds, evidence, row, sent>>

Proceed(here, there) ==
    /\ At(here, there)
    /\ UNCHANGED <<unchecked, counters, left, callVars, told, evidenceIds, evidence, row, sent>>

Check ==
    \/ tool \in Assigned /\ enabled[tool] /\ Proceed("check", "prepare")
    \/ ~(tool \in Assigned /\ enabled[tool]) /\ Settled("check", "FAILED")

(* Parameters, target and credentials are good, or the call is refused.     *)
Prepare == Proceed("prepare", "recheck") \/ Settled("prepare", "FAILED")

(* Mutant: the first look at the registry has to do.                        *)
RecheckNothing == Proceed("recheck", "send")

Recheck ==
    \/ enabled[tool] /\ Proceed("recheck", "send")
    \/ ~enabled[tool] /\ Settled("recheck", "FAILED")

Send ==
    /\ At("send", "reply")
    /\ sent' = sent + 1
    /\ request' = sent + 1
    /\ UNCHANGED <<unchecked, counters, left, tool, outcome, told, evidenceIds, evidence, row>>

(* The last disjunct: a JSON object whose `status` is not an object has no  *)
(* .get, and AttributeError is not caught around the call.                  *)
Reply ==
    \/ \E result \in {"SUCCEEDED", "FAILED"} : Settled("reply", result)
    \/ Proceed("reply", "fail")

-----------------------------------------------------------------------------
(* The call is recorded, then the model is told.                            *)

(* Mutant: the result is shown even if it could not be stored.              *)
RecordOrNot ==
    /\ At("record", "tell")
    /\ evidence' \in {evidence, Append(evidence, [outcome |-> outcome, request |-> request])}
    /\ UNCHANGED <<unchecked, counters, left, callVars, told, evidenceIds, row, sent>>

Record ==
    /\ At("record", "tell")
    /\ evidence' = Append(evidence, [outcome |-> outcome, request |-> request])
    /\ UNCHANGED <<unchecked, counters, left, callVars, told, evidenceIds, row, sent>>

(* Mutant: only the rows of successful calls are remembered.                *)
TellRememberingSuccess ==
    /\ At("tell", "next")
    /\ told' = Append(told, outcome)
    /\ evidenceIds' = IF outcome = "SUCCEEDED" THEN Append(evidenceIds, Len(evidence))
                      ELSE evidenceIds
    /\ UNCHANGED <<unchecked, counters, left, callVars, evidence, row, sent>>

(* record_call has returned the identifier of the row it has just stored.   *)
Tell ==
    /\ At("tell", "next")
    /\ told' = Append(told, outcome)
    /\ evidenceIds' = Append(evidenceIds, Len(evidence))
    /\ UNCHANGED <<unchecked, counters, left, callVars, evidence, row, sent>>

-----------------------------------------------------------------------------
(* The end of a run.  finish() has no effect on a run that has ended.       *)

Ids == 1..Len(evidence)

Finished(result, text) ==
    IF state = "RUNNING" THEN state' = result /\ report' = text ELSE UNCHANGED row

Remembered == {evidenceIds[i] : i \in 1..Len(evidenceIds)}

(* report_with_evidence_ids: the remembered identifiers that the model's    *)
(* text does not contain are appended to it.                                *)
Citing(cites) ==
    LET missing == {id \in Remembered : id \notin cites} IN cites \cup missing

(* Mutant: the verdict looks at the last answer's calls only.               *)
VerdictLast == IF failures > 0 /\ outcome = "FAILED" THEN "PARTIAL" ELSE "SUCCEEDED"

Verdict == IF failures > 0 THEN "PARTIAL" ELSE "SUCCEEDED"

(* The model's text can only cite what the model was told of.  finish()     *)
(* keeps 30000 characters: what is cited beyond them is lost.               *)
Report ==
    /\ At("report", "gone")
    /\ \E own \in SUBSET Remembered, cut \in BOOLEAN :
          \E kept \in IF cut THEN SUBSET Citing(own) ELSE {Citing(own)} :
             Finished(Verdict, [cites |-> kept, cut |-> cut])
    /\ UNCHANGED <<unchecked, counters, left, callVars, told, evidenceIds, evidence, sent>>

(* The handler in run_agent.py.                                             *)
Fail ==
    /\ At("fail", "gone")
    /\ Finished("FAILED", NoReport)
    /\ UNCHANGED <<unchecked, counters, left, callVars, told, evidenceIds, evidence, sent>>

(* Any other exception: the database, the provider, a missing credential.   *)
(* In the handler itself it ends the process.                               *)
Raise ==
    /\ Faults
    /\ \/ pc \in Trying /\ Proceed(pc, "fail")
       \/ Proceed("fail", "gone")

(* The worker or the supervisor kills the runner.                           *)
Killed == Faults /\ pc # "gone" /\ Proceed(pc, "gone")

(* The worker, or its successor, fails a run whose runner has exited.       *)
WorkerFinishes ==
    /\ state = "RUNNING"
    /\ At("gone", "gone")
    /\ Finished("FAILED", NoReport)
    /\ UNCHANGED <<unchecked, counters, left, callVars, told, evidenceIds, evidence, sent>>

(* A DBA blocks or enables a tool.                                          *)
Toggle ==
    /\ \E t \in Tool : enabled' = [enabled EXCEPT ![t] = ~@]
    /\ UNCHANGED <<outdated, pc, unchecked, counters, left, callVars, told, evidenceIds, evidence, row, sent,
                   blocked>>

Next ==
    \/ Start \/ Admit \/ Ask \/ NextCall
    \/ Check \/ Prepare \/ Recheck \/ Send \/ Reply
    \/ Record \/ Tell \/ Report \/ Fail
    \/ Raise \/ Killed \/ WorkerFinishes
    \/ Toggle

Spec == Init /\ [][Next]_vars

-----------------------------------------------------------------------------
(* Properties.                                                              *)

TypeOK ==
    /\ enabled \in [Tool -> BOOLEAN] /\ outdated \subseteq Assigned
    /\ pc \in Trying \cup {"fail", "gone"}
    /\ unchecked \subseteq Assigned /\ left \in 0..MaxBatch
    /\ iteration \in 0..MaxIterations /\ calls \in 0..MaxCalls + 1
    /\ successes \in Nat /\ failures \in Nat
    /\ tool \in Tool /\ request \in 0..sent /\ outcome \in {"SUCCEEDED", "FAILED"}
    /\ told \in Seq({"SUCCEEDED", "FAILED"})
    /\ evidenceIds \in Seq(Nat)
    /\ evidence \in Seq([outcome: {"SUCCEEDED", "FAILED"}, request: 0..sent])
    /\ state \in {"RUNNING", "FAILED"} \cup Reported
    /\ report \in [cites: SUBSET Ids, cut: BOOLEAN]
    /\ sent \in Nat /\ blocked \subseteq Tool

(* README: "A run cannot be marked successful without at least one          *)
(* successful tool call", and it is PARTIAL exactly if one failed: the      *)
(* stored state agrees with the stored evidence, not only with counters.    *)
EvidencedOutcome ==
    /\ state \in Reported => \E i \in Ids : evidence[i].outcome = "SUCCEEDED"
    /\ state \in Reported =>
          (state = "PARTIAL" <=> \E i \in Ids : evidence[i].outcome = "FAILED")

(* A run is never more than what a DBA reads of it: its calls are stored    *)
(* while it is RUNNING, and it ends once, as its stored calls warrant.      *)
Stored == INSTANCE RunRecord WITH calls <- [i \in Ids |-> evidence[i].outcome]
RefinesRecord == Stored!RecordSpec

(* The runtime stores a call in MVP_CALL before returning its result to the *)
(* model: whatever fails in between, what the model knows is a prefix of    *)
(* what a DBA can inspect.                                                  *)
ToldIsRecorded ==
    /\ Len(told) <= Len(evidence)
    /\ \A i \in 1..Len(told) : told[i] = evidence[i].outcome

(* Whatever fails, and however often calls are refused before or after they *)
(* are sent: no request is sent while an earlier one has no row, so that a  *)
(* run lacks evidence of its last request at most; and the rows of requests *)
(* come in the order in which they were sent, one row for each.  A run that *)
(* ended with a report lacks none.                                          *)
OnlyTheLastIsLost ==
    /\ \A n \in 1..sent - 1 : \E i \in Ids : evidence[i].request = n
    /\ state \in Reported => \A n \in 1..sent : \E i \in Ids : evidence[i].request = n
    /\ \A i, j \in Ids :
          i < j /\ evidence[j].request > 0 => evidence[i].request < evidence[j].request

(* No run sends or records more calls than its budget, however the model    *)
(* spreads them over its answers ("Tool-call limit: 12 per run").           *)
WithinBudget == sent <= MaxCalls /\ Len(evidence) <= MaxCalls

(* Unless it had to be cut, a stored report cites every row stored for its  *)
(* run: over refused, failed and successful calls in any order, the list    *)
(* the runner keeps in memory misses none of them when it reports.          *)
UncutReportsCite == state \in Reported /\ ~report.cut => report.cites = Ids

(* README: "availability rechecks immediately before dispatch".  A request  *)
(* is only sent for a tool that is assigned and was not yet blocked at the  *)
(* last step of the runner.                                                 *)
NoBlockedDispatch ==
    [][sent' # sent => tool \in Assigned \ blocked]_vars

(* README: "Every call is [...] stored with its arguments, outcome, and     *)
(* returned evidence": a runner that has exited has recorded its requests.  *)
EveryRequestRecorded ==
    pc = "gone" => \A n \in 1..sent : \E i \in Ids : evidence[i].request = n

(* README: "The runtime guarantees that recorded evidence IDs are included" *)
(* in the report.                                                           *)
ReportsCite == state \in Reported => report.cites = Ids
=============================================================================
