------------------------------ MODULE RunRecord -------------------------------
(****************************************************************************)
(* What a DBA may rely on when reading a run (MVP_RUN and its MVP_CALL      *)
(* rows): calls are added while the run is RUNNING and never change, the    *)
(* run ends once, and as what its calls say.  AgentRun shows statement by   *)
(* statement how a runner writes the record, and implements this            *)
(* specification.                                                           *)
(****************************************************************************)
EXTENDS Sequences

VARIABLES
    state,  \* MVP_RUN.State
    calls   \* the Outcome of each MVP_CALL row of the run

record == <<state, calls>>

RecordInit == state = "RUNNING" /\ calls = <<>>

CallRecorded ==
    /\ state = "RUNNING"
    /\ \E outcome \in {"SUCCEEDED", "FAILED"} : calls' = Append(calls, outcome)
    /\ UNCHANGED state

Has(outcome) == \E i \in DOMAIN calls : calls[i] = outcome

(* A run with a report has a successful call, and is PARTIAL if one failed. *)
(* Any run may fail.                                                        *)
Warranted(verdict) ==
    \/ verdict = "SUCCEEDED" /\ Has("SUCCEEDED") /\ ~Has("FAILED")
    \/ verdict = "PARTIAL" /\ Has("SUCCEEDED") /\ Has("FAILED")
    \/ verdict = "FAILED"

RunEnded ==
    /\ state = "RUNNING"
    /\ \E verdict \in {"SUCCEEDED", "PARTIAL", "FAILED"} :
          Warranted(verdict) /\ state' = verdict
    /\ UNCHANGED calls

RecordNext == CallRecorded \/ RunEnded

RecordSpec == RecordInit /\ [][RecordNext]_record
=============================================================================
