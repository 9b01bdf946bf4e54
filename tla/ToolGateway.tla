----------------------------- MODULE ToolGateway ------------------------------
(****************************************************************************)
(* Gateway.execute (app/mvp/gateway.py) beside the requests of ToolRegistry *)
(* that decide about tools: what AgentRun shows as one committed registry   *)
(* is read here as the database gives it.  The default of the deployment is *)
(* not among them: setup() has ended before startup.sh starts the           *)
(* supervisor, and so before there is a gateway.                            *)
(*                                                                          *)
(* _enabled_in_registry is a SELECT without a lock at the default isolation *)
(* level: it sees the rows other sessions have written and not committed.   *)
(****************************************************************************)
EXTENDS ToolRegistry

CONSTANT NoTool

VARIABLES
    at,       \* the next statement of execute()
    tool,     \* the operation it was called with
    decided   \* history: has the registry allowed it since execute() began?

gatewayVars == <<at, tool, decided>>

(* What the first setup() leaves: the reviewed operations are enabled.      *)
Installed ==
    /\ enabled = [t \in Tool |-> t \in Reviewed]
    /\ audit = [t \in Tool |-> IF t \in Reviewed THEN <<TRUE>> ELSE <<>>]
    /\ seeded = TRUE

GatewayInit ==
    /\ Installed
    /\ NoSessions
    /\ at = "idle" /\ tool = NoTool /\ decided = FALSE

(* The row of a tool, with the change of the session that holds it.         *)
EnabledSeen(t) ==
    IF \E s \in Session : t \in changed[s]
    THEN \E s \in Session : t \in changed[s] /\ call[s].value
    ELSE enabled[t]

Idle == at' = "idle" /\ tool' = NoTool /\ decided' = FALSE

(* The first lookup, then parameters, target and credentials are prepared.  *)
Check(t) ==
    /\ at = "idle"
    /\ EnabledSeen(t)
    /\ at' = "recheck" /\ tool' = t /\ decided' = enabled[t]
    /\ UNCHANGED vars

(* The second lookup: TOOL_BLOCKED ends the call.                           *)
Recheck ==
    /\ at = "recheck"
    /\ IF EnabledSeen(tool) THEN at' = "send" /\ UNCHANGED <<tool, decided>> ELSE Idle
    /\ UNCHANGED vars

Send ==
    /\ at = "send"
    /\ Idle
    /\ UNCHANGED vars

Gateway == (\E t \in Tool : Check(t)) \/ Recheck \/ Send

(* What the decisions of DBAs mean to the call.                             *)
Noted ==
    /\ decided' = (decided \/ (tool # NoTool /\ enabled'[tool]))
    /\ UNCHANGED <<at, tool>>

Decisions ==
    /\ \E s \in Session : Toggle(s) \/ Preset(s) \/ Statement(s) \/ Rollback(s)
    /\ Noted

GatewayNext == Gateway \/ Decisions

GatewaySpec == GatewayInit /\ [][GatewayNext]_<<vars, gatewayVars>>

(* The same, as long as every decision that is begun is carried out.        *)
Carried(s) ==
    \/ Toggle(s) \/ Preset(s) \/ Commit(s)
    \/ \E t \in Tool : Hold(s, t) \/ Write(s, t) \/ Log(s, t)

CarriedNext == Gateway \/ ((\E s \in Session : Carried(s)) /\ Noted)

CarriedSpec == GatewayInit /\ [][CarriedNext]_<<vars, gatewayVars>>

-----------------------------------------------------------------------------
(* README: "Agents can call only operations that a DBA has enabled and      *)
(* explicitly assigned to them": an operation about to be dispatched was    *)
(* enabled at some moment of its call, or at least is being enabled by a    *)
(* session that has not committed yet.  It need not be, if that session     *)
(* rolls back; that it is as long as every decision that is begun is        *)
(* carried out, is what remains of the promise (CarriedSpec).               *)
Enabling(t) == \E s \in Session : t \in changed[s] /\ call[s].value

OnlyAwaitedCalls == at = "send" => decided \/ Enabling(tool)
=============================================================================
