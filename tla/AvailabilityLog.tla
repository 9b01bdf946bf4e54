--------------------------- MODULE AvailabilityLog ---------------------------
(****************************************************************************)
(* What the tool registry promises: decisions about the availability of     *)
(* tools (AI_TOOL_VERSION.Enabled), each one atomic step that changes the   *)
(* registry and appends to the audit history (AI_TOOL_POLICY_OVERRIDE).     *)
(* ToolRegistry models the same decisions statement by statement and        *)
(* implements this specification.                                           *)
(****************************************************************************)
EXTENDS Integers, Sequences

CONSTANTS
    Last,         \* tools are numbered 1..Last in the order of the catalog
    Reviewed,     \* tools the deployment enables by default
    MaxDecisions  \* bound on the audit entries of one tool

Tool == 1..Last

ASSUME CatalogAssumption == Last \in Nat /\ Reviewed \subseteq Tool /\ MaxDecisions \in Nat

VARIABLES
    enabled,   \* AI_TOOL_VERSION.Enabled
    audit,     \* AI_TOOL_POLICY_OVERRIDE: the decisions on each tool
    seeded     \* is the default marker in AI_SCHEMA_MIGRATION?

registry == <<enabled, audit, seeded>>

LogInit ==
    /\ enabled = [t \in Tool |-> FALSE]
    /\ audit = [t \in Tool |-> <<>>]
    /\ seeded = FALSE

(* value is stored, and logged, for the tools of S.                         *)
Logged(S, value) ==
    /\ enabled' = [t \in Tool |-> IF t \in S THEN value ELSE enabled[t]]
    /\ audit' = [t \in Tool |-> IF t \in S THEN Append(audit[t], value) ELSE audit[t]]

(* A toggle decides about one tool, a preset about a list: a tool that is   *)
(* already as decided is left alone, without an audit entry.                *)
Decided(S, value) ==
    /\ Logged({t \in S : enabled[t] # value}, value)
    /\ UNCHANGED seeded

(* The default is applied, and logged, once in the life of a data volume.   *)
DefaultApplied ==
    /\ ~seeded
    /\ Logged(Reviewed, TRUE)
    /\ seeded' = TRUE

(* What a request may ask to decide.                                        *)
Lists == {{t} : t \in Tool}
Presets == {<<Reviewed, TRUE>>, <<Tool, FALSE>>}

LogNext ==
    \/ \E S \in Lists, value \in BOOLEAN : Decided(S, value)
    \/ \E preset \in Presets : Decided(preset[1], preset[2])
    \/ DefaultApplied

LogSpec == LogInit /\ [][LogNext]_registry

-----------------------------------------------------------------------------
RegistryOK ==
    /\ enabled \in [Tool -> BOOLEAN]
    /\ audit \in [Tool -> Seq(BOOLEAN)]
    /\ seeded \in BOOLEAN

(* The registry is what its audit history says: a tool is available exactly *)
(* if the last decision logged for it made it so ("Each change persists     *)
(* actor and decision in AI_TOOL_POLICY_OVERRIDE").                         *)
AuditAgrees ==
    \A t \in Tool :
        enabled[t] <=> Len(audit[t]) > 0 /\ audit[t][Len(audit[t])]
=============================================================================
