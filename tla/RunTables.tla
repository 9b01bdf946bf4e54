------------------------------ MODULE RunTables ------------------------------
(****************************************************************************)
(* Vocabulary of the two SQL tables every part of the system meets at:      *)
(* Agentic.MVP_AGENT (one row per configured agent) and Agentic.MVP_RUN     *)
(* (one row per run).  A row is a record; a row that does not exist has     *)
(* revision 0 (agents) or state "ABSENT" (runs).  Names, prompts, tools,    *)
(* reports and error codes are data no property here tells apart.           *)
(****************************************************************************)
EXTENDS Integers

CONSTANTS
    Agent,        \* agent identifiers (uuid4)
    Run,          \* run identifiers (uuid4): bounds how many runs are queued
    None,         \* SQL NULL, and "no row written" in a transaction
    Outcome,      \* states finish() may store
    Interval,     \* schedule intervals a configuration may carry; 0 = manual
    MaxClock      \* bound on the wall clock

ASSUME OutcomeAssumption ==
    "FAILED" \in Outcome /\ Outcome \subseteq {"SUCCEEDED", "PARTIAL", "FAILED"}
ASSUME IntervalAssumption == Interval \subseteq Nat
ASSUME BoundAssumption == MaxClock \in Nat

(* States of MVP_RUN.State.                                                 *)
Pending  == {"QUEUED", "RUNNING"}
Terminal == Outcome \cup {"CANCELLED"}

(* base is a history field, which nothing reads: the revision the author of *)
(* the stored configuration submitted it for (0: the agent was new).        *)
AgentRow ==
    [rev: Nat, base: Nat, enabled: BOOLEAN, interval: Nat, due: Nat,
     active: Run \cup {None}]

RunRow ==
    [state: Pending \cup Terminal \cup {"ABSENT"}, agent: Agent \cup {None},
     trigger: {"MANUAL", "SCHEDULE"}, created: Nat, rev: Nat, interval: Nat]

ASSUME NoneAssumption ==
    None \notin Agent \cup Run /\ None \notin AgentRow /\ None \notin RunRow

NoAgentRow ==
    [rev |-> 0, base |-> 0, enabled |-> FALSE, interval |-> 0, due |-> 0, active |-> None]

NoRunRow ==
    [state |-> "ABSENT", agent |-> None, trigger |-> "MANUAL",
     created |-> 0, rev |-> 0, interval |-> 0]

-----------------------------------------------------------------------------
(* The row-level effect of each statement of AgentRepository.               *)

Inserted(enabled, interval, t) ==
    [rev |-> 1, base |-> 0, enabled |-> enabled, interval |-> interval,
     due |-> t + interval, active |-> None]

Saved(row, base, enabled, interval, t) ==
    [rev |-> row.rev + 1, base |-> base, enabled |-> enabled, interval |-> interval,
     due |-> t + interval, active |-> row.active]

(* Mutant: the next due moment is stored as the creation time.              *)
SnapshotDue(a, row, trigger, t) ==
    [state |-> "QUEUED", agent |-> a, trigger |-> trigger,
     created |-> row.due, rev |-> row.rev, interval |-> row.interval]

Snapshot(a, row, trigger, t) ==
    [state |-> "QUEUED", agent |-> a, trigger |-> trigger,
     created |-> t, rev |-> row.rev, interval |-> row.interval]

Occupied(row, r, t) ==
    [rev |-> row.rev, base |-> row.base, enabled |-> row.enabled, interval |-> row.interval,
     due |-> t + row.interval, active |-> r]

Released(row, r) == IF row.active = r THEN [row EXCEPT !.active = None] ELSE row

(* WHERE Enabled=1 AND IntervalSeconds>0 AND NextDue<=now: the condition of *)
(* the scheduler's list; enqueue repeats the last two under the lock.       *)
DueAt(row, t) == row.interval > 0 /\ row.due <= t
=============================================================================
