---------------------------- MODULE ToolRegistry -----------------------------
(****************************************************************************)
(* Decisions about tools as concurrent sessions: set_tool_availability and  *)
(* apply_tool_availability_preset (app/repositories/iris_repository.py) and *)
(* _seed_reviewed_read_defaults (app/install.py).  The database is used as  *)
(* in RunQueue: an UPDATE locks the row until the transaction ends, a       *)
(* SELECT takes no lock.  All three run through their tools in the order of *)
(* the catalog.                                                             *)
(****************************************************************************)
EXTENDS AvailabilityLog

CONSTANTS Session, Nobody

ASSUME SessionAssumption == Nobody \notin Session

VARIABLES
    lock,      \* the session holding the row lock of each tool
    pc,        \* the next statement of each session
    call,      \* what it was asked to decide, and about which tools
    todo,      \* tools its loop has not reached
    changed,   \* tools whose row it has updated
    logged     \* tools it has inserted an audit entry for

sessions == <<lock, pc, call, todo, changed, logged>>
vars == <<registry, sessions>>

Call == [op: {"none", "decide", "seed"}, tools: SUBSET Tool, value: BOOLEAN]
NoCall == [op |-> "none", tools |-> {}, value |-> FALSE]

NoSessions ==
    /\ lock = [t \in Tool |-> Nobody]
    /\ pc = [s \in Session |-> "idle"]
    /\ call = [s \in Session |-> NoCall]
    /\ todo = [s \in Session |-> {}]
    /\ changed = [s \in Session |-> {}]
    /\ logged = [s \in Session |-> {}]

Init == LogInit /\ NoSessions

Goto(s, there) == pc' = [pc EXCEPT ![s] = there]

(* Mutant: the loop takes its tools in any order.                           *)
AtAny(s, t) == t \in todo[s]

(* The tool at the head of the loop.                                        *)
At(s, t) == t \in todo[s] /\ \A other \in todo[s] : t <= other

(* What remains when the loop is through with t.                            *)
Through(s, t) ==
    /\ todo' = [todo EXCEPT ![s] = @ \ {t}]
    /\ Goto(s, IF todo[s] = {t} THEN "commit" ELSE "lock")

(* Mutant: the loop runs through the whole catalog.                         *)
BeginAll(s, op, tools, value) ==
    /\ pc[s] = "idle"
    /\ call' = [call EXCEPT ![s] = [op |-> op, tools |-> tools, value |-> value]]
    /\ todo' = [todo EXCEPT ![s] = Tool]
    /\ Goto(s, "lock")
    /\ UNCHANGED <<registry, lock, changed, logged>>

Begin(s, op, tools, value) ==
    /\ pc[s] = "idle"
    /\ call' = [call EXCEPT ![s] = [op |-> op, tools |-> tools, value |-> value]]
    /\ todo' = [todo EXCEPT ![s] = tools]
    /\ Goto(s, IF tools = {} THEN "commit" ELSE "lock")
    /\ UNCHANGED <<registry, lock, changed, logged>>

Toggle(s) ==
    \E S \in Lists, value \in BOOLEAN : Begin(s, "decide", S, value)

Preset(s) ==
    \E preset \in Presets : Begin(s, "decide", preset[1], preset[2])

(* One installer runs at a time, at each start of the container.            *)
Seed(s) ==
    /\ ~seeded
    /\ \A other \in Session : call[other].op # "seed"
    /\ Begin(s, "seed", Reviewed, TRUE)

-----------------------------------------------------------------------------
TakeLock(s, t) ==
    /\ lock[t] \in {Nobody, s}
    /\ lock' = [lock EXCEPT ![t] = s]

(* Mutant: the row is read before it is locked; another session may change  *)
(* it meanwhile.                                                            *)
ReadUnlocked(s, t) ==
    /\ pc[s] = "lock" /\ call[s].op = "decide"
    /\ At(s, t)
    /\ IF enabled[t] = call[s].value THEN Through(s, t)
       ELSE Goto(s, "write") /\ UNCHANGED todo
    /\ UNCHANGED <<registry, lock, call, changed, logged>>

(* UPDATE ... SET Enabled=Enabled, then the row is read under its lock.     *)
Hold(s, t) ==
    /\ pc[s] = "lock" /\ call[s].op = "decide"
    /\ At(s, t)
    /\ TakeLock(s, t)
    /\ IF enabled[t] = call[s].value THEN Through(s, t)
       ELSE Goto(s, "write") /\ UNCHANGED todo
    /\ UNCHANGED <<registry, call, changed, logged>>

Write(s, t) ==
    /\ \/ pc[s] = "write"
       \/ pc[s] = "lock" /\ call[s].op = "seed"
    /\ At(s, t)
    /\ TakeLock(s, t)
    /\ changed' = [changed EXCEPT ![s] = @ \cup {t}]
    /\ Goto(s, "log")
    /\ UNCHANGED <<registry, call, todo, logged>>

Log(s, t) ==
    /\ pc[s] = "log"
    /\ At(s, t)
    /\ Len(audit[t]) < MaxDecisions
    /\ logged' = [logged EXCEPT ![s] = @ \cup {t}]
    /\ Through(s, t)
    /\ UNCHANGED <<registry, lock, call, changed>>

End(s) ==
    /\ lock' = [t \in Tool |-> IF lock[t] = s THEN Nobody ELSE lock[t]]
    /\ Goto(s, "idle")
    /\ call' = [call EXCEPT ![s] = NoCall]
    /\ todo' = [todo EXCEPT ![s] = {}]
    /\ changed' = [changed EXCEPT ![s] = {}]
    /\ logged' = [logged EXCEPT ![s] = {}]

(* The default's marker is inserted before its COMMIT.                      *)
Commit(s) ==
    /\ pc[s] = "commit"
    /\ enabled' = [t \in Tool |-> IF t \in changed[s] THEN call[s].value ELSE enabled[t]]
    /\ audit' = [t \in Tool |-> IF t \in logged[s] THEN Append(audit[t], call[s].value)
                                ELSE audit[t]]
    /\ seeded' = (seeded \/ call[s].op = "seed")
    /\ End(s)

(* ROLLBACK, after an exception or by the server for a killed process.      *)
Rollback(s) ==
    /\ pc[s] # "idle"
    /\ End(s)
    /\ UNCHANGED registry

(* The bound on the history is reached: the INSERT fails.                   *)
LogExhausted(s, t) ==
    /\ pc[s] = "log"
    /\ At(s, t)
    /\ Len(audit[t]) >= MaxDecisions
    /\ Rollback(s)

Statement(s) ==
    \/ \E t \in Tool : Hold(s, t) \/ Write(s, t) \/ Log(s, t) \/ LogExhausted(s, t)
    \/ Commit(s)

Next ==
    \E s \in Session : Toggle(s) \/ Preset(s) \/ Seed(s) \/ Statement(s) \/ Rollback(s)

Spec == Init /\ [][Next]_vars

(* A session goes on; a lock that is free again and again is granted.       *)
Fairness == \A s \in Session : SF_vars(Statement(s))

FairSpec == Spec /\ Fairness

-----------------------------------------------------------------------------
(* Properties.                                                              *)

TypeOK ==
    /\ RegistryOK
    /\ lock \in [Tool -> Session \cup {Nobody}]
    /\ pc \in [Session -> {"idle", "lock", "write", "log", "commit"}]
    /\ call \in [Session -> Call]
    /\ todo \in [Session -> SUBSET Tool]
    /\ changed \in [Session -> SUBSET Tool]
    /\ logged \in [Session -> SUBSET Tool]
    /\ \A s \in Session : todo[s] \cup changed[s] \cup logged[s] \subseteq call[s].tools

(* However sessions interleave and fail, a decision is one atomic step: all *)
(* tools of a preset are decided at the same moment, a decision never rests *)
(* on a row another session has changed since, and no restart applies the   *)
(* default again ("A marker in AI_SCHEMA_MIGRATION preserves subsequent DBA *)
(* decisions across restarts").                                             *)
RefinesLog == LogSpec

(* The row a session needs next belongs to r, until r ends.                 *)
WaitsFor(s, r) ==
    /\ pc[s] \in {"lock", "write"}
    /\ \E t \in Tool : At(s, t) /\ lock[t] = r /\ r # s

(* No sessions wait for each other, in whatever circle: of any of them some *)
(* one can go on without the others, although presets hold many rows and    *)
(* each list, preset and default is made up by another function.            *)
NoDeadlock ==
    \A W \in (SUBSET Session) \ {{}} : \E s \in W : \A r \in W : ~WaitsFor(s, r)

(* No decision waits for ever: sessions that lock many rows lock them in    *)
(* one order.                                                               *)
EveryDecisionEnds == \A s \in Session : pc[s] # "idle" ~> pc[s] = "idle"
=============================================================================
