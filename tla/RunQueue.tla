------------------------------ MODULE RunQueue -------------------------------
(****************************************************************************)
(* AgentRepository (src/app/mvp/repository.py) as concurrent sessions on    *)
(* the IRIS tables MVP_AGENT and MVP_RUN: Flask requests that save agents   *)
(* and queue runs, and the worker and runner processes that schedule,       *)
(* claim, finish and recover them.  A session executes one SQL statement    *)
(* (or statements that read only rows it has locked) per step.              *)
(*                                                                          *)
(* The database is external to the repository and modelled from how         *)
(* repository.py relies on it: UPDATE and INSERT take an exclusive row lock *)
(* kept until COMMIT or ROLLBACK, a second writer waits for it, and SELECT  *)
(* takes no lock and sees rows other sessions have written and not yet      *)
(* committed (READ UNCOMMITTED, the IRIS default).  Rows of MVP_RUN are     *)
(* only written by a session that holds the row of their agent, so only     *)
(* agent rows are given locks.                                              *)
(****************************************************************************)
EXTENDS RunLifecycle

CONSTANTS
    Session,      \* database sessions: request threads, worker, runners
    LateRollback, \* the sessions of processes that, when killed, may leave
                  \* their transaction open until the server rolls it back
    MaxRevision   \* bound on the revisions of each agent

ASSUME SessionAssumption == None \notin Session /\ LateRollback \subseteq Session
ASSUME RevisionAssumption == MaxRevision \in [Agent -> Nat]

VARIABLES
    lock,    \* the session holding the row lock of each agent, or None
    pc,      \* the next statement of each session
    call,    \* what each session was asked to do, and what it has read
    todo,    \* rows of the list schedule() or recover() is walking
    wAgent,  \* the agent row each session has written and not committed
    wRun     \* the run row each session has written and not committed

writes == <<wAgent, wRun>>
vars == <<tables, lock, pc, call, todo, writes>>

Ops == {"none", "save", "create", "enqueue", "claim", "finish"}

(* The configuration a save submits, with the revision it was loaded at.    *)
Form == [rev: Nat, enabled: BOOLEAN, interval: Nat]

Call ==
    [op: Ops, agent: Agent \cup {None}, run: Run \cup {None},
     trigger: {"MANUAL", "SCHEDULE"}, form: Form, outcome: Outcome]

CallOf(op, a, r) ==
    [op |-> op, agent |-> a, run |-> r, trigger |-> "MANUAL",
     form |-> [rev |-> 0, enabled |-> FALSE, interval |-> 0], outcome |-> "FAILED"]

NoCall == CallOf("none", None, None)

(* Where a session waits for its row lock, and where it holds it.           *)
Waiting == {"save_lock", "enq_lock", "claim_lock", "fin_lock"}
Locked == {"save_write", "enq_insert", "enq_slot", "claim_run", "cancel_run",
           "free_slot", "commit"}
PC == Waiting \cup Locked \cup {"idle", "dead", "loop"}

Init ==
    /\ LifecycleInit
    /\ lock = [a \in Agent |-> None]
    /\ pc = [s \in Session |-> "idle"]
    /\ call = [s \in Session |-> NoCall]
    /\ todo = [s \in Session |-> {}]
    /\ wAgent = [s \in Session |-> None]
    /\ wRun = [s \in Session |-> None]

-----------------------------------------------------------------------------
(* What a SELECT returns: the last version written, committed or not.       *)

AgentSeen(a) ==
    IF lock[a] # None /\ wAgent[lock[a]] # None THEN wAgent[lock[a]] ELSE agent[a]

Writers(r) == {s \in Session : call[s].run = r /\ wRun[s] # None}

RunSeen(r) == IF Writers(r) # {} THEN wRun[CHOOSE s \in Writers(r) : TRUE] ELSE run[r]

(* uuid4(): an identifier no row and no session has.                        *)
FreshAgent(a) ==
    /\ AgentSeen(a).rev = 0
    /\ \A s \in Session : call[s].agent # a /\ a \notin todo[s]

FreshRun(r) ==
    /\ run[r].state = "ABSENT"
    /\ \A s \in Session : call[s].run # r /\ r \notin todo[s]

-----------------------------------------------------------------------------
(* Sessions and transactions.                                               *)

Goto(s, next) == pc' = [pc EXCEPT ![s] = next]

(* START TRANSACTION is the step that takes up a call.                      *)
Begin(s, c, rest, next) ==
    /\ call' = [call EXCEPT ![s] = c]
    /\ todo' = [todo EXCEPT ![s] = rest]
    /\ Goto(s, next)
    /\ UNCHANGED <<tables, lock, writes>>

(* An UPDATE of the agent row: waits for the row lock and keeps it.         *)
TakeLock(s, a) ==
    /\ lock[a] \in {None, s}
    /\ lock' = [lock EXCEPT ![a] = s]

WriteAgent(s, row) ==
    /\ TakeLock(s, call[s].agent)
    /\ wAgent' = [wAgent EXCEPT ![s] = row]

WriteRun(s, row) == wRun' = [wRun EXCEPT ![s] = row]

(* The end of a transaction, with what is left of the list it was run from. *)
EndWith(s, rest) ==
    /\ lock' = [a \in Agent |-> IF lock[a] = s THEN None ELSE lock[a]]
    /\ Goto(s, IF rest = {} THEN "idle" ELSE "loop")
    /\ call' = [call EXCEPT ![s] =
                   IF rest = {} THEN NoCall ELSE CallOf(call[s].op, None, None)]
    /\ todo' = [todo EXCEPT ![s] = rest]
    /\ wAgent' = [wAgent EXCEPT ![s] = None]
    /\ wRun' = [wRun EXCEPT ![s] = None]

(* COMMIT.                                                                  *)
Commit(s) ==
    /\ pc[s] = "commit"
    /\ agent' = IF wAgent[s] = None THEN agent
                ELSE [agent EXCEPT ![call[s].agent] = wAgent[s]]
    /\ run' = IF wRun[s] = None THEN run
              ELSE [run EXCEPT ![call[s].run] = wRun[s]]
    /\ EndWith(s, todo[s])
    /\ UNCHANGED clock

(* COMMIT of a transaction that wrote nothing, and ROLLBACK on Conflict:    *)
(* schedule() suppresses it and goes on with its list.                      *)
Leave(s) == EndWith(s, todo[s]) /\ UNCHANGED tables

(* Mutant: an exception leaves the transaction, and its lock, open.         *)
AbortHolding(s) ==
    /\ Goto(s, "idle")
    /\ call' = [call EXCEPT ![s] = NoCall]
    /\ todo' = [todo EXCEPT ![s] = {}]
    /\ UNCHANGED <<tables, lock, writes>>

(* ROLLBACK on any other exception, which ends the caller's loop as well.   *)
Abort(s) == EndWith(s, {}) /\ UNCHANGED tables

(* Any statement may fail: a lock wait that times out, a lost connection.   *)
Fail(s) == pc[s] \notin {"idle", "dead"} /\ Abort(s)

(* The process is killed.  The server rolls its transaction back, at once   *)
(* (then this is Fail) or, for a session of LateRollback, some time later.  *)
Die(s) ==
    /\ s \in LateRollback
    /\ pc[s] \notin {"idle", "dead"}
    /\ Goto(s, "dead")
    /\ UNCHANGED <<tables, lock, call, todo, writes>>

RollBackDead(s) == pc[s] = "dead" /\ Abort(s)

(* The statement that takes the lock, and the reads and checks it protects. *)
(* It matches no row if the agent's INSERT was rolled back meanwhile:       *)
(* get_agent then raises LookupError.                                       *)
HoldRow(s) ==
    /\ AgentSeen(call[s].agent).rev > 0
    /\ TakeLock(s, call[s].agent)

Missing(s) ==
    /\ pc[s] \in Waiting
    /\ AgentSeen(call[s].agent).rev = 0
    /\ Abort(s)

-----------------------------------------------------------------------------
(* save_agent.  A new agent is one INSERT; an edit carries the revision of  *)
(* the page it was made on: the current one, an older one if others saved   *)
(* meanwhile, or one that was read before its COMMIT and rolled back.       *)

Create(s, a, enabled, interval) ==
    /\ pc[s] = "idle"
    /\ FreshAgent(a)
    /\ TakeLock(s, a)
    /\ wAgent' = [wAgent EXCEPT ![s] = Inserted(enabled, interval, clock)]
    /\ call' = [call EXCEPT ![s] = CallOf("create", a, None)]
    /\ Goto(s, "commit")
    /\ UNCHANGED <<tables, todo, wRun>>

Save(s, a, loaded, enabled, interval) ==
    /\ pc[s] = "idle"
    /\ AgentSeen(a).rev > 0
    /\ LET form == [rev |-> loaded, enabled |-> enabled, interval |-> interval]
       IN Begin(s, [CallOf("save", a, None) EXCEPT !.form = form], {}, "save_lock")

(* Mutant: the revision is not compared.                                    *)
SaveLockBlind(s) ==
    /\ pc[s] = "save_lock"
    /\ HoldRow(s)
    /\ Goto(s, "save_write")
    /\ UNCHANGED <<tables, call, todo, writes>>

SaveLock(s) ==
    /\ pc[s] = "save_lock"
    /\ HoldRow(s)
    /\ AgentSeen(call[s].agent).rev = call[s].form.rev
    /\ Goto(s, "save_write")
    /\ UNCHANGED <<tables, call, todo, writes>>

SaveConflict(s) ==
    /\ pc[s] = "save_lock"
    /\ lock[call[s].agent] = None
    /\ AgentSeen(call[s].agent).rev \notin {0, call[s].form.rev}
    /\ Leave(s)

SaveWrite(s) ==
    /\ pc[s] = "save_write"
    /\ LET form == call[s].form IN
       WriteAgent(s, Saved(AgentSeen(call[s].agent), form.rev, form.enabled, form.interval, clock))
    /\ Goto(s, "commit")
    /\ UNCHANGED <<tables, call, todo, wRun>>

-----------------------------------------------------------------------------
(* enqueue, called by a request (MANUAL) or for each agent of schedule()'s  *)
(* list (SCHEDULE), which was read without a lock.                          *)

Enqueue(s, a, trigger, rest) ==
    Begin(s, [CallOf("enqueue", a, None) EXCEPT !.trigger = trigger], rest, "enq_lock")

RunNow(s, a) ==
    /\ pc[s] = "idle"
    /\ AgentSeen(a).rev > 0
    /\ Enqueue(s, a, "MANUAL", {})

DueAgents ==
    {a \in Agent : /\ AgentSeen(a).enabled
                   /\ DueAt(AgentSeen(a), clock)
                   /\ AgentSeen(a).active = None}

(* The list comes back as a whole; its agents are queued one by one.        *)
Schedule(s) ==
    /\ pc[s] = "idle"
    /\ DueAgents # {}
    /\ Begin(s, CallOf("enqueue", None, None), DueAgents, "loop")

ScheduleNext(s) ==
    /\ pc[s] = "loop"
    /\ call[s].op = "enqueue"
    /\ \E a \in todo[s] : Enqueue(s, a, "SCHEDULE", todo[s] \ {a})

(* Mutants: a pending run is not looked for; the list of due agents is      *)
(* trusted.                                                                 *)
EnqueueableTwice(row, trigger) ==
    /\ row.enabled
    /\ trigger = "SCHEDULE" => DueAt(row, clock)

EnqueueableStale(row, trigger) ==
    /\ row.enabled
    /\ row.active = None

Enqueueable(row, trigger) ==
    /\ row.enabled
    /\ row.active = None
    /\ trigger = "SCHEDULE" => DueAt(row, clock)

EnqueueLock(s) ==
    /\ pc[s] = "enq_lock"
    /\ HoldRow(s)
    /\ Enqueueable(AgentSeen(call[s].agent), call[s].trigger)
    /\ Goto(s, "enq_insert")
    /\ UNCHANGED <<tables, call, todo, writes>>

(* Paused, or a run is pending, or another scheduler was faster.            *)
EnqueueRefused(s) ==
    /\ pc[s] = "enq_lock"
    /\ lock[call[s].agent] = None
    /\ AgentSeen(call[s].agent).rev > 0
    /\ ~Enqueueable(AgentSeen(call[s].agent), call[s].trigger)
    /\ Leave(s)

EnqueueInsert(s) ==
    /\ pc[s] = "enq_insert"
    /\ \E r \in Run :
          /\ FreshRun(r)
          /\ call' = [call EXCEPT ![s].run = r]
          /\ WriteRun(s, Snapshot(call[s].agent, AgentSeen(call[s].agent), call[s].trigger, clock))
    /\ Goto(s, "enq_slot")
    /\ UNCHANGED <<tables, lock, todo, wAgent>>

(* The bound on Run is reached: the INSERT fails.                           *)
EnqueueExhausted(s) ==
    /\ pc[s] = "enq_insert"
    /\ \A r \in Run : ~FreshRun(r)
    /\ Abort(s)

EnqueueSlot(s) ==
    /\ pc[s] = "enq_slot"
    /\ WriteAgent(s, Occupied(AgentSeen(call[s].agent), call[s].run, clock))
    /\ Goto(s, "commit")
    /\ UNCHANGED <<tables, call, todo, wRun>>

-----------------------------------------------------------------------------
(* claim: the oldest queued run is chosen without a lock and looked at      *)
(* again once its agent is locked.                                          *)

OldestQueued(r) ==
    /\ RunSeen(r).state = "QUEUED"
    /\ \A q \in Run : RunSeen(q).state = "QUEUED" => RunSeen(r).created <= RunSeen(q).created

Claim(s) ==
    /\ pc[s] = "idle"
    /\ \E r \in Run :
          /\ OldestQueued(r)
          /\ Begin(s, CallOf("claim", RunSeen(r).agent, r), {}, "claim_lock")

ClaimLock(s) ==
    /\ pc[s] = "claim_lock"
    /\ HoldRow(s)
    /\ RunSeen(call[s].run).state = "QUEUED"
    /\ Goto(s, IF AgentSeen(call[s].agent).enabled THEN "claim_run" ELSE "cancel_run")
    /\ UNCHANGED <<tables, call, todo, writes>>

(* Another session was faster; or the run's INSERT was rolled back, which   *)
(* raises IndexError.                                                       *)
ClaimLost(s) ==
    /\ pc[s] = "claim_lock"
    /\ lock[call[s].agent] = None
    /\ RunSeen(call[s].run).state # "QUEUED"
    /\ Leave(s)

ClaimRun(s) ==
    /\ pc[s] = "claim_run"
    /\ WriteRun(s, [RunSeen(call[s].run) EXCEPT !.state = "RUNNING"])
    /\ Goto(s, "commit")
    /\ UNCHANGED <<tables, lock, call, todo, wAgent>>

CancelRun(s) ==
    /\ pc[s] = "cancel_run"
    /\ WriteRun(s, [RunSeen(call[s].run) EXCEPT !.state = "CANCELLED"])
    /\ Goto(s, "free_slot")
    /\ UNCHANGED <<tables, lock, call, todo, wAgent>>

(* UPDATE ... SET ActiveRun=NULL WHERE ID=? AND ActiveRun=?                 *)
FreeSlot(s) ==
    /\ pc[s] = "free_slot"
    /\ LET row == AgentSeen(call[s].agent) IN
       IF row.active = call[s].run THEN WriteAgent(s, Released(row, call[s].run))
       ELSE UNCHANGED <<lock, wAgent>>
    /\ Goto(s, "commit")
    /\ UNCHANGED <<tables, call, todo, wRun>>

-----------------------------------------------------------------------------
(* finish, called by the runner and the worker for a run a claim returned,  *)
(* and by recover for each run it saw RUNNING.                              *)

FinishCall(s, r, outcome, rest) ==
    Begin(s, [CallOf("finish", RunSeen(r).agent, r) EXCEPT !.outcome = outcome],
          rest, "fin_lock")

Finish(s, r, outcome) ==
    /\ pc[s] = "idle"
    /\ run[r].state \notin {"ABSENT", "QUEUED"}
    /\ FinishCall(s, r, outcome, {})

(* A new worker starts after the supervisor has killed every process of the *)
(* previous one.                                                            *)
WorkerFenced ==
    \A s \in Session : call[s].op \in {"claim", "finish"} => pc[s] = "dead"

SeenRunning == {r \in Run : RunSeen(r).state = "RUNNING"}

Recover(s) ==
    /\ pc[s] = "idle"
    /\ WorkerFenced
    /\ SeenRunning # {}
    /\ Begin(s, CallOf("finish", None, None), SeenRunning, "loop")

RecoverNext(s) ==
    /\ pc[s] = "loop"
    /\ call[s].op = "finish"
    /\ \E r \in todo[s] : FinishCall(s, r, "FAILED", todo[s] \ {r})

(* Mutant: the state the run has by now is not asked for.                   *)
FinishRunAnyway(s) ==
    /\ pc[s] = "fin_lock"
    /\ HoldRow(s)
    /\ WriteRun(s, [RunSeen(call[s].run) EXCEPT !.state = call[s].outcome])
    /\ Goto(s, "free_slot")
    /\ UNCHANGED <<tables, call, todo, wAgent>>

(* UPDATE ... SET State=? WHERE ID=? AND State='RUNNING', under the lock.   *)
FinishRun(s) ==
    /\ pc[s] = "fin_lock"
    /\ HoldRow(s)
    /\ IF RunSeen(call[s].run).state = "RUNNING"
       THEN WriteRun(s, [RunSeen(call[s].run) EXCEPT !.state = call[s].outcome])
       ELSE UNCHANGED wRun
    /\ Goto(s, "free_slot")
    /\ UNCHANGED <<tables, call, todo, wAgent>>

-----------------------------------------------------------------------------
Tick == ClockTicks /\ UNCHANGED <<lock, pc, call, todo, writes>>

(* New work arrives from outside; the statements of a session that has      *)
(* started are its own.                                                     *)
Request(s) ==
    \/ \E a \in Agent, enabled \in BOOLEAN, interval \in Interval :
          \/ Create(s, a, enabled, interval)
          \/ \E loaded \in 1..MaxRevision[a] - 1 : Save(s, a, loaded, enabled, interval)
    \/ \E a \in Agent : RunNow(s, a)
    \/ Schedule(s)
    \/ Claim(s)
    \/ \E r \in Run, outcome \in Outcome : Finish(s, r, outcome)
    \/ Recover(s)

Statement(s) ==
    \/ SaveLock(s) \/ SaveConflict(s) \/ SaveWrite(s)
    \/ ScheduleNext(s) \/ EnqueueLock(s) \/ EnqueueRefused(s)
    \/ EnqueueInsert(s) \/ EnqueueExhausted(s) \/ EnqueueSlot(s)
    \/ ClaimLock(s) \/ ClaimLost(s) \/ ClaimRun(s) \/ CancelRun(s)
    \/ RecoverNext(s) \/ FinishRun(s) \/ FreeSlot(s)
    \/ Missing(s) \/ Commit(s) \/ RollBackDead(s)

Next ==
    \/ \E s \in Session : Request(s) \/ Statement(s) \/ Fail(s) \/ Die(s)
    \/ Tick

Spec == Init /\ [][Next]_vars

(* A session goes on with its statements, and a server grants a row lock    *)
(* that is free again and again to each session waiting for it: without     *)
(* this an UPDATE could wait for ever, which IRIS ends by a timeout.        *)
Fairness == \A s \in Session : SF_vars(Statement(s))

FairSpec == Spec /\ Fairness

-----------------------------------------------------------------------------
(* Properties.                                                              *)

TypeOK ==
    /\ TablesOK
    /\ lock \in [Agent -> Session \cup {None}]
    /\ pc \in [Session -> PC]
    /\ call \in [Session -> Call]
    /\ todo \in [Session -> SUBSET (Agent \cup Run)]
    /\ wAgent \in [Session -> AgentRow \cup {None}]
    /\ wRun \in [Session -> RunRow \cup {None}]

(* Every interleaving of the statements of all sessions, with rollbacks at  *)
(* any point, commits what the atomic operations of RunLifecycle would: a   *)
(* queued run carries the configuration current at its commit, a save       *)
(* replaces no other revision than the one it was submitted for (no edit is *)
(* lost, whoever saved meanwhile), a paused agent's run is never started    *)
(* and a finished run never changes or runs again.                          *)
RefinesLifecycle == LifecycleSpec

(* What is left of RefinesLifecycle when a killed process is rolled back    *)
(* late, while its successor already recovers: a queued run may lose its    *)
(* slot, and that is all.  Every other change of the tables is still that   *)
(* of an atomic operation: nothing is started twice or ended before it was  *)
(* started, no edit is lost, and no finished run keeps a slot.              *)
RefinesLossyLifecycle == LossySpec

(* README: "`ActiveRun` prevents more than one pending or active run for    *)
(* the same agent."                                                         *)
OnePendingRunPerAgent ==
    \A r1, r2 \in Run :
        run[r1].state \in Pending /\ run[r2].state \in Pending /\ r1 # r2
            => run[r1].agent # run[r2].agent

(* A session that holds a row lock never waits for one: it is between two   *)
(* of its own statements, or dead and for the server to roll back.  So no   *)
(* path out of a transaction, failing statements included, keeps a lock,    *)
(* and sessions cannot wait for each other in a circle.                     *)
HoldersGoOn == \A a \in Agent : lock[a] # None => pc[lock[a]] \in Locked \cup {"dead"}

(* No call waits for ever: each transaction locks one agent row, so waiting *)
(* sessions cannot form a cycle, and every path out of a transaction, error *)
(* paths included, gives the lock back.                                     *)
EveryCallEnds == \A s \in Session : pc[s] # "idle" ~> pc[s] = "idle"
=============================================================================
