---------------------------- MODULE RunLifecycle -----------------------------
(****************************************************************************)
(* What the run tables promise: every operation of AgentRepository as one   *)
(* atomic step on the committed rows of MVP_AGENT and MVP_RUN.  RunQueue    *)
(* models the same operations statement by statement, with row locks, dirty *)
(* reads and failing sessions, and implements this specification.           *)
(*                                                                          *)
(* A transaction reads the clock while it holds its row lock and commits    *)
(* later, so the moments stored by a step lie between the last run of the   *)
(* agent and now.                                                           *)
(****************************************************************************)
EXTENDS RunTables

VARIABLES
    agent,   \* MVP_AGENT: the committed row of each agent
    run,     \* MVP_RUN: the committed row of each run
    clock    \* wall clock, which never goes back

tables == <<agent, run, clock>>

Exists(a) == agent[a].rev > 0

RunsOf(a) == {r \in Run : run[r].agent = a}

LifecycleInit ==
    /\ agent = [a \in Agent |-> NoAgentRow]
    /\ run = [r \in Run |-> NoRunRow]
    /\ clock = 0

(* Moments at which a transaction now committing on a can have read the     *)
(* clock.                                                                   *)
Moment(a) == {t \in 0..clock : \A r \in RunsOf(a) : run[r].created <= t}

AgentCreated(a, enabled, interval) ==
    /\ ~Exists(a)
    /\ \E t \in Moment(a) :
          agent' = [agent EXCEPT ![a] = Inserted(enabled, interval, t)]
    /\ UNCHANGED <<run, clock>>

(* An edit of the configuration the agent has at this moment: the revision  *)
(* its author submits is that of the row it replaces, which the new row's   *)
(* base records.                                                            *)
AgentSaved(a, enabled, interval) ==
    /\ Exists(a)
    /\ \E t \in Moment(a) :
          agent' = [agent EXCEPT ![a] = Saved(@, agent[a].rev, enabled, interval, t)]
    /\ UNCHANGED <<run, clock>>

(* The queued run carries the configuration the agent has at this moment.   *)
RunQueued(a, r, trigger) ==
    /\ Exists(a)
    /\ agent[a].enabled
    /\ agent[a].active = None
    /\ run[r].state = "ABSENT"
    /\ \E created \in Moment(a), slot \in Moment(a) :
          /\ created <= slot
          /\ trigger = "SCHEDULE" => DueAt(agent[a], created)
          /\ run' = [run EXCEPT ![r] = Snapshot(a, agent[a], trigger, created)]
          /\ agent' = [agent EXCEPT ![a] = Occupied(@, r, slot)]
    /\ UNCHANGED clock

RunStarted(r) ==
    /\ run[r].state = "QUEUED"
    /\ agent[run[r].agent].enabled
    /\ run' = [run EXCEPT ![r].state = "RUNNING"]
    /\ UNCHANGED <<agent, clock>>

RunCancelled(r) ==
    /\ run[r].state = "QUEUED"
    /\ ~agent[run[r].agent].enabled
    /\ run' = [run EXCEPT ![r].state = "CANCELLED"]
    /\ agent' = [agent EXCEPT ![run[r].agent] = Released(@, r)]
    /\ UNCHANGED clock

RunFinished(r, outcome) ==
    /\ run[r].state = "RUNNING"
    /\ run' = [run EXCEPT ![r].state = outcome]
    /\ agent' = [agent EXCEPT ![run[r].agent] = Released(@, r)]
    /\ UNCHANGED clock

ClockTicks ==
    /\ clock < MaxClock
    /\ clock' = clock + 1
    /\ UNCHANGED <<agent, run>>

LifecycleNext ==
    \/ \E a \in Agent, enabled \in BOOLEAN, interval \in Interval :
          AgentCreated(a, enabled, interval) \/ AgentSaved(a, enabled, interval)
    \/ \E a \in Agent, r \in Run, trigger \in {"MANUAL", "SCHEDULE"} :
          RunQueued(a, r, trigger)
    \/ \E r \in Run :
          \/ RunStarted(r)
          \/ RunCancelled(r)
          \/ \E outcome \in Outcome : RunFinished(r, outcome)
    \/ ClockTicks

LifecycleSpec == LifecycleInit /\ [][LifecycleNext]_tables

(* A run that waits to be started loses its slot.  No operation means to do *)
(* this; it is what the operations amount to when the server rolls killed   *)
(* processes back late (RefinesLossyLifecycle in RunQueue).                 *)
SlotLost(r) ==
    /\ run[r].state = "QUEUED"
    /\ agent' = [agent EXCEPT ![run[r].agent] = Released(@, r)]
    /\ UNCHANGED <<run, clock>>

LossyNext == LifecycleNext \/ \E r \in Run : SlotLost(r)

LossySpec == LifecycleInit /\ [][LossyNext]_tables

-----------------------------------------------------------------------------
(* Every committed row is a row of its table, and no stored creation time   *)
(* lies in the future.                                                      *)
TablesOK ==
    /\ agent \in [Agent -> AgentRow]
    /\ run \in [Run -> RunRow]
    /\ clock \in Nat
    /\ \A r \in Run : /\ run[r].state = "ABSENT" <=> run[r].agent = None
                      /\ run[r].created <= clock

(* ActiveRun names exactly the run of the agent that is queued or running:  *)
(* an agent never has two pending runs, no finished run keeps a slot, and   *)
(* no pending run has lost its slot (README: "`ActiveRun` prevents more     *)
(* than one pending or active run for the same agent").                     *)
SlotAgreement ==
    \A a \in Agent, r \in Run :
        agent[a].active = r <=> run[r].agent = a /\ run[r].state \in Pending

(* A scheduled run starts no sooner than the interval it was scheduled with *)
(* after any earlier run of the agent, and no two scheduled runs of an      *)
(* agent fall on the same moment: a stale list of due agents never queues   *)
(* an occurrence twice.                                                     *)
ScheduledGap ==
    \A r1, r2 \in Run :
        /\ r1 # r2
        /\ run[r1].state # "ABSENT"
        /\ run[r2].state # "ABSENT"
        /\ run[r1].agent = run[r2].agent
        /\ run[r2].trigger = "SCHEDULE"
        => /\ run[r1].created < run[r2].created
                => run[r1].created + run[r2].interval <= run[r2].created
           /\ run[r1].trigger = "SCHEDULE" => run[r1].created # run[r2].created
=============================================================================
