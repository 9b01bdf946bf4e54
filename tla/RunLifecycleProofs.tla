------------------------- MODULE RunLifecycleProofs --------------------------
(****************************************************************************)
(* Safety of the atomic run tables for every set of agents, runs and        *)
(* intervals.  ScheduledGap is not inductive: it needs DueAfterRuns, that   *)
(* the next due moment of an agent lies an interval after each of its runs  *)
(* whatever edits were saved in between, and RunsHaveAgents.                *)
(*                                                                          *)
(* SlotAgreement says two things: only the pending run of an agent has its  *)
(* slot (SlotHolder), and every pending run has it (SlotKept).  A run that  *)
(* loses its slot breaks the second only, so the invariant is stated in two *)
(* parts: LossyInv also holds where slots are lost, SlotKept is what the    *)
(* operations add when none is.                                             *)
(****************************************************************************)
EXTENDS RunLifecycle, TLAPS

-----------------------------------------------------------------------------
(* What the row-level effects of RunTables do to a row, field by field.     *)

(* The assumptions on the constants, in the form the proofs use.            *)
LEMMA Constants ==
    /\ None \notin Agent /\ None \notin Run /\ None \notin AgentRow /\ None \notin RunRow
    /\ \A i \in Interval : i \in Nat
    /\ \A o \in Outcome : o \in Terminal /\ o \notin Pending /\ o # "ABSENT"
    /\ MaxClock \in Nat
BY NoneAssumption, OutcomeAssumption, IntervalAssumption, BoundAssumption
   DEF Terminal, Pending

(* A new agent has revision 1 and no run.                                   *)
LEMMA InsertedRow ==
    ASSUME NEW enabled \in BOOLEAN, NEW interval \in Nat, NEW t \in Nat
    PROVE  LET new == Inserted(enabled, interval, t) IN
           /\ new \in AgentRow /\ new.rev = 1 /\ new.active = None
           /\ new.interval = interval /\ new.due = t + interval
BY DEF Inserted, AgentRow

(* A save moves the revision on by one and keeps the slot.                  *)
LEMMA SavedRow ==
    ASSUME NEW row \in AgentRow, NEW base \in Nat, NEW enabled \in BOOLEAN,
           NEW interval \in Nat, NEW t \in Nat
    PROVE  LET new == Saved(row, base, enabled, interval, t) IN
           /\ new \in AgentRow /\ new.rev = row.rev + 1 /\ new.active = row.active
           /\ new.interval = interval /\ new.due = t + interval
BY DEF Saved, AgentRow

(* Queuing a run takes the slot and moves the next due moment.              *)
LEMMA OccupiedRow ==
    ASSUME NEW row \in AgentRow, NEW r \in Run, NEW t \in Nat
    PROVE  LET new == Occupied(row, r, t) IN
           /\ new \in AgentRow /\ new.rev = row.rev /\ new.active = r
           /\ new.interval = row.interval /\ new.due = t + row.interval
BY DEF Occupied, AgentRow

(* Releasing the slot of a run changes a row only if the run holds it.      *)
LEMMA ReleasedRow ==
    ASSUME NEW row \in AgentRow, NEW r \in Run
    PROVE  LET new == Released(row, r) IN
           /\ new \in AgentRow /\ new.rev = row.rev /\ new.interval = row.interval
           /\ new.due = row.due
           /\ new.active = IF row.active = r THEN None ELSE row.active
<1>1. CASE row.active = r
  BY <1>1 DEF Released, AgentRow
<1>2. CASE row.active # r
  BY <1>2 DEF Released
<1> QED BY <1>1, <1>2

(* A queued run carries the configuration of its agent's row.               *)
LEMMA SnapshotRow ==
    ASSUME NEW a \in Agent, NEW row \in AgentRow, NEW trigger \in {"MANUAL", "SCHEDULE"},
           NEW t \in Nat
    PROVE  LET new == Snapshot(a, row, trigger, t) IN
           /\ new \in RunRow /\ new.state = "QUEUED" /\ new.agent = a
           /\ new.trigger = trigger /\ new.created = t
           /\ new.rev = row.rev /\ new.interval = row.interval
BY DEF Snapshot, AgentRow, RunRow, Pending

(* A change of state keeps the other columns of a run.                      *)
LEMMA StateRow ==
    ASSUME NEW row \in RunRow, NEW state \in Pending \cup Terminal
    PROVE  LET new == [row EXCEPT !.state = state] IN
           /\ new \in RunRow /\ new.state = state /\ new.agent = row.agent
           /\ new.trigger = row.trigger /\ new.created = row.created
           /\ new.rev = row.rev /\ new.interval = row.interval
BY DEF RunRow

-----------------------------------------------------------------------------
(* The inductive invariant.                                                 *)

DueAfterRuns ==
    \A a \in Agent, r \in Run :
        run[r].agent = a => run[r].created + agent[a].interval <= agent[a].due

RunsHaveAgents == \A a \in Agent, r \in Run : run[r].agent = a => Exists(a)

SlotHolder ==
    \A a \in Agent, r \in Run :
        agent[a].active = r => run[r].agent = a /\ run[r].state \in Pending

SlotKept ==
    \A a \in Agent, r \in Run :
        run[r].agent = a /\ run[r].state \in Pending => agent[a].active = r

LossyInv == TablesOK /\ RunsHaveAgents /\ SlotHolder /\ DueAfterRuns /\ ScheduledGap

TablesInv == LossyInv /\ SlotKept

(* Every stored moment is one at which the agent's row was locked.          *)
LEMMA MomentFacts ==
    ASSUME TablesOK, NEW a \in Agent, NEW t \in Moment(a)
    PROVE  /\ t \in Nat /\ t <= clock
           /\ \A r \in Run : run[r].agent = a => run[r].created <= t
BY DEF TablesOK, Moment, RunsOf

(* The rows written for agents are rows of their table.                     *)
LEMMA AgentTypes ==
    ASSUME TablesOK, NEW a \in Agent
    PROVE  /\ agent[a] \in AgentRow
           /\ agent[a].rev \in Nat /\ agent[a].interval \in Nat /\ agent[a].due \in Nat
           /\ agent[a].active \in Run \cup {None} /\ agent[a].enabled \in BOOLEAN
BY DEF TablesOK, AgentRow

(* The rows written for runs are rows of their table.                       *)
LEMMA RunTypes ==
    ASSUME TablesOK, NEW r \in Run
    PROVE  /\ run[r] \in RunRow
           /\ run[r].created \in Nat /\ run[r].interval \in Nat
           /\ run[r].agent \in Agent \cup {None}
BY DEF TablesOK, RunRow

(* The initial tables are empty.                                            *)
LEMMA LifecycleInitInv == LifecycleInit => TablesInv
<1> SUFFICES ASSUME LifecycleInit PROVE TablesInv
  OBVIOUS
<1>1. TablesOK
  BY Constants DEF LifecycleInit, TablesOK, AgentRow, RunRow, NoAgentRow, NoRunRow, Pending, Terminal
<1>2. RunsHaveAgents /\ SlotHolder /\ SlotKept /\ DueAfterRuns /\ ScheduledGap
  BY Constants DEF LifecycleInit, RunsHaveAgents, SlotHolder, SlotKept, DueAfterRuns,
     ScheduledGap, NoAgentRow, NoRunRow, Pending
<1> QED BY <1>1, <1>2 DEF LossyInv, TablesInv

-----------------------------------------------------------------------------
(* One lemma per operation.                                                 *)

(* A new agent has no runs.                                                 *)
LEMMA CreateInv ==
    ASSUME LossyInv, NEW a \in Agent, NEW enabled \in BOOLEAN, NEW interval \in Interval,
           AgentCreated(a, enabled, interval)
    PROVE  LossyInv'
<1>1. PICK t \in Moment(a) : agent' = [agent EXCEPT ![a] = Inserted(enabled, interval, t)]
  BY DEF AgentCreated
<1>2. run' = run /\ clock' = clock /\ ~Exists(a)
  BY DEF AgentCreated
<1>3. TablesOK /\ interval \in Nat
  BY Constants DEF LossyInv
<1>4. t \in Nat
  BY <1>3, MomentFacts
<1>5. \A r \in Run : run[r].agent # a
  BY <1>2 DEF LossyInv, RunsHaveAgents
<1>6. \A r \in Run : agent[a].active # r
  BY <1>5 DEF LossyInv, SlotHolder
<1>7. agent'[a] = Inserted(enabled, interval, t) /\ \A b \in Agent \ {a} : agent'[b] = agent[b]
  BY <1>1, <1>3 DEF TablesOK
<1>8. TablesOK'
  BY <1>1, <1>2, <1>3, <1>4 DEF TablesOK, Inserted, AgentRow
<1>9. RunsHaveAgents' /\ DueAfterRuns'
  BY <1>2, <1>5, <1>7 DEF LossyInv, RunsHaveAgents, DueAfterRuns, Exists
<1>10. SlotHolder'
  BY <1>2, <1>5, <1>7, Constants DEF LossyInv, SlotHolder, Inserted
<1>11. ScheduledGap'
  BY <1>2 DEF LossyInv, ScheduledGap
<1> QED BY <1>8, <1>9, <1>10, <1>11 DEF LossyInv

(* An edit leaves the slot alone and moves the due moment on.               *)
LEMMA SaveInv ==
    ASSUME LossyInv, NEW a \in Agent, NEW enabled \in BOOLEAN,
           NEW interval \in Interval, AgentSaved(a, enabled, interval)
    PROVE  LossyInv'
<1>1. PICK t \in Moment(a) : agent' = [agent EXCEPT ![a] = Saved(@, agent[a].rev, enabled, interval, t)]
  BY DEF AgentSaved
<1>2. run' = run /\ clock' = clock
  BY DEF AgentSaved
<1>3. TablesOK /\ interval \in Nat
  BY Constants DEF LossyInv
<1>4. t \in Nat /\ \A r \in Run : run[r].agent = a => run[r].created <= t
  BY <1>3, MomentFacts
<1>5. agent'[a] = Saved(agent[a], agent[a].rev, enabled, interval, t)
  BY <1>1, <1>3 DEF TablesOK
<1>6. \A b \in Agent \ {a} : agent'[b] = agent[b]
  BY <1>1, <1>3 DEF TablesOK
<1>7. /\ agent'[a].rev = agent[a].rev + 1 /\ agent'[a].active = agent[a].active
      /\ agent'[a].interval = interval /\ agent'[a].due = t + interval
      /\ agent'[a] \in AgentRow
  <2>1. agent[a] \in AgentRow
    BY <1>3, AgentTypes
  <2>2. interval \in Nat /\ t \in Nat
    BY <1>3, <1>4
  <2> QED BY <2>1, <2>2, <1>5 DEF Saved, AgentRow
<1>8. TablesOK'
  BY <1>1, <1>2, <1>3, <1>7 DEF TablesOK
<1>9. RunsHaveAgents'
  BY <1>2, <1>3, <1>6, <1>7, AgentTypes, RunTypes DEF LossyInv, RunsHaveAgents, Exists
<1>10. DueAfterRuns'
  <2> SUFFICES ASSUME NEW b \in Agent, NEW r \in Run, run[r].agent = b
               PROVE  run[r].created + agent'[b].interval <= agent'[b].due
    BY <1>2 DEF DueAfterRuns
  <2>1. CASE b = a
    BY <2>1, <1>3, <1>4, <1>7, AgentTypes, RunTypes
  <2>2. CASE b # a
    BY <2>2, <1>6 DEF LossyInv, DueAfterRuns
  <2> QED BY <2>1, <2>2
<1>11. SlotHolder'
  BY <1>2, <1>6, <1>7 DEF LossyInv, SlotHolder
<1>12. ScheduledGap'
  BY <1>2 DEF LossyInv, ScheduledGap
<1> QED BY <1>8, <1>9, <1>10, <1>11, <1>12 DEF LossyInv

(* A queued run takes the free slot and moves the due moment on.            *)
LEMMA EnqueueInv ==
    ASSUME LossyInv, NEW a \in Agent, NEW r \in Run, NEW trigger \in {"MANUAL", "SCHEDULE"},
           RunQueued(a, r, trigger)
    PROVE  LossyInv'
<1>1. PICK created \in Moment(a), slot \in Moment(a) :
         /\ created <= slot
         /\ trigger = "SCHEDULE" => DueAt(agent[a], created)
         /\ run' = [run EXCEPT ![r] = Snapshot(a, agent[a], trigger, created)]
         /\ agent' = [agent EXCEPT ![a] = Occupied(@, r, slot)]
  BY DEF RunQueued
<1>2. TablesOK /\ clock' = clock /\ run[r].state = "ABSENT" /\ Exists(a) /\ agent[a].active = None
  BY DEF RunQueued, LossyInv
<1>3. /\ created \in Nat /\ slot \in Nat /\ created <= clock
      /\ \A q \in Run : run[q].agent = a => run[q].created <= created
  BY <1>2, MomentFacts
<1>4. slot \in Nat /\ \A q \in Run : run[q].agent = a => run[q].created <= slot
  BY <1>2, MomentFacts
<1>5. run[r].agent = None
  BY <1>2 DEF TablesOK
<1>6. /\ run'[r] = Snapshot(a, agent[a], trigger, created)
      /\ \A q \in Run \ {r} : run'[q] = run[q]
      /\ agent'[a] = Occupied(agent[a], r, slot)
      /\ \A b \in Agent \ {a} : agent'[b] = agent[b]
  BY <1>1, <1>2 DEF TablesOK
<1>7. /\ run'[r] \in RunRow /\ run'[r].state = "QUEUED" /\ run'[r].agent = a
      /\ run'[r].trigger = trigger /\ run'[r].created = created
      /\ run'[r].interval = agent[a].interval
  BY <1>2, <1>3, <1>6, AgentTypes, SnapshotRow
<1>8. /\ agent'[a] \in AgentRow /\ agent'[a].active = r /\ agent'[a].rev = agent[a].rev
      /\ agent'[a].interval = agent[a].interval /\ agent'[a].due = slot + agent[a].interval
  <2>1. agent[a] \in AgentRow
    BY <1>2, AgentTypes
  <2> QED BY <2>1, <1>4, <1>6, OccupiedRow
<1>9. TablesOK'
  BY <1>1, <1>2, <1>3, <1>6, <1>7, <1>8, Constants DEF TablesOK
<1>10. RunsHaveAgents'
  BY <1>2, <1>6, <1>7, <1>8 DEF LossyInv, RunsHaveAgents, Exists
<1>11. DueAfterRuns'
  <2> SUFFICES ASSUME NEW b \in Agent, NEW q \in Run, run'[q].agent = b
               PROVE  run'[q].created + agent'[b].interval <= agent'[b].due
    BY DEF DueAfterRuns
  <2>1. CASE b = a /\ q = r
    BY <2>1, <1>1, <1>2, <1>3, <1>4, <1>7, <1>8, AgentTypes, RunTypes
  <2>2. CASE b = a /\ q # r
    BY <2>2, <1>2, <1>4, <1>6, <1>8, AgentTypes, RunTypes
  <2>3. CASE b # a
    BY <2>3, <1>6, <1>7 DEF LossyInv, DueAfterRuns
  <2> QED BY <2>1, <2>2, <2>3
<1>12. SlotHolder'
  <2> SUFFICES ASSUME NEW b \in Agent, NEW q \in Run
               PROVE  agent'[b].active = q => run'[q].agent = b /\ run'[q].state \in Pending
    BY DEF SlotHolder
  <2>1. CASE b = a /\ q = r
    BY <2>1, <1>7, <1>8 DEF Pending
  <2>2. CASE b = a /\ q # r
    BY <2>2, <1>2, <1>6, <1>8, Constants DEF LossyInv, SlotHolder
  <2>3. CASE b # a /\ q = r
    BY <2>3, <1>5, <1>6, <1>7, Constants DEF LossyInv, SlotHolder
  <2>4. CASE b # a /\ q # r
    BY <2>4, <1>6 DEF LossyInv, SlotHolder
  <2> QED BY <2>1, <2>2, <2>3, <2>4
<1>13. ScheduledGap'
  <2> SUFFICES ASSUME NEW r1 \in Run, NEW r2 \in Run, r1 # r2,
                      run'[r1].state # "ABSENT", run'[r2].state # "ABSENT",
                      run'[r1].agent = run'[r2].agent, run'[r2].trigger = "SCHEDULE"
               PROVE  /\ run'[r1].created < run'[r2].created
                           => run'[r1].created + run'[r2].interval <= run'[r2].created
                      /\ run'[r1].trigger = "SCHEDULE"
                           => run'[r1].created # run'[r2].created
    BY DEF ScheduledGap
  <2>1. trigger = "SCHEDULE" =>
            /\ agent[a].interval > 0
            /\ \A q \in Run : run[q].agent = a => run[q].created + agent[a].interval <= created
    <3> SUFFICES ASSUME trigger = "SCHEDULE", NEW q \in Run, run[q].agent = a
                 PROVE  run[q].created + agent[a].interval <= created
      BY <1>1 DEF DueAt
    <3>1. run[q].created + agent[a].interval <= agent[a].due
      BY DEF LossyInv, DueAfterRuns
    <3>2. agent[a].due <= created
      BY <1>1 DEF DueAt
    <3> QED BY <3>1, <3>2, <1>2, <1>3, AgentTypes, RunTypes
  <2>2. CASE r1 = r
    <3>1. r2 # r /\ run'[r2] = run[r2] /\ run[r2].agent = a
      BY <2>2, <1>6, <1>7
    <3>2. run[r2].created <= created
      BY <3>1, <1>3
    <3> QED BY <3>1, <3>2, <2>1, <2>2, <1>2, <1>3, <1>7, AgentTypes, RunTypes
  <2>3. CASE r2 = r
    <3>1. run'[r1] = run[r1] /\ run[r1].agent = a /\ trigger = "SCHEDULE"
      BY <2>3, <1>6, <1>7
    <3> QED BY <3>1, <2>1, <2>3, <1>2, <1>3, <1>7, AgentTypes, RunTypes
  <2>4. CASE r1 # r /\ r2 # r
    BY <2>4, <1>6 DEF LossyInv, ScheduledGap
  <2> QED BY <2>2, <2>3, <2>4
<1> QED BY <1>9, <1>10, <1>11, <1>12, <1>13 DEF LossyInv

(* A run that is started keeps its slot.                                    *)
LEMMA ClaimInv ==
    ASSUME LossyInv, NEW r \in Run, RunStarted(r)
    PROVE  LossyInv'
<1>1. /\ run' = [run EXCEPT ![r].state = "RUNNING"] /\ run[r].state = "QUEUED"
      /\ agent' = agent /\ clock' = clock /\ TablesOK
  BY DEF RunStarted, LossyInv
<1>2. /\ run'[r] = [run[r] EXCEPT !.state = "RUNNING"]
      /\ \A q \in Run \ {r} : run'[q] = run[q]
  BY <1>1 DEF TablesOK
<1>3. /\ run'[r] \in RunRow /\ run'[r].state = "RUNNING" /\ run'[r].agent = run[r].agent
      /\ run'[r].trigger = run[r].trigger /\ run'[r].created = run[r].created
      /\ run'[r].interval = run[r].interval
  BY <1>1, <1>2, RunTypes DEF RunRow, Pending
<1>4. TablesOK'
  BY <1>1, <1>2, <1>3 DEF TablesOK
<1>5. RunsHaveAgents' /\ DueAfterRuns' /\ SlotHolder'
  BY <1>1, <1>2, <1>3
  DEF LossyInv, RunsHaveAgents, DueAfterRuns, SlotHolder, Exists, Pending
<1>6. ScheduledGap'
  BY <1>1, <1>2, <1>3 DEF LossyInv, ScheduledGap
<1> QED BY <1>4, <1>5, <1>6 DEF LossyInv

(* RunCancelled and RunFinished end a pending run and give its slot back. *)
LEMMA EndInv ==
    ASSUME LossyInv, NEW r \in Run, NEW state \in Terminal, run[r].state \in Pending,
           run' = [run EXCEPT ![r].state = state],
           agent' = [agent EXCEPT ![run[r].agent] = Released(@, r)],
           clock' = clock
    PROVE  LossyInv'
<1> DEFINE a == run[r].agent
<1>1. TablesOK /\ run[r].state # "ABSENT" /\ a \in Agent
  BY RunTypes DEF LossyInv, TablesOK, Pending
<1>2. \A b \in Agent : agent[b].active = r => b = a
  BY DEF LossyInv, SlotHolder
<1>3. /\ run'[r] = [run[r] EXCEPT !.state = state]
      /\ \A q \in Run \ {r} : run'[q] = run[q]
      /\ agent'[a] = Released(agent[a], r)
      /\ \A b \in Agent \ {a} : agent'[b] = agent[b]
  BY <1>1 DEF TablesOK
<1>4. /\ run'[r] \in RunRow /\ run'[r].state = state /\ run'[r].agent = a
      /\ run'[r].trigger = run[r].trigger /\ run'[r].created = run[r].created
      /\ run'[r].interval = run[r].interval /\ state \notin Pending /\ state # "ABSENT"
  BY <1>1, <1>3, RunTypes, Constants DEF RunRow, Terminal, Pending
<1>5. agent[a] \in AgentRow
  BY <1>1, AgentTypes
<1>6. /\ agent'[a] \in AgentRow /\ agent'[a].rev = agent[a].rev
      /\ agent'[a].active = IF agent[a].active = r THEN None ELSE agent[a].active
      /\ agent'[a].interval = agent[a].interval /\ agent'[a].due = agent[a].due
  BY <1>3, <1>5, ReleasedRow
<1>7. TablesOK'
  BY <1>1, <1>3, <1>4, <1>6, Constants DEF TablesOK
<1>8. RunsHaveAgents'
  BY <1>1, <1>3, <1>4, <1>6 DEF LossyInv, RunsHaveAgents, Exists
<1>9. DueAfterRuns'
  BY <1>1, <1>3, <1>4, <1>6 DEF LossyInv, DueAfterRuns
<1>10. SlotHolder'
  <2> SUFFICES ASSUME NEW b \in Agent, NEW q \in Run
               PROVE  agent'[b].active = q => run'[q].agent = b /\ run'[q].state \in Pending
    BY DEF SlotHolder
  <2>1. CASE b = a /\ q = r
    BY <2>1, <1>4, <1>6, Constants
  <2>2. CASE b = a /\ q # r
    BY <2>2, <1>1, <1>2, <1>3, <1>6, Constants DEF LossyInv, SlotHolder
  <2>3. CASE b # a /\ q = r
    BY <2>3, <1>3, <1>4 DEF LossyInv, SlotHolder
  <2>4. CASE b # a /\ q # r
    BY <2>4, <1>3 DEF LossyInv, SlotHolder
  <2> QED BY <2>1, <2>2, <2>3, <2>4
<1>11. ScheduledGap'
  BY <1>1, <1>3, <1>4 DEF LossyInv, ScheduledGap
<1> QED BY <1>7, <1>8, <1>9, <1>10, <1>11 DEF LossyInv

(* A lost slot is free, and its run stays as it is.                         *)
LEMMA LossInv ==
    ASSUME LossyInv, NEW r \in Run, SlotLost(r)
    PROVE  LossyInv'
<1> DEFINE a == run[r].agent
<1>1. /\ TablesOK /\ run[r].state # "ABSENT" /\ a \in Agent
      /\ run' = run /\ clock' = clock /\ agent' = [agent EXCEPT ![a] = Released(@, r)]
  BY RunTypes DEF SlotLost, LossyInv, TablesOK
<1>2. agent'[a] = Released(agent[a], r) /\ \A b \in Agent \ {a} : agent'[b] = agent[b]
  BY <1>1 DEF TablesOK
<1>3. agent[a] \in AgentRow
  BY <1>1, AgentTypes
<1>4. /\ agent'[a] \in AgentRow /\ agent'[a].rev = agent[a].rev
      /\ agent'[a].active = IF agent[a].active = r THEN None ELSE agent[a].active
      /\ agent'[a].interval = agent[a].interval /\ agent'[a].due = agent[a].due
  BY <1>2, <1>3, ReleasedRow
<1>5. TablesOK'
  BY <1>1, <1>4 DEF TablesOK
<1>6. RunsHaveAgents' /\ DueAfterRuns'
  BY <1>1, <1>2, <1>4 DEF LossyInv, RunsHaveAgents, DueAfterRuns, Exists
<1>7. SlotHolder'
  BY <1>1, <1>2, <1>4, Constants DEF LossyInv, SlotHolder
<1>8. ScheduledGap'
  BY <1>1 DEF LossyInv, ScheduledGap
<1> QED BY <1>5, <1>6, <1>7, <1>8 DEF LossyInv

(* Every step preserves the first part of the invariant, lost slots         *)
(* included.                                                                *)
LEMMA LossyNextInv == LossyInv /\ [LossyNext]_tables => LossyInv'
<1> SUFFICES ASSUME LossyInv, [LossyNext]_tables PROVE LossyInv'
  OBVIOUS
<1>1. ASSUME NEW a \in Agent, NEW enabled \in BOOLEAN, NEW interval \in Interval,
             AgentCreated(a, enabled, interval)
      PROVE  LossyInv'
  BY <1>1, CreateInv
<1>2. ASSUME NEW a \in Agent, NEW enabled \in BOOLEAN,
             NEW interval \in Interval, AgentSaved(a, enabled, interval)
      PROVE  LossyInv'
  BY <1>2, SaveInv
<1>3. ASSUME NEW a \in Agent, NEW r \in Run, NEW trigger \in {"MANUAL", "SCHEDULE"},
             RunQueued(a, r, trigger)
      PROVE  LossyInv'
  BY <1>3, EnqueueInv
<1>4. ASSUME NEW r \in Run, RunStarted(r)
      PROVE  LossyInv'
  BY <1>4, ClaimInv
<1>5. ASSUME NEW r \in Run, RunCancelled(r)
      PROVE  LossyInv'
  BY <1>5, EndInv DEF RunCancelled, Terminal, Pending
<1>6. ASSUME NEW r \in Run, NEW outcome \in Outcome, RunFinished(r, outcome)
      PROVE  LossyInv'
  BY <1>6, EndInv, Constants DEF RunFinished, Pending
<1>7. ASSUME NEW r \in Run, SlotLost(r)
      PROVE  LossyInv'
  BY <1>7, LossInv
<1>8. CASE ClockTicks
  <2>1. agent' = agent /\ run' = run /\ clock' = clock + 1 /\ TablesOK
    BY <1>8 DEF ClockTicks, LossyInv
  <2>2. TablesOK'
    BY <2>1, RunTypes DEF TablesOK
  <2> QED BY <2>1, <2>2
      DEF LossyInv, RunsHaveAgents, SlotHolder, DueAfterRuns, ScheduledGap, Exists
<1>9. CASE UNCHANGED tables
  BY <1>9 DEF tables, LossyInv, TablesOK, RunsHaveAgents, SlotHolder, DueAfterRuns,
     ScheduledGap, Exists
<1> QED BY <1>1, <1>2, <1>3, <1>4, <1>5, <1>6, <1>7, <1>8, <1>9 DEF LossyNext, LifecycleNext

-----------------------------------------------------------------------------
(* Without losses every pending run keeps its slot: the slot is given to a  *)
(* run when it is queued, to no other while it is taken, and taken from a   *)
(* run only by the operation that ends it.                                  *)
LEMMA KeptNextInv == TablesInv /\ [LifecycleNext]_tables => SlotKept'
<1> SUFFICES ASSUME TablesInv, [LifecycleNext]_tables PROVE SlotKept'
  OBVIOUS
<1>1. TablesOK /\ SlotHolder /\ SlotKept /\ RunsHaveAgents
  BY DEF TablesInv, LossyInv
<1>2. ASSUME NEW a \in Agent, NEW enabled \in BOOLEAN, NEW interval \in Interval,
             AgentCreated(a, enabled, interval)
      PROVE  SlotKept'
  <2>1. run' = run /\ \A b \in Agent \ {a} : agent'[b] = agent[b]
    BY <1>1, <1>2 DEF AgentCreated, TablesOK
  <2>2. \A r \in Run : run[r].agent # a
    BY <1>1, <1>2 DEF AgentCreated, RunsHaveAgents
  <2> QED BY <1>1, <2>1, <2>2 DEF SlotKept
<1>3. ASSUME NEW a \in Agent, NEW enabled \in BOOLEAN,
             NEW interval \in Interval, AgentSaved(a, enabled, interval)
      PROVE  SlotKept'
  <2>1. PICK t \in Moment(a) : agent' = [agent EXCEPT ![a] = Saved(@, agent[a].rev, enabled, interval, t)]
    BY <1>3 DEF AgentSaved
  <2>2. run' = run /\ agent'[a].active = agent[a].active
    BY <1>1, <1>3, <2>1 DEF AgentSaved, TablesOK, Saved
  <2>3. \A b \in Agent \ {a} : agent'[b] = agent[b]
    BY <1>1, <2>1 DEF TablesOK
  <2> QED BY <1>1, <2>2, <2>3 DEF SlotKept
<1>4. ASSUME NEW a \in Agent, NEW r \in Run, NEW trigger \in {"MANUAL", "SCHEDULE"},
             RunQueued(a, r, trigger)
      PROVE  SlotKept'
  <2>1. PICK created \in Moment(a), slot \in Moment(a) :
           /\ run' = [run EXCEPT ![r] = Snapshot(a, agent[a], trigger, created)]
           /\ agent' = [agent EXCEPT ![a] = Occupied(@, r, slot)]
    BY <1>4 DEF RunQueued
  <2>2. /\ run'[r].agent = a /\ \A q \in Run \ {r} : run'[q] = run[q]
        /\ agent'[a].active = r /\ \A b \in Agent \ {a} : agent'[b] = agent[b]
    BY <1>1, <2>1 DEF TablesOK, Snapshot, Occupied
  <2>3. \A q \in Run : run[q].agent = a => run[q].state \notin Pending
    BY <1>1, <1>4, Constants DEF RunQueued, SlotKept
  <2> SUFFICES ASSUME NEW b \in Agent, NEW q \in Run, run'[q].agent = b, run'[q].state \in Pending
               PROVE  agent'[b].active = q
    BY DEF SlotKept
  <2>4. CASE q = r
    BY <2>2, <2>4
  <2>5. CASE q # r
    BY <1>1, <2>2, <2>3, <2>5 DEF SlotKept
  <2> QED BY <2>4, <2>5
<1>5. ASSUME NEW r \in Run, RunStarted(r)
      PROVE  SlotKept'
  <2>1. /\ agent' = agent /\ run'[r].agent = run[r].agent /\ run[r].state \in Pending
        /\ \A q \in Run \ {r} : run'[q] = run[q]
    BY <1>1, <1>5, RunTypes DEF RunStarted, TablesOK, RunRow, Pending
  <2> QED BY <1>1, <2>1 DEF SlotKept
<1>6. ASSUME NEW r \in Run, NEW state \in Terminal, run[r].state \in Pending,
             run' = [run EXCEPT ![r].state = state],
             agent' = [agent EXCEPT ![run[r].agent] = Released(@, r)]
      PROVE  SlotKept'
  <2>1. run'[r].state = state /\ state \notin Pending /\ \A q \in Run \ {r} : run'[q] = run[q]
    BY <1>1, <1>6, RunTypes, Constants DEF TablesOK, RunRow, Terminal, Pending
  <2>2. \A b \in Agent : agent[b].active # r => agent'[b].active = agent[b].active
    BY <1>1, <1>6 DEF TablesOK, Released
  <2> QED BY <1>1, <2>1, <2>2 DEF SlotKept
<1>7. ASSUME NEW r \in Run, RunCancelled(r)
      PROVE  SlotKept'
  BY <1>6, <1>7 DEF RunCancelled, Terminal, Pending
<1>8. ASSUME NEW r \in Run, NEW outcome \in Outcome, RunFinished(r, outcome)
      PROVE  SlotKept'
  BY <1>6, <1>8, Constants DEF RunFinished, Pending
<1>9. CASE ClockTicks \/ UNCHANGED tables
  BY <1>1, <1>9 DEF ClockTicks, tables, SlotKept
<1> QED BY <1>2, <1>3, <1>4, <1>5, <1>7, <1>8, <1>9 DEF LifecycleNext

(* Every step preserves the invariant.                                      *)
LEMMA LifecycleNextInv == TablesInv /\ [LifecycleNext]_tables => TablesInv'
BY LossyNextInv, KeptNextInv DEF TablesInv, LossyNext

(* The slots agree with the pending runs.                                   *)
LEMMA SlotsAgree == TablesInv => TablesOK /\ SlotAgreement /\ ScheduledGap
BY DEF TablesInv, LossyInv, SlotHolder, SlotKept, SlotAgreement

(* The inductive invariant holds in every reachable state of the tables.    *)
THEOREM LifecycleInvariant == LifecycleSpec => []TablesInv
BY LifecycleInitInv, LifecycleNextInv, PTL DEF LifecycleSpec

(* The tables stay well-typed, ActiveRun always agrees with the pending     *)
(* runs, and scheduled runs keep their distance, for all constants.         *)
THEOREM LifecycleSafety == LifecycleSpec => [](TablesOK /\ SlotAgreement /\ ScheduledGap)
BY SlotsAgree, LifecycleInvariant, PTL

(* Where slots may be lost, rows keep their types, scheduled runs keep      *)
(* their distance, and a slot is still held only by a pending run of its    *)
(* agent.                                                                   *)
THEOREM LossySafety == LossySpec => [](TablesOK /\ SlotHolder /\ ScheduledGap)
<1>1. LifecycleInit => LossyInv
  BY LifecycleInitInv DEF TablesInv
<1>2. LossyInv => TablesOK /\ SlotHolder /\ ScheduledGap
  BY DEF LossyInv
<1> QED BY <1>1, <1>2, LossyNextInv, PTL DEF LossySpec
=============================================================================
