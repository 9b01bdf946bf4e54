--------------------------- MODULE RunQueueProofs ----------------------------
(****************************************************************************)
(* RunQueue implements RunLifecycle for every set of agents, runs and       *)
(* sessions, provided the server rolls a killed session back before another *)
(* process reads its rows (LateRollback = {}).  Otherwise the claim is       *)
(* false: run late_rollback of MCRunQueue shows a counterexample.  Then the *)
(* sessions implement LossySpec, in which a queued run may lose its slot,   *)
(* and nothing else goes wrong.  One invariant serves both.                 *)
(*                                                                          *)
(* The inductive invariant QueueInv says, for each session, which row lock  *)
(* it holds (Owns), what it was asked to do (Aims), and how the rows it has *)
(* written relate to the committed rows of the agent it holds (Work): at    *)
(* COMMIT they are those the atomic operation would store.                  *)
(****************************************************************************)
EXTENDS RunQueue, RunLifecycleProofs

(* A run recover or finish may be asked to end.  It has been started, or,   *)
(* with late rollbacks, it was seen RUNNING by the claim of a process that is *)
(* dead, and may still be QUEUED.                                           *)
MayFinish(r) ==
    /\ run[r].state # "ABSENT"
    /\ LateRollback = {} => run[r].state # "QUEUED"

(* Locks and writes: a session has written rows only while it holds the     *)
(* lock of its agent, and holds no other.  A dead one may still do so.      *)
Owns(s) ==
    /\ pc[s] = "dead" => LateRollback # {}
    /\ pc[s] \in Locked => lock[call[s].agent] = s
    /\ wRun[s] # None => call[s].agent \in Agent /\ lock[call[s].agent] = s
    /\ \A a \in Agent : lock[a] = s => pc[s] \in Locked \cup {"dead"} /\ call[s].agent = a
    /\ pc[s] \notin Locked \cup {"dead"} => wAgent[s] = None /\ wRun[s] = None

(* Targets: sessions that name the same run name the same agent, and the    *)
(* lists walked by schedule and recover hold agents and runs to end.        *)
Aims(s) ==
    /\ IF pc[s] \in {"idle", "loop"} THEN call[s].agent = None /\ call[s].run = None
       ELSE pc[s] # "dead" => call[s].agent \in Agent
    /\ pc[s] \in {"claim_lock", "claim_run", "cancel_run"}
         => call[s].op = "claim" /\ call[s].run \in Run
    /\ pc[s] = "fin_lock" => call[s].op = "finish" /\ call[s].run \in Run
    /\ pc[s] = "fin_lock" => MayFinish(call[s].run)
    /\ call[s].run # None =>
          /\ run[call[s].run].agent \in {None, call[s].agent}
          /\ \A t \in Session : call[t].run = call[s].run => call[t].agent = call[s].agent
    /\ call[s].op = "enqueue" => todo[s] \subseteq Agent
    /\ call[s].op = "finish" => todo[s] \subseteq Run /\ \A r \in todo[s] : MayFinish(r)
    /\ pc[s] = "idle" \/ call[s].op \notin {"enqueue", "finish"} => todo[s] = {}

(* The enqueue check passed, and still holds for a clock reading t.         *)
MayQueue(s, t) ==
    /\ Exists(call[s].agent)
    /\ agent[call[s].agent].enabled
    /\ agent[call[s].agent].active = None
    /\ call[s].trigger = "SCHEDULE" => DueAt(agent[call[s].agent], t)

QueuedAt(s, t) ==
    /\ call[s].run \in Run
    /\ run[call[s].run].state = "ABSENT"
    /\ MayQueue(s, t)
    /\ wRun[s] = Snapshot(call[s].agent, agent[call[s].agent], call[s].trigger, t)

MaySave(s) ==
    /\ Exists(call[s].agent)
    /\ agent[call[s].agent].rev = call[s].form.rev
    /\ call[s].form.interval \in Interval
    /\ call[s].form.enabled \in BOOLEAN

(* The run row a claim, a cancellation or a finish has written.             *)
Moved(s, from, to) ==
    /\ call[s].op \in {"claim", "finish"}
    /\ call[s].run \in Run
    /\ run[call[s].run].state = from
    /\ wRun[s] = [run[call[s].run] EXCEPT !.state = to]

Ending(s) ==
    \/ Moved(s, "QUEUED", "CANCELLED") /\ ~agent[call[s].agent].enabled
    \/ Moved(s, "RUNNING", call[s].outcome)

(* The run was not RUNNING after all: the claim recover saw is gone.        *)
Unclaimed(s) ==
    /\ LateRollback # {}
    /\ wRun[s] = None
    /\ call[s].run \in Run
    /\ run[call[s].run].state = "QUEUED"

FreedSlot(s) ==
    IF agent[call[s].agent].active = call[s].run
    THEN wAgent[s] = Released(agent[call[s].agent], call[s].run)
    ELSE wAgent[s] = None

(* What a session can have written to MVP_RUN: a queued run, or the next    *)
(* state of one.                                                            *)
Written(s) ==
    \/ \E t \in Moment(call[s].agent) : QueuedAt(s, t)
    \/ \E from \in Pending, to \in Pending \cup Terminal : Moved(s, from, to)

(* The operation of RunLifecycle a session about to COMMIT stands for.      *)
Complete(s) ==
    \/ /\ ~Exists(call[s].agent) /\ wRun[s] = None
       /\ \E enabled \in BOOLEAN, interval \in Interval, t \in Moment(call[s].agent) :
             wAgent[s] = Inserted(enabled, interval, t)
    \/ /\ MaySave(s) /\ wRun[s] = None
       /\ \E t \in Moment(call[s].agent) :
             wAgent[s] = Saved(agent[call[s].agent], call[s].form.rev, call[s].form.enabled,
                             call[s].form.interval, t)
    \/ \E created \in Moment(call[s].agent), slot \in Moment(call[s].agent) :
          /\ created <= slot
          /\ QueuedAt(s, created)
          /\ wAgent[s] = Occupied(agent[call[s].agent], call[s].run, slot)
    \/ /\ Moved(s, "QUEUED", "RUNNING")
       /\ agent[call[s].agent].enabled
       /\ wAgent[s] = None
    \/ (Ending(s) \/ Unclaimed(s)) /\ FreedSlot(s)
    \/ wAgent[s] = None /\ wRun[s] = None

Work(s) ==
    /\ pc[s] \in {"save_lock", "save_write"} =>
          /\ call[s].form.interval \in Interval
          /\ call[s].form.enabled \in BOOLEAN
    /\ pc[s] \in {"save_write", "enq_insert", "claim_run", "cancel_run"}
         => wAgent[s] = None /\ wRun[s] = None
    /\ pc[s] = "save_write" => MaySave(s)
    /\ pc[s] = "enq_insert" => MayQueue(s, clock)
    /\ pc[s] = "enq_slot" =>
          wAgent[s] = None /\ \E created \in Moment(call[s].agent) : QueuedAt(s, created)
    /\ pc[s] \in {"claim_run", "cancel_run"} => run[call[s].run].state = "QUEUED"
    /\ pc[s] = "claim_run" => agent[call[s].agent].enabled
    /\ pc[s] = "cancel_run" => ~agent[call[s].agent].enabled
    /\ pc[s] = "free_slot" =>
          /\ wAgent[s] = None
          /\ call[s].run \in Run
          /\ \/ Ending(s) \/ Unclaimed(s)
             \/ wRun[s] = None /\ run[call[s].run].state \in Terminal
    /\ pc[s] = "commit" => Complete(s)
    /\ pc[s] = "dead" /\ wRun[s] # None => Written(s)

QueueInv ==
    /\ TypeOK
    /\ LossyInv
    /\ \A s \in Session : Owns(s) /\ Aims(s) /\ Work(s)

-----------------------------------------------------------------------------
(* What the reads of a session return.                                      *)

(* The types of what one session keeps.                                     *)
LEMMA SessionTypes ==
    ASSUME TypeOK, NEW s \in Session
    PROVE  /\ call[s] \in Call /\ pc[s] \in PC /\ todo[s] \subseteq Agent \cup Run
           /\ call[s].agent \in Agent \cup {None} /\ call[s].run \in Run \cup {None}
           /\ call[s].trigger \in {"MANUAL", "SCHEDULE"} /\ call[s].form \in Form
           /\ call[s].form.rev \in Nat /\ call[s].outcome \in Outcome /\ call[s].form.interval \in Nat
           /\ wAgent[s] \in AgentRow \cup {None} /\ wRun[s] \in RunRow \cup {None}
BY DEF TypeOK, Call, Form

(* What the invariant says of one session.                                  *)
LEMMA SessionFacts ==
    ASSUME QueueInv, NEW s \in Session
    PROVE  Owns(s) /\ Aims(s) /\ Work(s) /\ s # None /\ TypeOK /\ LossyInv /\ TablesOK
BY SessionAssumption DEF QueueInv, TypeOK

(* A session that holds the lock, or waits for a free one, reads the        *)
(* committed row of its agent as long as it has not written it.             *)
LEMMA HeldAgentSeen ==
    ASSUME NEW s \in Session, NEW a \in Agent, lock[a] \in {None, s}, wAgent[s] = None
    PROVE  AgentSeen(a) = agent[a]
BY DEF AgentSeen

(* What is read of an agent is a row of its table.                          *)
LEMMA AgentSeenType ==
    ASSUME QueueInv, NEW a \in Agent
    PROVE  AgentSeen(a) \in AgentRow /\ AgentSeen(a).rev \in Nat
<1>1. TypeOK /\ TablesOK
  BY DEF QueueInv, TypeOK
<1>2. AgentSeen(a) \in AgentRow
  BY <1>1, AgentTypes DEF AgentSeen, TypeOK
<1> QED BY <1>2 DEF AgentRow

(* A written run row is a new row, or the next state of a committed one.    *)
LEMMA WorkIsWritten ==
    ASSUME QueueInv, NEW s \in Session, wRun[s] # None
    PROVE  Written(s)
<1>1. Owns(s) /\ Work(s) /\ TypeOK
  BY SessionFacts
<1>2. call[s].outcome \in Terminal
  BY <1>1, SessionTypes, Constants
<1>3. Ending(s) => Written(s)
  BY <1>2 DEF Ending, Written, Pending, Terminal
<1>4. Moved(s, "QUEUED", "RUNNING") => Written(s)
  BY DEF Written, Pending
<1>5. CASE pc[s] = "dead"
  BY <1>1, <1>5 DEF Work
<1>6. CASE pc[s] = "commit"
  <2>1. Complete(s)
    BY <1>1, <1>6 DEF Work
  <2> QED BY <1>3, <1>4, <2>1 DEF Complete, Unclaimed, Written
<1>7. CASE pc[s] \in Locked \ {"commit"}
  BY <1>1, <1>3, <1>7 DEF Locked, Work, Unclaimed, Written
<1> QED BY <1>1, <1>5, <1>6, <1>7 DEF Owns

(* It belongs to the agent its session has locked, and is RUNNING or        *)
(* terminal only if a claim or a finish wrote it, over a committed row.     *)
LEMMA WrittenRun ==
    ASSUME QueueInv, NEW s \in Session, wRun[s] # None
    PROVE  /\ lock[call[s].agent] = s
           /\ call[s].agent \in Agent /\ call[s].run \in Run
           /\ wRun[s] \in RunRow /\ wRun[s].agent = call[s].agent
           /\ wRun[s].state # "ABSENT"
           /\ \/ wRun[s].state = "QUEUED"
              \/ call[s].op \in {"claim", "finish"} /\ run[call[s].run].state # "ABSENT"
<1>1. Owns(s) /\ Aims(s) /\ TypeOK /\ TablesOK
  BY SessionFacts
<1>2. lock[call[s].agent] = s /\ call[s].agent \in Agent /\ wRun[s] \in RunRow
  BY <1>1, SessionTypes DEF Owns
<1>3. \/ \E t \in Moment(call[s].agent) : QueuedAt(s, t)
      \/ \E from \in Pending, to \in Pending \cup Terminal : Moved(s, from, to)
  BY WorkIsWritten DEF Written
<1>4. CASE \E t \in Moment(call[s].agent) : QueuedAt(s, t)
  <2>1. PICK t \in Moment(call[s].agent) : QueuedAt(s, t)
    BY <1>4
  <2>2. t \in Nat /\ agent[call[s].agent] \in AgentRow /\ call[s].trigger \in {"MANUAL", "SCHEDULE"}
    BY <1>1, <1>2, MomentFacts, AgentTypes, SessionTypes
  <2> QED BY <1>2, <2>1, <2>2, SnapshotRow DEF QueuedAt
<1>5. CASE \E from \in Pending, to \in Pending \cup Terminal : Moved(s, from, to)
  <2>1. PICK from \in Pending, to \in Pending \cup Terminal : Moved(s, from, to)
    BY <1>5
  <2>2. run[call[s].run].agent = call[s].agent
    BY <1>1, <2>1, Constants DEF Moved, Aims, TablesOK, Pending
  <2>3. run[call[s].run] \in RunRow /\ to # "ABSENT"
    BY <1>1, <2>1, RunTypes, Constants DEF Moved, Pending, Terminal
  <2>4. wRun[s].agent = call[s].agent /\ wRun[s].state = to
    BY <2>1, <2>2, <2>3 DEF Moved, RunRow
  <2> QED BY <1>2, <2>1, <2>3, <2>4 DEF Moved, Pending
<1> QED BY <1>3, <1>4, <1>5

(* Under the lock of its agent a session reads the committed row of a run   *)
(* it has not written: nobody else can have written it.                     *)
LEMMA HeldRunSeen ==
    ASSUME QueueInv, NEW s \in Session, call[s].run \in Run, call[s].agent \in Agent,
           lock[call[s].agent] \in {None, s}, wRun[s] = None
    PROVE  RunSeen(call[s].run) = run[call[s].run]
<1>1. ASSUME NEW t \in Writers(call[s].run) PROVE FALSE
  <2>1. t \in Session /\ call[t].run = call[s].run /\ wRun[t] # None
    BY DEF Writers
  <2>2. lock[call[t].agent] = t /\ t # None
    BY <2>1, WrittenRun, SessionFacts
  <2>3. call[t].agent = call[s].agent
    BY <2>1, SessionFacts, Constants DEF Aims
  <2> QED BY <2>1, <2>2, <2>3
<1> QED BY <1>1 DEF RunSeen

(* Whatever version of a run is read, its agent is the one every session    *)
(* that names the run has named.                                            *)
LEMMA RunSeenAgent ==
    ASSUME QueueInv, NEW r \in Run, RunSeen(r).state # "ABSENT"
    PROVE  /\ RunSeen(r).agent \in Agent
           /\ run[r].agent \in {None, RunSeen(r).agent}
           /\ \A t \in Session : call[t].run = r => call[t].agent = RunSeen(r).agent
<1>1. CASE Writers(r) # {}
  <2>1. PICK s \in Session : call[s].run = r /\ wRun[s] # None /\ RunSeen(r) = wRun[s]
    BY <1>1 DEF RunSeen, Writers
  <2> QED BY <2>1, WrittenRun, SessionFacts, Constants DEF Aims
<1>2. CASE Writers(r) = {}
  <2>1. RunSeen(r) = run[r] /\ TablesOK
    BY <1>2, SessionFacts DEF RunSeen, QueueInv, TypeOK
  <2>2. run[r].agent \in Agent
    BY <2>1, RunTypes DEF TablesOK
  <2> QED BY <2>1, <2>2, SessionFacts, Constants DEF Aims
<1> QED BY <1>1, <1>2

-----------------------------------------------------------------------------
(* A step of s that commits nothing leaves the invariant of every other     *)
(* session alone.                                                           *)

Others(s) ==
    /\ \A t \in Session \ {s} :
          /\ pc'[t] = pc[t] /\ call'[t] = call[t] /\ todo'[t] = todo[t]
          /\ wAgent'[t] = wAgent[t] /\ wRun'[t] = wRun[t]
    /\ \A a \in Agent :
          lock'[a] = lock[a] \/ (lock[a] \in {None, s} /\ lock'[a] \in {None, s})

(* A step of s that touches no other session leaves them their locks,       *)
LEMMA OthersOwn ==
    ASSUME QueueInv, NEW s \in Session, Others(s), NEW t \in Session \ {s}
    PROVE  Owns(t)'
<1>1. Owns(t) /\ Aims(t) /\ t # None
  BY SessionFacts
<1>2. pc[t] \in Locked => call[t].agent \in Agent
  BY <1>1 DEF Aims, Locked
<1> QED BY <1>1, <1>2 DEF Owns, Others

(* what they were asked to do,                                              *)
LEMMA OthersAim ==
    ASSUME QueueInv, NEW s \in Session, Others(s), UNCHANGED tables, Aims(s)',
           NEW t \in Session \ {s}
    PROVE  Aims(t)'
<1>1. Aims(t) /\ pc'[t] = pc[t] /\ call'[t] = call[t] /\ todo'[t] = todo[t] /\ run' = run
  BY SessionFacts DEF Others, tables
<1>2. ASSUME NEW u \in Session, call'[u].run = call'[t].run, call'[t].run # None
      PROVE  call'[u].agent = call'[t].agent
  <2>1. CASE u = s
    BY <2>1, <1>2 DEF Aims
  <2>2. CASE u # s
    <3>1. call'[u] = call[u]
      BY <2>2 DEF Others
    <3> QED BY <3>1, <1>1, <1>2 DEF Aims
  <2> QED BY <2>1, <2>2
<1> QED BY <1>1, <1>2 DEF Aims, MayFinish

(* and what they have written.                                              *)
LEMMA OthersWork ==
    ASSUME QueueInv, NEW s \in Session, Others(s), UNCHANGED tables,
           NEW t \in Session \ {s}
    PROVE  Work(t)'
<1>1. /\ Work(t) /\ pc'[t] = pc[t] /\ call'[t] = call[t]
      /\ wAgent'[t] = wAgent[t] /\ wRun'[t] = wRun[t]
      /\ run' = run /\ agent' = agent /\ clock' = clock
  BY SessionFacts DEF Others, tables
<1>2. \A c : QueuedAt(t, c)' <=> QueuedAt(t, c)
  BY <1>1 DEF QueuedAt, MayQueue, Exists
<1>3. /\ MaySave(t)' <=> MaySave(t)
      /\ MayQueue(t, clock)' <=> MayQueue(t, clock)
      /\ Ending(t)' <=> Ending(t)
      /\ Unclaimed(t)' <=> Unclaimed(t)
      /\ FreedSlot(t)' <=> FreedSlot(t)
  BY <1>1 DEF MaySave, MayQueue, Exists, Ending, Moved, Unclaimed, FreedSlot
<1>4. \A from, to : Moved(t, from, to)' <=> Moved(t, from, to)
  BY <1>1 DEF Moved
<1>5. Moment(call[t].agent)' = Moment(call[t].agent)
  BY <1>1 DEF Moment, RunsOf
<1>6. Written(t)' <=> Written(t)
  BY <1>1, <1>2, <1>4, <1>5 DEF Written
<1>7. Complete(t) => Complete(t)'
  BY <1>1, <1>2, <1>3, <1>4, <1>5 DEF Complete, Exists
<1> QED BY <1>1, <1>2, <1>3, <1>5, <1>6, <1>7 DEF Work

(* Work(t) depends on nothing but the session, its agent and its run.       *)
LEMMA KeepsWork ==
    ASSUME NEW t \in Session, Work(t), Aims(t), pc[t] \in Locked \cup {"dead"},
           pc'[t] = pc[t], call'[t] = call[t], wAgent'[t] = wAgent[t], wRun'[t] = wRun[t],
           agent'[call[t].agent] = agent[call[t].agent], clock' = clock,
           call[t].run \in Run => run'[call[t].run] = run[call[t].run],
           Moment(call[t].agent)' = Moment(call[t].agent)
    PROVE  Work(t)'
<1>1. MaySave(t)' <=> MaySave(t)
  BY DEF MaySave, Exists
<1>2. \A c : MayQueue(t, c)' <=> MayQueue(t, c)
  BY DEF MayQueue, Exists
<1>3. \A c : QueuedAt(t, c)' <=> QueuedAt(t, c)
  BY <1>2 DEF QueuedAt
<1>4. \A from, to : Moved(t, from, to)' <=> Moved(t, from, to)
  BY DEF Moved
<1>5. Ending(t)' <=> Ending(t)
  BY <1>4 DEF Ending
<1>6. FreedSlot(t)' <=> FreedSlot(t)
  BY DEF FreedSlot
<1>7. Unclaimed(t)' <=> Unclaimed(t)
  BY DEF Unclaimed
<1>8. Complete(t)' <=> Complete(t)
  BY <1>1, <1>3, <1>4, <1>5, <1>6, <1>7 DEF Complete, Exists
<1>9. Written(t)' <=> Written(t)
  BY <1>3, <1>4 DEF Written
<1>10. pc[t] \in {"claim_run", "cancel_run"} => call[t].run \in Run
  BY DEF Aims
<1> QED BY <1>1, <1>2, <1>3, <1>5, <1>7, <1>8, <1>9, <1>10 DEF Work

(* A step inside one transaction.                                           *)
LEMMA LocalStep ==
    ASSUME QueueInv, NEW s \in Session, Others(s), UNCHANGED tables,
           TypeOK', Owns(s)', Aims(s)', Work(s)'
    PROVE  QueueInv'
<1>1. LossyInv'
  BY LossyNextInv DEF QueueInv
<1>2. \A t \in Session \ {s} : Owns(t)' /\ Aims(t)' /\ Work(t)'
  BY OthersOwn, OthersAim, OthersWork
<1> QED BY <1>1, <1>2 DEF QueueInv

(* The end of a transaction without writes: rollback, refusal, conflict.    *)
LEMMA EndStep ==
    ASSUME QueueInv, NEW s \in Session, NEW rest, rest \in {todo[s], {}},
           EndWith(s, rest), UNCHANGED tables, rest # {} => call[s].op \in {"enqueue", "finish"}
    PROVE  QueueInv'
<1>1. TypeOK /\ Aims(s) /\ Owns(s) /\ s # None /\ TablesOK
  BY SessionFacts
<1>2. /\ lock' = [a \in Agent |-> IF lock[a] = s THEN None ELSE lock[a]]
      /\ pc' = [pc EXCEPT ![s] = IF rest = {} THEN "idle" ELSE "loop"]
      /\ call' = [call EXCEPT ![s] =
                    IF rest = {} THEN NoCall ELSE CallOf(call[s].op, None, None)]
      /\ todo' = [todo EXCEPT ![s] = rest]
      /\ wAgent' = [wAgent EXCEPT ![s] = None]
      /\ wRun' = [wRun EXCEPT ![s] = None]
      /\ agent' = agent /\ run' = run /\ clock' = clock
  BY DEF EndWith, Goto, tables
<1>3. /\ NoCall \in Call /\ NoCall.agent = None /\ NoCall.run = None /\ NoCall.op = "none"
      /\ rest # {} => /\ CallOf(call[s].op, None, None) \in Call
                      /\ CallOf(call[s].op, None, None).agent = None
                      /\ CallOf(call[s].op, None, None).run = None
                      /\ CallOf(call[s].op, None, None).op = call[s].op
  BY <1>1, SessionTypes, OutcomeAssumption DEF NoCall, CallOf, Call, Ops, Form
<1>4. Others(s)
  BY <1>1, <1>2 DEF Others, TypeOK
<1>5. TypeOK'
  <2>1. TablesOK'
    BY <1>1, <1>2 DEF TablesOK
  <2>2. rest \subseteq Agent \cup Run
    BY <1>1, SessionTypes
  <2> QED BY <1>1, <1>2, <1>3, <2>1, <2>2 DEF TypeOK, PC
<1>6. /\ pc'[s] = IF rest = {} THEN "idle" ELSE "loop"
      /\ call'[s].agent = None /\ call'[s].run = None
      /\ call'[s].op = IF rest = {} THEN "none" ELSE call[s].op
      /\ todo'[s] = rest /\ wAgent'[s] = None /\ wRun'[s] = None
  BY <1>1, <1>2, <1>3 DEF TypeOK
<1>7. Owns(s)'
  BY <1>1, <1>2, <1>6 DEF Owns, Locked
<1>8. Aims(s)'
  BY <1>1, <1>2, <1>6 DEF Aims, MayFinish
<1>9. Work(s)'
  BY <1>6 DEF Work
<1> QED BY <1>2, <1>4, <1>5, <1>7, <1>8, <1>9, LocalStep DEF tables

-----------------------------------------------------------------------------
(* Taking up a call.                                                        *)

(* A step that takes up a call.                                             *)
LEMMA BeginStep ==
    ASSUME QueueInv, NEW s \in Session, NEW c \in Call, NEW rest \in SUBSET (Agent \cup Run),
           NEW next \in Waiting \cup {"loop"}, pc[s] \in {"idle", "loop"},
           Begin(s, c, rest, next),
           IF next = "loop" THEN c.agent = None /\ c.run = None ELSE c.agent \in Agent,
           next = "claim_lock" => c.op = "claim" /\ c.run \in Run,
           next = "fin_lock" => c.op = "finish" /\ c.run \in Run /\ MayFinish(c.run),
           next = "save_lock" =>
              c.form.interval \in Interval /\ c.form.enabled \in BOOLEAN,
           c.run # None =>
              /\ run[c.run].agent \in {None, c.agent}
              /\ \A t \in Session : call[t].run = c.run => call[t].agent = c.agent,
           c.op = "enqueue" => rest \subseteq Agent,
           c.op = "finish" => rest \subseteq Run /\ \A r \in rest : MayFinish(r),
           c.op \notin {"enqueue", "finish"} => rest = {}
    PROVE  QueueInv'
<1>1. TypeOK /\ Owns(s) /\ Aims(s) /\ s # None /\ TablesOK
  BY SessionFacts
<1>2. /\ call' = [call EXCEPT ![s] = c] /\ todo' = [todo EXCEPT ![s] = rest]
      /\ pc' = [pc EXCEPT ![s] = next]
      /\ lock' = lock /\ wAgent' = wAgent /\ wRun' = wRun
      /\ agent' = agent /\ run' = run /\ clock' = clock
  BY DEF Begin, Goto, tables, writes
<1>3. Others(s)
  BY <1>1, <1>2 DEF Others, TypeOK
<1>4. TypeOK'
  <2>1. TablesOK'
    BY <1>1, <1>2 DEF TablesOK
  <2> QED BY <1>1, <1>2, <2>1 DEF TypeOK, PC
<1>5. call'[s] = c /\ todo'[s] = rest /\ pc'[s] = next /\ wAgent'[s] = wAgent[s] /\ wRun'[s] = wRun[s]
  BY <1>1, <1>2 DEF TypeOK
<1>6. pc[s] \notin Locked /\ pc'[s] \notin Locked /\ pc'[s] \notin {"idle", "dead"}
  BY <1>5 DEF Locked, Waiting
<1>7. Owns(s)'
  BY <1>1, <1>2, <1>5, <1>6 DEF Owns
<1>8. Aims(s)'
  <2>1. \A t \in Session : call'[t].run = c.run /\ c.run # None => call'[t].agent = c.agent
    <3> SUFFICES ASSUME NEW t \in Session, call'[t].run = c.run, c.run # None
                 PROVE  call'[t].agent = c.agent
      OBVIOUS
    <3>1. CASE t = s
      BY <3>1, <1>5
    <3>2. CASE t # s
      BY <3>2, <1>3 DEF Others
    <3> QED BY <3>1, <3>2
  <2>2. pc'[s] \notin {"claim_run", "cancel_run"}
    BY <1>6 DEF Locked
  <2> QED BY <1>2, <1>5, <1>6, <2>1, <2>2 DEF Aims, MayFinish, Waiting
<1>9. Work(s)'
  BY <1>5, <1>6 DEF Work, Locked
<1> QED BY <1>2, <1>3, <1>4, <1>7, <1>8, <1>9, LocalStep DEF tables

(* A request to save an agent.                                              *)
LEMMA SaveStep ==
    ASSUME QueueInv, NEW s \in Session, NEW a \in Agent, NEW enabled \in BOOLEAN,
           NEW interval \in Interval, NEW loaded \in Nat, Save(s, a, loaded, enabled, interval)
    PROVE  QueueInv'
<1> DEFINE form == [rev |-> loaded, enabled |-> enabled, interval |-> interval]
           c == [CallOf("save", a, None) EXCEPT !.form = form]
<1>1. /\ pc[s] = "idle" /\ Begin(s, c, {}, "save_lock") /\ interval \in Nat
  BY Constants DEF Save
<1>2. /\ form \in Form
      /\ form.interval \in Interval /\ form.enabled \in BOOLEAN
  BY <1>1 DEF Form
<1> HIDE DEF form
<1>3. c \in Call /\ c.op = "save" /\ c.agent = a /\ c.run = None /\ c.form = form
  BY <1>2, OutcomeAssumption DEF CallOf, Call, Ops, Form
<1> HIDE DEF c
<1> QED BY <1>1, <1>2, <1>3, BeginStep DEF Waiting

(* A request to queue a run.                                                *)
LEMMA EnqueueStep ==
    ASSUME QueueInv, NEW s \in Session, NEW a \in Agent, NEW trigger \in {"MANUAL", "SCHEDULE"},
           NEW rest, rest \subseteq Agent, pc[s] \in {"idle", "loop"}, Enqueue(s, a, trigger, rest)
    PROVE  QueueInv'
<1> DEFINE c == [CallOf("enqueue", a, None) EXCEPT !.trigger = trigger]
<1>1. Begin(s, c, rest, "enq_lock")
  BY DEF Enqueue
<1>2. c \in Call /\ c.op = "enqueue" /\ c.agent = a /\ c.run = None
  BY OutcomeAssumption DEF CallOf, Call, Ops, Form
<1> HIDE DEF c
<1> QED BY <1>1, <1>2, BeginStep DEF Waiting

(* A list of due agents is read.                                            *)
LEMMA ScheduleStep ==
    ASSUME QueueInv, NEW s \in Session, Schedule(s)
    PROVE  QueueInv'
<1> DEFINE c == CallOf("enqueue", None, None)
<1>1. pc[s] = "idle" /\ Begin(s, c, DueAgents, "loop") /\ DueAgents \subseteq Agent
  BY DEF Schedule, DueAgents
<1>2. c \in Call /\ c.op = "enqueue" /\ c.agent = None /\ c.run = None
  BY OutcomeAssumption DEF CallOf, Call, Ops, Form
<1> HIDE DEF c
<1> QED BY <1>1, <1>2, BeginStep

(* The oldest queued run is chosen.                                         *)
LEMMA ClaimStep ==
    ASSUME QueueInv, NEW s \in Session, Claim(s)
    PROVE  QueueInv'
<1>1. PICK r \in Run : /\ OldestQueued(r)
                       /\ Begin(s, CallOf("claim", RunSeen(r).agent, r), {}, "claim_lock")
  BY DEF Claim
<1> DEFINE c == CallOf("claim", RunSeen(r).agent, r)
<1>2. /\ RunSeen(r).agent \in Agent
      /\ run[r].agent \in {None, RunSeen(r).agent}
      /\ \A t \in Session : call[t].run = r => call[t].agent = RunSeen(r).agent
  BY <1>1, RunSeenAgent DEF OldestQueued
<1>3. c \in Call /\ c.op = "claim" /\ c.agent = RunSeen(r).agent /\ c.run = r
  BY <1>2, OutcomeAssumption DEF CallOf, Call, Ops, Form
<1>4. pc[s] = "idle" /\ Begin(s, c, {}, "claim_lock")
  BY <1>1 DEF Claim
<1> HIDE DEF c
<1> QED BY <1>2, <1>3, <1>4, BeginStep DEF Waiting

(* A run is to be finished.                                                 *)
LEMMA FinishCallStep ==
    ASSUME QueueInv, NEW s \in Session, NEW r \in Run, NEW outcome \in Outcome, NEW rest,
           rest \subseteq Run, \A q \in rest : MayFinish(q), MayFinish(r),
           pc[s] \in {"idle", "loop"}, FinishCall(s, r, outcome, rest)
    PROVE  QueueInv'
<1> DEFINE c == [CallOf("finish", RunSeen(r).agent, r) EXCEPT !.outcome = outcome]
<1>1. Begin(s, c, rest, "fin_lock")
  BY DEF FinishCall
<1>2. RunSeen(r).state # "ABSENT"
  <2>1. CASE Writers(r) # {}
    BY <2>1, WrittenRun DEF RunSeen, Writers
  <2>2. CASE Writers(r) = {}
    BY <2>2 DEF RunSeen, MayFinish
  <2> QED BY <2>1, <2>2
<1>3. /\ RunSeen(r).agent \in Agent
      /\ run[r].agent \in {None, RunSeen(r).agent}
      /\ \A t \in Session : call[t].run = r => call[t].agent = RunSeen(r).agent
  BY <1>2, RunSeenAgent
<1>4. c \in Call /\ c.op = "finish" /\ c.agent = RunSeen(r).agent /\ c.run = r
  BY <1>3, OutcomeAssumption DEF CallOf, Call, Ops, Form
<1> HIDE DEF c
<1> QED BY <1>1, <1>3, <1>4, BeginStep DEF Waiting

(* No claim is open when recover lists the RUNNING runs, except, with       *)
(* late rollbacks, that of a dead process, whose run is committed QUEUED.   *)
LEMMA RecoverStep ==
    ASSUME QueueInv, NEW s \in Session, Recover(s)
    PROVE  QueueInv'
<1> DEFINE c == CallOf("finish", None, None)
<1>1. pc[s] = "idle" /\ Begin(s, c, SeenRunning, "loop") /\ SeenRunning \subseteq Run
  BY DEF Recover, SeenRunning
<1>2. c \in Call /\ c.op = "finish" /\ c.agent = None /\ c.run = None
  BY OutcomeAssumption DEF CallOf, Call, Ops, Form
<1>3. \A r \in SeenRunning : MayFinish(r)
  <2> SUFFICES ASSUME NEW r \in Run, RunSeen(r).state = "RUNNING" PROVE MayFinish(r)
    BY DEF SeenRunning
  <2>1. CASE Writers(r) = {}
    BY <2>1 DEF RunSeen, MayFinish
  <2>2. CASE Writers(r) # {}
    <3>1. PICK t \in Session : call[t].run = r /\ wRun[t] # None /\ RunSeen(r) = wRun[t]
      BY <2>2 DEF RunSeen, Writers
    <3>2. call[t].op \in {"claim", "finish"} /\ run[r].state # "ABSENT"
      BY <3>1, WrittenRun
    <3>3. pc[t] = "dead"
      BY <3>2 DEF Recover, WorkerFenced
    <3>4. LateRollback # {}
      BY <3>3, SessionFacts DEF Owns
    <3> QED BY <3>2, <3>4 DEF MayFinish
  <2> QED BY <2>1, <2>2
<1> HIDE DEF c
<1> QED BY <1>1, <1>2, <1>3, BeginStep

-----------------------------------------------------------------------------
(* Statements under the row lock.                                           *)

(* A session is granted the lock it waits for.                              *)
LEMMA HoldStep ==
    ASSUME QueueInv, NEW s \in Session, NEW next \in Locked, pc[s] \in Waiting \cup Locked,
           Goto(s, next), TakeLock(s, call[s].agent), UNCHANGED tables, UNCHANGED todo,
           NEW c \in Call, call' = [call EXCEPT ![s] = c], c.agent = call[s].agent,
           NEW x \in AgentRow \cup {None}, wAgent' = [wAgent EXCEPT ![s] = x],
           NEW y \in RunRow \cup {None}, wRun' = [wRun EXCEPT ![s] = y],
           Aims(s)', Work(s)'
    PROVE  QueueInv'
<1>1. TypeOK /\ Owns(s) /\ Aims(s) /\ s # None /\ TablesOK
  BY SessionFacts
<1>2. call[s].agent \in Agent
  BY <1>1 DEF Aims, Waiting, Locked
<1>3. /\ pc' = [pc EXCEPT ![s] = next] /\ lock' = [lock EXCEPT ![call[s].agent] = s]
      /\ lock[call[s].agent] \in {None, s}
      /\ agent' = agent /\ run' = run /\ clock' = clock /\ todo' = todo
  BY DEF Goto, TakeLock, tables
<1>4. Others(s)
  BY <1>1, <1>2, <1>3 DEF Others, TypeOK
<1>5. TypeOK'
  <2>1. TablesOK'
    BY <1>1, <1>3 DEF TablesOK
  <2> QED BY <1>1, <1>2, <1>3, <2>1 DEF TypeOK, PC
<1>6. Owns(s)'
  <2>1. pc'[s] = next /\ call'[s].agent = call[s].agent
    BY <1>1, <1>3 DEF TypeOK
  <2>2. lock'[call[s].agent] = s /\ \A a \in Agent \ {call[s].agent} : lock'[a] = lock[a]
    BY <1>1, <1>2, <1>3 DEF TypeOK
  <2>3. \A a \in Agent : lock[a] = s => a = call[s].agent
    BY <1>1 DEF Owns
  <2>4. next # "dead"
    BY DEF Locked
  <2> QED BY <1>2, <2>1, <2>2, <2>3, <2>4 DEF Owns
<1> QED BY <1>4, <1>5, <1>6, LocalStep

(* The same, for a session that keeps its call.                             *)
LEMMA HoldCallStep ==
    ASSUME QueueInv, NEW s \in Session, NEW next \in Locked, pc[s] \in Waiting \cup Locked,
           next \in {"claim_run", "cancel_run"} => pc[s] = "claim_lock",
           Goto(s, next), TakeLock(s, call[s].agent), UNCHANGED <<tables, call, todo>>,
           NEW x \in AgentRow \cup {None}, wAgent' = [wAgent EXCEPT ![s] = x],
           NEW y \in RunRow \cup {None}, wRun' = [wRun EXCEPT ![s] = y],
           Work(s)'
    PROVE  QueueInv'
<1>1. TypeOK /\ Aims(s) /\ pc'[s] = next
  BY SessionFacts DEF Goto, TypeOK
<1>2. call' = [call EXCEPT ![s] = call[s]] /\ call[s] \in Call
  BY <1>1, SessionTypes DEF TypeOK
<1>3. Aims(s)'
  BY <1>1 DEF Aims, MayFinish, Waiting, Locked, tables
<1> QED BY <1>2, <1>3, HoldStep

(* The clock may be read now.                                               *)
LEMMA NowIsAMoment ==
    ASSUME TablesOK, NEW a \in Agent
    PROVE  clock \in Moment(a) /\ clock \in Nat
BY DEF Moment, RunsOf, TablesOK

(* Writing what is there already changes nothing.                           *)
LEMMA KeepsWrites ==
    ASSUME TypeOK, NEW s \in Session
    PROVE  /\ wAgent = [wAgent EXCEPT ![s] = wAgent[s]]
           /\ wRun = [wRun EXCEPT ![s] = wRun[s]]
           /\ \A a \in Agent : lock[a] = s => lock = [lock EXCEPT ![a] = s]
BY DEF TypeOK

(* The revision is compared under the lock.                                 *)
LEMMA SaveLockStep ==
    ASSUME QueueInv, NEW s \in Session, SaveLock(s)
    PROVE  QueueInv'
<1>1. /\ pc[s] = "save_lock" /\ HoldRow(s) /\ Goto(s, "save_write")
      /\ AgentSeen(call[s].agent).rev = call[s].form.rev
      /\ UNCHANGED <<tables, call, todo>> /\ wAgent' = wAgent /\ wRun' = wRun
  BY DEF SaveLock, writes
<1>2. /\ TypeOK /\ Owns(s) /\ Aims(s) /\ Work(s) /\ call[s].agent \in Agent
      /\ wAgent[s] = None /\ wRun[s] = None
  BY <1>1, SessionFacts DEF Owns, Aims, Locked
<1>3. TakeLock(s, call[s].agent) /\ AgentSeen(call[s].agent) = agent[call[s].agent]
  BY <1>1, <1>2, HeldAgentSeen DEF HoldRow, TakeLock
<1>4. MaySave(s)
  BY <1>1, <1>2, <1>3 DEF MaySave, Exists, HoldRow, Work
<1>5. Work(s)'
  <2>1. pc'[s] = "save_write"
    BY <1>1, <1>2 DEF Goto, TypeOK
  <2> QED BY <2>1, <1>1, <1>2, <1>4 DEF Work, MaySave, Exists, tables
<1> QED BY <1>1, <1>2, <1>3, <1>5, KeepsWrites, HoldCallStep DEF Waiting, Locked

(* The new configuration is written.                                        *)
LEMMA SaveWriteStep ==
    ASSUME QueueInv, NEW s \in Session, SaveWrite(s)
    PROVE  QueueInv'
<1> DEFINE new == Saved(agent[call[s].agent], call[s].form.rev, call[s].form.enabled,
                     call[s].form.interval, clock)
<1>1. /\ TypeOK /\ TablesOK /\ Owns(s) /\ Aims(s) /\ Work(s) /\ call[s].agent \in Agent
      /\ pc[s] = "save_write" /\ wAgent[s] = None /\ wRun[s] = None /\ MaySave(s)
      /\ lock[call[s].agent] = s
  BY SessionFacts DEF Owns, Aims, Locked, Work, SaveWrite
<1>2. AgentSeen(call[s].agent) = agent[call[s].agent]
  BY <1>1, HeldAgentSeen
<1>3. /\ TakeLock(s, call[s].agent) /\ wAgent' = [wAgent EXCEPT ![s] = new]
      /\ Goto(s, "commit") /\ UNCHANGED <<tables, call, todo>> /\ wRun' = wRun
  BY <1>2 DEF SaveWrite, WriteAgent
<1>4. clock \in Moment(call[s].agent) /\ clock \in Nat
  BY <1>1, NowIsAMoment
<1>5. new \in AgentRow
  <2>1. /\ agent[call[s].agent].rev \in Nat /\ agent[call[s].agent].active \in Run \cup {None}
        /\ call[s].form.interval \in Nat /\ call[s].form.rev \in Nat
    BY <1>1, AgentTypes, SessionTypes, Constants DEF MaySave
  <2>2. call[s].form.enabled \in BOOLEAN
    BY <1>1 DEF MaySave
  <2> QED BY <2>1, <2>2, <1>4 DEF Saved, AgentRow
<1>6. Work(s)'
  <2>1. pc'[s] = "commit" /\ wAgent'[s] = new /\ wRun'[s] = None
    BY <1>1, <1>3 DEF Goto, TypeOK
  <2>2. call' = call /\ agent' = agent /\ run' = run /\ clock' = clock
    BY <1>3 DEF tables
  <2>3. Moment(call[s].agent)' = Moment(call[s].agent)
    BY <2>2 DEF Moment, RunsOf
  <2>4. Complete(s)'
    BY <1>1, <1>4, <2>1, <2>2, <2>3 DEF Complete, MaySave, Exists
  <2> QED BY <2>1, <2>4 DEF Work
<1> HIDE DEF new
<1> QED BY <1>1, <1>3, <1>5, <1>6, KeepsWrites, HoldCallStep DEF Waiting, Locked

(* The agent is found ready under the lock.                                 *)
LEMMA EnqueueLockStep ==
    ASSUME QueueInv, NEW s \in Session, EnqueueLock(s)
    PROVE  QueueInv'
<1>1. /\ pc[s] = "enq_lock" /\ HoldRow(s) /\ Goto(s, "enq_insert")
      /\ Enqueueable(AgentSeen(call[s].agent), call[s].trigger)
      /\ UNCHANGED <<tables, call, todo>> /\ wAgent' = wAgent /\ wRun' = wRun
  BY DEF EnqueueLock, writes
<1>2. /\ TypeOK /\ Owns(s) /\ Aims(s) /\ call[s].agent \in Agent
      /\ wAgent[s] = None /\ wRun[s] = None
  BY <1>1, SessionFacts DEF Owns, Aims, Locked
<1>3. TakeLock(s, call[s].agent) /\ AgentSeen(call[s].agent) = agent[call[s].agent]
  BY <1>1, <1>2, HeldAgentSeen DEF HoldRow, TakeLock
<1>4. MayQueue(s, clock)
  BY <1>1, <1>3 DEF MayQueue, Exists, HoldRow, Enqueueable
<1>5. Work(s)'
  <2>1. pc'[s] = "enq_insert"
    BY <1>1, <1>2 DEF Goto, TypeOK
  <2> QED BY <2>1, <1>1, <1>2, <1>4 DEF Work, MayQueue, Exists, tables
<1> QED BY <1>1, <1>2, <1>3, <1>5, KeepsWrites, HoldCallStep DEF Waiting, Locked

(* The run is inserted, uncommitted.                                        *)
LEMMA EnqueueInsertStep ==
    ASSUME QueueInv, NEW s \in Session, EnqueueInsert(s)
    PROVE  QueueInv'
<1>1. PICK r \in Run :
        /\ FreshRun(r) /\ call' = [call EXCEPT ![s].run = r]
        /\ wRun' = [wRun EXCEPT ![s] = Snapshot(call[s].agent, AgentSeen(call[s].agent),
                                               call[s].trigger, clock)]
  BY DEF EnqueueInsert, WriteRun
<1> DEFINE c == [call[s] EXCEPT !.run = r]
           new == Snapshot(call[s].agent, agent[call[s].agent], call[s].trigger, clock)
<1>2. /\ TypeOK /\ TablesOK /\ Owns(s) /\ Aims(s) /\ Work(s) /\ call[s].agent \in Agent
      /\ pc[s] = "enq_insert" /\ wAgent[s] = None /\ wRun[s] = None /\ MayQueue(s, clock)
      /\ lock[call[s].agent] = s /\ s # None
  BY SessionFacts DEF Owns, Aims, Locked, Work, EnqueueInsert
<1>3. AgentSeen(call[s].agent) = agent[call[s].agent]
  BY <1>2, HeldAgentSeen
<1>4. /\ wRun' = [wRun EXCEPT ![s] = new] /\ call' = [call EXCEPT ![s] = c]
      /\ wAgent' = wAgent /\ lock' = lock /\ todo' = todo /\ UNCHANGED tables
      /\ Goto(s, "enq_slot")
  BY <1>1, <1>2, <1>3 DEF EnqueueInsert, TypeOK
<1>5. TakeLock(s, call[s].agent)
  BY <1>2, <1>4, KeepsWrites DEF TakeLock
<1>6. clock \in Moment(call[s].agent) /\ clock \in Nat
  BY <1>2, NowIsAMoment
<1>7. new \in RunRow
  BY <1>2, <1>6, AgentTypes, SessionTypes, SnapshotRow
<1>8. /\ c \in Call /\ c.agent = call[s].agent /\ c.run = r /\ c.op = call[s].op
      /\ c.trigger = call[s].trigger
  BY <1>2, SessionTypes DEF Call
<1> HIDE DEF c, new
<1>9. /\ pc'[s] = "enq_slot" /\ call'[s] = c /\ wRun'[s] = new /\ wAgent'[s] = None
      /\ agent' = agent /\ run' = run /\ clock' = clock
      /\ \A t \in Session \ {s} : call'[t] = call[t]
  BY <1>2, <1>4 DEF Goto, TypeOK, tables
<1>10. run[r].state = "ABSENT" /\ run[r].agent = None /\ \A t \in Session : call[t].run # r
  BY <1>1, <1>2 DEF FreshRun, TablesOK
<1>11. Aims(s)'
  BY <1>2, <1>4, <1>8, <1>9, <1>10 DEF Aims, MayFinish
<1>12. Work(s)'
  <2>1. Moment(call[s].agent)' = Moment(call[s].agent)
    BY <1>8, <1>9 DEF Moment, RunsOf
  <2>2. QueuedAt(s, clock)'
    <3>1. MayQueue(s, clock)'
      BY <1>2, <1>8, <1>9 DEF MayQueue, Exists
    <3>2. new = Snapshot(call'[s].agent, agent'[call'[s].agent], call'[s].trigger, clock)
      BY <1>8, <1>9 DEF new
    <3>3. call'[s].run \in Run /\ run'[call'[s].run].state = "ABSENT" /\ clock' = clock
      BY <1>8, <1>9, <1>10
    <3> QED BY <1>9, <3>1, <3>2, <3>3 DEF QueuedAt
  <2> QED BY <1>6, <1>8, <1>9, <2>1, <2>2 DEF Work
<1> QED BY <1>2, <1>4, <1>5, <1>7, <1>8, <1>11, <1>12, KeepsWrites, HoldStep DEF Locked

(* The slot is taken, uncommitted.                                          *)
LEMMA EnqueueSlotStep ==
    ASSUME QueueInv, NEW s \in Session, EnqueueSlot(s)
    PROVE  QueueInv'
<1> DEFINE new == Occupied(agent[call[s].agent], call[s].run, clock)
<1>1. /\ TypeOK /\ TablesOK /\ Owns(s) /\ Aims(s) /\ Work(s) /\ call[s].agent \in Agent
      /\ pc[s] = "enq_slot" /\ wAgent[s] = None /\ lock[call[s].agent] = s
  BY SessionFacts DEF Owns, Aims, Locked, Work, EnqueueSlot
<1>2. PICK created \in Moment(call[s].agent) : QueuedAt(s, created)
  BY <1>1 DEF Work
<1>3. AgentSeen(call[s].agent) = agent[call[s].agent]
  BY <1>1, HeldAgentSeen
<1>4. /\ TakeLock(s, call[s].agent) /\ wAgent' = [wAgent EXCEPT ![s] = new]
      /\ Goto(s, "commit") /\ UNCHANGED <<tables, call, todo>> /\ wRun' = wRun
  BY <1>3 DEF EnqueueSlot, WriteAgent
<1>5. clock \in Moment(call[s].agent) /\ clock \in Nat /\ created <= clock
  BY <1>1, NowIsAMoment, MomentFacts
<1>6. new \in AgentRow
  BY <1>1, <1>2, <1>5, AgentTypes, OccupiedRow DEF QueuedAt
<1> HIDE DEF new
<1>7. Work(s)'
  <2>1. /\ pc'[s] = "commit" /\ wAgent'[s] = new /\ wRun'[s] = wRun[s]
        /\ call' = call /\ agent' = agent /\ run' = run /\ clock' = clock
    BY <1>1, <1>4 DEF Goto, TypeOK, tables
  <2>2. Moment(call[s].agent)' = Moment(call[s].agent)
    BY <2>1 DEF Moment, RunsOf
  <2>3. QueuedAt(s, created)'
    BY <1>2, <2>1 DEF QueuedAt, MayQueue, Exists
  <2>4. Complete(s)'
    BY <1>5, <2>1, <2>2, <2>3 DEF Complete, new
  <2> QED BY <2>1, <2>4 DEF Work
<1> QED BY <1>1, <1>4, <1>6, <1>7, SessionTypes, KeepsWrites, HoldCallStep DEF Locked

(* The chosen run is found queued under the lock.                           *)
LEMMA ClaimLockStep ==
    ASSUME QueueInv, NEW s \in Session, ClaimLock(s)
    PROVE  QueueInv'
<1> DEFINE next == IF AgentSeen(call[s].agent).enabled THEN "claim_run" ELSE "cancel_run"
<1>1. /\ TypeOK /\ Owns(s) /\ Aims(s) /\ call[s].agent \in Agent /\ call[s].run \in Run
      /\ pc[s] = "claim_lock" /\ wAgent[s] = None /\ wRun[s] = None
  BY SessionFacts DEF Owns, Aims, Locked, ClaimLock
<1>2. /\ HoldRow(s) /\ Goto(s, next) /\ RunSeen(call[s].run).state = "QUEUED"
      /\ UNCHANGED <<tables, call, todo>> /\ wAgent' = wAgent /\ wRun' = wRun
  BY DEF ClaimLock, writes
<1>3. TakeLock(s, call[s].agent) /\ AgentSeen(call[s].agent) = agent[call[s].agent]
  BY <1>1, <1>2, HeldAgentSeen DEF HoldRow, TakeLock
<1>4. RunSeen(call[s].run) = run[call[s].run]
  BY <1>1, <1>3, HeldRunSeen DEF TakeLock
<1>5. Work(s)'
  <2>1. pc'[s] = next /\ next \in {"claim_run", "cancel_run"}
    BY <1>1, <1>2 DEF Goto, TypeOK
  <2> QED BY <2>1, <1>1, <1>2, <1>3, <1>4 DEF Work, tables
<1>6. next \in Locked
  BY DEF Locked
<1> HIDE DEF next
<1> QED BY <1>1, <1>2, <1>3, <1>5, <1>6, KeepsWrites, HoldCallStep DEF Waiting

(* ClaimRun and CancelRun write the run row the claim has checked.          *)
LEMMA ClaimWrites ==
    ASSUME QueueInv, NEW s \in Session, pc[s] \in {"claim_run", "cancel_run"}
    PROVE  /\ TypeOK /\ TablesOK /\ call[s].agent \in Agent /\ call[s].run \in Run
           /\ call[s].op = "claim" /\ wAgent[s] = None /\ wRun[s] = None
           /\ lock[call[s].agent] = s /\ run[call[s].run].state = "QUEUED"
           /\ RunSeen(call[s].run) = run[call[s].run]
           /\ run[call[s].run] \in RunRow
<1>1. /\ TypeOK /\ TablesOK /\ Owns(s) /\ Aims(s) /\ Work(s)
      /\ call[s].agent \in Agent /\ call[s].run \in Run /\ call[s].op = "claim"
      /\ wAgent[s] = None /\ wRun[s] = None /\ lock[call[s].agent] = s
      /\ run[call[s].run].state = "QUEUED"
  BY SessionFacts DEF Owns, Aims, Locked, Work
<1> QED BY <1>1, HeldRunSeen, RunTypes

(* The run is marked RUNNING, uncommitted.                                  *)
LEMMA ClaimRunStep ==
    ASSUME QueueInv, NEW s \in Session, ClaimRun(s)
    PROVE  QueueInv'
<1> DEFINE new == [run[call[s].run] EXCEPT !.state = "RUNNING"]
<1>1. pc[s] = "claim_run"
  BY DEF ClaimRun
<1>2. /\ Goto(s, "commit") /\ UNCHANGED <<tables, lock, call, todo>> /\ wAgent' = wAgent
      /\ wRun' = [wRun EXCEPT ![s] = new]
  BY <1>1, ClaimWrites DEF ClaimRun, WriteRun
<1>3. TakeLock(s, call[s].agent)
  BY <1>1, <1>2, ClaimWrites, KeepsWrites DEF TakeLock
<1>4. new \in RunRow
  BY <1>1, ClaimWrites DEF RunRow, Pending
<1>5. Work(s)'
  <2>1. /\ pc'[s] = "commit" /\ wRun'[s] = new /\ wAgent'[s] = None
        /\ call' = call /\ agent' = agent /\ run' = run
    BY <1>1, <1>2, ClaimWrites DEF Goto, TypeOK, tables
  <2>2. agent[call[s].agent].enabled
    BY <1>1, SessionFacts DEF Work
  <2>3. Complete(s)'
    BY <1>1, <2>1, <2>2, ClaimWrites DEF Complete, Moved
  <2> QED BY <2>1, <2>3 DEF Work
<1> HIDE DEF new
<1> QED BY <1>1, <1>2, <1>3, <1>4, <1>5, ClaimWrites, KeepsWrites, HoldCallStep DEF Locked

(* The run of a paused agent is marked CANCELLED, uncommitted.              *)
LEMMA CancelRunStep ==
    ASSUME QueueInv, NEW s \in Session, CancelRun(s)
    PROVE  QueueInv'
<1> DEFINE new == [run[call[s].run] EXCEPT !.state = "CANCELLED"]
<1>1. pc[s] = "cancel_run"
  BY DEF CancelRun
<1>2. /\ Goto(s, "free_slot") /\ UNCHANGED <<tables, lock, call, todo>> /\ wAgent' = wAgent
      /\ wRun' = [wRun EXCEPT ![s] = new]
  BY <1>1, ClaimWrites DEF CancelRun, WriteRun
<1>3. TakeLock(s, call[s].agent)
  BY <1>1, <1>2, ClaimWrites, KeepsWrites DEF TakeLock
<1>4. new \in RunRow
  BY <1>1, ClaimWrites DEF RunRow, Terminal
<1>5. Work(s)'
  <2>1. /\ pc'[s] = "free_slot" /\ wRun'[s] = new /\ wAgent'[s] = None
        /\ call' = call /\ agent' = agent /\ run' = run
    BY <1>1, <1>2, ClaimWrites DEF Goto, TypeOK, tables
  <2>2. ~agent[call[s].agent].enabled
    BY <1>1, SessionFacts DEF Work
  <2>3. Ending(s)'
    BY <1>1, <2>1, <2>2, ClaimWrites DEF Ending, Moved
  <2> QED BY <1>1, <2>1, <2>3, ClaimWrites DEF Work
<1> HIDE DEF new
<1> QED BY <1>1, <1>2, <1>3, <1>4, <1>5, ClaimWrites, KeepsWrites, HoldCallStep DEF Locked

(* A RUNNING run is given its outcome, uncommitted.                         *)
LEMMA FinishRunStep ==
    ASSUME QueueInv, NEW s \in Session, FinishRun(s)
    PROVE  QueueInv'
<1> DEFINE row == run[call[s].run]
           new == IF row.state = "RUNNING" THEN [row EXCEPT !.state = call[s].outcome] ELSE None
<1>1. /\ TypeOK /\ TablesOK /\ Owns(s) /\ Aims(s) /\ call[s].agent \in Agent
      /\ call[s].run \in Run /\ call[s].op = "finish" /\ MayFinish(call[s].run)
      /\ pc[s] = "fin_lock" /\ wAgent[s] = None /\ wRun[s] = None
  BY SessionFacts DEF Owns, Aims, Locked, FinishRun
<1>2. /\ HoldRow(s) /\ Goto(s, "free_slot") /\ UNCHANGED <<tables, call, todo>>
      /\ wAgent' = wAgent
  BY DEF FinishRun
<1>3. TakeLock(s, call[s].agent)
  BY <1>2 DEF HoldRow
<1>4. RunSeen(call[s].run) = row
  BY <1>1, <1>3, HeldRunSeen DEF TakeLock
<1>5. wRun' = [wRun EXCEPT ![s] = new]
  BY <1>1, <1>4, KeepsWrites DEF FinishRun, WriteRun
<1>6. call[s].outcome \in Terminal /\ row \in RunRow
  BY <1>1, SessionTypes, RunTypes, Constants
<1>7. new \in RunRow \cup {None}
  BY <1>6 DEF RunRow
<1>8. row.state \in Terminal \cup Pending /\ (row.state = "QUEUED" => LateRollback # {})
  BY <1>1, <1>6 DEF RunRow, MayFinish
<1>9. Work(s)'
  <2>1. /\ pc'[s] = "free_slot" /\ wRun'[s] = new /\ wAgent'[s] = None
        /\ call' = call /\ agent' = agent /\ run' = run
    BY <1>1, <1>2, <1>5 DEF Goto, TypeOK, tables
  <2>2. CASE row.state = "RUNNING"
    <3>1. Ending(s)'
      BY <1>1, <2>1, <2>2 DEF Ending, Moved
    <3> QED BY <1>1, <2>1, <3>1 DEF Work
  <2>3. CASE row.state = "QUEUED"
    <3>1. Unclaimed(s)'
      BY <1>1, <1>8, <2>1, <2>3 DEF Unclaimed
    <3> QED BY <1>1, <2>1, <3>1 DEF Work
  <2>4. CASE row.state \in Terminal /\ row.state # "RUNNING"
    BY <1>1, <2>1, <2>4 DEF Work
  <2> QED BY <1>8, <2>2, <2>3, <2>4 DEF Pending
<1> HIDE DEF new
<1> QED BY <1>1, <1>2, <1>3, <1>5, <1>7, <1>9, KeepsWrites, SessionTypes, HoldCallStep
    DEF Waiting, Locked

(* Only pending runs have slots, so the statement frees no slot but that of *)
(* the run that ends, or of one that was not RUNNING.                       *)
LEMMA FreeSlotStep ==
    ASSUME QueueInv, NEW s \in Session, FreeSlot(s)
    PROVE  QueueInv'
<1> DEFINE row == agent[call[s].agent]
           new == IF row.active = call[s].run THEN Released(row, call[s].run) ELSE None
<1>1. /\ TypeOK /\ TablesOK /\ SlotHolder /\ Owns(s) /\ Aims(s) /\ Work(s)
      /\ call[s].agent \in Agent /\ call[s].run \in Run /\ lock[call[s].agent] = s
      /\ pc[s] = "free_slot" /\ wAgent[s] = None
  BY SessionFacts DEF Owns, Aims, Locked, Work, FreeSlot, LossyInv
<1>2. AgentSeen(call[s].agent) = row
  BY <1>1, HeldAgentSeen
<1>3. /\ wAgent' = [wAgent EXCEPT ![s] = new] /\ TakeLock(s, call[s].agent)
      /\ Goto(s, "commit") /\ UNCHANGED <<tables, call, todo>> /\ wRun' = wRun
  BY <1>1, <1>2, KeepsWrites DEF FreeSlot, WriteAgent, TakeLock
<1>4. new \in AgentRow \cup {None}
  BY <1>1, AgentTypes, ReleasedRow
<1>5. Work(s)'
  <2>1. /\ pc'[s] = "commit" /\ wAgent'[s] = new /\ wRun'[s] = wRun[s]
        /\ call' = call /\ agent' = agent /\ run' = run
    BY <1>1, <1>3 DEF Goto, TypeOK, tables
  <2>2. CASE Ending(s) \/ Unclaimed(s)
    <3>1. (Ending(s) \/ Unclaimed(s))'
      BY <2>1, <2>2 DEF Ending, Moved, Unclaimed
    <3>2. FreedSlot(s)'
      BY <2>1 DEF FreedSlot
    <3> QED BY <2>1, <3>1, <3>2 DEF Work, Complete
  <2>3. CASE wRun[s] = None /\ run[call[s].run].state \in Terminal
    <3>1. row.active # call[s].run
      BY <1>1, <2>3, Constants DEF SlotHolder, Terminal, Pending
    <3> QED BY <2>1, <2>3, <3>1 DEF Work, Complete
  <2> QED BY <1>1, <2>2, <2>3 DEF Work
<1> HIDE DEF new
<1> QED BY <1>1, <1>3, <1>4, <1>5, SessionTypes, KeepsWrites, HoldCallStep DEF Locked

-----------------------------------------------------------------------------
(* The INSERT of a new agent, which no other session can name yet.          *)
LEMMA CreateStep ==
    ASSUME QueueInv, NEW s \in Session, NEW a \in Agent, NEW enabled \in BOOLEAN,
           NEW interval \in Interval, Create(s, a, enabled, interval)
    PROVE  QueueInv'
<1> DEFINE new == Inserted(enabled, interval, clock)
           c == CallOf("create", a, None)
<1>1. /\ TypeOK /\ TablesOK /\ Owns(s) /\ Aims(s) /\ pc[s] = "idle" /\ s # None
      /\ wAgent[s] = None /\ wRun[s] = None /\ todo[s] = {}
  BY SessionFacts DEF Owns, Aims, Locked, Create
<1>2. /\ TakeLock(s, a) /\ FreshAgent(a) /\ wAgent' = [wAgent EXCEPT ![s] = new]
      /\ call' = [call EXCEPT ![s] = c] /\ pc' = [pc EXCEPT ![s] = "commit"]
      /\ agent' = agent /\ run' = run /\ clock' = clock /\ todo' = todo /\ wRun' = wRun
      /\ lock[a] \in {None, s} /\ lock' = [lock EXCEPT ![a] = s]
  BY DEF Create, Goto, TakeLock, tables
<1>3. ~Exists(a)
  <2>1. AgentSeen(a) = agent[a]
    BY <1>1, <1>2, HeldAgentSeen
  <2> QED BY <1>2, <2>1 DEF FreshAgent, Exists
<1>4. clock \in Moment(a) /\ clock \in Nat
  BY <1>1, NowIsAMoment
<1>5. new \in AgentRow
  BY <1>4, Constants, InsertedRow
<1>6. c \in Call /\ c.op = "create" /\ c.agent = a /\ c.run = None
  BY OutcomeAssumption DEF CallOf, Call, Ops, Form
<1> HIDE DEF new, c
<1>7. /\ pc'[s] = "commit" /\ call'[s] = c /\ todo'[s] = {} /\ wAgent'[s] = new /\ wRun'[s] = None
      /\ lock'[a] = s /\ \A b \in Agent \ {a} : lock'[b] = lock[b]
  BY <1>1, <1>2 DEF TypeOK
<1>8. Others(s)
  BY <1>1, <1>2 DEF Others, TypeOK
<1>9. TypeOK'
  <2>1. TablesOK'
    BY <1>1, <1>2 DEF TablesOK
  <2> QED BY <1>1, <1>2, <1>5, <1>6, <2>1 DEF TypeOK, PC, Locked
<1>10. Owns(s)'
  BY <1>1, <1>6, <1>7 DEF Owns, Locked
<1>11. Aims(s)'
  BY <1>6, <1>7 DEF Aims
<1>12. Work(s)'
  <2>1. Moment(a)' = Moment(a)
    BY <1>2 DEF Moment, RunsOf
  <2>2. Complete(s)'
    BY <1>2, <1>3, <1>4, <1>6, <1>7, <2>1 DEF Complete, Exists, new
  <2> QED BY <1>7, <2>2 DEF Work
<1> QED BY <1>2, <1>8, <1>9, <1>10, <1>11, <1>12, LocalStep DEF tables
-----------------------------------------------------------------------------
(* COMMIT.                                                                  *)

(* What a session at its COMMIT knows.                                      *)
LEMMA CommitFacts ==
    ASSUME QueueInv, NEW s \in Session, Commit(s)
    PROVE  /\ TypeOK /\ TablesOK /\ Owns(s) /\ Aims(s) /\ Complete(s) /\ s # None
           /\ call[s].agent \in Agent /\ lock[call[s].agent] = s /\ clock' = clock
           /\ \A b \in Agent \ {call[s].agent} : agent'[b] = agent[b]
           /\ \A r \in Run \ {call[s].run} : run'[r] = run[r]
           /\ wRun[s] = None => run' = run
           /\ wRun[s] # None => run'[call[s].run] = wRun[s]
<1>1. /\ TypeOK /\ TablesOK /\ Owns(s) /\ Aims(s) /\ Complete(s) /\ s # None
      /\ call[s].agent \in Agent /\ lock[call[s].agent] = s /\ clock' = clock
  BY SessionFacts DEF Owns, Aims, Work, Locked, Commit
<1>2. wRun[s] # None => call[s].run \in Run
  BY WrittenRun
<1> QED BY <1>1, <1>2 DEF Commit, TablesOK

(* What a session commits is one step of the atomic specification, or takes *)
(* the slot of a run whose claim was rolled back late.                      *)
LEMMA CommitRefines ==
    ASSUME QueueInv, NEW s \in Session, Commit(s)
    PROVE  /\ [LossyNext]_tables
           /\ LateRollback = {} => [LifecycleNext]_tables
<1> DEFINE a == call[s].agent
           r == call[s].run
<1>1. /\ TypeOK /\ TablesOK /\ Aims(s) /\ Complete(s) /\ a \in Agent /\ clock' = clock
  BY CommitFacts
<1>2. /\ wAgent[s] = None => agent' = agent
      /\ wAgent[s] # None => agent' = [agent EXCEPT ![a] = wAgent[s]]
      /\ wRun[s] = None => run' = run
      /\ wRun[s] # None => run' = [run EXCEPT ![r] = wRun[s]]
  BY DEF Commit
<1>3. agent[a] \in AgentRow /\ agent[a].rev \in Nat
  BY <1>1, AgentTypes
<1>4. \A from \in Pending, to \in Pending \cup Terminal : Moved(s, from, to) =>
        /\ r \in Run /\ run[r].state = from /\ run[r].agent = a
        /\ run' = [run EXCEPT ![r].state = to]
  <2> SUFFICES ASSUME NEW from \in Pending, NEW to \in Pending \cup Terminal, Moved(s, from, to)
               PROVE  /\ r \in Run /\ run[r].state = from /\ run[r].agent = a
                      /\ run' = [run EXCEPT ![r].state = to]
    OBVIOUS
  <2>1. r \in Run /\ run[r].state = from /\ wRun[s] = [run[r] EXCEPT !.state = to]
    BY DEF Moved
  <2>2. run[r].agent = a
    BY <1>1, <2>1, Constants DEF Aims, TablesOK, Pending
  <2>3. wRun[s] # None
    BY <1>1, <2>1, RunTypes, StateRow, Constants
  <2> QED BY <1>1, <1>2, <2>1, <2>2, <2>3 DEF TablesOK
<1>5. ASSUME ~Exists(a), wRun[s] = None, NEW enabled \in BOOLEAN, NEW interval \in Interval,
             NEW t \in Moment(a), wAgent[s] = Inserted(enabled, interval, t)
      PROVE  LifecycleNext
  <2>1. wAgent[s] # None
    BY <1>1, <1>5, MomentFacts, InsertedRow, Constants
  <2>2. AgentCreated(a, enabled, interval)
    BY <1>1, <1>2, <1>5, <2>1 DEF AgentCreated
  <2> QED BY <1>1, <2>2 DEF LifecycleNext
<1>6. ASSUME MaySave(s), wRun[s] = None, NEW t \in Moment(a),
             wAgent[s] = Saved(agent[a], call[s].form.rev, call[s].form.enabled, call[s].form.interval, t)
      PROVE  LifecycleNext
  <2> DEFINE base == call[s].form.rev
             enabled == call[s].form.enabled
             interval == call[s].form.interval
  <2>1. /\ enabled \in BOOLEAN /\ interval \in Interval /\ interval \in Nat /\ t \in Nat
        /\ base \in Nat /\ agent[a].rev = base
    BY <1>1, <1>3, <1>6, MomentFacts, Constants DEF MaySave
  <2>2. wAgent[s] # None
    BY <1>3, <1>6, <2>1, SavedRow, Constants
  <2>3. AgentSaved(a, enabled, interval)
    BY <1>1, <1>2, <1>6, <2>1, <2>2 DEF AgentSaved, MaySave
  <2> QED BY <1>1, <2>1, <2>3 DEF LifecycleNext
<1>7. ASSUME NEW created \in Moment(a), NEW slot \in Moment(a), created <= slot,
             QueuedAt(s, created), wAgent[s] = Occupied(agent[a], r, slot)
      PROVE  LifecycleNext
  <2>1. r \in Run /\ call[s].trigger \in {"MANUAL", "SCHEDULE"} /\ created \in Nat /\ slot \in Nat
    BY <1>1, <1>7, MomentFacts, SessionTypes DEF QueuedAt
  <2>2. wAgent[s] # None
    BY <1>3, <1>7, <2>1, OccupiedRow, Constants
  <2>3. wRun[s] # None
    BY <1>3, <1>7, <2>1, <1>1, SnapshotRow, Constants DEF QueuedAt
  <2>4. RunQueued(a, r, call[s].trigger)
    BY <1>1, <1>2, <1>7, <2>2, <2>3 DEF RunQueued, QueuedAt, MayQueue
  <2> QED BY <1>1, <2>1, <2>4 DEF LifecycleNext
<1>8. ASSUME Moved(s, "QUEUED", "RUNNING"), agent[a].enabled, wAgent[s] = None
      PROVE  LifecycleNext
  <2>1. r \in Run /\ RunStarted(r)
    BY <1>1, <1>2, <1>4, <1>8 DEF RunStarted, Pending
  <2> QED BY <2>1 DEF LifecycleNext
<1>9. ASSUME r \in Run, FreedSlot(s)
      PROVE  agent' = [agent EXCEPT ![a] = Released(@, r)]
  <2>1. CASE agent[a].active = r
    <3>1. wAgent[s] = Released(agent[a], r) /\ wAgent[s] # None
      BY <1>3, <1>9, <2>1, ReleasedRow, Constants DEF FreedSlot
    <3> QED BY <1>2, <3>1
  <2>2. CASE agent[a].active # r
    <3>1. agent' = agent /\ Released(agent[a], r) = agent[a]
      BY <1>2, <1>9, <2>2 DEF FreedSlot, Released
    <3> QED BY <1>1, <3>1 DEF TablesOK
  <2> QED BY <2>1, <2>2
<1>10. ASSUME Ending(s), FreedSlot(s)
      PROVE  LifecycleNext
  <2>1. r \in Run
    BY <1>10 DEF Ending, Moved
  <2>2. agent' = [agent EXCEPT ![a] = Released(@, r)]
    BY <1>9, <1>10, <2>1
  <2>3. CASE Moved(s, "QUEUED", "CANCELLED") /\ ~agent[a].enabled
    <3>1. RunCancelled(r)
      BY <1>1, <1>4, <2>2, <2>3 DEF RunCancelled, Pending, Terminal
    <3> QED BY <2>1, <3>1 DEF LifecycleNext
  <2>4. CASE Moved(s, "RUNNING", call[s].outcome)
    <3>1. call[s].outcome \in Outcome /\ call[s].outcome \in Terminal
      BY <1>1, SessionTypes, Constants
    <3>2. RunFinished(r, call[s].outcome)
      BY <1>1, <1>4, <2>2, <2>4, <3>1 DEF RunFinished, Pending
    <3> QED BY <2>1, <3>1, <3>2 DEF LifecycleNext
  <2> QED BY <1>10, <2>3, <2>4 DEF Ending
<1>11. ASSUME Unclaimed(s), FreedSlot(s)
       PROVE  LateRollback # {} /\ LossyNext
  <2>1. r \in Run /\ LateRollback # {} /\ run[r].state = "QUEUED" /\ run' = run
    BY <1>2, <1>11 DEF Unclaimed
  <2>2. run[r].agent = a
    BY <1>1, <2>1, Constants DEF Aims, TablesOK
  <2>3. SlotLost(r)
    BY <1>1, <1>9, <1>11, <2>1, <2>2 DEF SlotLost
  <2> QED BY <2>1, <2>3 DEF LossyNext
<1>12. CASE wAgent[s] = None /\ wRun[s] = None
  BY <1>1, <1>2, <1>12 DEF tables
<1>13. LifecycleNext => LossyNext
  BY DEF LossyNext
<1> QED BY <1>1, <1>5, <1>6, <1>7, <1>8, <1>10, <1>11, <1>12, <1>13 DEF Complete

(* A commit leaves a run to be ended one to be ended, and changes a run row *)
(* only into a row of the agent the session has locked.                     *)
LEMMA CommittedRuns ==
    ASSUME QueueInv, NEW s \in Session, Commit(s), NEW r \in Run
    PROVE  /\ MayFinish(r) => MayFinish(r)'
           /\ run'[r].agent = run[r].agent \/ (call[s].run = r /\ run'[r].agent = call[s].agent)
<1>1. CASE r # call[s].run \/ wRun[s] = None
  BY <1>1, CommitFacts DEF MayFinish
<1>2. CASE r = call[s].run /\ wRun[s] # None
  <2>1. run'[r] = wRun[s] /\ wRun[s].agent = call[s].agent /\ Complete(s)
    BY <1>2, CommitFacts, WrittenRun
  <2>2. wRun[s].state # "ABSENT"
    BY <1>2, WrittenRun
  <2>3. ASSUME MayFinish(r), LateRollback = {} PROVE wRun[s].state # "QUEUED"
    <3>1. run[r].state \notin {"ABSENT", "QUEUED"}
      BY <2>3 DEF MayFinish
    <3>2. Moved(s, "RUNNING", call[s].outcome)
      BY <1>2, <2>1, <3>1 DEF Complete, Unclaimed, QueuedAt, Moved, Ending
    <3>3. /\ call[s].outcome \in Outcome /\ run[r] \in RunRow
          /\ wRun[s] = [run[r] EXCEPT !.state = call[s].outcome]
      BY <1>2, <3>2, CommitFacts, SessionTypes, RunTypes DEF Moved
    <3>4. wRun[s].state = call[s].outcome
      BY <3>3 DEF RunRow
    <3> QED BY <3>3, <3>4, OutcomeAssumption
  <2> QED BY <1>2, <2>1, <2>2, <2>3 DEF MayFinish
<1> QED BY <1>1, <1>2

(* The session that commits is done; no other holds the lock of its agent,  *)
(* so the rows their work is about do not change.                           *)
LEMMA CommitStep ==
    ASSUME QueueInv, NEW s \in Session, Commit(s)
    PROVE  QueueInv'
<1> DEFINE a == call[s].agent
           rest == todo[s]
<1>1. /\ TypeOK /\ TablesOK /\ Owns(s) /\ Aims(s) /\ s # None /\ a \in Agent /\ lock[a] = s
      /\ clock' = clock
  BY CommitFacts
<1>2. LossyInv' /\ TablesOK'
  BY CommitRefines, LossyNextInv DEF QueueInv, LossyInv
<1>3. /\ lock' = [b \in Agent |-> IF lock[b] = s THEN None ELSE lock[b]]
      /\ pc' = [pc EXCEPT ![s] = IF rest = {} THEN "idle" ELSE "loop"]
      /\ call' = [call EXCEPT ![s] =
                    IF rest = {} THEN NoCall ELSE CallOf(call[s].op, None, None)]
      /\ todo' = [todo EXCEPT ![s] = rest]
      /\ wAgent' = [wAgent EXCEPT ![s] = None]
      /\ wRun' = [wRun EXCEPT ![s] = None]
      /\ pc[s] = "commit"
  BY DEF Commit, EndWith, Goto
<1>4. /\ NoCall \in Call /\ NoCall.agent = None /\ NoCall.run = None /\ NoCall.op = "none"
      /\ rest # {} => /\ CallOf(call[s].op, None, None) \in Call
                      /\ CallOf(call[s].op, None, None).agent = None
                      /\ CallOf(call[s].op, None, None).run = None
                      /\ CallOf(call[s].op, None, None).op = call[s].op
  BY <1>1, SessionTypes, OutcomeAssumption DEF NoCall, CallOf, Call, Ops, Form
<1>5. rest \subseteq Agent \cup Run
  BY <1>1, SessionTypes
<1>6. TypeOK'
  BY <1>1, <1>2, <1>3, <1>4, <1>5 DEF TypeOK, PC
<1>7. Others(s)
  BY <1>1, <1>3 DEF Others, TypeOK
<1>8. /\ pc'[s] = IF rest = {} THEN "idle" ELSE "loop"
      /\ call'[s].agent = None /\ call'[s].run = None
      /\ call'[s].op = IF rest = {} THEN "none" ELSE call[s].op
      /\ todo'[s] = rest /\ wAgent'[s] = None /\ wRun'[s] = None
  BY <1>1, <1>3, <1>4 DEF TypeOK
<1>9. \A r \in Run : MayFinish(r) => MayFinish(r)'
  BY CommittedRuns
<1>10. Owns(s)' /\ Work(s)'
  BY <1>1, <1>3, <1>8 DEF Owns, Work, Locked
<1>11. Aims(s)'
  <2>1. rest # {} => call[s].op \in {"enqueue", "finish"}
    BY <1>1, <1>3 DEF Aims
  <2> QED BY <1>1, <1>8, <1>9, <2>1 DEF Aims
<1>12. ASSUME NEW t \in Session \ {s} PROVE Owns(t)' /\ Aims(t)' /\ Work(t)'
  <2> DEFINE b == call[t].agent
             q == call[t].run
  <2>1. /\ Owns(t) /\ Aims(t) /\ Work(t) /\ t # None /\ b \in Agent \cup {None} /\ q \in Run \cup {None}
        /\ pc'[t] = pc[t] /\ call'[t] = call[t] /\ todo'[t] = todo[t]
        /\ wAgent'[t] = wAgent[t] /\ wRun'[t] = wRun[t]
    BY <1>1, <1>7, SessionFacts, SessionTypes DEF Others
  <2>2. Owns(t)'
    BY <1>7, OthersOwn
  <2>3. q # None => run'[q].agent \in {None, b}
    <3>1. SUFFICES ASSUME q # None PROVE run'[q].agent \in {None, b}
      OBVIOUS
    <3>2. q \in Run /\ run[q].agent \in {None, b} /\ (call[s].run = q => a = b)
      BY <2>1, <3>1 DEF Aims
    <3> QED BY <3>2, CommittedRuns
  <2>4. \A u \in Session : call'[u].run = q /\ q # None => call'[u].agent = b
    <3> SUFFICES ASSUME NEW u \in Session, call'[u].run = q, q # None PROVE call'[u].agent = b
      OBVIOUS
    <3>1. u # s
      BY <1>8
    <3>2. call'[u] = call[u]
      BY <3>1, <1>7 DEF Others
    <3> QED BY <3>2, <2>1 DEF Aims
  <2>5. q # None /\ MayFinish(q) => MayFinish(q)'
    BY <1>9, <2>1
  <2>6. Aims(t)'
    BY <1>9, <2>1, <2>3, <2>4, <2>5 DEF Aims
  <2>7. ASSUME pc[t] \notin Locked, pc[t] = "dead" => wRun[t] = None PROVE Work(t)'
    BY <2>1, <2>7 DEF Work, Locked
  <2>8. ASSUME pc[t] \in Locked \/ (pc[t] = "dead" /\ wRun[t] # None) PROVE Work(t)'
    <3>1. lock[b] = t /\ b \in Agent /\ b # a
      BY <1>1, <2>1, <2>8 DEF Owns, Aims, Locked
    <3>2. agent'[b] = agent[b]
      BY <3>1, CommitFacts
    <3>3. q \in Run => run'[q] = run[q]
      <4>1. q \in Run => q # call[s].run
        BY <1>1, <2>1, <3>1, Constants DEF Aims
      <4> QED BY <4>1, CommitFacts
    <3>4. Moment(b)' = Moment(b)
      <4>1. ASSUME NEW r \in Run
            PROVE  /\ run'[r].agent = b <=> run[r].agent = b
                   /\ run[r].agent = b => run'[r].created = run[r].created
        <5>1. CASE r # call[s].run
          BY <5>1, CommitFacts
        <5>2. CASE r = call[s].run
          <6>1. run[r].agent \in {None, a}
            BY <1>1, <5>2, Constants DEF Aims
          <6>2. run'[r].agent \in {None, a}
            BY <6>1, CommittedRuns
          <6> QED BY <3>1, <6>1, <6>2, Constants
        <5> QED BY <5>1, <5>2
      <4>2. RunsOf(b)' = RunsOf(b) /\ \A r \in RunsOf(b) : run'[r].created = run[r].created
        BY <2>1, <4>1 DEF RunsOf
      <4> QED BY <1>1, <4>2 DEF Moment
    <3> QED BY <1>1, <2>1, <2>8, <3>1, <3>2, <3>3, <3>4, KeepsWork
  <2> QED BY <2>2, <2>6, <2>7, <2>8
<1> QED BY <1>2, <1>6, <1>10, <1>11, <1>12 DEF QueueInv
-----------------------------------------------------------------------------
(* The clock only widens the set of moments a session may have read.        *)
LEMMA TickStep ==
    ASSUME QueueInv, Tick
    PROVE  QueueInv'
<1>1. /\ ClockTicks /\ clock' = clock + 1 /\ agent' = agent /\ run' = run /\ lock' = lock
      /\ pc' = pc /\ call' = call /\ todo' = todo /\ wAgent' = wAgent /\ wRun' = wRun
      /\ TypeOK /\ TablesOK
  BY DEF Tick, ClockTicks, QueueInv, TypeOK, writes
<1>2. LossyInv' /\ TablesOK'
  BY <1>1, LossyNextInv DEF QueueInv, LossyNext, LifecycleNext, LossyInv
<1>3. TypeOK'
  BY <1>1, <1>2 DEF TypeOK
<1>4. ASSUME NEW s \in Session PROVE Owns(s)' /\ Aims(s)' /\ Work(s)'
  <2> DEFINE a == call[s].agent
  <2>1. Owns(s) /\ Aims(s) /\ Work(s) /\ a \in Agent \cup {None}
    BY <1>1, SessionFacts, SessionTypes DEF QueueInv
  <2>2. Owns(s)' /\ Aims(s)'
    BY <1>1, <2>1 DEF Owns, Aims, MayFinish
  <2>3. \A t \in Moment(a) : t \in Moment(a)'
    BY <1>1 DEF Moment, RunsOf, TablesOK
  <2>4. MaySave(s) => MaySave(s)'
    BY <1>1 DEF MaySave, Exists
  <2>5. a \in Agent /\ MayQueue(s, clock) => MayQueue(s, clock)'
    <3>1. SUFFICES ASSUME a \in Agent, MayQueue(s, clock) PROVE MayQueue(s, clock)'
      OBVIOUS
    <3>2. agent[a].due \in Nat /\ agent[a].interval \in Nat /\ clock \in Nat
      BY <1>1, <3>1, AgentTypes DEF TablesOK
    <3>3. DueAt(agent[a], clock) => DueAt(agent[a], clock + 1)
      BY <3>2 DEF DueAt
    <3>4. Exists(a)' /\ agent'[a].enabled /\ agent'[a].active = None
      BY <1>1, <3>1 DEF MayQueue, Exists
    <3> QED BY <1>1, <3>1, <3>3, <3>4 DEF MayQueue, Exists
  <2>6. \A c : QueuedAt(s, c) => QueuedAt(s, c)'
    BY <1>1 DEF QueuedAt, MayQueue, Exists
  <2>7. \A from, to : Moved(s, from, to) => Moved(s, from, to)'
    BY <1>1 DEF Moved
  <2>8. Ending(s) => Ending(s)'
    BY <1>1, <2>7 DEF Ending
  <2>9. (FreedSlot(s) => FreedSlot(s)') /\ (Unclaimed(s) => Unclaimed(s)')
    BY <1>1 DEF FreedSlot, Unclaimed
  <2>10. Complete(s) => Complete(s)'
    <3>1. SUFFICES ASSUME Complete(s) PROVE Complete(s)'
      OBVIOUS
    <3>2. ASSUME NEW created \in Moment(a), NEW slot \in Moment(a), created <= slot,
                 QueuedAt(s, created), wAgent[s] = Occupied(agent[a], call[s].run, slot)
          PROVE  Complete(s)'
      <4>1. QueuedAt(s, created)' /\ created \in Moment(a)' /\ slot \in Moment(a)'
        BY <2>3, <2>6, <3>2
      <4> QED BY <1>1, <3>2, <4>1 DEF Complete
    <3>3. ASSUME NEW t \in Moment(a), wRun[s] = None, MaySave(s),
                 wAgent[s] = Saved(agent[a], call[s].form.rev, call[s].form.enabled, call[s].form.interval, t)
          PROVE  Complete(s)'
      BY <1>1, <2>3, <2>4, <3>3 DEF Complete
    <3>4. ASSUME NEW t \in Moment(a), wRun[s] = None, ~Exists(a), NEW enabled \in BOOLEAN,
                 NEW interval \in Interval, wAgent[s] = Inserted(enabled, interval, t)
          PROVE  Complete(s)'
      BY <1>1, <2>3, <3>4 DEF Complete, Exists
    <3>5. CASE Moved(s, "QUEUED", "RUNNING") /\ agent[a].enabled /\ wAgent[s] = None
      BY <1>1, <2>7, <3>5 DEF Complete
    <3>6. CASE (Ending(s) \/ Unclaimed(s)) /\ FreedSlot(s)
      BY <2>8, <2>9, <3>6 DEF Complete
    <3>7. CASE wAgent[s] = None /\ wRun[s] = None
      BY <1>1, <3>7 DEF Complete
    <3> QED BY <3>1, <3>2, <3>3, <3>4, <3>5, <3>6, <3>7 DEF Complete
  <2>11. pc[s] = "enq_insert" => a \in Agent
    BY <2>1 DEF Aims
  <2>12. Written(s) => Written(s)'
    BY <2>3, <2>6, <2>7 DEF Written
  <2> QED BY <1>1, <2>1, <2>2, <2>3, <2>4, <2>5, <2>6, <2>8, <2>9, <2>10, <2>11, <2>12 DEF Work
<1> QED BY <1>2, <1>3, <1>4 DEF QueueInv

(* The invariant holds initially.                                           *)
LEMMA QueueInitInv == Init => QueueInv
<1> SUFFICES ASSUME Init PROVE QueueInv
  OBVIOUS
<1>1. LossyInv /\ TablesOK
  BY LifecycleInitInv DEF Init, TablesInv, LossyInv
<1>2. /\ NoCall \in Call /\ NoCall.agent = None /\ NoCall.run = None /\ NoCall.op = "none"
  BY OutcomeAssumption DEF NoCall, CallOf, Call, Ops, Form
<1>3. TypeOK
  BY <1>1, <1>2 DEF Init, TypeOK, PC
<1>4. ASSUME NEW s \in Session PROVE Owns(s) /\ Aims(s) /\ Work(s)
  BY <1>2, SessionAssumption DEF Init, Owns, Aims, Work, Locked
<1> QED BY <1>1, <1>3, <1>4 DEF QueueInv

(* Ends without a commit: conflict, refusal, lost claim, failure.           *)
LEMMA LeaveStep ==
    ASSUME QueueInv, NEW s \in Session, pc[s] # "idle", Leave(s) \/ Abort(s)
    PROVE  QueueInv'
<1>1. Aims(s)
  BY SessionFacts
<1>2. todo[s] # {} => call[s].op \in {"enqueue", "finish"}
  BY <1>1 DEF Aims
<1> QED BY <1>2, EndStep DEF Leave, Abort

(* A killed process leaves its lock and its writes to the server.           *)
LEMMA DieStep ==
    ASSUME QueueInv, NEW s \in Session, Die(s)
    PROVE  QueueInv'
<1>1. /\ TypeOK /\ TablesOK /\ Owns(s) /\ Aims(s) /\ Work(s) /\ LateRollback # {}
      /\ pc' = [pc EXCEPT ![s] = "dead"] /\ UNCHANGED tables
      /\ agent' = agent /\ run' = run /\ clock' = clock /\ lock' = lock
      /\ call' = call /\ todo' = todo /\ wAgent' = wAgent /\ wRun' = wRun
      /\ pc[s] # "idle"
  BY SessionFacts DEF Die, Goto, tables, writes
<1>2. Others(s) /\ pc'[s] = "dead"
  BY <1>1 DEF Others, TypeOK
<1>3. TypeOK'
  BY <1>1 DEF TypeOK, TablesOK, PC
<1>4. Owns(s)'
  BY <1>1, <1>2 DEF Owns, Locked
<1>5. Aims(s)'
  BY <1>1, <1>2 DEF Aims, MayFinish
<1>6. Work(s)'
  <2>1. wRun[s] # None => Written(s)
    BY WorkIsWritten
  <2>2. Moment(call[s].agent)' = Moment(call[s].agent)
    BY <1>1 DEF Moment, RunsOf
  <2>3. Written(s) => Written(s)'
    BY <1>1, <2>2 DEF Written, QueuedAt, MayQueue, Moved, Exists
  <2> QED BY <1>1, <1>2, <2>1, <2>3 DEF Work
<1> QED BY <1>1, <1>2, <1>3, <1>4, <1>5, <1>6, LocalStep

(* Calls, and the items of a schedule or recover list.                      *)
LEMMA RequestStep ==
    ASSUME QueueInv, NEW s \in Session, Request(s)
    PROVE  QueueInv'
<1>1. ASSUME NEW a \in Agent, NEW enabled \in BOOLEAN, NEW interval \in Interval,
             Create(s, a, enabled, interval)
             \/ \E loaded \in 1..MaxRevision[a] - 1 : Save(s, a, loaded, enabled, interval)
      PROVE  QueueInv'
  <2>1. CASE Create(s, a, enabled, interval)
    BY <2>1, CreateStep
  <2>2. ASSUME NEW loaded \in 1..MaxRevision[a] - 1, Save(s, a, loaded, enabled, interval)
        PROVE  QueueInv'
    <3>1. MaxRevision[a] \in Nat
      BY RevisionAssumption
    <3>2. loaded \in Nat
      BY <3>1
    <3> QED BY <2>2, <3>2, SaveStep
  <2> QED BY <1>1, <2>1, <2>2
<1>2. ASSUME NEW a \in Agent, RunNow(s, a) PROVE QueueInv'
  BY <1>2, EnqueueStep DEF RunNow
<1>3. ASSUME NEW r \in Run, NEW outcome \in Outcome, Finish(s, r, outcome) PROVE QueueInv'
  BY <1>3, FinishCallStep DEF Finish, MayFinish
<1> QED BY <1>1, <1>2, <1>3, ScheduleStep, ClaimStep, RecoverStep DEF Request

(* The next entry of a list is taken up.                                    *)
LEMMA ListStep ==
    ASSUME QueueInv, NEW s \in Session, ScheduleNext(s) \/ RecoverNext(s)
    PROVE  QueueInv'
<1>1. Aims(s) /\ pc[s] = "loop"
  BY SessionFacts DEF ScheduleNext, RecoverNext
<1>2. CASE ScheduleNext(s)
  <2>1. PICK a \in todo[s] : Enqueue(s, a, "SCHEDULE", todo[s] \ {a})
    BY <1>2 DEF ScheduleNext
  <2>2. a \in Agent /\ todo[s] \ {a} \subseteq Agent
    BY <1>1, <1>2 DEF ScheduleNext, Aims
  <2> QED BY <1>1, <2>1, <2>2, EnqueueStep
<1>3. CASE RecoverNext(s)
  <2>1. PICK r \in todo[s] : FinishCall(s, r, "FAILED", todo[s] \ {r})
    BY <1>3 DEF RecoverNext
  <2>2. /\ r \in Run /\ todo[s] \ {r} \subseteq Run
        /\ MayFinish(r) /\ \A q \in todo[s] \ {r} : MayFinish(q)
    BY <1>1, <1>3 DEF RecoverNext, Aims
  <2> QED BY <1>1, <2>1, <2>2, OutcomeAssumption, FinishCallStep
<1> QED BY <1>2, <1>3

(* Every statement of a session preserves the invariant.                    *)
LEMMA StatementStep ==
    ASSUME QueueInv, NEW s \in Session, Statement(s)
    PROVE  QueueInv'
<1>1. CASE SaveConflict(s) \/ EnqueueRefused(s) \/ EnqueueExhausted(s) \/ ClaimLost(s)
           \/ Missing(s) \/ RollBackDead(s)
  BY <1>1, LeaveStep
  DEF SaveConflict, EnqueueRefused, EnqueueExhausted, ClaimLost, Missing, RollBackDead, Waiting
<1>2. CASE SaveLock(s) \/ SaveWrite(s) \/ EnqueueLock(s) \/ EnqueueInsert(s) \/ EnqueueSlot(s)
  BY <1>2, SaveLockStep, SaveWriteStep, EnqueueLockStep, EnqueueInsertStep, EnqueueSlotStep
<1>3. CASE ClaimLock(s) \/ ClaimRun(s) \/ CancelRun(s) \/ FinishRun(s) \/ FreeSlot(s)
  BY <1>3, ClaimLockStep, ClaimRunStep, CancelRunStep, FinishRunStep, FreeSlotStep
<1>4. CASE ScheduleNext(s) \/ RecoverNext(s) \/ Commit(s)
  BY <1>4, ListStep, CommitStep
<1> QED BY <1>1, <1>2, <1>3, <1>4 DEF Statement

(* Every step of the sessions keeps the invariant, and changes the tables,  *)
(* if at all, as an atomic operation would, lost slots apart.               *)
LEMMA QueueNextInv ==
    ASSUME QueueInv, [Next]_vars
    PROVE  /\ QueueInv'
           /\ [LossyNext]_tables
           /\ LateRollback = {} => [LifecycleNext]_tables
<1>1. ASSUME NEW s \in Session, Request(s) PROVE QueueInv' /\ UNCHANGED tables
  BY <1>1, RequestStep
  DEF Request, Create, Save, RunNow, Enqueue, Schedule, Claim, Finish, FinishCall, Recover, Begin,
      tables
<1>2. ASSUME NEW s \in Session, Statement(s)
      PROVE  QueueInv' /\ [LossyNext]_tables /\ (LateRollback = {} => [LifecycleNext]_tables)
  <2>1. CASE Commit(s)
    BY <2>1, CommitStep, CommitRefines
  <2>2. CASE ~Commit(s)
    <3>1. ASSUME \/ SaveConflict(s) \/ EnqueueRefused(s) \/ EnqueueExhausted(s)
                 \/ ClaimLost(s) \/ Missing(s) \/ RollBackDead(s)
          PROVE  UNCHANGED tables
      BY <3>1
      DEF SaveConflict, EnqueueRefused, EnqueueExhausted, ClaimLost, Missing, RollBackDead,
          Leave, Abort, tables
    <3>2. ASSUME SaveLock(s) \/ SaveWrite(s) \/ EnqueueLock(s) \/ EnqueueInsert(s) \/ EnqueueSlot(s)
          PROVE  UNCHANGED tables
      BY <3>2 DEF SaveLock, SaveWrite, EnqueueLock, EnqueueInsert, EnqueueSlot, tables
    <3>3. ASSUME ClaimLock(s) \/ ClaimRun(s) \/ CancelRun(s) \/ FinishRun(s) \/ FreeSlot(s)
          PROVE  UNCHANGED tables
      BY <3>3 DEF ClaimLock, ClaimRun, CancelRun, FinishRun, FreeSlot, tables
    <3>4. ASSUME ScheduleNext(s) \/ RecoverNext(s)
          PROVE  UNCHANGED tables
      BY <3>4 DEF ScheduleNext, Enqueue, RecoverNext, FinishCall, Begin, tables
    <3>5. UNCHANGED tables
      BY <1>2, <2>2, <3>1, <3>2, <3>3, <3>4 DEF Statement
    <3> QED BY <1>2, <3>5, StatementStep
  <2> QED BY <2>1, <2>2
<1>3. ASSUME NEW s \in Session, Fail(s) PROVE QueueInv' /\ UNCHANGED tables
  BY <1>3, LeaveStep DEF Fail, Abort
<1>4. CASE Tick
  BY <1>4, TickStep DEF Tick, LifecycleNext, LossyNext
<1>5. CASE UNCHANGED vars
  <2>1. /\ UNCHANGED tables /\ agent' = agent /\ run' = run /\ clock' = clock /\ lock' = lock
        /\ pc' = pc /\ call' = call /\ todo' = todo /\ wAgent' = wAgent /\ wRun' = wRun
    BY <1>5 DEF vars, tables, writes
  <2>2. TypeOK' /\ LossyInv'
    BY <2>1, LossyNextInv DEF QueueInv, TypeOK, TablesOK
  <2>3. ASSUME NEW s \in Session PROVE Owns(s)' /\ Aims(s)' /\ Work(s)'
    <3>1. Owns(s)' /\ Aims(s)'
      BY <2>1, SessionFacts DEF Owns, Aims, MayFinish
    <3>2. Work(s) /\ Moment(call[s].agent)' = Moment(call[s].agent)
      BY <2>1, SessionFacts DEF Moment, RunsOf
    <3>3. CASE pc[s] \in Locked \cup {"dead"}
      BY <2>1, <3>1, <3>2, <3>3, SessionFacts, KeepsWork
    <3>4. CASE pc[s] \notin Locked \cup {"dead"}
      BY <2>1, <3>1, <3>2, <3>4 DEF Work, Locked
    <3> QED BY <3>1, <3>3, <3>4
  <2> QED BY <2>1, <2>2, <2>3 DEF QueueInv
<1>6. ASSUME NEW s \in Session, Die(s) PROVE QueueInv' /\ UNCHANGED tables
  BY <1>6, DieStep DEF Die
<1> QED BY <1>1, <1>2, <1>3, <1>4, <1>5, <1>6 DEF Next

-----------------------------------------------------------------------------
(* The inductive invariant of the sessions holds in every reachable state,  *)
(* however late the server rolls killed processes back.                     *)
THEOREM QueueInvariant == Spec => []QueueInv
<1>1. QueueInv /\ [Next]_vars => QueueInv'
  BY QueueNextInv
<1> QED BY <1>1, QueueInitInv, PTL DEF Spec

(* Whatever the interleaving of statements, rollbacks and deaths, what is   *)
(* committed is a sequence of atomic operations, in which a queued run may  *)
(* lose its slot: late rollbacks can do no other harm to the tables.        *)
THEOREM QueueRefinesLossy == Spec => RefinesLossyLifecycle
<1>1. QueueInv /\ [Next]_vars => [LossyNext]_tables
  BY QueueNextInv
<1>2. Init => LifecycleInit
  BY DEF Init
<1> QED BY <1>1, <1>2, QueueInvariant, PTL DEF Spec, RefinesLossyLifecycle, LossySpec

(* If the server rolls killed processes back at once, not even that.        *)
THEOREM QueueRefinesLifecycle == LateRollback = {} => (Spec => RefinesLifecycle)
<1> SUFFICES ASSUME LateRollback = {} PROVE Spec => RefinesLifecycle
  OBVIOUS
<1>1. QueueInv /\ [Next]_vars => [LifecycleNext]_tables
  BY QueueNextInv
<1>2. Init => LifecycleInit
  BY DEF Init
<1> QED BY <1>1, <1>2, QueueInvariant, PTL DEF Spec, RefinesLifecycle, LifecycleSpec

(* A session that holds a row lock never waits for another, and no path out *)
(* of a transaction keeps one.                                              *)
THEOREM QueueHoldersGoOn == Spec => []HoldersGoOn
<1>1. QueueInv => HoldersGoOn
  <2> SUFFICES ASSUME QueueInv, NEW a \in Agent, lock[a] # None
               PROVE  pc[lock[a]] \in Locked \cup {"dead"}
    BY DEF HoldersGoOn
  <2>1. lock[a] \in Session
    BY DEF QueueInv, TypeOK
  <2> QED BY <2>1, SessionFacts DEF Owns
<1> QED BY <1>1, QueueInvariant, PTL

(* Rows and sessions of AgentRepository keep their types.                   *)
THEOREM QueueTypes == Spec => []TypeOK
<1>1. QueueInv => TypeOK
  BY DEF QueueInv
<1> QED BY <1>1, QueueInvariant, PTL

(* Scheduled runs of an agent keep its interval from every earlier run,     *)
(* whatever was requested and edited meanwhile, and also for an agent whose *)
(* slot was lost.                                                           *)
THEOREM QueueGaps == Spec => []ScheduledGap
<1>1. QueueInv => ScheduledGap
  BY DEF QueueInv, LossyInv
<1> QED BY <1>1, QueueInvariant, PTL

(* ActiveRun names the one pending run of its agent after every COMMIT,     *)
(* whatever sessions interleave.                                            *)
THEOREM QueueSlots == LateRollback = {} => (Spec => []SlotAgreement)
<1> SUFFICES ASSUME LateRollback = {} PROVE Spec => []SlotAgreement
  OBVIOUS
<1>1. Spec => LifecycleSpec
  BY QueueRefinesLifecycle DEF RefinesLifecycle
<1> QED BY <1>1, LifecycleSafety, PTL

(* Hence no agent has two pending runs, which is what the README promises   *)
(* and what a late rollback breaks.                                         *)
THEOREM QueueOnePending == LateRollback = {} => (Spec => []OnePendingRunPerAgent)
<1> SUFFICES ASSUME LateRollback = {} PROVE Spec => []OnePendingRunPerAgent
  OBVIOUS
<1>1. SlotAgreement /\ TypeOK => OnePendingRunPerAgent
  <2> SUFFICES ASSUME SlotAgreement, TypeOK, NEW r1 \in Run, NEW r2 \in Run, r1 # r2,
                      run[r1].state \in Pending, run[r2].state \in Pending,
                      run[r1].agent = run[r2].agent
               PROVE  FALSE
    BY DEF OnePendingRunPerAgent
  <2>1. run[r1].agent \in Agent
    BY RunTypes DEF TypeOK, TablesOK, Pending
  <2> QED BY <2>1 DEF SlotAgreement
<1> QED BY <1>1, QueueSlots, QueueTypes, PTL
=============================================================================
