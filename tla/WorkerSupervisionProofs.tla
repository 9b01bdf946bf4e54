----------------------- MODULE WorkerSupervisionProofs -----------------------
(****************************************************************************)
(* At most one runner acts, and it holds the slot of its run's agent, for   *)
(* every set of agents and runs, any number of worker failures, kills,      *)
(* stops and restarts of the container.                                     *)
(*                                                                          *)
(* The inductive invariant WorkerInv ties each process to the worker's      *)
(* run_id: a runner process exists only for the job of a worker that has    *)
(* spawned it (Alone), and its run has not ended (Acting).                  *)
(****************************************************************************)
EXTENDS WorkerSupervision, RunLifecycleProofs

(* A runner process is the child of the worker that is alive or has died    *)
(* and not been fenced.                                                     *)
Alone ==
    \A r \in Run : runner[r] \in RunnerProcess =>
        /\ job = r
        /\ worker \in {"top", "poll", "reap", "claim", "finally", "dead"}
        /\ sup = "wait"

Acting == \A r \in Run : runner[r] = "live" => run[r].state = "RUNNING"

(* A run that is still queued has never had a runner.                       *)
Spent == \A r \in Run : run[r].state \in {"ABSENT", "QUEUED"} => runner[r] = "none"

(* What the worker knows about its job at each statement.                   *)
Job ==
    /\ worker \in Alive => sup = "wait"
    /\ worker = "spawn" => job \in Run /\ run[job].state = "RUNNING" /\ runner[job] = "none"
    /\ worker \in {"timeout", "closing"} => job \in Run /\ runner[job] = "gone"
    /\ worker = "reap" => job \in Run
    /\ worker \in {"boot", "recover"} => job = None
    /\ worker \in Alive \ {"spawn"} /\ job \in Run => runner[job] # "none"
    /\ sup \in {"spawn", "wait"} => failures < MaxFailures

WorkerInv == TypeOK /\ TablesInv /\ Alone /\ Acting /\ Spent /\ Job /\ NoStrayRuns
-----------------------------------------------------------------------------
(* What the operations on the tables do to the state of each run.           *)

(* A finished run was RUNNING, and no other run changes.                    *)
LEMMA FinishedRun ==
    ASSUME TablesOK, NEW r \in Run, NEW outcome \in Outcome, RunFinished(r, outcome)
    PROVE  /\ run[r].state = "RUNNING"
           /\ run'[r].state \notin {"ABSENT", "QUEUED", "RUNNING"}
           /\ \A q \in Run \ {r} : run'[q].state = run[q].state
<1>1. run[r].state = "RUNNING" /\ run' = [run EXCEPT ![r].state = outcome]
  BY DEF RunFinished
<1>2. run'[r] = [run[r] EXCEPT !.state = outcome] /\ \A q \in Run \ {r} : run'[q] = run[q]
  BY <1>1 DEF TablesOK
<1>3. outcome \notin {"ABSENT", "QUEUED", "RUNNING"} /\ outcome \in Pending \cup Terminal
  BY OutcomeAssumption, Constants
<1>4. run'[r].state = outcome
  BY <1>2, <1>3, RunTypes, StateRow
<1> QED BY <1>1, <1>2, <1>3, <1>4

(* finish(r, FAILED) leaves r not RUNNING and no other run changed.         *)
LEMMA FailedRun ==
    ASSUME TablesOK, NEW r \in Run, FinishFailed(r)
    PROVE  /\ run'[r].state # "RUNNING"
           /\ run'[r].state \in {"ABSENT", "QUEUED"} => run[r].state = run'[r].state
           /\ \A q \in Run \ {r} : run'[q].state = run[q].state
<1>1. CASE run[r].state = "RUNNING"
  BY <1>1, FinishedRun, OutcomeAssumption DEF FinishFailed
<1>2. CASE run[r].state # "RUNNING"
  BY <1>2 DEF FinishFailed, tables
<1> QED BY <1>1, <1>2

(* A run that is started or cancelled was QUEUED.                           *)
LEMMA ClaimedRun ==
    ASSUME TablesOK, NEW r \in Run
    PROVE  /\ RunStarted(r) =>
              /\ run[r].state = "QUEUED" /\ run'[r].state = "RUNNING"
              /\ \A q \in Run \ {r} : run'[q].state = run[q].state
           /\ RunCancelled(r) =>
              /\ run[r].state = "QUEUED" /\ run'[r].state = "CANCELLED"
              /\ \A q \in Run \ {r} : run'[q].state = run[q].state
<1>1. run[r] \in RunRow
  BY RunTypes
<1>2. ASSUME RunStarted(r)
      PROVE  /\ run[r].state = "QUEUED" /\ run'[r].state = "RUNNING"
             /\ \A q \in Run \ {r} : run'[q].state = run[q].state
  BY <1>1, <1>2 DEF RunStarted, TablesOK, RunRow
<1>3. ASSUME RunCancelled(r)
      PROVE  /\ run[r].state = "QUEUED" /\ run'[r].state = "CANCELLED"
             /\ \A q \in Run \ {r} : run'[q].state = run[q].state
  BY <1>1, <1>3 DEF RunCancelled, TablesOK, RunRow
<1> QED BY <1>2, <1>3

(* Requests only add queued runs.                                           *)
LEMMA RequestedRuns ==
    ASSUME TablesOK, Requests, NEW q \in Run
    PROVE  run'[q].state = run[q].state \/ (run[q].state = "ABSENT" /\ run'[q].state = "QUEUED")
<1>1. ASSUME NEW a \in Agent, NEW enabled \in BOOLEAN, NEW interval \in Interval,
             AgentCreated(a, enabled, interval)
      PROVE  run' = run
  BY <1>1 DEF AgentCreated
<1>2. ASSUME NEW a \in Agent, NEW enabled \in BOOLEAN, NEW interval \in Interval,
             AgentSaved(a, enabled, interval)
      PROVE  run' = run
  BY <1>2 DEF AgentSaved
<1>3. ASSUME NEW a \in Agent, NEW r \in Run, NEW trigger \in {"MANUAL", "SCHEDULE"},
             RunQueued(a, r, trigger)
      PROVE  run'[q].state = run[q].state \/ (run[q].state = "ABSENT" /\ run'[q].state = "QUEUED")
  <2>1. PICK created \in Moment(a) :
          run' = [run EXCEPT ![r] = Snapshot(a, agent[a], trigger, created)]
    BY <1>3 DEF RunQueued
  <2>2. run[r].state = "ABSENT" /\ Snapshot(a, agent[a], trigger, created).state = "QUEUED"
    BY <1>3 DEF RunQueued, Snapshot
  <2> QED BY <2>1, <2>2 DEF TablesOK
<1> QED BY <1>1, <1>2, <1>3 DEF Requests

(* Every step of the processes does to the tables what an operation of      *)
(* RunLifecycle does.                                                       *)
LEMMA ProcessesUseTables ==
    ASSUME WorkerInv, [Next]_vars
    PROVE  [LifecycleNext]_tables
<1>1. ASSUME NEW r \in Run, FinishFailed(r) PROVE [LifecycleNext]_tables
  BY <1>1, OutcomeAssumption DEF FinishFailed, LifecycleNext
<1>2. CASE Worker
  <2>1. CASE FinishOverdue \/ Reap \/ FinishStopped
    <3>1. worker \in {"timeout", "reap", "closing"}
      BY <2>1 DEF FinishOverdue, Reap, FinishStopped, WorkerAt
    <3>2. job \in Run
      BY <3>1 DEF WorkerInv, Job
    <3> QED BY <1>1, <2>1, <3>2 DEF FinishOverdue, Reap, FinishStopped, tables
  <2>2. CASE Recover
    BY <2>2, OutcomeAssumption DEF Recover, LifecycleNext
  <2>3. CASE Claim
    BY <2>3 DEF Claim, LifecycleNext
  <2>4. CASE Boot \/ LoopTest \/ KillOverdue \/ SpawnRunner \/ Terminate
    BY <2>4 DEF Boot, LoopTest, KillOverdue, SpawnRunner, Terminate, tables
  <2> QED BY <1>2, <2>1, <2>2, <2>3, <2>4 DEF Worker
<1>3. CASE Supervisor \/ Stop \/ Raise \/ Killed \/ TimePasses \/ TouchStopFile \/ Redeploy
  BY <1>3
  DEF Supervisor, SupervisorLoops, SpawnWorker, Fence, Stop, Raise, Killed, TimePasses,
      TouchStopFile, Redeploy, tables
<1>4. ASSUME NEW r \in Run, RunnerFinishes(r) \/ RunnerExits(r) PROVE [LifecycleNext]_tables
  BY <1>4 DEF RunnerFinishes, RunnerExits, LifecycleNext, tables
<1>5. CASE Requests
  BY <1>5 DEF Requests, LifecycleNext
<1>6. CASE UNCHANGED vars
  BY <1>6 DEF vars
<1> QED BY <1>2, <1>3, <1>4, <1>5, <1>6 DEF Next

(* The tables' part of the invariant, for every step at once.               *)
LEMMA TablesStep ==
    ASSUME WorkerInv, [Next]_vars
    PROVE  TablesInv' /\ TablesOK'
BY ProcessesUseTables, LifecycleNextInv DEF WorkerInv, TablesInv, LossyInv

-----------------------------------------------------------------------------
(* One lemma per process.                                                   *)

(* The supervisor's own steps, the fence among them.                        *)
LEMMA SupervisorStep ==
    ASSUME WorkerInv, TablesInv', TablesOK', Supervisor
    PROVE  WorkerInv'
<1>1. TypeOK /\ Alone /\ Acting /\ Spent /\ Job /\ NoStrayRuns /\ MaxFailures \in Nat
  BY MaxFailuresAssumption DEF WorkerInv
<1>2. run' = run /\ on' = on /\ stopFile' = stopFile /\ starts' = starts
  BY DEF Supervisor, SupervisorLoops, SpawnWorker, Fence, tables
<1>3. CASE SupervisorLoops
  <2>1. /\ sup = "check" /\ failures' = failures /\ worker' = worker /\ serving' = serving
        /\ clean' = clean /\ job' = job /\ overdue' = overdue /\ runner' = runner
        /\ sup' = IF ~on THEN "stopped" ELSE IF failures < MaxFailures THEN "spawn" ELSE "gave_up"
    BY <1>3 DEF SupervisorLoops, workerVars
  <2>2. TypeOK'
    BY <1>1, <1>2, <2>1 DEF TypeOK
  <2> QED BY <1>1, <1>2, <2>1, <2>2
      DEF WorkerInv, Alone, Acting, Spent, Job, NoStrayRuns, Alive, Body
<1>4. CASE SpawnWorker
  <2>1. /\ sup = "spawn" /\ sup' = "wait" /\ worker' = "boot" /\ serving' = TRUE /\ clean' = FALSE
        /\ job' = None /\ overdue' = FALSE /\ failures' = failures /\ runner' = runner
    BY <1>4 DEF SpawnWorker
  <2>2. TypeOK'
    BY <1>1, <1>2, <2>1 DEF TypeOK, Alive
  <2> QED BY <1>1, <1>2, <2>1, <2>2, Constants
      DEF WorkerInv, Alone, Acting, Spent, Job, NoStrayRuns, Alive, Body
<1>5. CASE Fence
  <2>1. /\ sup = "wait" /\ worker = "dead" /\ runner' = Fenced /\ worker' = worker /\ clean' = clean
        /\ serving' = serving /\ job' = job /\ overdue' = overdue
        /\ \/ sup' = "stopped" /\ failures' = failures
           \/ sup' = "check" /\ failures' = failures + 1
    BY <1>5 DEF Fence, workerVars
  <2>2. failures \in Nat /\ failures < MaxFailures
    BY <1>1, <2>1 DEF TypeOK, Job
  <2>3. Fenced \in [Run -> RunnerProcess \cup {"none", "gone"}]
    BY <1>1 DEF TypeOK, Fenced, RunnerProcess
  <2>4. TypeOK'
    BY <1>1, <1>2, <2>1, <2>2, <2>3 DEF TypeOK
  <2> QED BY <1>1, <1>2, <2>1, <2>4
      DEF WorkerInv, Alone, Acting, Spent, Job, NoStrayRuns, Alive, Body, Fenced, RunnerProcess
<1> QED BY <1>3, <1>4, <1>5 DEF Supervisor

(* A stop kills runners and starts none.                                    *)
LEMMA StopStep ==
    ASSUME WorkerInv, TablesInv', TablesOK', Stop
    PROVE  WorkerInv'
<1>1. TypeOK /\ Alone /\ Acting /\ Spent /\ Job /\ NoStrayRuns
  BY DEF WorkerInv
<1>2. /\ on' = FALSE /\ sup' = sup /\ failures' = failures /\ clean' = clean /\ job' = job
      /\ overdue' = overdue /\ stopFile' = stopFile /\ starts' = starts /\ run' = run
      /\ runner' \in {Fenced, runner} /\ serving' \in {FALSE, serving}
      /\ worker' = worker \/ (worker = "boot" /\ worker' = "dead")
  BY DEF Stop, tables
<1>3. Fenced \in [Run -> RunnerProcess \cup {"none", "gone"}]
  BY <1>1 DEF TypeOK, Fenced, RunnerProcess
<1>4. \A r \in Run : /\ runner'[r] \in RunnerProcess => runner[r] = runner'[r]
                     /\ runner[r] \in {"none", "gone"} => runner'[r] = runner[r]
  BY <1>1, <1>2 DEF Fenced, RunnerProcess
<1>5. TypeOK'
  BY <1>1, <1>2, <1>3 DEF TypeOK, Alive
<1>6. \A r \in Run : runner'[r] = "none" <=> runner[r] = "none"
  BY <1>1, <1>2 DEF Fenced, RunnerProcess
<1> QED BY <1>1, <1>2, <1>4, <1>5, <1>6
    DEF WorkerInv, Alone, Acting, Spent, Job, NoStrayRuns, Alive, Body, RunnerProcess

(* A restarted container holds no process.                                  *)
LEMMA RedeployStep ==
    ASSUME WorkerInv, TablesInv', TablesOK', Redeploy
    PROVE  WorkerInv'
<1>1. TypeOK /\ Alone /\ Acting /\ Spent /\ Job /\ MaxFailures \in Nat /\ MaxStarts \in Nat
  BY MaxFailuresAssumption, MaxStartsAssumption DEF WorkerInv
<1>2. /\ run' = run /\ sup' = "check" /\ on' = TRUE /\ failures' = 0 /\ worker' = "none"
      /\ serving' = FALSE /\ clean' = FALSE /\ job' = None /\ overdue' = FALSE
      /\ stopFile' = FALSE /\ runner' = Fenced /\ starts < MaxStarts /\ starts' = starts + 1
  BY DEF Redeploy, tables
<1>3. Fenced \in [Run -> RunnerProcess \cup {"none", "gone"}]
  BY <1>1 DEF TypeOK, Fenced, RunnerProcess
<1>4. \A r \in Run : /\ runner'[r] \notin RunnerProcess
                     /\ runner'[r] = "none" <=> runner[r] = "none"
  BY <1>1, <1>2 DEF TypeOK, Fenced, RunnerProcess
<1>5. starts' \in 1..MaxStarts /\ failures' \in 0..MaxFailures
  <2>1. starts \in 1..MaxStarts
    BY <1>1 DEF TypeOK
  <2> QED BY <1>1, <1>2, <2>1
<1>6. TypeOK'
  <2>1. /\ sup' \in {"check", "spawn", "wait", "stopped", "gave_up"}
        /\ worker' \in Alive \cup {"none", "dead"} /\ job' \in Run \cup {None}
        /\ runner' \in [Run -> RunnerProcess \cup {"none", "gone"}]
    BY <1>2, <1>3
  <2> QED BY <1>2, <1>5, <2>1 DEF TypeOK
<1> QED BY <1>1, <1>2, <1>4, <1>6, Constants
    DEF WorkerInv, Alone, Acting, Spent, Job, NoStrayRuns, Alive, Body, RunnerProcess

(* Steps of the worker that touch neither a table nor a runner.             *)
LEMMA QuietWorkerStep ==
    ASSUME WorkerInv, TablesInv', TablesOK',
           Boot \/ LoopTest \/ Raise \/ Killed \/ TimePasses \/ TouchStopFile
    PROVE  WorkerInv'
<1>1. TypeOK /\ Alone /\ Acting /\ Spent /\ Job /\ NoStrayRuns
  BY DEF WorkerInv
<1>2. /\ run' = run /\ runner' = runner /\ sup' = sup /\ on' = on /\ failures' = failures
      /\ serving' = serving /\ job' \in {None, job} /\ clean' \in BOOLEAN /\ overdue' \in BOOLEAN
      /\ stopFile' \in BOOLEAN /\ starts' = starts
  BY <1>1
  DEF Boot, LoopTest, Raise, Killed, TimePasses, TouchStopFile, WorkerAt, TypeOK, tables,
      supervisorVars, workerVars
<1>3. \/ worker' = worker /\ job' = job
      \/ worker = "boot" /\ worker' = "recover" /\ job' = job
      \/ worker = "top" /\ worker' \in {"poll", "finally"} /\ job' = job
      \/ worker \in Body /\ worker' = "finally" /\ job' = IF worker = "spawn" THEN None ELSE job
      \/ worker \in Alive \ Body /\ worker' = "dead" /\ job' = job
      \/ worker \in Alive /\ worker' = "dead" /\ job' = job
  BY DEF Boot, LoopTest, Raise, Killed, TimePasses, TouchStopFile, WorkerAt, Body, Alive, workerVars
<1>4. TypeOK'
  BY <1>1, <1>2, <1>3 DEF TypeOK, Alive, Body
<1> QED BY <1>1, <1>2, <1>3, <1>4, Constants
    DEF WorkerInv, Alone, Acting, Spent, Job, NoStrayRuns, Alive, Body, RunnerProcess

(* Steps of the worker that only change its runner.                         *)
LEMMA ChildStep ==
    ASSUME WorkerInv, TablesInv', TablesOK', KillOverdue \/ SpawnRunner \/ Terminate
    PROVE  WorkerInv'
<1>1. TypeOK /\ Alone /\ Acting /\ Spent /\ Job /\ NoStrayRuns
  BY DEF WorkerInv
<1>2. /\ run' = run /\ sup' = sup /\ on' = on /\ failures' = failures /\ serving' = serving
      /\ job' = job /\ clean' = clean /\ overdue' \in {overdue, FALSE} /\ stopFile' = stopFile /\ starts' = starts
  BY DEF KillOverdue, SpawnRunner, Terminate, WorkerAt, tables, supervisorVars
<1>3. \/ /\ worker \in {"poll", "finally"} /\ job \in Run
         /\ worker' = IF worker = "poll" THEN "timeout" ELSE "closing"
         /\ runner' = [runner EXCEPT ![job] = "gone"]
      \/ worker = "poll" /\ worker' = (IF job = None THEN "claim" ELSE "reap") /\ runner' = runner
      \/ worker = "spawn" /\ worker' = "top" /\ runner' = [runner EXCEPT ![job] = "live"]
      \/ worker = "finally" /\ worker' = "dead" /\ runner' = runner
  BY <1>1 DEF KillOverdue, SpawnRunner, Terminate, WorkerAt, TypeOK
<1>4. runner' \in [Run -> RunnerProcess \cup {"none", "gone"}]
  BY <1>1, <1>3 DEF TypeOK, RunnerProcess
<1>5. TypeOK'
  BY <1>1, <1>2, <1>3, <1>4 DEF TypeOK, Alive, Body
<1>6. ASSUME worker \in {"poll", "finally"}, job \in Run,
             worker' = (IF worker = "poll" THEN "timeout" ELSE "closing"),
             runner' = [runner EXCEPT ![job] = "gone"]
      PROVE  WorkerInv'
  <2>1. runner'[job] = "gone" /\ \A r \in Run \ {job} : runner'[r] = runner[r]
    BY <1>1, <1>6 DEF TypeOK
  <2>2. run[job].state \notin {"ABSENT", "QUEUED"}
    BY <1>1, <1>6 DEF Spent, Job, Alive, Body
  <2> QED BY <1>1, <1>2, <1>5, <1>6, <2>1, <2>2
      DEF WorkerInv, Alone, Acting, Spent, Job, NoStrayRuns, Alive, Body, RunnerProcess
<1>7. ASSUME worker = "spawn", worker' = "top", runner' = [runner EXCEPT ![job] = "live"]
      PROVE  WorkerInv'
  <2>1. /\ job \in Run /\ run[job].state = "RUNNING"
        /\ runner'[job] = "live" /\ \A r \in Run \ {job} : runner'[r] = runner[r]
    BY <1>1, <1>7 DEF TypeOK, Job
  <2> QED BY <1>1, <1>2, <1>5, <1>7, <2>1
      DEF WorkerInv, Alone, Acting, Spent, Job, NoStrayRuns, Alive, Body, RunnerProcess
<1>8. ASSUME runner' = runner,
             \/ worker = "poll" /\ worker' = (IF job = None THEN "claim" ELSE "reap")
             \/ worker = "finally" /\ worker' = "dead"
      PROVE  WorkerInv'
  <2>1. job \in Run \cup {None}
    BY <1>1 DEF TypeOK
  <2> QED BY <1>1, <1>2, <1>5, <1>8, <2>1
      DEF WorkerInv, Alone, Acting, Spent, Job, NoStrayRuns, Alive, Body, RunnerProcess
<1> QED BY <1>3, <1>6, <1>7, <1>8

-----------------------------------------------------------------------------
(* Steps of the worker that change the state of a run.                      *)
LEMMA FailingStep ==
    ASSUME WorkerInv, TablesInv', TablesOK', FinishOverdue \/ Reap \/ FinishStopped
    PROVE  WorkerInv'
<1>1. TypeOK /\ TablesOK /\ Alone /\ Acting /\ Spent /\ Job /\ NoStrayRuns
  BY DEF WorkerInv, TypeOK
<1>2. /\ worker \in {"timeout", "reap", "closing"} /\ job \in Run
      /\ sup' = sup /\ on' = on /\ failures' = failures /\ serving' = serving
      /\ clean' = clean /\ overdue' = overdue /\ stopFile' = stopFile /\ starts' = starts /\ runner' = runner
      /\ worker' = IF worker = "timeout" THEN "reap" ELSE IF worker = "reap" THEN "claim" ELSE "dead"
  BY <1>1 DEF FinishOverdue, Reap, FinishStopped, WorkerAt, supervisorVars, Job
<1>3. \/ FinishFailed(job) /\ runner[job] = "gone" /\ job' \in {job, None}
         /\ job' = IF worker = "reap" THEN None ELSE job
      \/ run' = run /\ job' = job /\ worker = "reap"
  BY <1>1 DEF FinishOverdue, Reap, FinishStopped, WorkerAt, Job, tables
<1>4. TypeOK'
  BY <1>1, <1>2, <1>3 DEF TypeOK, Alive, Body
<1>5. CASE run' = run /\ job' = job /\ worker = "reap"
  BY <1>1, <1>2, <1>4, <1>5
  DEF WorkerInv, Alone, Acting, Spent, Job, NoStrayRuns, Alive, Body, RunnerProcess
<1>6. CASE FinishFailed(job) /\ runner[job] = "gone" /\ job' \in {job, None}
           /\ job' = IF worker = "reap" THEN None ELSE job
  <2>1. /\ run'[job].state # "RUNNING"
        /\ run'[job].state \in {"ABSENT", "QUEUED"} => run[job].state = run'[job].state
        /\ \A q \in Run \ {job} : run'[q].state = run[q].state
    BY <1>1, <1>2, <1>6, FailedRun
  <2>2. Alone' /\ Acting' /\ Spent'
    BY <1>1, <1>2, <1>6, <2>1 DEF Alone, Acting, Spent, RunnerProcess
  <2>3. Job'
    <3>1. worker' \notin {"spawn", "timeout", "closing", "boot", "recover"}
      BY <1>2
    <3>2. worker' \in Alive => worker \in Alive
      BY <1>2 DEF Alive, Body
    <3>3. worker' = "reap" => job' \in Run
      BY <1>2, <1>3, <1>6
    <3>4. job' \in Run => job' = job /\ runner'[job'] = "gone"
      BY <1>2, <1>6, Constants
    <3>5. /\ sup' = sup /\ failures' = failures
          /\ (worker' \in Alive => sup' = "wait")
          /\ (sup' \in {"spawn", "wait"} => failures' < MaxFailures)
      BY <1>1, <1>2, <3>2 DEF Job
    <3> QED BY <3>1, <3>3, <3>4, <3>5 DEF Job
  <2>4. NoStrayRuns'
    BY <1>1, <1>2, <1>6, <2>1 DEF NoStrayRuns, Body
  <2> QED BY <1>4, <2>2, <2>3, <2>4 DEF WorkerInv
<1> QED BY <1>3, <1>5, <1>6

(* Recovery leaves no run RUNNING.                                          *)
LEMMA RecoverStep ==
    ASSUME WorkerInv, TablesInv', TablesOK', Recover
    PROVE  WorkerInv'
<1>1. TypeOK /\ TablesOK /\ Alone /\ Acting /\ Spent /\ Job
  BY DEF WorkerInv, TypeOK
<1>2. /\ worker = "recover" /\ worker' \in {"recover", "top"}
      /\ sup' = sup /\ on' = on /\ failures' = failures /\ serving' = serving /\ job' = job
      /\ clean' = clean /\ overdue' = overdue /\ stopFile' = stopFile /\ starts' = starts /\ runner' = runner
  BY DEF Recover, WorkerAt, supervisorVars
<1>3. \A r \in Run : runner[r] \notin RunnerProcess
  BY <1>1, <1>2 DEF Alone
<1>4. \A r \in Run : run'[r].state \in {"ABSENT", "QUEUED"} => run[r].state = run'[r].state
  <2>1. CASE \E r \in Run : RunFinished(r, "FAILED")
    BY <1>1, <2>1, FinishedRun, OutcomeAssumption
  <2>2. CASE UNCHANGED tables
    BY <2>2 DEF tables
  <2> QED BY <2>1, <2>2 DEF Recover
<1>5. worker' = "top" => \A r \in Run : run'[r].state # "RUNNING"
  BY DEF Recover, WorkerAt, tables
<1>6. TypeOK'
  BY <1>1, <1>2 DEF TypeOK, Alive, Body
<1> QED BY <1>1, <1>2, <1>3, <1>4, <1>5, <1>6, Constants
    DEF WorkerInv, Alone, Acting, Spent, Job, NoStrayRuns, Alive, Body, RunnerProcess

(* A claim finds no runner alive.                                           *)
LEMMA ClaimStep ==
    ASSUME WorkerInv, TablesInv', TablesOK', Claim
    PROVE  WorkerInv'
<1>1. TypeOK /\ TablesOK /\ Alone /\ Acting /\ Spent /\ Job /\ NoStrayRuns
  BY DEF WorkerInv, TypeOK
<1>2. /\ worker = "claim" /\ sup' = sup /\ on' = on /\ failures' = failures /\ serving' = serving
      /\ clean' = clean /\ overdue' = overdue /\ stopFile' = stopFile /\ starts' = starts /\ runner' = runner
  BY DEF Claim, WorkerAt, supervisorVars
<1>3. CASE worker' = "spawn" /\ job = None /\ \E r \in Run : RunStarted(r) /\ job' = r
  <2>1. PICK r \in Run : RunStarted(r) /\ job' = r
    BY <1>3
  <2>2. /\ run[r].state = "QUEUED" /\ run'[r].state = "RUNNING"
        /\ \A q \in Run \ {r} : run'[q].state = run[q].state
    BY <1>1, <2>1, ClaimedRun
  <2>3. \A q \in Run : runner[q] \notin RunnerProcess
    BY <1>1, <1>3, Constants DEF Alone
  <2>4. \A q \in Run : run[q].state # "RUNNING"
    BY <1>1, <1>2, <1>3, Constants DEF NoStrayRuns, Body
  <2>5. runner[r] = "none"
    BY <1>1, <2>2 DEF Spent
  <2>6. TypeOK'
    BY <1>1, <1>2, <1>3, <2>1 DEF TypeOK, Alive, Body
  <2> QED BY <1>1, <1>2, <1>3, <2>1, <2>2, <2>3, <2>4, <2>5, <2>6
      DEF WorkerInv, Alone, Acting, Spent, Job, NoStrayRuns, Alive, Body, RunnerProcess
<1>4. CASE worker' = "top" /\ job' = job /\ (run' = run \/ \E r \in Run : RunCancelled(r))
  <2>1. \A q \in Run :
          run'[q].state = run[q].state \/ (run[q].state = "QUEUED" /\ run'[q].state = "CANCELLED")
    BY <1>1, <1>4, ClaimedRun
  <2>2. TypeOK'
    BY <1>1, <1>2, <1>4 DEF TypeOK, Alive, Body
  <2> QED BY <1>1, <1>2, <1>4, <2>1, <2>2
      DEF WorkerInv, Alone, Acting, Spent, Job, NoStrayRuns, Alive, Body, RunnerProcess
<1> QED BY <1>3, <1>4 DEF Claim, WorkerAt, tables

(* A runner finishes its run or exits.                                      *)
LEMMA RunnerStep ==
    ASSUME WorkerInv, TablesInv', TablesOK', NEW r \in Run, RunnerFinishes(r) \/ RunnerExits(r)
    PROVE  WorkerInv'
<1>1. TypeOK /\ TablesOK /\ Alone /\ Acting /\ Spent /\ Job /\ NoStrayRuns
  BY DEF WorkerInv, TypeOK
<1>2. /\ runner[r] \in RunnerProcess /\ runner' = [runner EXCEPT ![r] = IF runner'[r] = "done" THEN "done" ELSE "gone"]
      /\ runner'[r] \in {"done", "gone"}
      /\ sup' = sup /\ on' = on /\ failures' = failures /\ worker' = worker /\ serving' = serving
      /\ clean' = clean /\ job' = job /\ overdue' = overdue /\ stopFile' = stopFile /\ starts' = starts
  BY <1>1 DEF RunnerFinishes, RunnerExits, RunnerProcess, supervisorVars, workerVars, TypeOK
<1>3. /\ job = r /\ sup = "wait"
      /\ worker \in {"top", "poll", "reap", "claim", "finally", "dead"}
      /\ \A q \in Run \ {r} : runner'[q] = runner[q] /\ runner[q] \notin RunnerProcess
  BY <1>1, <1>2 DEF Alone, TypeOK
<1>4. /\ \A q \in Run : run'[q].state \in {"ABSENT", "QUEUED"} => run[q].state = run'[q].state
      /\ \A q \in Run : run'[q].state = "RUNNING" => run[q].state = "RUNNING"
  <2>1. CASE \E outcome \in Outcome : RunFinished(r, outcome)
    BY <1>1, <2>1, FinishedRun
  <2>2. CASE run' = run
    BY <2>2
  <2> QED BY <2>1, <2>2 DEF RunnerFinishes, RunnerExits, tables
<1>5. TypeOK'
  <2>1. runner' \in [Run -> RunnerProcess \cup {"none", "gone"}]
    BY <1>1, <1>2 DEF TypeOK, RunnerProcess
  <2> QED BY <1>1, <1>2, <2>1 DEF TypeOK
<1> QED BY <1>1, <1>2, <1>3, <1>4, <1>5
    DEF WorkerInv, Alone, Acting, Spent, Job, NoStrayRuns, Alive, Body, RunnerProcess

(* Requests configure agents and queue runs; they start none.               *)
LEMMA RequestStep ==
    ASSUME WorkerInv, TablesInv', TablesOK', Requests
    PROVE  WorkerInv'
<1>1. TypeOK /\ TablesOK /\ Alone /\ Acting /\ Spent /\ Job /\ NoStrayRuns
  BY DEF WorkerInv, TypeOK
<1>2. /\ sup' = sup /\ on' = on /\ failures' = failures /\ worker' = worker /\ serving' = serving
      /\ clean' = clean /\ job' = job /\ overdue' = overdue /\ stopFile' = stopFile /\ starts' = starts
      /\ runner' = runner
  BY DEF Requests, processes, supervisorVars, workerVars
<1>3. \A q \in Run :
        run'[q].state = run[q].state \/ (run[q].state = "ABSENT" /\ run'[q].state = "QUEUED")
  BY <1>1, RequestedRuns
<1>4. TypeOK'
  BY <1>1, <1>2 DEF TypeOK
<1> QED BY <1>1, <1>2, <1>3, <1>4
    DEF WorkerInv, Alone, Acting, Spent, Job, NoStrayRuns, Alive, Body, RunnerProcess

(* Every step preserves the invariant.                                      *)
LEMMA WorkerNextInv == WorkerInv /\ [Next]_vars => WorkerInv'
<1> SUFFICES ASSUME WorkerInv, [Next]_vars PROVE WorkerInv'
  OBVIOUS
<1>1. TablesInv' /\ TablesOK'
  BY TablesStep
<1>2. CASE Worker
  BY <1>1, <1>2, QuietWorkerStep, ChildStep, FailingStep, RecoverStep, ClaimStep DEF Worker
<1>3. CASE Supervisor \/ Stop \/ Raise \/ Killed \/ TimePasses \/ TouchStopFile
  BY <1>1, <1>3, SupervisorStep, StopStep, QuietWorkerStep
<1>7. CASE Redeploy
  BY <1>1, <1>7, RedeployStep
<1>4. ASSUME NEW r \in Run, RunnerFinishes(r) \/ RunnerExits(r) PROVE WorkerInv'
  BY <1>1, <1>4, RunnerStep
<1>5. CASE Requests
  BY <1>1, <1>5, RequestStep
<1>6. CASE UNCHANGED vars
  <2>1. /\ run' = run /\ sup' = sup /\ on' = on /\ failures' = failures /\ worker' = worker
        /\ serving' = serving /\ clean' = clean /\ job' = job /\ overdue' = overdue
        /\ stopFile' = stopFile /\ starts' = starts /\ runner' = runner
    BY <1>6 DEF vars, processes, supervisorVars, workerVars, tables
  <2> QED BY <1>1, <2>1
      DEF WorkerInv, TypeOK, Alone, Acting, Spent, Job, NoStrayRuns
<1> QED BY <1>2, <1>3, <1>4, <1>5, <1>6, <1>7 DEF Next

(* The invariant holds initially.                                           *)
LEMMA WorkerInitInv == Init => WorkerInv
<1> SUFFICES ASSUME Init PROVE WorkerInv
  OBVIOUS
<1>1. TablesInv /\ TablesOK
  BY LifecycleInitInv, SlotsAgree DEF Init
<1>2. TypeOK
  <2>1. runner \in [Run -> RunnerProcess \cup {"none", "gone"}]
    BY DEF Init
  <2>2. failures \in 0..MaxFailures /\ starts \in 1..MaxStarts
    BY MaxFailuresAssumption, MaxStartsAssumption DEF Init
  <2> QED BY <1>1, <2>1, <2>2 DEF Init, TypeOK
<1>3. Alone /\ Acting /\ Spent /\ Job /\ NoStrayRuns
  BY Constants DEF Init, Alone, Acting, Spent, Job, NoStrayRuns, RunnerProcess, Alive, Body
<1> QED BY <1>1, <1>2, <1>3 DEF WorkerInv

-----------------------------------------------------------------------------
(* The inductive invariant holds in every reachable state.                  *)
THEOREM WorkerInvariant == Spec => []WorkerInv
BY WorkerInitInv, WorkerNextInv, PTL DEF Spec

(* The processes do nothing to the tables that is no operation of           *)
(* AgentRepository, in whatever order they meet: what the operations        *)
(* promise (LifecycleSafety) is true of the running system.                 *)
THEOREM ProcessesRefineLifecycle == Spec => LifecycleSpec
<1>1. Init => LifecycleInit
  BY DEF Init
<1> QED BY <1>1, ProcessesUseTables, WorkerInvariant, PTL DEF Spec, LifecycleSpec

(* However workers fail, are killed and restarted: at most one runner acts, *)
(* the run it acts for is RUNNING and holds the slot of its agent, and a    *)
(* worker that has recovered leaves no other run RUNNING.                   *)
LEMMA WorkerSafety == Spec => [](TypeOK /\ OneRunner /\ RunnerHoldsSlot /\ NoStrayRuns)
<1>1. WorkerInv => TypeOK /\ OneRunner /\ NoStrayRuns
  BY DEF WorkerInv, OneRunner, Alone
<1>2. WorkerInv => RunnerHoldsSlot
  <2> SUFFICES ASSUME WorkerInv, NEW r \in Run, runner[r] = "live"
               PROVE  run[r].state = "RUNNING" /\ agent[run[r].agent].active = r
    BY DEF RunnerHoldsSlot
  <2>1. run[r].state = "RUNNING" /\ TablesOK /\ SlotAgreement
    BY SlotsAgree DEF WorkerInv, Acting, TypeOK
  <2>2. run[r].agent \in Agent
    BY <2>1, RunTypes DEF TablesOK
  <2> QED BY <2>1, <2>2 DEF SlotAgreement, Pending
<1> QED BY <1>1, <1>2, WorkerInvariant, PTL

(* Processes and rows of the worker keep their types.                       *)
THEOREM WorkerTypes == Spec => []TypeOK
BY WorkerSafety, PTL

(* However workers are killed, restarted and redeployed, at most one runner *)
(* acts.                                                                    *)
THEOREM AtMostOneRunner == Spec => []OneRunner
BY WorkerSafety, PTL

(* A runner acts for a run that is RUNNING and holds the slot of its agent. *)
THEOREM RunnersHoldSlots == Spec => []RunnerHoldsSlot
BY WorkerSafety, PTL

(* A worker that has recovered leaves no other run RUNNING.                 *)
THEOREM NoRunIsStray == Spec => []NoStrayRuns
BY WorkerSafety, PTL

(* No run is executed twice: a runner starts only for a RUNNING run that    *)
(* never had one.                                                           *)
THEOREM WorkerNeverReplays == Spec => NotReplayed
<1> DEFINE Fresh ==
      \A r \in Run : runner'[r] = "live" /\ runner[r] # "live" =>
          runner[r] = "none" /\ run[r].state = "RUNNING"
<1>1. WorkerInv /\ [Next]_vars => [Fresh]_vars
  <2> SUFFICES ASSUME WorkerInv, Next, NEW r \in Run, runner'[r] = "live", runner[r] # "live"
               PROVE  runner[r] = "none" /\ run[r].state = "RUNNING"
    OBVIOUS
  <2>1. runner \in [Run -> RunnerProcess \cup {"none", "gone"}] /\ Job
    BY DEF WorkerInv, TypeOK
  <2>2. ASSUME NEW q \in Run, RunnerFinishes(q) \/ RunnerExits(q) PROVE FALSE
    BY <2>1, <2>2 DEF RunnerFinishes, RunnerExits
  <2>3. ASSUME KillOverdue \/ Terminate PROVE FALSE
    BY <2>1, <2>3 DEF KillOverdue, Terminate
  <2>4. ASSUME Boot \/ Recover \/ LoopTest \/ FinishOverdue \/ Reap \/ Claim \/ FinishStopped
        PROVE  FALSE
    BY <2>4 DEF Boot, Recover, LoopTest, FinishOverdue, Reap, Claim, FinishStopped
  <2>5. ASSUME Supervisor \/ Stop \/ Redeploy PROVE FALSE
    BY <2>5 DEF Supervisor, SupervisorLoops, SpawnWorker, Fence, Stop, Redeploy, Fenced
  <2>6. ASSUME Raise \/ Killed \/ TimePasses \/ TouchStopFile \/ Requests PROVE FALSE
    BY <2>6 DEF Raise, Killed, TimePasses, TouchStopFile, Requests, processes
  <2>7. SpawnRunner
    BY <2>2, <2>3, <2>4, <2>5, <2>6 DEF Next, Worker
  <2>8. worker = "spawn" /\ runner' = [runner EXCEPT ![job] = "live"]
    BY <2>7 DEF SpawnRunner, WorkerAt
  <2>9. r = job
    BY <2>1, <2>8
  <2> QED BY <2>1, <2>8, <2>9 DEF Job
<1> QED BY <1>1, WorkerInvariant, PTL DEF Spec, NotReplayed
=============================================================================
