-------------------------- MODULE WorkerSupervision --------------------------
(****************************************************************************)
(* The processes that execute runs: the supervisor (worker/supervisor.py),  *)
(* the worker it restarts (worker/main.py) and the runner the worker starts *)
(* for a claimed run (worker/run_agent.py).  They meet in the tables of     *)
(* RunLifecycle, in signals, and in the process group the worker leads.     *)
(*                                                                          *)
(* Assumption: the server rolls back the transaction of a process that was  *)
(* killed before anyone else reads it.  Then the operations on the tables   *)
(* are atomic (RunQueue shows that they are) and a kill falls between two   *)
(* of them.  What a dirty read finds of a transaction not yet rolled back,  *)
(* by recover() or by the worker that reaps its runner, is outside this     *)
(* module: RunQueue has it, with LateRollback.                              *)
(*                                                                          *)
(* The container may be restarted at any moment: every process is gone, the *)
(* tables are not.                                                          *)
(*                                                                          *)
(* schedule() only queues runs, as requests do, so both are the environment *)
(* of the processes; a failing schedule() is a failing worker.              *)
(****************************************************************************)
EXTENDS RunLifecycle

CONSTANTS
    MaxFailures,  \* failed workers after which the supervisor gives up
    MaxStarts,    \* bound on the starts of the container
    Edits         \* bound on the revisions of an agent: which of them may be
                  \* saved enabled, which paused (pairs <<revision, enabled>>)

ASSUME MaxFailuresAssumption == MaxFailures \in Nat
ASSUME MaxStartsAssumption == MaxStarts \in Nat \ {0}

VARIABLES
    sup,       \* where the supervisor is in its loop
    on,        \* its `running` flag
    failures,  \* its count of failed workers
    worker,    \* where the worker is; "dead" until the supervisor reaps it
    serving,   \* the worker's `running` flag
    clean,     \* will the worker exit with code 0?
    job,       \* the worker's run_id: its child, unless it is at "spawn"
    overdue,   \* has the child run for more than 240 seconds?
    stopFile,  \* does STOP_FILE exist?
    runner,    \* the runner process of each run
    starts     \* history: how often the container was started

supervisorVars == <<sup, on, failures>>
workerVars == <<worker, serving, clean, job, overdue>>
processes == <<supervisorVars, workerVars, stopFile, runner, starts>>
vars == <<tables, processes>>

(* Statements of main() inside the try block, and after it.                 *)
Body == {"top", "poll", "timeout", "reap", "claim", "spawn"}
Alive == {"boot", "recover", "finally", "closing"} \cup Body

(* A runner is "live" until it has finished its run, then "done" until it   *)
(* exits.                                                                   *)
RunnerProcess == {"live", "done"}
Down == sup \in {"stopped", "gave_up"}

(* What startup.sh leaves when it starts the supervisor.                    *)
Init ==
    /\ LifecycleInit
    /\ sup = "check" /\ on = TRUE /\ failures = 0
    /\ worker = "none" /\ serving = FALSE /\ clean = FALSE
    /\ job = None /\ overdue = FALSE
    /\ stopFile = FALSE
    /\ runner = [r \in Run |-> "none"]
    /\ starts = 1

-----------------------------------------------------------------------------
(* The supervisor.                                                          *)

(* Mutant: one failure too many.                                            *)
SupervisorLoopsOnce ==
    /\ sup = "check"
    /\ sup' = IF ~on THEN "stopped" ELSE IF failures <= MaxFailures THEN "spawn" ELSE "gave_up"
    /\ UNCHANGED <<tables, on, failures, workerVars, stopFile, runner, starts>>

SupervisorLoops ==
    /\ sup = "check"
    /\ sup' = IF ~on THEN "stopped" ELSE IF failures < MaxFailures THEN "spawn" ELSE "gave_up"
    /\ UNCHANGED <<tables, on, failures, workerVars, stopFile, runner, starts>>

SpawnWorker ==
    /\ sup = "spawn"
    /\ sup' = "wait"
    /\ worker' = "boot"
    /\ serving' = TRUE
    /\ clean' = FALSE
    /\ job' = None
    /\ overdue' = FALSE
    /\ UNCHANGED <<tables, on, failures, stopFile, runner, starts>>

(* The worker was reaped: SIGKILL to its process group, whose members are   *)
(* the runners it left behind, then the decision to stop or to restart.     *)
Fenced == [r \in Run |-> IF runner[r] \in RunnerProcess THEN "gone" ELSE runner[r]]

(* Mutant: no SIGKILL to what the worker left behind.                       *)
FenceNothing ==
    /\ sup = "wait"
    /\ worker = "dead"
    /\ IF ~on \/ clean THEN sup' = "stopped" /\ UNCHANGED failures
       ELSE sup' = "check" /\ failures' = failures + 1
    /\ UNCHANGED <<tables, on, workerVars, stopFile, runner, starts>>

Fence ==
    /\ sup = "wait"
    /\ worker = "dead"
    /\ runner' = Fenced
    /\ IF ~on \/ clean THEN sup' = "stopped" /\ UNCHANGED failures
       ELSE sup' = "check" /\ failures' = failures + 1
    /\ UNCHANGED <<tables, on, workerVars, stopFile, starts>>

(* SIGTERM to the supervisor.  Its handler forwards the signal to the group *)
(* if a worker is there to be found: not while Popen is still starting one. *)
(* A worker that has installed its handler only lowers its flag, a runner   *)
(* has none and dies.                                                       *)
Stop ==
    /\ ~Down
    /\ on' = FALSE
    /\ IF sup = "wait" /\ worker \in Alive
       THEN /\ runner' = Fenced
            /\ IF worker = "boot" THEN worker' = "dead" /\ UNCHANGED serving
               ELSE serving' = FALSE /\ UNCHANGED worker
       ELSE UNCHANGED <<runner, worker, serving>>
    /\ UNCHANGED <<tables, sup, failures, clean, job, overdue, stopFile, starts>>

Supervisor == SupervisorLoops \/ SpawnWorker \/ Fence

-----------------------------------------------------------------------------
(* The worker.                                                              *)

(* finish(r, "FAILED"): without effect on a run that has finished.          *)
FinishFailed(r) ==
    IF run[r].state = "RUNNING" THEN RunFinished(r, "FAILED") ELSE UNCHANGED tables

WorkerAt(here, there) ==
    /\ worker = here
    /\ worker' = there
    /\ UNCHANGED <<supervisorVars, serving, stopFile, starts>>

Boot ==
    /\ WorkerAt("boot", "recover")
    /\ UNCHANGED <<tables, clean, job, overdue, runner>>

(* Mutant: a worker starts without recovering.                              *)
RecoverNothing ==
    /\ WorkerAt("recover", "top")
    /\ UNCHANGED <<tables, clean, job, overdue, runner>>

(* Mutant: recovery queues interrupted runs again.                          *)
RecoverByReplay ==
    \/ /\ WorkerAt("recover", "recover")
       /\ \E r \in Run : /\ run[r].state = "RUNNING"
                        /\ run' = [run EXCEPT ![r].state = "QUEUED"]
       /\ UNCHANGED <<agent, clock, clean, job, overdue, runner>>
    \/ /\ WorkerAt("recover", "top")
       /\ \A r \in Run : run[r].state # "RUNNING"
       /\ UNCHANGED <<tables, clean, job, overdue, runner>>

(* Nobody else starts runs, so recover's list does not grow meanwhile; with *)
(* no transaction of a dead process left it lists what is stored.           *)
Recover ==
    \/ /\ WorkerAt("recover", "recover")
       /\ \E r \in Run : RunFinished(r, "FAILED")
       /\ UNCHANGED <<clean, job, overdue, runner>>
    \/ /\ WorkerAt("recover", "top")
       /\ \A r \in Run : run[r].state # "RUNNING"
       /\ UNCHANGED <<tables, clean, job, overdue, runner>>

(* Mutant: the loop does not look for the stop file.                        *)
LoopTestFlag ==
    \/ /\ serving
       /\ WorkerAt("top", "poll")
       /\ UNCHANGED <<tables, clean, job, overdue, runner>>
    \/ /\ ~serving
       /\ WorkerAt("top", "finally")
       /\ clean' = TRUE
       /\ UNCHANGED <<tables, job, overdue, runner>>

LoopTest ==
    \/ /\ serving /\ ~stopFile
       /\ WorkerAt("top", "poll")
       /\ UNCHANGED <<tables, clean, job, overdue, runner>>
    \/ /\ ~serving \/ stopFile
       /\ WorkerAt("top", "finally")
       /\ clean' = TRUE
       /\ UNCHANGED <<tables, job, overdue, runner>>

(* Mutant: an overdue run is failed, its runner goes on.                    *)
KillOverdueNever ==
    /\ WorkerAt("poll", IF job = None THEN "claim" ELSE IF overdue THEN "timeout" ELSE "reap")
    /\ UNCHANGED <<tables, clean, job, overdue, runner>>

(* Mutant: no time limit.                                                   *)
PollOnly ==
    /\ WorkerAt("poll", IF job = None THEN "claim" ELSE "reap")
    /\ UNCHANGED <<tables, clean, job, overdue, runner>>

(* child.kill(); child.wait() for a child that is overdue.                  *)
KillOverdue ==
    \/ /\ job # None /\ overdue
       /\ WorkerAt("poll", "timeout")
       /\ runner' = [runner EXCEPT ![job] = "gone"]
       /\ UNCHANGED <<tables, clean, job, overdue>>
    \/ /\ job # None => ~overdue
       /\ WorkerAt("poll", IF job = None THEN "claim" ELSE "reap")
       /\ UNCHANGED <<tables, clean, job, overdue, runner>>

FinishOverdue ==
    /\ WorkerAt("timeout", "reap")
    /\ FinishFailed(job)
    /\ UNCHANGED <<clean, job, overdue, runner>>

(* A runner that exited without finishing its run has failed.               *)
Reap ==
    /\ WorkerAt("reap", "claim")
    /\ IF runner[job] = "gone" THEN FinishFailed(job) /\ job' = None
       ELSE UNCHANGED <<tables, job>>
    /\ UNCHANGED <<clean, overdue, runner>>

(* One child at a time: nothing is claimed while there is one.              *)
Claim ==
    \/ /\ job = None
       /\ WorkerAt("claim", "spawn")
       /\ \E r \in Run : RunStarted(r) /\ job' = r
       /\ UNCHANGED <<clean, overdue, runner>>
    \/ /\ job = None
       /\ WorkerAt("claim", "top")
       /\ \E r \in Run : RunCancelled(r)
       /\ UNCHANGED <<clean, job, overdue, runner>>
    \/ /\ job = None => \A r \in Run : run[r].state # "QUEUED"
       /\ WorkerAt("claim", "top")
       /\ UNCHANGED <<tables, clean, job, overdue, runner>>

SpawnRunner ==
    /\ WorkerAt("spawn", "top")
    /\ runner' = [runner EXCEPT ![job] = "live"]
    /\ overdue' = FALSE
    /\ UNCHANGED <<tables, clean, job>>

(* finally: a child that is still there is terminated and waited for.       *)
Terminate ==
    \/ /\ job # None /\ runner[job] \in RunnerProcess
       /\ WorkerAt("finally", "closing")
       /\ runner' = [runner EXCEPT ![job] = "gone"]
       /\ UNCHANGED <<tables, clean, job, overdue>>
    \/ /\ job # None => runner[job] \notin RunnerProcess
       /\ WorkerAt("finally", "dead")
       /\ UNCHANGED <<tables, clean, job, overdue, runner>>

FinishStopped ==
    /\ WorkerAt("closing", "dead")
    /\ FinishFailed(job)
    /\ UNCHANGED <<clean, job, overdue, runner>>

(* An exception: the database is unavailable, a lock wait times out, Popen  *)
(* fails.  In the loop it runs the finally clause, elsewhere it is fatal.   *)
Raise ==
    /\ \/ worker \in {"boot", "recover", "closing"} /\ WorkerAt(worker, "dead")
       \/ worker \in Body /\ WorkerAt(worker, "finally")
    /\ clean' = FALSE
    /\ job' = IF worker = "spawn" THEN None ELSE job
    /\ UNCHANGED <<tables, overdue, runner>>

(* The worker is killed; its runner is not.                                 *)
Killed ==
    /\ worker \in Alive
    /\ WorkerAt(worker, "dead")
    /\ clean' = FALSE
    /\ UNCHANGED <<tables, job, overdue, runner>>

Worker ==
    \/ Boot \/ Recover \/ LoopTest \/ KillOverdue \/ FinishOverdue \/ Reap
    \/ Claim \/ SpawnRunner \/ Terminate \/ FinishStopped

-----------------------------------------------------------------------------
(* The runner executes its run once and finishes it, or exits before.       *)

RunnerFinishes(r) ==
    /\ runner[r] = "live"
    /\ IF run[r].state = "RUNNING" THEN \E outcome \in Outcome : RunFinished(r, outcome)
       ELSE UNCHANGED tables
    /\ runner' = [runner EXCEPT ![r] = "done"]
    /\ UNCHANGED <<supervisorVars, workerVars, stopFile, starts>>

RunnerExits(r) ==
    /\ runner[r] \in RunnerProcess
    /\ runner' = [runner EXCEPT ![r] = "gone"]
    /\ UNCHANGED <<tables, supervisorVars, workerVars, stopFile, starts>>

(* The environment: time, an operator, and the requests that configure      *)
(* agents and queue runs.  No process here reads the clock of the tables,   *)
(* which stands still.                                                      *)
TimePasses ==
    /\ job # None /\ worker # "spawn" /\ runner[job] \in RunnerProcess
    /\ ~overdue
    /\ overdue' = TRUE
    /\ UNCHANGED <<tables, supervisorVars, worker, serving, clean, job, stopFile, runner, starts>>

TouchStopFile ==
    /\ ~stopFile /\ ~Down
    /\ stopFile' = TRUE
    /\ UNCHANGED <<tables, supervisorVars, workerVars, runner, starts>>

(* The container is restarted: startup.sh removes the stop file and starts  *)
(* a supervisor.                                                            *)
Redeploy ==
    /\ starts < MaxStarts
    /\ starts' = starts + 1
    /\ sup' = "check" /\ on' = TRUE /\ failures' = 0
    /\ worker' = "none" /\ serving' = FALSE /\ clean' = FALSE
    /\ job' = None /\ overdue' = FALSE
    /\ stopFile' = FALSE
    /\ runner' = Fenced
    /\ UNCHANGED tables

Requests ==
    /\ \/ \E a \in Agent, enabled \in BOOLEAN, interval \in Interval :
             \/ <<1, enabled>> \in Edits /\ AgentCreated(a, enabled, interval)
             \/ <<agent[a].rev + 1, enabled>> \in Edits /\ AgentSaved(a, enabled, interval)
       \/ \E a \in Agent, r \in Run, trigger \in {"MANUAL", "SCHEDULE"} :
             RunQueued(a, r, trigger)
    /\ UNCHANGED processes

Next ==
    \/ Supervisor \/ Stop
    \/ Worker \/ Raise \/ Killed
    \/ \E r \in Run : RunnerFinishes(r) \/ RunnerExits(r)
    \/ TimePasses \/ TouchStopFile \/ Redeploy \/ Requests

Spec == Init /\ [][Next]_vars

(* The loops go on and time passes; nothing is assumed of a runner, which   *)
(* may hang in a model or tool call for ever.                               *)
Fairness == WF_vars(Supervisor) /\ WF_vars(Worker) /\ WF_vars(TimePasses)

FairSpec == Spec /\ Fairness

-----------------------------------------------------------------------------
(* Properties.                                                              *)

TypeOK ==
    /\ TablesOK
    /\ sup \in {"check", "spawn", "wait", "stopped", "gave_up"}
    /\ on \in BOOLEAN /\ failures \in 0..MaxFailures
    /\ worker \in Alive \cup {"none", "dead"}
    /\ serving \in BOOLEAN /\ clean \in BOOLEAN
    /\ job \in Run \cup {None} /\ overdue \in BOOLEAN /\ stopFile \in BOOLEAN
    /\ runner \in [Run -> RunnerProcess \cup {"none", "gone"}]
    /\ starts \in 1..MaxStarts

(* At most one runner exists, across crashes and restarts of the worker     *)
(* ("Fence it before recovery releases any durable agent execution slot").  *)
OneRunner ==
    \A r1, r2 \in Run :
        runner[r1] \in RunnerProcess /\ runner[r2] \in RunnerProcess => r1 = r2

(* While a runner acts for a run, the run is RUNNING and holds the slot of  *)
(* its agent: no timeout, stop or recovery lets a second run of the agent   *)
(* start beside it.                                                         *)
RunnerHoldsSlot ==
    \A r \in Run : runner[r] = "live" =>
        run[r].state = "RUNNING" /\ agent[run[r].agent].active = r

(* Once a worker has recovered, a RUNNING run is the one it works on: no    *)
(* run of a previous worker keeps its agent blocked while workers serve.    *)
NoStrayRuns ==
    worker \in Body => \A r \in Run : run[r].state = "RUNNING" => r = job

(* README: "Runs interrupted by worker restart are marked failed and are    *)
(* not replayed."  A runner starts at most once for a run, and only for one *)
(* that is RUNNING.                                                         *)
NotReplayed ==
    [][\A r \in Run : runner'[r] = "live" /\ runner[r] # "live" =>
          runner[r] = "none" /\ run[r].state = "RUNNING"]_vars

(* A queued run ends, whatever its runner does and however often workers    *)
(* crash, unless the supervisor stops or gives up.                          *)
PendingRunsEnd ==
    \A r \in Run : run[r].state \in Pending ~> run[r].state \in Terminal \/ Down

(* A stop has been noticed: by the stop file, or by a SIGTERM that found    *)
(* either no worker to wait for or one that has its handler.  A SIGTERM     *)
(* between the loop test and the assignment of the child finds neither: it  *)
(* is lost to the worker just started.                                      *)
Stopping ==
    \/ stopFile
    \/ ~on /\ sup = "check"
    \/ ~on /\ sup = "wait" /\ (~serving \/ worker = "dead")

(* A stop that was noticed ends worker, runner and supervisor, however      *)
(* often workers fail meanwhile, unless the container is started again.     *)
StopEnds ==
    \A n \in 1..MaxStarts :
        Stopping /\ starts = n ~> (Down /\ \A r \in Run : runner[r] \notin RunnerProcess)
                                  \/ starts > n
=============================================================================
