# Verification of IRIS Argus

TLA+ models of the control logic of this repository: the queue of agent runs and
the processes that execute them, a run and its tool calls, the registry of tools
a DBA enables and blocks, the way of a tool and its pinned values from the
contract to the request, the decision of action proposals, and the start of the
container with its installer. TLC checks each model on small instances; TLAPS
proves the most important results for every value of the constants.
`PROJECT.json` maps each definition to the lines it models, lists the runs, the
theorems, the mutants that show a property can fail, the findings and the hazards the properties are aimed at.

Run a check with `tlc -config queue.cfg MCRunQueue.tla`, a proof with
`tlapm RunQueueProofs.tla`.

## 1. The system

| Component | Source | State | Operations | Met by |
|---|---|---|---|---|
| Run queue | `app/mvp/repository.py` | `MVP_AGENT`, `MVP_RUN` | save_agent, enqueue, schedule, claim, finish, recover | requests, worker, runner (SQL) |
| Evidence | same | `MVP_CALL` | record_call | runner |
| Supervisor | `worker/supervisor.py` | child, `running`, failures | restart loop, fence, stop | worker (process group, signals) |
| Worker | `worker/main.py` | child, run_id, started, `running`, STOP_FILE | recover, schedule, claim, start, time out, reap | run queue, runner |
| Runner | `worker/run_agent.py`, `app/mvp/runtime.py` | messages, counters, evidence ids | execute, handler of its exceptions | model, gateway, run queue |
| Gateway | `app/mvp/gateway.py` | bindings | admission, execute | registry, SysAdmin API |
| Tool registry | `app/repositories/iris_repository.py`, `app/install.py` | `AI_TOOL_VERSION`, `AI_TOOL_POLICY_OVERRIDE`, seed marker | toggle, presets, default seed | DBA requests, installer, gateway |
| Proposals | `iris_repository.py`, `app/api/routes.py` | `AI_ACTION_PROPOSAL`, `AI_APPROVAL` | approve, reject | DBA requests |
| Installer | `app/install.py`, `scripts/startup.sh` | ledger, credentials, grants, catalog rows | migrate, import, configure, seed | everything, at start |
| Catalog, importer | `app/mvp/catalog.py`, `app/tools/importer.py` | the catalog, computed once per process | construction from the pinned contract | installer, routes, runner |
| Agent rules | `app/mvp/domain.py` | none | validation of a form and its pinned values | routes |
| Identity, HTTP, interface, providers, scripts | `app/auth.py`, `app/__init__.py`, routes, `frontend/`, `providers.py`, `scripts/` | none that outlives a request | | |

The parts share no memory. They meet in SQL tables, where sessions interleave
statement by statement; in signals and exit codes, where processes die at any
point; and in the SysAdmin API, where an action once sent cannot be taken back.
What is hard about the system is there:

- *Queue.* Lists and candidates are read without a lock and acted upon later;
  `SELECT` sees uncommitted rows; a transaction can fail or its process can be
  killed at each statement. Correct means: at most one pending run per agent,
  agreeing with `ActiveRun`; no occurrence scheduled twice; no lost edit; no
  lock kept for ever.
- *Processes.* Worker and runner die independently, runs hang, a stop and a time
  limit race with a result. Correct means: one runner at a time, only for a run
  that is RUNNING and holds its slot; no replay; every queued run ends.
- *Run.* The model may answer anything, tools are blocked meanwhile, any call
  may fail. Correct means: the stored state, evidence and report agree; what
  the model was told is stored; budgets hold; nothing blocked is dispatched.
- *Tools.* A binding is checked against one contract when it is saved, copied
  into a run, and used when another image may be installed; catalog and importer
  read the same document with different code. Correct means: pinned values reach
  the target, requests conform, a model that obeys its schema is not refused.
- *Registry.* Transactions that lock many rows meet others; restarts apply the
  default again. Correct means: decisions are atomic and audited, and end.
- *Proposals.* Three transactions per decision. Correct means: decided once,
  with a record.
- *Installer.* Every statement commits by itself and the container can stop after
  any of them; the next start may bring another image or another container.
  Correct means: the ledger tells the truth, an interrupted start is completed,
  files and IRIS agree on passwords, and only a finished start counts as ready.

## 2. The modules

| Module | Models | Instance | Proofs |
|---|---|---|---|
| `RunTables` | the rows of the two tables and each statement's effect on a row | | `RunLifecycleProofs` |
| `RunLifecycle` | abstract: every repository operation as one atomic step | | `RunLifecycleProofs` |
| `RunQueue` | `AgentRepository` as concurrent sessions | `MCRunQueue` | `RunQueueProofs` |
| `WorkerSupervision` | supervisor, worker and runner over `RunLifecycle` | `MCWorkerSupervision` | `WorkerSupervisionProofs` |
| `RunRecord` | abstract: the stored record of a run | | |
| `AgentRun` | one runner: `execute`, `Gateway`, `run_agent.py` | `MCAgentRun` | `AgentRunProofs` |
| `AvailabilityLog` | abstract: atomic, audited decisions about tools | | |
| `ToolRegistry` | toggles, presets and seed as concurrent sessions | `MCToolRegistry` | `ToolRegistryProofs` |
| `ToolGateway` | the gateway's lookups among the sessions of `ToolRegistry` | `MCToolGateway` | `ToolRegistryProofs` |
| `ToolContract` | operators: `catalog.py` and `importer.py` over a document | | |
| `ToolParameters` | operators: pinned values, offered schema, `_request_parameters` | | `AgentToolsProofs` |
| `AgentTools` | a tool from the catalog through binding and run to the request | `MCAgentTools` | `AgentToolsProofs` |
| `ProposalDecision` | approve and reject as concurrent requests | `MCProposalDecision` | `ProposalDecisionProofs` |
| `Installer` | `startup.sh`, `setup` and readiness across interrupted starts | `MCInstaller` | `InstallerProofs` |

`RunQueue` implements `RunLifecycle`, and `ToolRegistry` implements
`AvailabilityLog`: the variables of the abstract module are the committed tables
of the detailed one, so the refinement mapping is the identity on them, and the
abstract specification is a property of the detailed one. `RunLifecycle` states two
specifications: `LifecycleSpec` is what the operations mean to do, `LossySpec` adds
that a queued run may lose its slot (`SlotLost`), which is what they amount to when
the server rolls killed processes back late. `RunLifecycle` keeps with each agent the
revision its last edit was made for (`base`, a history variable): `AgentSaved`
replaces that revision and no other, so that a lost edit is not a step of it. `AgentRun` implements
`RunRecord` under a mapping that forgets more: the record's calls are the outcomes
of the evidence rows, its state is that of the run's row. `WorkerSupervision`
uses the operations of `RunLifecycle` as its steps on the tables; the refinement
is what entitles it to, and `ProcessesRefineLifecycle` shows that it does nothing
else to them. `AgentRun` looks inside the runner that
`WorkerSupervision` shows as one process that finishes its run or exits.

**RunQueue.** `pc[s]` is the next SQL statement of session `s`; `call[s]` its
arguments and what it has read; `wAgent[s]`, `wRun[s]` the rows it has written
and not committed; `lock` the row locks; `todo[s]` the list `schedule` or
`recover` walks. Statements that read only rows the session has locked belong to
the step of the lock. Each operation is a chain such as `RunNow`, `EnqueueLock`
(or `EnqueueRefused`), `EnqueueInsert`, `EnqueueSlot`, `Commit`; `Fail` ends any
of them at any statement. `schedule` suppresses `Conflict` and goes on, while any
other exception ends its loop, hence `Leave` and `Abort`. `Save` starts from a form
its author loaded at any earlier time, even from an uncommitted edit that is rolled
back later; `SaveLock` compares what it was loaded from with the locked row. `Finish` may be called
with any run that has been claimed, which covers the runner and all calls of the
worker; `Recover` needs the previous worker's processes to be dead
(`WorkerFenced`), which is what the supervisor's SIGKILL gives it.

**WorkerSupervision.** `sup` and `worker` are the places in the two loops, `job`
is `run_id` with its child, `runner[r]` the process of a run: "live" until it
has finished the run, "done" until it exits. `Raise` is an exception at any
statement, which runs the `finally` clause inside the loop and is fatal outside;
`Killed` is SIGKILL to the worker alone, which leaves its runner alive. `Stop`
may come at any time and any number of times. A signal kills a runner at once.
Time is the flag `overdue` of the present child. `schedule` is part of the
environment, like requests: both only queue runs. Since the operations are atomic
here, the transaction of a process that is killed is rolled back before anybody reads
its rows: that `recover`, or the worker that reaps its runner, may see them for a
while is the subject of `RunQueue` with `LateRollback`. `Redeploy` stops the container
at any point and starts it again: every process is gone, the tables remain, and
`startup.sh` has removed the stop file before the supervisor begins.

**AgentRun.** One step per statement that talks to the database, the model or
the target. `left` are calls of the model's last answer; `request` numbers the
HTTP requests; `told` and `evidence` are the tool results shown to the model and
the rows of `MVP_CALL`. A row's position stands for its ID; `evidenceIds` are those the runner has in memory,
which need not be all that are stored. The model may name
any tool, and give up or report at any time. `Reply` has the one outcome the
caller does not expect, an answer whose `status` is no object. `sent` and
`blocked` are history variables.

**ToolRegistry.** `changed[s]` and `logged[s]` are the rows a session has updated
and the entries it has inserted, visible when `Commit` merges them. The row lock
makes the read in `Hold` a read of committed data; what a reader without a lock
sees of uncommitted toggles is the subject of `ToolGateway`, which puts the three
statements of `Gateway.execute` that matter beside the sessions of toggles and presets.
The default is not among them: there it has been applied, since `setup` ends before
`startup.sh` starts the processes a gateway runs in. `LookupError` for an
operation missing from the database is a `Rollback`. Tools are numbered in the
order of the catalog, in which all three loops lock them.

**ToolContract, ToolParameters, AgentTools.** A document holds the components
that can be referred to, the parameters of each route, and the operations; a
schema is the set of values each name may have, with the names that are required. A
route may hold braces (`Templated`), a parameter may have a schema that is no object
and a body none for JSON (`NoSchema`): each makes an operation unsupported, as a
header or a parameter without a name does. `_remove_examples` drops every key called
`example` or `default` from the finished schema, and so a parameter or field of that
name, while the list of required names keeps it; the pinned contract has none. The
methods are the tables of their own module (`CONTRACT_METHODS`, `HTTP_METHODS`).
`resolve` follows chains of references and refuses cycles, as the catalog does,
while `RefsResolve` only looks for a target, as the importer does; `MergedParameters`
is the dictionary of `_input_schema`, whose later entries replace earlier ones.
`ToolParameters` follows `_request_parameters` line by line, and has the check of
pins (`PinAccepted`) and the schema shown to a model (`Offered`). `Big` stands for
a value that takes a request over 3,500 characters. The variables of `AgentTools`
are what the parts keep: `release` and `catalog` of the installed image, `enabled`
rows, the stored `agent`, the snapshot in `run`, and the last `request` as history.
An agent has one binding, since bindings are checked and used one by one. `Upgrade`
installs an image with another contract at any moment; only documents for which
`setup` runs to its end get that far (`Installable`). An agent may have been stored
before bindings had versions (`Unversioned`): `get_agent` then takes the current
contract, and what it pins was never checked, so that `checked` is false of its
runs. An operation is known by method and route; that the derived names are
distinct is true of the pinned contract and left out.

**ProposalDecision.** One request per element of `Request`; each statement of
`decide_proposal` is a transaction of its own. Nothing in the code creates
proposals, so they exist, pending, from the start.

**Installer.** `pc` follows `startup.sh` and, inside it, `setup`; each write that
lasts is a step. `ledger`, `schema`, `catalog` and `file` are on the volume,
`user`, `ready` and `beat` last as long as the container, the rest ends with the
process. `ledger[v]` is the text whose checksum is recorded, `schema` the set of
statements executed; `tools` are stable keys, `versions` stable keys with a contract
hash, as the installer looks them up; `k` is how many of the migration at hand are done. A generated
file is `Absent`, `Cut` once it is opened, or holds a secret; secret 0 stands for
the longer password of an earlier release, which is rotated. `Restart` and
`Recreate` interrupt any step; `Recreate` may change `release`. That a new
container has lost the users of IRIS, and that IRIS refuses a second index of one
name, are assumptions about what is outside the repository. A `_split_statements`
migration is its sequence of statements, a checksum its text. The seed is one
step, since `ToolRegistry` shows that it is atomic.

### The database

IRIS is external. From how the repository uses it, the models take: an `UPDATE`
or `INSERT` locks its row exclusively until the transaction ends, and a second
writer waits; a `SELECT` takes no lock and sees uncommitted rows (READ
UNCOMMITTED, the default, which no code changes); a lock wait can time out and
raise; the transaction of a process that dies is rolled back, at once or, for the
sessions in `LateRollback`, later; unique keys hold across transactions. The wall clock does
not go back.

## 3. The runs

| Run | Question | Instance | States |
|---|---|---|---|
| `queue` | do interleaved, failing statements commit what the atomic operations would? (`RefinesLifecycle`, `SlotAgreement`, `ScheduledGap`) | 2 sessions, 1 agent, 2 runs, 2 revisions, clock 0..3, interval 2 | 373,000 |
| `queue_fair` | does every call end (`EveryCallEnds`)? what do late rollbacks leave of the operations? (`RefinesLossyLifecycle`) | 2 sessions, one with late rollbacks, 2 agents, one of them edited | 302,000 |
| `late_rollback` | is a slot safe if a dead worker's transaction lingers? It is not. | 3 sessions, 1 agent | violation |
| `worker` | one runner, holding its slot, never replayed, no stray run; does every queued run end (`PendingRunsEnd`), and every stop that was noticed (`StopEnds`)? | 2 agents, 2 runs, 2 failures, 2 starts of the container | 368,000 |
| `agent_run` | do state, evidence, report and requests agree, which request can be missing (`OnlyTheLastIsLost`), and does the record change only as it may (`RefinesRecord`)? | 3 tools (2 assigned), 3 answers, 3 calls, 2 per answer | 245,000 |
| `request_lost` | is every request recorded? It is not. | no faults | violation |
| `report_cut` | does every report cite its evidence? It does not. | no faults | violation |
| `registry` | are decisions atomic and audited (`RefinesLog`), free of deadlock (`NoDeadlock`), and do they end? (`EveryDecisionEnds`) | 2 sessions, 3 tools, 3 entries per tool | 104,000 |
| `dirty_enable` | does a call only reach operations a DBA enabled (`OnlyAwaitedCalls`)? It does not. | 1 deciding session, 2 tools | violation |
| `tool_calls` | do pins arrive (`PinsAreSent`), requests conform to the contract they were checked against (`SentConforms`), offers hold (`OfferedIsAccepted`), does the catalog offer what the contract declares (`CatalogIsContract`)? | 25 documents, of which the 3 that install; 2 replacements, 4 pins, 6 answers | 18,000 |
| `proposals` | are decisions recorded, lasting, and made once? | 2 proposals, 4 requests | 26,000 |
| `installer` | does the ledger cover the schema, is a start that counts complete, are interrupted ones completed? (`InstallationEnds`) | 2 releases, 3 interruptions | 15,000 |

*Bounds.* `Run`, `MaxRevision`, `MaxClock`, `MaxDecisions`, `MaxBatch` and
`MaxStarts` bound what grows; when one is reached the statement that would exceed it fails like any
other (`EnqueueExhausted`, `LogExhausted`) or the event does not happen.
`MaxRevision` is given for each agent: in `queue_fair` one is edited, the other is not. Every
hazard of the queue is a conflict of two sessions about one agent's row: a third
session could only wait. Two runs are needed for a second run to overlap the
first, two revisions for a lost edit, an interval of two and three clock ticks
for it to run, elapse and be exceeded, and two agents only for lists of length two, which
`queue_fair` has. For `late_rollback` a dead session, a recovering one and a
requester are the smallest number. In `worker` the second failure is already
final, so the counter is at its limit; two agents let runs of different agents
overlap; the container is started again once, and an agent is paused at most once
(`Edits`), which is what makes `claim` cancel a run. In `tool_calls` the documents
combine every way to declare a parameter (by the operation, by its route, by both,
through a chain of references, in a header, without a name, without a target, in a
cycle) with both outcomes of the review and of the sensitive fields; one more has a
route with a brace, a schema that is no object, a body that is not JSON and a
required parameter called `default`; `maxRows` is a
small number with 2 for 200 and for 500, and a task's body has one defaulted field,
a mandatory one and `Settings`. In `agent_run` an answer with two calls can exceed the budget of three
in its middle, and the third tool is one the model names without being assigned.
In `installer` the releases share their first migration and differ in the second,
which has a table of the same name; three interruptions (`MaxBreaks`) are enough
to interrupt a migration, its continuation by another image and a rotation.
In `registry` the presets overlap in two of three tools, and three entries
per tool allow the default, its reversal and another decision. The proofs below do
not depend on bounds.

*Symmetry* is used in safety runs only. `CHECK_DEADLOCK FALSE` stands where the
system stops: a supervisor that has ended, requests that are answered.

*Fairness.* `RunQueue` and `ToolRegistry` assume strong fairness of a session's
statements: a process that is not killed goes on, and a lock that is free again
and again is granted; without the second part a session could starve, which IRIS
prevents by queueing and by a time limit. Nothing is assumed of failures or new
requests. `WorkerSupervision` assumes weak fairness of the two loops, which run
on timers and blocking waits of their own, and of time; nothing is assumed of a
runner, which may hang in a model call for ever. `Installer` assumes that
script and worker go on and that a failed start is tried again; nothing assures
that interruptions end except their bound. `AgentRun` and
`ProposalDecision` state no liveness: their processes may stop at any point.

### What the violations show

1. **A freed slot** (`late_rollback`). `recover` sees a claim that is not
   committed. After its rollback `finish` finds the run QUEUED and leaves it,
   but sets `ActiveRun` to NULL all the same; the agent can then have a second
   pending run. README.md:267 says `ActiveRun` prevents that.
2. **A request without evidence** (`request_lost`). `result.get("status",
   {}).get("errors")` raises `AttributeError` if `status` is not an object,
   which `execute` does not catch: the request was sent, nothing is recorded.
   README.md:5 says every call is stored.
3. **A cut report** (`report_cut`). `finish` cuts a report to 30,000 characters
   after the missing evidence IDs were appended at its end. README.md:239 says
   recorded evidence IDs are guaranteed to be included.
4. **An operation nobody enabled** (`dirty_enable`). `_enabled_in_registry` is a
   SELECT without a lock, and sees a toggle or preset before it is committed. The
   run begins after the installation with a tool that is blocked: a toggle writes
   that it is enabled, both lookups of `Gateway.execute` see it, the toggle is rolled
   back, and the call goes on to its dispatch though nobody has enabled the tool and
   no decision about it is under way. README.md:5 says "Agents can call only
   operations that a DBA has enabled and explicitly assigned to them."

What does hold is checked and proved next to each of them. For 1 it is
`RefinesLossyLifecycle`: whatever the server does, the loss of a slot by a queued run
is the only thing that happens to the tables beside the operations, so that
types, intervals and the owner of a slot are never wrong, and every edit
replaces the revision it was made for. For 2, only the last
request of a run can be without evidence, and none of a run that ended with a report
(`OnlyTheLastIsLost`). For 3, reports that were not cut
cite all their evidence (`UncutReportsCite`): the IDs in the runner's memory are those
of all stored rows whenever it reports, over any refused and failed calls. For 4 it
is `NoBlockedDispatch`, with decisions taken as atomic: no tool is dispatched
that was blocked before the last step of its call. And it takes a rollback: while every
decision that is begun is carried out (`CarriedSpec`), what is dispatched has been
enabled during its call or is just being enabled (`OnlyAwaitedCalls`, proved).

Three things hold less than one might wish, without a document that claims more. An
edit is compared by number: a form loaded from an edit that was rolled back passes if
another edit is given that number. A
proposal can have both decisions recorded, since `AI_APPROVAL` is unique per
decision and the handlers use three transactions; `DecisionsAreRecorded`,
`OneSuccess` and `DecisionsStand` are what remains. And the ledger can record the
checksum of a migration one of whose tables kept the shape an earlier text gave
it, since `_apply_statement` looks for names; `LedgerCovers` is about names too.

`InstallationEnds` names what no later start recovers from (`Stranded`): an index
created without its ledger entry, because `_apply_statement` looks for existing
tables only; a credential file that was opened and not written, because
`exists()` is true of it and its content is not JSON; a recorded migration whose
file was edited, by design. An empty `csrf.key` is accepted by every later start.
`ReadyIsEarned` begins once `startup.sh:3` has removed the files of an earlier start:
until then a container that was started again can be taken for ready.

## 4. The proofs

All constants are arbitrary, within the assumptions each module names
(`NoneAssumption`, `OutcomeAssumption`, `IntervalAssumption`, `BoundAssumption`,
`SessionAssumption`, `MaxFailuresAssumption`, `MaxStartsAssumption`,
`AssignedAssumption`, `BudgetAssumption`, `CatalogAssumption`, `TextAssumption`,
`FileAssumption`, `BreaksAssumption`, `RowsAssumption`, `UpgradesAssumption`,
`ListsAssumption`, `TaskAssumption`, `PagedAssumption`). The row types are infinite, so the theorems
cover every clock, revision and interval. Each safety invariant of the runs is a
theorem of its own, drawn from one inductive invariant per module. Some theorems
state what no run checks by itself: consequences of a refinement (`AuditAgrees`, of
`RefinesLog`) and the part of a liveness property that is safety (`HoldersGoOn`).

- **RunLifecycleProofs** (`LifecycleSafety`, `LossySafety`): slot and interval of the
  atomic operations. `ScheduledGap` is not inductive: it needs that the due moment of
  an agent lies an interval after its last run. `SlotAgreement` is two statements: a
  slot names a pending run of its own agent (`SlotHolder`), and a pending run has its
  slot (`SlotKept`). The first, with types and intervals, is `LossyInv` and survives
  lost slots; both together are `TablesInv`.
- **RunQueueProofs** (`QueueRefinesLossy`, `QueueRefinesLifecycle`, `QueueTypes`,
  `QueueGaps`, `QueueHoldersGoOn`, `QueueSlots`, `QueueOnePending`): the statements
  implement the operations, hence their invariants. `QueueInv` says of each session
  that it owns the lock its place implies (`Owns`), that its agent is its run's
  (`Aims`), and what its uncommitted writes amount to (`Work`); a step of one session
  leaves the others' part alone, since they hold different rows. The invariant holds
  for every set `LateRollback` of sessions: a dead session may still hold its lock, and then what
  it has written is a run on its way to its next state (`Written`), which is all that
  a reader of uncommitted rows can have seen. A finisher that saw such a run finds it
  QUEUED after the rollback (`Unclaimed`) and its commit is `SlotLost`; without
  late rollbacks nobody is asked to finish a QUEUED run (`MayFinish`), and its commit is
  an operation. Hence `QueueRefinesLifecycle`, `QueueSlots` and `QueueOnePending`
  assume `LateRollback = {}`, which finding 1 shows to be necessary; the others assume
  nothing.
- **WorkerSupervisionProofs** (`WorkerTypes`, `AtMostOneRunner`,
  `RunnersHoldSlots`, `NoRunIsStray`, `WorkerNeverReplays`,
  `ProcessesRefineLifecycle`): `WorkerInv` ties the
  place of the worker to the runs that can be RUNNING and the runners that can be
  alive; after a crash it is the fence that restores it, and recovery relies on that.
- **AgentRunProofs** (`AgentRunTypes`, `OutcomeIsEvidenced`,
  `NothingToldUnrecorded`, `LostIsLast`, `CitationsSurvive`,
  `BudgetHolds`, `RunDispatch`, `RunRefinesRecord`): `RunInv` relates counters and
  pending outcome to the evidence at every statement (`Counted`, `Told`,
  `Complete`, `Budget`), and says that a call past its second check was enabled
  when the gateway looked last (`Cleared`). `Told` also says that the IDs in memory
  are those of all rows, except between the INSERT of one and the next statement,
  which is why a report cites them all. The budget that `BudgetHolds` bounds is that
  of calls, as requests and as rows. `RequestInv` adds that the call at hand
  has not sent its request or has sent the last one, of which no row tells. The refinement follows: the counters
  warrant the verdict, and no row is added once the run has ended.
- **ToolRegistryProofs** (`RegistryTypes`, `RegistryIsAudited`, `RegistryDeadlockFree`,
  `RegistryRefinesLog`, `CallsAreAwaited`): each session holds the locks of all tools its loop has
  passed (`SessionInv`), so that at its commit the rows still are as it read them,
  and only one session ever applies the default (`OneSeed`). Of any sessions that wait,
  the one that waits for the highest tool waits for a session outside them, or for one
  that does not wait. `CallsAreAwaited` supposes that `NoTool` is none of the tools.
- **AgentToolsProofs** (`ToolTypes`, `PinsReachTheTarget`, `RequestsConform`,
  `OffersAreHonest`, `CatalogFollowsContract`): the pins of a run were checked
  against the contract it names (`Checked`), a running run names the installed one
  (`Current`), and the last request is what the gateway built (`Built`). What
  `_request_parameters` does to functions is settled in lemmas. That the dictionary of
  parameters holds the last declaration of each (`LastPrevails`) is an induction over
  the declarations, carried out by looking at the least length at which it would fail
  (`LeastNumber`). `CatalogFollowsContract` says what is in the schema and what is not: names
  taken for examples are missing (`ExamplesGo`), and a supported operation has no input
  beside them. `ListsAssumption` says that the declarations of a document are
  sequences. Two further assumptions are
  facts of the pinned contract the code relies on: a new task requires every field
  that has a default (`TaskAssumption`), without which a default could be added to a
  pinned body; and `maxRows` admits 200 (`PagedAssumption`), without which the
  number added after the check could violate the schema.
- **ProposalDecisionProofs** (`DecisionTypes`, `DecisionsHaveRecords`,
  `OneSucceeds`, `DecisionStands`): each request that is past its INSERT, or
  succeeded, is the only one with its record.
- **InstallerProofs** (`InstallerTypes`, `LedgerHolds`, `WorkerStartsInstalled`,
  `ReadinessIsEarned`), assuming of releases only that migrations are sequences of
  statements: `LedgerInv` counts the statements of the version at hand that exist;
  `CredentialInv` says when file and user may differ (only while a password is
  rotated) and `StageInv` what each stage has achieved; `ReadyInv` that heartbeats
  seen after /tmp was cleared are this start's.

Each invariant was checked with TLC before it was proved. Model-checked only: the
liveness properties (`EveryCallEnds`, `PendingRunsEnd`, `StopEnds`,
`EveryDecisionEnds`, `InstallationEnds`), since temporal reasoning under fairness
is out of the prover's reach, and the four violations, which are behaviours. Of
`EveryDecisionEnds` and `EveryCallEnds` the proofs cover the part that is safety:
`NoDeadlock` and `HoldersGoOn`.

## 5. What is not modelled

- The supervisor's own failures and its backoff; the age of a heartbeat.
- In `WorkerSupervision`, the rows of a killed process between its death and its
  rollback; they are in `RunQueue`.
- A SIGTERM between the supervisor's loop test and the assignment of its child is
  in `WorkerSupervision`, but no property demands that it be heeded: it only lowers
  a flag, and the worker just started runs on. `Stopping` says which stops were
  noticed; `StopEnds` is about those.
- Rows that raise on every pass (a legacy binding whose operation has left the
  catalog): for the loop of the worker they are exceptions, after which the
  supervisor in the end gives up, as `PendingRunsEnd` admits.
- Pins the agent form accepts and the gateway always refuses (a `maxRows` out of
  range, too many characters): `OfferedIsAccepted` leaves size and rows out. Their
  calls are refused before anything is sent (`SentConforms`).
- Data: prompts, descriptions, redaction, sampling of results, error codes, the
  derived tool names, the text fields and the interval of an agent's form.
- Dirty reads in `AgentRun`, which sees decisions commit atomically; they are in
  `ToolGateway`.
- Creation, hashing and execution of proposals, which no route or process calls.
- Identity and CSRF: each request is checked by itself, from the session's roles
  and a fixed key, so there is no history to explore. Routing and serialisation:
  what the handlers demand before a repository call is part of the modules above.
- The interface, which stores nothing. Two of its answers may arrive in another
  order than they were asked for (`showRun` does not compare them with `detailId`),
  so that another report than the chosen one is shown until the next click.
- The acceptance and cleanup scripts and the demonstration task, which are not part
  of the running system; grants, roles and the compilation of a class in `setup`,
  which are idempotent.

## 6. What could come next

1. `OnlyTheLastIsLost` through `WorkerSupervision`: that `AgentRun` implements
   the runner assumed there.
2. The supervisor that fails itself, and the age of the heartbeat in readiness.
