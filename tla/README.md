# Helios CI/CD: a verification development

TLA+ models of Helios (`api/`, `worker/`), the TLC configurations that check them
on small instances, and theorems about them that TLAPS has checked. Paths below
are relative to `src/`.

## 1. The system

Helios runs pipelines. An API process takes requests and webhooks, worker
processes take tasks from asynq queues in Redis, and both share one PostgreSQL
database. There is no central scheduler process: every task that ends a stage
reads the tables, decides what comes next, writes the tables and enqueues the next
tasks, at the same time as other tasks of the same run.

| Component | Code | State | Operations | Modelled |
|---|---|---|---|---|
| Stage engine | `api/pkg/engine/scheduler.go` | map of statuses, dispatched nodes, one mutex | NextReady, Complete, CancelAll, RestoreFromDB | `StageGraph`, `Scheduler` |
| Run state machine | `api/pkg/runstate`, `api/pkg/runrepo` | `runs.status`, times, `audit_logs` | Transition and the Mark* forms, runrepo | `RunStatus`, `RunState` |
| Approvals | `api/internal/service/approval.go`, `api/pkg/approval` | `approval_requests`, `approvals`, delayed tasks | CreateApproval, vote, HandleTimeout, ResumeOrchestrate | `Approval` (partly) |
| Run orchestration | `api/pkg/runengine`, `worker/internal/handler/{orchestrate,stage_execute}.go` | `stages` rows, tasks | Advance, OnStageComplete, dispatch, exhaust hooks | `RunEngine` |
| Run creation, checkout, build | `api/internal/handler/{run,pipeline}.go`, `.../webhook/github.go`, `worker/internal/handler/{checkout,build}.go` | pipelines, versions, `runs`, workspaces, tasks | save, restore, push, trigger, retry, cancel, the tasks, Bootstrap | `Launch` |
| Pipeline language | `api/pkg/dsl`, `api/pkg/engine/{dag,matrix}.go` | none | validate, expand, layer | `PipelineSpec` |
| Expressions | `api/pkg/expr` | none | parse, evaluate, render | `Expression` (partly) |
| Stage execution | `api/pkg/runengine/{execute,store,outputs_file}.go`, `api/pkg/{artifact,plugin}`, `api/pkg/builtin` | step rows, outputs file, artifacts | ExecuteStage, Set, Snapshot, Put, Open, Resolve | `StageWork`, `PluginAction` (partly) |
| Build logs | `api/pkg/logstream`, `api/pkg/logarchive`, `api/internal/handler/logs`, `worker/.../build.go` | Redis stream, archive object, container | Append, ArchiveAndDrop, history, follow | `RunLogs` |
| SSH deployments | `api/pkg/sshrunner`, `api/pkg/builtin/ssh_deploy.go` | results, failure counter, hosts | serial, parallel, rolling, rollback | `Deploy` |
| Projects | `api/internal/handler/project.go`, `worker/internal/handler/registerwebhook.go` | project row, remote hook | create, patch, delete, register | `Projects` |
| Inventory | `api/internal/handler/{secret,hosts,host_groups}.go` | rows | create, update, delete, members, dispatch of a key | `Inventory` (partly) |
| Catalog | `api/pkg/plugin/seed.go`, `api/pkg/builtintmpl`, plugin and template handlers | rows | seed, install, templates of users | `Catalog` |
| Cluster health | `worker/internal/clusterhealth` | cluster rows | checkAll, degrade | no |
| API, users, access, clients | `api/internal`, `web`, `cli` | request data | requests | no |

**How they interact.** Saving a pipeline validates its text (language). Creating a
run enqueues a checkout task, which takes the run from pending to running and
enqueues a first tick (`run:orchestrate`), or, for a pipeline without stages, one
build. A tick (`Advance`) rebuilds a scheduler from the rows, dispatches what
`NextReady` returns (a `stage:execute` task, or an approval request), and finishes
the run when every stage is done. A stage task executes the stage (templates,
plugins, artifacts, hosts), stores its result and runs `Advance` itself. A vote or
a timeout decides a request in one transaction, then moves the run in a second one
and enqueues a new tick. A cancel changes only the run; every task finds out when
it looks. The build that ends a run moves its log to the archive.

**What is hard here, and what must be true.**

* *Engine.* Skips depend on the order in which one pass visits the stages; rebuilds
  happen between any two calls. No stage starts before what it needs is settled,
  none is handed out twice, terminal statuses stay, the caller's loop ends.
* *Run state machine.* A cancel, a finishing stage and a failing hook meet on one
  row. One end per run; times and audit trail agree with the status.
* *Approvals.* Votes, the timeout, a cancel and a second gate meet; request and run
  change in separate transactions. A gate opens on enough votes only, a decision
  of the users stays, a decided gate lets the run go on.
* *Orchestration.* Ticks act on stale copies and write without conditions; asynq
  redelivers; an attempt can stop between any two writes. Nothing passes a gate, no
  run is a success by mistake, no stage runs twice, every run ends or waits for a user.
* *Launch.* Numbers are max + 1 without a lock, tasks are enqueued inside or after
  transactions and delivered again. A save is answered before its
  COMMIT, and a hook runs with the context of the attempt that failed. Numbers are dense, a
  save that commits is the newest, an enqueued checkout leads to an end or to the orchestration.
* *Stage execution.* Parallel tasks share files without a common lock and repeat
  themselves. Outputs and artifacts are whole, step rows agree with their stage.
* *Logs.* Lines arrive while the log is moved and read. None is lost, readers see
  no hole.
* *Deployments.* The failure counter is read and raised outside one critical
  section; a deployment is repeated after a death or after 30 minutes, in the second case beside
  the first one. Overshoot is bounded, a rollback restores where no other deployment has been.
* *Projects, inventory, catalog.* Check and write are separate statements, whole
  rows are saved, processes die between statements, errors of queries are ignored.
* *Language.* One cycle search with state that survives a find; matrices rewire
  needs; six levels of operators. Verdict, order and grouping are as defined.

The list of hazards, each at its line, is in `PROJECT.json`.

## 2. The modules

| Module | Kind | Stands for |
|---|---|---|
| `StageGraph` | operators | the graph of a pipeline, and the scheduler's decisions on a map of statuses |
| `Scheduler` | state machine | the Scheduler object and the caller's loop of its documentation |
| `StageLifecycle` | abstract | what the engine promises about a stage: idle, active, final |
| `RunStatus` | operators | the values of `runs.status` and the permitted changes |
| `RunState` | state machine | `Transition` statement by statement, and runrepo, on one row |
| `RunLifecycle` | abstract | atomic changes of the status |
| `Approval` | state machine | votes, timeouts and the opening of gates, with row locks |
| `RunEngine` | composition | ticks, stage tasks, retries and gates on the shared tables; uses `StageGraph` and `RunStatus` |
| `Launch` | state machine | from a request to the first tick: pipelines, runs, checkout, build, Bootstrap |
| `StageWork`, `PluginAction` | state machine, operators | the execution of the stages of one run; what a plugin reference resolves to |
| `RunLogs` | state machine | writers, archiver and readers of the log of one run |
| `Deploy` | state machine | the batches and the rollback of one deployment step |
| `Projects`, `Inventory`, `Catalog` | state machines | the rows around a run, and GitHub's hooks |
| `PipelineSpec`, `Expression` | algorithms | the language, checked against reference definitions |
| `MC*` | instances | the instances that TLC checks; `MCLanguage` and `MCResources` put components that share no state into one run |
| `SchedulerProofs`, `RunStateProofs`, `ApprovalProofs`, `RunEngineProofs`, `LaunchProofs`, `DeployProofs` | proofs | the theorems of section 5 about the module of the name; `RunEngineProofs` builds on the lemmas about a pass in `SchedulerProofs` |
| `WorkerProofs`, `ResourcesProofs` | proofs | theorems about `StageWork` and `RunLogs`, and about `Inventory`, `Catalog` and `Projects` |

**StageGraph.** `ComputeReadyOrSkip` has the cases of the function of that name:
`MustSkip` collects its early returns. `NextReady` walks `DAG.Order` and decides on
the map as it changes it; `IsPass(old, dispatched, new)` says that every stage was
visited on the new values of the stages before it and the old ones of those after
it, so that the definition needs no recursion and can be proved about. `Restored`
and `RestoredDispatched` are `RestoreFromDB`.

**Scheduler.** One action per method; the mutex makes each atomic. `caller` is the
loop of `scheduler.go:58-74`. `Rebuild` is the end of the process and
`RestoreFromDB` from the rows the caller stores (`Stored`).

**RunState.** `pc` follows the statements of `Transition`: SELECT FOR UPDATE, UPDATE
... WHERE status, INSERT audit, COMMIT. Other transactions see the row at COMMIT.
`Rollback` can come at every statement. `acked` holds what callers were told;
`Commit` may succeed without the caller learning of it. A time is represented by
the call that set it.

**Approval.** A vote is read (`VoteRead` locks the run), written (`VoteWrite`, where
the foreign key makes the INSERT wait for a timeouter that holds the request),
committed, and followed by the change of the run and the tick, each a step of its
own. The timeouter does the same in its own order. `Transition` is one step, as
`RunState` shows. `TaskCrash` and `VoteCrash` end a call at any of these points.

**RunEngine.** A task is a record: what it executes, where it is (`pc`), how often
it was retried, its own copy of the rows, and the set of stages that are left to dispatch. The steps
of `Advance` are the points at which it reads or writes shared tables. `Write` is
`UpdateStageStatus`: no condition on the old value, and its error is ignored by
every caller. `Failed` and `Retried` are asynq's retries with the exhaust hooks of
`worker/cmd/worker/main.go`, which fire at `retry+1 >= maxRetry`. `Vote`, `TimeOut`
and `MoveRun` are the steps of `Approval` with a transaction as one step; `OnTimeout` of a gate is
"none" when its `timeout` is empty: `MarkApproval` then enqueues no timeout task.

**Launch.** An API call is a record with a `pc` that stops where another call can
come between its statements: the read of the maximum, the insert, the setting of
the current version, the enqueue, the commit. A row is named after the call that
inserts it; UNIQUE keys are guards of the commit. A save
writes its 200 with its INSERT and UPDATE (`InsertVersion`), and becomes visible, or is lost, at `SaveCommit`. Tasks are records as in
`RunEngine`; `Redelivered` is asynq's recovery of a task whose worker still
works, and `Overrun` an attempt that outlives the deadline of its task in the clone or the build: the
context is over, so neither the handler nor the exhaust hook can write the failure, and after the last attempt the run is `overran`. `EngineEnd` stands for the end that `RunEngine` describes.

**StageWork.** An execution has its place `k` in its rendered steps and its own map
of outputs. `SetLoad`, `SetTruncate` and `SetWrite` are the statements of
`OutputsFile.Set`, whose mutex belongs to one task only; `Create`, `Copy` and
`Rename` those of a Put into the local store, on paths and inodes. `clash` and `mixed`
record where the code gives no guarantee, and the properties are about everything
else.

**RunLogs.** An entry is its id. `Prepare` ... `ExitDocker` are the life of the
command on the host or in its container, `Archive*` the four kinds of calls of
`ArchiveAndDrop`, `PageOn`, `PanelLoads` and `Follow` the readers. An id in
the archive is the same as in the stream.

**Deploy.** `Start` holds the check of the counter and `Count` its increment, with
the task of the host in between. `DeliveredAgain` repeats the step, which finds
versions and backups as they are: the worker of the first deployment has died, or the timeout of the task has
passed and the first deployment goes on. `Overtaken` is what such a deployment may still do at a host, a
backup, an upload or a rollback, whole or torn; `disturbed` are the hosts it has been at since the step began.

**Projects, Inventory, Catalog.** One action per statement. `Inventory`'s `call` keeps
the row as it was read, which gorm's `Save` writes back whole. `Fails` is a statement that fails and
ends the request; the query of the references of a secret does not end it, its error is dropped (`unread`). `Catalog`'s `replica`
is a start of the api that can die between any two statements of the seed, and start
again with another build. A statement that fails ends the seed and the api serves (`GivesUp`), except that
the errors of `CountVersion`, `ClearLatest` and `SetColumn` are ignored; `spoilt` are the plugins for which that mattered.
In `Projects` the registration is called, merged or
written as an error, each of which can be repeated or lost; hooks at GitHub are
never removed.

**PipelineSpec.** `Validate` computes the errors of `ValidateRaw` with the search of
`validateDAG` as it is (colours and stack survive a find); `ExpandPipeline` is
`ExpandMatrix`, and `BuildGraph` is BuildDAG and TopologicalSort. The reference
definitions are a transitive closure and the needs of the document.

**Expression.** `Ternary`, `Level`, `Chain`, `Unary`, `Postfix` and `Primary` are the
functions of `parser.go`; the reference (`Meant`) splits a source at its weakest
operator instead. Evaluation follows `eval.go` with its truth values, coercions and
panics; `RenderWhole` and `RenderMixed` are the two branches of `RenderString`.

## 3. What TLC checks

| Run | Instance | States | Shows |
|---|---|---|---|
| `scheduler` | six stages, a gate, always() and failure() | 447 | starts and skips as documented, `StageLifecycle`, the loop ends |
| `run_state` | three callers, symmetric, 5 audited changes | 1,283 | ends, times, audit path, `RunLifecycle` |
| `approval` | two gates, two approvers, every on_timeout, one crash | 203 thousand | votes and timeouts, safety and liveness |
| `run_engine` | build, a gate with a timeout, a release gate without, deploy; 4 tasks, no faults | 27 thousand | gates, success, one task per stage, no repetition, the run ends or waits |
| `run_engine_faults` | a test beside a gate, pause; 2 tasks, 2 faults | 860 thousand | the gate holds whatever a tick finds |
| `run_engine_twice` (violation) | two stages, then one | stops at the violation | two ticks hand out one stage |
| `launch` | two calls and their tasks, one fault | 415 thousand | numbers, saves, checkouts, ends |
| `language` | documents of three stages, sources of three tokens | 79 thousand | cycles, order, grouping |
| `stage_work` | two stages and one behind them, two deliveries, one fault | 2.6 million | outputs, rows, artifacts |
| `run_logs` | two symmetric builds, a stream of two entries, one fault | 2.5 million | archive and readers |
| `deploy` | three hosts, all strategies and thresholds, one more delivery, one step of the overtaken deployment | 7.0 million | overshoot, rollback |
| `resources` | two requests, three starts, two registrations, two faults | 801 thousand | groups, secrets, seeds, hooks |

What each run claims is in the comments of its properties and in `PROJECT.json`. Each
property has a mutant there, a change to one mapped definition under which the
same run finds the property violated. The type invariants (`TypeOK`, `SchedulerTypeOK`,
`LogTypeOK`, `InventoryTypeOK`, `CatalogTypeOK`) and `NeverRaced`, `DispatchedExact`,
`NeverHandedTwice` and `TerminalAbsorbing` are proved where section 5 names them,
and can be added to a cfg; the runs keep to what several actors can break.

**Bounds, and why they are enough.** `MaxAudit` is 5: pending, running, approval,
running, and an end, with every pair of callers in conflict. `MaxCrashes` and
`MaxFaults` count calls that stop or writes that are lost: one puts a stop between
any two steps; in `run_engine_faults` two, with a last attempt that cannot finish the run, use up
the retries of a tick (3 in the code; stage tasks have 2), and in `resources` two
use up `MaxRetry` of a registration. `MaxTasks` bounds the queue: an enqueue
waits for a free slot. Four slots allow the tick that has opened a gate to be
overtaken by three later ones; two suffice where two tasks disagree. `MaxRetry` is
2 in `launch` (3 in the code): a first attempt, one whose hook fires and a last one.
There `PairedOps` puts a push or a save beside any call but a push: two pushes race as a push and a retry do.
In `resources` one slug, builtin from the second build on, meets the templates of one user.
Two calls at a time suffice for every read-then-write race, as each
statement names at most one other row; `MaxCalls` of 6 lets a host of each org, a
group and an addition overlap an edit or a deletion. `MaxLen` and `Count` of 2 and `Page` of 1
make the stream trim, the archiver page and a reader ask again within
four entries. Three hosts give a batch of two and one after it; a second delivery (`MaxRepeats`)
is explored for the serial strategy (`RepeatsIn`) and a threshold of 1 (`RepeatsAt`), since what the first
leaves on a host does not depend on either, and the overtaken deployment takes one step (`MaxMeddling`) at
the first host (`MeddlesAt`): the hosts share no state. Three start-ups with three builds allow a seed that dies, its
successor and an upgrade. Documents of three stages have every graph of needs; matrices of at most two
dimensions and two values have every interaction of include, exclude and an empty
product; sources of three tokens over 17 words, and chains of four operands, have every
pair and triple of levels. In `RunEngine` a state in which two
verdicts of one gate are both still to be applied to the run is left out (`after`
holds one), and `timer` is coarser than the request ids of the code, so in its
instances the second gate comes behind the first and has no timeout; `Approval` covers two gates at a time.

**Deadlock** is checked where the system cannot stop (`run_state`). A run that has
ended, a document that is refused or an exhausted bound leaves nothing to do, so the
other runs switch it off; that the system does not stop earlier is what
`EventuallyDone`, `ApprovedResumes`, `TimeoutDecides`, `RunEnds`,
`CheckedOutRunEnds` and `RegistrationEnds` say.

**Fairness.** `Scheduler`: the caller's loop goes on and every stage that is out
ends (the executor has timeouts). `Approval`: a call that has begun goes on, a due
timeout task runs. `RunEngine`: weak fairness per task (asynq workers take queued
tasks), per timeout (asynq delivers delayed tasks) and per process that has decided
a request. Only gates with a timeout have one, so `RunEnds` says that the run ends or waits for a user, at a gate
without a timeout or at one that its timeout paused. `Launch`: per task; `CheckedOutRunEnds` leads to an end, or to the
orchestration that `RunEnds` is about, and leaves out the runs whose last attempt overran its deadline, which stay running (finding
`FailedCheckoutEnds`). In `RunEngine` and `Approval` an attempt that outlives its deadline counts as a fault. `Projects`: the worker takes the queued task and goes on. Nobody is
assumed to vote, cancel or call. Liveness of votes and runs is claimed for
behaviours without faults; after a crash the code makes no such promise (see the hazards).

**Findings.** `PROJECT.json` lists where the code does not do what a comment, a
migration or a document says. `run_engine_twice` is kept as a run. The others
name a formula that stands in its module under the properties: put it in the cfg of the
component's run to see the counterexample. `EventuallyDone` of `Scheduler` fails when `Order` lists a
stage before one it needs; `LatestIsLast` of `Catalog` fails with two
`Replicas` or with `RollsBack = TRUE`; `TriggeredRunStarts` and `BootstrapWhole`
belong to `launch`, `BuildKeepsWorkspace`, `FailedCheckoutEnds` (a PROPERTY) and `AnsweredSaveStored` too; `TimeoutFinal` and `PendingVotable` to `approval`;
`IdReachesNeeds` to `stage_work`; `NothingLeftBehind` and `RolledBackBeside` to `deploy`; `FailureWritten`, `ConfigKept`,
`ReferencedSecretKept` (a PROPERTY), `LatestAfterErrors` and `ServesSeeded` to `resources`; `InstancesApart`, `ReportedCycles`, `BlocksReplaced` and `NeverPanics` to `language`.
A finding without a formula is visible in the definitions.

**Further divergences**, met while modelling and visible in the definitions:

* a failure() stage with one failed and one skipped need runs (`MustSkip`), though
  `scheduler.go:122` says that a skipped need always skips;
* the updates of runrepo write no audit row and may go from pending to failed
  (`RepoMarkFailed`), though `runstate.go:22-26` calls `Transition` the only way to
  change a status and promises an audit row per change;
* two ticks that open the same gate: the second INSERT meets the unique index
  (`InsertRequest`, `007_approvals.up.sql:26`) and its tick fails the row of a gate
  that is still waiting (`Refuse`); a chain cannot get there, a join of two stages
  before a gate can;
* a failed stage is executed again by asynq after its failure was stored
  (`Failed`), and may turn into a success when an always() stage keeps the run alive.

## 4. Abstractions

Names, reasons, durations, the payload of audit rows and the text of messages are
left out. Clocks agree: the branch of the timeouter for a task that fires more than
a second early is not taken. A database error is a `Rollback`, a `Crash`, a lost `Write`,
a `Fault`, `Fails` or `GivesUp`. A deadline of a task is an `Overrun` where the work is long (clone and build), `Overtaken` where
the work goes on without it (SSH), and a `Crash` elsewhere. Transactions are READ COMMITTED: their writes become visible at the
commit, row locks block. Names in `PipelineSpec` and strings in `Expression` are sequences of
numbers in the order of the characters, because their order and their concatenation
decide something; everywhere else a name is a value. Numbers in `Expression` are
fractions. History variables (`handed`, `acked`, `ticked`, `passed`, `saved`,
`clash`, `mixed`, `got`, `unmarked`, `writer`, `trimmed`, `gone`, `late`, `before`, `tried`, `disturbed`, `held`, `overran`, `spoilt`)
are read by properties only.

## 5. What is proved

Every theorem holds for all values of the constants (those of `Catalog` with the hypotheses
given below), under `StageGraphAssumption`
(every stage once in `Order`, needs within `Stages`), `RunStateAssumption` (NULL is
no caller), `ApprovalAssumption` (finitely many users, at least one gate, every
gate has an approver), `RunEngineAssumption` (a tick is no stage, every gate has one of the three
on_timeout settings or no timeout), `LaunchAssumption` (finitely many calls, different from the
seeded row and from NULL), `DeployAssumption` (at least one host, a width of at
least one), `StageWorkAssumption` (needs within `Stages`, the steps of a program a sequence of steps),
`RunLogsAssumption` (a cap, pages and counts of at least one) and
`CatalogAssumption` (the seed has a list of plugins, each build a version of each). The
proofs about `Inventory` and `Projects` use no assumption. What a cfg bounds (`MaxTasks`, `MaxRetry`, `MaxFaults`,
`MaxRepeats`, `MaxMeddling`, `MaxDeliveries`, `MaxIds`, the sets of calls, hosts, users, stages and builds) is arbitrary in a theorem. All proofs are checked by tlapm with Z3, Zenon and LS4.

**SchedulerProofs.** The first part holds what a pass of `NextReady` does to a map: it changes pending
stages only (`PassKeeps`); what a stage reads as terminal during the pass is
terminal afterwards, with the same value (`SeenIsFinal`); so the decision taken on
the mixed map is a fact about the new one (`PassDecides`). In a pipeline without
failure() a stage is skipped only behind one that has not passed
(`FirstVisited`, `SkipsAfterFailure`), and a stage without always() or failure() is picked
only behind stages that have (`PickedAfterSuccess`). `RunEngineProofs` uses these lemmas too.

The second part is about the Scheduler: `Safety` (SchedulerTypeOK, NeedsSettled, StartAllowed, SkipJustified,
DispatchedExact), `TerminalStays`, `HandedOnce`, `Refinement` (StageLifecycle). The
inductive invariant (`SchedulerInv`) adds to these that no stage is ever "ready" (`NeverReady`: the
status exists but a pass never leaves it) and that a stage that was handed out is
not pending (`HandedLeft`). The argument: a pass decides on a mix of old and new
values, but statuses before a stage in the order are final for this pass, and of those
after it the terminal ones never change. So the decision is a fact about the
new map (`PassDecides`), and stays one as long as terminal statuses stay. A rebuild is the
identity on reachable states (`RebuildIsIdentity`), which is where NeverReady and
DispatchedExact are needed.

**RunStateProofs.** `Safety` (TypeOK, NeverRaced, AckedEndIsTheEnd, TimesMatch),
`Audited` (AuditPath), `StartsOnce`, `Refinement` (RunLifecycle). The inductive
invariant says who holds the lock (`LockHeld`: the one call that is past its
SELECT), that the row of such a call is the committed row or what `Written` makes
of it (`RowFollows`), and that no audited change leads back to pending
(`AuditLeavesPending`). Every committed change is then one allowed by the matrix or
by a WHERE clause (`RowSteps`), which gives the action property and the refinement.

**ApprovalProofs.** `Safety` (TypeOK, ApprovedJustified, LastVoteCounts) and
`DecisionFinal` (VoteDecisionFinal), for any number of gates and users. The
invariant: the one user between SELECT and commit holds the run (`LockHeld`), so
nobody else's vote is committed in between; what that user has read still holds,
except that the timeout may have approved or ended the request (`VoterKnows`), and
the verdict it has counted is that of the committed votes; a timeouter that holds
a request has found it pending with no vote on it written (`TimerHolds`); a gate opens once
(`Opened`); committed votes are those of approvers and a reject has decided
(`VotesCount`). Two facts about cardinalities make the count of a mode=all gate
exact: a count as large as the set of approvers is one of all of them
(`CountIsAll`), and the last of all approvers sees such a count (`LastIsCounted`).

**RunEngineProofs.** `GateKept` (TypeOK, GateHolds) and `SuccessEarned`
(SuccessJustified, for pipelines in which no stage waits with failure()), for any
number of tasks and faults; of pipelines with failure() stages nothing is claimed. A stale copy may say too little, never too much: the
invariant (`IInv`) says of every task that what its copy calls a success has passed,
that the stages without a condition that it still has to dispatch, or executes, have only
needs that have passed (`Good`, `Behind`), and that its copy was complete if it is about to finish the run; of the
tables, that a row is a success and a request approved only after the stage has
passed (`RowsOK`, `ApprovalsOK`). These facts grow with `passed` and never shrink
(`GoodStays`), so a step of one task cannot disturb the copy of another, however old, and
the proof needs one step per action for the task that moves.

The second half is about sequential pipelines: no stage has a condition, and a stage that is listed
after others needs the last of them, or one behind it, so that the stages run one at a time.
`StagesHandedOutOnce` (OneTaskPerStage), `PassedStagesRest` (PassedNotRepeated) and `GatesFailByDecision`
(GateFailsByDecision) hold for any such pipeline with any gates, any number of tasks, votes, timeouts and cancels,
without faults (`MaxFaults = 0`), for a run that is running when its first tick is enqueued. The theorems need
each hypothesis: two parallel stages hand a third one out twice (`run_engine_twice`); behind a
stage that fails and is retried an always() stage keeps the run going, and two tasks then hand out the next stage; one crash before the
acknowledgement executes a stage again that has passed, one between the INSERT and the mark of a gate has the
retried attempt refuse it, and one after the mark leaves two tasks to hand out what is behind it; a run that
is still pending never leaves that status, so a gate that comes first is opened twice and refused. TLC finds
each of these on the instance of `run_engine`, or on one with other conditions or the gate first.

The invariant (`Chain`, with `IInv`) says that one task at a time is `Live`. It is not enough to say that one
task exists: a task that has opened a gate may be overtaken by the vote on it, by the stages behind
the gate and by another request for the same gate, and only then mark the row (`Wait`),
which sends the row of a decided gate back to "approval". So `Waiting` names the rows that are still to be marked, a task that has read the table may be wrong about
just those (`Reads`), and what the live task hands out comes after everything that has begun and before everything that
has not (`HandsOut`, `Ends`, `RowsBegun`). `Mode` ties the queue to the run: while it waits for an approval nothing is
live and one gate is busy, while it is running none is but the one that is being
opened, which is why an INSERT never meets an open request. The order of the stages turns a pass into one pick (`PickIsNext`, `OnePick`), and into none behind a stage that has failed
(`NoPickAfterFailure`). Once the run has ended (`InRun`) the claim about what comes after is dropped: a last gate that is refused after
a cancel leaves its tick behind rows that had begun. TLC checked the invariant on two chains of four stages with two gates before it was proved.

**LaunchProofs.** `Numbering` (NumbersDense), `SavedIsNewest` (SaveIsNewest) and
`CheckedOut` (SuccessCheckedOut), for any calls, tasks, retries, overruns, crashes and cancels.
The invariant has two halves. `Numbered`: the tables are dense, the rows of a listed
pipeline refer to rows that exist, a maximum that a call has read never exceeds what
the table has now, and a trigger that has inserted and not committed holds the number
it computed (`CallOK`), which no second one can (`OneCommit`). With this an insert
either meets the unique key or takes the next number. The same holds of a save between its INSERT and its COMMIT (`OneSave`):
the row of the pipeline and the key it holds keep other saves, restores and inserts of its number away, so that what it
commits is still the next version. `SavedIsNewest` says that a save ends so, or by the failure of its own COMMIT, whose
caller has a 200 all the same. `Guarded`: a task is at a place
that its run's status and the clone allow, and a run that an engine or a build can
end as a success has a completed clone (`Reached`), which can be lost afterwards but
not undone (`Grows`).

**DeployProofs.** `Overshoot` (FailuresBounded) and `RollbackRestores` (RolledBack), for
any hosts, widths, thresholds, deliveries and steps of deployments that were overtaken. FailuresBounded is not
inductive: a task that runs may still fail. `Bounded` counts the hosts
that are exposed, those that have failed, those at work and the rest of a rolling
batch, and says that they are at most the threshold and one less than the width; a
start is allowed only below the threshold, and then at most a width of
hosts can be at work. `Restorable` says that until it is rolled back the newest backup
of a host whose backup was good is what the host held when the step began, unless another deployment has disturbed the host, that no
host is in deployedHosts twice, and that only hosts of its rolled back part
have been tried.

**WorkerProofs**, about `StageWork`: `SuccessIsEarned` (SuccessRows), `OutputsReachNeeds` (OutputsKept) and
`ArtifactsAreWhole` (ArtifactWhole), for any programs, parallel and repeated executions, deaths
and failed statements. All three rest on `WorkTyped`, which says where an execution can be
in the steps it has. `RowsInv` says that the steps an execution is through have rows that
say success, which makes the row of the stage the last of them to say so. `FileInv`: as
long as no two calls of `Set` met, one execution holds the outputs file, and the copy that it is
about to write has every entry but its own; `NeedsInv` carries this to the
stages that read it: a stage that was started has needs whose outputs are kept, or that have
none to keep. `PutsInv` speaks of inodes: two keys never share one (`DiskOK`), and of a
key whose Puts came one after the other the file at its path is whole and is not the one that is being
written (`KeyOK`), so a rename replaces a whole file by a whole file even when the Put before it
died half way.

About `RunLogs`: `ArchiveKeepsLog` (ArchiveLosesNothing) and `HistoryHasNoHole` (ReadersSeeNoHole), for any
number of builds of the run, any cap, page size and count of a request. The lemmas treat a log as an increasing
sequence of ids: what comes after an id (`AfterHas`), the first n (`FirstHas`), and one page of
the archiver (`PageIs`). The invariant (`LogInv`): the ids of the stream are consecutive and end
with the last one, and every id is in the stream, in the archive or removed (`StreamInv`);
one build at most is on its way from the mark to the Drop, none after an archive exists,
and what it has collected covers the stream up to where it is (`DecideInv`); what a Drop took without an archive
was appended by a build that did not decide the run (`GoneInv`); and the reader misses nothing up to
where it is (`ReaderInv`). That a run leaves "running" only once is what makes the first archive the only one.

**ResourcesProofs**, about `Inventory`: `GroupsHoldOwnHosts` (MembersSound) and `SecretInUseStays` (UsedSecretKept),
for any requests at a time. `InventoryInv` says of the row that a request has read what is still true when it
writes (`CallOK`): hosts and groups come and go but a row keeps its org, the hosts of an
addition that were compared belong to the org of the group, and a delete that goes on to write has an empty watch, if
its query of the references did not fail. `SecretInUseStays` is about such deletes only: after a failed query nothing protects a secret.

About `Catalog`: `SeedRepairsLatest` (LatestIsLast), with three hypotheses: one replica,
no rollback (`~RollsBack`), and builds that ship no older version than the builds before them (`Forward`).
Without one of the first two TLC finds the property violated (see the findings); the third is what
"no rollback" means for the versions. Between two starts every plugin that is not spoilt is `Mendable`: its last row is the only latest
one, or none is and the version of the build is missing, so that the next start inserts it. That takes in a start that dies, or
gives up at an INSERT that fails, behind the reset of the flags. `NoneNewer` keeps the rows of a plugin below the version of the
build or at it, `Seeded` is what the seed leaves behind it, and `SeedPlace` says what is
true at each statement. A plugin is spoilt by an ignored error of Count or of the UPDATE, and no longer once a later
version has been added in full.

About `Projects`: `HooksAreVerified` (HooksVerify), for any projects, retries, lost answers and stale
edits. A config that is stored, was read for a PATCH, or is about to be merged names a hook at GitHub together with the
secret that hook signs with, or neither (`ConfigOK`, `EditOK`, `TaskOK`); GitHub never loses a hook (`Grown`).

**Only model-checked.** All liveness (`EventuallyDone`, `ApprovedResumes`, `TimeoutDecides`, `RunEnds`,
`CheckedOutRunEnds`, `RegistrationEnds`): ENABLED and fairness are out of the prover's reach.
`PipelineSpec` and `Expression` (`CycleVerdict`, `RunsInOrder`, `Grouping`) are recursive, and what a
recursive definition computes for every input cannot be proved with the installed provers; they
are compared with reference definitions over bounded inputs. Every other property of a passing run is stated by a theorem.

## 6. Not modelled, and why

* *Cluster health.* A periodic probe around external calls; nothing in the system
  reads the status it writes. That two workers degrade a cluster twice from one stale status, and that
  30 s are shared by all clusters, is listed as a hazard.
* *API, users and access.* Authentication, roles and request decoding have no
  protocol state; the guards they put before the modelled operations are left out.
* *Web and command line clients*, except the panel that follows a log (`RunLogs`).
* *In the partly modelled components:* `ApprovalService.Create` (no caller) and
  listings; the lexer and the functions of `expr` that transform text; composite plugins and
  remote artifact stores, which the code does not execute; ciphers, and clusters
  as holders of a secret.
* *External:* asynq, PostgreSQL, Redis, GitHub, Docker, SSH and SFTP are
  modelled by what the code relies on.

## 7. What could come next

1. A gate (closed, asked, open) as an abstract specification that `Approval`
   implements for each gate, and a run whose stages execute at most once that
   `RunEngine` implements for chains without faults: `StagesHandedOutOnce` and `PassedStagesRest` are its steps.
2. `Launch` and `RunEngine` composed over one queue, in place of `EngineEnd`.
3. The properties that a change of the code would make true, such as `TriggeredRunStarts` or
   `NothingLeftBehind`: they stand in their modules as formulas.
