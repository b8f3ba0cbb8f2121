------------------------------- MODULE Launch -------------------------------
(***************************************************************************)
(* How runs of one project come to be and get going: the API calls that    *)
(* save and restore versions of a pipeline and create runs (push webhook,  *)
(* manual trigger, retry), the tasks that check a run out, build it or     *)
(* start its orchestration, and Bootstrap, which inserts the stages.  A    *)
(* call is split where another one can come between its statements         *)
(* (READ COMMITTED); the writes of one transaction become visible at its   *)
(* commit.  What happens behind the first tick is RunEngine.               *)
(***************************************************************************)
EXTENDS Integers, Sequences, FiniteSets, SequencesExt, RunStatus

CONSTANTS
    Calls,      \* the API calls; a row is named after the call that inserts it
    Ops,        \* Ops[c]: what the call c may be
    Seed,       \* the pipeline and the version there may be from the start
    Nobody,     \* no row
    StageCount, \* number of stages of a spec that has stages
    Backing,    \* the specs to choose from: TRUE has stages, FALSE is built
    MaxRetry,   \* asynq.MaxRetry of checkout, build and orchestrate, 3 in the code
    MaxTasks,   \* bound on the tasks in the queue
    MaxFaults   \* bound on failed statements, failed enqueues and crashes

Operations == {"save", "restore", "push", "trigger", "retry"}

ASSUME LaunchAssumption ==
    /\ IsFiniteSet(Calls)
    /\ Seed \notin Calls /\ Nobody \notin Calls \cup {Seed}
    /\ Ops \in [Calls -> SUBSET Operations]
    /\ StageCount \in Nat \ {0}
    /\ Backing \subseteq BOOLEAN
    /\ MaxRetry \in Nat /\ MaxTasks \in Nat \ {0} /\ MaxFaults \in Nat

VARIABLES
    pipes,    \* the pipelines of the project, by id
    version,  \* pipeline_versions
    current,  \* pipelines.current_version_id
    run,      \* runs
    calls,    \* the API calls under way
    tasks,    \* the queue and its workers
    ws,       \* the clone in the workspace of a run: "none", "ready" or "lost"
    rows,     \* the stages of a run, as indices into its spec
    engine,   \* the runs whose first tick has passed Bootstrap
    overran,  \* history: the runs whose last attempt at a task overran its deadline
    faults

vars == <<pipes, version, current, run, calls, tasks, ws, rows, engine, overran, faults>>

Ids   == Calls \cup {Seed}
Slots == 1 .. MaxTasks

NoVersion == [pipe |-> Nobody, num |-> 0, staged |-> FALSE]
NoRun     == [pipe |-> Nobody, num |-> 0, status |-> "none", version |-> Nobody, branch |-> FALSE]
NewCall   == [op |-> "", pc |-> "new", pipe |-> Nobody, version |-> Nobody, staged |-> FALSE,
              branch |-> FALSE, max |-> 0]
NoTask    == [kind |-> "tick", run |-> Nobody, pc |-> "none", at |-> 0, retried |-> 0]

VersionsOf(p) == {v \in Ids : version[v].pipe = p}
RunsOf(p)     == {r \in Ids : run[r].pipe = p}
VersionNums(p) == {version[v].num : v \in VersionsOf(p)}
RunNums(p)     == {run[r].num : r \in RunsOf(p)}

\* HasPipelineStages of the version of a run.
Staged(r) == run[r].version # Nobody /\ version[run[r].version].staged

\* COALESCE(MAX(...), 0)
Top(nums) == IF nums = {} THEN 0 ELSE CHOOSE n \in nums : \A k \in nums : k <= n
Newest(p) == CHOOSE v \in VersionsOf(p) : version[v].num = Top(VersionNums(p))

TypeOK ==
    /\ Range(pipes) \subseteq Ids
    /\ \A v \in Ids : /\ version[v].pipe \in Ids \cup {Nobody}
                      /\ version[v].num \in Nat /\ version[v].staged \in BOOLEAN
    /\ current \in [Ids -> Ids \cup {Nobody}]
    /\ \A r \in Ids : run[r].status \in RunStatuses \cup {"none"}
    /\ \A c \in Calls : calls[c].pc \in {"new", "max", "insert", "saved", "set", "enqueue",
                                         "commit", "acked", "lost", "refused"}
    /\ \A i \in Slots : /\ tasks[i].kind \in {"checkout", "build", "tick"}
                        /\ tasks[i].pc \in {"none", "queued", "clone", "dispatch", "exec",
                                            "insert", "advance"}
    /\ ws \in [Ids -> {"none", "ready", "lost"}]
    /\ \A r \in Ids : rows[r] \in Seq(1 .. StageCount)
    /\ engine \subseteq Ids /\ overran \subseteq Ids
    /\ faults \in 0 .. MaxFaults

\* A new project without a pipeline, or one with a pipeline, its version 1 and
\* maybe a run that was cancelled, with a branch or (a trigger's) without.
Init ==
    /\ pipes \in {<<>>, <<Seed>>}
    /\ \E staged \in Backing :
        version = [v \in Ids |-> IF v = Seed /\ pipes # <<>>
                                 THEN [pipe |-> Seed, num |-> 1, staged |-> staged]
                                 ELSE NoVersion]
    /\ run \in [Ids -> {NoRun}] \cup
               {[r \in Ids |-> IF r = Seed THEN [pipe |-> Seed, num |-> 1, status |-> "canceled",
                                                version |-> Seed, branch |-> branch]
                               ELSE NoRun] : branch \in IF pipes = <<>> THEN {} ELSE BOOLEAN}
    /\ current = [p \in Ids |-> IF p = Seed /\ pipes # <<>> THEN Seed ELSE Nobody]
    /\ calls = [c \in Calls |-> NewCall]
    /\ tasks = [i \in Slots |-> NoTask]
    /\ ws = [r \in Ids |-> "none"]
    /\ rows = [r \in Ids |-> <<>>]
    /\ engine = {} /\ overran = {}
    /\ faults = 0

Fault ==
    /\ faults < MaxFaults
    /\ faults' = faults + 1

-----------------------------------------------------------------------------
(* Versions of a pipeline                                                  *)

Begin(c, op) == calls[c].pc = "new" /\ op \in Ops[c]
At(c, ops, pc) == calls[c].op \in ops /\ calls[c].pc = pc
Go(c, pc) == calls' = [calls EXCEPT ![c].pc = pc]
Ends(c, pc) == calls' = [calls EXCEPT ![c] = [NewCall EXCEPT !.op = calls[c].op, !.pc = pc]]
Start(c, op, pc, p, v, staged, branch, max) ==
    calls' = [calls EXCEPT ![c] = [op |-> op, pc |-> pc, pipe |-> p, version |-> v,
                                   staged |-> staged, branch |-> branch, max |-> max]]

\* PUT /pipelines/:id/spec with a valid spec: base_version_id is optional, and
\* compared with the current version only if there is one.
SaveRead(c) ==
    /\ Begin(c, "save")
    /\ \E p \in Range(pipes), staged \in Backing :
        \E base \in VersionsOf(p) \cup {Nobody} :
           Start(c, "save",
                 IF Nobody \notin {base, current[p]} /\ base # current[p] THEN "refused" ELSE "max",
                 p, base, staged, FALSE, 0)
    /\ UNCHANGED <<pipes, version, current, run, tasks, ws, rows, engine, overran, faults>>

\* POST /pipelines/:id/versions/:v/restore reads the old version.
RestoreRead(c) ==
    /\ Begin(c, "restore")
    /\ \E p \in Range(pipes) : \E old \in VersionsOf(p) :
        Start(c, "restore", "max", p, old, version[old].staged, FALSE, 0)
    /\ UNCHANGED <<pipes, version, current, run, tasks, ws, rows, engine, overran, faults>>

MaxVersion(c) ==
    /\ At(c, {"save", "restore"}, "max")
    /\ calls' = [calls EXCEPT ![c].pc = "insert", ![c].max = Top(VersionNums(calls[c].pipe))]
    /\ UNCHANGED <<pipes, version, current, run, tasks, ws, rows, engine, overran, faults>>

NewVersion(c) == [pipe |-> calls[c].pipe, num |-> calls[c].max + 1, staged |-> calls[c].staged]

\* Mutant: the table has no UNIQUE (pipeline_id, version).
InsertAnyway(c) ==
    /\ At(c, {"save", "restore"}, "insert")
    /\ IF calls[c].op = "save"
       THEN UNCHANGED version /\ Go(c, "saved")
       ELSE version' = [version EXCEPT ![c] = NewVersion(c)] /\ Go(c, "set")
    /\ UNCHANGED <<pipes, current, run, tasks, ws, rows, engine, overran, faults>>

\* An open save has set the current version of p, and holds the row till it ends.
Saving(c, p) == At(c, {"save"}, "saved") /\ calls[c].pipe = p

\* The INSERT, which the unique key may refuse; it waits for an open save that
\* has the same number.  A save sets the current version in the same transaction
\* and answers 200 before that has committed; a restore is in no transaction.
InsertVersion(c) ==
    LET p == calls[c].pipe
        n == calls[c].max + 1
    IN
    /\ At(c, {"save", "restore"}, "insert")
    /\ ~\E d \in Calls \ {c} : Saving(d, p) /\ calls[d].max = calls[c].max
    /\ \/ n \in VersionNums(p) /\ Ends(c, "refused") /\ UNCHANGED <<version, faults>>
       \/ /\ n \notin VersionNums(p)
          /\ IF calls[c].op = "save"
             THEN UNCHANGED version /\ Go(c, "saved")
             ELSE version' = [version EXCEPT ![c] = NewVersion(c)] /\ Go(c, "set")
          /\ UNCHANGED faults
       \/ Fault /\ Ends(c, "refused") /\ UNCHANGED version
    /\ UNCHANGED <<pipes, current, run, tasks, ws, rows, engine, overran>>

\* The COMMIT of a save.  If it fails, the 500 comes after the 200 was written:
\* the caller holds an answer for a version that is not there.
SaveCommit(c) ==
    /\ At(c, {"save"}, "saved")
    /\ \/ /\ version' = [version EXCEPT ![c] = NewVersion(c)]
          /\ current' = [current EXCEPT ![calls[c].pipe] = c]
          /\ Ends(c, "acked")
          /\ UNCHANGED faults
       \/ Fault /\ Ends(c, "lost") /\ UNCHANGED <<version, current>>
    /\ UNCHANGED <<pipes, run, tasks, ws, rows, engine, overran>>

\* The UPDATE waits for an open save of the pipeline.
RestoreSet(c) ==
    /\ At(c, {"restore"}, "set")
    /\ ~\E d \in Calls : Saving(d, calls[c].pipe)
    /\ \/ /\ current' = [current EXCEPT ![calls[c].pipe] = c]
          /\ Ends(c, "acked")
          /\ UNCHANGED faults
       \/ Fault /\ Ends(c, "refused") /\ UNCHANGED current
    /\ UNCHANGED <<pipes, version, run, tasks, ws, rows, engine, overran>>

-----------------------------------------------------------------------------
(* Runs                                                                    *)

Free == {i \in Slots : tasks[i] = NoTask}
Slot == CHOOSE i \in Free : \A k \in Free : i <= k
Queued(kind, r) == [NoTask EXCEPT !.kind = kind, !.run = r, !.pc = "queued"]
Enqueue(kind, r) == Free # {} /\ tasks' = [tasks EXCEPT ![Slot] = Queued(kind, r)]

\* CreateRunForPush, up to the number: the first pipeline and its newest
\* version; a project without a pipeline gets one, a pipeline without a version
\* a placeholder.
PushRead(c) ==
    /\ Begin(c, "push")
    /\ LET p == IF pipes = <<>> THEN c ELSE Head(pipes)
           v == IF VersionsOf(p) = {} THEN c ELSE Newest(p)
       IN  Start(c, "push", "insert", p, v, FALSE, TRUE, Top(RunNums(p)))
    /\ UNCHANGED <<pipes, version, current, run, tasks, ws, rows, engine, overran, faults>>

\* The trigger wants a current version; its run has no branch.
TriggerRead(c) ==
    /\ Begin(c, "trigger")
    /\ \E p \in Range(pipes) :
        Start(c, "trigger", IF current[p] = Nobody THEN "refused" ELSE "insert",
              p, current[p], FALSE, FALSE, Top(RunNums(p)))
    /\ UNCHANGED <<pipes, version, current, run, tasks, ws, rows, engine, overran, faults>>

\* Retry copies version and branch of a run that is neither pending nor running.
RetryRead(c) ==
    /\ Begin(c, "retry")
    /\ \E r \in Ids :
        /\ run[r].status \notin {"none", "pending", "running"}
        /\ Start(c, "retry", "insert", run[r].pipe, run[r].version, FALSE, run[r].branch,
                 Top(RunNums(run[r].pipe)))
    /\ UNCHANGED <<pipes, version, current, run, tasks, ws, rows, engine, overran, faults>>

NewRun(c) == [pipe |-> calls[c].pipe, num |-> calls[c].max + 1, status |-> "pending",
              version |-> calls[c].version, branch |-> calls[c].branch]

\* An open transaction of a trigger holds its number: another INSERT waits.
Held(c) == \E d \in Calls \ {c} : At(d, {"trigger"}, "commit") /\ calls[d].pipe = calls[c].pipe
                                  /\ calls[d].max = calls[c].max

\* Push and retry: the INSERTs and the commit.
InsertRun(c) ==
    /\ At(c, {"push", "retry"}, "insert")
    /\ ~Held(c)
    /\ LET p == calls[c].pipe
       IN  \/ /\ calls[c].max + 1 \in RunNums(p)
              /\ Ends(c, "refused")
              /\ UNCHANGED <<pipes, version, current, run, faults>>
           \/ /\ calls[c].max + 1 \notin RunNums(p)
              /\ pipes' = IF p = c THEN Append(pipes, c) ELSE pipes
              /\ IF calls[c].version = c
                 THEN /\ version' = [version EXCEPT ![c] = [pipe |-> p, num |-> 1, staged |-> FALSE]]
                      /\ current' = [current EXCEPT ![p] = c]
                 ELSE UNCHANGED <<version, current>>
              /\ run' = [run EXCEPT ![c] = NewRun(c)]
              /\ Go(c, "enqueue")
              /\ UNCHANGED faults
           \/ Fault /\ Ends(c, "refused") /\ UNCHANGED <<pipes, version, current, run>>
    /\ UNCHANGED <<tasks, ws, rows, engine, overran>>

\* EnqueueGitCheckout, outside the transaction: a payload without a branch does
\* not pass Validate, and an error is only logged.
EnqueueCheckout(c) ==
    /\ At(c, {"push", "retry"}, "enqueue")
    /\ Ends(c, "acked")
    /\ \/ calls[c].branch /\ Enqueue("checkout", c) /\ UNCHANGED faults
       \/ ~calls[c].branch /\ UNCHANGED <<tasks, faults>>
       \/ calls[c].branch /\ Fault /\ UNCHANGED tasks
    /\ UNCHANGED <<pipes, version, current, run, ws, rows, engine, overran>>

\* The trigger inserts and enqueues inside its transaction.
TriggerInsert(c) ==
    /\ At(c, {"trigger"}, "insert")
    /\ ~Held(c)
    /\ LET n == calls[c].max + 1
       IN  \/ n \in RunNums(calls[c].pipe) /\ Ends(c, "refused") /\ UNCHANGED <<tasks, faults>>
           \/ n \notin RunNums(calls[c].pipe) /\ Enqueue("tick", c) /\ Go(c, "commit")
              /\ UNCHANGED faults
           \/ Fault /\ Ends(c, "refused") /\ UNCHANGED tasks
    /\ UNCHANGED <<pipes, version, current, run, ws, rows, engine, overran>>

TriggerCommit(c) ==
    /\ At(c, {"trigger"}, "commit")
    /\ \/ run' = [run EXCEPT ![c] = NewRun(c)] /\ Ends(c, "acked") /\ UNCHANGED faults
       \/ Fault /\ Ends(c, "refused") /\ UNCHANGED run
    /\ UNCHANGED <<pipes, version, current, tasks, ws, rows, engine, overran>>

Cancel(r) ==
    /\ CanTransition(run[r].status, "canceled")
    /\ run' = [run EXCEPT ![r].status = "canceled"]
    /\ UNCHANGED <<pipes, version, current, calls, tasks, ws, rows, engine, overran, faults>>

-----------------------------------------------------------------------------
(* Tasks: withExhaustHook and asynq around the handlers                    *)

Step(i, t) == tasks' = [tasks EXCEPT ![i] = t]
Retried(t) == IF t.retried < MaxRetry
              THEN [Queued(t.kind, t.run) EXCEPT !.retried = t.retried + 1]
              ELSE NoTask

\* Machine.Transition and Repo.MarkFailed, as far as they change the run.
Move(r, s) == run' = [run EXCEPT ![r].status = IF CanTransition(@, s) THEN s ELSE @]
RepoFail(r) == run' = [run EXCEPT ![r].status = IF RepoMayFail(@) THEN "failed" ELSE @]
Reaches(r, s) == run[r].status = s \/ CanTransition(run[r].status, s)

\* Mutant: nothing is done when the retries are used up.
HookNothing(t) == UNCHANGED run

\* An attempt that fails before its deadline: the hook marks the run as failed if
\* the count says so, and asynq retries unless the handler says SkipRetry.  Behind
\* the deadline it is Overrun.
Hook(t) == IF t.retried + 1 < MaxRetry THEN UNCHANGED run
           ELSE IF t.kind = "checkout" THEN RepoFail(t.run) ELSE Move(t.run, "failed")
Failed(i) == Hook(tasks[i]) /\ Step(i, Retried(tasks[i]))

-----------------------------------------------------------------------------
(* Checkout                                                                *)

\* GetMeta, MarkRunning and RemoveAll.  A run that is neither pending nor
\* running is left alone; a failed statement is retried, a workspace that
\* cannot be removed fails the run.
CheckoutStart(i) ==
    LET r == tasks[i].run IN
    /\ tasks[i].kind = "checkout" /\ tasks[i].pc = "queued"
    /\ \/ /\ run[r].status \notin {"pending", "running"}
          /\ Step(i, NoTask)
          /\ UNCHANGED <<run, ws, faults>>
       \/ /\ run[r].status \in {"pending", "running"}
          /\ run' = [run EXCEPT ![r].status = "running"]
          /\ ws' = [ws EXCEPT ![r] = IF @ = "none" THEN "none" ELSE "lost"]
          /\ Step(i, [tasks[i] EXCEPT !.pc = "clone"])
          /\ UNCHANGED faults
       \/ Fault /\ Failed(i) /\ UNCHANGED ws
       \/ Fault /\ RepoFail(r) /\ Step(i, NoTask) /\ UNCHANGED ws
    /\ UNCHANGED <<pipes, version, current, calls, rows, engine, overran>>

\* Mutant: the run is dispatched whether it could be cloned or not.
CloneAnyway(i) ==
    /\ tasks[i].pc = "clone"
    /\ \/ ws' = [ws EXCEPT ![tasks[i].run] = "ready"]
       \/ UNCHANGED ws
    /\ Step(i, [tasks[i] EXCEPT !.pc = "dispatch"])
    /\ UNCHANGED <<pipes, version, current, run, calls, rows, engine, overran, faults>>

\* git clone: an error is retried, whatever its reason; for a clone that takes
\* longer than the task may, see Overrun.
Clone(i) ==
    /\ tasks[i].pc = "clone"
    /\ \/ /\ ws' = [ws EXCEPT ![tasks[i].run] = "ready"]
          /\ Step(i, [tasks[i] EXCEPT !.pc = "dispatch"])
          /\ UNCHANGED run
       \/ Failed(i) /\ UNCHANGED ws
    /\ UNCHANGED <<pipes, version, current, calls, rows, engine, overran, faults>>

\* DispatchAfterCheckout: a spec with stages is orchestrated, another one built.
\* If that fails the run does, if it can still be written.
Dispatch(i) ==
    LET r == tasks[i].run IN
    /\ tasks[i].pc = "dispatch"
    /\ \/ /\ Step(i, Queued(IF Staged(r) THEN "tick" ELSE "build", r))
          /\ UNCHANGED <<run, faults>>
       \/ Fault /\ RepoFail(r) /\ Step(i, NoTask)
    /\ UNCHANGED <<pipes, version, current, calls, ws, rows, engine, overran>>

-----------------------------------------------------------------------------
(* Build                                                                   *)

\* Status, project and workspace.  Without a build_command the run passes.
BuildStart(i) ==
    LET r == tasks[i].run IN
    /\ tasks[i].kind = "build" /\ tasks[i].pc = "queued"
    /\ \/ /\ run[r].status # "running"
          /\ Step(i, NoTask)
          /\ IF IsTerminalStatus(run[r].status) THEN UNCHANGED run ELSE Hook(tasks[i])
          /\ UNCHANGED faults
       \/ /\ run[r].status = "running"
          /\ Move(r, "success") /\ Step(i, NoTask)
          /\ UNCHANGED faults
       \/ /\ run[r].status = "running" /\ ws[r] # "ready"
          /\ Move(r, "failed") /\ Step(i, NoTask)
          /\ UNCHANGED faults
       \/ /\ run[r].status = "running" /\ ws[r] = "ready"
          /\ Step(i, [tasks[i] EXCEPT !.pc = "exec"])
          /\ UNCHANGED <<run, faults>>
       \/ Fault /\ Failed(i)
       \/ Fault /\ Move(r, "failed") /\ Step(i, NoTask)
    /\ UNCHANGED <<pipes, version, current, calls, ws, rows, engine, overran>>

\* The command has ended.  A result that the run does not take any more (it was
\* cancelled) or that cannot be written is retried, a timeout is not.
BuildEnd(i) ==
    LET r == tasks[i].run IN
    /\ tasks[i].pc = "exec"
    /\ \/ /\ \E result \in {"success", "failed"} :
            IF Reaches(r, result)
            THEN Move(r, result) /\ Step(i, NoTask)
            ELSE Failed(i)
          /\ UNCHANGED faults
       \/ Move(r, "failed") /\ Step(i, NoTask) /\ UNCHANGED faults
       \/ Fault /\ Failed(i)
       \/ Fault /\ Step(i, NoTask) /\ UNCHANGED run
    /\ UNCHANGED <<pipes, version, current, calls, ws, rows, engine, overran>>

-----------------------------------------------------------------------------
(* The first tick: Advance up to Bootstrap                                 *)

\* A run that is not there (not committed, or rolled back) or whose spec has no
\* stages is an error; stages that are there are left as they are.
TickStart(i) ==
    LET r == tasks[i].run IN
    /\ tasks[i].kind = "tick" /\ tasks[i].pc = "queued"
    /\ \/ /\ \/ run[r].status = "none"
             \/ /\ ~IsTerminalStatus(run[r].status)
                /\ rows[r] = <<>> /\ ~Staged(r)
          /\ Failed(i)
       \/ /\ run[r].status # "none"
          /\ \/ IsTerminalStatus(run[r].status) /\ Step(i, NoTask)
             \/ /\ ~IsTerminalStatus(run[r].status)
                /\ \/ rows[r] # <<>> /\ Step(i, [tasks[i] EXCEPT !.pc = "advance"])
                   \/ /\ rows[r] = <<>> /\ Staged(r)
                      /\ Step(i, [tasks[i] EXCEPT !.pc = "insert", !.at = 1])
          /\ UNCHANGED run
    /\ UNCHANGED <<pipes, version, current, calls, ws, rows, engine, overran, faults>>

\* InsertStage, one statement per stage and no transaction around them.
InsertStage(i) ==
    LET r == tasks[i].run
        k == tasks[i].at
    IN
    /\ tasks[i].pc = "insert"
    /\ \/ /\ rows' = [rows EXCEPT ![r] = Append(@, k)]
          /\ Step(i, [tasks[i] EXCEPT !.pc = IF k = StageCount THEN "advance" ELSE "insert",
                                      !.at = IF k = StageCount THEN 0 ELSE k + 1])
          /\ UNCHANGED <<run, faults>>
       \/ Fault /\ Failed(i) /\ UNCHANGED rows
    /\ UNCHANGED <<pipes, version, current, calls, ws, engine, overran>>

Advance(i) ==
    /\ tasks[i].pc = "advance"
    /\ engine' = engine \cup {tasks[i].run}
    /\ Step(i, NoTask)
    /\ UNCHANGED <<pipes, version, current, run, calls, ws, rows, overran, faults>>

\* The orchestration ends the run when every stage of its spec has ended; a
\* stage without a row is never handed out.
EngineEnd(r) ==
    /\ r \in engine
    /\ run[r].status = "running"
    /\ Range(rows[r]) = 1 .. StageCount
    /\ \E s \in {"success", "failed"} : Move(r, s)
    /\ UNCHANGED <<pipes, version, current, calls, tasks, ws, rows, engine, overran, faults>>

\* The deadline of an attempt passes in its clone or its build, or has when the
\* clone is there (a tick does no long work): the work is killed, asynq repeats the task
\* (or, of a handler that said SkipRetry first, does not), and neither the handler
\* nor the hook can write the failure: they have the same context, which is over.
Overrun(i) ==
    LET r == tasks[i].run IN
    /\ tasks[i].pc \in {"clone", "dispatch", "exec"}
    /\ \E t \in {Retried(tasks[i])} \cup IF tasks[i].pc = "clone" THEN {} ELSE {NoTask} :
        /\ Step(i, t)
        /\ overran' = IF t = NoTask /\ ~IsTerminalStatus(run[r].status)
                       THEN overran \cup {r} ELSE overran
    /\ UNCHANGED <<pipes, version, current, run, calls, ws, rows, engine, faults>>

\* A worker dies in the middle of a task, which asynq delivers again; a task
\* whose work is done may be delivered again as well.
Crash(i) ==
    /\ tasks[i].pc \notin {"none", "queued"}
    /\ Fault
    /\ Step(i, Retried(tasks[i]))
    /\ UNCHANGED <<pipes, version, current, run, calls, ws, rows, engine, overran>>

\* The checkout has enqueued what follows, and dies before asynq knows.
Redelivered(i) ==
    LET r == tasks[i].run
        next == Queued(IF Staged(r) THEN "tick" ELSE "build", r)
    IN
    /\ tasks[i].pc = "dispatch" /\ Free # {} /\ tasks[i].retried < MaxRetry
    /\ Fault
    /\ tasks' = [tasks EXCEPT ![i] = Retried(tasks[i]), ![Slot] = next]
    /\ UNCHANGED <<pipes, version, current, run, calls, ws, rows, engine, overran>>

-----------------------------------------------------------------------------

CallStep(c) ==
    \/ SaveRead(c) \/ RestoreRead(c) \/ MaxVersion(c) \/ InsertVersion(c)
    \/ SaveCommit(c) \/ RestoreSet(c)
    \/ PushRead(c) \/ TriggerRead(c) \/ RetryRead(c) \/ InsertRun(c) \/ EnqueueCheckout(c)
    \/ TriggerInsert(c) \/ TriggerCommit(c)
TaskStep(i) ==
    \/ CheckoutStart(i) \/ Clone(i) \/ Dispatch(i) \/ BuildStart(i) \/ BuildEnd(i)
    \/ TickStart(i) \/ InsertStage(i) \/ Advance(i)
Next ==
    \/ \E c \in Calls : CallStep(c)
    \/ \E i \in Slots : TaskStep(i) \/ Overrun(i) \/ Crash(i) \/ Redelivered(i)
    \/ \E r \in Ids : Cancel(r) \/ EngineEnd(r)

Spec == Init /\ [][Next]_vars

\* asynq hands every task to a worker, and handlers go on.
FairSpec ==
    /\ Spec
    /\ \A i \in Slots : WF_vars(TaskStep(i))

-----------------------------------------------------------------------------
(* Properties                                                              *)

\* Every pipeline numbers its versions and its runs 1, 2, 3, ... without a gap
\* and without a number twice, however the calls that compute max + 1 without a
\* lock interleave, fail and roll back.
NumbersDense ==
    \A p \in Ids :
        /\ VersionNums(p) = 1 .. Cardinality(VersionsOf(p))
        /\ RunNums(p) = 1 .. Cardinality(RunsOf(p))

\* When a save ends it is the newest version of its pipeline and the current one,
\* and no version that it has not counted is ahead of it; the one exception is a
\* save whose own COMMIT failed, which was answered all the same.
SaveIsNewest ==
    [][\A c \in Calls :
        At(c, {"save"}, "saved") /\ calls'[c].pc # "saved" =>
            \/ calls'[c].pc = "lost" /\ faults' = faults + 1
            \/ /\ current'[calls[c].pipe] = c
               /\ \A v \in Ids \ {c} : version'[v].pipe = calls[c].pipe
                                       => version'[v].num < version'[c].num]_vars

\* A run passes only after a clone of it has been completed, whatever is lost,
\* repeated or cancelled on the way: no other route leads to a task that may
\* end a run well.
SuccessCheckedOut ==
    \A r \in Ids : run[r].status = "success" => ws[r] # "none"

\* The orchestration has the run, with a row for every stage; what becomes of it
\* from here on is RunEnds of RunEngine.
Orchestrated(r) == r \in engine /\ Range(rows[r]) = 1 .. StageCount

\* Without faults every run whose checkout was enqueued ends or comes to be
\* orchestrated, also when it cannot be cloned, is built too long or is cancelled
\* on the way.  A run whose last attempt overran the deadline of its task is left
\* out: its failure cannot be written.
CheckedOutRunEnds ==
    \A r \in Calls :
        (\E i \in Slots : tasks[i].run = r /\ tasks[i].kind = "checkout")
            ~> (IsTerminalStatus(run[r].status) \/ Orchestrated(r) \/ r \in overran \/ faults > 0)

\* While a build runs its workspace stays as it was cloned.
BuildKeepsWorkspace ==
    \A i \in Slots : tasks[i].pc = "exec" => ws[tasks[i].run] = "ready"

\* A tick that has passed Bootstrap finds exactly one row for every stage.
BootstrapWhole ==
    \A i \in Slots : tasks[i].pc = "advance" =>
        /\ Range(rows[tasks[i].run]) = 1 .. StageCount
        /\ Len(rows[tasks[i].run]) = StageCount

\* checkout.go:27: a checkout that fails marks the run as failed, in time or not.
FailedCheckoutEnds ==
    \A r \in Calls :
        (\E i \in Slots : tasks[i].run = r /\ tasks[i].kind = "checkout")
            ~> (IsTerminalStatus(run[r].status) \/ Orchestrated(r) \/ faults > 0)

\* pipeline.go:7: a PUT of a spec saves it as a new version; the one that was
\* answered 200 is there.
AnsweredSaveStored == \A c \in Calls : calls[c].pc # "lost"
=============================================================================
