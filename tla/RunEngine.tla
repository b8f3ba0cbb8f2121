----------------------------- MODULE RunEngine -----------------------------
(***************************************************************************)
(* The orchestration of one run: the tasks of api/pkg/runengine that the   *)
(* workers take from the queue (run:orchestrate ticks and stage:execute),  *)
(* the tables they share (runs, stages, approval_requests) and the         *)
(* approvals that move the run from outside.  Every task works on its own  *)
(* copy of the stages table, without a transaction around read and write.  *)
(* The decision on the copy is that of StageGraph; a change of the run is  *)
(* one step, as RunState shows; a vote and a timeout are one step, as      *)
(* Approval shows.  The stages have been inserted (Bootstrap).             *)
(***************************************************************************)
EXTENDS StageGraph, RunStatus

CONSTANTS
    InitialRuns,  \* the values runs.status may have when the first tick is enqueued
    OnTimeout,    \* OnTimeout[g]: "reject", "approve", "pause", or "none": g has no timeout
    Tick,         \* the task of a tick, as against the stage of an execution
    MaxTasks,     \* bound on the tasks in the queue
    MaxFaults     \* bound on crashed attempts and failed enqueues

ASSUME RunEngineAssumption ==
    /\ InitialRuns \subseteq {"pending", "running"}
    /\ OnTimeout \in [ApprovalStages -> {"none", "reject", "approve", "pause"}]
    /\ Tick \notin Stages
    /\ MaxTasks \in Nat \ {0}
    /\ MaxFaults \in Nat

VARIABLES
    run,      \* runs.status
    row,      \* stages.status
    req,      \* approval_requests.status: the latest request of every gate
    timer,    \* the gates with a timeout task
    after,    \* what a committed vote or timeout still does to the run, by gate
    tasks,    \* the queue and its workers
    passed,   \* history: stages whose steps succeeded, gates that were approved
    faults    \* crashed attempts and failed enqueues so far

vars == <<run, row, req, timer, after, tasks, passed, faults>>

Slots == 1 .. MaxTasks
Gates == ApprovalStages

\* The gates with a timeout; an empty one is legal and never comes.
Timed == {g \in Gates : OnTimeout[g] # "none"}

\* The MaxRetry options of EnqueueRunOrchestrate and EnqueueStageExecute.
TickRetries  == 3
StageRetries == 2
MaxRetry(t)  == IF t = Tick THEN TickRetries ELSE StageRetries

-----------------------------------------------------------------------------
(* Tasks                                                                   *)

Blank == [s \in Stages |-> "pending"]

\* A task as it is enqueued: copy is the task's own map of statuses (rows, then
\* the scheduler's), todo the stages NextReady returned and that are not dispatched.
Queued(t) == [task |-> t, pc |-> "queued", retried |-> 0, ok |-> TRUE,
              hook |-> FALSE, copy |-> Blank, todo |-> {}]
NoTask == [Queued(Tick) EXCEPT !.pc = "none"]

\* asynq runs a failed or lost attempt again until the retries are used up.
Retried(j) ==
    IF j.retried < MaxRetry(j.task)
    THEN [Queued(j.task) EXCEPT !.retried = j.retried + 1]
    ELSE NoTask

\* withExhaustHook: a failed attempt first runs the hook, if its count says so;
\* the hook of a tick fails the run, that of a stage is OnStageComplete(false).
Failed(j) ==
    IF ~j.hook /\ j.retried + 1 >= MaxRetry(j.task)
    THEN IF j.task = Tick
         THEN [Queued(Tick) EXCEPT !.retried = j.retried, !.hook = TRUE, !.pc = "fail"]
         ELSE [Queued(j.task) EXCEPT !.retried = j.retried, !.hook = TRUE, !.ok = FALSE,
                                     !.pc = "exhausted"]
    ELSE Retried(j)

\* Advance has returned without an error: the attempt of a stage that failed
\* fails all the same.
Advanced(j) == IF j.ok THEN NoTask ELSE Failed(j)

Step(i, j) == tasks' = [tasks EXCEPT ![i] = j]

\* A task that is enqueued takes the lowest free slot.
Free == {i \in Slots : tasks[i] = NoTask}
Slot == CHOOSE i \in Free : \A k \in Free : i <= k

-----------------------------------------------------------------------------
(* Types and initial state                                                 *)

TaskOK(j) ==
    /\ j.task \in Stages \cup {Tick}
    /\ j.pc \in {"none", "queued", "executing", "exhausted", "load", "list", "sync",
                 "dispatch", "enqueue", "mark", "wait", "refuse", "final", "fail"}
    /\ j.retried \in 0 .. MaxRetry(j.task)
    /\ j.ok \in BOOLEAN /\ j.hook \in BOOLEAN
    /\ j.copy \in [Stages -> DbStatus \cup NodeStatus]
    /\ j.todo \subseteq Stages

TypeOK ==
    /\ run \in RunStatuses
    /\ row \in [Stages -> DbStatus]
    /\ req \in [Gates -> {"none", "pending", "approved", "rejected", "timeout"}]
    /\ timer \subseteq Gates
    /\ after \in [Gates -> {"", "running", "failed", "timeout"}]
    /\ \A i \in Slots : TaskOK(tasks[i])
    /\ passed \subseteq Stages
    /\ faults \in 0 .. MaxFaults

\* DispatchAfterCheckout has enqueued the first tick, of a running run, or the
\* manual trigger has, of a pending one.
Init ==
    /\ run \in InitialRuns
    /\ row = [s \in Stages |-> "pending"]
    /\ req = [g \in Gates |-> "none"]
    /\ timer = {}
    /\ after = [g \in Gates |-> ""]
    /\ tasks = [i \in Slots |-> IF i = 1 THEN Queued(Tick) ELSE NoTask]
    /\ passed = {}
    /\ faults = 0

Reaches(t) == run = t \/ CanTransition(run, t)

Fault ==
    /\ faults < MaxFaults
    /\ faults' = faults + 1

\* UpdateStageStatus: no condition on the old value, and an error is ignored.
Write(s, v) ==
    \/ row' = [row EXCEPT ![s] = v] /\ UNCHANGED faults
    \/ Fault /\ UNCHANGED row

-----------------------------------------------------------------------------
(* Executing a stage: StageExecuteHandler and OnStageComplete              *)

\* Mutant: the status of the run is not looked at.
StartBlind(i) ==
    /\ tasks[i].pc = "queued" /\ tasks[i].task # Tick
    /\ Step(i, [tasks[i] EXCEPT !.pc = "executing"])
    /\ UNCHANGED <<run, row, req, timer, after, passed, faults>>

\* A stage of a run that has ended is dropped.
Start(i) ==
    /\ tasks[i].pc = "queued" /\ tasks[i].task # Tick
    /\ Step(i, IF IsTerminalStatus(run) THEN NoTask
               ELSE [tasks[i] EXCEPT !.pc = "executing"])
    /\ UNCHANGED <<run, row, req, timer, after, passed, faults>>

\* A run that is still pending was not checked out: without a workspace every
\* stage fails.
Results(i) == IF tasks[i].pc = "executing" /\ run # "pending" THEN BOOLEAN ELSE {FALSE}

\* The steps have ended, or the retries have: the stage's row takes the result.
\* The scheduler that OnStageComplete builds here is thrown away.
Report(i) ==
    /\ tasks[i].pc \in {"executing", "exhausted"}
    /\ \E ok \in Results(i) :
        /\ Write(tasks[i].task, IF ok THEN "success" ELSE "failed")
        /\ passed' = IF ok THEN passed \cup {tasks[i].task} ELSE passed
        /\ Step(i, [tasks[i] EXCEPT !.pc = "load", !.ok = ok])
    /\ UNCHANGED <<run, req, timer, after>>

-----------------------------------------------------------------------------
(* Advance, the body of a tick and the end of an execution                 *)

Load(i) ==
    /\ tasks[i].pc = "load" \/ (tasks[i].pc = "queued" /\ tasks[i].task = Tick)
    /\ Step(i, IF IsTerminalStatus(run) THEN Advanced(tasks[i])
               ELSE [tasks[i] EXCEPT !.pc = "list"])
    /\ UNCHANGED <<run, row, req, timer, after, passed, faults>>

\* ListStages: from here on the task works on its copy.
List(i) ==
    /\ tasks[i].pc = "list"
    /\ Step(i, [tasks[i] EXCEPT !.pc = "sync", !.copy = row])
    /\ UNCHANGED <<run, row, req, timer, after, passed, faults>>

\* Mutant: a request that timed out lets the run go on.
DecidedTimeoutPasses(q) ==
    CASE q \in {"approved", "timeout"} -> "success"
      [] q = "rejected"                -> "failed"
      [] OTHER                         -> "approval"

\* What a decided request makes of the row of its gate.
DecidedAs(q) ==
    CASE q = "approved"               -> "success"
      [] q \in {"rejected", "timeout"} -> "failed"
      [] OTHER                        -> "approval"

\* syncApprovalStages, on the rows of the copy that wait for an approval.
Synced(copy) == [s \in Stages |-> IF s \in Gates /\ copy[s] = "approval"
                                  THEN DecidedAs(req[s]) ELSE copy[s]]

\* Mutant: the run is finished as soon as there is nothing more to hand out.
EndedIfNothingPicked(j, todo) ==
    IF todo # {} THEN [j EXCEPT !.pc = "dispatch", !.todo = todo]
    ELSE [j EXCEPT !.pc = "final", !.todo = todo]

\* There is nothing to dispatch (any more): finish the run if it is done.
Dispatching(j, todo) ==
    IF todo # {} THEN [j EXCEPT !.pc = "dispatch", !.todo = todo]
    ELSE IF Done(j.copy) THEN [j EXCEPT !.pc = "final", !.todo = todo]
    ELSE Advanced(j)

\* The decided gates are stored, then the scheduler decides on the copy.  What
\* it skips is not stored: markSkippedStages runs before NextReady.
Sync(i) ==
    LET rows == Synced(tasks[i].copy)
        old  == [s \in Stages |-> Restored(rows[s])]
    IN  /\ tasks[i].pc = "sync"
        /\ row' = [s \in Stages |-> IF rows[s] # tasks[i].copy[s] THEN rows[s] ELSE row[s]]
        /\ \E new \in PassResults(old) :
            /\ IsPass(old, RestoredDispatched(rows), new)
            /\ Step(i, Dispatching([tasks[i] EXCEPT !.copy = new], Picked(old, new)))
        /\ UNCHANGED <<run, req, timer, after, passed, faults>>

\* NextReady returns the stages in the order of the YAML: s is dispatched next.
IsFirst(i, s) == /\ s \in tasks[i].todo
                 /\ \A t \in tasks[i].todo : t = s \/ Before(s, t)

\* The stage s of todo is dispatched, or has failed.
Popped(i, s)       == Dispatching(tasks[i], tasks[i].todo \ {s})
PoppedFailed(i, s) == Dispatching([tasks[i] EXCEPT !.copy[s] = "failed"], tasks[i].todo \ {s})

\* The row says "running" before the task is enqueued.
MarkStageRunning(i) ==
    /\ tasks[i].pc = "dispatch"
    /\ \E s \in Stages \ Gates : IsFirst(i, s) /\ Write(s, "running")
    /\ Step(i, [tasks[i] EXCEPT !.pc = "enqueue"])
    /\ UNCHANGED <<run, req, timer, after, passed>>

\* EnqueueStageExecute; an error ends the attempt, the row stays "running".
EnqueueStage(i) ==
    /\ tasks[i].pc = "enqueue"
    /\ \/ /\ Free # {}
          /\ \E s \in Stages :
                /\ IsFirst(i, s)
                /\ tasks' = [tasks EXCEPT ![i] = Popped(i, s), ![Slot] = Queued(s)]
          /\ UNCHANGED faults
       \/ /\ Fault
          /\ Step(i, Failed(tasks[i]))
    /\ UNCHANGED <<run, row, req, timer, after, passed>>

-----------------------------------------------------------------------------
(* Advance opens a gate: CreateApproval                                    *)

\* Mutant: the index allows one request per run and stage, pending or not.
InsertOnce(i) ==
    /\ tasks[i].pc = "dispatch"
    /\ \E g \in Gates :
        /\ IsFirst(i, g)
        /\ IF req[g] # "none"
           THEN Step(i, [tasks[i] EXCEPT !.pc = "refuse"]) /\ UNCHANGED <<req, timer>>
           ELSE /\ Step(i, [tasks[i] EXCEPT !.pc = "mark"])
                /\ req' = [req EXCEPT ![g] = "pending"]
                /\ timer' = timer \ {g}
    /\ UNCHANGED <<run, row, after, passed, faults>>

\* INSERT: the unique index allows one pending request per run and stage.  The
\* timeout task of an earlier request finds that one decided and does nothing.
InsertRequest(i) ==
    /\ tasks[i].pc = "dispatch"
    /\ \E g \in Gates :
        /\ IsFirst(i, g)
        /\ IF req[g] = "pending"
           THEN Step(i, [tasks[i] EXCEPT !.pc = "refuse"]) /\ UNCHANGED <<req, timer>>
           ELSE /\ Step(i, [tasks[i] EXCEPT !.pc = "mark"])
                /\ req' = [req EXCEPT ![g] = "pending"]
                /\ timer' = timer \ {g}
    /\ UNCHANGED <<run, row, after, passed, faults>>

\* MarkApproval, and the timeout task of a gate that has a timeout, whose enqueue
\* may fail unnoticed.
MarkApproval(i) ==
    /\ tasks[i].pc = "mark"
    /\ IF Reaches("approval")
       THEN /\ run' = "approval"
            /\ Step(i, [tasks[i] EXCEPT !.pc = "wait"])
            /\ \/ /\ \E g \in Gates : IsFirst(i, g) /\ timer' = timer \cup ({g} \cap Timed)
                  /\ UNCHANGED faults
               \/ Fault /\ UNCHANGED timer
       ELSE /\ Step(i, [tasks[i] EXCEPT !.pc = "refuse"])
            /\ UNCHANGED <<run, timer, faults>>
    /\ UNCHANGED <<row, req, after, passed>>

\* The request is there: the row of the gate waits.
Wait(i) ==
    /\ tasks[i].pc = "wait"
    /\ \E g \in Gates : IsFirst(i, g) /\ Write(g, "approval") /\ Step(i, Popped(i, g))
    /\ UNCHANGED <<run, req, timer, after, passed>>

\* CreateApproval has returned an error: the row of the gate fails.
Refuse(i) ==
    /\ tasks[i].pc = "refuse"
    /\ \E g \in Gates : IsFirst(i, g) /\ Write(g, "failed") /\ Step(i, PoppedFailed(i, g))
    /\ UNCHANGED <<run, req, timer, after, passed>>

-----------------------------------------------------------------------------
(* The end of the run, and of an attempt                                   *)

\* finalizeRun: an outcome other than failed and canceled is a success.
Target(outcome) == IF outcome \in {"failed", "canceled"} THEN outcome ELSE "success"

Finalize(i) ==
    LET t == Target(Outcome(tasks[i].copy)) IN
    /\ tasks[i].pc = "final"
    /\ IF Reaches(t)
       THEN run' = t /\ Step(i, Advanced(tasks[i]))
       ELSE UNCHANGED run /\ Step(i, Failed(tasks[i]))
    /\ UNCHANGED <<row, req, timer, after, passed, faults>>

\* The hook of a tick whose retries are used up.
FailRun(i) ==
    /\ tasks[i].pc = "fail"
    /\ run' = IF Reaches("failed") THEN "failed" ELSE run
    /\ Step(i, Retried(tasks[i]))
    /\ UNCHANGED <<row, req, timer, after, passed, faults>>

\* The worker dies, a query returns an error that ends the attempt, or the
\* attempt outlives the deadline of its task (2 minutes, 30 for a stage): asynq
\* repeats it, and with its context over it can write nothing, the hook neither.
Crash(i) ==
    /\ tasks[i].pc \notin {"none", "queued"}
    /\ Fault
    /\ \E j \in {Retried(tasks[i]), Failed(tasks[i])} : Step(i, j)
    /\ UNCHANGED <<run, row, req, timer, after, passed>>

TaskStep(i) ==
    \/ Start(i) \/ Report(i) \/ Load(i) \/ List(i) \/ Sync(i)
    \/ MarkStageRunning(i) \/ EnqueueStage(i)
    \/ InsertRequest(i) \/ MarkApproval(i) \/ Wait(i) \/ Refuse(i)
    \/ Finalize(i) \/ FailRun(i)

-----------------------------------------------------------------------------
(* Approvals and the user                                                  *)

\* A vote decides the request (ApprovalService.vote).
Vote(g) ==
    /\ run = "approval" /\ req[g] = "pending" /\ after[g] = ""
    /\ \/ /\ req' = [req EXCEPT ![g] = "approved"]
          /\ after' = [after EXCEPT ![g] = "running"]
          /\ passed' = passed \cup {g}
       \/ /\ req' = [req EXCEPT ![g] = "rejected"]
          /\ after' = [after EXCEPT ![g] = "failed"]
          /\ UNCHANGED passed
    /\ UNCHANGED <<run, row, timer, tasks, faults>>

\* The timeout task decides a request that is still pending (HandleTimeout).
TimeOut(g) ==
    /\ g \in timer /\ after[g] = ""
    /\ timer' = timer \ {g}
    /\ IF req[g] # "pending" THEN UNCHANGED <<req, after, passed>>
       ELSE IF OnTimeout[g] = "approve"
       THEN /\ req' = [req EXCEPT ![g] = "approved"]
            /\ after' = [after EXCEPT ![g] = "running"]
            /\ passed' = passed \cup {g}
       ELSE /\ req' = [req EXCEPT ![g] = "timeout"]
            /\ after' = [after EXCEPT ![g] =
                             IF OnTimeout[g] = "reject" THEN "timeout" ELSE ""]
            /\ UNCHANGED passed
    /\ UNCHANGED <<run, row, tasks, faults>>

\* Mutant: the run goes on, but nobody orchestrates it.
MoveRunOnly(g) ==
    /\ after[g] # ""
    /\ after' = [after EXCEPT ![g] = ""]
    /\ run' = IF Reaches(after[g]) THEN after[g] ELSE run
    /\ UNCHANGED <<row, req, timer, tasks, passed, faults>>

\* After the transaction: the run follows, and an approved one is resumed with
\* a new tick (ResumeOrchestrate).  The process may end before either.
MoveRun(g) ==
    /\ after[g] # ""
    /\ after' = [after EXCEPT ![g] = ""]
    /\ \/ /\ run' = IF Reaches(after[g]) THEN after[g] ELSE run
          /\ IF after[g] = "running" /\ Reaches("running")
             THEN /\ Free # {}
                  /\ tasks' = [tasks EXCEPT ![Slot] = Queued(Tick)]
             ELSE UNCHANGED tasks
          /\ UNCHANGED faults
       \/ /\ Fault
          /\ run' \in {run, IF Reaches(after[g]) THEN after[g] ELSE run}
          /\ UNCHANGED tasks
    /\ UNCHANGED <<row, req, timer, passed>>

\* A user cancels the run; its stages and requests stay as they are.
Cancel ==
    /\ ~IsTerminalStatus(run)
    /\ run' = "canceled"
    /\ UNCHANGED <<row, req, timer, after, tasks, passed, faults>>

Next ==
    \/ \E i \in Slots : TaskStep(i) \/ Crash(i)
    \/ \E g \in Gates : Vote(g) \/ TimeOut(g) \/ MoveRun(g)
    \/ Cancel

Spec == Init /\ [][Next]_vars

\* The workers go on, a timeout comes when it is due, a process that has
\* decided a request goes on.  Nobody has to vote or to cancel.
Fairness ==
    /\ \A i \in Slots : WF_vars(TaskStep(i))
    /\ \A g \in Gates : WF_vars(TimeOut(g)) /\ WF_vars(MoveRun(g))

FairSpec == Spec /\ Fairness

-----------------------------------------------------------------------------
(* Safety                                                                  *)

TaskOf(i) == tasks[i].task

\* Nothing behind a gate is dispatched before the gate was approved, whatever
\* ticks, stale copies, retries and crashes there are: the promise of an
\* approval stage (scheduler.go:117-119).
GateHolds ==
    \A i \in Slots : tasks[i].pc # "none" /\ TaskOf(i) # Tick /\ If[TaskOf(i)] = {} =>
        Needs[TaskOf(i)] \cap Gates \subseteq passed

\* A run is a success only if every stage passed, apart from those that wait
\* for a failure and those that need a stage that did not pass: no stale copy
\* finishes a run whose stages are still on their way.
SuccessJustified ==
    run = "success" =>
        \A s \in Stages : \/ s \in passed
                          \/ "failure" \in If[s]
                          \/ ~(Needs[s] \subseteq passed)

\* Two tasks never execute the same stage: one tick hands it out, once
\* (scheduler.go:115, 305).
OneTaskPerStage ==
    \A i, k \in Slots :
        i # k /\ tasks[i].pc # "none" /\ TaskOf(i) # Tick => TaskOf(k) # TaskOf(i)

\* A stage that has passed is not executed again: the retries of the task that
\* reported it stop at the status of the run.
PassedNotRepeated ==
    [][\A i \in Slots :
           tasks[i].pc = "queued" /\ tasks'[i].pc = "executing" => TaskOf(i) \notin passed]_vars

\* A gate fails by the decision of a user or a timeout (scheduler.go:117-118:
\* it waits for them to complete it), or because the run has ended.
GateFailsByDecision ==
    [][\A g \in Gates :
           row[g] # "failed" /\ row'[g] = "failed"
           => req[g] \in {"rejected", "timeout"} \/ IsTerminalStatus(run)]_vars

-----------------------------------------------------------------------------
(* Liveness                                                                *)

\* The run waits for a user: a gate is undecided that has no timeout, or the
\* timeout of a gate paused it.
WaitsForUser ==
    /\ run = "approval"
    /\ \E g \in Gates : \/ req[g] = "pending" /\ g \notin Timed
                        \/ req[g] = "timeout" /\ OnTimeout[g] = "pause"

\* Without faults, an attempt that outlives its deadline being one, the run ends
\* also if nobody votes, unless it comes to wait for a user at a gate without a
\* timeout or at one that pauses: nothing else holds it up, and a vote takes it
\* on to its end or to the next such gate.
RunEnds == []<>(IsTerminalStatus(run) \/ WaitsForUser)

-----------------------------------------------------------------------------
(* Statements of the documentation that the code does not keep             *)

\* pipeline.go:428-432: the run a user triggers is scheduled by the worker, so
\* it starts (runstate.go:22: pending is left for running).
TriggeredRunStarts == <>(run # "pending")
=============================================================================
