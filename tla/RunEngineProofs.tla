--------------------------- MODULE RunEngineProofs ---------------------------
(***************************************************************************)
(* Proofs about RunEngine.  First for every pipeline, any number of tasks  *)
(* and any number of faults: a task trusts its own copy of the table only  *)
(* for what cannot be taken back (a stage it saw as a success has passed,  *)
(* and what has passed stays passed); all else in a copy may be stale.     *)
(* Then for a sequential pipeline without faults: one task at a time is on *)
(* its way, and its copy is stale only where a gate was marked late.       *)
(***************************************************************************)
EXTENDS RunEngine, SchedulerProofs, TLAPS

Pcs == {"none", "queued", "executing", "exhausted", "load", "list", "sync",
        "dispatch", "enqueue", "mark", "wait", "refuse", "final", "fail"}

Task == [task : Stages \cup {Tick}, pc : Pcs, retried : Nat, ok : BOOLEAN,
         hook : BOOLEAN, copy : [Stages -> DbStatus \cup NodeStatus], todo : SUBSET Stages]

\* No stage of the pipeline waits for a failure.
Plain == \A s \in Stages : "failure" \notin If[s]

\* What p holds when a stage without a condition is handed out.
Behind(s, p) == If[s] = {} => Needs[s] \subseteq p

\* A copy of the table says "success" only of what is in p, and its skips come
\* from a failure.
CopyOK(copy, p) ==
    /\ \A s \in Stages : copy[s] = "success" => s \in p
    /\ \A s \in Stages : copy[s] # "canceled"
    /\ Plain /\ (\E s \in Stages : copy[s] = "skipped") => \E s \in Stages : copy[s] = "failed"

\* What a task knows, whatever other tasks have done since it read the table.
Knows(j, p) ==
    /\ j \in Task
    /\ j.retried <= MaxRetry(j.task)
    /\ CopyOK(j.copy, p)
    /\ j.task # Tick => Behind(j.task, p)

\* What else holds of it, by its place in its program.
Good(j, p) ==
    /\ Knows(j, p)
    /\ \A s \in j.todo : Behind(s, p)
    /\ j.pc \in {"executing", "exhausted"} => j.task # Tick
    /\ j.pc = "sync" => \A s \in Stages : j.copy[s] # "skipped"
    /\ j.pc = "final" => Done(j.copy)

TasksOK ==
    /\ tasks \in [Slots -> Task]
    /\ \A i \in Slots : Good(tasks[i], passed)

TablesOK ==
    /\ run \in RunStatuses
    /\ row \in [Stages -> DbStatus]
    /\ req \in [Gates -> {"none", "pending", "approved", "rejected", "timeout"}]
    /\ timer \subseteq Gates
    /\ after \in [Gates -> {"", "running", "failed", "timeout"}]
    /\ passed \subseteq Stages
    /\ faults \in 0 .. MaxFaults

RowsOK == \A s \in Stages : /\ row[s] = "success" => s \in passed
                            /\ row[s] \notin {"skipped", "canceled"}

ApprovalsOK == \A g \in Gates : req[g] = "approved" => g \in passed

EndOK == Plain /\ run = "success" => Stages \subseteq passed

\* The inductive invariant.
IInv ==
    /\ TasksOK
    /\ TablesOK
    /\ RowsOK
    /\ ApprovalsOK
    /\ EndOK

-----------------------------------------------------------------------------
(* Tasks                                                                   *)

\* What a task knows stays true when more has passed.
LEMMA GoodStays ==
    ASSUME NEW j, NEW p, NEW q, p \subseteq q, Good(j, p)
    PROVE  Good(j, q)
BY DEF Good, Knows, CopyOK, Behind

LEMMA GoodIsTyped ==
    ASSUME NEW j, NEW p, Good(j, p)
    PROVE  TaskOK(j)
<1>1. j.retried \in 0 .. MaxRetry(j.task)
  BY DEF Good, Knows, Task, MaxRetry, TickRetries, StageRetries
<1> QED  BY <1>1 DEF Good, Knows, Task, Pcs, TaskOK

LEMMA QueuedGood ==
    ASSUME NEW t \in Stages \cup {Tick}, NEW p, t # Tick => Behind(t, p)
    PROVE  Good(Queued(t), p)
<1>1. /\ Queued(t) \in Task
      /\ Queued(t).task = t /\ Queued(t).pc = "queued" /\ Queued(t).todo = {}
      /\ Queued(t).retried = 0
      /\ Queued(t).copy = Blank
  BY DEF Queued, Task, Pcs, Blank, DbStatus
<1>2. CopyOK(Blank, p)
  BY DEF CopyOK, Blank
<1>3. 0 <= MaxRetry(t)
  BY DEF MaxRetry, TickRetries, StageRetries
<1> QED  BY <1>1, <1>2, <1>3 DEF Good, Knows

\* A task in another place of its program, with another count, knows as much.
LEMMA MovedGood ==
    ASSUME NEW j, NEW p, Good(j, p), NEW k, k \in Task,
           k.task = j.task, k.copy = j.copy, k.todo \subseteq j.todo,
           k.retried <= MaxRetry(j.task), k.pc \notin {"sync", "final"},
           k.pc \in {"executing", "exhausted"} => k.task # Tick
    PROVE  Good(k, p)
BY DEF Good, Knows

LEMMA NoTaskGood == ASSUME NEW p PROVE Good(NoTask, p)
<1>1. Good(Queued(Tick), p)
  BY QueuedGood
<1>2. /\ NoTask \in Task
      /\ NoTask.task = Queued(Tick).task /\ NoTask.copy = Queued(Tick).copy
      /\ NoTask.todo = Queued(Tick).todo /\ NoTask.retried = Queued(Tick).retried
      /\ NoTask.pc = "none"
  BY <1>1 DEF NoTask, Good, Knows, Task, Pcs
<1> QED  BY <1>1, <1>2, MovedGood DEF Good, Knows

LEMMA RetriedGood ==
    ASSUME NEW j, NEW p, Knows(j, p)
    PROVE  Good(Retried(j), p)
<1>1. CASE j.retried < MaxRetry(j.task)
  <2>1. /\ j.task \in Stages \cup {Tick}
        /\ j.retried \in Nat
        /\ j.task # Tick => Behind(j.task, p)
    BY DEF Good, Knows, Task
  <2>2. Good(Queued(j.task), p)
    BY <2>1, QueuedGood
  <2> DEFINE q == Queued(j.task)
             k == [q EXCEPT !.retried = j.retried + 1]
  <2>3. q \in Task /\ q.pc = "queued" /\ q.task = j.task
    BY <2>2 DEF Good, Knows, Queued
  <2>4. k \in Task /\ k.task = q.task /\ k.copy = q.copy /\ k.todo = q.todo
        /\ k.retried = j.retried + 1 /\ k.pc = "queued"
    BY <2>1, <2>3 DEF Task
  <2>5. j.retried + 1 <= MaxRetry(q.task)
    BY <1>1, <2>1, <2>3 DEF MaxRetry, TickRetries, StageRetries
  <2>6. Good(k, p)
    BY <2>2, <2>4, <2>5, MovedGood
  <2> QED  BY <1>1, <2>6 DEF Retried
<1>2. CASE ~(j.retried < MaxRetry(j.task))
  BY <1>2, NoTaskGood DEF Retried
<1> QED  BY <1>1, <1>2

LEMMA FailedGood ==
    ASSUME NEW j, NEW p, Knows(j, p)
    PROVE  Good(Failed(j), p)
<1> DEFINE q == Queued(j.task)
           tick  == [q EXCEPT !.retried = j.retried, !.hook = TRUE, !.pc = "fail"]
           stage == [q EXCEPT !.retried = j.retried, !.hook = TRUE, !.ok = FALSE,
                              !.pc = "exhausted"]
<1>1. j.task \in Stages \cup {Tick} /\ j.retried \in Nat
  BY DEF Good, Knows, Task
<1>2. Good(q, p) /\ q.task = j.task
  BY <1>1, QueuedGood DEF Good, Knows, Queued
<1>3. q \in Task
  BY <1>2 DEF Good, Knows
<1>4. j.retried <= MaxRetry(q.task)
  BY <1>2 DEF Good, Knows
<1>5. j.task = Tick => Good(tick, p)
  <2>1. tick \in Task /\ tick.task = q.task /\ tick.copy = q.copy /\ tick.todo = q.todo
        /\ tick.retried = j.retried /\ tick.pc = "fail"
    BY <1>1, <1>3 DEF Task, Pcs
  <2> QED  BY <1>2, <1>4, <2>1, MovedGood
<1>6. j.task # Tick => Good(stage, p)
  <2>1. stage \in Task /\ stage.task = q.task /\ stage.copy = q.copy /\ stage.todo = q.todo
        /\ stage.retried = j.retried /\ stage.pc = "exhausted"
    BY <1>1, <1>3 DEF Task, Pcs
  <2> QED  BY <1>2, <1>4, <2>1, MovedGood
<1> HIDE DEF tick, stage
<1>7. \/ Failed(j) = Retried(j)
      \/ j.task = Tick /\ Failed(j) = tick
      \/ j.task # Tick /\ Failed(j) = stage
  BY DEF Failed, tick, stage
<1> QED  BY <1>5, <1>6, <1>7, RetriedGood

LEMMA AdvancedGood ==
    ASSUME NEW j, NEW p, Knows(j, p)
    PROVE  Good(Advanced(j), p)
BY NoTaskGood, FailedGood DEF Advanced

\* A task that goes on with what is left to dispatch, from a good copy.
LEMMA DispatchingGood ==
    ASSUME NEW j, NEW p, Knows(j, p), NEW todo \in SUBSET Stages,
           \A s \in todo : Behind(s, p)
    PROVE  Good(Dispatching(j, todo), p)
<1> DEFINE go  == [j EXCEPT !.pc = "dispatch", !.todo = todo]
           end == [j EXCEPT !.pc = "final", !.todo = todo]
<1>1. j \in Task
  BY DEF Good, Knows
<1>2. go \in Task /\ go.task = j.task /\ go.copy = j.copy /\ go.todo = todo
      /\ go.retried = j.retried /\ go.pc = "dispatch"
  BY <1>1 DEF Task, Pcs
<1>3. end \in Task /\ end.task = j.task /\ end.copy = j.copy /\ end.todo = todo
      /\ end.retried = j.retried /\ end.pc = "final"
  BY <1>1 DEF Task, Pcs
<1>4. Good(go, p)
  BY <1>2 DEF Good, Knows
<1>5. Done(j.copy) => Good(end, p)
  BY <1>3 DEF Good, Knows
<1> HIDE DEF go, end
<1>6. CASE todo # {}
  BY <1>4, <1>6 DEF Dispatching, go
<1>7. CASE todo = {} /\ Done(j.copy)
  BY <1>5, <1>7 DEF Dispatching, end
<1>8. CASE todo = {} /\ ~Done(j.copy)
  BY <1>8, AdvancedGood DEF Dispatching
<1> QED  BY <1>6, <1>7, <1>8

-----------------------------------------------------------------------------
(* The pass on a copy                                                      *)

\* What Sync makes of a copy knows no more than the tables did, and picks a
\* stage without a condition only when all it needs has passed.
LEMMA PassGood ==
    ASSUME NEW copy \in [Stages -> DbStatus \cup NodeStatus], NEW p, CopyOK(copy, p),
           \A s \in Stages : copy[s] # "skipped",
           \A g \in Gates : req[g] = "approved" => g \in p,
           NEW old, old = [s \in Stages |-> Restored(Synced(copy)[s])],
           NEW dispatched0, NEW new \in PassResults(old), IsPass(old, dispatched0, new)
    PROVE  /\ new \in [Stages -> DbStatus \cup NodeStatus]
           /\ CopyOK(new, p)
           /\ \A s \in Picked(old, new) : Behind(s, p)
<1>1. \A s \in Stages : /\ old[s] \in NodeStatus
                        /\ old[s] \notin {"skipped", "canceled"}
                        /\ old[s] = "success" => s \in p
  <2> SUFFICES ASSUME NEW s \in Stages
               PROVE  /\ old[s] \in NodeStatus
                      /\ old[s] \notin {"skipped", "canceled"}
                      /\ old[s] = "success" => s \in p
    OBVIOUS
  <2>1. Synced(copy)[s] = IF s \in Gates /\ copy[s] = "approval" THEN DecidedAs(req[s]) ELSE copy[s]
    BY DEF Synced
  <2>2. CASE s \in Gates /\ copy[s] = "approval"
    <3>1. /\ DecidedAs(req[s]) \in {"success", "failed", "approval"}
          /\ DecidedAs(req[s]) = "success" => req[s] = "approved"
      BY DEF DecidedAs
    <3> QED  BY <2>1, <2>2, <3>1 DEF Restored, Terminal, NodeStatus, Active
  <2>3. CASE ~(s \in Gates /\ copy[s] = "approval")
    BY <2>1, <2>3 DEF CopyOK, Restored, Terminal, NodeStatus, Active
  <2> QED  BY <2>2, <2>3
<1>2. old \in [Stages -> NodeStatus]
  BY <1>1
<1>3. /\ new \in [Stages -> NodeStatus]
      /\ \A s \in Stages : new[s] \in {"success", "canceled"} => old[s] = new[s]
  BY <1>2, PassKeeps DEF Active
<1>4. CopyOK(new, p)
  BY <1>1, <1>2, <1>3, SkipsAfterFailure DEF CopyOK, Plain
<1>5. \A s \in Picked(old, new) : Behind(s, p)
  BY <1>1, <1>2, PickedAfterSuccess DEF Behind
<1> QED  BY <1>3, <1>4, <1>5

-----------------------------------------------------------------------------
(* Steps on the queue and on the tables                                    *)

LEMMA TypesKept == IInv => TypeOK
BY GoodIsTyped DEF IInv, TasksOK, TablesOK, TypeOK

\* A step that leaves the queue alone, whatever passes by it.
LEMMA QueueStays ==
    ASSUME TasksOK, UNCHANGED tasks, passed \subseteq passed'
    PROVE  TasksOK'
<1>1. \A i \in Slots : Good(tasks'[i], passed')
  BY GoodStays DEF TasksOK
<1> QED  BY <1>1 DEF TasksOK

\* A step of one task.
LEMMA OwnStep ==
    ASSUME TasksOK, passed \subseteq passed',
           NEW i \in Slots, NEW j, Good(j, passed'), Step(i, j)
    PROVE  TasksOK'
<1>1. j \in Task /\ tasks' = [tasks EXCEPT ![i] = j]
  BY DEF Good, Knows, Step
<1>2. tasks' \in [Slots -> Task]
  BY <1>1 DEF TasksOK
<1>3. ASSUME NEW k \in Slots PROVE Good(tasks'[k], passed')
  <2>1. tasks'[k] = IF k = i THEN j ELSE tasks[k]
    BY <1>1 DEF TasksOK
  <2> QED  BY <2>1, GoodStays DEF TasksOK
<1> QED  BY <1>2, <1>3 DEF TasksOK

\* A task that is enqueued, whichever slot it takes.
LEMMA NewTask ==
    ASSUME NEW q \in [Slots -> Task], NEW p, \A k \in Slots : Good(q[k], p),
           NEW t \in Stages \cup {Tick}, t # Tick => Behind(t, p), NEW slot
    PROVE  /\ [q EXCEPT ![slot] = Queued(t)] \in [Slots -> Task]
           /\ \A k \in Slots : Good([q EXCEPT ![slot] = Queued(t)][k], p)
<1>1. Good(Queued(t), p)
  BY QueuedGood
<1>2. Queued(t) \in Task
  BY <1>1 DEF Good, Knows
<1>3. [q EXCEPT ![slot] = Queued(t)] \in [Slots -> Task]
  BY <1>2
<1>4. ASSUME NEW k \in Slots PROVE Good([q EXCEPT ![slot] = Queued(t)][k], p)
  <2>1. [q EXCEPT ![slot] = Queued(t)][k] = IF k = slot THEN Queued(t) ELSE q[k]
    OBVIOUS
  <2> QED  BY <1>1, <2>1
<1> QED  BY <1>3, <1>4

\* A task goes on in its program, and nothing else about it changes.
LEMMA NextPlace ==
    ASSUME TasksOK, NEW i \in Slots, NEW pc \in Pcs \ {"sync", "final"},
           pc \in {"executing", "exhausted"} => tasks[i].task # Tick
    PROVE  Good([tasks[i] EXCEPT !.pc = pc], passed)
<1> DEFINE j == tasks[i]
           k == [j EXCEPT !.pc = pc]
<1>1. Good(j, passed) /\ j \in Task
  BY DEF TasksOK, Good, Knows
<1>2. k \in Task /\ k.task = j.task /\ k.copy = j.copy /\ k.todo = j.todo
      /\ k.retried = j.retried /\ k.pc = pc
  BY <1>1 DEF Task
<1>3. k.retried <= MaxRetry(j.task)
  BY <1>1, <1>2 DEF Good, Knows
<1> HIDE DEF j, k
<1>4. Good(k, passed)
  BY <1>1, <1>2, <1>3, MovedGood DEF j
<1> QED  BY <1>4 DEF j, k

\* One more fault, within the bound.
LEMMA FaultTyped ==
    ASSUME faults \in 0 .. MaxFaults, Fault \/ UNCHANGED faults
    PROVE  faults' \in 0 .. MaxFaults
<1>1. MaxFaults \in Nat
  BY RunEngineAssumption
<1> QED  BY <1>1 DEF Fault

\* A row is written, or the write fails.
LEMMA WriteKeeps ==
    ASSUME TablesOK, RowsOK, NEW s, NEW v \in {"running", "approval", "failed", "success"},
           v = "success" => s \in passed', passed \subseteq passed', Write(s, v)
    PROVE  /\ row' \in [Stages -> DbStatus]
           /\ faults' \in 0 .. MaxFaults
           /\ RowsOK'
<1>1. v \in DbStatus
  BY DEF DbStatus, Terminal
<1>2. row' \in {row, [row EXCEPT ![s] = v]}
  BY DEF Write
<1>3. row' \in [Stages -> DbStatus]
  BY <1>1, <1>2 DEF TablesOK
<1>4. ASSUME NEW x \in Stages PROVE row'[x] \in {row[x], v} /\ (row'[x] # row[x] => x = s)
  BY <1>2 DEF TablesOK
<1>5. RowsOK'
  BY <1>4 DEF RowsOK
<1>6. faults' \in 0 .. MaxFaults
  BY FaultTyped DEF Write, TablesOK
<1> QED  BY <1>3, <1>5, <1>6

\* A step that changes neither the tables nor what has passed.
LEMMA TablesStay ==
    ASSUME IInv, UNCHANGED <<run, row, req, timer, after, passed, faults>>
    PROVE  TablesOK' /\ RowsOK' /\ ApprovalsOK' /\ EndOK'
BY DEF IInv, TablesOK, RowsOK, ApprovalsOK, EndOK

-----------------------------------------------------------------------------
(* The actions of a task                                                   *)

LEMMA StartKeeps ==
    ASSUME IInv, NEW i \in Slots, Start(i)
    PROVE  IInv'
<1>1. Good([tasks[i] EXCEPT !.pc = "executing"], passed)
  BY NextPlace DEF IInv, Start, Pcs
<1>2. TasksOK'
  BY <1>1, NoTaskGood, OwnStep DEF IInv, Start
<1> QED  BY <1>2, TablesStay DEF Start, IInv

LEMMA LoadKeeps ==
    ASSUME IInv, NEW i \in Slots, Load(i)
    PROVE  IInv'
<1>1. Good([tasks[i] EXCEPT !.pc = "list"], passed)
  BY NextPlace DEF IInv, Pcs
<1>2. Good(Advanced(tasks[i]), passed)
  BY AdvancedGood DEF IInv, TasksOK, Good, Knows
<1>3. TasksOK'
  BY <1>1, <1>2, OwnStep DEF IInv, Load
<1> QED  BY <1>3, TablesStay DEF Load, IInv

LEMMA ListKeeps ==
    ASSUME IInv, NEW i \in Slots, List(i)
    PROVE  IInv'
<1> DEFINE j == tasks[i]
           k == [[j EXCEPT !.pc = "sync"] EXCEPT !.copy = row]
<1>1. Good(j, passed) /\ j \in Task
  BY DEF IInv, TasksOK, Good, Knows
<1>2. k \in Task /\ k.task = j.task /\ k.copy = row /\ k.todo = j.todo
      /\ k.retried = j.retried /\ k.pc = "sync"
  BY <1>1 DEF Task, Pcs, IInv, TablesOK
<1>3. CopyOK(row, passed) /\ \A s \in Stages : row[s] # "skipped"
  BY DEF CopyOK, IInv, RowsOK
<1>4. Good(k, passed)
  BY <1>1, <1>2, <1>3 DEF Good, Knows
<1>5. Step(i, k)
  BY DEF List, Step
<1>6. TasksOK'
  BY <1>4, <1>5, OwnStep DEF IInv, List
<1> QED  BY <1>6, TablesStay DEF List, IInv

LEMMA CrashKeeps ==
    ASSUME IInv, NEW i \in Slots, Crash(i)
    PROVE  IInv'
<1>1. Good(Retried(tasks[i]), passed) /\ Good(Failed(tasks[i]), passed)
  BY RetriedGood, FailedGood DEF IInv, TasksOK, Good, Knows
<1>2. TasksOK'
  BY <1>1, OwnStep DEF IInv, Crash
<1>3. faults' \in 0 .. MaxFaults
  BY FaultTyped DEF Crash, IInv, TablesOK
<1> QED  BY <1>2, <1>3 DEF Crash, IInv, TablesOK, RowsOK, ApprovalsOK, EndOK

LEMMA ReportKeeps ==
    ASSUME IInv, NEW i \in Slots, Report(i)
    PROVE  IInv'
<1> DEFINE j == tasks[i]
<1>1. PICK ok \in BOOLEAN :
          /\ Write(j.task, IF ok THEN "success" ELSE "failed")
          /\ passed' = IF ok THEN passed \cup {j.task} ELSE passed
          /\ Step(i, [j EXCEPT !.pc = "load", !.ok = ok])
  BY DEF Report, Results
<1>2. UNCHANGED <<run, req, timer, after>>
  BY DEF Report
<1>3. Good(j, passed) /\ j \in Task
  BY DEF IInv, TasksOK, Good, Knows
<1>4. j.task \in Stages
  BY <1>3 DEF Report, Good, Knows, Task
<1>5. passed \subseteq passed' /\ passed' \subseteq Stages
  BY <1>1, <1>4 DEF IInv, TablesOK
<1>6. TasksOK'
  <2> DEFINE k == [[j EXCEPT !.pc = "load"] EXCEPT !.ok = ok]
  <2>1. k \in Task /\ k.task = j.task /\ k.copy = j.copy /\ k.todo = j.todo
        /\ k.retried = j.retried /\ k.pc = "load"
    BY <1>3 DEF Task, Pcs
  <2>2. j.retried <= MaxRetry(j.task)
    BY <1>3 DEF Good, Knows
  <2> HIDE DEF k
  <2>3. Good(k, passed')
    BY <1>3, <1>5, <2>1, <2>2, MovedGood, GoodStays
  <2>4. Step(i, k)
    BY <1>1 DEF k
  <2> QED  BY <1>5, <2>3, <2>4, OwnStep DEF IInv
<1>7. row' \in [Stages -> DbStatus] /\ faults' \in 0 .. MaxFaults /\ RowsOK'
  BY <1>1, <1>5, WriteKeeps DEF IInv
<1> QED  BY <1>2, <1>5, <1>6, <1>7 DEF IInv, TablesOK, ApprovalsOK, EndOK

LEMMA SyncKeeps ==
    ASSUME IInv, NEW i \in Slots, Sync(i)
    PROVE  IInv'
<1> DEFINE j    == tasks[i]
           rows == Synced(j.copy)
           old  == [s \in Stages |-> Restored(rows[s])]
<1>1. PICK new \in PassResults(old) :
          /\ IsPass(old, RestoredDispatched(rows), new)
          /\ Step(i, Dispatching([j EXCEPT !.copy = new], Picked(old, new)))
  BY DEF Sync
<1>2. /\ j.pc = "sync"
      /\ row' = [s \in Stages |-> IF rows[s] # j.copy[s] THEN rows[s] ELSE row[s]]
      /\ UNCHANGED <<run, req, timer, after, passed, faults>>
  BY DEF Sync
<1>3. Good(j, passed) /\ j \in Task
  BY DEF IInv, TasksOK, Good, Knows
<1>4. CopyOK(j.copy, passed) /\ \A s \in Stages : j.copy[s] # "skipped"
  BY <1>2, <1>3 DEF Good, Knows
<1>5. j.copy \in [Stages -> DbStatus \cup NodeStatus]
  BY <1>3 DEF Task
<1>6. /\ new \in [Stages -> DbStatus \cup NodeStatus]
      /\ CopyOK(new, passed)
      /\ \A s \in Picked(old, new) : Behind(s, passed)
  BY <1>1, <1>4, <1>5, PassGood DEF IInv, ApprovalsOK
<1>7. TasksOK'
  <2> DEFINE k == [j EXCEPT !.copy = new]
  <2>1. k \in Task /\ k.task = j.task /\ k.copy = new /\ k.todo = j.todo
        /\ k.retried = j.retried /\ k.pc = "sync"
    BY <1>2, <1>3, <1>6 DEF Task
  <2>2. Picked(old, new) \in SUBSET Stages
    BY DEF Picked
  <2>4. k.retried <= MaxRetry(k.task) /\ (k.task # Tick => Behind(k.task, passed))
    BY <1>3, <2>1 DEF Good, Knows
  <2> HIDE DEF k, old
  <2>3. Good(Dispatching(k, Picked(old, new)), passed)
    BY <1>6, <2>1, <2>2, <2>4, DispatchingGood DEF Knows
  <2> QED  BY <1>1, <1>2, <2>3, OwnStep DEF k, IInv
<1>8. ASSUME NEW s \in Stages
      PROVE  row'[s] = row[s] \/ (s \in Gates /\ row'[s] = DecidedAs(req[s]))
  BY <1>2, <1>8 DEF Synced
<1>9. \A s \in Gates : /\ DecidedAs(req[s]) \in {"success", "failed", "approval"}
                       /\ DecidedAs(req[s]) = "success" => s \in passed
  BY DEF DecidedAs, IInv, ApprovalsOK
<1>10. RowsOK'
  BY <1>2, <1>8, <1>9 DEF RowsOK, IInv
<1>11. row' \in [Stages -> DbStatus]
  <2>1. \A s \in Stages : row'[s] \in DbStatus
    BY <1>8, <1>9 DEF DbStatus, Terminal, IInv, TablesOK
  <2> QED  BY <1>2, <2>1
<1> QED  BY <1>2, <1>7, <1>10, <1>11 DEF IInv, TablesOK, ApprovalsOK, EndOK

LEMMA MarkStageRunningKeeps ==
    ASSUME IInv, NEW i \in Slots, MarkStageRunning(i)
    PROVE  IInv'
<1>1. PICK s \in Stages \ Gates : Write(s, "running")
  BY DEF MarkStageRunning
<1>2. Good([tasks[i] EXCEPT !.pc = "enqueue"], passed)
  BY NextPlace DEF IInv, Pcs
<1>3. TasksOK'
  BY <1>2, OwnStep DEF IInv, MarkStageRunning
<1>4. row' \in [Stages -> DbStatus] /\ faults' \in 0 .. MaxFaults /\ RowsOK'
  BY <1>1, WriteKeeps DEF IInv, MarkStageRunning
<1> QED  BY <1>3, <1>4 DEF MarkStageRunning, IInv, TablesOK, ApprovalsOK, EndOK

\* What a task does once the stage s of todo is dispatched, or has failed.
LEMMA PoppedGood ==
    ASSUME TasksOK, NEW i \in Slots, NEW s \in Stages
    PROVE  Good(Popped(i, s), passed) /\ Good(PoppedFailed(i, s), passed)
<1> DEFINE j == tasks[i]
           k == [j EXCEPT !.copy[s] = "failed"]
           left == j.todo \ {s}
<1>1. Good(j, passed) /\ Knows(j, passed) /\ j \in Task
  BY DEF TasksOK, Good, Knows
<1>2. left \in SUBSET Stages /\ \A x \in left : Behind(x, passed)
  BY <1>1 DEF Good, Task
<1>3. Good(Popped(i, s), passed)
  BY <1>1, <1>2, DispatchingGood DEF Popped
<1>4. /\ k \in Task /\ k.task = j.task /\ k.retried = j.retried
      /\ k.copy = [j.copy EXCEPT ![s] = "failed"]
  BY <1>1 DEF Task, NodeStatus, Terminal
<1>5. k.copy[s] = "failed" /\ \A x \in Stages : k.copy[x] \in {j.copy[x], "failed"}
  BY <1>1, <1>4 DEF Task
<1>6. CopyOK(k.copy, passed)
  BY <1>1, <1>5 DEF Knows, CopyOK
<1>7. Knows(k, passed)
  BY <1>1, <1>4, <1>6 DEF Knows
<1> HIDE DEF k
<1>8. Good(Dispatching(k, left), passed)
  BY <1>2, <1>7, DispatchingGood
<1>9. Good(PoppedFailed(i, s), passed)
  BY <1>8 DEF PoppedFailed, k
<1> QED  BY <1>3, <1>9

LEMMA EnqueueStageKeeps ==
    ASSUME IInv, NEW i \in Slots, EnqueueStage(i)
    PROVE  IInv'
<1>1. UNCHANGED <<run, row, req, timer, after, passed>>
  BY DEF EnqueueStage
<1>2. ASSUME NEW s \in Stages, IsFirst(i, s),
             tasks' = [tasks EXCEPT ![i] = Popped(i, s), ![Slot] = Queued(s)]
      PROVE  TasksOK'
  <2> DEFINE q == [tasks EXCEPT ![i] = Popped(i, s)]
  <2>1. Good(Popped(i, s), passed) /\ Popped(i, s) \in Task
    BY PoppedGood DEF IInv, Good, Knows
  <2>2. Behind(s, passed)
    BY <1>2 DEF IInv, TasksOK, Good, IsFirst
  <2>3. q \in [Slots -> Task]
    BY <2>1 DEF IInv, TasksOK
  <2>4. \A k \in Slots : q[k] = IF k = i THEN Popped(i, s) ELSE tasks[k]
    BY DEF IInv, TasksOK
  <2>5. \A k \in Slots : Good(q[k], passed)
    BY <2>1, <2>4 DEF IInv, TasksOK
  <2>6. tasks' = [q EXCEPT ![Slot] = Queued(s)]
    BY <1>2
  <2> HIDE DEF q
  <2> QED  BY <1>1, <2>2, <2>3, <2>5, <2>6, NewTask DEF TasksOK
<1>3. ASSUME Step(i, Failed(tasks[i])) PROVE TasksOK'
  <2>1. Good(Failed(tasks[i]), passed)
    BY FailedGood DEF IInv, TasksOK, Good
  <2> QED  BY <1>1, <1>3, <2>1, OwnStep DEF IInv
<1>4. TasksOK'
  BY <1>2, <1>3 DEF EnqueueStage
<1>5. faults' \in 0 .. MaxFaults
  BY FaultTyped DEF EnqueueStage, IInv, TablesOK
<1> QED  BY <1>1, <1>4, <1>5 DEF IInv, TablesOK, RowsOK, ApprovalsOK, EndOK

LEMMA InsertRequestKeeps ==
    ASSUME IInv, NEW i \in Slots, InsertRequest(i)
    PROVE  IInv'
<1>1. UNCHANGED <<run, row, after, passed, faults>>
  BY DEF InsertRequest
<1>2. /\ Good([tasks[i] EXCEPT !.pc = "refuse"], passed)
      /\ Good([tasks[i] EXCEPT !.pc = "mark"], passed)
  BY NextPlace DEF IInv, Pcs
<1>3. PICK g \in Gates :
          /\ req' \in {req, [req EXCEPT ![g] = "pending"]}
          /\ timer' \subseteq timer
          /\ \/ Step(i, [tasks[i] EXCEPT !.pc = "refuse"])
             \/ Step(i, [tasks[i] EXCEPT !.pc = "mark"])
  BY DEF InsertRequest
<1>4. TasksOK'
  BY <1>1, <1>2, <1>3, OwnStep DEF IInv
<1>5. \A h \in Gates : req'[h] \in {req[h], "pending"}
  BY <1>3 DEF IInv, TablesOK
<1>6. req' \in [Gates -> {"none", "pending", "approved", "rejected", "timeout"}]
  BY <1>3 DEF IInv, TablesOK
<1> QED  BY <1>1, <1>3, <1>4, <1>5, <1>6 DEF IInv, TablesOK, RowsOK, ApprovalsOK, EndOK

LEMMA MarkApprovalKeeps ==
    ASSUME IInv, NEW i \in Slots, MarkApproval(i)
    PROVE  IInv'
<1>1. UNCHANGED <<row, req, after, passed>>
  BY DEF MarkApproval
<1>2. /\ Good([tasks[i] EXCEPT !.pc = "refuse"], passed)
      /\ Good([tasks[i] EXCEPT !.pc = "wait"], passed)
  BY NextPlace DEF IInv, Pcs
<1>3. TasksOK'
  BY <1>1, <1>2, OwnStep DEF IInv, MarkApproval
<1>4. timer' \subseteq Gates /\ run' \in {run, "approval"}
  BY DEF MarkApproval, IInv, TablesOK
<1>5. faults' \in 0 .. MaxFaults
  BY FaultTyped DEF MarkApproval, IInv, TablesOK
<1> QED  BY <1>1, <1>3, <1>4, <1>5 DEF IInv, TablesOK, RunStatuses, RowsOK, ApprovalsOK, EndOK

LEMMA WaitRefuseKeep ==
    ASSUME IInv, NEW i \in Slots, Wait(i) \/ Refuse(i)
    PROVE  IInv'
<1>1. UNCHANGED <<run, req, timer, after, passed>>
  BY DEF Wait, Refuse
<1>2. PICK g \in Gates :
          \/ Write(g, "approval") /\ Step(i, Popped(i, g))
          \/ Write(g, "failed") /\ Step(i, PoppedFailed(i, g))
  BY DEF Wait, Refuse
<1>3. g \in Stages
  BY StageGraphAssumption DEF Gates
<1>4. TasksOK'
  BY <1>1, <1>2, <1>3, PoppedGood, OwnStep DEF IInv
<1>5. row' \in [Stages -> DbStatus] /\ faults' \in 0 .. MaxFaults /\ RowsOK'
  BY <1>1, <1>2, WriteKeeps DEF IInv
<1> QED  BY <1>1, <1>4, <1>5 DEF IInv, TablesOK, ApprovalsOK, EndOK

\* A copy in which every stage is final and that makes the run a success shows
\* every stage as a success.
LEMMA SuccessOfCopy ==
    ASSUME NEW copy, NEW p, CopyOK(copy, p), Done(copy), Plain,
           Target(Outcome(copy)) = "success"
    PROVE  Stages \subseteq p
<1>1. \A s \in Stages : copy[s] # "failed"
  <2>1. (\E s \in Stages : copy[s] = "failed") => Outcome(copy) = "failed"
    BY DEF Outcome
  <2> QED  BY <2>1 DEF Target
<1>2. \A s \in Stages : copy[s] = "success"
  BY <1>1 DEF CopyOK, Done, IsTerminal, Terminal
<1> QED  BY <1>2 DEF CopyOK

LEMMA FinalizeKeeps ==
    ASSUME IInv, NEW i \in Slots, Finalize(i)
    PROVE  IInv'
<1> DEFINE t == Target(Outcome(tasks[i].copy))
<1>1. UNCHANGED <<row, req, timer, after, passed, faults>>
  BY DEF Finalize
<1>2. Good(Advanced(tasks[i]), passed) /\ Good(Failed(tasks[i]), passed)
  BY AdvancedGood, FailedGood DEF IInv, TasksOK, Good
<1>3. TasksOK'
  BY <1>1, <1>2, OwnStep DEF IInv, Finalize
<1>4. t \in {"failed", "canceled", "success"} /\ run' \in {run, t}
  BY DEF Finalize, Target
<1>5. t = "success" /\ Plain => Stages \subseteq passed
  BY SuccessOfCopy DEF Finalize, IInv, TasksOK, Good, Knows
<1>6. run' \in RunStatuses
  BY <1>4 DEF IInv, TablesOK, RunStatuses, TerminalStatus
<1>7. EndOK'
  BY <1>1, <1>4, <1>5 DEF IInv, EndOK, Plain
<1> QED  BY <1>1, <1>3, <1>6, <1>7 DEF IInv, TablesOK, RowsOK, ApprovalsOK

LEMMA FailRunKeeps ==
    ASSUME IInv, NEW i \in Slots, FailRun(i)
    PROVE  IInv'
<1>1. UNCHANGED <<row, req, timer, after, passed, faults>> /\ run' \in {run, "failed"}
  BY DEF FailRun
<1>2. Good(Retried(tasks[i]), passed)
  BY RetriedGood DEF IInv, TasksOK, Good
<1>3. TasksOK'
  BY <1>1, <1>2, OwnStep DEF IInv, FailRun
<1> QED  BY <1>1, <1>3 DEF IInv, TablesOK, RunStatuses, TerminalStatus, RowsOK, ApprovalsOK, EndOK

-----------------------------------------------------------------------------
(* Approvals and the user                                                  *)

LEMMA VoteKeeps ==
    ASSUME IInv, NEW g \in Gates, Vote(g)
    PROVE  IInv'
<1>1. UNCHANGED <<run, row, timer, tasks, faults>>
  BY DEF Vote
<1>2. passed \subseteq passed' /\ passed' \subseteq Stages
  <2>1. passed' \in {passed, passed \cup {g}}
    BY DEF Vote
  <2>2. g \in Stages /\ passed \subseteq Stages
    BY StageGraphAssumption DEF Gates, IInv, TablesOK
  <2> QED  BY <2>1, <2>2
<1>3. TasksOK'
  BY <1>1, <1>2, QueueStays DEF IInv
<1>4. /\ req' \in [Gates -> {"none", "pending", "approved", "rejected", "timeout"}]
      /\ after' \in [Gates -> {"", "running", "failed", "timeout"}]
  BY DEF Vote, IInv, TablesOK
<1>5. ApprovalsOK'
  BY DEF Vote, IInv, TablesOK, ApprovalsOK
<1> QED  BY <1>1, <1>2, <1>3, <1>4, <1>5 DEF IInv, TablesOK, RowsOK, EndOK

LEMMA TimeOutKeeps ==
    ASSUME IInv, NEW g \in Gates, TimeOut(g)
    PROVE  IInv'
<1>1. UNCHANGED <<run, row, tasks, faults>> /\ timer' \subseteq timer
  BY DEF TimeOut
<1>2. passed \subseteq passed' /\ passed' \subseteq Stages
  <2>1. passed' \in {passed, passed \cup {g}}
    BY DEF TimeOut
  <2>2. g \in Stages /\ passed \subseteq Stages
    BY StageGraphAssumption DEF Gates, IInv, TablesOK
  <2> QED  BY <2>1, <2>2
<1>3. TasksOK'
  BY <1>1, <1>2, QueueStays DEF IInv
<1>4. /\ req' \in [Gates -> {"none", "pending", "approved", "rejected", "timeout"}]
      /\ after' \in [Gates -> {"", "running", "failed", "timeout"}]
  BY DEF TimeOut, IInv, TablesOK
<1>5. ApprovalsOK'
  BY DEF TimeOut, IInv, TablesOK, ApprovalsOK
<1> QED  BY <1>1, <1>2, <1>3, <1>4, <1>5 DEF IInv, TablesOK, RowsOK, EndOK

LEMMA MoveRunKeeps ==
    ASSUME IInv, NEW g \in Gates, MoveRun(g)
    PROVE  IInv'
<1>1. UNCHANGED <<row, req, timer, passed>> /\ run' \in {run, after[g]}
  BY DEF MoveRun
<1>2. after' \in [Gates -> {"", "running", "failed", "timeout"}]
  BY DEF MoveRun, IInv, TablesOK
<1>3. after[g] \in {"running", "failed", "timeout"}
  BY DEF MoveRun, IInv, TablesOK
<1>4. TasksOK'
  <2>1. CASE UNCHANGED tasks
    BY <1>1, <2>1, QueueStays DEF IInv
  <2>2. CASE tasks' = [tasks EXCEPT ![Slot] = Queued(Tick)]
    BY <1>1, <2>2, NewTask DEF IInv, TasksOK
  <2> QED  BY <2>1, <2>2 DEF MoveRun
<1>5. faults' \in 0 .. MaxFaults
  BY FaultTyped DEF MoveRun, IInv, TablesOK
<1>6. run' \in RunStatuses /\ (run' = "success" => run = "success")
  BY <1>1, <1>3 DEF IInv, TablesOK, RunStatuses, TerminalStatus
<1> QED  BY <1>1, <1>2, <1>4, <1>5, <1>6 DEF IInv, TablesOK, RowsOK, ApprovalsOK, EndOK

LEMMA CancelKeeps ==
    ASSUME IInv, Cancel
    PROVE  IInv'
BY QueueStays DEF Cancel, IInv, TablesOK, RunStatuses, TerminalStatus, RowsOK, ApprovalsOK, EndOK

-----------------------------------------------------------------------------
(* The theorems                                                            *)

LEMMA Initially == Init => IInv
<1> SUFFICES ASSUME Init PROVE IInv
  OBVIOUS
<1>1. Good(Queued(Tick), passed) /\ Good(NoTask, passed)
  BY QueuedGood, NoTaskGood
<1>2. Queued(Tick) \in Task /\ NoTask \in Task
  BY <1>1 DEF Good, Knows
<1>3. TasksOK
  BY <1>1, <1>2 DEF Init, TasksOK
<1>4. MaxFaults \in Nat /\ InitialRuns \subseteq {"pending", "running"}
  BY RunEngineAssumption
<1>5. TablesOK
  <2>1. run \in RunStatuses
    BY <1>4 DEF Init, RunStatuses
  <2>2. row \in [Stages -> DbStatus]
    BY DEF Init, DbStatus
  <2>3. /\ req \in [Gates -> {"none", "pending", "approved", "rejected", "timeout"}]
        /\ after \in [Gates -> {"", "running", "failed", "timeout"}]
    BY DEF Init
  <2>4. timer \subseteq Gates /\ passed \subseteq Stages
    BY DEF Init
  <2>5. faults \in 0 .. MaxFaults
    <3>1. faults = 0
      BY DEF Init
    <3> QED  BY <1>4, <3>1
  <2> QED  BY <2>1, <2>2, <2>3, <2>4, <2>5 DEF TablesOK
<1>6. RowsOK /\ ApprovalsOK /\ EndOK
  BY <1>4 DEF Init, RowsOK, ApprovalsOK, EndOK
<1> QED  BY <1>3, <1>5, <1>6 DEF IInv

LEMMA StepKeeps == IInv /\ [Next]_vars => IInv'
<1> SUFFICES ASSUME IInv, [Next]_vars PROVE IInv'
  OBVIOUS
<1>1. ASSUME NEW i \in Slots, TaskStep(i) PROVE IInv'
  BY <1>1, StartKeeps, ReportKeeps, LoadKeeps, ListKeeps, SyncKeeps, MarkStageRunningKeeps,
     EnqueueStageKeeps, InsertRequestKeeps, MarkApprovalKeeps, WaitRefuseKeep,
     FinalizeKeeps, FailRunKeeps
     DEF TaskStep
<1>2. ASSUME NEW i \in Slots, Crash(i) PROVE IInv'
  BY <1>2, CrashKeeps
<1>3. ASSUME NEW g \in Gates, Vote(g) \/ TimeOut(g) \/ MoveRun(g) PROVE IInv'
  BY <1>3, VoteKeeps, TimeOutKeeps, MoveRunKeeps
<1>4. CASE Cancel
  BY <1>4, CancelKeeps
<1>5. CASE UNCHANGED vars
  <2>1. TasksOK'
    BY <1>5, QueueStays DEF vars, IInv
  <2> QED  BY <1>5, <2>1, TablesStay DEF vars, IInv
<1> QED  BY <1>1, <1>2, <1>3, <1>4, <1>5 DEF Next

\* For every pipeline, any number of tasks on stale copies and any number of
\* crashed attempts, failed writes and failed enqueues: nothing behind a gate is
\* dispatched before the gate was approved (scheduler.go:117-119).
THEOREM GateKept == Spec => [](TypeOK /\ GateHolds)
<1>1. IInv => TypeOK /\ GateHolds
  <2> SUFFICES ASSUME IInv PROVE GateHolds
    BY TypesKept
  <2> SUFFICES ASSUME NEW i \in Slots, TaskOf(i) # Tick, If[TaskOf(i)] = {}
               PROVE  Needs[TaskOf(i)] \cap Gates \subseteq passed
    BY DEF GateHolds
  <2>1. Behind(TaskOf(i), passed)
    BY DEF IInv, TasksOK, Good, Knows, TaskOf
  <2> QED  BY <2>1 DEF Behind
<1> QED  BY <1>1, Initially, StepKeeps, PTL DEF Spec

\* In a pipeline without a stage that waits for a failure, a run that is a
\* success has passed every stage, whatever stale copies and faults there were:
\* finalizeRun never ends a run as a success with a stage on its way.
THEOREM SuccessEarned ==
    ASSUME \A s \in Stages : "failure" \notin If[s]
    PROVE  Spec => []SuccessJustified
<1>1. Plain
  BY DEF Plain
<1>2. IInv => SuccessJustified
  BY <1>1 DEF IInv, EndOK, SuccessJustified
<1> QED  BY <1>2, Initially, StepKeeps, PTL DEF Spec

-----------------------------------------------------------------------------
(* Sequential pipelines: no stage is handed out twice                      *)

\* No stage has a condition, and a stage that is listed after others needs the
\* last of these, or what comes behind it: the stages run one at a time.
Sequential ==
    \A s \in Stages :
        /\ If[s] = {}
        /\ \A u \in Stages : Before(u, s) => \E n \in Needs[s] : n = u \/ Before(u, n)

\* A task that exists, and is not one that only has to mark its gate.
Live(j) == j.pc \notin {"none", "wait"}

\* The stages, without the gates, whose steps have succeeded.
Built == passed \ Gates

\* The gates whose row some task has still to mark: that may happen much later.
Waiting == {g \in Stages : \E i \in Slots : tasks[i].pc = "wait" /\ g \in tasks[i].todo}

\* In the rows r everything before s has begun, and nothing after s has begun or
\* is still going to be marked.
Reached(s, r) == \A u \in Stages : Before(u, s) => r[u] # "pending"
Ends(s, r, w) == \A u \in Stages : Before(s, u) => r[u] = "pending" /\ u \notin w
Begun(r)      == \A s \in Stages : r[s] # "pending" => Reached(s, r)

\* A task that hands out a stage hands out the next one, and goes on with nothing.
HandsOut(j, r, p, w) ==
    \E s \in Stages :
        /\ j.todo = {s} /\ j.ok /\ ~IsTerminal(j.copy[s])
        /\ Reached(s, r) /\ Ends(s, r, w) /\ s \notin p
        /\ s \notin Gates => j.pc \in {"dispatch", "enqueue"}
        /\ j.pc = "enqueue" => s \notin Gates /\ r[s] # "pending"

Waits(j, r) ==
    \E g \in Gates : j.todo = {g} /\ j.ok /\ ~IsTerminal(j.copy[g]) /\ Reached(g, r)

\* A task that has read the rows: they have changed since only where a gate was
\* marked late, and that is not behind what the task will hand out.
Reads(j, r, w) ==
    /\ j.copy \in [Stages -> DbStatus]
    /\ Begun(j.copy)
    /\ \A u \in Stages : j.copy[u] = r[u] \/ (u \in Gates /\ r[u] = "approval")
    /\ \A u \in Stages : r[u] # "pending" \/ u \in w => Reached(u, j.copy)
    /\ ~j.ok => /\ j.copy[j.task] = "failed"
                /\ \A u \in Stages : Before(j.task, u) => j.copy[u] = "pending"

\* The task of a stage that is on its way, or was and now hands out the next one.
Executes(j, r, w) ==
    /\ j.task \notin Gates /\ r[j.task] # "pending"
    /\ j.pc \in {"list", "sync"} => Ends(j.task, r, w)
    /\ j.pc \in {"load", "list"} /\ ~j.ok => r[j.task] = "failed"

InPlace(j, r, p, w) ==
    /\ j.pc \in {"dispatch", "enqueue", "mark", "refuse"} => HandsOut(j, r, p, w)
    /\ j.pc = "wait" => Waits(j, r)
    /\ j.pc = "sync" => Reads(j, r, w)
    /\ j.task # Tick /\ j.pc # "none" => Executes(j, r, w)
    /\ j.task = Tick \/ j.pc = "queued" => j.ok
    /\ j.pc = "none" => j.task = Tick

\* What holds besides, as long as the run has not ended.
InRun(j, r, p, w) ==
    /\ j.pc # "refuse"
    /\ j.task # Tick /\ (j.pc \in {"queued", "executing", "exhausted"} \/ ~j.ok) => j.task \notin p
    /\ j.task # Tick /\ j.pc \in {"queued", "executing", "exhausted", "load", "final"}
       => Ends(j.task, r, w)

OneLive  == \A i, k \in Slots : Live(tasks[i]) /\ Live(tasks[k]) => i = k
AllPlaced == \A i \in Slots : InPlace(tasks[i], row, Built, Waiting)
AllInRun == IsTerminalStatus(run) \/ \A i \in Slots : InRun(tasks[i], row, Built, Waiting)

\* A stage about to be handed out has no task, a gate about to be marked no timer.
FreshStage ==
    \A i, k \in Slots : \A s \in Stages \ Gates :
        tasks[i].pc \in {"dispatch", "enqueue"} /\ s \in tasks[i].todo
        => tasks[k].pc = "none" \/ tasks[k].task # s
FreshTimer == \A i \in Slots : tasks[i].pc = "mark" => tasks[i].todo \cap timer = {}

RowsBegun  == Begun(row)
BuiltBegun == \A s \in Built : row[s] # "pending"

\* A gate that waits, or whose decision has not reached the run yet.
Busy(g) == req[g] = "pending" \/ after[g] # ""

\* While the run is running no gate is busy but the one that is being opened;
\* while it waits for an approval nothing else goes on.
Mode ==
    /\ run # "pending"
    /\ run = "running" => \A g \in Gates :
          /\ after[g] = ""
          /\ req[g] = "pending" => \E i \in Slots : tasks[i].pc = "mark" /\ g \in tasks[i].todo
    /\ run = "approval" =>
          /\ \A i \in Slots : ~Live(tasks[i])
          /\ \A g, h \in Gates : Busy(g) /\ Busy(h) => g = h
          /\ \A g \in Gates : ~(req[g] = "pending" /\ after[g] # "")

Queue == OneLive /\ AllPlaced /\ AllInRun /\ FreshStage /\ FreshTimer
Rows  == RowsBegun /\ BuiltBegun

\* With IInv, the inductive invariant of a sequential pipeline without faults.
Chain == Queue /\ Rows /\ Mode /\ OneTaskPerStage

-----------------------------------------------------------------------------
(* The order of the stages                                                 *)

LEMMA BeforeOrders ==
    /\ \A s, t \in Stages : s # t => Before(s, t) \/ Before(t, s)
    /\ \A s, t, u \in Stages : Before(s, t) /\ Before(t, u) => Before(s, u)
<1>1. \A i, j \in DOMAIN Order : i \in Nat /\ (Order[i] = Order[j] => i = j)
  BY StageGraphAssumption
<1>2. ASSUME NEW s \in Stages, NEW t \in Stages, s # t
      PROVE  Before(s, t) \/ Before(t, s)
  <2>1. PICK i, j \in DOMAIN Order : Order[i] = s /\ Order[j] = t
    BY StageGraphAssumption
  <2>2. i \in Nat /\ j \in Nat /\ i # j
    BY <1>1, <1>2, <2>1
  <2>3. i < j \/ j < i
    BY <2>2
  <2> QED  BY <2>1, <2>3 DEF Before
<1>3. ASSUME NEW s \in Stages, NEW t \in Stages, NEW u \in Stages,
             Before(s, t), Before(t, u)
      PROVE  Before(s, u)
  <2>1. PICK i, j \in DOMAIN Order : i < j /\ Order[i] = s /\ Order[j] = t
    BY <1>3 DEF Before
  <2>2. PICK k, l \in DOMAIN Order : k < l /\ Order[k] = t /\ Order[l] = u
    BY <1>3 DEF Before
  <2>3. j = k /\ i \in Nat /\ j \in Nat /\ l \in Nat
    BY <1>1, <2>1, <2>2
  <2>4. i < l
    BY <2>1, <2>2, <2>3
  <2> QED  BY <2>1, <2>2, <2>4 DEF Before
<1> QED  BY <1>2, <1>3

\* What a pass hands out in a sequential pipeline: everything before it was a
\* success before the pass, or is needed by what was.
LEMMA PickIsNext ==
    ASSUME Sequential, NEW old \in [Stages -> NodeStatus], Begun(old), NEW dispatched0,
           NEW new \in PassResults(old), IsPass(old, dispatched0, new),
           NEW s \in Picked(old, new)
    PROVE  /\ s \in Stages /\ old[s] = "pending" /\ new[s] \in Active
           /\ Reached(s, old)
           /\ \A u \in Stages : Before(u, s) =>
                 \E n \in Stages : (n = u \/ Before(u, n)) /\ old[n] = "success"
<1>1. s \in Stages /\ old[s] = "pending" /\ new[s] \in Active
  BY DEF Picked
<1>2. \A n \in Needs[s] : n \in Stages /\ old[n] = "success"
  BY <1>1, PickedAfterSuccess DEF Sequential
<1>3. ASSUME NEW u \in Stages, Before(u, s)
      PROVE  \E n \in Stages : (n = u \/ Before(u, n)) /\ old[n] = "success"
  BY <1>1, <1>2, <1>3 DEF Sequential
<1>4. ASSUME NEW u \in Stages, Before(u, s) PROVE old[u] # "pending"
  <2>1. PICK n \in Stages : (n = u \/ Before(u, n)) /\ old[n] = "success"
    BY <1>3, <1>4
  <2> QED  BY <2>1 DEF Begun, Reached
<1> QED  BY <1>1, <1>3, <1>4 DEF Reached

LEMMA OnePick ==
    ASSUME Sequential, NEW old \in [Stages -> NodeStatus], Begun(old), NEW dispatched0,
           NEW new \in PassResults(old), IsPass(old, dispatched0, new),
           NEW s \in Picked(old, new)
    PROVE  Picked(old, new) = {s}
<1>1. ASSUME NEW t \in Picked(old, new) PROVE t = s
  <2>1. /\ s \in Stages /\ old[s] = "pending" /\ Reached(s, old)
        /\ t \in Stages /\ old[t] = "pending" /\ Reached(t, old)
    BY PickIsNext
  <2> QED  BY <2>1, BeforeOrders DEF Reached
<1> QED  BY <1>1

\* Behind a stage that failed nothing is handed out.
LEMMA NoPickAfterFailure ==
    ASSUME Sequential, NEW old \in [Stages -> NodeStatus], Begun(old), NEW dispatched0,
           NEW new \in PassResults(old), IsPass(old, dispatched0, new),
           NEW t \in Stages, old[t] = "failed",
           \A u \in Stages : Before(t, u) => old[u] = "pending"
    PROVE  Picked(old, new) = {}
<1> SUFFICES ASSUME NEW s \in Picked(old, new) PROVE FALSE
  OBVIOUS
<1>1. /\ s \in Stages /\ old[s] = "pending" /\ Reached(s, old)
      /\ \A u \in Stages : Before(u, s) =>
            \E n \in Stages : (n = u \/ Before(u, n)) /\ old[n] = "success"
  BY PickIsNext
<1>2. s # t
  BY <1>1
<1>3. ~Before(s, t)
  BY <1>1 DEF Begun, Reached
<1>4. Before(t, s)
  BY <1>1, <1>2, <1>3, BeforeOrders
<1>5. PICK n \in Stages : (n = t \/ Before(t, n)) /\ old[n] = "success"
  BY <1>1, <1>4
<1> QED  BY <1>5

-----------------------------------------------------------------------------
(* Tasks of a sequential pipeline                                          *)

Calm == Sequential /\ MaxFaults = 0 /\ InitialRuns = {"running"}

LEMMA NoFault ==
    ASSUME MaxFaults = 0, TablesOK
    PROVE  ~Fault
<1>1. faults \in 0 .. MaxFaults
  BY DEF TablesOK
<1>2. faults = 0
  BY <1>1
<1> QED  BY <1>2 DEF Fault

LEMMA NoTaskPlaced ==
    ASSUME NEW r, NEW p, NEW w
    PROVE  /\ InPlace(NoTask, r, p, w) /\ InRun(NoTask, r, p, w)
           /\ ~Live(NoTask) /\ NoTask.pc = "none" /\ NoTask.task = Tick
<1>1. NoTask \in Task
  BY NoTaskGood DEF Good, Knows
<1>2. NoTask.pc = "none" /\ NoTask.task = Tick /\ NoTask.ok
  BY <1>1 DEF NoTask, Queued, Task
<1> QED  BY <1>2 DEF InPlace, InRun, Live

\* A task that has just been enqueued, for the first time or again.
LEMMA QueuedPlaced ==
    ASSUME NEW k, k.pc = "queued", k.ok, NEW r, NEW p, NEW w,
           k.task # Tick => k.task \notin Gates /\ r[k.task] # "pending"
    PROVE  /\ InPlace(k, r, p, w)
           /\ (k.task # Tick => k.task \notin p /\ Ends(k.task, r, w)) => InRun(k, r, p, w)
BY DEF InPlace, InRun, Executes

LEMMA RetriedPlaced ==
    ASSUME NEW j \in Task, NEW r, NEW p, NEW w,
           j.task # Tick => j.task \notin Gates /\ r[j.task] # "pending"
    PROVE  /\ InPlace(Retried(j), r, p, w)
           /\ (j.task # Tick => j.task \notin p /\ Ends(j.task, r, w)) => InRun(Retried(j), r, p, w)
           /\ Retried(j).pc \in {"none", "queued"}
           /\ Retried(j).pc # "none" => Retried(j).task = j.task
<1>1. CASE j.retried < MaxRetry(j.task)
  <2> DEFINE q == Queued(j.task)
             k == [q EXCEPT !.retried = j.retried + 1]
  <2>1. k.pc = "queued" /\ k.ok /\ k.task = j.task
    BY DEF Queued
  <2>2. Retried(j) = k
    BY <1>1 DEF Retried
  <2> HIDE DEF k
  <2>3. InPlace(k, r, p, w)
    BY <2>1, QueuedPlaced
  <2>4. (j.task # Tick => j.task \notin p /\ Ends(j.task, r, w)) => InRun(k, r, p, w)
    BY <2>1, QueuedPlaced
  <2> QED  BY <2>1, <2>2, <2>3, <2>4
<1>2. CASE ~(j.retried < MaxRetry(j.task))
  BY <1>2, NoTaskPlaced DEF Retried
<1> QED  BY <1>1, <1>2

LEMMA FailedPlaced ==
    ASSUME NEW j \in Task, NEW r, NEW p, NEW w,
           j.task # Tick => j.task \notin Gates /\ r[j.task] # "pending"
    PROVE  /\ InPlace(Failed(j), r, p, w)
           /\ (j.task # Tick => j.task \notin p /\ Ends(j.task, r, w)) => InRun(Failed(j), r, p, w)
           /\ Failed(j).pc \in {"none", "queued", "fail", "exhausted"}
           /\ Failed(j).pc # "none" => Failed(j).task = j.task
<1> DEFINE q == Queued(j.task)
           tick  == [q EXCEPT !.retried = j.retried, !.hook = TRUE, !.pc = "fail"]
           stage == [q EXCEPT !.retried = j.retried, !.hook = TRUE, !.ok = FALSE,
                              !.pc = "exhausted"]
<1>1. tick.pc = "fail" /\ tick.task = j.task /\ tick.ok
  BY DEF Queued
<1>2. stage.pc = "exhausted" /\ stage.task = j.task
  BY DEF Queued
<1>3. \/ Failed(j) = Retried(j)
      \/ j.task = Tick /\ Failed(j) = tick
      \/ j.task # Tick /\ Failed(j) = stage
  BY DEF Failed
<1> HIDE DEF tick, stage
<1>4. j.task = Tick => InPlace(tick, r, p, w) /\ InRun(tick, r, p, w)
  BY <1>1 DEF InPlace, InRun
<1>5. j.task # Tick => InPlace(stage, r, p, w)
  BY <1>2 DEF InPlace, Executes
<1>6. j.task # Tick /\ j.task \notin p /\ Ends(j.task, r, w) => InRun(stage, r, p, w)
  BY <1>2 DEF InRun
<1>7. CASE Failed(j) = Retried(j)
  BY <1>7, RetriedPlaced
<1>8. CASE j.task = Tick /\ Failed(j) = tick
  BY <1>1, <1>4, <1>8
<1>9. CASE j.task # Tick /\ Failed(j) = stage
  BY <1>2, <1>5, <1>6, <1>9
<1> QED  BY <1>3, <1>7, <1>8, <1>9

LEMMA AdvancedPlaced ==
    ASSUME NEW j \in Task, NEW r, NEW p, NEW w,
           j.task # Tick => j.task \notin Gates /\ r[j.task] # "pending"
    PROVE  /\ InPlace(Advanced(j), r, p, w)
           /\ (j.task # Tick /\ ~j.ok => j.task \notin p /\ Ends(j.task, r, w))
              => (j.task = Tick /\ ~j.ok) \/ InRun(Advanced(j), r, p, w)
           /\ Advanced(j).pc \in {"none", "queued", "fail", "exhausted"}
           /\ Advanced(j).pc # "none" => Advanced(j).task = j.task
<1>1. CASE j.ok
  BY <1>1, NoTaskPlaced DEF Advanced
<1>2. CASE ~j.ok
  BY <1>2, FailedPlaced DEF Advanced
<1> QED  BY <1>1, <1>2

-----------------------------------------------------------------------------
(* The queue of a sequential pipeline across a step                        *)

RowsGoOn == \A s \in Stages : row[s] # "pending" => row'[s] # "pending"

\* A task that waits to mark its gate does not mind what the others do.
LEMMA WaiterStays ==
    ASSUME NEW j, NEW r, NEW p, NEW w, NEW q, NEW o, NEW v, j.pc \in {"none", "wait"},
           j.task \in Stages \cup {Tick},
           InPlace(j, r, p, w), \A s \in Stages : r[s] # "pending" => q[s] # "pending"
    PROVE  InPlace(j, q, o, v) /\ InRun(j, q, o, v)
<1>1. CASE j.pc = "none"
  BY <1>1 DEF InPlace, InRun
<1>2. CASE j.pc = "wait"
  <2>1. Waits(j, q)
    <3>1. PICK g \in Gates : j.todo = {g} /\ j.ok /\ ~IsTerminal(j.copy[g]) /\ Reached(g, r)
      BY <1>2 DEF InPlace, Waits
    <3>2. Reached(g, q)
      BY <3>1 DEF Reached
    <3> QED  BY <3>1, <3>2 DEF Waits
  <2>2. j.ok
    BY <2>1 DEF Waits
  <2>3. j.task # Tick => Executes(j, q, v)
    BY <1>2 DEF InPlace, Executes
  <2> QED  BY <1>2, <2>1, <2>2, <2>3 DEF InPlace, InRun
<1> QED  BY <1>1, <1>2

\* A step of the task that is on its way.
LEMMA LiveStep ==
    ASSUME tasks \in [Slots -> Task], Queue, RowsGoOn,
           NEW i \in Slots, Live(tasks[i]), NEW j \in Task, Step(i, j),
           InPlace(j, row', Built', Waiting'),
           IsTerminalStatus(run') \/ InRun(j, row', Built', Waiting'),
           j.pc \in {"dispatch", "enqueue"} =>
               \A s \in j.todo \ Gates : \A k \in Slots : tasks[k].pc = "none" \/ tasks[k].task # s,
           j.pc # "none" => j.task = tasks[i].task,
           j.pc = "mark" => j.todo \cap timer' = {}
    PROVE  Queue' /\ (OneTaskPerStage => OneTaskPerStage')
<1>1. \A k \in Slots : tasks'[k] = IF k = i THEN j ELSE tasks[k]
  BY DEF Step
<1>2. \A k \in Slots : k # i => tasks[k].pc \in {"none", "wait"}
  BY DEF Queue, OneLive, Live
<1>3. ASSUME NEW k \in Slots, k # i
      PROVE  InPlace(tasks[k], row', Built', Waiting') /\ InRun(tasks[k], row', Built', Waiting')
  <2>1. tasks[k].task \in Stages \cup {Tick}
    BY DEF Task
  <2>2. InPlace(tasks[k], row, Built, Waiting)
    BY DEF Queue, AllPlaced
  <2> QED  BY <1>2, <1>3, <2>1, <2>2, WaiterStays DEF RowsGoOn
<1>4. OneLive'
  BY <1>1, <1>2 DEF OneLive, Live
<1>5. AllPlaced'
  BY <1>1, <1>3 DEF AllPlaced
<1>6. AllInRun'
  BY <1>1, <1>3 DEF AllInRun
<1>7. FreshStage'
  <2> SUFFICES ASSUME NEW h \in Slots, NEW k \in Slots, NEW s \in Stages \ Gates,
                      tasks'[h].pc \in {"dispatch", "enqueue"}, s \in tasks'[h].todo
               PROVE  tasks'[k].pc = "none" \/ tasks'[k].task # s
    BY DEF FreshStage
  <2>1. h = i
    BY <1>1, <1>2
  <2>2. j.pc \in {"dispatch", "enqueue"} /\ s \in j.todo \ Gates
    BY <1>1, <2>1
  <2>3. \A x \in Slots : tasks[x].pc = "none" \/ tasks[x].task # s
    BY <2>2
  <2>4. tasks[i].pc # "none"
    BY DEF Live
  <2> QED  BY <1>1, <2>3, <2>4
<1>8. FreshTimer'
  <2> SUFFICES ASSUME NEW h \in Slots, tasks'[h].pc = "mark"
               PROVE  tasks'[h].todo \cap timer' = {}
    BY DEF FreshTimer
  <2>1. h = i
    BY <1>1, <1>2
  <2> QED  BY <1>1, <2>1
<1>9. OneTaskPerStage => OneTaskPerStage'
  <2>1. tasks[i].pc # "none"
    BY DEF Live
  <2>2. \A k \in Slots :
            tasks'[k].pc # "none" => tasks'[k].task = tasks[k].task /\ tasks[k].pc # "none"
    BY <1>1, <2>1
  <2>3. \A k \in Slots : tasks'[k].task # Tick => tasks'[k].pc # "none"
    BY <1>5 DEF AllPlaced, InPlace
  <2> QED  BY <2>2, <2>3 DEF OneTaskPerStage, TaskOf
<1> QED  BY <1>4, <1>5, <1>6, <1>7, <1>8, <1>9 DEF Queue

\* What the invariants say of a task that is on its way.
LEMMA LiveFacts ==
    ASSUME IInv, Chain, NEW i \in Slots, Live(tasks[i])
    PROVE  /\ tasks[i] \in Task
           /\ InPlace(tasks[i], row, Built, Waiting)
           /\ IsTerminalStatus(run) \/ run = "running"
           /\ IsTerminalStatus(run) \/ InRun(tasks[i], row, Built, Waiting)
           /\ tasks[i].task # Tick => Executes(tasks[i], row, Waiting) /\ tasks[i].task \in Stages
<1>1. tasks[i] \in Task
  BY DEF IInv, TasksOK
<1>2. run # "approval" /\ run # "pending"
  BY DEF Chain, Mode
<1>3. run \in RunStatuses
  BY DEF IInv, TablesOK
<1>4. IsTerminalStatus(run) \/ run = "running"
  BY <1>2, <1>3 DEF IsTerminalStatus, RunStatuses
<1>5. InPlace(tasks[i], row, Built, Waiting)
  BY DEF Chain, Queue, AllPlaced
<1>6. tasks[i].task # Tick => Executes(tasks[i], row, Waiting) /\ tasks[i].task \in Stages
  BY <1>1, <1>5 DEF InPlace, Task, Live
<1>7. IsTerminalStatus(run) \/ InRun(tasks[i], row, Built, Waiting)
  BY DEF Chain, Queue, AllInRun
<1> QED  BY <1>1, <1>4, <1>5, <1>6, <1>7

LEMMA WaitingKept ==
    ASSUME NEW i \in Slots, tasks[i].pc # "wait", NEW j, j.pc # "wait",
           tasks \in [Slots -> Task], Step(i, j)
    PROVE  Waiting' = Waiting
<1>1. \A k \in Slots : tasks'[k] = IF k = i THEN j ELSE tasks[k]
  BY DEF Step
<1>2. \A k \in Slots : tasks'[k].pc = "wait" <=> tasks[k].pc = "wait"
  BY <1>1
<1>3. \A k \in Slots : tasks[k].pc = "wait" => tasks'[k].todo = tasks[k].todo
  BY <1>1
<1> QED  BY <1>2, <1>3 DEF Waiting

\* A step of a task that touches neither the run nor a request.
LEMMA ModeStays ==
    ASSUME IInv, Chain, NEW i \in Slots, Live(tasks[i]),
           tasks[i].pc # "mark" \/ IsTerminalStatus(run'),
           UNCHANGED <<req, after>>, run' = run \/ IsTerminalStatus(run')
    PROVE  Mode'
<1>1. IsTerminalStatus(run) \/ run = "running"
  BY LiveFacts
<1>2. CASE IsTerminalStatus(run')
  BY <1>2 DEF Mode, IsTerminalStatus, TerminalStatus
<1>3. CASE ~IsTerminalStatus(run')
  <2>1. run = "running" /\ run' = "running"
    BY <1>1, <1>3
  <2>2. \A g \in Gates : after[g] = "" /\ req[g] # "pending"
    <3>1. \A k \in Slots : tasks[k].pc # "mark"
      BY <1>3 DEF Chain, Queue, OneLive, Live
    <3> QED  BY <2>1, <3>1 DEF Chain, Mode
  <2> QED  BY <2>1, <2>2 DEF Mode
<1> QED  BY <1>2, <1>3

LEMMA RowsStay ==
    ASSUME Chain, UNCHANGED <<row, passed>>
    PROVE  Rows' /\ RowsGoOn /\ Built' = Built
BY DEF Chain, Rows, RowsBegun, BuiltBegun, Built, RowsGoOn

\* A step of a task that leaves the tables alone, but may end the run: from it
\* the task hands nothing out.
LEMMA QuietStep ==
    ASSUME IInv, Chain, NEW i \in Slots, Live(tasks[i]),
           tasks[i].pc # "mark" \/ IsTerminalStatus(run'),
           UNCHANGED <<row, passed, req, after, timer>>, run' = run \/ IsTerminalStatus(run'),
           NEW j \in Task, Step(i, j), j.pc \notin {"wait", "dispatch", "enqueue", "mark"},
           InPlace(j, row, Built, Waiting),
           IsTerminalStatus(run') \/ InRun(j, row, Built, Waiting),
           j.pc # "none" => j.task = tasks[i].task
    PROVE  Chain'
<1>1. tasks \in [Slots -> Task]
  BY DEF IInv, TasksOK
<1>2. Mode'
  BY ModeStays
<1>3. Rows' /\ RowsGoOn /\ Built' = Built
  BY RowsStay
<1>4. Queue /\ OneTaskPerStage
  BY DEF Chain
<1>5. CASE tasks[i].pc # "wait"
  <2>1. Waiting' = Waiting
    BY <1>1, <1>5, WaitingKept
  <2>2. InPlace(j, row', Built', Waiting')
    BY <1>3, <2>1
  <2>3. IsTerminalStatus(run') \/ InRun(j, row', Built', Waiting')
    BY <1>3, <2>1
  <2>4. Queue' /\ OneTaskPerStage'
    BY <1>1, <1>3, <1>4, <2>2, <2>3, LiveStep
  <2> QED  BY <1>2, <1>3, <2>4 DEF Chain
<1> QED  BY <1>5 DEF Live

LEMMA StartChain ==
    ASSUME IInv, Chain, IInv', NEW i \in Slots, Start(i)
    PROVE  Chain'
<1> DEFINE j == IF IsTerminalStatus(run) THEN NoTask ELSE [tasks[i] EXCEPT !.pc = "executing"]
<1>1. tasks[i].pc = "queued" /\ tasks[i].task # Tick /\ Live(tasks[i])
  BY DEF Start, Live
<1>2. UNCHANGED <<run, row, passed, req, after, timer>> /\ Step(i, j)
  BY DEF Start
<1>3. /\ tasks[i] \in Task
      /\ InPlace(tasks[i], row, Built, Waiting)
      /\ IsTerminalStatus(run) \/ InRun(tasks[i], row, Built, Waiting)
  BY <1>1, LiveFacts
<1>4. j \in Task
  BY <1>2 DEF IInv, TasksOK, Step
<1>5. CASE IsTerminalStatus(run)
  <2>1. j = NoTask
    BY <1>5
  <2> HIDE DEF j
  <2> QED  BY <1>1, <1>2, <1>4, <2>1, NoTaskPlaced, QuietStep
<1>6. CASE ~IsTerminalStatus(run)
  <2>1. j.pc = "executing" /\ j.task = tasks[i].task /\ j.ok = tasks[i].ok
    BY <1>3, <1>6 DEF Task
  <2> HIDE DEF j
  <2>2. InPlace(j, row, Built, Waiting)
    BY <1>1, <1>3, <2>1 DEF InPlace, Executes
  <2>3. InRun(j, row, Built, Waiting)
    BY <1>1, <1>3, <1>6, <2>1 DEF InRun
  <2> QED  BY <1>1, <1>2, <1>4, <2>1, <2>2, <2>3, QuietStep
<1> QED  BY <1>5, <1>6

LEMMA LoadChain ==
    ASSUME IInv, Chain, IInv', NEW i \in Slots, Load(i)
    PROVE  Chain'
<1> DEFINE j == IF IsTerminalStatus(run) THEN Advanced(tasks[i])
                ELSE [tasks[i] EXCEPT !.pc = "list"]
<1>1. tasks[i].pc = "load" \/ (tasks[i].pc = "queued" /\ tasks[i].task = Tick)
  BY DEF Load
<1>2. Live(tasks[i]) /\ tasks[i].pc # "mark"
  BY <1>1 DEF Live
<1>3. UNCHANGED <<run, row, passed, req, after, timer>> /\ Step(i, j)
  BY DEF Load
<1>4. /\ tasks[i] \in Task
      /\ InPlace(tasks[i], row, Built, Waiting)
      /\ IsTerminalStatus(run) \/ InRun(tasks[i], row, Built, Waiting)
      /\ tasks[i].task # Tick => Executes(tasks[i], row, Waiting)
  BY <1>2, LiveFacts
<1>5. j \in Task
  BY <1>3 DEF IInv, TasksOK, Step
<1>6. CASE IsTerminalStatus(run)
  <2>1. j = Advanced(tasks[i])
    BY <1>6
  <2>2. tasks[i].task # Tick => tasks[i].task \notin Gates /\ row[tasks[i].task] # "pending"
    BY <1>4 DEF Executes
  <2> HIDE DEF j
  <2>3. /\ InPlace(j, row, Built, Waiting)
        /\ j.pc \in {"none", "queued", "fail", "exhausted"}
        /\ j.pc # "none" => j.task = tasks[i].task
    BY <1>4, <2>1, <2>2, AdvancedPlaced
  <2> QED  BY <1>2, <1>3, <1>5, <1>6, <2>3, QuietStep
<1>7. CASE ~IsTerminalStatus(run)
  <2>1. j.pc = "list" /\ j.task = tasks[i].task /\ j.ok = tasks[i].ok
    BY <1>4, <1>7 DEF Task
  <2> HIDE DEF j
  <2>2. tasks[i].task # Tick => Executes(j, row, Waiting)
    BY <1>1, <1>4, <1>7, <2>1 DEF Executes, InRun
  <2>3. InPlace(j, row, Built, Waiting)
    BY <1>4, <2>1, <2>2 DEF InPlace
  <2>4. InRun(j, row, Built, Waiting)
    BY <1>1, <1>4, <1>7, <2>1 DEF InRun
  <2> QED  BY <1>2, <1>3, <1>5, <2>1, <2>3, <2>4, QuietStep
<1> QED  BY <1>6, <1>7

LEMMA ListChain ==
    ASSUME IInv, Chain, IInv', NEW i \in Slots, List(i)
    PROVE  Chain'
<1> DEFINE j == [tasks[i] EXCEPT !.pc = "sync", !.copy = row]
<1>1. tasks[i].pc = "list" /\ Live(tasks[i])
  BY DEF List, Live
<1>2. UNCHANGED <<run, row, passed, req, after, timer>> /\ Step(i, j)
  BY DEF List
<1>3. /\ tasks[i] \in Task
      /\ InPlace(tasks[i], row, Built, Waiting)
      /\ IsTerminalStatus(run) \/ InRun(tasks[i], row, Built, Waiting)
      /\ tasks[i].task # Tick => Executes(tasks[i], row, Waiting)
  BY <1>1, LiveFacts
<1>4. j \in Task
  BY <1>2 DEF IInv, TasksOK, Step
<1>5. j.pc = "sync" /\ j.copy = row /\ j.task = tasks[i].task /\ j.ok = tasks[i].ok
  BY <1>3 DEF Task
<1> HIDE DEF j
<1>6. ASSUME NEW u \in Stages, u \in Waiting PROVE Reached(u, row)
  <2>1. PICK k \in Slots : tasks[k].pc = "wait" /\ u \in tasks[k].todo
    BY <1>6 DEF Waiting
  <2>2. Waits(tasks[k], row)
    BY <2>1 DEF Chain, Queue, AllPlaced, InPlace
  <2> QED  BY <2>1, <2>2 DEF Waits
<1>7. Reads(j, row, Waiting)
  <2>1. row \in [Stages -> DbStatus]
    BY DEF IInv, TablesOK
  <2>2. Begun(row)
    BY DEF Chain, Rows, RowsBegun
  <2>3. ~j.ok => /\ row[j.task] = "failed"
                 /\ \A u \in Stages : Before(j.task, u) => row[u] = "pending"
    <3>1. ~j.ok => j.task # Tick
      BY <1>3, <1>5 DEF InPlace
    <3> QED  BY <1>1, <1>3, <1>5, <3>1 DEF Executes, Ends
  <2>4. \A u \in Stages : row[u] # "pending" \/ u \in Waiting => Reached(u, row)
    BY <1>6, <2>2 DEF Begun
  <2> QED  BY <1>5, <2>1, <2>2, <2>3, <2>4 DEF Reads
<1>8. InPlace(j, row, Built, Waiting)
  <2>1. j.task # Tick => Executes(j, row, Waiting)
    BY <1>1, <1>3, <1>5 DEF Executes
  <2> QED  BY <1>3, <1>5, <1>7, <2>1 DEF InPlace
<1>9. IsTerminalStatus(run) \/ InRun(j, row, Built, Waiting)
  BY <1>1, <1>3, <1>5 DEF InRun
<1> QED  BY <1>1, <1>2, <1>4, <1>5, <1>8, <1>9, QuietStep

LEMMA FinalizeChain ==
    ASSUME IInv, Chain, IInv', NEW i \in Slots, Finalize(i)
    PROVE  Chain'
<1> DEFINE t == Target(Outcome(tasks[i].copy))
<1>1. tasks[i].pc = "final" /\ Live(tasks[i])
  BY DEF Finalize, Live
<1>2. /\ tasks[i] \in Task
      /\ InPlace(tasks[i], row, Built, Waiting)
      /\ IsTerminalStatus(run) \/ run = "running"
      /\ IsTerminalStatus(run) \/ InRun(tasks[i], row, Built, Waiting)
      /\ tasks[i].task # Tick => Executes(tasks[i], row, Waiting)
  BY <1>1, LiveFacts
<1>3. t \in {"failed", "canceled", "success"}
  BY DEF Target
<1>4. UNCHANGED <<row, passed, req, after, timer>>
  BY DEF Finalize
<1>5. PICK j : /\ Step(i, j) /\ j \in {Advanced(tasks[i]), Failed(tasks[i])}
               /\ IsTerminalStatus(run') /\ (run' = run \/ IsTerminalStatus(run'))
  <2>1. CASE Reaches(t)
    <3>1. run' = t /\ Step(i, Advanced(tasks[i]))
      BY <2>1 DEF Finalize
    <3> QED  BY <1>3, <3>1 DEF IsTerminalStatus, TerminalStatus
  <2>2. CASE ~Reaches(t)
    <3>1. run' = run /\ Step(i, Failed(tasks[i]))
      BY <2>2 DEF Finalize
    <3>2. run # "running"
      BY <1>3, <2>2 DEF Reaches, CanTransition
    <3> QED  BY <1>2, <3>1, <3>2
  <2> QED  BY <2>1, <2>2
<1>6. j \in Task
  BY <1>5 DEF IInv, TasksOK, Step
<1>7. tasks[i].task # Tick => tasks[i].task \notin Gates /\ row[tasks[i].task] # "pending"
  BY <1>2 DEF Executes
<1>8. /\ InPlace(j, row, Built, Waiting)
      /\ j.pc \in {"none", "queued", "fail", "exhausted"}
      /\ j.pc # "none" => j.task = tasks[i].task
  BY <1>2, <1>5, <1>7, AdvancedPlaced, FailedPlaced
<1> QED  BY <1>1, <1>4, <1>5, <1>6, <1>8, QuietStep

LEMMA FailRunChain ==
    ASSUME IInv, Chain, IInv', NEW i \in Slots, FailRun(i)
    PROVE  Chain'
<1> DEFINE j == Retried(tasks[i])
<1>1. tasks[i].pc = "fail" /\ Live(tasks[i])
  BY DEF FailRun, Live
<1>2. /\ tasks[i] \in Task
      /\ InPlace(tasks[i], row, Built, Waiting)
      /\ IsTerminalStatus(run) \/ run = "running"
      /\ tasks[i].task # Tick => Executes(tasks[i], row, Waiting)
  BY <1>1, LiveFacts
<1>3. UNCHANGED <<row, passed, req, after, timer>> /\ Step(i, j)
  BY DEF FailRun
<1>4. IsTerminalStatus(run')
  <2>1. run = "running" => Reaches("failed")
    BY DEF Reaches, CanTransition
  <2> QED  BY <1>2, <2>1 DEF FailRun, IsTerminalStatus, TerminalStatus
<1>5. j \in Task
  BY <1>3 DEF IInv, TasksOK, Step
<1>6. tasks[i].task # Tick => tasks[i].task \notin Gates /\ row[tasks[i].task] # "pending"
  BY <1>2 DEF Executes
<1>7. /\ InPlace(j, row, Built, Waiting)
      /\ j.pc \in {"none", "queued"}
      /\ j.pc # "none" => j.task = tasks[i].task
  BY <1>2, <1>6, RetriedPlaced
<1> HIDE DEF j
<1> QED  BY <1>1, <1>3, <1>4, <1>5, <1>7, QuietStep

\* Which stages have begun is all that these say of the rows.
LEMMA PendingKept ==
    ASSUME NEW r, NEW q, \A s \in Stages : q[s] = "pending" <=> r[s] = "pending"
    PROVE  /\ \A s \in Stages : Reached(s, r) => Reached(s, q)
           /\ \A w : \A s \in Stages : Ends(s, r, w) => Ends(s, q, w)
           /\ Begun(r) => Begun(q)
BY DEF Reached, Ends, Begun

LEMMA ReportChain ==
    ASSUME Calm, IInv, Chain, IInv', NEW i \in Slots, Report(i)
    PROVE  Chain'
<1> DEFINE t == tasks[i].task
<1>1. tasks[i].pc \in {"executing", "exhausted"} /\ Live(tasks[i]) /\ tasks[i].pc # "mark"
  BY DEF Report, Live
<1>2. t # Tick
  BY <1>1 DEF IInv, TasksOK, Good
<1>3. /\ tasks[i] \in Task
      /\ IsTerminalStatus(run) \/ InRun(tasks[i], row, Built, Waiting)
      /\ Executes(tasks[i], row, Waiting) /\ t \in Stages
  BY <1>1, <1>2, LiveFacts
<1>4. ~Fault
  BY NoFault DEF Calm, IInv
<1>5. PICK ok \in BOOLEAN :
          /\ row' = [row EXCEPT ![t] = IF ok THEN "success" ELSE "failed"]
          /\ passed' = IF ok THEN passed \cup {t} ELSE passed
          /\ Step(i, [tasks[i] EXCEPT !.pc = "load", !.ok = ok])
  BY <1>4 DEF Report, Results, Write
<1>6. UNCHANGED <<run, req, timer, after>>
  BY DEF Report
<1> DEFINE j == [tasks[i] EXCEPT !.pc = "load", !.ok = ok]
<1>7. j \in Task
  BY <1>5 DEF IInv, TasksOK, Step
<1>8. j.pc = "load" /\ j.ok = ok /\ j.task = t
  BY <1>3 DEF Task
<1>9. Step(i, j)
  BY <1>5
<1> HIDE DEF j
<1>10. row \in [Stages -> DbStatus] /\ tasks \in [Slots -> Task]
  BY DEF IInv, TablesOK, TasksOK
<1>11. row[t] # "pending" /\ t \notin Gates
  BY <1>3 DEF Executes
<1>12. /\ row'[t] = IF ok THEN "success" ELSE "failed"
       /\ \A s \in Stages : s # t => row'[s] = row[s]
  BY <1>3, <1>5, <1>10
<1>13. \A s \in Stages : row'[s] = "pending" <=> row[s] = "pending"
  BY <1>11, <1>12
<1>14. RowsGoOn
  BY <1>13 DEF RowsGoOn
<1>15. Built' = IF ok THEN Built \cup {t} ELSE Built
  BY <1>5, <1>11 DEF Built
<1>16. Rows'
  <2>1. RowsBegun'
    BY <1>13, PendingKept DEF Chain, Rows, RowsBegun
  <2>2. \A s \in Built : s \in Stages
    BY DEF IInv, TablesOK, Built
  <2>3. BuiltBegun'
    BY <1>11, <1>13, <1>15, <2>2, <1>3 DEF Chain, Rows, BuiltBegun
  <2> QED  BY <2>1, <2>3 DEF Rows
<1>17. Waiting' = Waiting
  BY <1>1, <1>8, <1>9, <1>10, WaitingKept
<1>18. InPlace(j, row', Built', Waiting)
  <2>1. Executes(j, row', Waiting)
    BY <1>3, <1>8, <1>11, <1>12, <1>13 DEF Executes
  <2> QED  BY <1>2, <1>8, <2>1 DEF InPlace
<1>19. IsTerminalStatus(run) \/ InRun(j, row', Built', Waiting)
  <2> SUFFICES ASSUME InRun(tasks[i], row, Built, Waiting) PROVE InRun(j, row', Built', Waiting)
    BY <1>3
  <2>1. t \notin Built /\ Ends(t, row, Waiting)
    BY <1>1, <1>2 DEF InRun
  <2>2. Ends(t, row', Waiting)
    BY <2>1, <1>3, <1>13, PendingKept
  <2>3. ~ok => t \notin Built'
    BY <2>1, <1>15
  <2> QED  BY <1>8, <2>2, <2>3 DEF InRun
<1>20. Mode'
  BY <1>1, <1>6, ModeStays
<1>21. Queue /\ OneTaskPerStage
  BY DEF Chain
<1>22. Queue' /\ OneTaskPerStage'
  BY <1>1, <1>6, <1>7, <1>8, <1>9, <1>10, <1>14, <1>17, <1>18, <1>19, <1>21, LiveStep
<1> QED  BY <1>16, <1>20, <1>22 DEF Chain

\* A stage that everything before it has come to begins, or changes.
LEMMA RowBegins ==
    ASSUME IInv, Chain, NEW s \in Stages, Reached(s, row), UNCHANGED passed,
           NEW v, v # "pending", row' = [row EXCEPT ![s] = v]
    PROVE  /\ Rows' /\ RowsGoOn /\ Built' = Built
           /\ row'[s] = v
           /\ \A u \in Stages : u # s => row'[u] = row[u]
<1>1. row \in [Stages -> DbStatus]
  BY DEF IInv, TablesOK
<1>2. row'[s] = v /\ \A u \in Stages : u # s => row'[u] = row[u]
  BY <1>1
<1>3. \A u \in Stages : row[u] # "pending" => row'[u] # "pending"
  BY <1>2
<1>4. Built' = Built
  BY DEF Built
<1>5. RowsBegun'
  <2> SUFFICES ASSUME NEW x \in Stages, row'[x] # "pending" PROVE Reached(x, row')
    BY DEF RowsBegun, Begun
  <2>1. Reached(x, row)
    BY <1>2 DEF Chain, Rows, RowsBegun, Begun
  <2> QED  BY <1>3, <2>1 DEF Reached
<1>6. BuiltBegun'
  <2>1. \A x \in Built : x \in Stages
    BY DEF IInv, TablesOK, Built
  <2> QED  BY <1>3, <1>4, <2>1 DEF Chain, Rows, BuiltBegun
<1> QED  BY <1>2, <1>3, <1>4, <1>5, <1>6 DEF Rows, RowsGoOn

\* The stage that a task hands out.
LEMMA HandedOut ==
    ASSUME IInv, Chain, NEW i \in Slots,
           tasks[i].pc \in {"dispatch", "enqueue", "mark", "refuse"},
           NEW s \in Stages, IsFirst(i, s)
    PROVE  /\ tasks[i].todo = {s} /\ tasks[i].ok /\ ~IsTerminal(tasks[i].copy[s])
           /\ Reached(s, row) /\ Ends(s, row, Waiting) /\ s \notin Built
           /\ s \notin Gates => tasks[i].pc \in {"dispatch", "enqueue"}
           /\ tasks[i].pc = "enqueue" => s \notin Gates /\ row[s] # "pending"
           /\ Live(tasks[i])
<1>1. HandsOut(tasks[i], row, Built, Waiting)
  BY DEF Chain, Queue, AllPlaced, InPlace
<1>2. s \in tasks[i].todo
  BY DEF IsFirst
<1> QED  BY <1>1, <1>2 DEF HandsOut, Live

LEMMA MarkStageRunningChain ==
    ASSUME Calm, IInv, Chain, IInv', NEW i \in Slots, MarkStageRunning(i)
    PROVE  Chain'
<1> DEFINE j == [tasks[i] EXCEPT !.pc = "enqueue"]
<1>1. tasks[i].pc = "dispatch" /\ UNCHANGED <<run, req, timer, after, passed>> /\ Step(i, j)
  BY DEF MarkStageRunning
<1>2. ~Fault
  BY NoFault DEF Calm, IInv
<1>3. PICK s \in Stages \ Gates : IsFirst(i, s) /\ row' = [row EXCEPT ![s] = "running"]
  BY <1>2 DEF MarkStageRunning, Write
<1>4. /\ tasks[i].todo = {s} /\ tasks[i].ok /\ ~IsTerminal(tasks[i].copy[s])
      /\ Reached(s, row) /\ Ends(s, row, Waiting) /\ s \notin Built
      /\ Live(tasks[i])
  BY <1>1, <1>3, HandedOut
<1>5. /\ tasks[i] \in Task
      /\ InPlace(tasks[i], row, Built, Waiting)
      /\ tasks[i].task # Tick => Executes(tasks[i], row, Waiting) /\ tasks[i].task \in Stages
  BY <1>4, LiveFacts
<1>6. j \in Task
  BY <1>1 DEF IInv, TasksOK, Step
<1>7. j.pc = "enqueue" /\ j.task = tasks[i].task /\ j.ok = tasks[i].ok
      /\ j.todo = tasks[i].todo /\ j.copy = tasks[i].copy
  BY <1>5 DEF Task
<1> HIDE DEF j
<1>8. /\ Rows' /\ RowsGoOn /\ Built' = Built
      /\ row'[s] = "running"
      /\ \A u \in Stages : u # s => row'[u] = row[u]
  BY <1>1, <1>3, <1>4, RowBegins
<1>9. tasks \in [Slots -> Task]
  BY DEF IInv, TasksOK
<1>10. Waiting' = Waiting
  BY <1>1, <1>7, <1>9, WaitingKept
<1>11. HandsOut(j, row', Built, Waiting)
  <2>1. Reached(s, row')
    BY <1>4, <1>8 DEF Reached, RowsGoOn
  <2>2. Ends(s, row', Waiting)
    BY <1>4, <1>8, NotBeforeItself DEF Ends
  <2> QED  BY <1>3, <1>4, <1>7, <1>8, <2>1, <2>2 DEF HandsOut
<1>12. j.task # Tick => Executes(j, row', Waiting)
  BY <1>5, <1>7, <1>8 DEF Executes, RowsGoOn
<1>13. InPlace(j, row', Built', Waiting')
  BY <1>5, <1>7, <1>8, <1>10, <1>11, <1>12 DEF InPlace
<1>14. InRun(j, row', Built', Waiting')
  BY <1>4, <1>7 DEF InRun
<1>15. \A x \in j.todo \ Gates : \A k \in Slots : tasks[k].pc = "none" \/ tasks[k].task # x
  BY <1>1, <1>3, <1>4, <1>7 DEF Chain, Queue, FreshStage
<1>16. Mode'
  BY <1>1, <1>4, ModeStays
<1>17. Queue /\ OneTaskPerStage
  BY DEF Chain
<1>18. Queue' /\ OneTaskPerStage'
  BY <1>1, <1>4, <1>6, <1>7, <1>8, <1>9, <1>13, <1>14, <1>15, <1>17, LiveStep
<1> QED  BY <1>8, <1>16, <1>18 DEF Chain

LEMMA RefuseChain ==
    ASSUME Calm, IInv, Chain, IInv', NEW i \in Slots, Refuse(i)
    PROVE  Chain'
<1>1. tasks[i].pc = "refuse" /\ UNCHANGED <<run, req, timer, after, passed>> /\ Live(tasks[i])
  BY DEF Refuse, Live
<1>2. ~Fault
  BY NoFault DEF Calm, IInv
<1>3. PICK g \in Gates : /\ IsFirst(i, g) /\ row' = [row EXCEPT ![g] = "failed"]
                         /\ Step(i, PoppedFailed(i, g))
  BY <1>2 DEF Refuse, Write
<1>4. g \in Stages
  BY StageGraphAssumption DEF Gates
<1>5. tasks[i].todo = {g} /\ tasks[i].ok /\ Reached(g, row)
  BY <1>1, <1>3, <1>4, HandedOut
<1>6. /\ tasks[i] \in Task
      /\ InPlace(tasks[i], row, Built, Waiting)
      /\ IsTerminalStatus(run) \/ InRun(tasks[i], row, Built, Waiting)
      /\ tasks[i].task # Tick => Executes(tasks[i], row, Waiting) /\ tasks[i].task \in Stages
  BY <1>1, LiveFacts
<1>7. IsTerminalStatus(run)
  BY <1>1, <1>6 DEF InRun
<1>8. /\ Rows' /\ RowsGoOn
      /\ row'[g] = "failed"
  BY <1>1, <1>3, <1>4, <1>5, RowBegins
<1> DEFINE k == [tasks[i] EXCEPT !.copy[g] = "failed"]
           j == PoppedFailed(i, g)
<1>9. k \in Task /\ k.task = tasks[i].task /\ k.ok
  BY <1>4, <1>5, <1>6 DEF Task, NodeStatus, Terminal
<1>10. tasks[i].todo \ {g} = {}
  BY <1>5
<1>11. j = NoTask \/ (j.pc = "final" /\ j.task = tasks[i].task /\ j.ok)
  <2> HIDE DEF k
  <2>1. j = Dispatching(k, {})
    BY <1>10 DEF PoppedFailed, k
  <2>2. CASE Done(k.copy)
    <3>1. j = [k EXCEPT !.pc = "final", !.todo = {}]
      BY <2>1, <2>2 DEF Dispatching
    <3> HIDE DEF j
    <3> QED  BY <1>9, <3>1 DEF Task
  <2>3. CASE ~Done(k.copy)
    BY <1>9, <2>1, <2>3 DEF Dispatching, Advanced
  <2> QED  BY <2>2, <2>3
<1>12. j \in Task
  BY <1>3 DEF IInv, TasksOK, Step
<1>13. j.pc \in {"final", "none"} /\ (j.pc # "none" => j.task = tasks[i].task)
  <2> HIDE DEF j
  <2> QED  BY <1>11, NoTaskPlaced
<1>14. Step(i, j)
  BY <1>3
<1> HIDE DEF j, k
<1>15. InPlace(j, row', Built', Waiting')
  <2>1. CASE j = NoTask
    BY <2>1, NoTaskPlaced
  <2>2. CASE j.pc = "final" /\ j.task = tasks[i].task /\ j.ok
    <3>1. j.task # Tick => Executes(j, row', Waiting')
      BY <1>6, <1>8, <2>2 DEF Executes, RowsGoOn
    <3> QED  BY <2>2, <3>1 DEF InPlace
  <2> QED  BY <1>11, <2>1, <2>2
<1>16. Mode'
  BY <1>1, ModeStays
<1>17. Queue /\ OneTaskPerStage /\ tasks \in [Slots -> Task]
  BY DEF Chain, IInv, TasksOK
<1>18. Queue' /\ OneTaskPerStage'
  BY <1>1, <1>7, <1>8, <1>12, <1>13, <1>14, <1>15, <1>17, LiveStep
<1> QED  BY <1>8, <1>16, <1>18 DEF Chain

LEMMA InsertRequestChain ==
    ASSUME IInv, Chain, IInv', NEW i \in Slots, InsertRequest(i)
    PROVE  Chain'
<1>1. tasks[i].pc = "dispatch" /\ UNCHANGED <<run, row, after, passed, faults>> /\ Live(tasks[i])
  BY DEF InsertRequest, Live
<1>2. PICK g \in Gates :
        /\ IsFirst(i, g)
        /\ IF req[g] = "pending"
           THEN Step(i, [tasks[i] EXCEPT !.pc = "refuse"]) /\ UNCHANGED <<req, timer>>
           ELSE /\ Step(i, [tasks[i] EXCEPT !.pc = "mark"])
                /\ req' = [req EXCEPT ![g] = "pending"]
                /\ timer' = timer \ {g}
  BY DEF InsertRequest
<1>3. g \in Stages
  BY StageGraphAssumption DEF Gates
<1>4. HandsOut(tasks[i], row, Built, Waiting) /\ tasks[i].todo = {g} /\ tasks[i].ok
  BY <1>1, <1>2, <1>3, HandedOut DEF Chain, Queue, AllPlaced, InPlace
<1>5. /\ tasks[i] \in Task
      /\ InPlace(tasks[i], row, Built, Waiting)
      /\ IsTerminalStatus(run) \/ run = "running"
      /\ tasks[i].task # Tick => Executes(tasks[i], row, Waiting)
  BY <1>1, LiveFacts
<1>6. PICK pc \in {"refuse", "mark"} :
        /\ Step(i, [tasks[i] EXCEPT !.pc = pc])
        /\ pc = "refuse" => req[g] = "pending" /\ UNCHANGED <<req, timer>>
        /\ pc = "mark" => req' = [req EXCEPT ![g] = "pending"] /\ timer' = timer \ {g}
  BY <1>2
<1> DEFINE j == [tasks[i] EXCEPT !.pc = pc]
<1>7. j \in Task /\ Step(i, j)
  BY <1>6 DEF IInv, TasksOK, Step
<1>8. j.pc = pc /\ j.task = tasks[i].task /\ j.ok = tasks[i].ok
      /\ j.todo = tasks[i].todo /\ j.copy = tasks[i].copy
  BY <1>5 DEF Task
<1> HIDE DEF j
<1>9. HandsOut(j, row, Built, Waiting)
  <2>1. g \in Gates
    OBVIOUS
  <2> QED  BY <1>3, <1>4, <1>6, <1>8, <2>1 DEF HandsOut
<1>10. InPlace(j, row, Built, Waiting)
  <2>1. j.task # Tick => Executes(j, row, Waiting)
    BY <1>5, <1>6, <1>8 DEF Executes
  <2> QED  BY <1>5, <1>6, <1>8, <1>9, <2>1 DEF InPlace
<1>11. run = "running" => \A h \in Gates : after[h] = "" /\ req[h] # "pending"
  <2>1. \A k \in Slots : tasks[k].pc # "mark"
    BY <1>1 DEF Chain, Queue, OneLive, Live
  <2> QED  BY <2>1 DEF Chain, Mode
<1>12. IsTerminalStatus(run) \/ pc = "mark"
  BY <1>5, <1>6, <1>11
<1>13. Rows' /\ RowsGoOn /\ Built' = Built
  BY <1>1, RowsStay
<1>14. tasks \in [Slots -> Task] /\ Queue /\ OneTaskPerStage
  BY DEF IInv, TasksOK, Chain
<1>15. Waiting' = Waiting
  BY <1>1, <1>6, <1>7, <1>8, <1>14, WaitingKept
<1>16. InPlace(j, row', Built', Waiting')
  BY <1>1, <1>10, <1>13, <1>15
<1>17. IsTerminalStatus(run') \/ InRun(j, row', Built', Waiting')
  <2>1. pc = "mark" => InRun(j, row', Built', Waiting')
    BY <1>4, <1>8 DEF InRun
  <2> QED  BY <1>1, <1>12, <2>1
<1>18. j.pc = "mark" => j.todo \cap timer' = {}
  BY <1>4, <1>6, <1>8
<1>19. Queue' /\ OneTaskPerStage'
  BY <1>1, <1>6, <1>7, <1>8, <1>13, <1>14, <1>16, <1>17, <1>18, LiveStep
<1>20. Mode'
  <2>1. CASE IsTerminalStatus(run)
    BY <1>1, <2>1 DEF Mode, IsTerminalStatus, TerminalStatus
  <2>2. CASE run = "running"
    <3>1. pc = "mark" /\ run' = "running"
      BY <1>1, <1>12, <2>2 DEF IsTerminalStatus, TerminalStatus
    <3>2. \A h \in Gates : after'[h] = "" /\ (req'[h] = "pending" => h = g)
      BY <1>1, <1>6, <1>11, <2>2, <3>1 DEF IInv, TablesOK
    <3>3. tasks'[i] = j
      BY <1>7, <1>14 DEF Step
    <3>4. tasks'[i].pc = "mark" /\ g \in tasks'[i].todo
      BY <1>4, <1>8, <3>1, <3>3
    <3> QED  BY <3>1, <3>2, <3>4 DEF Mode
  <2> QED  BY <1>5, <2>1, <2>2
<1> QED  BY <1>13, <1>19, <1>20 DEF Chain

LEMMA MarkApprovalChain ==
    ASSUME Calm, IInv, Chain, IInv', NEW i \in Slots, MarkApproval(i)
    PROVE  Chain'
<1>1. tasks[i].pc = "mark" /\ UNCHANGED <<row, req, after, passed>> /\ Live(tasks[i])
  BY DEF MarkApproval, Live
<1>2. ~Fault
  BY NoFault DEF Calm, IInv
<1>3. PICK g \in Stages : /\ tasks[i].todo = {g} /\ tasks[i].ok /\ ~IsTerminal(tasks[i].copy[g])
                          /\ Reached(g, row) /\ Ends(g, row, Waiting) /\ g \notin Built
                          /\ g \in Gates
  BY <1>1 DEF Chain, Queue, AllPlaced, InPlace, HandsOut
<1>4. /\ tasks[i] \in Task
      /\ InPlace(tasks[i], row, Built, Waiting)
      /\ IsTerminalStatus(run) \/ run = "running"
      /\ tasks[i].task # Tick => Executes(tasks[i], row, Waiting)
  BY <1>1, LiveFacts
<1>5. Rows' /\ RowsGoOn /\ Built' = Built
  BY <1>1, RowsStay
<1>6. tasks \in [Slots -> Task] /\ Queue /\ OneTaskPerStage
  BY DEF IInv, TasksOK, Chain
<1>7. CASE Reaches("approval")
  <2> DEFINE j == [tasks[i] EXCEPT !.pc = "wait"]
  <2>1. run' = "approval" /\ Step(i, j)
    BY <1>7 DEF MarkApproval
  <2>2. run = "running"
    BY <1>4, <1>7 DEF Reaches, CanTransition, IsTerminalStatus, TerminalStatus
  <2>3. j \in Task
    BY <2>1 DEF IInv, TasksOK, Step
  <2>4. j.pc = "wait" /\ j.task = tasks[i].task /\ j.ok = tasks[i].ok
        /\ j.todo = tasks[i].todo /\ j.copy = tasks[i].copy
    BY <1>4 DEF Task
  <2> HIDE DEF j
  <2>5. Waits(j, row)
    BY <1>3, <2>4 DEF Waits
  <2>6. \A w : InPlace(j, row, Built, w)
    <3>1. \A w : j.task # Tick => Executes(j, row, w)
      BY <1>4, <2>4 DEF Executes
    <3> QED  BY <1>4, <2>4, <2>5, <3>1 DEF InPlace
  <2>7. InPlace(j, row', Built', Waiting') /\ InRun(j, row', Built', Waiting')
    <3>1. InPlace(j, row', Built', Waiting')
      BY <1>1, <1>5, <2>6
    <3>2. InRun(j, row', Built', Waiting')
      BY <1>3, <2>4 DEF InRun
    <3> QED  BY <3>1, <3>2
  <2>8. Queue' /\ OneTaskPerStage'
    BY <1>1, <1>5, <1>6, <2>1, <2>3, <2>4, <2>7, LiveStep
  <2>9. Mode'
    <3>1. \A k \in Slots : ~Live(tasks'[k])
      <4>1. \A k \in Slots : tasks'[k] = IF k = i THEN j ELSE tasks[k]
        BY <1>6, <2>1 DEF Step
      <4>2. \A k \in Slots : k # i => ~Live(tasks[k])
        BY <1>1, <1>6 DEF Queue, OneLive
      <4> QED  BY <2>4, <4>1, <4>2 DEF Live
    <3>2. \A h \in Gates : after[h] = "" /\ (req[h] = "pending" => h = g)
      <4>1. \A k \in Slots : tasks[k].pc = "mark" => k = i
        BY <1>1, <1>6 DEF Queue, OneLive, Live
      <4> QED  BY <1>3, <2>2, <4>1 DEF Chain, Mode
    <3>3. \A h \in Gates : after'[h] = "" /\ (req'[h] = "pending" => h = g)
      BY <1>1, <3>2
    <3> QED  BY <2>1, <3>1, <3>3 DEF Mode, Busy
  <2> QED  BY <1>5, <2>8, <2>9 DEF Chain
<1>8. CASE ~Reaches("approval")
  <2> DEFINE j == [tasks[i] EXCEPT !.pc = "refuse"]
  <2>1. UNCHANGED <<run, timer>> /\ Step(i, j)
    BY <1>8 DEF MarkApproval
  <2>2. IsTerminalStatus(run)
    BY <1>4, <1>8 DEF Reaches, CanTransition
  <2>3. j \in Task
    BY <2>1 DEF IInv, TasksOK, Step
  <2>4. j.pc = "refuse" /\ j.task = tasks[i].task /\ j.ok = tasks[i].ok
        /\ j.todo = tasks[i].todo /\ j.copy = tasks[i].copy
    BY <1>4 DEF Task
  <2> HIDE DEF j
  <2>5. HandsOut(j, row, Built, Waiting)
    BY <1>3, <2>4 DEF HandsOut
  <2>6. InPlace(j, row, Built, Waiting)
    <3>1. j.task # Tick => Executes(j, row, Waiting)
      BY <1>4, <2>4 DEF Executes
    <3> QED  BY <1>4, <2>4, <2>5, <3>1 DEF InPlace
  <2> QED  BY <1>1, <2>1, <2>2, <2>3, <2>4, <2>6, QuietStep
<1> QED  BY <1>7, <1>8

-----------------------------------------------------------------------------
(* Steps that enqueue a task, and the mark that comes late                 *)

\* Where there is a free slot the new task takes one.
LEMMA SlotIsFree ==
    ASSUME Free # {}
    PROVE  Slot \in Slots /\ tasks[Slot] = NoTask
<1>1. MaxTasks \in Nat
  BY RunEngineAssumption
<1>2. Free \subseteq Nat
  BY <1>1 DEF Free, Slots
<1>3. PICK m \in Free : \A k \in Free : <<k, m>> \notin OpToRel(<, Nat)
  BY <1>2, WFMin, NatLessThanWellFounded, Zenon
<1>4. \A k \in Free : ~(k < m)
  BY <1>2, <1>3, Zenon DEF OpToRel
<1>5. \A k \in Free : m <= k
  BY <1>2, <1>4
<1>6. Slot \in Free
  BY <1>5 DEF Slot
<1> QED  BY <1>6 DEF Free

\* A step that ends the task of slot i, if it is on its way, and gives the free
\* slot n to the only other one.
LEMMA NewLiveStep ==
    ASSUME tasks \in [Slots -> Task], Queue, NEW n \in Slots, tasks[n].pc = "none",
           UNCHANGED row, Built' = Built,
           NEW j, j.pc = "queued", NEW i \in Slots,
           \A k \in Slots : Live(tasks[k]) => k = i,
           \A k \in Slots : tasks'[k] = IF k = n THEN j
                                        ELSE IF k = i /\ Live(tasks[k]) THEN NoTask ELSE tasks[k],
           InPlace(j, row, Built, Waiting), InRun(j, row, Built, Waiting),
           j.task # Tick => \A k \in Slots : tasks[k].pc = "none" \/ tasks[k].task # j.task
    PROVE  Queue' /\ (OneTaskPerStage => OneTaskPerStage') /\ Waiting' = Waiting
<1>1. \A k \in Slots : k # n => tasks'[k] = NoTask \/ (tasks'[k] = tasks[k] /\ ~Live(tasks[k]))
  <2> SUFFICES ASSUME NEW k \in Slots, k # n
               PROVE  tasks'[k] = NoTask \/ (tasks'[k] = tasks[k] /\ ~Live(tasks[k]))
    OBVIOUS
  <2>1. CASE Live(tasks[k])
    BY <2>1
  <2>2. CASE ~Live(tasks[k])
    BY <2>2
  <2> QED  BY <2>1, <2>2
<1>2. tasks'[n] = j
  OBVIOUS
<1>3. \A k \in Slots : k # n => tasks'[k].pc \in {"none", "wait"}
  BY <1>1, NoTaskPlaced DEF Live
<1>4. Waiting' = Waiting
  <2>1. \A k \in Slots : tasks[k].pc = "wait" => tasks'[k] = tasks[k]
    BY <1>2 DEF Live
  <2>2. \A k \in Slots : tasks'[k].pc = "wait" => tasks'[k] = tasks[k]
    BY <1>1, <1>2, NoTaskPlaced
  <2> QED  BY <2>1, <2>2 DEF Waiting
<1>5. ASSUME NEW k \in Slots
      PROVE  InPlace(tasks'[k], row', Built', Waiting') /\ InRun(tasks'[k], row', Built', Waiting')
  <2>1. CASE k = n
    BY <1>2, <1>4, <2>1
  <2>2. CASE k # n /\ tasks'[k] = NoTask
    BY <2>2, NoTaskPlaced
  <2>3. CASE k # n /\ tasks'[k] = tasks[k] /\ ~Live(tasks[k])
    <3>1. tasks[k].pc \in {"none", "wait"} /\ tasks[k].task \in Stages \cup {Tick}
      BY <2>3 DEF Live, Task
    <3>2. InPlace(tasks[k], row, Built, Waiting)
      BY DEF Queue, AllPlaced
    <3>3. InPlace(tasks[k], row', Built', Waiting') /\ InRun(tasks[k], row', Built', Waiting')
      BY <3>1, <3>2, WaiterStays
    <3> QED  BY <2>3, <3>3
  <2> QED  BY <1>1, <2>1, <2>2, <2>3
<1>6. OneLive' /\ FreshStage' /\ FreshTimer'
  BY <1>2, <1>3 DEF OneLive, FreshStage, FreshTimer, Live
<1>7. AllPlaced' /\ AllInRun'
  BY <1>5 DEF AllPlaced, AllInRun
<1>8. ASSUME OneTaskPerStage PROVE OneTaskPerStage'
  <2>1. \A k \in Slots : k # n => tasks'[k].task = Tick \/ tasks'[k].task = tasks[k].task
    BY <1>1, NoTaskPlaced
  <2>2. \A k \in Slots :
            tasks'[k].pc # "none" /\ k # n
            => tasks[k].pc # "none" /\ tasks'[k].task = tasks[k].task
    BY <1>1, NoTaskPlaced
  <2>3. \A k \in Slots : tasks'[k].task # Tick => tasks'[k].pc # "none"
    BY <1>5 DEF InPlace
  <2>4. \A k \in Slots : k # n /\ j.task # Tick => tasks'[k].task # j.task
    BY <2>1, <2>2, <2>3
  <2> SUFFICES ASSUME NEW h \in Slots, NEW k \in Slots, h # k, tasks'[h].pc # "none",
                      tasks'[h].task # Tick, tasks'[k].task = tasks'[h].task
               PROVE  FALSE
    BY DEF OneTaskPerStage, TaskOf
  <2>5. h # n /\ k # n
    BY <1>2, <2>4
  <2>6. tasks[h].pc # "none" /\ tasks[h].task # Tick /\ tasks[k].task = tasks[h].task
    BY <2>2, <2>3, <2>5
  <2> QED  BY <1>8, <2>6 DEF OneTaskPerStage, TaskOf
<1> QED  BY <1>4, <1>6, <1>7, <1>8 DEF Queue

LEMMA EnqueueStageChain ==
    ASSUME Calm, IInv, Chain, IInv', NEW i \in Slots, EnqueueStage(i)
    PROVE  Chain'
<1>1. tasks[i].pc = "enqueue" /\ UNCHANGED <<run, row, req, timer, after, passed>> /\ Live(tasks[i])
  BY DEF EnqueueStage, Live
<1>2. ~Fault
  BY NoFault DEF Calm, IInv
<1>3. PICK s \in Stages : /\ IsFirst(i, s) /\ Free # {}
                          /\ tasks' = [tasks EXCEPT ![i] = Popped(i, s), ![Slot] = Queued(s)]
  BY <1>2 DEF EnqueueStage
<1>4. /\ tasks[i].todo = {s} /\ tasks[i].ok /\ ~IsTerminal(tasks[i].copy[s])
      /\ Ends(s, row, Waiting) /\ s \notin Built
      /\ s \notin Gates /\ row[s] # "pending"
  BY <1>1, <1>3, HandedOut
<1>5. Popped(i, s) = NoTask
  <2>1. tasks[i].todo \ {s} = {}
    BY <1>4
  <2>2. ~Done(tasks[i].copy)
    BY <1>4 DEF Done
  <2> QED  BY <1>4, <2>1, <2>2 DEF Popped, Dispatching, Advanced
<1>6. Slot \in Slots /\ tasks[Slot] = NoTask
  BY <1>3, SlotIsFree
<1>7. tasks \in [Slots -> Task] /\ Queue /\ OneTaskPerStage
  BY DEF IInv, TasksOK, Chain
<1>8. tasks[Slot].pc = "none" /\ Slot # i
  BY <1>1, <1>6, NoTaskPlaced
<1> DEFINE j == Queued(s)
           n == Slot
<1>9. j.pc = "queued" /\ j.ok /\ j.task = s
  BY DEF Queued
<1>10. tasks' = [[tasks EXCEPT ![i] = NoTask] EXCEPT ![n] = j]
  BY <1>3, <1>5
<1> HIDE DEF j, n
<1>11. \A k \in Slots : Live(tasks[k]) => k = i
  BY <1>1, <1>7 DEF Queue, OneLive
<1>12. \A k \in Slots : tasks'[k] = IF k = n THEN j
                                    ELSE IF k = i /\ Live(tasks[k]) THEN NoTask ELSE tasks[k]
  BY <1>1, <1>7, <1>10
<1>13. InPlace(j, row, Built, Waiting) /\ InRun(j, row, Built, Waiting)
  BY <1>4, <1>9, QueuedPlaced
<1>14. \A k \in Slots : tasks[k].pc = "none" \/ tasks[k].task # j.task
  BY <1>1, <1>4, <1>7, <1>9 DEF Queue, FreshStage
<1>15. n \in Slots /\ tasks[n].pc = "none"
  BY <1>6, <1>8 DEF n
<1>16. Rows' /\ RowsGoOn /\ Built' = Built
  BY <1>1, RowsStay
<1>17. Queue' /\ OneTaskPerStage'
  BY <1>1, <1>7, <1>9, <1>11, <1>12, <1>13, <1>14, <1>15, <1>16, NewLiveStep
<1>18. Mode'
  BY <1>1, ModeStays
<1> QED  BY <1>16, <1>17, <1>18 DEF Chain

LEMMA WaitChain ==
    ASSUME Calm, IInv, Chain, IInv', NEW i \in Slots, Wait(i)
    PROVE  Chain'
<1>1. tasks[i].pc = "wait" /\ UNCHANGED <<run, req, timer, after, passed>>
  BY DEF Wait
<1>2. ~Fault
  BY NoFault DEF Calm, IInv
<1>3. PICK g \in Gates : /\ IsFirst(i, g) /\ row' = [row EXCEPT ![g] = "approval"]
                         /\ Step(i, Popped(i, g))
  BY <1>2 DEF Wait, Write
<1>4. g \in Stages
  BY StageGraphAssumption DEF Gates
<1>5. tasks[i].todo = {g} /\ tasks[i].ok /\ ~IsTerminal(tasks[i].copy[g]) /\ Reached(g, row)
  <2>1. Waits(tasks[i], row)
    BY <1>1 DEF Chain, Queue, AllPlaced, InPlace
  <2>2. g \in tasks[i].todo
    BY <1>3 DEF IsFirst
  <2> QED  BY <2>1, <2>2 DEF Waits
<1>6. Popped(i, g) = NoTask
  <2>1. tasks[i].todo \ {g} = {}
    BY <1>5
  <2>2. ~Done(tasks[i].copy)
    BY <1>4, <1>5 DEF Done
  <2> QED  BY <1>5, <2>1, <2>2 DEF Popped, Dispatching, Advanced
<1>7. tasks \in [Slots -> Task] /\ Queue /\ OneTaskPerStage
  BY DEF IInv, TasksOK, Chain
<1>8. \A k \in Slots : tasks'[k] = IF k = i THEN NoTask ELSE tasks[k]
  BY <1>3, <1>6, <1>7 DEF Step
<1>9. /\ Rows' /\ RowsGoOn /\ Built' = Built
      /\ row'[g] = "approval"
      /\ \A u \in Stages : u # g => row'[u] = row[u]
  BY <1>1, <1>3, <1>4, <1>5, RowBegins
<1>10. g \in Waiting /\ Waiting' \subseteq Waiting
  <2>1. g \in Waiting
    BY <1>1, <1>4, <1>5 DEF Waiting
  <2>2. \A k \in Slots : tasks'[k].pc = "wait" => tasks'[k] = tasks[k]
    BY <1>8, NoTaskPlaced
  <2> QED  BY <2>1, <2>2 DEF Waiting
<1>11. ASSUME NEW s \in Stages, Ends(s, row, Waiting) PROVE Ends(s, row', Waiting')
  BY <1>9, <1>10, <1>11 DEF Ends
<1>12. ASSUME NEW s \in Stages, Reached(s, row) PROVE Reached(s, row')
  BY <1>9, <1>12 DEF Reached, RowsGoOn
<1>13. ASSUME NEW k \in Slots, k # i PROVE InPlace(tasks[k], row', Built', Waiting')
  <2> DEFINE j == tasks[k]
  <2>1. InPlace(j, row, Built, Waiting) /\ j \in Task
    BY <1>7 DEF Queue, AllPlaced
  <2>2. j.task \in Stages \cup {Tick}
    BY <2>1 DEF Task
  <2> HIDE DEF j
  <2>3. ASSUME j.pc \in {"dispatch", "enqueue", "mark", "refuse"}
        PROVE  HandsOut(j, row', Built, Waiting')
    <3>1. PICK s \in Stages :
            /\ j.todo = {s} /\ j.ok /\ ~IsTerminal(j.copy[s])
            /\ Reached(s, row) /\ Ends(s, row, Waiting) /\ s \notin Built
            /\ s \notin Gates => j.pc \in {"dispatch", "enqueue"}
            /\ j.pc = "enqueue" => s \notin Gates /\ row[s] # "pending"
      BY <2>1, <2>3 DEF InPlace, HandsOut
    <3>2. Reached(s, row') /\ Ends(s, row', Waiting')
      BY <1>11, <1>12, <3>1
    <3>3. row[s] # "pending" => row'[s] # "pending"
      BY <1>9 DEF RowsGoOn
    <3> QED  BY <3>1, <3>2, <3>3 DEF HandsOut
  <2>4. ASSUME j.pc = "sync" PROVE Reads(j, row', Waiting')
    <3>1. Reads(j, row, Waiting)
      BY <2>1, <2>4 DEF InPlace
    <3>2. \A u \in Stages : j.copy[u] = row'[u] \/ (u \in Gates /\ row'[u] = "approval")
      <4>1. g \in Gates
        OBVIOUS
      <4> QED  BY <1>9, <3>1, <4>1 DEF Reads
    <3>3. \A u \in Stages : row'[u] # "pending" \/ u \in Waiting' => Reached(u, j.copy)
      <4>1. Reached(g, j.copy)
        BY <1>4, <1>10, <3>1 DEF Reads
      <4> QED  BY <1>9, <1>10, <3>1, <4>1 DEF Reads
    <3> QED  BY <3>1, <3>2, <3>3 DEF Reads
  <2>5. ASSUME j.task # Tick, j.pc # "none" PROVE Executes(j, row', Waiting')
    <3>1. Executes(j, row, Waiting) /\ j.task \in Stages
      BY <2>1, <2>2, <2>5 DEF InPlace
    <3>2. j.task # g
      <4>1. g \in Gates
        OBVIOUS
      <4> QED  BY <3>1, <4>1 DEF Executes
    <3>3. row'[j.task] = row[j.task]
      BY <1>9, <3>1, <3>2
    <3> QED  BY <1>11, <3>1, <3>3 DEF Executes
  <2>6. ASSUME j.pc = "wait" PROVE Waits(j, row')
    <3>1. PICK h \in Gates : j.todo = {h} /\ j.ok /\ ~IsTerminal(j.copy[h]) /\ Reached(h, row)
      BY <2>1, <2>6 DEF InPlace, Waits
    <3>2. h \in Stages
      BY StageGraphAssumption DEF Gates
    <3>3. Reached(h, row')
      BY <1>12, <3>1, <3>2
    <3> QED  BY <3>1, <3>3 DEF Waits
  <2>7. InPlace(j, row', Built, Waiting')
    BY <2>1, <2>3, <2>4, <2>5, <2>6 DEF InPlace
  <2> QED  BY <1>9, <2>7 DEF j
<1>14. AllPlaced'
  BY <1>8, <1>13, NoTaskPlaced DEF AllPlaced
<1>15. AllInRun'
  <2> SUFFICES ASSUME ~IsTerminalStatus(run), NEW k \in Slots, k # i
               PROVE  InRun(tasks[k], row', Built', Waiting')
    BY <1>1, <1>8, NoTaskPlaced DEF AllInRun
  <2>1. InRun(tasks[k], row, Built, Waiting)
    BY <1>7 DEF Queue, AllInRun
  <2>2. tasks[k].task # Tick => tasks[k].task \in Stages
    BY <1>7 DEF Task
  <2> QED  BY <1>9, <1>11, <2>1, <2>2 DEF InRun
<1>16. \A k \in Slots : tasks'[k].pc \notin {"none"} => tasks'[k] = tasks[k]
  BY <1>8, NoTaskPlaced
<1>17. OneLive' /\ FreshTimer'
  BY <1>1, <1>7, <1>16 DEF Queue, OneLive, FreshTimer, Live
<1>18. FreshStage'
  BY <1>7, <1>16 DEF Queue, FreshStage
<1>19. OneTaskPerStage'
  <2>1. \A k \in Slots : tasks'[k].task # Tick => tasks'[k] = tasks[k]
    BY <1>8, NoTaskPlaced
  <2> QED  BY <1>7, <1>16, <2>1 DEF OneTaskPerStage, TaskOf
<1>20. Mode'
  <2>1. \A k \in Slots : tasks[k].pc = "mark" => tasks'[k] = tasks[k]
    BY <1>1, <1>8
  <2>2. run = "running" => \A h \in Gates :
          /\ after'[h] = ""
          /\ req'[h] = "pending" => \E k \in Slots : tasks'[k].pc = "mark" /\ h \in tasks'[k].todo
    <3> SUFFICES ASSUME run = "running", NEW h \in Gates
                 PROVE  /\ after[h] = ""
                        /\ req[h] = "pending" =>
                              \E k \in Slots : tasks'[k].pc = "mark" /\ h \in tasks'[k].todo
      BY <1>1
    <3>1. /\ after[h] = ""
          /\ req[h] = "pending" => \E k \in Slots : tasks[k].pc = "mark" /\ h \in tasks[k].todo
      BY DEF Chain, Mode
    <3> QED  BY <2>1, <3>1
  <2>3. (\A k \in Slots : ~Live(tasks[k])) => \A k \in Slots : ~Live(tasks'[k])
    BY <1>8, NoTaskPlaced
  <2>4. \A h \in Gates : Busy(h)' = Busy(h)
    BY <1>1 DEF Busy
  <2>5. run # "pending"
    BY DEF Chain, Mode
  <2>6. run = "approval" =>
          /\ \A k \in Slots : ~Live(tasks'[k])
          /\ \A h, l \in Gates : Busy(h)' /\ Busy(l)' => h = l
          /\ \A h \in Gates : ~(req'[h] = "pending" /\ after'[h] # "")
    BY <1>1, <2>3, <2>4 DEF Chain, Mode
  <2> QED  BY <1>1, <2>2, <2>5, <2>6 DEF Mode
<1>21. Queue'
  BY <1>14, <1>15, <1>17, <1>18 DEF Queue
<1> QED  BY <1>9, <1>19, <1>20, <1>21 DEF Chain

-----------------------------------------------------------------------------
(* The pass of Sync                                                        *)

\* What the decided requests and RestoreFromDB make of a copy: the same stages
\* have begun, and what has failed stays failed.
LEMMA SyncedCopy ==
    ASSUME NEW copy \in [Stages -> DbStatus],
           req \in [Gates -> {"none", "pending", "approved", "rejected", "timeout"}],
           NEW rows, rows = Synced(copy),
           NEW old, old = [s \in Stages |-> Restored(rows[s])]
    PROVE  /\ old \in [Stages -> NodeStatus]
           /\ \A s \in Stages : old[s] = "pending" <=> copy[s] = "pending"
           /\ \A s \in Stages : copy[s] = "failed" => old[s] = "failed"
           /\ \A s \in Stages : rows[s] # copy[s] =>
                 s \in Gates /\ copy[s] = "approval" /\ rows[s] = DecidedAs(req[s])
           /\ \A s \in Gates : DecidedAs(req[s]) \in {"success", "failed", "approval"}
<1>1. \A s \in Gates : DecidedAs(req[s]) \in {"success", "failed", "approval"}
  BY DEF DecidedAs
<1>2. \A s \in Stages :
          rows[s] = IF s \in Gates /\ copy[s] = "approval" THEN DecidedAs(req[s]) ELSE copy[s]
  BY DEF Synced
<1>3. \A s \in Stages : rows[s] \in DbStatus
  BY <1>1, <1>2 DEF DbStatus, Terminal
<1>4. \A s \in Stages : rows[s] = "pending" <=> copy[s] = "pending"
  BY <1>1, <1>2
<1>5. \A s \in Stages : /\ Restored(rows[s]) \in NodeStatus
                        /\ Restored(rows[s]) = "pending" <=> rows[s] = "pending"
                        /\ rows[s] = "failed" => Restored(rows[s]) = "failed"
  BY <1>3 DEF Restored, DbStatus, NodeStatus, Active, Terminal
<1>6. \A s \in Stages : copy[s] = "failed" => rows[s] = "failed"
  BY <1>2
<1> QED  BY <1>1, <1>2, <1>4, <1>5, <1>6

LEMMA SyncChain ==
    ASSUME Calm, IInv, Chain, IInv', NEW i \in Slots, Sync(i)
    PROVE  Chain'
<1> DEFINE copy == tasks[i].copy
           rows == Synced(copy)
           old  == [s \in Stages |-> Restored(rows[s])]
<1>1. /\ tasks[i].pc = "sync"
      /\ row' = [s \in Stages |-> IF rows[s] # copy[s] THEN rows[s] ELSE row[s]]
      /\ UNCHANGED <<run, req, timer, after, passed, faults>>
  BY DEF Sync
<1>2. PICK new \in PassResults(old) :
        /\ IsPass(old, RestoredDispatched(rows), new)
        /\ Step(i, Dispatching([tasks[i] EXCEPT !.copy = new], Picked(old, new)))
  BY DEF Sync
<1>3. Live(tasks[i])
  BY <1>1 DEF Live
<1>4. /\ tasks[i] \in Task
      /\ InPlace(tasks[i], row, Built, Waiting)
      /\ IsTerminalStatus(run) \/ InRun(tasks[i], row, Built, Waiting)
      /\ tasks[i].task # Tick => Executes(tasks[i], row, Waiting) /\ tasks[i].task \in Stages
  BY <1>3, LiveFacts
<1>5. Reads(tasks[i], row, Waiting)
  BY <1>1, <1>4 DEF InPlace
<1>6. /\ old \in [Stages -> NodeStatus]
      /\ \A s \in Stages : old[s] = "pending" <=> copy[s] = "pending"
      /\ \A s \in Stages : copy[s] = "failed" => old[s] = "failed"
      /\ \A s \in Stages : rows[s] # copy[s] =>
            s \in Gates /\ copy[s] = "approval" /\ rows[s] = DecidedAs(req[s])
      /\ \A s \in Gates : DecidedAs(req[s]) \in {"success", "failed", "approval"}
  <2>1. copy \in [Stages -> DbStatus]
    BY <1>5 DEF Reads
  <2>2. req \in [Gates -> {"none", "pending", "approved", "rejected", "timeout"}]
    BY DEF IInv, TablesOK
  <2> HIDE DEF copy
  <2> QED  BY <2>1, <2>2, SyncedCopy
<1> HIDE DEF old, rows
<1>7. Begun(old)
  BY <1>5, <1>6, PendingKept DEF Reads
<1>8. \A u \in Stages : copy[u] = row[u] \/ (u \in Gates /\ row[u] = "approval")
  BY <1>5 DEF Reads
<1>9. /\ \A s \in Stages : row'[s] = "pending" <=> row[s] = "pending"
      /\ \A s \in Stages \ Gates : row'[s] = row[s]
  <2>1. \A s \in Stages : row'[s] = IF rows[s] # copy[s] THEN rows[s] ELSE row[s]
    BY <1>1
  <2> QED  BY <1>6, <1>8, <2>1
<1>10. RowsGoOn /\ Built' = Built
  BY <1>1, <1>9 DEF RowsGoOn, Built
<1>11. Rows'
  <2>1. RowsBegun'
    BY <1>9, PendingKept DEF Chain, Rows, RowsBegun
  <2>2. \A x \in Built : x \in Stages
    BY DEF IInv, TablesOK, Built
  <2>3. BuiltBegun'
    BY <1>10, <2>2 DEF Chain, Rows, BuiltBegun, RowsGoOn
  <2> QED  BY <2>1, <2>3 DEF Rows
<1>12. new \in [Stages -> NodeStatus]
  BY <1>6, PassKeeps
<1> DEFINE k == [tasks[i] EXCEPT !.copy = new]
<1>13. k \in Task /\ k.copy = new /\ k.task = tasks[i].task /\ k.ok = tasks[i].ok
  BY <1>4, <1>12 DEF Task
<1> DEFINE j == Dispatching(k, Picked(old, new))
<1>14. Step(i, j)
  BY <1>2
<1>15. j \in Task
  BY <1>14 DEF IInv, TasksOK, Step
<1> HIDE DEF k, j, copy
<1>16. Mode'
  BY <1>1, <1>3, ModeStays
<1>17. tasks \in [Slots -> Task] /\ Queue /\ OneTaskPerStage
  BY DEF IInv, TasksOK, Chain
<1>18. ASSUME j.pc # "wait" PROVE Waiting' = Waiting
  BY <1>1, <1>14, <1>17, <1>18, WaitingKept
<1>19. ASSUME NEW u \in Stages, Ends(u, row, Waiting) PROVE Ends(u, row', Waiting)
  BY <1>9, <1>19, PendingKept
<1>20. tasks[i].task # Tick => tasks[i].task \notin Gates /\ row'[tasks[i].task] # "pending"
  BY <1>4, <1>9 DEF Executes
<1>21. CASE Picked(old, new) = {}
  <2>1. j \in {[k EXCEPT !.pc = "final", !.todo = {}], Advanced(k)}
    BY <1>21 DEF j, Dispatching
  <2>2. CASE j = [k EXCEPT !.pc = "final", !.todo = {}]
    <3>1. j.pc = "final" /\ j.task = tasks[i].task /\ j.ok = tasks[i].ok
      BY <1>13, <2>2 DEF Task
    <3>2. Waiting' = Waiting
      BY <1>18, <3>1
    <3>3. InPlace(j, row', Built', Waiting')
      <4>1. j.task # Tick => Executes(j, row', Waiting')
        BY <1>20, <3>1 DEF Executes
      <4> QED  BY <1>4, <3>1, <4>1 DEF InPlace
    <3>4. IsTerminalStatus(run') \/ InRun(j, row', Built', Waiting')
      <4> SUFFICES ASSUME ~IsTerminalStatus(run) PROVE InRun(j, row', Built', Waiting')
        BY <1>1
      <4>1. j.task # Tick => Ends(j.task, row', Waiting')
        BY <1>1, <1>4, <1>19, <3>1, <3>2 DEF Executes
      <4>2. j.task # Tick /\ ~j.ok => j.task \notin Built'
        BY <1>4, <1>10, <3>1 DEF InRun
      <4> QED  BY <3>1, <4>1, <4>2 DEF InRun
    <3>5. Queue' /\ OneTaskPerStage'
      BY <1>3, <1>10, <1>14, <1>15, <1>17, <3>1, <3>3, <3>4, LiveStep
    <3> QED  BY <1>11, <1>16, <3>5 DEF Chain
  <2>3. CASE j = Advanced(k)
    <3>1. /\ \A w : InPlace(j, row', Built', w)
          /\ j.pc \in {"none", "queued", "fail", "exhausted"}
          /\ j.pc # "none" => j.task = tasks[i].task
      BY <1>13, <1>20, <2>3, AdvancedPlaced
    <3>2. Waiting' = Waiting
      BY <1>18, <3>1
    <3>3. IsTerminalStatus(run') \/ InRun(j, row', Built', Waiting')
      <4> SUFFICES ASSUME ~IsTerminalStatus(run) PROVE InRun(j, row', Built', Waiting')
        BY <1>1
      <4>1. k.task # Tick /\ ~k.ok => k.task \notin Built' /\ Ends(k.task, row', Waiting')
        <5>1. k.task # Tick => Ends(k.task, row', Waiting')
          BY <1>1, <1>4, <1>13, <1>19, <3>2 DEF Executes
        <5>2. k.task # Tick /\ ~k.ok => k.task \notin Built'
          BY <1>4, <1>10, <1>13 DEF InRun
        <5> QED  BY <5>1, <5>2
      <4>2. ~(k.task = Tick /\ ~k.ok)
        BY <1>4, <1>13 DEF InPlace
      <4> QED  BY <1>13, <1>20, <2>3, <4>1, <4>2, AdvancedPlaced
    <3>4. Queue' /\ OneTaskPerStage'
      BY <1>3, <1>10, <1>14, <1>15, <1>17, <3>1, <3>3, LiveStep
    <3> QED  BY <1>11, <1>16, <3>4 DEF Chain
  <2> QED  BY <2>1, <2>2, <2>3
<1>22. ASSUME NEW s \in Picked(old, new) PROVE Chain'
  <2>1. Picked(old, new) = {s}
    BY <1>2, <1>6, <1>7, OnePick DEF Calm
  <2>2. s \in Stages /\ old[s] = "pending" /\ new[s] \in Active /\ Reached(s, old)
    BY <1>2, <1>6, <1>7, PickIsNext DEF Calm
  <2>3. tasks[i].ok
    <3> SUFFICES ASSUME ~tasks[i].ok PROVE FALSE
      OBVIOUS
    <3>1. tasks[i].task \in Stages
      BY <1>4 DEF InPlace
    <3>2. /\ copy[tasks[i].task] = "failed"
          /\ \A u \in Stages : Before(tasks[i].task, u) => copy[u] = "pending"
      BY <1>5 DEF Reads, copy
    <3>3. Picked(old, new) = {}
      BY <1>2, <1>6, <1>7, <3>1, <3>2, NoPickAfterFailure DEF Calm
    <3> QED  BY <3>3
  <2>4. j = [k EXCEPT !.pc = "dispatch", !.todo = {s}]
    BY <2>1 DEF j, Dispatching
  <2>5. j.pc = "dispatch" /\ j.todo = {s} /\ j.ok /\ j.copy = new /\ j.task = tasks[i].task
    BY <1>13, <2>2, <2>3, <2>4 DEF Task
  <2>6. Waiting' = Waiting
    BY <1>18, <2>5
  <2>7. copy[s] = "pending"
    BY <1>6, <2>2
  <2>8. Reached(s, row')
    BY <1>6, <1>8, <1>9, <2>2 DEF Reached
  <2>9. Ends(s, row', Waiting)
    <3> SUFFICES ASSUME NEW u \in Stages, Before(s, u) PROVE row[u] = "pending" /\ u \notin Waiting
      BY <1>9 DEF Ends
    <3>1. ~Reached(u, copy)
      BY <2>2, <2>7 DEF Reached
    <3> QED  BY <1>5, <3>1 DEF Reads, copy
  <2>10. s \notin Gates => row[s] = "pending"
    BY <1>8, <2>2, <2>7
  <2>11. s \notin Built
    BY <2>10 DEF Chain, Rows, BuiltBegun, Built
  <2>12. ~IsTerminal(j.copy[s])
    BY <2>2, <2>5 DEF IsTerminal, Active, Terminal
  <2>13. HandsOut(j, row', Built', Waiting')
    BY <1>10, <2>2, <2>5, <2>6, <2>8, <2>9, <2>11, <2>12 DEF HandsOut
  <2>14. j.task # Tick => Executes(j, row', Waiting')
    BY <1>20, <2>5 DEF Executes
  <2>15. InPlace(j, row', Built', Waiting') /\ InRun(j, row', Built', Waiting')
    BY <2>5, <2>13, <2>14 DEF InPlace, InRun
  <2>16. \A x \in j.todo \ Gates : \A l \in Slots : tasks[l].pc = "none" \/ tasks[l].task # x
    <3> SUFFICES ASSUME s \notin Gates, NEW l \in Slots, tasks[l].pc # "none", tasks[l].task = s
                 PROVE  FALSE
      BY <2>5
    <3>1. s # Tick
      BY <2>2, RunEngineAssumption
    <3>2. Executes(tasks[l], row, Waiting)
      BY <1>17, <3>1 DEF Queue, AllPlaced, InPlace
    <3> QED  BY <2>10, <3>2 DEF Executes
  <2>17. Queue' /\ OneTaskPerStage'
    BY <1>3, <1>10, <1>14, <1>15, <1>17, <2>5, <2>15, <2>16, LiveStep
  <2> QED  BY <1>11, <1>16, <2>17 DEF Chain
<1> QED  BY <1>21, <1>22

-----------------------------------------------------------------------------
(* Approvals and the user, in a sequential pipeline                        *)

\* A step that leaves the queue and the rows alone.
LEMMA AsideStep ==
    ASSUME IInv, Chain, UNCHANGED <<tasks, row>>, Built' = Built, timer' \subseteq timer,
           IsTerminalStatus(run) => IsTerminalStatus(run'), Mode'
    PROVE  Chain'
<1>1. Rows'
  BY DEF Chain, Rows, RowsBegun, BuiltBegun
<1>2. Waiting' = Waiting
  BY DEF Waiting
<1>3. AllPlaced' /\ AllInRun'
  BY <1>2 DEF Chain, Queue, AllPlaced, AllInRun
<1>4. OneLive' /\ FreshStage' /\ FreshTimer'
  BY DEF Chain, Queue, OneLive, FreshStage, FreshTimer
<1>5. OneTaskPerStage'
  BY DEF Chain, OneTaskPerStage, TaskOf
<1> QED  BY <1>1, <1>3, <1>4, <1>5 DEF Chain, Queue

\* A decision of the request of g, while the run waits for it or has ended.
LEMMA DecisionKeepsMode ==
    ASSUME IInv, Chain, NEW g \in Gates, UNCHANGED <<run, tasks>>, run # "running",
           req[g] = "pending",
           NEW q \in {"approved", "rejected", "timeout"}, req' = [req EXCEPT ![g] = q],
           NEW a \in {"", "running", "failed", "timeout"}, after' = [after EXCEPT ![g] = a]
    PROVE  Mode'
<1>1. /\ req'[g] = q
      /\ \A h \in Gates : h # g => req'[h] = req[h] /\ after'[h] = after[h]
  BY DEF IInv, TablesOK
<1>2. \A h \in Gates : Busy(h)' => Busy(h)
  BY <1>1 DEF Busy
<1>3. ASSUME run = "approval"
      PROVE  /\ \A i \in Slots : ~Live(tasks'[i])
             /\ \A h, l \in Gates : Busy(h)' /\ Busy(l)' => h = l
             /\ \A h \in Gates : ~(req'[h] = "pending" /\ after'[h] # "")
  BY <1>1, <1>2, <1>3 DEF Chain, Mode
<1> QED  BY <1>3 DEF Chain, Mode

LEMMA VoteChain ==
    ASSUME IInv, Chain, NEW g \in Gates, Vote(g)
    PROVE  Chain'
<1>1. UNCHANGED <<run, row, timer, tasks, faults>> /\ run = "approval" /\ req[g] = "pending"
  BY DEF Vote
<1>2. Built' = Built
  BY DEF Vote, Built
<1>3. PICK q \in {"approved", "rejected"}, a \in {"running", "failed"} :
        req' = [req EXCEPT ![g] = q] /\ after' = [after EXCEPT ![g] = a]
  BY DEF Vote
<1>4. Mode'
  BY <1>1, <1>3, DecisionKeepsMode
<1> QED  BY <1>1, <1>2, <1>4, AsideStep

LEMMA TimeOutChain ==
    ASSUME IInv, Chain, NEW g \in Gates, TimeOut(g)
    PROVE  Chain'
<1>1. UNCHANGED <<run, row, tasks, faults>> /\ timer' = timer \ {g} /\ g \in timer /\ after[g] = ""
  BY DEF TimeOut
<1>2. Built' = Built
  BY DEF TimeOut, Built
<1>3. CASE req[g] # "pending"
  <2>1. UNCHANGED <<req, after>>
    BY <1>3 DEF TimeOut
  <2>2. Mode'
    BY <1>1, <2>1 DEF Chain, Mode, Busy
  <2> QED  BY <1>1, <1>2, <2>2, AsideStep
<1>4. CASE req[g] = "pending"
  <2>1. run # "running"
    <3> SUFFICES ASSUME run = "running" PROVE FALSE
      OBVIOUS
    <3>1. PICK i \in Slots : tasks[i].pc = "mark" /\ g \in tasks[i].todo
      BY <1>4 DEF Chain, Mode
    <3> QED  BY <1>1, <3>1 DEF Chain, Queue, FreshTimer
  <2>2. PICK q \in {"approved", "timeout"}, a \in {"", "running", "timeout"} :
          req' = [req EXCEPT ![g] = q] /\ after' = [after EXCEPT ![g] = a]
    <3>1. CASE OnTimeout[g] = "approve"
      BY <1>4, <3>1 DEF TimeOut
    <3>2. CASE OnTimeout[g] # "approve"
      <4>1. req' = [req EXCEPT ![g] = "timeout"]
        BY <1>4, <3>2 DEF TimeOut
      <4>2. PICK a : a = (IF OnTimeout[g] = "reject" THEN "timeout" ELSE "")
        OBVIOUS
      <4>3. after' = [after EXCEPT ![g] = a]
        BY <1>4, <3>2, <4>2 DEF TimeOut
      <4> QED  BY <4>1, <4>2, <4>3
    <3> QED  BY <3>1, <3>2
  <2>3. Mode'
    BY <1>1, <1>4, <2>1, <2>2, DecisionKeepsMode
  <2> QED  BY <1>1, <1>2, <2>3, AsideStep
<1> QED  BY <1>3, <1>4

LEMMA MoveRunChain ==
    ASSUME Calm, IInv, Chain, NEW g \in Gates, MoveRun(g)
    PROVE  Chain'
<1>1. /\ after[g] # "" /\ after' = [after EXCEPT ![g] = ""]
      /\ UNCHANGED <<row, req, timer, passed>>
  BY DEF MoveRun
<1>2. ~Fault
  BY NoFault DEF Calm, IInv
<1>3. /\ run' = IF Reaches(after[g]) THEN after[g] ELSE run
      /\ IF after[g] = "running" /\ Reaches("running")
         THEN /\ Free # {}
              /\ tasks' = [tasks EXCEPT ![Slot] = Queued(Tick)]
         ELSE UNCHANGED tasks
  BY <1>2 DEF MoveRun
<1>4. after[g] \in {"running", "failed", "timeout"}
  BY <1>1 DEF IInv, TablesOK
<1>5. run = "approval" \/ IsTerminalStatus(run)
  <2>1. run \in RunStatuses
    BY DEF IInv, TablesOK
  <2>2. run # "pending" /\ run # "running"
    BY <1>1 DEF Chain, Mode
  <2> QED  BY <2>1, <2>2 DEF RunStatuses, IsTerminalStatus
<1>6. Built' = Built
  BY <1>1 DEF Built
<1>7. /\ after'[g] = ""
      /\ \A h \in Gates : h # g => after'[h] = after[h]
  BY <1>1 DEF IInv, TablesOK
<1>8. CASE IsTerminalStatus(run)
  <2>1. ~Reaches("running")
    BY <1>8 DEF Reaches, CanTransition, IsTerminalStatus, TerminalStatus
  <2>2. Reaches(after[g]) => run = after[g]
    BY <1>8 DEF Reaches, CanTransition, IsTerminalStatus, TerminalStatus
  <2>3. UNCHANGED tasks /\ run' = run
    BY <1>3, <2>1, <2>2
  <2>4. Mode'
    BY <1>8, <2>3 DEF Mode, IsTerminalStatus, TerminalStatus
  <2> QED  BY <1>1, <1>6, <2>3, <2>4, AsideStep
<1>9. CASE run = "approval" /\ after[g] # "running"
  <2>1. Reaches(after[g])
    BY <1>4, <1>9 DEF Reaches, CanTransition
  <2>2. UNCHANGED tasks /\ IsTerminalStatus(run')
    BY <1>3, <1>4, <1>9, <2>1 DEF IsTerminalStatus, TerminalStatus
  <2>3. Mode'
    BY <2>2 DEF Mode, IsTerminalStatus, TerminalStatus
  <2> QED  BY <1>1, <1>6, <2>2, <2>3, AsideStep
<1>10. CASE run = "approval" /\ after[g] = "running"
  <2>1. Reaches("running")
    BY <1>10 DEF Reaches, CanTransition
  <2> DEFINE j == Queued(Tick)
             n == Slot
  <2>2. run' = "running" /\ Free # {} /\ tasks' = [tasks EXCEPT ![n] = j]
    BY <1>3, <1>10, <2>1
  <2>3. n \in Slots /\ tasks[n] = NoTask
    BY <2>2, SlotIsFree
  <2>4. tasks[n].pc = "none"
    BY <2>3, NoTaskPlaced
  <2>5. j.pc = "queued" /\ j.ok /\ j.task = Tick
    BY DEF Queued
  <2> HIDE DEF j, n
  <2>6. tasks \in [Slots -> Task] /\ Queue /\ OneTaskPerStage
    BY DEF IInv, TasksOK, Chain
  <2>7. \A k \in Slots : ~Live(tasks[k])
    BY <1>10 DEF Chain, Mode
  <2>8. \A k \in Slots : tasks'[k] = IF k = n THEN j
                                     ELSE IF k = n /\ Live(tasks[k]) THEN NoTask ELSE tasks[k]
    BY <2>2, <2>6
  <2>9. InPlace(j, row, Built, Waiting) /\ InRun(j, row, Built, Waiting)
    BY <2>5, QueuedPlaced
  <2>10. Queue' /\ OneTaskPerStage'
    BY <1>1, <1>6, <2>3, <2>4, <2>5, <2>6, <2>7, <2>8, <2>9, NewLiveStep
  <2>11. Rows'
    BY <1>1, RowsStay
  <2>12. Mode'
    <3>1. \A h \in Gates : Busy(h) => h = g
      BY <1>1, <1>10 DEF Chain, Mode, Busy
    <3>2. req[g] # "pending"
      BY <1>1, <1>10 DEF Chain, Mode
    <3>3. \A h \in Gates : after'[h] = "" /\ req'[h] # "pending"
      BY <1>1, <1>7, <3>1, <3>2 DEF Busy
    <3> QED  BY <2>2, <3>3 DEF Mode
  <2> QED  BY <2>10, <2>11, <2>12 DEF Chain
<1> QED  BY <1>5, <1>8, <1>9, <1>10

LEMMA CancelChain ==
    ASSUME IInv, Chain, Cancel
    PROVE  Chain'
<1>1. UNCHANGED <<row, req, timer, after, tasks, passed>> /\ run' = "canceled"
  BY DEF Cancel
<1>2. Mode'
  BY <1>1 DEF Mode
<1>3. Built' = Built /\ IsTerminalStatus(run')
  BY <1>1 DEF Built, IsTerminalStatus, TerminalStatus
<1> QED  BY <1>1, <1>2, <1>3, AsideStep

LEMMA ChainInitially ==
    ASSUME Calm, Init
    PROVE  Chain
<1>1. IInv /\ tasks \in [Slots -> Task]
  BY Initially DEF IInv, TasksOK
<1>2. run = "running"
  BY DEF Init, Calm
<1>3. /\ row = [s \in Stages |-> "pending"]
      /\ \A g \in Gates : req[g] = "none" /\ after[g] = ""
      /\ \A i \in Slots : tasks[i] = IF i = 1 THEN Queued(Tick) ELSE NoTask
      /\ Built = {}
  BY DEF Init, Built
<1>4. Queued(Tick).pc = "queued" /\ Queued(Tick).ok /\ Queued(Tick).task = Tick
  BY DEF Queued
<1>5. \A i \in Slots : /\ tasks[i].task = Tick
                       /\ tasks[i].pc \in {"none", "queued"}
                       /\ Live(tasks[i]) => i = 1
  BY <1>3, <1>4, NoTaskPlaced
<1>6. AllPlaced /\ AllInRun
  <2>1. InPlace(Queued(Tick), row, Built, Waiting) /\ InRun(Queued(Tick), row, Built, Waiting)
    BY <1>4, QueuedPlaced
  <2> QED  BY <1>3, <2>1, NoTaskPlaced DEF AllPlaced, AllInRun
<1>7. OneLive /\ FreshStage /\ FreshTimer
  BY <1>5 DEF OneLive, FreshStage, FreshTimer
<1>8. OneTaskPerStage
  BY <1>5 DEF OneTaskPerStage, TaskOf
<1>9. Rows
  BY <1>3 DEF Rows, RowsBegun, BuiltBegun, Begun
<1>10. Mode
  BY <1>2, <1>3 DEF Mode
<1> QED  BY <1>6, <1>7, <1>8, <1>9, <1>10 DEF Chain, Queue

LEMMA ChainSteps ==
    ASSUME Calm, IInv, Chain, [Next]_vars
    PROVE  Chain'
<1>1. IInv'
  BY StepKeeps
<1>2. ASSUME NEW i \in Slots, TaskStep(i) PROVE Chain'
  BY <1>1, <1>2, StartChain, ReportChain, LoadChain, ListChain, SyncChain, MarkStageRunningChain,
     EnqueueStageChain, InsertRequestChain, MarkApprovalChain, WaitChain, RefuseChain,
     FinalizeChain, FailRunChain
     DEF TaskStep
<1>3. ASSUME NEW i \in Slots, Crash(i) PROVE Chain'
  BY <1>3, NoFault DEF Crash, Calm, IInv
<1>4. ASSUME NEW g \in Gates, Vote(g) \/ TimeOut(g) \/ MoveRun(g) PROVE Chain'
  BY <1>4, VoteChain, TimeOutChain, MoveRunChain
<1>5. CASE Cancel
  BY <1>5, CancelChain
<1>6. CASE UNCHANGED vars
  <2>1. UNCHANGED <<run, row, req, timer, after, tasks, passed>>
    BY <1>6 DEF vars
  <2>2. Built' = Built
    BY <2>1 DEF Built
  <2>3. Mode'
    BY <2>1 DEF Chain, Mode, Busy
  <2> QED  BY <2>1, <2>2, <2>3, AsideStep
<1> QED  BY <1>2, <1>3, <1>4, <1>5, <1>6 DEF Next

\* In a sequential pipeline without faults two tasks never execute the same
\* stage, however many gates there are, however late a gate is marked, and
\* whatever requests are decided, timed out or opened again meanwhile
\* (scheduler.go:115, 305).
THEOREM StagesHandedOutOnce ==
    ASSUME Sequential, MaxFaults = 0, InitialRuns = {"running"}
    PROVE  Spec => []OneTaskPerStage
<1>1. Calm
  BY DEF Calm
<1>2. Init => IInv /\ Chain
  BY <1>1, Initially, ChainInitially
<1>3. IInv /\ Chain /\ [Next]_vars => (IInv /\ Chain)'
  BY <1>1, StepKeeps, ChainSteps
<1>4. IInv /\ Chain => OneTaskPerStage
  BY DEF Chain
<1> QED  BY <1>2, <1>3, <1>4, PTL DEF Spec

\* Only Start brings a task from the queue to its steps.
LEMMA OnlyStartExecutes ==
    ASSUME IInv, MaxFaults = 0, Next, NEW i \in Slots,
           tasks[i].pc = "queued", tasks'[i].pc = "executing"
    PROVE  Start(i)
<1>1. tasks \in [Slots -> Task] /\ tasks[i] \in Task /\ ~Fault
  BY NoFault DEF IInv, TasksOK
<1>2. ASSUME NEW k \in Slots, k # i, NEW j, Step(k, j) PROVE FALSE
  <2>1. tasks'[i] = tasks[i]
    BY <1>1, <1>2 DEF Step
  <2> QED  BY <2>1
<1>3. ASSUME NEW q \in [Slots -> Task], q[i].pc = "queued", NEW t,
             tasks' = [q EXCEPT ![Slot] = Queued(t)]
      PROVE  FALSE
  <2>1. tasks'[i] = q[i] \/ tasks'[i] = Queued(t)
    BY <1>3
  <2> QED  BY <1>3, <2>1 DEF Queued
<1>4. ASSUME TaskStep(i) PROVE Start(i)
  <2>1. Start(i) \/ Load(i)
    BY <1>4 DEF TaskStep, Report, List, Sync, MarkStageRunning, EnqueueStage, InsertRequest,
                MarkApproval, Wait, Refuse, Finalize, FailRun
  <2>2. ASSUME Load(i) PROVE FALSE
    <3>1. tasks[i].task = Tick
      BY <2>2 DEF Load
    <3>2. Advanced(tasks[i]).pc # "executing"
      BY <1>1, <3>1, AdvancedPlaced
    <3>3. [tasks[i] EXCEPT !.pc = "list"].pc = "list"
      BY <1>1 DEF Task
    <3>4. PICK j \in {Advanced(tasks[i]), [tasks[i] EXCEPT !.pc = "list"]} : Step(i, j)
      BY <2>2 DEF Load
    <3>5. tasks'[i] = j
      BY <1>1, <3>4 DEF Step
    <3> QED  BY <3>2, <3>3, <3>4, <3>5
  <2> QED  BY <2>1, <2>2
<1>5. ASSUME NEW k \in Slots, k # i, TaskStep(k) PROVE FALSE
  <2>1. CASE EnqueueStage(k)
    <3>1. PICK s \in Stages : tasks' = [tasks EXCEPT ![k] = Popped(k, s), ![Slot] = Queued(s)]
      BY <1>1, <2>1 DEF EnqueueStage
    <3> DEFINE q == [tasks EXCEPT ![k] = Popped(k, s)]
    <3>2. Popped(k, s) \in Task
      BY PoppedGood DEF IInv, Good, Knows
    <3>3. q \in [Slots -> Task] /\ q[i].pc = "queued"
      BY <1>1, <1>5, <3>2
    <3>4. tasks' = [q EXCEPT ![Slot] = Queued(s)]
      BY <3>1
    <3> HIDE DEF q
    <3> QED  BY <1>3, <3>3, <3>4
  <2>2. CASE Start(k) \/ Report(k) \/ Load(k) \/ List(k) \/ Sync(k) \/ MarkStageRunning(k)
    BY <1>2, <1>5, <2>2 DEF Start, Report, Load, List, Sync, MarkStageRunning
  <2>3. CASE \/ InsertRequest(k) \/ MarkApproval(k) \/ Wait(k)
             \/ Refuse(k) \/ Finalize(k) \/ FailRun(k)
    BY <1>2, <1>5, <2>3 DEF InsertRequest, MarkApproval, Wait, Refuse, Finalize, FailRun
  <2> QED  BY <1>5, <2>1, <2>2, <2>3 DEF TaskStep
<1>6. ASSUME NEW g \in Gates, MoveRun(g) PROVE FALSE
  <2>1. UNCHANGED tasks \/ tasks' = [tasks EXCEPT ![Slot] = Queued(Tick)]
    BY <1>6 DEF MoveRun
  <2> QED  BY <1>1, <1>3, <2>1
<1>7. ASSUME UNCHANGED tasks PROVE FALSE
  BY <1>7
<1> QED  BY <1>1, <1>4, <1>5, <1>6, <1>7 DEF Next, Crash, Vote, TimeOut, Cancel

\* In a sequential pipeline without faults a stage that has passed is not
\* executed again: a task is repeated only when its stage failed, or when the
\* run has ended and Start drops it.
THEOREM PassedStagesRest ==
    ASSUME Sequential, MaxFaults = 0, InitialRuns = {"running"}
    PROVE  Spec => PassedNotRepeated
<1>1. Calm
  BY DEF Calm
<1>2. Init => IInv /\ Chain
  BY <1>1, Initially, ChainInitially
<1>3. IInv /\ Chain /\ [Next]_vars => (IInv /\ Chain)'
  BY <1>1, StepKeeps, ChainSteps
<1>4. IInv /\ Chain /\ [Next]_vars =>
          [\A i \in Slots : tasks[i].pc = "queued" /\ tasks'[i].pc = "executing"
                            => TaskOf(i) \notin passed]_vars
  <2> SUFFICES ASSUME IInv, Chain, Next, NEW i \in Slots,
                      tasks[i].pc = "queued", tasks'[i].pc = "executing"
               PROVE  TaskOf(i) \notin passed
    OBVIOUS
  <2>1. Start(i)
    BY OnlyStartExecutes
  <2>2. tasks[i].task # Tick /\ Live(tasks[i])
    BY <2>1 DEF Start, Live
  <2>3. ~IsTerminalStatus(run)
    <3> SUFFICES ASSUME IsTerminalStatus(run) PROVE FALSE
      OBVIOUS
    <3>1. tasks'[i] = NoTask
      BY <2>1 DEF Start, Step, IInv, TasksOK
    <3> QED  BY <3>1, NoTaskPlaced
  <2>4. InRun(tasks[i], row, Built, Waiting) /\ Executes(tasks[i], row, Waiting)
    BY <2>2, <2>3, LiveFacts
  <2> QED  BY <2>2, <2>4 DEF InRun, Executes, Built, TaskOf
<1> QED  BY <1>2, <1>3, <1>4, PTL DEF Spec, PassedNotRepeated

\* A row becomes "failed" by a report, a sync or a refusal.
LEMMA FailingSteps ==
    ASSUME IInv, MaxFaults = 0, Next, NEW g \in Gates, row[g] # "failed", row'[g] = "failed"
    PROVE  \E i \in Slots :
              \/ Report(i) /\ tasks[i].task = g
              \/ Sync(i) /\ req[g] \in {"rejected", "timeout"}
              \/ Refuse(i)
<1>1. ~Fault /\ row \in [Stages -> DbStatus] /\ g \in Stages
  BY NoFault, StageGraphAssumption DEF IInv, TablesOK, Gates
<1>2. ASSUME NEW s, NEW v, Write(s, v) PROVE s = g /\ v = "failed"
  BY <1>1, <1>2 DEF Write
<1>3. ASSUME NEW i \in Slots, Report(i) PROVE tasks[i].task = g
  <2>1. PICK v : Write(tasks[i].task, v)
    BY <1>3 DEF Report
  <2> QED  BY <1>2, <2>1
<1>4. ASSUME NEW i \in Slots, Sync(i) PROVE req[g] \in {"rejected", "timeout"}
  <2>1. row' = [s \in Stages |-> IF Synced(tasks[i].copy)[s] # tasks[i].copy[s]
                                 THEN Synced(tasks[i].copy)[s] ELSE row[s]]
    BY <1>4 DEF Sync
  <2>2. row'[g] = IF Synced(tasks[i].copy)[g] # tasks[i].copy[g]
                  THEN Synced(tasks[i].copy)[g] ELSE row[g]
    BY <1>1, <2>1
  <2>3. Synced(tasks[i].copy)[g] # tasks[i].copy[g] /\ Synced(tasks[i].copy)[g] = "failed"
    BY <2>2
  <2>4. DecidedAs(req[g]) = "failed"
    BY <1>1, <2>3 DEF Synced
  <2> QED  BY <2>4 DEF DecidedAs
<1>5. ASSUME NEW i \in Slots, MarkStageRunning(i) \/ Wait(i) PROVE FALSE
  BY <1>2, <1>5 DEF MarkStageRunning, Wait
<1>6. ASSUME UNCHANGED row PROVE FALSE
  BY <1>6
<1>7. ASSUME NEW i \in Slots, TaskStep(i)
      PROVE  Report(i) \/ Sync(i) \/ Refuse(i)
  BY <1>5, <1>6, <1>7 DEF TaskStep, Start, Load, List, EnqueueStage, InsertRequest, MarkApproval,
                          Finalize, FailRun
<1> QED  BY <1>1, <1>3, <1>4, <1>6, <1>7 DEF Next, Crash, Vote, TimeOut, MoveRun, Cancel

\* In a sequential pipeline without faults a gate fails only by the decision of
\* a user or a timeout, or once the run has ended: CreateApproval never refuses
\* a gate of a running run, because no earlier request of it is still pending.
THEOREM GatesFailByDecision ==
    ASSUME Sequential, MaxFaults = 0, InitialRuns = {"running"}
    PROVE  Spec => GateFailsByDecision
<1>1. Calm
  BY DEF Calm
<1>2. Init => IInv /\ Chain
  BY <1>1, Initially, ChainInitially
<1>3. IInv /\ Chain /\ [Next]_vars => (IInv /\ Chain)'
  BY <1>1, StepKeeps, ChainSteps
<1>4. IInv /\ Chain /\ [Next]_vars =>
          [\A g \in Gates : row[g] # "failed" /\ row'[g] = "failed"
                            => req[g] \in {"rejected", "timeout"} \/ IsTerminalStatus(run)]_vars
  <2> SUFFICES ASSUME IInv, Chain, Next, NEW g \in Gates, row[g] # "failed", row'[g] = "failed"
               PROVE  req[g] \in {"rejected", "timeout"} \/ IsTerminalStatus(run)
    OBVIOUS
  <2>1. PICK i \in Slots : \/ Report(i) /\ tasks[i].task = g
                           \/ Sync(i) /\ req[g] \in {"rejected", "timeout"}
                           \/ Refuse(i)
    BY FailingSteps
  <2>2. CASE Report(i) /\ tasks[i].task = g
    <3>1. Live(tasks[i]) /\ tasks[i].task # Tick
      BY <2>2, RunEngineAssumption, StageGraphAssumption DEF Report, Live, Gates
    <3> QED  BY <2>2, <3>1, LiveFacts DEF Executes
  <2>3. CASE Refuse(i)
    <3>1. Live(tasks[i]) /\ tasks[i].pc = "refuse"
      BY <2>3 DEF Refuse, Live
    <3> QED  BY <3>1, LiveFacts DEF InRun
  <2> QED  BY <2>1, <2>2, <2>3
<1> QED  BY <1>2, <1>3, <1>4, PTL DEF Spec, GateFailsByDecision
=============================================================================
