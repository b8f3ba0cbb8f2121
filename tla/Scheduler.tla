------------------------------ MODULE Scheduler ------------------------------
(***************************************************************************)
(* The Scheduler object of api/pkg/engine/scheduler.go and the loop its    *)
(* documentation asks callers to run.  Every method holds the mutex from   *)
(* start to end, so every method is one step.                              *)
(***************************************************************************)
EXTENDS StageGraph

VARIABLES
    status,       \* Scheduler.status: the status of every stage
    dispatched,   \* Scheduler.dispatched: handed out, not yet completed
    caller,       \* the caller's loop: "calling", "waiting" for a Complete, "stopped"
    handed        \* history: the stages NextReady has ever returned

schedulerVars == <<status, dispatched, caller, handed>>

SchedulerTypeOK ==
    /\ status \in [Stages -> NodeStatus]
    /\ dispatched \subseteq Stages
    /\ caller \in {"calling", "waiting", "stopped"}
    /\ handed \subseteq Stages

-----------------------------------------------------------------------------

\* NewScheduler, at the top of the caller's loop.
SchedulerInit ==
    /\ status = [s \in Stages |-> "pending"]
    /\ dispatched = {}
    /\ caller = "calling"
    /\ handed = {}

\* The loop calls NextReady again as long as it returns something; on an empty
\* result it stops when Done and otherwise blocks until a Complete.
NextReady ==
    /\ caller = "calling"
    /\ \E new \in PassResults(status) :
        /\ IsPass(status, dispatched, new)
        /\ status' = new
        /\ dispatched' = dispatched \cup Picked(status, new)
        /\ handed' = handed \cup Picked(status, new)
        /\ caller' = IF Picked(status, new) # {} THEN "calling"
                     ELSE IF Done(new) THEN "stopped" ELSE "waiting"

\* The stage the caller was handed has ended with result.
Complete(s, result) ==
    /\ ~IsTerminal(status[s])
    /\ result \in {"success", "failed", "canceled"}
    /\ status' = [status EXCEPT ![s] = result]
    /\ dispatched' = dispatched \ {s}
    /\ caller' = IF caller = "waiting" THEN "calling" ELSE caller
    /\ UNCHANGED handed

\* CancelAll: everything that is not terminal becomes canceled.  It wakes nobody.
CancelAll ==
    /\ ~Done(status)
    /\ status' = [s \in Stages |-> IF IsTerminal(status[s]) THEN status[s]
                                   ELSE "canceled"]
    /\ dispatched' = {s \in dispatched : IsTerminal(status[s])}
    /\ UNCHANGED <<caller, handed>>

\* What the caller has stored for every stage when the process ends.
Stored == [s \in Stages |->
              CASE status[s] = "waiting_approval"      -> "approval"
                [] status[s] \in {"pending", "ready"}  -> "pending"
                [] OTHER                               -> status[s]]

\* The process restarts: NewScheduler, RestoreFromDB, and the loop begins again.
Rebuild ==
    /\ caller # "stopped"
    /\ status' = [s \in Stages |-> Restored(Stored[s])]
    /\ dispatched' = RestoredDispatched(Stored)
    /\ caller' = "calling"
    /\ UNCHANGED handed

\* Callers report only stages that were handed out to them.
SomeComplete(s) == s \in dispatched /\ \E r \in Terminal : Complete(s, r)

SchedulerNext ==
    \/ NextReady
    \/ \E s \in Stages : SomeComplete(s)
    \/ CancelAll
    \/ Rebuild

SchedulerSpec == SchedulerInit /\ [][SchedulerNext]_schedulerVars

\* The loop goes on, and every stage that was handed out ends some day.
SchedulerFairness ==
    /\ WF_schedulerVars(NextReady)
    /\ \A s \in Stages : WF_schedulerVars(SomeComplete(s))

SchedulerFairSpec == SchedulerSpec /\ SchedulerFairness

-----------------------------------------------------------------------------
(* Safety                                                                  *)

Started(s) == status[s] \in Active \cup {"success", "failed"}

\* A stage that has started only needs stages that are done: the pass never
\* hands out a stage on the strength of a status that can still change
\* (scheduler.go, computeReadyOrSkip and the terminal states of the header).
NeedsSettled ==
    \A s \in Stages : Started(s) => \A n \in Needs[s] : IsTerminal(status[n])

\* A stage with a needed stage that failed or was canceled has started only
\* because its condition asks for it ("failure propagation", scheduler.go:24).
StartAllowed ==
    \A s \in Stages : Started(s) =>
        /\ NeedsIn(status, s, "canceled") => "always" \in If[s]
        /\ NeedsIn(status, s, "failed")   => If[s] # {}
        /\ "failure" \in If[s]            => NeedsIn(status, s, "failed")

\* No stage is skipped without a reason: some stage it needs was not a success,
\* or it was only there for a failure.
SkipJustified ==
    \A s \in Stages : status[s] = "skipped" =>
        \/ \E n \in Needs[s] : status[n] \in {"failed", "skipped", "canceled"}
        \/ "failure" \in If[s]

\* dispatched is exactly the set of stages that are out with the caller, also
\* after RestoreFromDB has rebuilt it.
DispatchedExact == dispatched = {s \in Stages : status[s] \in Active}

\* A terminal status never changes (scheduler.go:22), not even by a rebuild.
TerminalAbsorbing ==
    [][\A s \in Stages : IsTerminal(status[s]) => status'[s] = status[s]]_schedulerVars

\* NextReady never returns a stage a second time (scheduler.go:115), not even
\* when the scheduler was rebuilt from the database in between.
NeverHandedTwice ==
    [][\A s \in Picked(status, status') : s \notin handed]_schedulerVars

\* The engine implements the lifecycle it promises.
Phase == [s \in Stages |-> CASE status[s] \in Active -> "active"
                             [] IsTerminal(status[s]) -> "final"
                             [] OTHER -> "idle"]

Lifecycle == INSTANCE StageLifecycle WITH phase <- Phase

ImplementsLifecycle == Lifecycle!Spec

-----------------------------------------------------------------------------
(* Liveness                                                                *)

\* The loop of the documentation (scheduler.go:60) ends with every stage done.
EventuallyDone == <>[]Done(status)
=============================================================================
