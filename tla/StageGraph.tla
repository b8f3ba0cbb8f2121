----------------------------- MODULE StageGraph -----------------------------
(***************************************************************************)
(* The pure part of the stage engine (api/pkg/engine): the dependency      *)
(* graph of one pipeline and the decisions the scheduler takes on a map    *)
(* from stages to statuses.  The module has no variables: Scheduler uses   *)
(* these operators on the in-memory status map, RunEngine on the map that  *)
(* every orchestration tick rebuilds from the stages table.                *)
(***************************************************************************)
EXTENDS Naturals, Sequences, FiniteSets

CONSTANTS
    Stages,          \* the node ids of the DAG, after matrix expansion
    Order,           \* DAG.Order: the stages in the order the YAML lists them
    Needs,           \* Node.In: the stages a stage waits for
    If,              \* which of "always()", "failure()" occur in Stage.If
    ApprovalStages   \* the stages of type "approval"

Conditions == {"always", "failure"}

\* What BuildDAG and DetectCycles leave: every stage once in Order, edges only
\* between existing stages (dangling needs and self loops are dropped, and a
\* cycle makes buildDAG fail before a scheduler exists).
ASSUME StageGraphAssumption ==
    /\ Order \in Seq(Stages)
    /\ \A i, j \in DOMAIN Order : Order[i] = Order[j] => i = j
    /\ \A s \in Stages : \E i \in DOMAIN Order : Order[i] = s
    /\ Needs \in [Stages -> SUBSET Stages]
    /\ If \in [Stages -> SUBSET Conditions]
    /\ ApprovalStages \subseteq Stages

-----------------------------------------------------------------------------
(* Statuses                                                                *)

Terminal   == {"success", "failed", "skipped", "canceled"}
Active     == {"running", "waiting_approval"}
NodeStatus == {"pending", "ready"} \cup Active \cup Terminal

IsTerminal(st) == st \in Terminal

-----------------------------------------------------------------------------
(* The decision for one pending stage                                      *)

NeedsIn(status, s, st) == \E n \in Needs[s] : status[n] = st

\* Mutants: a needed stage that waits for an approval counts as done; one stage
\* that is done is enough.
WaitingCountsAsDone(status, s) ==
    \A n \in Needs[s] : IsTerminal(status[n]) \/ status[n] = "waiting_approval"
OneNeedIsEnough(status, s) ==
    Needs[s] = {} \/ \E n \in Needs[s] : IsTerminal(status[n])

NeedsDone(status, s) == \A n \in Needs[s] : IsTerminal(status[n])

\* Mutants: failure() also covers canceled; any condition asks for a failure.
FailureCoversCanceled(status, s) ==
    \/ NeedsIn(status, s, "canceled") /\ If[s] = {}
    \/ NeedsIn(status, s, "failed") /\ If[s] = {}
    \/ /\ ~NeedsIn(status, s, "failed")
       /\ \/ NeedsIn(status, s, "skipped") /\ "always" \notin If[s]
          \/ "failure" \in If[s]
AnyConditionNeedsFailure(status, s) ==
    \/ NeedsIn(status, s, "canceled") /\ "always" \notin If[s]
    \/ NeedsIn(status, s, "failed") /\ If[s] = {}
    \/ /\ ~NeedsIn(status, s, "failed")
       /\ \/ NeedsIn(status, s, "skipped") /\ "always" \notin If[s]
          \/ If[s] # {}

\* The stage must not run although every stage it needs is done.
MustSkip(status, s) ==
    \/ NeedsIn(status, s, "canceled") /\ "always" \notin If[s]
    \/ NeedsIn(status, s, "failed") /\ If[s] = {}
    \/ /\ ~NeedsIn(status, s, "failed")
       /\ \/ NeedsIn(status, s, "skipped") /\ "always" \notin If[s]
          \/ "failure" \in If[s]

\* computeReadyOrSkip.  A stage without needs is the case where MustSkip only
\* depends on its own condition.
ComputeReadyOrSkip(status, s) ==
    IF ~NeedsDone(status, s) THEN "pending"
    ELSE IF MustSkip(status, s) THEN "skipped" ELSE "ready"

-----------------------------------------------------------------------------
(* One pass of NextReady over DAG.Order                                    *)

\* The loop body for stage s, on the status map as the pass has left it so far.
Visit(status, dispatched, s) ==
    IF status[s] # "pending" \/ s \in dispatched
    THEN status[s]
    ELSE CASE ComputeReadyOrSkip(status, s) = "ready" ->
                  IF s \in ApprovalStages THEN "waiting_approval" ELSE "running"
           [] ComputeReadyOrSkip(status, s) = "skipped" -> "skipped"
           [] OTHER -> "pending"

\* a is visited before b.
Before(a, b) == \E i, j \in DOMAIN Order :
                    i < j /\ Order[i] = a /\ Order[j] = b

\* Mutant: the pass decides on the statuses from before the pass.
SeenBefore(s, old, new) == old

\* What the visit of s reads: the new status of the stages visited before it,
\* the old status of the others.
SeenBy(s, old, new) == [x \in Stages |-> IF Before(x, s) THEN new[x] ELSE old[x]]

\* new is the status map after one pass over old.
IsPass(old, dispatched, new) ==
    \A s \in Stages : new[s] = Visit(SeenBy(s, old, new), dispatched, s)

\* The maps a pass can possibly produce: only pending stages change.
PassResults(old) ==
    LET Pending == {s \in Stages : old[s] = "pending"}
    IN  { [s \in Stages |-> IF s \in Pending THEN f[s] ELSE old[s]] :
              f \in [Pending -> {"pending", "skipped"} \cup Active] }

\* The stages NextReady returns.
Picked(old, new) == {s \in Stages : old[s] = "pending" /\ new[s] \in Active}

-----------------------------------------------------------------------------
(* Done, Outcome and RestoreFromDB                                         *)

Done(status) == \A s \in Stages : IsTerminal(status[s])

Outcome(status) ==
    CASE \E s \in Stages : status[s] = "failed"   -> "failed"
      [] \A s \in Stages : status[s] # "failed"
         /\ \E t \in Stages : status[t] = "canceled" -> "canceled"
      [] \A s \in Stages : status[s] \notin {"failed", "canceled"}
         /\ Cardinality(Stages) = 1
         /\ \E t \in Stages : status[t] = "skipped" -> "skipped"
      [] OTHER -> "success"

\* The column values of stages.status.
DbStatus == {"pending", "running", "approval"} \cup Terminal

\* RestoreFromDB on a fresh scheduler: the status of a stage, from its row.
Restored(row) ==
    CASE row = "approval"             -> "waiting_approval"
      [] row \in {"running"} \cup Terminal -> row
      [] OTHER                        -> "pending"

\* RestoreFromDB: a running or waiting stage counts as handed out.
RestoredDispatched(rows) == {s \in DOMAIN rows : rows[s] \in {"running", "approval"}}
=============================================================================
