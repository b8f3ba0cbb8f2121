--------------------------- MODULE SchedulerProofs ---------------------------
(***************************************************************************)
(* Proofs about the stage engine for every pipeline.  First what one pass  *)
(* of NextReady changes and decides, for every graph: the lemmas that the  *)
(* proofs about RunEngine use as well.  Then Scheduler: the only thing a   *)
(* pass has to get right is that what it reads of a needed stage is final  *)
(* once it is terminal (SeenIsFinal); the invariants follow.               *)
(***************************************************************************)
EXTENDS Scheduler, WellFoundedInduction, TLAPS

-----------------------------------------------------------------------------
(* One pass over the stages                                                *)

\* A pass changes pending stages only.
LEMMA PassKeeps ==
    ASSUME NEW old \in [Stages -> NodeStatus], NEW new \in PassResults(old)
    PROVE  /\ new \in [Stages -> NodeStatus]
           /\ \A s \in Stages : old[s] # "pending" => new[s] = old[s]
           /\ \A s \in Stages : old[s] = "pending" =>
                  new[s] \in {"pending", "skipped"} \cup Active
<1> DEFINE Pending == {s \in Stages : old[s] = "pending"}
<1>1. PICK f \in [Pending -> {"pending", "skipped"} \cup Active] :
          new = [s \in Stages |-> IF s \in Pending THEN f[s] ELSE old[s]]
  BY DEF PassResults
<1>2. \A s \in Pending : f[s] \in {"pending", "skipped"} \cup Active
  BY <1>1
<1> QED  BY <1>1, <1>2 DEF NodeStatus, Active, Terminal

\* No stage is visited before itself: BuildDAG lists every stage once.
LEMMA NotBeforeItself == \A s \in Stages : ~Before(s, s)
<1> SUFFICES ASSUME NEW s \in Stages,
                    NEW i \in DOMAIN Order, NEW j \in DOMAIN Order,
                    i < j, Order[i] = s, Order[j] = s
             PROVE  FALSE
  BY DEF Before
<1>1. i = j  BY StageGraphAssumption
<1>2. i \in Nat  BY StageGraphAssumption
<1> QED  BY <1>1, <1>2

\* What a pass reads as terminal is still the status after the pass.
LEMMA SeenIsFinal ==
    ASSUME NEW old \in [Stages -> NodeStatus], NEW new \in PassResults(old),
           NEW s \in Stages, NEW n \in Stages,
           IsTerminal(SeenBy(s, old, new)[n])
    PROVE  new[n] = SeenBy(s, old, new)[n]
<1>1. SeenBy(s, old, new)[n] = IF Before(n, s) THEN new[n] ELSE old[n]
  BY DEF SeenBy
<1>2. CASE Before(n, s)  BY <1>1, <1>2
<1>3. CASE ~Before(n, s)
  <2>1. old[n] # "pending"  BY <1>1, <1>3 DEF IsTerminal, Terminal
  <2> QED  BY <2>1, <1>1, <1>3, PassKeeps
<1> QED  BY <1>2, <1>3

\* What a pass has decided about a pending stage, in terms of the new statuses.
LEMMA PassDecides ==
    ASSUME NEW old \in [Stages -> NodeStatus], NEW dispatched0,
           NEW new \in PassResults(old), IsPass(old, dispatched0, new),
           NEW s \in Stages, old[s] = "pending", new[s] # "pending"
    PROVE  /\ NeedsDone(new, s)
           /\ new[s] \in Active    => ~MustSkip(new, s)
           /\ new[s] = "skipped"   => MustSkip(new, s)
<1> DEFINE seen == SeenBy(s, old, new)
<1>1. seen[s] = "pending"
  BY NotBeforeItself DEF SeenBy
<1>2. new[s] = Visit(seen, dispatched0, s)
  BY DEF IsPass
<1>3. ComputeReadyOrSkip(seen, s) \in {"ready", "skipped"}
  BY <1>1, <1>2 DEF Visit
<1>4. NeedsDone(seen, s)
  BY <1>3 DEF ComputeReadyOrSkip
<1>5. \A n \in Needs[s] : n \in Stages /\ IsTerminal(seen[n])
  BY <1>4, StageGraphAssumption DEF NeedsDone
<1>6. \A n \in Needs[s] : new[n] = seen[n]
  BY <1>5, SeenIsFinal
<1>7. NeedsDone(new, s)
  BY <1>5, <1>6 DEF NeedsDone
<1>8. MustSkip(new, s) <=> MustSkip(seen, s)
  BY <1>6 DEF MustSkip, NeedsIn
<1>9. ASSUME new[s] \in Active PROVE ~MustSkip(seen, s)
  BY <1>1, <1>2, <1>4, <1>9 DEF Visit, ComputeReadyOrSkip, Active
<1>10. ASSUME new[s] = "skipped" PROVE MustSkip(seen, s)
  BY <1>1, <1>2, <1>4, <1>10 DEF Visit, ComputeReadyOrSkip
<1> QED  BY <1>7, <1>8, <1>9, <1>10

\* Of the stages in a set, one is visited first: the places in Order are
\* natural numbers.
LEMMA FirstVisited ==
    ASSUME NEW T \in SUBSET Stages, T # {}
    PROVE  \E s \in T : \A t \in T : ~Before(t, s)
<1> DEFINE Places == {i \in DOMAIN Order : Order[i] \in T}
<1>1. Places \subseteq Nat /\ Places # {}
  BY StageGraphAssumption
<1>2. PICK m \in Places : \A i \in Places : <<i, m>> \notin OpToRel(<, Nat)
  BY <1>1, WFMin, NatLessThanWellFounded, Zenon
<1>3. \A i \in Places : ~(i < m)
  BY <1>1, <1>2, Zenon DEF OpToRel
<1>4. ASSUME NEW t \in T, Before(t, Order[m]) PROVE FALSE
  <2>1. PICK i, j \in DOMAIN Order : i < j /\ Order[i] = t /\ Order[j] = Order[m]
    BY <1>4 DEF Before
  <2>2. j = m
    BY <2>1, StageGraphAssumption
  <2> QED  BY <2>1, <2>2, <1>3
<1> QED  BY <1>4

\* When no stage was skipped or canceled before a pass and no stage waits for a
\* failure, a pass skips a stage only if there is one that failed.
LEMMA SkipsAfterFailure ==
    ASSUME NEW old \in [Stages -> NodeStatus], NEW dispatched0,
           NEW new \in PassResults(old), IsPass(old, dispatched0, new),
           \A s \in Stages : old[s] \notin {"skipped", "canceled"},
           \A s \in Stages : "failure" \notin If[s],
           \E s \in Stages : new[s] = "skipped"
    PROVE  \E s \in Stages : new[s] = "failed"
<1> DEFINE Skipped == {s \in Stages : new[s] = "skipped"}
<1>1. PICK s \in Skipped : \A t \in Skipped : ~Before(t, s)
  BY FirstVisited
<1>2. s \in Stages /\ new[s] = "skipped" /\ old[s] = "pending"
  <2>1. old[s] # "pending" => new[s] = old[s]
    BY PassKeeps
  <2> QED  BY <2>1
<1> DEFINE seen == SeenBy(s, old, new)
<1>3. \A n \in Stages : seen[n] \notin {"skipped", "canceled"}
  <2>1. \A n \in Stages : new[n] # "canceled"
    BY PassKeeps DEF Active
  <2>2. \A n \in Stages : Before(n, s) => new[n] # "skipped"
    BY <1>1
  <2> QED  BY <2>1, <2>2 DEF SeenBy
<1>4. seen[s] = "pending" /\ new[s] = Visit(seen, dispatched0, s)
  BY <1>2, NotBeforeItself DEF SeenBy, IsPass
<1>5. MustSkip(seen, s)
  BY <1>2, <1>4 DEF Visit, ComputeReadyOrSkip
<1>6. \A n \in Needs[s] : n \in Stages
  BY <1>2, StageGraphAssumption
<1>7. PICK n \in Needs[s] : seen[n] = "failed"
  BY <1>2, <1>3, <1>5, <1>6 DEF MustSkip, NeedsIn
<1>8. new[n] = "failed"
  BY <1>2, <1>6, <1>7, SeenIsFinal DEF IsTerminal, Terminal
<1> QED  BY <1>6, <1>8

\* A stage without a condition that a pass picks needs only stages that were a
\* success before the pass.
LEMMA PickedAfterSuccess ==
    ASSUME NEW old \in [Stages -> NodeStatus], NEW dispatched0,
           NEW new \in PassResults(old), IsPass(old, dispatched0, new),
           NEW s \in Picked(old, new), If[s] = {}
    PROVE  \A n \in Needs[s] : n \in Stages /\ old[n] = "success"
<1>1. s \in Stages /\ old[s] = "pending" /\ new[s] \in Active
  BY DEF Picked
<1>2. NeedsDone(new, s) /\ ~MustSkip(new, s)
  BY <1>1, PassDecides DEF Active
<1>3. SUFFICES ASSUME NEW n \in Needs[s] PROVE n \in Stages /\ old[n] = "success"
  OBVIOUS
<1>4. n \in Stages
  BY <1>1, StageGraphAssumption
<1>5. new[n] = "success"
  BY <1>2 DEF NeedsDone, MustSkip, NeedsIn, IsTerminal, Terminal
<1>6. old[n] # "pending" => new[n] = old[n]
  BY <1>4, PassKeeps
<1>7. old[n] = "pending" => new[n] \in {"pending", "skipped"} \cup Active
  BY <1>4, PassKeeps
<1> QED  BY <1>4, <1>5, <1>6, <1>7 DEF Active

-----------------------------------------------------------------------------
(* The inductive invariant of Scheduler                                    *)

\* A stage is never "ready": a pass goes straight from pending to active.
NeverReady == \A s \in Stages : status[s] # "ready"

\* A stage that was handed out has left pending for good.
HandedLeft == \A s \in handed : status[s] # "pending"

\* The inductive invariant.
SchedulerInv ==
    /\ SchedulerTypeOK
    /\ NeverReady
    /\ DispatchedExact
    /\ HandedLeft
    /\ NeedsSettled
    /\ StartAllowed
    /\ SkipJustified

-----------------------------------------------------------------------------
(* One stage across a step                                                 *)

\* What the invariants say of one stage.
StageOK(s) ==
    /\ Started(s) => NeedsDone(status, s)
    /\ Started(s) =>
        /\ NeedsIn(status, s, "canceled") => "always" \in If[s]
        /\ NeedsIn(status, s, "failed")   => If[s] # {}
        /\ "failure" \in If[s]            => NeedsIn(status, s, "failed")
    /\ status[s] = "skipped" =>
        \/ \E n \in Needs[s] : status[n] \in {"failed", "skipped", "canceled"}
        \/ "failure" \in If[s]

TerminalKept == \A n \in Stages : IsTerminal(status[n]) => status'[n] = status[n]

LEMMA StagesOK == (NeedsSettled /\ StartAllowed /\ SkipJustified) <=> \A s \in Stages : StageOK(s)
BY DEF NeedsSettled, NeedsDone, StartAllowed, SkipJustified, StageOK

\* Once the stages that s needs are terminal, what s reads of them is fixed; so
\* a step that starts or skips nothing new at s keeps what holds of s.
LEMMA OldStage ==
    ASSUME NEW s \in Stages, StageOK(s), TerminalKept,
           Started(s)' => Started(s),
           status'[s] = "skipped" => status[s] = "skipped"
    PROVE  StageOK(s)'
<1>1. \A n \in Needs[s] : n \in Stages
  BY StageGraphAssumption
<1>2. ASSUME Started(s)'
      PROVE  /\ NeedsDone(status', s)
             /\ NeedsIn(status', s, "canceled") => "always" \in If[s]
             /\ NeedsIn(status', s, "failed")   => If[s] # {}
             /\ "failure" \in If[s]             => NeedsIn(status', s, "failed")
  <2>1. NeedsDone(status, s)
    BY <1>2 DEF StageOK
  <2>2. \A n \in Needs[s] : IsTerminal(status[n]) /\ status'[n] = status[n]
    BY <1>1, <2>1 DEF NeedsDone, TerminalKept
  <2>3. NeedsDone(status', s)
    BY <2>2 DEF NeedsDone
  <2>4. /\ NeedsIn(status', s, "canceled") => NeedsIn(status, s, "canceled")
        /\ NeedsIn(status', s, "failed") <=> NeedsIn(status, s, "failed")
    BY <2>2 DEF NeedsIn
  <2> QED  BY <1>2, <2>3, <2>4 DEF StageOK
<1>3. ASSUME status'[s] = "skipped", "failure" \notin If[s]
      PROVE  \E n \in Needs[s] : status'[n] \in {"failed", "skipped", "canceled"}
  <2>1. PICK n \in Needs[s] : status[n] \in {"failed", "skipped", "canceled"}
    BY <1>3 DEF StageOK
  <2>2. status'[n] = status[n]
    BY <1>1, <2>1 DEF TerminalKept, IsTerminal, Terminal
  <2> QED  BY <2>1, <2>2
<1> QED  BY <1>2, <1>3 DEF StageOK

\* A stage that the pass of NextReady has decided.
LEMMA DecidedStage ==
    ASSUME status \in [Stages -> NodeStatus], status' \in PassResults(status),
           IsPass(status, dispatched, status'),
           NEW s \in Stages, status[s] = "pending"
    PROVE  StageOK(s)'
<1>1. \A n \in Needs[s] : n \in Stages
  BY StageGraphAssumption
<1>2. status'[s] \in {"pending", "skipped"} \cup Active
  BY PassKeeps
<1>3. CASE status'[s] = "pending"
  BY <1>3 DEF StageOK, Started, Active
<1>4. CASE status'[s] = "skipped"
  <2>1. MustSkip(status', s)
    BY <1>4, PassDecides
  <2> QED  BY <1>4, <2>1 DEF StageOK, MustSkip, NeedsIn, Started, Active
<1>5. CASE status'[s] \in Active
  <2>1. NeedsDone(status', s) /\ ~MustSkip(status', s)
    BY <1>5, PassDecides DEF Active
  <2> QED  BY <1>5, <2>1 DEF StageOK, MustSkip, Active
<1> QED  BY <1>2, <1>3, <1>4, <1>5

-----------------------------------------------------------------------------
(* The actions                                                             *)

\* Terminal statuses are never overwritten, by no method and by no rebuild; a
\* rebuild even gives back every status, because none is ever "ready".
LEMMA RebuildIsIdentity ==
    ASSUME SchedulerTypeOK, NeverReady, DispatchedExact, Rebuild
    PROVE  status' = status /\ dispatched' = dispatched
<1>1. \A s \in Stages : Restored(Stored[s]) = status[s]
  BY DEF SchedulerTypeOK, NeverReady, Stored, Restored, NodeStatus, Active, Terminal
<1>2. status' = status
  BY <1>1 DEF Rebuild, SchedulerTypeOK
<1>3. \A s \in Stages : Stored[s] \in {"running", "approval"} <=> status[s] \in Active
  BY DEF SchedulerTypeOK, NeverReady, Stored, NodeStatus, Active, Terminal
<1>4. DOMAIN Stored = Stages
  BY DEF Stored
<1>5. dispatched' = dispatched
  BY <1>3, <1>4 DEF Rebuild, RestoredDispatched, DispatchedExact
<1> QED  BY <1>2, <1>5

\* What a call of NextReady does, without the search for the new map.
LEMMA NextReadyStep ==
    ASSUME SchedulerTypeOK, NextReady
    PROVE  /\ status' \in PassResults(status)
           /\ IsPass(status, dispatched, status')
           /\ status' \in [Stages -> NodeStatus]
           /\ dispatched' = dispatched \cup Picked(status, status')
           /\ handed' = handed \cup Picked(status, status')
           /\ caller' \in {"calling", "waiting", "stopped"}
<1>1. /\ status' \in PassResults(status)
      /\ IsPass(status, dispatched, status')
      /\ dispatched' = dispatched \cup Picked(status, status')
      /\ handed' = handed \cup Picked(status, status')
      /\ caller' \in {"calling", "waiting", "stopped"}
  BY DEF NextReady
<1>2. status' \in [Stages -> NodeStatus]
  BY <1>1, PassKeeps DEF SchedulerTypeOK
<1> QED  BY <1>1, <1>2

LEMMA StepKeepsTerminal ==
    ASSUME SchedulerInv, [SchedulerNext]_schedulerVars
    PROVE  TerminalKept
<1> USE DEF SchedulerInv
<1>1. CASE NextReady
  BY <1>1, NextReadyStep, PassKeeps DEF SchedulerTypeOK, TerminalKept, IsTerminal, Terminal
<1>2. ASSUME NEW s \in Stages, SomeComplete(s) PROVE TerminalKept
  BY <1>2 DEF SomeComplete, Complete, SchedulerTypeOK, TerminalKept
<1>3. CASE CancelAll
  BY <1>3 DEF CancelAll, SchedulerTypeOK, TerminalKept
<1>4. CASE Rebuild
  BY <1>4, RebuildIsIdentity DEF TerminalKept
<1>5. CASE UNCHANGED schedulerVars
  BY <1>5 DEF schedulerVars, TerminalKept
<1> QED  BY <1>1, <1>2, <1>3, <1>4, <1>5 DEF SchedulerNext

-----------------------------------------------------------------------------
(* The inductive invariant                                                 *)

LEMMA SchedulerStarts == SchedulerInit => SchedulerInv
<1> SUFFICES ASSUME SchedulerInit PROVE SchedulerInv
  OBVIOUS
<1>1. SchedulerTypeOK /\ NeverReady /\ DispatchedExact /\ HandedLeft
  BY DEF SchedulerInit, SchedulerTypeOK, NeverReady, DispatchedExact, HandedLeft, NodeStatus, Active
<1>2. \A s \in Stages : StageOK(s)
  BY DEF SchedulerInit, StageOK, Started, Active
<1> QED  BY <1>1, <1>2, StagesOK DEF SchedulerInv

LEMMA NextReadyKeeps ==
    ASSUME SchedulerInv, NextReady
    PROVE  SchedulerInv'
<1>1. SchedulerTypeOK
  BY DEF SchedulerInv
<1>2. \A s \in Stages : /\ status[s] # "pending" => status'[s] = status[s]
                        /\ status[s] = "pending" =>
                               status'[s] \in {"pending", "skipped"} \cup Active
  BY <1>1, NextReadyStep, PassKeeps DEF SchedulerTypeOK
<1>3. SchedulerTypeOK'
  BY <1>1, NextReadyStep DEF SchedulerTypeOK, Picked
<1>4. NeverReady'
  BY <1>2 DEF SchedulerInv, NeverReady, Active
<1>5. DispatchedExact'
  <2>1. dispatched' = {s \in Stages : status[s] \in Active} \cup Picked(status, status')
    BY <1>1, NextReadyStep DEF SchedulerInv, DispatchedExact
  <2>2. \A s \in Stages : status'[s] \in Active <=>
                              \/ status[s] \in Active
                              \/ status[s] = "pending" /\ status'[s] \in Active
    BY <1>2 DEF Active
  <2> QED  BY <2>1, <2>2 DEF DispatchedExact, Picked
<1>6. HandedLeft'
  BY <1>1, <1>2, NextReadyStep DEF SchedulerInv, SchedulerTypeOK, HandedLeft, Picked, Active
<1>7. ASSUME NEW s \in Stages PROVE StageOK(s)'
  <2>1. CASE status[s] = "pending"
    BY <1>1, <2>1, NextReadyStep, DecidedStage DEF SchedulerTypeOK
  <2>2. CASE status[s] # "pending"
    <3>1. status'[s] = status[s] /\ StageOK(s)
      BY <1>2, <2>2, StagesOK DEF SchedulerInv
    <3>2. TerminalKept
      BY StepKeepsTerminal DEF SchedulerNext
    <3> QED  BY <3>1, <3>2, OldStage DEF Started
  <2> QED  BY <2>1, <2>2
<1>8. (NeedsSettled /\ StartAllowed /\ SkipJustified)'
  BY <1>7 DEF StageOK, NeedsDone, NeedsSettled, StartAllowed, SkipJustified
<1> QED  BY <1>3, <1>4, <1>5, <1>6, <1>8 DEF SchedulerInv

\* The other actions start nothing and skip nothing.
LEMMA QuietKeeps ==
    ASSUME SchedulerInv, [SchedulerNext]_schedulerVars, SchedulerTypeOK', NeverReady', DispatchedExact', handed' = handed,
           \A s \in Stages : /\ Started(s)' => Started(s)
                             /\ status'[s] = "skipped" => status[s] = "skipped"
                             /\ status'[s] = "pending" => status[s] = "pending"
    PROVE  SchedulerInv'
<1>1. \A s \in Stages : StageOK(s)'
  BY StepKeepsTerminal, StagesOK, OldStage DEF SchedulerInv
<1>2. (NeedsSettled /\ StartAllowed /\ SkipJustified)'
  BY <1>1 DEF StageOK, NeedsDone, NeedsSettled, StartAllowed, SkipJustified
<1>3. HandedLeft'
  BY DEF SchedulerInv, SchedulerTypeOK, HandedLeft
<1> QED  BY <1>2, <1>3 DEF SchedulerInv

LEMMA CompleteKeeps ==
    ASSUME SchedulerInv, NEW s \in Stages, SomeComplete(s)
    PROVE  SchedulerInv'
<1>1. PICK r \in {"success", "failed", "canceled"} : Complete(s, r)
  BY DEF SomeComplete, Complete
<1>2. status[s] \in Active
  BY DEF SchedulerInv, DispatchedExact, SomeComplete
<1>3. status' = [status EXCEPT ![s] = r] /\ dispatched' = dispatched \ {s} /\ handed' = handed
  BY <1>1 DEF Complete
<1>4. SchedulerTypeOK'
  BY <1>1, <1>3 DEF SchedulerInv, SchedulerTypeOK, Complete, NodeStatus, Terminal
<1>5. NeverReady'
  BY <1>3 DEF SchedulerInv, SchedulerTypeOK, NeverReady
<1>6. DispatchedExact'
  BY <1>3 DEF SchedulerInv, SchedulerTypeOK, DispatchedExact, Active
<1>7. \A t \in Stages : /\ Started(t)' => Started(t)
                        /\ status'[t] = "skipped" => status[t] = "skipped"
                        /\ status'[t] = "pending" => status[t] = "pending"
  BY <1>2, <1>3 DEF SchedulerInv, SchedulerTypeOK, Started, Active
<1> QED  BY <1>3, <1>4, <1>5, <1>6, <1>7, QuietKeeps DEF SchedulerNext

LEMMA CancelAllKeeps ==
    ASSUME SchedulerInv, CancelAll
    PROVE  SchedulerInv'
<1>1. status' = [s \in Stages |-> IF IsTerminal(status[s]) THEN status[s] ELSE "canceled"]
  BY DEF CancelAll
<1>2. SchedulerTypeOK'
  BY <1>1 DEF SchedulerInv, CancelAll, SchedulerTypeOK, NodeStatus, Terminal
<1>3. NeverReady' /\ DispatchedExact'
  BY <1>1 DEF SchedulerInv, CancelAll, NeverReady, DispatchedExact, IsTerminal, Terminal, Active
<1>4. \A s \in Stages : /\ Started(s)' => Started(s)
                        /\ status'[s] = "skipped" => status[s] = "skipped"
                        /\ status'[s] = "pending" => status[s] = "pending"
  BY <1>1 DEF Started, Active
<1> QED  BY <1>2, <1>3, <1>4, QuietKeeps DEF CancelAll, SchedulerNext

LEMMA RebuildKeeps ==
    ASSUME SchedulerInv, Rebuild
    PROVE  SchedulerInv'
<1>1. status' = status /\ dispatched' = dispatched /\ handed' = handed
  BY RebuildIsIdentity DEF SchedulerInv, Rebuild
<1>2. SchedulerTypeOK' /\ NeverReady' /\ DispatchedExact'
  BY <1>1 DEF SchedulerInv, Rebuild, SchedulerTypeOK, NeverReady, DispatchedExact
<1> QED  BY <1>1, <1>2, QuietKeeps DEF Started, SchedulerNext

LEMMA SchedulerKeeps == SchedulerInv /\ [SchedulerNext]_schedulerVars => SchedulerInv'
<1> SUFFICES ASSUME SchedulerInv, [SchedulerNext]_schedulerVars PROVE SchedulerInv'
  OBVIOUS
<1>1. CASE NextReady
  BY <1>1, NextReadyKeeps
<1>2. ASSUME NEW s \in Stages, SomeComplete(s) PROVE SchedulerInv'
  BY <1>2, CompleteKeeps
<1>3. CASE CancelAll
  BY <1>3, CancelAllKeeps
<1>4. CASE Rebuild
  BY <1>4, RebuildKeeps
<1>5. CASE UNCHANGED schedulerVars
  BY <1>5 DEF schedulerVars, SchedulerInv, SchedulerTypeOK, NeverReady, DispatchedExact, HandedLeft,
              NeedsSettled, StartAllowed, SkipJustified, Started, NeedsDone, NeedsIn
<1> QED  BY <1>1, <1>2, <1>3, <1>4, <1>5 DEF SchedulerNext

-----------------------------------------------------------------------------
(* The theorems                                                            *)

\* The invariants hold of every pipeline in every order: statuses are typed,
\* a started stage has settled needs and a reason to run, a skipped stage has a
\* reason to be skipped, and dispatched is what is out with the caller.
THEOREM Safety ==
    SchedulerSpec => []SchedulerTypeOK /\ []NeedsSettled /\ []StartAllowed /\ []SkipJustified
            /\ []DispatchedExact
<1>1. SchedulerInv => SchedulerTypeOK /\ NeedsSettled /\ StartAllowed /\ SkipJustified /\ DispatchedExact
  BY DEF SchedulerInv
<1> QED  BY SchedulerStarts, SchedulerKeeps, <1>1, PTL DEF SchedulerSpec

\* Terminal statuses never change (scheduler.go:22).
THEOREM TerminalStays == SchedulerSpec => TerminalAbsorbing
<1>1. SchedulerInv /\ [SchedulerNext]_schedulerVars =>
          [\A s \in Stages : IsTerminal(status[s]) => status'[s] = status[s]]_schedulerVars
  BY StepKeepsTerminal DEF TerminalKept
<1> QED  BY SchedulerStarts, SchedulerKeeps, <1>1, PTL DEF SchedulerSpec, TerminalAbsorbing

\* NextReady never returns a stage twice (scheduler.go:115), across rebuilds.
THEOREM HandedOnce == SchedulerSpec => NeverHandedTwice
<1>1. SchedulerInv /\ [SchedulerNext]_schedulerVars => [\A s \in Picked(status, status') : s \notin handed]_schedulerVars
  BY DEF SchedulerInv, HandedLeft, Picked
<1> QED  BY SchedulerStarts, SchedulerKeeps, <1>1, PTL DEF SchedulerSpec, NeverHandedTwice

\* Every step of the scheduler is a step of the lifecycle or leaves it alone.
LEMMA StepRefines ==
    ASSUME SchedulerInv, SchedulerInv', [SchedulerNext]_schedulerVars
    PROVE  [Lifecycle!Next]_Phase
<1> DEFINE started == {s \in Stages : status[s] = "pending" /\ status'[s] \in Active}
           ended   == {s \in Stages : ~IsTerminal(status[s]) /\ IsTerminal(status'[s])}
<1>1. \A s \in Stages : /\ status[s] \in {"pending"} \cup Active \cup Terminal
                        /\ status'[s] \in {"pending"} \cup Active \cup Terminal
  BY DEF SchedulerInv, SchedulerTypeOK, NeverReady, NodeStatus
<1>2. \A s \in Stages : IsTerminal(status[s]) => status'[s] = status[s]
  BY StepKeepsTerminal DEF TerminalKept
<1>3. \A s \in Stages : status[s] \in Active => status'[s] # "pending"
  <2>1. CASE NextReady
    BY <2>1, NextReadyStep, PassKeeps DEF SchedulerInv, SchedulerTypeOK, Active
  <2>2. ASSUME NEW s \in Stages, SomeComplete(s)
        PROVE  \A t \in Stages : status[t] \in Active => status'[t] # "pending"
    BY <2>2 DEF SomeComplete, Complete, SchedulerInv, SchedulerTypeOK, Active
  <2>3. CASE CancelAll
    BY <2>3 DEF CancelAll, Active
  <2>4. CASE Rebuild
    BY <2>4, RebuildIsIdentity DEF SchedulerInv, Active
  <2>5. CASE UNCHANGED schedulerVars
    BY <2>5 DEF schedulerVars, Active
  <2> QED  BY <2>1, <2>2, <2>3, <2>4, <2>5 DEF SchedulerNext
<1>4. \A s \in Stages :
          Phase'[s] = IF s \in ended THEN "final"
                      ELSE IF s \in started THEN "active" ELSE Phase[s]
  BY <1>1, <1>2, <1>3 DEF Phase, IsTerminal, Terminal, Active
<1>5. Phase' = [s \in Stages |-> CASE s \in ended -> "final"
                                   [] s \in started \ ended -> "active"
                                   [] OTHER -> Phase[s]]
  BY <1>4 DEF Phase
<1>6. \A s \in started : Phase[s] = "idle"
  BY DEF Phase, IsTerminal, Terminal, Active
<1>7. \A s \in ended : Phase[s] # "final"
  BY <1>1 DEF Phase, IsTerminal, Terminal, Active
<1>8. \A s \in started : \A n \in Needs[s] : Phase'[n] = "final"
  <2> SUFFICES ASSUME NEW s \in started, NEW n \in Needs[s] PROVE Phase'[n] = "final"
    OBVIOUS
  <2>1. n \in Stages
    BY StageGraphAssumption
  <2>2. IsTerminal(status'[n])
    BY DEF SchedulerInv, NeedsSettled, Started, NeedsDone
  <2> QED  BY <2>1, <2>2 DEF Phase, IsTerminal, Terminal, Active
<1>9. Lifecycle!Step(started, ended)
  BY <1>5, <1>6, <1>7, <1>8 DEF Lifecycle!Step
<1>10. started \in SUBSET Stages /\ ended \in SUBSET Stages
  OBVIOUS
<1> QED  BY <1>9, <1>10 DEF Lifecycle!Next

\* The scheduler implements the lifecycle of a stage.
THEOREM Refinement == SchedulerSpec => ImplementsLifecycle
<1>1. SchedulerInit => Lifecycle!Init
  BY DEF SchedulerInit, Lifecycle!Init, Phase, Active, IsTerminal, Terminal
<1> QED  BY SchedulerStarts, SchedulerKeeps, <1>1, StepRefines, PTL
         DEF SchedulerSpec, ImplementsLifecycle, Lifecycle!Spec
=============================================================================
