--------------------------- MODULE RunStateProofs ---------------------------
(***************************************************************************)
(* Proofs about RunState for any number of concurrent calls.  The argument *)
(* is the row lock: only its holder is inside a transaction, and what the  *)
(* holder has read is still the committed row.                             *)
(***************************************************************************)
EXTENDS RunState, TLAPS

\* Exactly the holder of the row lock is between its SELECT and its end.
LockHeld == \A c \in Callers : pc[c] # "idle" <=> lock = c

\* The holder's row is the committed row, before or after its change.
RowFollows ==
    \A c \in Callers : pc[c] # "idle" =>
        /\ CanTransition(run.status, to[c])
        /\ pc[c] = "selected" => row[c] = run
        /\ pc[c] \in {"updated", "audited"} => row[c] = Written(run, to[c], c)

\* No audited change leads back to pending.
AuditLeavesPending == \A i \in 1 .. Len(audit) : audit[i].to # "pending"

\* The inductive invariant.
IInv ==
    /\ TypeOK
    /\ LockHeld
    /\ RowFollows
    /\ NeverRaced
    /\ AckedEndIsTheEnd
    /\ TimesMatch
    /\ AuditLeavesPending
    /\ AuditPath

LEMMA Initially == Init => IInv
BY RunStateAssumption
   DEF Init, IInv, TypeOK, LockHeld, RowFollows, NeverRaced, AckedEndIsTheEnd, TimesMatch,
       AuditLeavesPending, AuditPath, NewRun, Rows, Times, RunStatuses, TerminalStatus,
       IsTerminalStatus, Entries

\* The row that Transition writes is a row, and its times match its status.
LEMMA WrittenMatches ==
    ASSUME TypeOK, TimesMatch, NEW c \in Callers, NEW t \in RunStatuses,
           CanTransition(run.status, t)
    PROVE  LET r == Written(run, t, c) IN
           /\ r \in Rows
           /\ r.status = t
           /\ run.started # None => r.started = run.started
           /\ r.finished # None <=> IsTerminalStatus(t)
           /\ t \in {"running", "approval", "success", "timeout"} => r.started # None
           /\ t # "pending"
BY RunStateAssumption
   DEF TypeOK, TimesMatch, Written, CanTransition, Rows, Times, IsTerminalStatus,
       TerminalStatus, RunStatuses

\* A step that leaves the row and the audit log alone.
LEMMA QuietKeeps ==
    ASSUME IInv, TypeOK', run' = run, audit' = audit, acked' = acked
    PROVE  (AckedEndIsTheEnd /\ TimesMatch /\ AuditLeavesPending /\ AuditPath)'
BY DEF IInv, AckedEndIsTheEnd, TimesMatch, AuditLeavesPending, AuditPath

LEMMA SelectKeeps ==
    ASSUME IInv, NEW c \in Callers, NEW t \in Targets, Select(c, t)
    PROVE  IInv'
<1> USE DEF IInv
<1>1. CASE Return(c, t)
  <2>1. TypeOK' /\ LockHeld' /\ RowFollows' /\ NeverRaced'
    BY <1>1 DEF Return, TypeOK, LockHeld, RowFollows, NeverRaced, Targets
  <2>2. AckedEndIsTheEnd'
    BY <1>1 DEF Return, AckedEndIsTheEnd
  <2>3. (TimesMatch /\ AuditLeavesPending /\ AuditPath)'
    BY <1>1 DEF Return, TimesMatch, AuditLeavesPending, AuditPath
  <2> QED  BY <2>1, <2>2, <2>3
<1>2. CASE GoOn(c, t)
  <2>1. TypeOK'
    BY <1>2 DEF GoOn, TypeOK, Targets
  <2>2. LockHeld' /\ RowFollows' /\ NeverRaced'
    BY <1>2, RunStateAssumption
       DEF GoOn, Select, TypeOK, LockHeld, RowFollows, NeverRaced
  <2> QED  BY <1>2, <2>1, <2>2, QuietKeeps DEF GoOn
<1> QED  BY <1>1, <1>2 DEF Select

LEMMA UpdateKeeps ==
    ASSUME IInv, NEW c \in Callers, Update(c)
    PROVE  IInv'
<1> USE DEF IInv
<1>1. /\ pc[c] = "selected" /\ lock = c /\ row[c] = run
      /\ CanTransition(run.status, to[c]) /\ to[c] \in RunStatuses
  BY DEF Update, LockHeld, RowFollows, TypeOK
<1>2. /\ lock' = lock
      /\ row' = [row EXCEPT ![c] = Written(run, to[c], c)]
      /\ pc' = [pc EXCEPT ![c] = "updated"]
      /\ UNCHANGED <<run, audit, to, acked>>
  BY <1>1 DEF Update
<1>3. Written(run, to[c], c) \in Rows
  BY <1>1, WrittenMatches
<1>4. TypeOK'
  BY <1>2, <1>3 DEF TypeOK
<1>5. LockHeld' /\ RowFollows' /\ NeverRaced'
  BY <1>1, <1>2 DEF TypeOK, LockHeld, RowFollows, NeverRaced
<1> QED  BY <1>2, <1>4, <1>5, QuietKeeps

LEMMA InsertKeeps ==
    ASSUME IInv, NEW c \in Callers, Insert(c)
    PROVE  IInv'
<1> USE DEF IInv
<1>1. TypeOK'
  BY DEF Insert, TypeOK
<1>2. LockHeld' /\ RowFollows' /\ NeverRaced'
  BY DEF Insert, TypeOK, LockHeld, RowFollows, NeverRaced
<1> QED  BY <1>1, <1>2, QuietKeeps DEF Insert

LEMMA CommitKeeps ==
    ASSUME IInv, NEW c \in Callers, Commit(c)
    PROVE  IInv'
<1> USE DEF IInv
<1>1. /\ lock = c /\ to[c] \in RunStatuses /\ CanTransition(run.status, to[c])
      /\ run' = Written(run, to[c], c)
  BY DEF Commit, LockHeld, RowFollows, TypeOK
<1>2. /\ run' \in Rows /\ run'.status = to[c] /\ to[c] # "pending"
      /\ run'.finished # None <=> IsTerminalStatus(to[c])
      /\ to[c] \in {"running", "approval", "success", "timeout"} => run'.started # None
  BY <1>1, WrittenMatches
<1>3. Entry(c) \in Entries /\ Entry(c).from = run.status /\ Entry(c).to = to[c]
  BY <1>1 DEF Entry, Entries, TypeOK, Rows
<1>4. audit' = Append(audit, Entry(c))
  BY DEF Commit
<1>5. TypeOK'
  BY <1>1, <1>2, <1>3 DEF Commit, End, TypeOK, NewRun, Rows, Times, RunStatuses
<1>6. /\ \A d \in Callers : pc'[d] = "idle"
      /\ lock' = None
  BY <1>1 DEF Commit, End, LockHeld, TypeOK
<1>7. LockHeld' /\ RowFollows' /\ NeverRaced'
  BY <1>6, RunStateAssumption DEF LockHeld, RowFollows, NeverRaced
<1>8. ~IsTerminalStatus(run.status) /\ run.status # "failed"
  BY <1>1 DEF CanTransition, IsTerminalStatus, TerminalStatus
<1>9. AckedEndIsTheEnd'
  BY <1>2, <1>8 DEF Commit, AckedEndIsTheEnd
<1>10. TimesMatch'
  BY <1>2 DEF TimesMatch
<1>11. audit \in Seq(Entries)
  BY DEF TypeOK
<1>12. AuditLeavesPending'
  BY <1>2, <1>3, <1>4, <1>11 DEF AuditLeavesPending
<1>13. AuditPath'
  <2>1. \A i \in 1 .. Len(audit') - 1 : audit'[i].to = audit'[i + 1].from
    <3> SUFFICES ASSUME NEW i \in 1 .. Len(audit') - 1
                 PROVE  audit'[i].to = audit'[i + 1].from
      OBVIOUS
    <3>1. CASE i < Len(audit)
      BY <1>3, <1>4, <1>11, <3>1 DEF AuditPath
    <3>2. CASE i = Len(audit)
      BY <1>3, <1>4, <1>8, <1>11, <3>2 DEF AuditPath
    <3> QED  BY <1>3, <1>4, <1>11, <3>1, <3>2
  <2>2. audit'[Len(audit')].to = run'.status
    BY <1>2, <1>3, <1>4, <1>11
  <2> QED  BY <2>1, <2>2 DEF AuditPath
<1> QED  BY <1>5, <1>7, <1>9, <1>10, <1>12, <1>13

LEMMA RollbackKeeps ==
    ASSUME IInv, NEW c \in Callers, Rollback(c)
    PROVE  IInv'
<1> USE DEF IInv
<1>1. lock = c
  BY DEF Rollback, LockHeld
<1>2. TypeOK'
  BY DEF Rollback, End, TypeOK, NewRun, Rows, Times, RunStatuses
<1>3. /\ \A d \in Callers : pc'[d] = "idle"
      /\ lock' = None
  BY <1>1 DEF Rollback, End, LockHeld, TypeOK
<1>4. LockHeld' /\ RowFollows' /\ NeverRaced'
  BY <1>3, RunStateAssumption DEF LockHeld, RowFollows, NeverRaced
<1> QED  BY <1>2, <1>4, QuietKeeps DEF Rollback

LEMMA RepoKeeps ==
    ASSUME IInv, NEW c \in Callers, RepoMarkRunning(c) \/ RepoMarkFailed(c)
    PROVE  IInv'
<1> USE DEF IInv
<1>1. \A d \in Callers : pc[d] = "idle" /\ lock = None
  BY RunStateAssumption DEF RepoMarkRunning, RepoMarkFailed, LockHeld
<1>2. TypeOK'
  <2>1. run \in Rows
    BY DEF TypeOK
  <2>2. CASE RepoMarkRunning(c)
    <3>1. run' \in Rows
      BY <2>1, <2>2 DEF RepoMarkRunning, Rows, Times, RunStatuses
    <3> QED  BY <2>2, <3>1 DEF RepoMarkRunning, TypeOK
  <2>3. CASE RepoMarkFailed(c)
    <3>1. run' \in Rows
      BY <2>1, <2>3 DEF RepoMarkFailed, Rows, Times, RunStatuses, TerminalStatus
    <3>2. acked' \subseteq RunStatuses
      BY <2>3 DEF RepoMarkFailed, TypeOK, RunStatuses, TerminalStatus
    <3> QED  BY <2>3, <3>1, <3>2 DEF RepoMarkFailed, TypeOK
  <2> QED  BY <2>2, <2>3
<1>3. LockHeld' /\ RowFollows' /\ NeverRaced'
  BY <1>1, RunStateAssumption
     DEF RepoMarkRunning, RepoMarkFailed, LockHeld, RowFollows, NeverRaced
<1>4. ~IsTerminalStatus(run.status)
  BY DEF RepoMarkRunning, RepoMarkFailed, RepoMayRun, RepoMayFail, IsTerminalStatus,
         TerminalStatus
<1>5. AckedEndIsTheEnd'
  <2>1. \A t \in acked : ~IsTerminalStatus(t)
    BY <1>4 DEF AckedEndIsTheEnd
  <2>2. CASE RepoMarkRunning(c)
    BY <2>1, <2>2 DEF RepoMarkRunning, AckedEndIsTheEnd
  <2>3. CASE RepoMarkFailed(c)
    <3>1. run'.status = "failed" /\ acked' \subseteq acked \cup {"failed"}
      BY <2>3 DEF RepoMarkFailed, TypeOK, Rows
    <3> QED  BY <2>1, <3>1 DEF AckedEndIsTheEnd
  <2> QED  BY <2>2, <2>3
<1>6. TimesMatch'
  <2>1. c # None /\ run \in Rows
    BY RunStateAssumption DEF TypeOK
  <2>2. CASE RepoMarkRunning(c)
    <3>1. /\ run'.status = "running" /\ run'.started = c /\ run'.finished = run.finished
      BY <2>1, <2>2 DEF RepoMarkRunning, Rows
    <3> QED  BY <1>4, <2>1, <3>1 DEF TimesMatch, IsTerminalStatus, TerminalStatus
  <2>3. CASE RepoMarkFailed(c)
    <3>1. /\ run'.status = "failed" /\ run'.finished = c
      BY <2>1, <2>3 DEF RepoMarkFailed, Rows
    <3> QED  BY <2>1, <3>1 DEF TimesMatch, IsTerminalStatus, TerminalStatus
  <2> QED  BY <2>2, <2>3
<1>7. AuditLeavesPending'
  BY DEF RepoMarkRunning, RepoMarkFailed, AuditLeavesPending
<1>8. AuditPath'
  <2>1. CASE RepoMarkFailed(c)
    BY <2>1 DEF RepoMarkFailed, AuditPath, TypeOK, Rows
  <2>2. CASE RepoMarkRunning(c)
    <3>1. audit = << >>
      BY <2>2 DEF RepoMarkRunning, RepoMayRun, AuditPath, AuditLeavesPending, TypeOK
    <3> QED  BY <2>2, <3>1 DEF RepoMarkRunning, AuditPath
  <2> QED  BY <2>1, <2>2
<1> QED  BY <1>2, <1>3, <1>5, <1>6, <1>7, <1>8

LEMMA StepKeeps == IInv /\ [Next]_vars => IInv'
<1> SUFFICES ASSUME IInv, [Next]_vars PROVE IInv'
  OBVIOUS
<1>1. CASE UNCHANGED vars
  BY <1>1 DEF vars, IInv, TypeOK, LockHeld, RowFollows, NeverRaced, AckedEndIsTheEnd,
              TimesMatch, AuditLeavesPending, AuditPath
<1>2. CASE Next
  BY <1>2, SelectKeeps, UpdateKeeps, InsertKeeps, CommitKeeps, RollbackKeeps, RepoKeeps
     DEF Next
<1> QED  BY <1>1, <1>2

-----------------------------------------------------------------------------
(* The theorems                                                            *)

\* The row is typed and its times match its status; the branch for a status
\* that changed under the lock is dead; nobody is told of two different ends.
THEOREM Safety ==
    Spec => []TypeOK /\ []NeverRaced /\ []AckedEndIsTheEnd /\ []TimesMatch
<1>1. IInv => TypeOK /\ NeverRaced /\ AckedEndIsTheEnd /\ TimesMatch
  BY DEF IInv
<1> QED  BY Initially, StepKeeps, <1>1, PTL DEF Spec

\* The audit rows always form a path that ends at the present status, but for
\* a failure that runrepo wrote.
THEOREM Audited == Spec => []AuditPath
<1>1. IInv => AuditPath
  BY DEF IInv
<1> QED  BY Initially, StepKeeps, <1>1, PTL DEF Spec

\* What a step does to the committed row.
LEMMA RowSteps ==
    ASSUME IInv, [Next]_vars
    PROVE  \/ run' = run
           \/ /\ Lifecycle!Next
              /\ run.started # None => run'.started = run.started
<1>1. ASSUME NEW c \in Callers, Commit(c)
      PROVE  Lifecycle!Next /\ (run.started # None => run'.started = run.started)
  <2>1. /\ to[c] \in RunStatuses /\ CanTransition(run.status, to[c])
        /\ run' = Written(run, to[c], c)
    BY <1>1 DEF IInv, Commit, RowFollows, TypeOK
  <2>2. run'.status = to[c] /\ (run.started # None => run'.started = run.started)
    BY <2>1, WrittenMatches DEF IInv
  <2> QED  BY <2>1, <2>2 DEF Lifecycle!Next, Lifecycle!Change, Lifecycle!CanTransition,
                             Lifecycle!RunStatuses, Lifecycle!TerminalStatus,
                             RunStatuses, TerminalStatus, CanTransition
<1>2. ASSUME NEW c \in Callers, RepoMarkRunning(c) \/ RepoMarkFailed(c)
      PROVE  Lifecycle!Next /\ (run.started # None => run'.started = run.started)
  BY <1>2 DEF IInv, RepoMarkRunning, RepoMarkFailed, RepoMayRun, RepoMayFail,
              TypeOK, Rows, TimesMatch, Lifecycle!Next, Lifecycle!Change,
              Lifecycle!RepoMayRun, Lifecycle!RepoMayFail, Lifecycle!RunStatuses,
              Lifecycle!TerminalStatus, Lifecycle!CanTransition
<1>3. ASSUME NEW c \in Callers, NEW t \in Targets,
             Select(c, t) \/ Update(c) \/ Insert(c) \/ Rollback(c)
      PROVE  run' = run
  BY <1>3 DEF Select, Return, GoOn, Update, Insert, Rollback
<1>4. Targets # {}
  BY DEF Targets, RunStatuses
<1> QED  BY <1>1, <1>2, <1>3, <1>4 DEF Next, vars

\* A run starts once (runstate.go:185).
THEOREM StartsOnce == Spec => StartedOnce
<1>1. IInv /\ [Next]_vars => [run.started # None => run'.started = run.started]_vars
  BY RowSteps
<1> QED  BY Initially, StepKeeps, <1>1, PTL DEF Spec, StartedOnce

\* Transactions and updates refine the atomic changes of a run's life.
THEOREM Refinement == Spec => ImplementsLifecycle
<1>1. Init => Lifecycle!Init
  BY DEF Init, Lifecycle!Init, NewRun
<1>2. IInv /\ [Next]_vars => [Lifecycle!Next]_(run.status)
  BY RowSteps
<1> QED  BY Initially, StepKeeps, <1>1, <1>2, PTL
         DEF Spec, ImplementsLifecycle, Lifecycle!Spec
=============================================================================
