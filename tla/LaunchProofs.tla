---------------------------- MODULE LaunchProofs ----------------------------
(***************************************************************************)
(* Proofs about Launch for any calls, tasks and faults: a run passes only  *)
(* after a clone of it was completed, and versions and runs are numbered   *)
(* without gaps, although nothing locks the maximum that a number is       *)
(* computed from.                                                          *)
(***************************************************************************)
EXTENDS Launch, FiniteSetTheorems, TLAPS

VersionRec == [pipe : Ids \cup {Nobody}, num : Nat, staged : BOOLEAN]
RunRec == [pipe : Ids \cup {Nobody}, num : Nat, status : RunStatuses \cup {"none"},
           version : Ids \cup {Nobody}, branch : BOOLEAN]
CallRec == [op : Operations \cup {""},
            pc : {"new", "max", "insert", "saved", "set", "enqueue", "commit", "acked", "lost",
                  "refused"},
            pipe : Ids \cup {Nobody}, version : Ids \cup {Nobody}, staged : BOOLEAN,
            branch : BOOLEAN, max : Nat]
TaskRec == [kind : {"checkout", "build", "tick"}, run : Ids \cup {Nobody},
            pc : {"none", "queued", "clone", "dispatch", "exec", "insert", "advance"},
            at : Nat, retried : Nat]

-----------------------------------------------------------------------------
(* How the status of a run changes                                         *)

\* A task changes nothing of a run but its status, and makes no run.
RunKept ==
    \A r \in Ids : /\ run'[r].pipe = run[r].pipe
                   /\ run'[r].num = run[r].num
                   /\ run'[r].version = run[r].version
                   /\ run'[r].status = "none" <=> run[r].status = "none"

\* At most r changes, to s, and not without a reason.
Changes(r, s, because) ==
    \A x \in Ids : \/ run'[x] = run[x]
                   \/ x = r /\ run'[x].status = s /\ because

LEMMA StatusSet ==
    ASSUME run \in [Ids -> RunRec], NEW r, NEW s \in RunStatuses, NEW because \in BOOLEAN,
           run[r].status # "none" \/ ~because,
           run' = [run EXCEPT ![r].status = IF because THEN s ELSE @]
    PROVE  /\ run' \in [Ids -> RunRec]
           /\ RunKept
           /\ Changes(r, s, because)
<1>1. ASSUME NEW x \in Ids
      PROVE  /\ run'[x] = IF x = r /\ because THEN [run[x] EXCEPT !.status = s] ELSE run[x]
  <2>1. run[x] \in RunRec
    OBVIOUS
  <2>2. [run[x] EXCEPT !.status = run[x].status] = run[x]
    BY <2>1 DEF RunRec
  <2> QED  BY <2>2
<1>2. ASSUME NEW x \in Ids
      PROVE  /\ [run[x] EXCEPT !.status = s] \in RunRec
             /\ [run[x] EXCEPT !.status = s].status = s
             /\ [run[x] EXCEPT !.status = s].pipe = run[x].pipe
             /\ [run[x] EXCEPT !.status = s].num = run[x].num
             /\ [run[x] EXCEPT !.status = s].version = run[x].version
  BY DEF RunRec
<1>3. run' \in [Ids -> RunRec]
  <2>1. \A x \in Ids : run'[x] \in RunRec
    BY <1>1, <1>2
  <2> QED  BY <2>1
<1>4. s # "none"
  BY DEF RunStatuses, TerminalStatus
<1>5. RunKept
  BY <1>1, <1>2, <1>4 DEF RunKept
<1>6. Changes(r, s, because)
  BY <1>1, <1>2 DEF Changes
<1> QED  BY <1>3, <1>5, <1>6

LEMMA RunStays ==
    ASSUME run \in [Ids -> RunRec], UNCHANGED run, NEW r, NEW s, NEW because
    PROVE  run' \in [Ids -> RunRec] /\ RunKept /\ Changes(r, s, because)
BY DEF RunKept, Changes

LEMMA MoveSets ==
    ASSUME run \in [Ids -> RunRec], NEW r, NEW s \in RunStatuses, Move(r, s)
    PROVE  /\ run' \in [Ids -> RunRec]
           /\ RunKept
           /\ Changes(r, s, CanTransition(run[r].status, s))
<1>1. CanTransition(run[r].status, s) \in BOOLEAN
  BY DEF CanTransition
<1>2. CanTransition(run[r].status, s) => run[r].status # "none"
  BY DEF CanTransition
<1>3. run' = [run EXCEPT ![r].status = IF CanTransition(run[r].status, s) THEN s ELSE @]
  BY DEF Move
<1> QED  BY <1>1, <1>2, <1>3, StatusSet

LEMMA RepoFailSets ==
    ASSUME run \in [Ids -> RunRec], NEW r, RepoFail(r)
    PROVE  /\ run' \in [Ids -> RunRec]
           /\ RunKept
           /\ Changes(r, "failed", RepoMayFail(run[r].status))
<1>1. RepoMayFail(run[r].status) \in BOOLEAN
  BY DEF RepoMayFail
<1>2. RepoMayFail(run[r].status) => run[r].status # "none"
  BY DEF RepoMayFail
<1>3. run' = [run EXCEPT ![r].status = IF RepoMayFail(run[r].status) THEN "failed" ELSE @]
  BY DEF RepoFail
<1>4. "failed" \in RunStatuses
  BY DEF RunStatuses, TerminalStatus
<1> QED  BY <1>1, <1>2, <1>3, <1>4, StatusSet

-----------------------------------------------------------------------------
(* A run passes only after a clone                                         *)

\* The run r is a trigger's, which no task can end well, or it has a clone.
Reached(r, cs, w) == r \in Calls /\ (cs[r].op = "trigger" \/ w[r] # "none")

\* What holds of a task, by its kind and by its place in its handler, when cs
\* are the calls and w the workspaces.
TaskOK(t, cs, w) ==
    t.pc # "none" =>
        /\ t.run \in Calls
        /\ t.kind = "checkout" => cs[t.run].op \in {"push", "retry"}
        /\ t.kind = "build"    => w[t.run] # "none"
        /\ t.kind = "tick"     => Reached(t.run, cs, w)
        /\ t.pc = "clone"      => t.kind = "checkout"
        /\ t.pc = "dispatch"   => t.kind = "checkout" /\ w[t.run] # "none"
        /\ t.pc = "exec"       => t.kind = "build"
        /\ t.pc \in {"insert", "advance"} => t.kind = "tick"

\* A run that no checkout has started has not left pending but to be cancelled.
StatusOK(r) ==
    /\ r = Seed => run[r].status \in {"none", "canceled"}
    /\ r \in Calls /\ calls[r].op \in {"", "trigger"} =>
           run[r].status \in {"none", "pending", "canceled"}
    /\ run[r].status = "success" => ws[r] # "none"

\* The half of the inductive invariant that is about tasks and runs.
Guarded ==
    /\ run \in [Ids -> RunRec]
    /\ calls \in [Calls -> CallRec]
    /\ tasks \in [Slots -> TaskRec]
    /\ ws \in [Ids -> {"none", "ready", "lost"}]
    /\ \A c \in Calls : calls[c].pc = "new" => calls[c].op = ""
    /\ \A i \in Slots : TaskOK(tasks[i], calls, ws)
    /\ \A r \in Ids : StatusOK(r)
    /\ \A r \in engine : Reached(r, calls, ws)

\* What a call does stays what it is, and a clone may get lost but not undone.
Grows ==
    /\ \A c \in Calls : calls[c].op # "" => calls'[c].op = calls[c].op
    /\ \A r \in Ids : ws[r] # "none" => ws'[r] # "none"

LEMMA CallsAreIds == \A c \in Calls : c \in Ids /\ c # Seed
BY LaunchAssumption DEF Ids

LEMMA ReachedStays ==
    ASSUME Grows, NEW r, Reached(r, calls, ws)
    PROVE  Reached(r, calls', ws')
BY CallsAreIds DEF Grows, Reached

LEMMA TaskStays ==
    ASSUME Grows, NEW t, TaskOK(t, calls, ws)
    PROVE  TaskOK(t, calls', ws')
<1> SUFFICES ASSUME t.pc # "none" PROVE TaskOK(t, calls', ws')
  BY DEF TaskOK
<1>1. t.run \in Calls /\ t.run \in Ids
  BY CallsAreIds DEF TaskOK
<1>2. t.kind = "checkout" => calls'[t.run].op \in {"push", "retry"}
  BY <1>1 DEF TaskOK, Grows
<1>3. t.kind = "tick" => Reached(t.run, calls', ws')
  BY ReachedStays DEF TaskOK
<1>4. ws[t.run] # "none" => ws'[t.run] # "none"
  BY <1>1 DEF Grows
<1> QED  BY <1>1, <1>2, <1>3, <1>4 DEF TaskOK

LEMMA NoTaskOK ==
    ASSUME NEW cs, NEW w
    PROVE  NoTask \in TaskRec /\ TaskOK(NoTask, cs, w)
BY DEF NoTask, TaskRec, TaskOK

\* A task that is queued has nothing to show but where it comes from.
LEMMA QueuedOK ==
    ASSUME NEW kind \in {"checkout", "build", "tick"}, NEW r \in Calls, NEW cs, NEW w,
           kind = "checkout" => cs[r].op \in {"push", "retry"},
           kind = "build" => w[r] # "none",
           kind = "tick" => Reached(r, cs, w)
    PROVE  /\ Queued(kind, r) \in TaskRec
           /\ TaskOK(Queued(kind, r), cs, w)
<1>1. /\ Queued(kind, r) \in TaskRec
      /\ Queued(kind, r).kind = kind /\ Queued(kind, r).run = r
      /\ Queued(kind, r).pc = "queued"
  BY CallsAreIds DEF Queued, NoTask, TaskRec
<1> QED  BY <1>1 DEF TaskOK

LEMMA RetriedOK ==
    ASSUME NEW t \in TaskRec, NEW cs, NEW w, t.pc # "none", TaskOK(t, cs, w)
    PROVE  Retried(t) \in TaskRec /\ TaskOK(Retried(t), cs, w)
<1> DEFINE q == Queued(t.kind, t.run)
           k == [q EXCEPT !.retried = t.retried + 1]
<1>1. t.kind \in {"checkout", "build", "tick"} /\ t.retried \in Nat
  BY DEF TaskRec
<1>2. t.run \in Calls
  BY DEF TaskOK
<1>3. q \in TaskRec /\ q.kind = t.kind /\ q.run = t.run /\ q.pc = "queued"
  BY <1>1, <1>2, CallsAreIds DEF Queued, NoTask, TaskRec
<1>4. k \in TaskRec /\ k.kind = t.kind /\ k.run = t.run /\ k.pc = "queued"
  BY <1>1, <1>3 DEF TaskRec
<1>5. TaskOK(k, cs, w)
  BY <1>4 DEF TaskOK
<1> HIDE DEF k
<1>6. Retried(t) \in {k, NoTask}
  BY DEF Retried, k
<1> QED  BY <1>4, <1>5, <1>6, NoTaskOK

\* A slot is given a good task: its own next one, or one that is enqueued.
LEMMA SlotSet ==
    ASSUME NEW q \in [Slots -> TaskRec], NEW cs, NEW w,
           \A k \in Slots : TaskOK(q[k], cs, w),
           NEW i, NEW t \in TaskRec, TaskOK(t, cs, w)
    PROVE  /\ [q EXCEPT ![i] = t] \in [Slots -> TaskRec]
           /\ \A k \in Slots : TaskOK([q EXCEPT ![i] = t][k], cs, w)
<1>1. \A k \in Slots : [q EXCEPT ![i] = t][k] = IF k = i THEN t ELSE q[k]
  OBVIOUS
<1> QED  BY <1>1

\* The rest of the invariant, when a step settles the status of r.
Settles(r) ==
    /\ run' \in [Ids -> RunRec]
    /\ \A x \in Ids : \/ run'[x].status = run[x].status
                      \/ /\ x = r /\ x \in Calls
                         /\ calls[x].op \notin {"", "trigger"}
                         /\ run'[x].status = "success" => ws[x] # "none"

\* A step of a task that leaves the calls alone.
LEMMA TaskStep1 ==
    ASSUME Guarded, NEW r, Settles(r), UNCHANGED calls,
           ws' \in [Ids -> {"none", "ready", "lost"}],
           \A x \in Ids : ws[x] # "none" => ws'[x] # "none",
           tasks' \in [Slots -> TaskRec],
           \A i \in Slots : TaskOK(tasks'[i], calls, ws'),
           \A x \in engine' : x \in engine \/ Reached(x, calls, ws)
    PROVE  Guarded'
<1>1. Grows
  BY DEF Grows
<1>2. ASSUME NEW x \in Ids PROVE StatusOK(x)'
  <2>1. StatusOK(x)
    BY DEF Guarded
  <2> QED  BY <2>1, CallsAreIds DEF StatusOK, Settles
<1>3. \A x \in engine' : Reached(x, calls', ws')
  BY <1>1, ReachedStays DEF Guarded
<1>4. calls' = calls
  OBVIOUS
<1> QED  BY <1>2, <1>3, <1>4 DEF Guarded, Settles

LEMMA SettleNothing ==
    ASSUME Guarded, UNCHANGED run, NEW r
    PROVE  Settles(r)
BY DEF Guarded, Settles

LEMMA SettleMove ==
    ASSUME Guarded, NEW r \in Calls, NEW s \in {"failed", "success"}, Move(r, s),
           s = "success" => ws[r] # "none"
    PROVE  Settles(r)
<1>1. run' \in [Ids -> RunRec] /\ Changes(r, s, CanTransition(run[r].status, s))
  BY MoveSets DEF Guarded, RunStatuses, TerminalStatus
<1>2. CanTransition(run[r].status, s) => calls[r].op \notin {"", "trigger"}
  BY CallsAreIds DEF Guarded, StatusOK, CanTransition
<1> QED  BY <1>1, <1>2 DEF Changes, Settles

LEMMA SettleRepoFail ==
    ASSUME Guarded, NEW r \in Calls, RepoFail(r), calls[r].op \in {"push", "retry"}
    PROVE  Settles(r)
<1>1. run' \in [Ids -> RunRec] /\ Changes(r, "failed", RepoMayFail(run[r].status))
  BY RepoFailSets DEF Guarded
<1> QED  BY <1>1 DEF Changes, Settles

LEMMA SettleHook ==
    ASSUME Guarded, NEW t, t.pc # "none", TaskOK(t, calls, ws), Hook(t)
    PROVE  Settles(t.run)
<1>1. t.run \in Calls /\ (t.kind = "checkout" => calls[t.run].op \in {"push", "retry"})
  BY DEF TaskOK
<1>2. \/ UNCHANGED run
      \/ t.kind = "checkout" /\ RepoFail(t.run)
      \/ Move(t.run, "failed")
  BY DEF Hook
<1> QED  BY <1>1, <1>2, SettleNothing, SettleRepoFail, SettleMove

-----------------------------------------------------------------------------
(* The tasks                                                               *)

\* A step of a task within its run, without a new task.
LEMMA OwnStep ==
    ASSUME Guarded, NEW i \in Slots, tasks[i].pc # "none", NEW t \in TaskRec, Step(i, t),
           TaskOK(t, calls, ws'), Settles(tasks[i].run), UNCHANGED calls,
           ws' \in [Ids -> {"none", "ready", "lost"}],
           \A x \in Ids : ws[x] # "none" => ws'[x] # "none",
           \A x \in engine' : x \in engine \/ Reached(x, calls, ws)
    PROVE  Guarded'
<1>1. Grows /\ calls' = calls
  BY DEF Grows
<1>2. \A k \in Slots : TaskOK(tasks[k], calls, ws')
  BY <1>1, TaskStays DEF Guarded
<1>3. tasks' \in [Slots -> TaskRec] /\ \A k \in Slots : TaskOK(tasks'[k], calls, ws')
  BY <1>2, SlotSet DEF Guarded, Step
<1> QED  BY <1>3, TaskStep1

LEMMA FailedKeeps ==
    ASSUME Guarded, NEW i \in Slots, tasks[i].pc # "none", Failed(i),
           UNCHANGED <<calls, ws, engine>>
    PROVE  Guarded'
<1>1. tasks[i] \in TaskRec /\ TaskOK(tasks[i], calls, ws)
  BY DEF Guarded
<1>2. Settles(tasks[i].run)
  BY <1>1, SettleHook DEF Failed
<1>3. Retried(tasks[i]) \in TaskRec /\ TaskOK(Retried(tasks[i]), calls, ws)
  BY <1>1, RetriedOK
<1>4. ws' = ws /\ engine' = engine /\ ws \in [Ids -> {"none", "ready", "lost"}]
  BY DEF Guarded
<1>5. Step(i, Retried(tasks[i]))
  BY DEF Failed
<1> QED  BY <1>2, <1>3, <1>4, <1>5, OwnStep

\* The task of i is given back, and its run is settled.
LEMMA EndedKeeps ==
    ASSUME Guarded, NEW i \in Slots, tasks[i].pc # "none", Step(i, NoTask),
           Settles(tasks[i].run), UNCHANGED <<calls, ws>>,
           \A x \in engine' : x \in engine \/ Reached(x, calls, ws)
    PROVE  Guarded'
<1>1. ws' = ws /\ ws \in [Ids -> {"none", "ready", "lost"}]
  BY DEF Guarded
<1> QED  BY <1>1, NoTaskOK, OwnStep

\* The task goes on in its handler.
LEMMA PlacedOK ==
    ASSUME NEW t \in TaskRec, NEW k \in TaskRec, NEW cs, NEW w, t.pc # "none", TaskOK(t, cs, w),
           k.kind = t.kind, k.run = t.run,
           k.pc = "clone" => t.kind = "checkout",
           k.pc = "dispatch" => t.kind = "checkout" /\ w[t.run] # "none",
           k.pc = "exec" => t.kind = "build",
           k.pc \in {"insert", "advance"} => t.kind = "tick"
    PROVE  TaskOK(k, cs, w)
BY DEF TaskOK

LEMMA CheckoutStartKeeps ==
    ASSUME Guarded, NEW i \in Slots, CheckoutStart(i)
    PROVE  Guarded'
<1> DEFINE t == tasks[i]
           r == t.run
           k == [t EXCEPT !.pc = "clone"]
<1>1. /\ t.kind = "checkout" /\ t.pc = "queued"
      /\ UNCHANGED <<calls, engine>>
  BY DEF CheckoutStart
<1>2. t \in TaskRec /\ TaskOK(t, calls, ws)
  BY DEF Guarded
<1>3. r \in Calls /\ calls[r].op \in {"push", "retry"} /\ r \in Ids
  BY <1>1, <1>2, CallsAreIds DEF TaskOK
<1>4. CASE Step(i, NoTask) /\ UNCHANGED <<run, ws>>
  BY <1>1, <1>4, SettleNothing, EndedKeeps
<1>5. CASE /\ run' = [run EXCEPT ![r].status = "running"]
           /\ ws' = [ws EXCEPT ![r] = IF @ = "none" THEN "none" ELSE "lost"]
           /\ Step(i, k)
  <2>1. \A x \in Ids : run'[x] = IF x = r THEN [run[x] EXCEPT !.status = "running"] ELSE run[x]
    BY <1>5 DEF Guarded
  <2>2. \A x \in Ids : /\ [run[x] EXCEPT !.status = "running"] \in RunRec
                       /\ [run[x] EXCEPT !.status = "running"].status = "running"
    BY DEF Guarded, RunRec, RunStatuses
  <2>3. run' \in [Ids -> RunRec]
    <3>1. \A x \in Ids : run'[x] \in RunRec
      BY <2>1, <2>2 DEF Guarded
    <3> QED  BY <1>5, <3>1 DEF Guarded
  <2>4. Settles(r)
    BY <1>3, <2>1, <2>2, <2>3 DEF Settles
  <2>5. k \in TaskRec /\ k.kind = t.kind /\ k.run = t.run /\ k.pc = "clone"
    BY <1>2 DEF TaskRec
  <2>6. ws' \in [Ids -> {"none", "ready", "lost"}]
    BY <1>5 DEF Guarded
  <2>7. \A x \in Ids : ws[x] # "none" => ws'[x] # "none"
    BY <1>5 DEF Guarded
  <2>8. TaskOK(k, calls, ws)
    BY <1>1, <1>2, <2>5, PlacedOK
  <2>9. TaskOK(k, calls, ws')
    BY <1>1, <2>5, <2>8 DEF TaskOK
  <2> HIDE DEF k
  <2> QED  BY <1>1, <1>5, <2>4, <2>5, <2>6, <2>7, <2>9, OwnStep
<1>6. CASE Failed(i) /\ UNCHANGED ws
  BY <1>1, <1>6, FailedKeeps
<1>7. CASE RepoFail(r) /\ Step(i, NoTask) /\ UNCHANGED ws
  BY <1>1, <1>3, <1>7, SettleRepoFail, EndedKeeps
<1> QED  BY <1>4, <1>5, <1>6, <1>7 DEF CheckoutStart

LEMMA CloneKeeps ==
    ASSUME Guarded, NEW i \in Slots, Clone(i)
    PROVE  Guarded'
<1> DEFINE t == tasks[i]
           k == [t EXCEPT !.pc = "dispatch"]
<1>1. t.pc = "clone" /\ UNCHANGED <<calls, engine>>
  BY DEF Clone
<1>2. t \in TaskRec /\ TaskOK(t, calls, ws)
  BY DEF Guarded
<1>3. t.kind = "checkout" /\ t.run \in Ids /\ calls[t.run].op \in {"push", "retry"} /\ t.run \in Calls
  BY <1>1, <1>2, CallsAreIds DEF TaskOK
<1>4. CASE ws' = [ws EXCEPT ![t.run] = "ready"] /\ Step(i, k) /\ UNCHANGED run
  <2>1. k \in TaskRec /\ k.kind = t.kind /\ k.run = t.run /\ k.pc = "dispatch"
    BY <1>2 DEF TaskRec
  <2>2. ws' \in [Ids -> {"none", "ready", "lost"}]
    BY <1>4 DEF Guarded
  <2>3. ws'[t.run] = "ready" /\ \A x \in Ids : ws[x] # "none" => ws'[x] # "none"
    BY <1>3, <1>4 DEF Guarded
  <2>4. TaskOK(k, calls, ws')
    BY <1>3, <2>1, <2>3 DEF TaskOK
  <2> HIDE DEF k
  <2> QED  BY <1>1, <1>4, <2>1, <2>2, <2>3, <2>4, SettleNothing, OwnStep
<1>5. CASE Failed(i) /\ UNCHANGED ws
  BY <1>1, <1>5, FailedKeeps
<1> QED  BY <1>4, <1>5 DEF Clone

LEMMA DispatchKeeps ==
    ASSUME Guarded, NEW i \in Slots, Dispatch(i)
    PROVE  Guarded'
<1> DEFINE t == tasks[i]
           r == t.run
           kind == IF Staged(r) THEN "tick" ELSE "build"
<1>1. t.pc = "dispatch" /\ UNCHANGED <<calls, ws, engine>>
  BY DEF Dispatch
<1>2. /\ r \in Calls /\ t.kind = "checkout" /\ ws[r] # "none"
      /\ calls[r].op \in {"push", "retry"}
  BY <1>1 DEF Guarded, TaskOK
<1>3. CASE Step(i, Queued(kind, r)) /\ UNCHANGED run
  <2>1. kind \in {"tick", "build"} /\ Reached(r, calls, ws)
    BY <1>2 DEF Reached
  <2> HIDE DEF kind
  <2>2. Queued(kind, r) \in TaskRec /\ TaskOK(Queued(kind, r), calls, ws)
    BY <1>2, <2>1, QueuedOK
  <2>3. ws' = ws /\ ws \in [Ids -> {"none", "ready", "lost"}]
    BY <1>1 DEF Guarded
  <2> QED  BY <1>1, <1>3, <2>2, <2>3, SettleNothing, OwnStep
<1>4. CASE RepoFail(r) /\ Step(i, NoTask)
  BY <1>1, <1>2, <1>4, SettleRepoFail, EndedKeeps
<1> QED  BY <1>3, <1>4 DEF Dispatch

LEMMA BuildStartKeeps ==
    ASSUME Guarded, NEW i \in Slots, BuildStart(i)
    PROVE  Guarded'
<1> DEFINE t == tasks[i]
           r == t.run
           k == [t EXCEPT !.pc = "exec"]
<1>1. /\ t.kind = "build" /\ t.pc = "queued"
      /\ UNCHANGED <<calls, ws, engine>>
  BY DEF BuildStart
<1>2. t \in TaskRec /\ TaskOK(t, calls, ws) /\ r \in Calls /\ ws[r] # "none"
  BY <1>1 DEF Guarded, TaskOK
<1>3. CASE Step(i, NoTask) /\ (UNCHANGED run \/ Hook(t))
  BY <1>1, <1>2, <1>3, SettleNothing, SettleHook, EndedKeeps
<1>4. CASE Step(i, NoTask) /\ (Move(r, "success") \/ Move(r, "failed"))
  BY <1>1, <1>2, <1>4, SettleMove, EndedKeeps
<1>5. CASE Step(i, k) /\ UNCHANGED run
  <2>1. k \in TaskRec /\ k.kind = t.kind /\ k.run = t.run /\ k.pc = "exec"
    BY <1>2 DEF TaskRec
  <2>2. TaskOK(k, calls, ws)
    BY <1>1, <1>2, <2>1, PlacedOK
  <2>3. ws' = ws /\ ws \in [Ids -> {"none", "ready", "lost"}]
    BY <1>1 DEF Guarded
  <2> HIDE DEF k
  <2> QED  BY <1>1, <1>5, <2>1, <2>2, <2>3, SettleNothing, OwnStep
<1>6. CASE Failed(i)
  BY <1>1, <1>6, FailedKeeps
<1> QED  BY <1>3, <1>4, <1>5, <1>6 DEF BuildStart

LEMMA BuildEndKeeps ==
    ASSUME Guarded, NEW i \in Slots, BuildEnd(i)
    PROVE  Guarded'
<1> DEFINE r == tasks[i].run
<1>1. tasks[i].pc = "exec" /\ UNCHANGED <<calls, ws, engine>>
  BY DEF BuildEnd
<1>2. r \in Calls /\ ws[r] # "none"
  BY <1>1 DEF Guarded, TaskOK
<1>3. CASE Step(i, NoTask) /\ (Move(r, "success") \/ Move(r, "failed") \/ UNCHANGED run)
  BY <1>1, <1>2, <1>3, SettleMove, SettleNothing, EndedKeeps
<1>4. CASE Failed(i)
  BY <1>1, <1>4, FailedKeeps
<1> QED  BY <1>3, <1>4 DEF BuildEnd

LEMMA TickStartKeeps ==
    ASSUME Guarded, NEW i \in Slots, TickStart(i)
    PROVE  Guarded'
<1> DEFINE t  == tasks[i]
           k1 == [t EXCEPT !.pc = "advance"]
           k2 == [t EXCEPT !.pc = "insert", !.at = 1]
<1>1. /\ t.kind = "tick" /\ t.pc = "queued"
      /\ UNCHANGED <<calls, ws, engine>>
  BY DEF TickStart
<1>2. t \in TaskRec /\ TaskOK(t, calls, ws)
  BY DEF Guarded
<1>3. CASE Failed(i)
  BY <1>1, <1>3, FailedKeeps
<1>4. CASE UNCHANGED run /\ Step(i, NoTask)
  BY <1>1, <1>4, SettleNothing, EndedKeeps
<1>5. ASSUME UNCHANGED run, NEW k \in {k1, k2}, Step(i, k) PROVE Guarded'
  <2>1. k1 \in TaskRec /\ k1.kind = t.kind /\ k1.run = t.run /\ k1.pc = "advance"
    BY <1>2 DEF TaskRec
  <2>2. k2 \in TaskRec /\ k2.kind = t.kind /\ k2.run = t.run /\ k2.pc = "insert"
    BY <1>2 DEF TaskRec
  <2>3. TaskOK(k1, calls, ws) /\ TaskOK(k2, calls, ws)
    BY <1>1, <1>2, <2>1, <2>2, PlacedOK
  <2>4. ws' = ws /\ ws \in [Ids -> {"none", "ready", "lost"}]
    BY <1>1 DEF Guarded
  <2> HIDE DEF k1, k2
  <2> QED  BY <1>1, <1>5, <2>1, <2>2, <2>3, <2>4, SettleNothing, OwnStep
<1> QED  BY <1>3, <1>4, <1>5 DEF TickStart

LEMMA InsertStageKeeps ==
    ASSUME Guarded, NEW i \in Slots, InsertStage(i)
    PROVE  Guarded'
<1> DEFINE t == tasks[i]
           k(pc, at) == [t EXCEPT !.pc = pc, !.at = at]
<1>1. t.pc = "insert" /\ UNCHANGED <<calls, ws, engine>>
  BY DEF InsertStage
<1>2. t \in TaskRec /\ TaskOK(t, calls, ws) /\ t.kind = "tick"
  BY <1>1 DEF Guarded, TaskOK
<1>3. ASSUME NEW pc \in {"insert", "advance"}, NEW at \in Nat, Step(i, k(pc, at)), UNCHANGED run
      PROVE  Guarded'
  <2> DEFINE j == k(pc, at)
  <2>1. j \in TaskRec /\ j.kind = t.kind /\ j.run = t.run /\ j.pc \in {"insert", "advance"}
    BY <1>2 DEF TaskRec
  <2>2. TaskOK(j, calls, ws)
    BY <1>1, <1>2, <2>1, PlacedOK
  <2>3. ws' = ws /\ ws \in [Ids -> {"none", "ready", "lost"}]
    BY <1>1 DEF Guarded
  <2>4. Step(i, j)
    BY <1>3
  <2> HIDE DEF j
  <2> QED  BY <1>1, <1>3, <2>1, <2>2, <2>3, <2>4, SettleNothing, OwnStep
<1>4. CASE Failed(i)
  BY <1>1, <1>4, FailedKeeps
<1>5. t.at \in Nat /\ t.at + 1 \in Nat
  BY <1>2 DEF TaskRec
<1>6. \/ Failed(i)
      \/ Step(i, k("advance", 0)) /\ UNCHANGED run
      \/ Step(i, k("insert", t.at + 1)) /\ UNCHANGED run
  BY DEF InsertStage
<1> QED  BY <1>3, <1>4, <1>5, <1>6

LEMMA AdvanceKeeps ==
    ASSUME Guarded, NEW i \in Slots, Advance(i)
    PROVE  Guarded'
<1>1. tasks[i].pc = "advance" /\ Step(i, NoTask) /\ UNCHANGED <<run, calls, ws>>
  BY DEF Advance
<1>2. \A x \in engine' : x \in engine \/ Reached(x, calls, ws)
  BY <1>1 DEF Advance, Guarded, TaskOK
<1> QED  BY <1>1, <1>2, SettleNothing, EndedKeeps

LEMMA CrashKeeps ==
    ASSUME Guarded, NEW i \in Slots, Crash(i)
    PROVE  Guarded'
<1>1. tasks[i].pc # "none" /\ Step(i, Retried(tasks[i])) /\ UNCHANGED <<run, calls, ws, engine>>
  BY DEF Crash
<1>2. Retried(tasks[i]) \in TaskRec /\ TaskOK(Retried(tasks[i]), calls, ws)
  BY <1>1, RetriedOK DEF Guarded
<1>3. ws' = ws /\ ws \in [Ids -> {"none", "ready", "lost"}]
  BY <1>1 DEF Guarded
<1> QED  BY <1>1, <1>2, <1>3, SettleNothing, OwnStep

\* A task whose deadline has passed is repeated, or given up.
LEMMA OverrunKeeps ==
    ASSUME Guarded, NEW i \in Slots, Overrun(i)
    PROVE  Guarded'
<1>1. tasks[i].pc # "none" /\ UNCHANGED <<run, calls, ws, engine>>
  BY DEF Overrun
<1>2. CASE Step(i, NoTask)
  BY <1>1, <1>2, SettleNothing, EndedKeeps
<1>3. CASE Step(i, Retried(tasks[i]))
  <2>1. Retried(tasks[i]) \in TaskRec /\ TaskOK(Retried(tasks[i]), calls, ws)
    BY <1>1, RetriedOK DEF Guarded
  <2>2. ws' = ws /\ ws \in [Ids -> {"none", "ready", "lost"}]
    BY <1>1 DEF Guarded
  <2> QED  BY <1>1, <1>3, <2>1, <2>2, SettleNothing, OwnStep
<1>4. \A t : t \in {Retried(tasks[i])} \cup (IF tasks[i].pc = "clone" THEN {} ELSE {NoTask})
             => t = Retried(tasks[i]) \/ t = NoTask
  OBVIOUS
<1> QED  BY <1>2, <1>3, <1>4 DEF Overrun

LEMMA RedeliveredKeeps ==
    ASSUME Guarded, NEW i \in Slots, Redelivered(i)
    PROVE  Guarded'
<1> DEFINE t    == tasks[i]
           kind == IF Staged(t.run) THEN "tick" ELSE "build"
           q    == [tasks EXCEPT ![i] = Retried(t)]
<1>1. t.pc = "dispatch" /\ UNCHANGED <<run, calls, ws, engine>>
  BY DEF Redelivered
<1>2. t.run \in Calls /\ ws[t.run] # "none" /\ t \in TaskRec /\ TaskOK(t, calls, ws)
  BY <1>1 DEF Guarded, TaskOK
<1>3. tasks' = [q EXCEPT ![Slot] = Queued(kind, t.run)]
  BY DEF Redelivered
<1>4. kind \in {"tick", "build"} /\ Reached(t.run, calls, ws)
  BY <1>2 DEF Reached
<1> HIDE DEF kind
<1>5. Queued(kind, t.run) \in TaskRec /\ TaskOK(Queued(kind, t.run), calls, ws)
  BY <1>2, <1>4, QueuedOK
<1>6. Retried(t) \in TaskRec /\ TaskOK(Retried(t), calls, ws)
  BY <1>1, <1>2, RetriedOK
<1>7. q \in [Slots -> TaskRec] /\ \A k \in Slots : TaskOK(q[k], calls, ws)
  BY <1>6, SlotSet DEF Guarded
<1> HIDE DEF q
<1>8. tasks' \in [Slots -> TaskRec] /\ \A k \in Slots : TaskOK(tasks'[k], calls, ws)
  BY <1>3, <1>5, <1>7, SlotSet
<1>9. ws' = ws /\ engine' = engine /\ ws \in [Ids -> {"none", "ready", "lost"}]
  BY <1>1 DEF Guarded
<1> QED  BY <1>1, <1>8, <1>9, SettleNothing, TaskStep1

\* The end of the orchestration is behind a clone.
LEMMA EngineEndKeeps ==
    ASSUME Guarded, NEW r \in Ids, EngineEnd(r)
    PROVE  Guarded'
<1>1. /\ r \in engine /\ run[r].status = "running"
      /\ UNCHANGED <<calls, tasks, ws, engine>>
  BY DEF EngineEnd
<1>2. Reached(r, calls, ws) /\ StatusOK(r)
  BY <1>1 DEF Guarded
<1>3. r \in Calls /\ ws[r] # "none"
  BY <1>1, <1>2 DEF Reached, StatusOK
<1>4. PICK s \in {"success", "failed"} : Move(r, s)
  BY DEF EngineEnd
<1>5. Settles(r)
  BY <1>3, <1>4, SettleMove
<1> QED  BY <1>1, <1>5, TaskStep1 DEF Guarded

\* A run that is cancelled has not passed.
LEMMA CancelKeeps ==
    ASSUME Guarded, NEW r \in Ids, Cancel(r)
    PROVE  Guarded'
<1>1. UNCHANGED <<calls, tasks, ws, engine>> /\ run' = [run EXCEPT ![r].status = "canceled"]
  BY DEF Cancel
<1>2. /\ CanTransition(run[r].status, "canceled") \in BOOLEAN
      /\ CanTransition(run[r].status, "canceled")
      /\ run[r].status # "none"
  BY DEF Cancel, CanTransition
<1>3. run' = [run EXCEPT ![r].status = IF CanTransition(run[r].status, "canceled") THEN "canceled" ELSE @]
  BY <1>1, <1>2
<1>4. run' \in [Ids -> RunRec] /\ Changes(r, "canceled", CanTransition(run[r].status, "canceled"))
  BY <1>2, <1>3, StatusSet DEF Guarded, RunStatuses, TerminalStatus
<1>5. \A x \in Ids : StatusOK(x)'
  BY <1>1, <1>4 DEF Changes, StatusOK, Guarded
<1> QED  BY <1>1, <1>4, <1>5 DEF Guarded

-----------------------------------------------------------------------------
(* The calls                                                               *)

\* The call c is one of kind op, and was not another one before.
CallSet(c, op) ==
    /\ op # "" /\ calls[c].op \in {"", op}
    /\ calls'[c].op = op /\ calls'[c].pc # "new"
    /\ \A d \in Calls \ {c} : calls'[d] = calls[d]

LEMMA EndsSet ==
    ASSUME Guarded, NEW c \in Calls, NEW pc \in {"acked", "lost", "refused"}, calls[c].op # "",
           Ends(c, pc)
    PROVE  CallSet(c, calls[c].op)
<1> DEFINE call == [NewCall EXCEPT !.op = calls[c].op, !.pc = pc]
<1>1. call.op = calls[c].op /\ call.pc = pc
  BY DEF NewCall
<1>2. calls' = [calls EXCEPT ![c] = call]
  BY DEF Ends
<1> HIDE DEF call
<1> QED  BY <1>1, <1>2 DEF CallSet, Guarded

LEMMA GoSet ==
    ASSUME Guarded, NEW c \in Calls, NEW pc \in {"insert", "saved", "set", "enqueue", "commit"},
           calls[c].op # "", Go(c, pc)
    PROVE  CallSet(c, calls[c].op)
<1>1. calls[c] \in CallRec
  BY DEF Guarded
<1>2. [calls[c] EXCEPT !.pc = pc].op = calls[c].op /\ [calls[c] EXCEPT !.pc = pc].pc = pc
  BY <1>1 DEF CallRec
<1>3. calls' = [calls EXCEPT ![c] = [calls[c] EXCEPT !.pc = pc]]
  BY DEF Go
<1> QED  BY <1>2, <1>3 DEF CallSet, Guarded

LEMMA StartSet ==
    ASSUME Guarded, NEW c \in Calls, calls[c].op = "", NEW op \in Operations,
           NEW pc \in {"max", "insert", "refused"}, NEW p, NEW v, NEW staged, NEW branch, NEW max,
           Start(c, op, pc, p, v, staged, branch, max)
    PROVE  CallSet(c, op)
<1> DEFINE call == [op |-> op, pc |-> pc, pipe |-> p, version |-> v,
                    staged |-> staged, branch |-> branch, max |-> max]
<1>1. call.op = op /\ call.pc = pc /\ calls' = [calls EXCEPT ![c] = call]
  BY DEF Start
<1> HIDE DEF call
<1> QED  BY <1>1 DEF CallSet, Operations, Guarded

LEMMA NewRunTyped ==
    ASSUME NEW c \in Calls, calls[c] \in CallRec
    PROVE  NewRun(c) \in RunRec /\ NewRun(c).status = "pending"
<1>1. /\ calls[c].pipe \in Ids \cup {Nobody} /\ calls[c].version \in Ids \cup {Nobody}
      /\ calls[c].branch \in BOOLEAN /\ calls[c].max \in Nat
  BY DEF CallRec
<1>2. "pending" \in RunStatuses \cup {"none"}
  BY DEF RunStatuses
<1> QED  BY <1>1, <1>2 DEF NewRun, RunRec

\* A call may insert its run and enqueue the task that belongs to it.
LEMMA CallKeeps ==
    ASSUME Guarded, NEW c \in Calls, NEW op \in Operations, CallSet(c, op),
           calls' \in [Calls -> CallRec], UNCHANGED <<ws, engine>>,
           run' \in {run, [run EXCEPT ![c] = NewRun(c)]},
           NEW kind, \/ op = "trigger" /\ kind = "tick"
                     \/ op \in {"push", "retry"} /\ kind = "checkout"
                     \/ UNCHANGED tasks,
           tasks' \in {tasks, [tasks EXCEPT ![Slot] = Queued(kind, c)]}
    PROVE  Guarded'
<1>1. Grows
  BY DEF Grows, CallSet
<1>2. run' \in [Ids -> RunRec]
  BY NewRunTyped DEF Guarded
<1>3. \A d \in Calls : calls'[d].pc = "new" => calls'[d].op = ""
  BY DEF Guarded, CallSet
<1>4. \A k \in Slots : TaskOK(tasks[k], calls', ws')
  BY <1>1, TaskStays DEF Guarded
<1>5. /\ tasks' \in [Slots -> TaskRec]
      /\ \A k \in Slots : TaskOK(tasks'[k], calls', ws')
  <2>1. CASE tasks' = tasks
    BY <1>4, <2>1 DEF Guarded
  <2>2. CASE tasks' # tasks
    <3>1. /\ kind \in {"checkout", "tick"}
          /\ kind = "checkout" => calls'[c].op \in {"push", "retry"}
          /\ kind = "tick" => Reached(c, calls', ws')
      BY <2>2 DEF CallSet, Reached
    <3>2. Queued(kind, c) \in TaskRec /\ TaskOK(Queued(kind, c), calls', ws')
      BY <3>1, QueuedOK
    <3>3. tasks' = [tasks EXCEPT ![Slot] = Queued(kind, c)]
      BY <2>2
    <3> QED  BY <1>4, <3>2, <3>3, SlotSet DEF Guarded
  <2> QED  BY <2>1, <2>2
<1>6. ASSUME NEW x \in Ids PROVE StatusOK(x)'
  <2>1. StatusOK(x)
    BY DEF Guarded
  <2>2. run'[x] = run[x] \/ (x = c /\ run'[x].status = "pending")
    BY NewRunTyped DEF Guarded
  <2>3. x \in Calls /\ calls'[x].op \in {"", "trigger"} => calls[x].op \in {"", "trigger"}
    BY DEF CallSet
  <2> QED  BY <2>1, <2>2, <2>3, CallsAreIds DEF StatusOK
<1>7. \A r \in engine' : Reached(r, calls', ws')
  BY <1>1, ReachedStays DEF Guarded
<1>8. ws' \in [Ids -> {"none", "ready", "lost"}]
  BY DEF Guarded
<1> QED  BY <1>2, <1>3, <1>5, <1>6, <1>7, <1>8 DEF Guarded

LEMMA CallStepKeeps ==
    ASSUME Guarded, NEW c \in Calls, CallStep(c), calls' \in [Calls -> CallRec]
    PROVE  Guarded'
<1> USE DEF Operations
<1>1. calls[c].pc = "new" => calls[c].op = ""
  BY DEF Guarded
<1>2. CASE SaveRead(c)
  <2>1. CallSet(c, "save")
    BY <1>1, <1>2, StartSet DEF SaveRead, Begin
  <2> QED  BY <1>2, <2>1, CallKeeps DEF SaveRead
<1>3. CASE RestoreRead(c)
  <2>1. CallSet(c, "restore")
    BY <1>1, <1>3, StartSet DEF RestoreRead, Begin
  <2> QED  BY <1>3, <2>1, CallKeeps DEF RestoreRead
<1>4. CASE PushRead(c)
  <2>1. CallSet(c, "push")
    BY <1>1, <1>4, StartSet DEF PushRead, Begin
  <2> QED  BY <1>4, <2>1, CallKeeps DEF PushRead
<1>5. CASE TriggerRead(c)
  <2>1. CallSet(c, "trigger")
    BY <1>1, <1>5, StartSet DEF TriggerRead, Begin
  <2> QED  BY <1>5, <2>1, CallKeeps DEF TriggerRead
<1>6. CASE RetryRead(c)
  <2>1. CallSet(c, "retry")
    BY <1>1, <1>6, StartSet DEF RetryRead, Begin
  <2> QED  BY <1>6, <2>1, CallKeeps DEF RetryRead
<1>7. CASE MaxVersion(c)
  <2>1. calls[c].op \in {"save", "restore"} /\ calls[c] \in CallRec
    BY <1>7 DEF MaxVersion, At, Guarded
  <2>2. calls' = [calls EXCEPT ![c] = [calls[c] EXCEPT !.pc = "insert", !.max = Top(VersionNums(calls[c].pipe))]]
    BY <1>7 DEF MaxVersion, Guarded
  <2>3. CallSet(c, calls[c].op)
    BY <2>1, <2>2 DEF CallSet, Guarded, CallRec
  <2> QED  BY <1>7, <2>1, <2>3, CallKeeps DEF MaxVersion
<1>8. CASE InsertVersion(c)
  <2>1. calls[c].op \in {"save", "restore"}
    BY <1>8 DEF InsertVersion, At
  <2>2. CallSet(c, calls[c].op)
    BY <1>8, <2>1, EndsSet, GoSet DEF InsertVersion
  <2> QED  BY <1>8, <2>1, <2>2, CallKeeps DEF InsertVersion
<1>9. CASE RestoreSet(c)
  <2>1. calls[c].op = "restore" /\ CallSet(c, calls[c].op)
    BY <1>9, EndsSet DEF RestoreSet, At
  <2> QED  BY <1>9, <2>1, CallKeeps DEF RestoreSet
<1>10. CASE InsertRun(c)
  <2>1. calls[c].op \in {"push", "retry"}
    BY <1>10 DEF InsertRun, At
  <2>2. CallSet(c, calls[c].op)
    BY <1>10, <2>1, EndsSet, GoSet DEF InsertRun
  <2> QED  BY <1>10, <2>1, <2>2, CallKeeps DEF InsertRun
<1>11. CASE EnqueueCheckout(c)
  <2>1. calls[c].op \in {"push", "retry"}
    BY <1>11 DEF EnqueueCheckout, At
  <2>2. CallSet(c, calls[c].op)
    BY <1>11, <2>1, EndsSet DEF EnqueueCheckout
  <2> QED  BY <1>11, <2>1, <2>2, CallKeeps DEF EnqueueCheckout, Enqueue
<1>12. CASE TriggerInsert(c)
  <2>1. calls[c].op = "trigger"
    BY <1>12 DEF TriggerInsert, At
  <2>2. CallSet(c, calls[c].op)
    BY <1>12, <2>1, EndsSet, GoSet DEF TriggerInsert
  <2> QED  BY <1>12, <2>1, <2>2, CallKeeps DEF TriggerInsert, Enqueue
<1>13. CASE TriggerCommit(c)
  <2>1. calls[c].op = "trigger"
    BY <1>13 DEF TriggerCommit, At
  <2>2. CallSet(c, calls[c].op)
    BY <1>13, <2>1, EndsSet DEF TriggerCommit
  <2> QED  BY <1>13, <2>1, <2>2, CallKeeps DEF TriggerCommit
<1>14. CASE SaveCommit(c)
  <2>1. calls[c].op = "save" /\ CallSet(c, calls[c].op)
    BY <1>14, EndsSet DEF SaveCommit, At
  <2> QED  BY <1>14, <2>1, CallKeeps DEF SaveCommit
<1> QED  BY <1>2, <1>3, <1>4, <1>5, <1>6, <1>7, <1>8, <1>9, <1>10, <1>11, <1>12, <1>13, <1>14
         DEF CallStep

-----------------------------------------------------------------------------
(* Tables with a number per pipeline                                       *)

\* The rows of the pipeline p in a table (pipeline_versions or runs).
RowsOf(table, p) == {x \in Ids : table[x].pipe = p}
Count(table, p)  == Cardinality(RowsOf(table, p))
Dense(table, p)  == {table[x].num : x \in RowsOf(table, p)} = 1 .. Count(table, p)

LEMMA IdsFinite ==
    /\ IsFiniteSet(Ids)
    /\ \A table, p : IsFiniteSet(RowsOf(table, p)) /\ Count(table, p) \in Nat
<1>1. IsFiniteSet(Ids)
  BY LaunchAssumption, FS_AddElement DEF Ids
<1>2. ASSUME NEW table, NEW p PROVE IsFiniteSet(RowsOf(table, p)) /\ Count(table, p) \in Nat
  <2>1. RowsOf(table, p) \subseteq Ids
    BY DEF RowsOf
  <2>2. IsFiniteSet(RowsOf(table, p))
    BY <1>1, <2>1, FS_Subset
  <2> QED  BY <2>2, FS_CardinalityType DEF Count
<1> QED  BY <1>1, <1>2

\* COALESCE(MAX(number), 0) of a dense table.
LEMMA TopIs == ASSUME NEW k \in Nat PROVE Top(1 .. k) = k
<1>1. CASE k = 0
  BY <1>1 DEF Top
<1>2. CASE k # 0
  <2>1. k \in 1 .. k /\ \A n \in 1 .. k : n <= k
    BY <1>2
  <2>2. \A m \in 1 .. k : (\A n \in 1 .. k : n <= m) => m = k
    BY <2>1
  <2>3. 1 .. k # {}
    BY <2>1
  <2> QED  BY <2>1, <2>2, <2>3 DEF Top
<1> QED  BY <1>1, <1>2

\* A row with the next number keeps the tables dense.
Adds(table, c, new, table2) ==
    /\ DOMAIN table = Ids /\ (\A p \in Ids : Dense(table, p))
    /\ c \in Ids /\ table[c].pipe \notin Ids
    /\ new.pipe \in Ids /\ new.num = Count(table, new.pipe) + 1
    /\ table2 = [table EXCEPT ![c] = new]

LEMMA RowAdded ==
    ASSUME NEW table, NEW c, NEW new, NEW table2, Adds(table, c, new, table2)
    PROVE  \A p \in Ids : /\ Dense(table2, p)
                          /\ Count(table2, p) = IF p = new.pipe THEN Count(table, p) + 1
                                                ELSE Count(table, p)
<1> SUFFICES ASSUME DOMAIN table = Ids, \A p \in Ids : Dense(table, p),
                    c \in Ids, table[c].pipe \notin Ids,
                    new.pipe \in Ids, new.num = Count(table, new.pipe) + 1,
                    table2 = [table EXCEPT ![c] = new]
             PROVE  \A p \in Ids : /\ Dense(table2, p)
                                   /\ Count(table2, p) = IF p = new.pipe THEN Count(table, p) + 1
                                                         ELSE Count(table, p)
  BY DEF Adds
<1>1. \A x \in Ids : table2[x] = IF x = c THEN new ELSE table[x]
  OBVIOUS
<1>2. ASSUME NEW p \in Ids, p # new.pipe
      PROVE  Dense(table2, p) /\ Count(table2, p) = Count(table, p)
  <2>1. RowsOf(table2, p) = RowsOf(table, p)
    BY <1>1, <1>2 DEF RowsOf
  <2>2. \A x \in RowsOf(table, p) : table2[x] = table[x]
    BY <1>1, <1>2 DEF RowsOf
  <2>3. {table2[x].num : x \in RowsOf(table, p)} = {table[x].num : x \in RowsOf(table, p)}
    BY <2>2
  <2> QED  BY <2>1, <2>3 DEF Dense, Count
<1>3. ASSUME NEW p \in Ids, p = new.pipe
      PROVE  Dense(table2, p) /\ Count(table2, p) = Count(table, p) + 1
  <2> DEFINE k == Count(table, p)
             held == RowsOf(table, p)
  <2>1. RowsOf(table2, p) = held \cup {c} /\ c \notin held
    BY <1>1, <1>3 DEF RowsOf
  <2>2. IsFiniteSet(held) /\ k \in Nat
    BY IdsFinite
  <2>3. Count(table2, p) = k + 1
    BY <2>1, <2>2, FS_AddElement DEF Count
  <2>4. {table2[x].num : x \in held \cup {c}} = {table[x].num : x \in held} \cup {k + 1}
    <3>1. \A x \in held : table2[x] = table[x]
      BY <1>1, <2>1 DEF RowsOf
    <3>2. table2[c].num = k + 1
      BY <1>1, <1>3
    <3> QED  BY <3>1, <3>2
  <2>5. {table[x].num : x \in held} = 1 .. k
    BY DEF Dense
  <2>6. 1 .. k + 1 = (1 .. k) \cup {k + 1}
    BY <2>2
  <2>7. {table2[x].num : x \in RowsOf(table2, p)} = 1 .. k + 1
    BY <2>1, <2>4, <2>5, <2>6
  <2> QED  BY <2>3, <2>7 DEF Dense
<1> QED  BY <1>2, <1>3

-----------------------------------------------------------------------------
(* The numbers                                                             *)

Listed(p) == p \in Range(pipes)
Exists(table, v) == v \in Ids /\ table[v].pipe # Nobody

\* What a call has read, and what it may still do with it.
CallOK(c) ==
    LET k == calls[c] IN
    /\ k.pc \in {"new", "max", "insert", "saved"} =>
           version[c].pipe = Nobody /\ run[c].pipe = Nobody /\ ~Listed(c)
    /\ k.pc = "set" => Exists(version, c)
    /\ k.pc \in {"max", "insert"} /\ k.op \in {"save", "restore"} => Listed(k.pipe)
    /\ k.pc = "insert" /\ k.op \in {"save", "restore"} => k.max <= Count(version, k.pipe)
    /\ k.pc = "saved" => /\ k.op = "save" /\ Listed(k.pipe)
                         /\ k.max = Count(version, k.pipe)
    /\ k.pc = "commit" => k.op = "trigger" /\ run[c].pipe = Nobody
    /\ k.pc \in {"insert", "commit"} /\ k.op \in {"push", "retry", "trigger"} =>
           k.max <= Count(run, k.pipe)
    /\ k.pc \in {"insert", "commit"} /\ k.op \in {"retry", "trigger"} =>
           Listed(k.pipe) /\ Exists(version, k.version)
    /\ k.pc = "insert" /\ k.op = "push" =>
           \/ k.pipe = c /\ k.version = c
           \/ Listed(k.pipe) /\ Exists(version, k.version)
    /\ k.pc = "commit" => k.max = Count(run, k.pipe)

\* The transactions of two triggers on one pipeline exclude each other.
OneCommit ==
    \A c, d \in Calls : c # d /\ calls[c].pc = "commit" /\ calls[d].pc = "commit"
                        => calls[c].pipe # calls[d].pipe

\* The open transactions of two saves are about different pipelines.
OneSave ==
    \A c, d \in Calls : c # d /\ calls[c].pc = "saved" /\ calls[d].pc = "saved"
                        => calls[c].pipe # calls[d].pipe

TablesOK ==
    /\ \A p \in Ids : Dense(version, p) /\ Dense(run, p)
    /\ \A v \in Ids : version[v].pipe # Nobody => Listed(version[v].pipe)
    /\ \A p \in Range(pipes) : \E v \in Ids : version[v].pipe = p
    /\ \A p \in Ids : current[p] # Nobody => Exists(version, current[p])
    /\ \A r \in Ids : run[r].status # "none" => Listed(run[r].pipe) /\ Exists(version, run[r].version)

RowsTyped ==
    /\ pipes \in Seq(Ids)
    /\ version \in [Ids -> VersionRec]
    /\ current \in [Ids -> Ids \cup {Nobody}]
    /\ run \in [Ids -> RunRec]

\* The half of the inductive invariant that is about numbers.
Numbered ==
    /\ RowsTyped
    /\ calls \in [Calls -> CallRec]
    /\ TablesOK
    /\ \A c \in Calls : CallOK(c)
    /\ OneCommit /\ OneSave

LEMMA DenseIsDense == TablesOK => NumbersDense
BY DEF TablesOK, NumbersDense, Dense, Count, RowsOf, VersionNums, VersionsOf, RunNums, RunsOf

LEMMA ListedIsId == RowsTyped => \A p : Listed(p) => p \in Ids
BY DEF RowsTyped, Listed, Range

LEMMA NobodyIsNone == Nobody \notin Ids
BY LaunchAssumption DEF Ids

LEMMA NumsAre ==
    ASSUME TablesOK, NEW p \in Ids
    PROVE  /\ VersionNums(p) = 1 .. Count(version, p) /\ RunNums(p) = 1 .. Count(run, p)
           /\ Top(VersionNums(p)) = Count(version, p) /\ Top(RunNums(p)) = Count(run, p)
           /\ Count(version, p) \in Nat /\ Count(run, p) \in Nat
<1>1. Dense(version, p) /\ Dense(run, p)
  BY DEF TablesOK
<1>2. VersionNums(p) = 1 .. Count(version, p)
  BY <1>1 DEF Dense, RowsOf, VersionNums, VersionsOf
<1>3. RunNums(p) = 1 .. Count(run, p)
  BY <1>1 DEF Dense, RowsOf, RunNums, RunsOf
<1> QED  BY <1>2, <1>3, IdsFinite, TopIs

\* A number that is not taken and follows one that has been counted is the next.
LEMMA NextNumber ==
    ASSUME NEW k \in Nat, NEW max \in Nat, max <= k, max + 1 \notin 1 .. k
    PROVE  max = k
OBVIOUS

\* Nothing a call depends on is taken back, and no call inserts another's row.
TablesGrow ==
    /\ \A p \in Range(pipes) : p \in Range(pipes')
    /\ \A v \in Ids : version[v].pipe # Nobody => version'[v].pipe # Nobody
    /\ \A p \in Ids : /\ Count(version, p) <= Count(version', p)
                      /\ Count(run, p) <= Count(run', p)

LEMMA OtherCall ==
    ASSUME Numbered, NEW d \in Calls, calls'[d] = calls[d], TablesGrow,
           version'[d].pipe = version[d].pipe, run'[d].pipe = run[d].pipe,
           d \in Range(pipes') => Listed(d),
           calls[d].pc = "commit" => Count(run', calls[d].pipe) = Count(run, calls[d].pipe),
           calls[d].pc = "saved" => Count(version', calls[d].pipe) = Count(version, calls[d].pipe)
    PROVE  CallOK(d)'
<1> DEFINE k == calls[d]
<1>1. k \in CallRec /\ CallOK(d)
  BY DEF Numbered
<1>2. k.max \in Nat
  BY <1>1 DEF CallRec
<1>3. \A p : Listed(p) => /\ p \in Ids /\ Listed(p)'
                          /\ Count(version, p) \in Nat /\ Count(version', p) \in Nat
                          /\ Count(version, p) <= Count(version', p)
                          /\ Count(run, p) \in Nat /\ Count(run', p) \in Nat
                          /\ Count(run, p) <= Count(run', p)
  BY ListedIsId, IdsFinite DEF Numbered, Listed, TablesGrow
<1>4. \A v : Exists(version, v) => Exists(version', v)
  BY DEF Exists, TablesGrow
<1>5. d \in Ids /\ Count(run, d) <= Count(run', d) /\ Count(run, d) \in Nat /\ Count(run', d) \in Nat
  BY CallsAreIds, IdsFinite DEF TablesGrow
<1> QED  BY <1>1, <1>2, <1>3, <1>4, <1>5 DEF CallOK, Listed

\* A step of a call that only reads, or is refused.
LEMMA ReadStep ==
    ASSUME Numbered, NEW c \in Calls, NEW call \in CallRec, calls' = [calls EXCEPT ![c] = call],
           UNCHANGED <<pipes, version, current, run>>, call.pc \notin {"commit", "saved"},
           CallOK(c)'
    PROVE  Numbered'
<1>1. RowsTyped' /\ TablesOK'
  <2>1. RowsTyped'
    BY DEF Numbered, RowsTyped
  <2>2. TablesOK'
    BY DEF Numbered, TablesOK, Listed, Exists
  <2> QED  BY <2>1, <2>2
<1>2. calls' \in [Calls -> CallRec]
  BY DEF Numbered
<1>3. \A d \in Calls \ {c} : calls'[d] = calls[d]
  BY DEF Numbered
<1>4. calls'[c] = call
  BY DEF Numbered
<1>5. OneCommit' /\ OneSave'
  BY <1>3, <1>4 DEF Numbered, OneCommit, OneSave
<1>6. ASSUME NEW d \in Calls PROVE CallOK(d)'
  <2>1. CASE d = c
    BY <2>1
  <2>2. CASE d # c
    <3>1. version' = version /\ run' = run /\ pipes' = pipes
      OBVIOUS
    <3>2. TablesGrow
      BY <3>1, IdsFinite DEF TablesGrow
    <3> QED  BY <1>3, <2>2, <3>1, <3>2, OtherCall DEF Listed
  <2> QED  BY <2>1, <2>2
<1> QED  BY <1>1, <1>2, <1>5, <1>6 DEF Numbered

LEMMA EndStep ==
    ASSUME Numbered, NEW c \in Calls, NEW pc \in {"acked", "lost", "refused"}, Ends(c, pc),
           UNCHANGED <<pipes, version, current, run>>
    PROVE  Numbered'
<1> DEFINE call == [NewCall EXCEPT !.op = calls[c].op, !.pc = pc]
<1>1. calls[c].op \in Operations \cup {""}
  BY DEF Numbered, CallRec
<1>2. call \in CallRec /\ call.pc = pc
  BY <1>1 DEF NewCall, CallRec
<1>3. calls' = [calls EXCEPT ![c] = call]
  BY DEF Ends
<1> HIDE DEF call
<1>4. calls'[c] = call
  BY <1>3 DEF Numbered
<1>5. CallOK(c)'
  BY <1>2, <1>4 DEF CallOK
<1> QED  BY <1>2, <1>3, <1>5, ReadStep

\* The record of a call that starts.
Started(op, pc, p, v, staged, branch, max) ==
    [op |-> op, pc |-> pc, pipe |-> p, version |-> v, staged |-> staged, branch |-> branch,
     max |-> max]

LEMMA StartRec ==
    ASSUME NEW op \in Operations, NEW pc \in {"max", "insert", "refused"},
           NEW p \in Ids \cup {Nobody}, NEW v \in Ids \cup {Nobody}, NEW staged \in BOOLEAN,
           NEW branch \in BOOLEAN, NEW max \in Nat
    PROVE  Started(op, pc, p, v, staged, branch, max) \in CallRec
BY DEF Started, CallRec

\* A call that starts has left no row.
LEMMA NewIsFresh ==
    ASSUME Numbered, NEW c \in Calls, NEW op, Begin(c, op)
    PROVE  version[c].pipe = Nobody /\ run[c].pipe = Nobody /\ ~Listed(c)
BY DEF Numbered, Begin, CallOK

LEMMA SaveReadNumbered ==
    ASSUME Numbered, NEW c \in Calls, SaveRead(c)
    PROVE  Numbered'
<1>1. UNCHANGED <<pipes, version, current, run>>
  BY DEF SaveRead
<1>2. PICK p \in Range(pipes), staged \in Backing : \E base \in VersionsOf(p) \cup {Nobody} :
          Start(c, "save",
                IF Nobody \notin {base, current[p]} /\ base # current[p] THEN "refused" ELSE "max",
                p, base, staged, FALSE, 0)
  BY DEF SaveRead
<1>3. PICK base \in VersionsOf(p) \cup {Nobody}, pc \in {"refused", "max"} :
          Start(c, "save", pc, p, base, staged, FALSE, 0)
  BY <1>2
<1>4. p \in Ids /\ base \in Ids \cup {Nobody} /\ staged \in BOOLEAN
  BY ListedIsId, LaunchAssumption DEF Numbered, Listed, VersionsOf
<1> DEFINE call == Started("save", pc, p, base, staged, FALSE, 0)
<1>5. /\ call \in CallRec /\ calls' = [calls EXCEPT ![c] = call] /\ calls'[c] = call
      /\ call.op = "save" /\ call.pc = pc /\ call.pipe = p
  <2>1. call \in CallRec
    BY <1>4, StartRec DEF Operations
  <2>2. calls' = [calls EXCEPT ![c] = call]
    BY <1>3 DEF Start, Started
  <2> QED  BY <2>1, <2>2 DEF Started, Numbered
<1> HIDE DEF call
<1>6. version[c].pipe = Nobody /\ run[c].pipe = Nobody /\ ~Listed(c)
  <2>1. Begin(c, "save")
    BY DEF SaveRead
  <2> QED  BY <2>1, NewIsFresh
<1>7. CallOK(c)'
  BY <1>1, <1>5, <1>6 DEF CallOK, Listed
<1> QED  BY <1>1, <1>5, <1>7, ReadStep

LEMMA RestoreReadNumbered ==
    ASSUME Numbered, NEW c \in Calls, RestoreRead(c)
    PROVE  Numbered'
<1>1. UNCHANGED <<pipes, version, current, run>>
  BY DEF RestoreRead
<1>2. PICK p \in Range(pipes) : \E old \in VersionsOf(p) :
          Start(c, "restore", "max", p, old, version[old].staged, FALSE, 0)
  BY DEF RestoreRead
<1>3. PICK old \in VersionsOf(p) : Start(c, "restore", "max", p, old, version[old].staged, FALSE, 0)
  BY <1>2
<1>4. p \in Ids /\ old \in Ids /\ version[old].staged \in BOOLEAN
  BY ListedIsId DEF Numbered, Listed, VersionsOf, RowsTyped, VersionRec
<1> DEFINE call == Started("restore", "max", p, old, version[old].staged, FALSE, 0)
<1>5. /\ call \in CallRec /\ calls' = [calls EXCEPT ![c] = call] /\ calls'[c] = call
      /\ call.op = "restore" /\ call.pc = "max" /\ call.pipe = p
  <2>1. call \in CallRec
    BY <1>4, StartRec DEF Operations
  <2>2. calls' = [calls EXCEPT ![c] = call]
    BY <1>3 DEF Start, Started
  <2> QED  BY <2>1, <2>2 DEF Started, Numbered
<1> HIDE DEF call
<1>6. version[c].pipe = Nobody /\ run[c].pipe = Nobody /\ ~Listed(c)
  <2>1. Begin(c, "restore")
    BY DEF RestoreRead
  <2> QED  BY <2>1, NewIsFresh
<1>7. CallOK(c)'
  BY <1>1, <1>5, <1>6 DEF CallOK, Listed
<1> QED  BY <1>1, <1>5, <1>7, ReadStep

LEMMA MaxVersionNumbered ==
    ASSUME Numbered, NEW c \in Calls, MaxVersion(c)
    PROVE  Numbered'
<1> DEFINE k == calls[c]
           m == Top(VersionNums(k.pipe))
           call == [k EXCEPT !.pc = "insert", !.max = m]
<1>1. UNCHANGED <<pipes, version, current, run>> /\ k.op \in {"save", "restore"} /\ k.pc = "max"
  BY DEF MaxVersion, At
<1>2. k \in CallRec /\ CallOK(c)
  BY DEF Numbered
<1>3. Listed(k.pipe) /\ k.pipe \in Ids
  BY <1>1, <1>2, ListedIsId DEF CallOK, Numbered
<1>4. m = Count(version, k.pipe) /\ m \in Nat
  BY <1>3, NumsAre DEF Numbered
<1> HIDE DEF m
<1>5. /\ call \in CallRec
      /\ call.op = k.op /\ call.pc = "insert" /\ call.pipe = k.pipe /\ call.max = m
  BY <1>2, <1>4 DEF CallRec
<1>6. calls' = [calls EXCEPT ![c] = call]
  BY DEF MaxVersion, m, Numbered
<1> HIDE DEF call
<1>7. calls'[c] = call
  BY <1>6 DEF Numbered
<1>8. CallOK(c)'
  BY <1>1, <1>2, <1>3, <1>4, <1>5, <1>7 DEF CallOK, Listed
<1> QED  BY <1>1, <1>5, <1>6, <1>8, ReadStep

LEMMA NewestIs ==
    ASSUME Numbered, NEW p \in Ids, VersionsOf(p) # {}
    PROVE  Newest(p) \in VersionsOf(p)
<1>1. /\ VersionNums(p) = 1 .. Count(version, p) /\ Top(VersionNums(p)) = Count(version, p)
      /\ Count(version, p) \in Nat
  BY NumsAre DEF Numbered
<1>2. VersionNums(p) # {}
  BY DEF VersionNums
<1>3. Top(VersionNums(p)) \in VersionNums(p)
  BY <1>1, <1>2
<1>4. \E v \in VersionsOf(p) : version[v].num = Top(VersionNums(p))
  BY <1>3 DEF VersionNums
<1> QED  BY <1>4 DEF Newest

LEMMA PushReadNumbered ==
    ASSUME Numbered, NEW c \in Calls, PushRead(c)
    PROVE  Numbered'
<1> DEFINE p == IF pipes = <<>> THEN c ELSE Head(pipes)
           v == IF VersionsOf(p) = {} THEN c ELSE Newest(p)
           call == Started("push", "insert", p, v, FALSE, TRUE, Top(RunNums(p)))
<1>1. UNCHANGED <<pipes, version, current, run>> /\ Begin(c, "push")
  BY DEF PushRead
<1>2. version[c].pipe = Nobody /\ run[c].pipe = Nobody /\ ~Listed(c)
  BY <1>1, NewIsFresh
<1>3. p \in Ids /\ v \in Ids /\ ((p = c /\ v = c) \/ (Listed(p) /\ Exists(version, v)))
  <2>1. CASE pipes = <<>>
    <3>1. p = c /\ c \in Ids
      BY <2>1, CallsAreIds
    <3>2. VersionsOf(c) = {}
      BY <1>2, <3>1, NobodyIsNone DEF Numbered, TablesOK, VersionsOf
    <3> QED  BY <3>1, <3>2
  <2>2. CASE pipes # <<>>
    <3>1. p = pipes[1] /\ 1 \in DOMAIN pipes
      BY <2>2 DEF Numbered, RowsTyped
    <3> HIDE DEF p
    <3>2. Listed(p) /\ p \in Ids
      BY <3>1, ListedIsId DEF Listed, Range, Numbered
    <3>3. VersionsOf(p) # {}
      BY <3>2 DEF Numbered, TablesOK, Listed, VersionsOf
    <3>4. v \in VersionsOf(p)
      BY <3>2, <3>3, NewestIs
    <3> QED  BY <3>2, <3>4, NobodyIsNone DEF VersionsOf, Exists
  <2> QED  BY <2>1, <2>2
<1>4. calls' = [calls EXCEPT ![c] = call]
  BY DEF PushRead, Start, Started
<1> HIDE DEF p, v
<1>5. Top(RunNums(p)) = Count(run, p) /\ Count(run, p) \in Nat
  BY <1>3, NumsAre DEF Numbered
<1>6. call \in CallRec
  BY <1>3, <1>5, StartRec DEF Operations
<1>7. /\ call.op = "push" /\ call.pc = "insert" /\ call.pipe = p /\ call.version = v
      /\ call.max = Count(run, p)
  BY <1>5 DEF Started
<1> HIDE DEF call
<1>8. calls'[c] = call
  BY <1>4 DEF Numbered
<1>9. CallOK(c)'
  BY <1>1, <1>2, <1>3, <1>5, <1>7, <1>8 DEF CallOK, Listed, Exists
<1> QED  BY <1>1, <1>4, <1>6, <1>7, <1>9, ReadStep

LEMMA TriggerReadNumbered ==
    ASSUME Numbered, NEW c \in Calls, TriggerRead(c)
    PROVE  Numbered'
<1>1. UNCHANGED <<pipes, version, current, run>> /\ Begin(c, "trigger")
  BY DEF TriggerRead
<1>2. PICK p \in Range(pipes) :
        Start(c, "trigger", IF current[p] = Nobody THEN "refused" ELSE "insert",
              p, current[p], FALSE, FALSE, Top(RunNums(p)))
  BY DEF TriggerRead
<1> DEFINE v == current[p]
           pc == IF v = Nobody THEN "refused" ELSE "insert"
           call == Started("trigger", pc, p, v, FALSE, FALSE, Top(RunNums(p)))
<1>3. Listed(p) /\ p \in Ids /\ v \in Ids \cup {Nobody} /\ (v # Nobody => Exists(version, v))
  BY ListedIsId DEF Listed, Numbered, RowsTyped, TablesOK
<1>4. calls' = [calls EXCEPT ![c] = call]
  BY <1>2 DEF Start, Started
<1>5. Top(RunNums(p)) = Count(run, p) /\ Count(run, p) \in Nat
  BY <1>3, NumsAre DEF Numbered
<1>6. pc \in {"refused", "insert"} /\ (pc = "insert" => v # Nobody)
  OBVIOUS
<1> HIDE DEF v, pc
<1>7. call \in CallRec
  BY <1>3, <1>5, <1>6, StartRec DEF Operations
<1>8. /\ call.op = "trigger" /\ call.pc = pc /\ call.pipe = p /\ call.version = v
      /\ call.max = Count(run, p)
  BY <1>5 DEF Started
<1> HIDE DEF call
<1>9. calls'[c] = call
  BY <1>4 DEF Numbered
<1>10. version[c].pipe = Nobody /\ run[c].pipe = Nobody /\ ~Listed(c)
  BY <1>1, NewIsFresh
<1>11. CallOK(c)'
  BY <1>1, <1>3, <1>5, <1>6, <1>8, <1>9, <1>10 DEF CallOK, Listed, Exists
<1> QED  BY <1>1, <1>4, <1>6, <1>7, <1>8, <1>11, ReadStep

LEMMA RetryReadNumbered ==
    ASSUME Numbered, NEW c \in Calls, RetryRead(c)
    PROVE  Numbered'
<1>1. UNCHANGED <<pipes, version, current, run>> /\ Begin(c, "retry")
  BY DEF RetryRead
<1>2. PICK r \in Ids :
        /\ run[r].status \notin {"none", "pending", "running"}
        /\ Start(c, "retry", "insert", run[r].pipe, run[r].version, FALSE, run[r].branch,
                 Top(RunNums(run[r].pipe)))
  BY DEF RetryRead
<1> DEFINE p == run[r].pipe
           v == run[r].version
           call == Started("retry", "insert", p, v, FALSE, run[r].branch, Top(RunNums(p)))
<1>3. Listed(p) /\ p \in Ids /\ v \in Ids /\ Exists(version, v) /\ run[r].branch \in BOOLEAN
  BY <1>2, ListedIsId DEF Numbered, RowsTyped, TablesOK, RunRec, Exists
<1>4. calls' = [calls EXCEPT ![c] = call]
  BY <1>2 DEF Start, Started
<1> HIDE DEF p, v
<1>5. Top(RunNums(p)) = Count(run, p) /\ Count(run, p) \in Nat
  BY <1>3, NumsAre DEF Numbered
<1>6. call \in CallRec
  BY <1>3, <1>5, StartRec DEF Operations
<1>7. /\ call.op = "retry" /\ call.pc = "insert" /\ call.pipe = p /\ call.version = v
      /\ call.max = Count(run, p)
  BY <1>5 DEF Started
<1> HIDE DEF call
<1>8. calls'[c] = call
  BY <1>4 DEF Numbered
<1>9. version[c].pipe = Nobody /\ run[c].pipe = Nobody /\ ~Listed(c)
  BY <1>1, NewIsFresh
<1>10. CallOK(c)'
  BY <1>1, <1>3, <1>5, <1>7, <1>8, <1>9 DEF CallOK, Listed, Exists
<1> QED  BY <1>1, <1>4, <1>6, <1>7, <1>10, ReadStep

\* A step of a call that writes to the tables.
LEMMA WriteStep ==
    ASSUME Numbered, NEW c \in Calls, NEW call \in CallRec, calls' = [calls EXCEPT ![c] = call],
           call.pc \notin {"commit", "saved"}, CallOK(c)', RowsTyped', TablesOK', TablesGrow,
           \A d \in Calls \ {c} :
               /\ version'[d].pipe = version[d].pipe /\ run'[d].pipe = run[d].pipe
               /\ d \in Range(pipes') => Listed(d)
               /\ calls[d].pc = "commit" => Count(run', calls[d].pipe) = Count(run, calls[d].pipe)
               /\ calls[d].pc = "saved" => Count(version', calls[d].pipe) = Count(version, calls[d].pipe)
    PROVE  Numbered'
<1>1. calls' \in [Calls -> CallRec]
  BY DEF Numbered
<1>2. calls'[c] = call /\ \A d \in Calls \ {c} : calls'[d] = calls[d]
  BY DEF Numbered
<1>3. OneCommit' /\ OneSave'
  BY <1>2 DEF Numbered, OneCommit, OneSave
<1>4. ASSUME NEW d \in Calls PROVE CallOK(d)'
  <2>1. CASE d = c
    BY <2>1
  <2>2. CASE d # c
    BY <1>2, <2>2, OtherCall
  <2> QED  BY <2>1, <2>2
<1> QED  BY <1>1, <1>3, <1>4 DEF Numbered

\* The next number is what an INSERT that is not refused takes.
LEMMA VersionNext ==
    ASSUME Numbered, NEW c \in Calls, At(c, {"save", "restore"}, "insert"),
           calls[c].max + 1 \notin VersionNums(calls[c].pipe)
    PROVE  Listed(calls[c].pipe) /\ calls[c].max = Count(version, calls[c].pipe)
<1>1. calls[c] \in CallRec /\ CallOK(c)
  BY DEF Numbered
<1>2. /\ Listed(calls[c].pipe) /\ calls[c].pipe \in Ids
      /\ calls[c].max <= Count(version, calls[c].pipe)
  BY <1>1, ListedIsId DEF At, CallOK, Numbered
<1>3. calls[c].max \in Nat
  BY <1>1 DEF CallRec
<1>4. /\ calls[c].max + 1 \notin 1 .. Count(version, calls[c].pipe)
      /\ Count(version, calls[c].pipe) \in Nat
  BY <1>2, NumsAre DEF Numbered
<1> QED  BY <1>2, <1>3, <1>4, NextNumber

\* The row of a version that gets the next number.
LEMMA VersionAdded ==
    ASSUME Numbered, NEW c \in Calls, Listed(calls[c].pipe), version[c].pipe = Nobody,
           calls[c].max = Count(version, calls[c].pipe), UNCHANGED <<pipes, run>>,
           version' = [version EXCEPT ![c] = NewVersion(c)],
           current' \in {current, [current EXCEPT ![calls[c].pipe] = c]}
    PROVE  /\ RowsTyped' /\ TablesOK' /\ TablesGrow /\ Exists(version', c)
           /\ version'[c].num = Count(version, calls[c].pipe) + 1
           /\ \A v \in Ids \ {c} : version'[v] = version[v]
           /\ \A q \in Ids \ {calls[c].pipe} : Count(version', q) = Count(version, q)
<1> DEFINE p == calls[c].pipe
           n == calls[c].max + 1
           new == NewVersion(c)
<1>1. calls[c] \in CallRec /\ c \in Ids
  BY CallsAreIds DEF Numbered
<1>2. p \in Ids
  BY ListedIsId DEF Numbered
<1>3. n = Count(version, p) + 1
  OBVIOUS
<1>4. new \in VersionRec /\ new.pipe = p /\ new.num = n
  <2>1. calls[c].max \in Nat /\ calls[c].staged \in BOOLEAN
    BY <1>1 DEF CallRec
  <2>2. n \in Nat
    BY <2>1
  <2> HIDE DEF n, p
  <2> QED  BY <1>2, <2>1, <2>2 DEF VersionRec, NewVersion, n, p
<1> HIDE DEF new
<1>5. version \in [Ids -> VersionRec] /\ (\A q \in Ids : Dense(version, q) /\ Dense(run, q))
  BY DEF Numbered, RowsTyped, TablesOK
<1>6. version' = [version EXCEPT ![c] = new]
  BY DEF new
<1>7. version[c].pipe \notin Ids
  BY <1>2, NobodyIsNone
<1>8. \A q \in Ids : /\ Dense(version', q)
                     /\ Count(version', q) = IF q = new.pipe THEN Count(version, q) + 1
                                             ELSE Count(version, q)
  <2>1. DOMAIN version = Ids /\ \A q \in Ids : Dense(version, q)
    BY <1>5
  <2>2. new.pipe \in Ids /\ new.num = Count(version, new.pipe) + 1
    BY <1>2, <1>3, <1>4
  <2>3. Adds(version, c, new, version')
    BY <1>1, <1>6, <1>7, <2>1, <2>2 DEF Adds
  <2> QED  BY <2>3, RowAdded
<1>9. version' \in [Ids -> VersionRec]
  BY <1>4, <1>5, <1>6
<1>10. /\ version'[c].pipe = p
       /\ \A v \in Ids \ {c} : version'[v] = version[v]
  <2>1. \A v \in Ids : version'[v] = IF v = c THEN new ELSE version[v]
    BY <1>5, <1>6
  <2> QED  BY <1>1, <1>4, <2>1
<1>11. TablesGrow
  <2>1. ASSUME NEW q \in Ids
        PROVE  Count(version, q) <= Count(version', q) /\ Count(run, q) <= Count(run', q)
    <3>1. Count(version, q) \in Nat /\ Count(run, q) \in Nat
      BY IdsFinite
    <3>2. Count(version', q) \in {Count(version, q), Count(version, q) + 1}
      BY <1>8
    <3>3. run' = run
      OBVIOUS
    <3> QED  BY <3>1, <3>2, <3>3
  <2>2. p # Nobody
    BY <1>2, NobodyIsNone
  <2> QED  BY <1>10, <2>1, <2>2 DEF TablesGrow
<1>12. current' \in [Ids -> Ids \cup {Nobody}] /\ \A q \in Ids : current'[q] \in {current[q], c}
  BY <1>1, <1>2 DEF Numbered, RowsTyped
<1>13. RowsTyped'
  BY <1>9, <1>12 DEF Numbered, RowsTyped
<1>14. \A v : Exists(version, v) => Exists(version', v)
  BY <1>11 DEF TablesGrow, Exists
<1>15. Exists(version', c)
  BY <1>1, <1>2, <1>10, NobodyIsNone DEF Exists
<1>16. TablesOK'
  <2>1. \A q \in Ids : Dense(version', q) /\ Dense(run', q)
    BY <1>5, <1>8
  <2>2. \A v \in Ids : version'[v].pipe # Nobody => version'[v].pipe \in Range(pipes')
    BY <1>2, <1>10 DEF Numbered, TablesOK, Listed
  <2>3. \A q \in Range(pipes') : \E v \in Ids : version'[v].pipe = q
    <3> TAKE q \in Range(pipes')
    <3>1. PICK v \in Ids : version[v].pipe = q
      BY DEF Numbered, TablesOK
    <3>2. q # Nobody
      BY ListedIsId, NobodyIsNone DEF Numbered, Listed
    <3> QED  BY <1>2, <1>10, <3>1, <3>2
  <2>4. \A q \in Ids : current'[q] # Nobody => Exists(version', current'[q])
    <3> TAKE q \in Ids
    <3>1. CASE current'[q] = c
      BY <1>15, <3>1
    <3>2. CASE current'[q] = current[q]
      BY <1>14, <3>2 DEF Numbered, TablesOK
    <3> QED  BY <1>12, <3>1, <3>2
  <2>5. \A r \in Ids : run'[r].status # "none" => run'[r].pipe \in Range(pipes') /\ Exists(version', run'[r].version)
    BY <1>14 DEF Numbered, TablesOK, Listed
  <2> QED  BY <2>1, <2>2, <2>3, <2>4, <2>5 DEF TablesOK, Listed, Exists
<1>17. version'[c].num = Count(version, p) + 1
  BY <1>1, <1>3, <1>4, <1>5, <1>6
<1> QED  BY <1>4, <1>8, <1>10, <1>11, <1>13, <1>15, <1>16, <1>17

LEMMA InsertVersionNumbered ==
    ASSUME Numbered, NEW c \in Calls, InsertVersion(c)
    PROVE  Numbered'
<1> DEFINE k == calls[c]
<1>1. /\ UNCHANGED <<pipes, current, run>> /\ At(c, {"save", "restore"}, "insert")
      /\ ~\E d \in Calls \ {c} : Saving(d, k.pipe) /\ calls[d].max = k.max
  BY DEF InsertVersion
<1>2. \/ Ends(c, "refused") /\ UNCHANGED version
      \/ /\ k.max + 1 \notin VersionNums(k.pipe)
         /\ \/ k.op = "save" /\ UNCHANGED version /\ Go(c, "saved")
            \/ k.op # "save" /\ version' = [version EXCEPT ![c] = NewVersion(c)] /\ Go(c, "set")
  BY DEF InsertVersion
<1>3. k \in CallRec /\ CallOK(c) /\ c \in Ids /\ k.pc = "insert"
  BY <1>1, CallsAreIds DEF Numbered, At
<1>4. version[c].pipe = Nobody /\ run[c].pipe = Nobody /\ ~Listed(c)
  BY <1>3 DEF CallOK
<1>5. CASE Ends(c, "refused") /\ UNCHANGED version
  BY <1>1, <1>5, EndStep
<1>6. ASSUME k.max + 1 \notin VersionNums(k.pipe)
      PROVE  /\ Listed(k.pipe) /\ k.pipe \in Ids /\ k.max = Count(version, k.pipe)
             /\ \A d \in Calls \ {c} : calls[d].pc = "saved" =>
                    calls[d].pipe \in Ids /\ calls[d].pipe # k.pipe
  <2>1. Listed(k.pipe) /\ k.max = Count(version, k.pipe)
    BY <1>1, <1>6, VersionNext
  <2>2. ASSUME NEW d \in Calls \ {c}, calls[d].pc = "saved"
        PROVE  calls[d].pipe \in Ids /\ calls[d].pipe # k.pipe
    <3>1. CallOK(d)
      BY DEF Numbered
    <3>2. /\ calls[d].op = "save" /\ Listed(calls[d].pipe)
          /\ calls[d].max = Count(version, calls[d].pipe)
      BY <2>2, <3>1 DEF CallOK
    <3> QED  BY <1>1, <2>1, <2>2, <3>2, ListedIsId DEF Saving, At, Numbered
  <2> QED  BY <2>1, <2>2, ListedIsId DEF Numbered
<1>7. CASE /\ k.max + 1 \notin VersionNums(k.pipe)
           /\ k.op = "save" /\ UNCHANGED version /\ Go(c, "saved")
  <2> DEFINE call == [k EXCEPT !.pc = "saved"]
  <2>1. calls' = [calls EXCEPT ![c] = call]
    BY <1>7 DEF Go, Numbered
  <2>2. /\ call \in CallRec /\ call.op = "save" /\ call.pc = "saved" /\ call.pipe = k.pipe
        /\ call.max = k.max
    BY <1>3, <1>7 DEF CallRec
  <2> HIDE DEF call
  <2>3. calls' \in [Calls -> CallRec] /\ calls'[c] = call
    BY <2>1, <2>2 DEF Numbered
  <2>4. \A d \in Calls \ {c} : calls'[d] = calls[d]
    BY <2>1 DEF Numbered
  <2>5. RowsTyped' /\ TablesOK'
    <3>1. RowsTyped'
      BY <1>1, <1>7 DEF Numbered, RowsTyped
    <3>2. TablesOK'
      BY <1>1, <1>7 DEF Numbered, TablesOK, Listed
    <3> QED  BY <3>1, <3>2
  <2>6. TablesGrow
    BY <1>1, <1>7, IdsFinite DEF TablesGrow
  <2>7. ASSUME NEW d \in Calls PROVE CallOK(d)'
    <3>1. CASE d = c
      BY <1>1, <1>4, <1>6, <1>7, <2>2, <2>3, <3>1 DEF CallOK, Listed
    <3>2. CASE d # c
      BY <1>1, <1>7, <2>4, <2>6, <3>2, OtherCall DEF Listed
    <3> QED  BY <3>1, <3>2
  <2>8. OneCommit' /\ OneSave'
    BY <1>6, <1>7, <2>2, <2>3, <2>4 DEF Numbered, OneCommit, OneSave
  <2> QED  BY <2>3, <2>5, <2>7, <2>8 DEF Numbered
<1>8. CASE /\ k.max + 1 \notin VersionNums(k.pipe)
           /\ version' = [version EXCEPT ![c] = NewVersion(c)] /\ Go(c, "set")
  <2>1. /\ RowsTyped' /\ TablesOK' /\ TablesGrow /\ Exists(version', c)
        /\ \A v \in Ids \ {c} : version'[v] = version[v]
        /\ \A q \in Ids \ {k.pipe} : Count(version', q) = Count(version, q)
    BY <1>1, <1>4, <1>6, <1>8, VersionAdded
  <2>2. \A d \in Calls \ {c} :
            /\ version'[d].pipe = version[d].pipe /\ run'[d].pipe = run[d].pipe
            /\ d \in Range(pipes') => Listed(d)
            /\ calls[d].pc = "commit" => Count(run', calls[d].pipe) = Count(run, calls[d].pipe)
            /\ calls[d].pc = "saved" => Count(version', calls[d].pipe) = Count(version, calls[d].pipe)
    BY <1>1, <1>6, <1>8, <2>1, CallsAreIds DEF Listed
  <2> DEFINE call == [k EXCEPT !.pc = "set"]
  <2>3. calls' = [calls EXCEPT ![c] = call]
    BY <1>8 DEF Go, Numbered
  <2>4. call \in CallRec /\ call.pc = "set"
    BY <1>3 DEF CallRec
  <2> HIDE DEF call
  <2>5. calls'[c] = call
    BY <2>3 DEF Numbered
  <2>6. CallOK(c)'
    BY <2>1, <2>4, <2>5 DEF CallOK
  <2> QED  BY <2>1, <2>2, <2>3, <2>4, <2>6, WriteStep
<1> QED  BY <1>2, <1>5, <1>7, <1>8

\* What the COMMIT of a save finds.
LEMMA SavedIs ==
    ASSUME Numbered, NEW c \in Calls, At(c, {"save"}, "saved")
    PROVE  /\ Listed(calls[c].pipe) /\ calls[c].pipe \in Ids /\ version[c].pipe = Nobody
           /\ calls[c].max = Count(version, calls[c].pipe)
<1>1. CallOK(c) /\ calls[c].pc = "saved"
  BY DEF Numbered, At
<1> QED  BY <1>1, ListedIsId DEF CallOK, Numbered

LEMMA SaveCommitNumbered ==
    ASSUME Numbered, NEW c \in Calls, SaveCommit(c)
    PROVE  Numbered'
<1> DEFINE k == calls[c]
<1>1. UNCHANGED <<pipes, run>> /\ At(c, {"save"}, "saved") /\ k.pc = "saved"
  BY DEF SaveCommit, At
<1>2. CASE Ends(c, "lost") /\ UNCHANGED <<version, current>>
  BY <1>1, <1>2, EndStep
<1>3. CASE /\ version' = [version EXCEPT ![c] = NewVersion(c)]
           /\ current' = [current EXCEPT ![k.pipe] = c]
           /\ Ends(c, "acked")
  <2>1. /\ RowsTyped' /\ TablesOK' /\ TablesGrow /\ Exists(version', c)
        /\ \A v \in Ids \ {c} : version'[v] = version[v]
        /\ \A q \in Ids \ {k.pipe} : Count(version', q) = Count(version, q)
    BY <1>1, <1>3, SavedIs, VersionAdded
  <2>2. ASSUME NEW d \in Calls \ {c}, calls[d].pc = "saved"
        PROVE  calls[d].pipe \in Ids /\ calls[d].pipe # k.pipe
    <3>1. CallOK(d) /\ calls[d].pipe # k.pipe
      BY <1>1, <2>2 DEF Numbered, OneSave
    <3> QED  BY <2>2, <3>1, ListedIsId DEF CallOK, Numbered
  <2>3. \A d \in Calls \ {c} :
            /\ version'[d].pipe = version[d].pipe /\ run'[d].pipe = run[d].pipe
            /\ d \in Range(pipes') => Listed(d)
            /\ calls[d].pc = "commit" => Count(run', calls[d].pipe) = Count(run, calls[d].pipe)
            /\ calls[d].pc = "saved" => Count(version', calls[d].pipe) = Count(version, calls[d].pipe)
    BY <1>1, <2>1, <2>2, CallsAreIds DEF Listed
  <2> DEFINE call == [NewCall EXCEPT !.op = k.op, !.pc = "acked"]
  <2>4. call \in CallRec /\ call.pc = "acked"
    BY DEF Numbered, CallRec, NewCall
  <2>5. calls' = [calls EXCEPT ![c] = call]
    BY <1>3 DEF Ends
  <2> HIDE DEF call
  <2>6. calls'[c] = call
    BY <2>5 DEF Numbered
  <2>7. CallOK(c)'
    BY <2>4, <2>6 DEF CallOK
  <2> QED  BY <2>1, <2>3, <2>4, <2>5, <2>7, WriteStep
<1> QED  BY <1>2, <1>3 DEF SaveCommit

LEMMA RestoreSetNumbered ==
    ASSUME Numbered, NEW c \in Calls, RestoreSet(c)
    PROVE  Numbered'
<1>1. UNCHANGED <<pipes, version, run>> /\ calls[c].pc = "set"
  BY DEF RestoreSet, At
<1>2. CASE Ends(c, "refused") /\ UNCHANGED current
  BY <1>1, <1>2, EndStep
<1>3. CASE current' = [current EXCEPT ![calls[c].pipe] = c] /\ Ends(c, "acked")
  <2>1. calls[c] \in CallRec /\ CallOK(c) /\ c \in Ids
    BY CallsAreIds DEF Numbered
  <2>2. Exists(version, c)
    BY <1>1, <2>1 DEF CallOK
  <2>3. current' \in [Ids -> Ids \cup {Nobody}] /\ \A q \in Ids : current'[q] \in {current[q], c}
    BY <1>3, <2>1 DEF Numbered, RowsTyped
  <2>4. RowsTyped'
    BY <1>1, <2>3 DEF Numbered, RowsTyped
  <2>5. TablesOK'
    <3>1. \A q \in Ids : current'[q] # Nobody => Exists(version', current'[q])
      BY <1>1, <2>2, <2>3 DEF Numbered, TablesOK
    <3> QED  BY <1>1, <3>1 DEF Numbered, TablesOK, Listed
  <2>6. TablesGrow
    BY <1>1, IdsFinite DEF TablesGrow
  <2> DEFINE call == [NewCall EXCEPT !.op = calls[c].op, !.pc = "acked"]
  <2>7. call \in CallRec /\ call.pc = "acked"
    BY <2>1 DEF CallRec, NewCall
  <2>8. calls' = [calls EXCEPT ![c] = call]
    BY <1>3 DEF Ends
  <2> HIDE DEF call
  <2>9. calls'[c] = call
    BY <2>8 DEF Numbered
  <2>10. CallOK(c)'
    BY <2>7, <2>9 DEF CallOK
  <2> QED  BY <1>1, <2>4, <2>5, <2>6, <2>7, <2>8, <2>10, WriteStep DEF Listed
<1> QED  BY <1>2, <1>3 DEF RestoreSet

\* The row of a new run that gets the next number.
LEMMA RunAdded ==
    ASSUME Numbered, NEW c \in Calls, run[c].pipe = Nobody, calls[c].pipe \in Ids,
           calls[c].max = Count(run, calls[c].pipe), run' = [run EXCEPT ![c] = NewRun(c)]
    PROVE  /\ run' \in [Ids -> RunRec]
           /\ \A q \in Ids : /\ Dense(run', q)
                             /\ Count(run', q) = IF q = calls[c].pipe THEN Count(run, q) + 1
                                                 ELSE Count(run, q)
           /\ run'[c].pipe = calls[c].pipe /\ run'[c].version = calls[c].version
           /\ \A x \in Ids \ {c} : run'[x] = run[x]
<1> DEFINE new == NewRun(c)
<1>1. calls[c] \in CallRec /\ c \in Ids /\ run \in [Ids -> RunRec]
  BY CallsAreIds DEF Numbered, RowsTyped
<1>2. new \in RunRec
  BY <1>1, NewRunTyped
<1>3. new.pipe = calls[c].pipe /\ new.num = calls[c].max + 1 /\ new.version = calls[c].version
  BY DEF NewRun
<1> HIDE DEF new
<1>4. run' = [run EXCEPT ![c] = new]
  BY DEF new
<1>5. Adds(run, c, new, run')
  BY <1>1, <1>3, <1>4, NobodyIsNone DEF Adds, Numbered, TablesOK
<1> QED  BY <1>1, <1>2, <1>3, <1>4, <1>5, RowAdded

LEMMA TriggerInsertNumbered ==
    ASSUME Numbered, NEW c \in Calls, TriggerInsert(c)
    PROVE  Numbered'
<1> DEFINE k == calls[c]
<1>1. /\ UNCHANGED <<pipes, version, current, run>>
      /\ k.op = "trigger" /\ k.pc = "insert" /\ ~Held(c)
  BY DEF TriggerInsert, At
<1>2. CASE Ends(c, "refused")
  BY <1>1, <1>2, EndStep
<1>3. CASE k.max + 1 \notin RunNums(k.pipe) /\ Go(c, "commit")
  <2>1. k \in CallRec /\ CallOK(c)
    BY DEF Numbered
  <2>2. /\ Listed(k.pipe) /\ Exists(version, k.version) /\ run[c].pipe = Nobody
        /\ k.max <= Count(run, k.pipe)
    BY <1>1, <2>1 DEF CallOK
  <2>3. k.pipe \in Ids
    BY <2>2, ListedIsId DEF Numbered
  <2>4. k.max = Count(run, k.pipe)
    <3>1. k.max \in Nat
      BY <2>1 DEF CallRec
    <3>2. k.max + 1 \notin 1 .. Count(run, k.pipe) /\ Count(run, k.pipe) \in Nat
      BY <1>3, <2>3, NumsAre DEF Numbered
    <3> QED  BY <2>2, <3>1, <3>2, NextNumber
  <2> DEFINE call == [k EXCEPT !.pc = "commit"]
  <2>5. calls' = [calls EXCEPT ![c] = call]
    BY <1>3 DEF Go, Numbered
  <2>6. /\ call \in CallRec
        /\ call.op = "trigger" /\ call.pc = "commit" /\ call.pipe = k.pipe /\ call.max = k.max
        /\ call.version = k.version
    BY <1>1, <2>1 DEF CallRec
  <2> HIDE DEF call
  <2>7. calls' \in [Calls -> CallRec] /\ calls'[c] = call
    BY <2>5, <2>6 DEF Numbered
  <2>8. \A d \in Calls \ {c} : calls'[d] = calls[d]
    BY <2>5 DEF Numbered
  <2>9. RowsTyped' /\ TablesOK'
    <3>1. RowsTyped'
      BY <1>1 DEF Numbered, RowsTyped
    <3>2. TablesOK'
      BY <1>1 DEF Numbered, TablesOK, Listed
    <3> QED  BY <3>1, <3>2
  <2>10. TablesGrow
    BY <1>1, IdsFinite DEF TablesGrow
  <2>11. ASSUME NEW d \in Calls PROVE CallOK(d)'
    <3>1. CASE d = c
      BY <1>1, <2>2, <2>4, <2>6, <2>7, <3>1 DEF CallOK, Listed
    <3>2. CASE d # c
      BY <1>1, <2>8, <2>10, <3>2, OtherCall DEF Listed
    <3> QED  BY <3>1, <3>2
  <2>12. ASSUME NEW d \in Calls \ {c}, calls[d].pc = "commit" PROVE calls[d].pipe # k.pipe
    <3>1. CallOK(d)
      BY DEF Numbered
    <3>2. calls[d].op = "trigger" /\ calls[d].max = Count(run, calls[d].pipe)
      BY <2>12, <3>1 DEF CallOK
    <3> QED  BY <1>1, <2>4, <2>12, <3>2 DEF Held, At
  <2>13. OneCommit' /\ OneSave'
    BY <2>6, <2>7, <2>8, <2>12 DEF Numbered, OneCommit, OneSave
  <2> QED  BY <2>7, <2>9, <2>11, <2>13 DEF Numbered
<1> QED  BY <1>2, <1>3 DEF TriggerInsert

LEMMA TriggerCommitNumbered ==
    ASSUME Numbered, NEW c \in Calls, TriggerCommit(c)
    PROVE  Numbered'
<1> DEFINE k == calls[c]
<1>1. UNCHANGED <<pipes, version, current>> /\ k.op = "trigger" /\ k.pc = "commit"
  BY DEF TriggerCommit, At
<1>2. CASE Ends(c, "refused") /\ UNCHANGED run
  BY <1>1, <1>2, EndStep
<1>3. CASE run' = [run EXCEPT ![c] = NewRun(c)] /\ Ends(c, "acked")
  <2>1. k \in CallRec /\ CallOK(c) /\ c \in Ids
    BY CallsAreIds DEF Numbered
  <2>2. /\ Listed(k.pipe) /\ Exists(version, k.version) /\ run[c].pipe = Nobody
        /\ k.max = Count(run, k.pipe)
    BY <1>1, <2>1 DEF CallOK
  <2>3. k.pipe \in Ids
    BY <2>2, ListedIsId DEF Numbered
  <2>4. /\ run' \in [Ids -> RunRec]
        /\ \A q \in Ids : /\ Dense(run', q)
                          /\ Count(run', q) = IF q = k.pipe THEN Count(run, q) + 1
                                              ELSE Count(run, q)
        /\ run'[c].pipe = k.pipe /\ run'[c].version = k.version
        /\ \A x \in Ids \ {c} : run'[x] = run[x]
    BY <1>3, <2>2, <2>3, RunAdded
  <2>5. RowsTyped'
    BY <1>1, <2>4 DEF Numbered, RowsTyped
  <2>6. TablesOK'
    <3>1. \A q \in Ids : Dense(version', q) /\ Dense(run', q)
      BY <1>1, <2>4 DEF Numbered, TablesOK
    <3>2. ASSUME NEW r \in Ids, run'[r].status # "none"
          PROVE  run'[r].pipe \in Range(pipes') /\ Exists(version', run'[r].version)
      <4>1. CASE r = c
        BY <1>1, <2>2, <2>4, <4>1 DEF Listed
      <4>2. CASE r # c
        BY <1>1, <2>4, <3>2, <4>2 DEF Numbered, TablesOK, Listed
      <4> QED  BY <4>1, <4>2
    <3> QED  BY <1>1, <3>1, <3>2 DEF Numbered, TablesOK, Listed
  <2>7. TablesGrow
    BY <1>1, <2>4, IdsFinite DEF TablesGrow
  <2>8. \A d \in Calls \ {c} :
            /\ version'[d].pipe = version[d].pipe /\ run'[d].pipe = run[d].pipe
            /\ d \in Range(pipes') => Listed(d)
            /\ calls[d].pc = "commit" => Count(run', calls[d].pipe) = Count(run, calls[d].pipe)
            /\ calls[d].pc = "saved" => Count(version', calls[d].pipe) = Count(version, calls[d].pipe)
    <3> TAKE d \in Calls \ {c}
    <3>1. calls[d].pc = "commit" => calls[d].pipe \in Ids /\ calls[d].pipe # k.pipe
      <4>1. CallOK(d)
        BY DEF Numbered
      <4>2. calls[d].pc = "commit" => calls[d].pipe # k.pipe
        BY <1>1 DEF Numbered, OneCommit
      <4>3. calls[d].pc = "commit" => Listed(calls[d].pipe)
        BY <4>1 DEF CallOK
      <4> QED  BY <4>2, <4>3, ListedIsId DEF Numbered
    <3> QED  BY <1>1, <2>4, <3>1, CallsAreIds DEF Listed
  <2> DEFINE call == [NewCall EXCEPT !.op = calls[c].op, !.pc = "acked"]
  <2>9. call \in CallRec /\ call.pc = "acked"
    BY <2>1 DEF CallRec, NewCall
  <2>10. calls' = [calls EXCEPT ![c] = call]
    BY <1>3 DEF Ends
  <2> HIDE DEF call
  <2>11. calls'[c] = call
    BY <2>10 DEF Numbered
  <2>12. CallOK(c)'
    BY <2>9, <2>11 DEF CallOK
  <2> QED  BY <2>5, <2>6, <2>7, <2>8, <2>9, <2>10, <2>12, WriteStep
<1> QED  BY <1>2, <1>3 DEF TriggerCommit

\* A push that makes the pipeline and its version, or a run of what is there.
LEMMA InsertRunNumbered ==
    ASSUME Numbered, NEW c \in Calls, InsertRun(c)
    PROVE  Numbered'
<1> DEFINE k == calls[c]
           p == k.pipe
<1>1. k.op \in {"push", "retry"} /\ k.pc = "insert" /\ ~Held(c)
  BY DEF InsertRun, At
<1>2. CASE Ends(c, "refused") /\ UNCHANGED <<pipes, version, current, run>>
  BY <1>2, EndStep
<1>3. CASE /\ k.max + 1 \notin RunNums(p)
           /\ pipes' = IF p = c THEN Append(pipes, c) ELSE pipes
           /\ IF k.version = c
              THEN /\ version' = [version EXCEPT ![c] = [pipe |-> p, num |-> 1, staged |-> FALSE]]
                   /\ current' = [current EXCEPT ![p] = c]
              ELSE UNCHANGED <<version, current>>
           /\ run' = [run EXCEPT ![c] = NewRun(c)]
           /\ Go(c, "enqueue")
  <2>1. k \in CallRec /\ CallOK(c) /\ c \in Ids
    BY CallsAreIds DEF Numbered
  <2>2. /\ version[c].pipe = Nobody /\ run[c].pipe = Nobody /\ ~Listed(c)
        /\ k.max <= Count(run, p)
        /\ (p = c /\ k.version = c) \/ (Listed(p) /\ Exists(version, k.version))
    BY <1>1, <2>1 DEF CallOK
  <2>3. p \in Ids
    BY <2>1, <2>2, ListedIsId DEF Numbered
  <2>4. k.max = Count(run, p)
    <3>1. k.max \in Nat
      BY <2>1 DEF CallRec
    <3>2. k.max + 1 \notin 1 .. Count(run, p) /\ Count(run, p) \in Nat
      BY <1>3, <2>3, NumsAre DEF Numbered
    <3> QED  BY <2>2, <3>1, <3>2, NextNumber
  <2>5. /\ run' \in [Ids -> RunRec]
        /\ \A q \in Ids : /\ Dense(run', q)
                          /\ Count(run', q) = IF q = p THEN Count(run, q) + 1 ELSE Count(run, q)
        /\ run'[c].pipe = p /\ run'[c].version = k.version
        /\ \A x \in Ids \ {c} : run'[x] = run[x]
    BY <1>3, <2>2, <2>3, <2>4, RunAdded
  <2>6. \A d \in Calls \ {c} : calls[d].pc = "commit" => calls[d].pipe \in Ids /\ calls[d].pipe # p
    <3> TAKE d \in Calls \ {c}
    <3> HAVE calls[d].pc = "commit"
    <3>1. CallOK(d)
      BY DEF Numbered
    <3>2. calls[d].op = "trigger" /\ calls[d].max = Count(run, calls[d].pipe) /\ Listed(calls[d].pipe)
      BY <3>1 DEF CallOK
    <3> QED  BY <1>1, <2>4, <3>2, ListedIsId DEF Held, At, Numbered
  <2> DEFINE call == [k EXCEPT !.pc = "enqueue"]
  <2>7. calls' = [calls EXCEPT ![c] = call]
    BY <1>3 DEF Go, Numbered
  <2>8. call \in CallRec /\ call.pc = "enqueue"
    BY <2>1 DEF CallRec
  <2> HIDE DEF call
  <2>9. calls'[c] = call
    BY <2>7 DEF Numbered
  <2>10. CallOK(c)'
    BY <2>8, <2>9 DEF CallOK
  <2>11. CASE p = c /\ k.version = c
    <3> DEFINE new == [pipe |-> c, num |-> 1, staged |-> FALSE]
    <3>1. new \in VersionRec /\ new.pipe = c /\ new.num = 1
      BY <2>1 DEF VersionRec
    <3>2. version' = [version EXCEPT ![c] = new] /\ current' = [current EXCEPT ![c] = c]
      BY <1>3, <2>11
    <3> HIDE DEF new
    <3>3. pipes' = Append(pipes, c) /\ pipes \in Seq(Ids)
      BY <1>3, <2>11 DEF Numbered, RowsTyped
    <3>4. pipes' \in Seq(Ids) /\ \A q : q \in Range(pipes') <=> Listed(q) \/ q = c
      <4>1. pipes' \in Seq(Ids) /\ Len(pipes') = Len(pipes) + 1 /\ Len(pipes) \in Nat
        BY <2>1, <3>3
      <4>2. /\ DOMAIN pipes = 1 .. Len(pipes) /\ DOMAIN pipes' = 1 .. Len(pipes) + 1
            /\ pipes'[Len(pipes) + 1] = c /\ \A n \in 1 .. Len(pipes) : pipes'[n] = pipes[n]
        BY <2>1, <3>3, <4>1
      <4> QED  BY <4>1, <4>2 DEF Range, Listed
    <3>5. Count(version, c) = 0
      <4>1. RowsOf(version, c) = {}
        BY <2>1, <2>2, NobodyIsNone DEF RowsOf, Numbered, TablesOK
      <4> QED  BY <4>1, FS_EmptySet DEF Count
    <3>6. version \in [Ids -> VersionRec] /\ \A q \in Ids : Dense(version, q)
      BY DEF Numbered, RowsTyped, TablesOK
    <3>7. version[c].pipe \notin Ids
      BY <2>2, NobodyIsNone
    <3>8. Adds(version, c, new, version')
      BY <2>1, <3>1, <3>2, <3>5, <3>6, <3>7 DEF Adds
    <3>9. \A q \in Ids : /\ Dense(version', q)
                         /\ Count(version', q) = IF q = c THEN Count(version, q) + 1
                                                 ELSE Count(version, q)
      BY <3>1, <3>8, RowAdded
    <3>10. /\ version' \in [Ids -> VersionRec] /\ version'[c].pipe = c
           /\ \A v \in Ids \ {c} : version'[v] = version[v]
      BY <2>1, <3>1, <3>2, <3>6
    <3>11. c # Nobody
      BY <2>1, NobodyIsNone
    <3>12. TablesGrow
      <4>1. \A q \in Ids : Count(version, q) <= Count(version', q) /\ Count(run, q) <= Count(run', q)
        BY <2>5, <3>9, IdsFinite
      <4> QED  BY <3>4, <3>10, <3>11, <4>1 DEF TablesGrow, Listed
    <3>13. current' \in [Ids -> Ids \cup {Nobody}] /\ \A q \in Ids : current'[q] \in {current[q], c}
      BY <2>1, <3>2 DEF Numbered, RowsTyped
    <3>14. RowsTyped'
      BY <2>5, <3>4, <3>10, <3>13 DEF RowsTyped
    <3>15. \A v : Exists(version, v) => Exists(version', v)
      BY <3>12 DEF TablesGrow, Exists
    <3>16. Exists(version', c)
      BY <2>1, <3>10, <3>11 DEF Exists
    <3>17. TablesOK'
      <4>1. \A q \in Ids : Dense(version', q) /\ Dense(run', q)
        BY <2>5, <3>9
      <4>2. \A v \in Ids : version'[v].pipe # Nobody => version'[v].pipe \in Range(pipes')
        BY <3>4, <3>10 DEF Numbered, TablesOK
      <4>3. \A q \in Range(pipes') : \E v \in Ids : version'[v].pipe = q
        <5> TAKE q \in Range(pipes')
        <5>1. CASE q = c
          BY <2>1, <3>10, <5>1
        <5>2. CASE q # c
          <6>1. Listed(q) /\ q # Nobody
            BY <3>4, <5>2, ListedIsId, NobodyIsNone DEF Numbered
          <6>2. PICK v \in Ids : version[v].pipe = q
            BY <6>1 DEF Numbered, TablesOK, Listed
          <6> QED  BY <2>2, <3>10, <6>1, <6>2
        <5> QED  BY <5>1, <5>2
      <4>4. \A q \in Ids : current'[q] # Nobody => Exists(version', current'[q])
        <5> TAKE q \in Ids
        <5>1. CASE current'[q] = c
          BY <3>16, <5>1
        <5>2. CASE current'[q] = current[q]
          BY <3>15, <5>2 DEF Numbered, TablesOK
        <5> QED  BY <3>13, <5>1, <5>2
      <4>5. ASSUME NEW r \in Ids, run'[r].status # "none"
            PROVE  run'[r].pipe \in Range(pipes') /\ Exists(version', run'[r].version)
        <5>1. CASE r = c
          BY <2>5, <2>11, <3>4, <3>16, <5>1
        <5>2. CASE r # c
          BY <2>5, <3>4, <3>15, <4>5, <5>2 DEF Numbered, TablesOK
        <5> QED  BY <5>1, <5>2
      <4> QED  BY <4>1, <4>2, <4>3, <4>4, <4>5 DEF TablesOK, Listed
    <3>18. \A d \in Calls \ {c} :
              /\ version'[d].pipe = version[d].pipe /\ run'[d].pipe = run[d].pipe
              /\ d \in Range(pipes') => Listed(d)
              /\ calls[d].pc = "commit" => Count(run', calls[d].pipe) = Count(run, calls[d].pipe)
              /\ calls[d].pc = "saved" => Count(version', calls[d].pipe) = Count(version, calls[d].pipe)
      <4> TAKE d \in Calls \ {c}
      <4>1. calls[d].pc = "saved" => calls[d].pipe \in Ids /\ calls[d].pipe # c
        <5>1. CallOK(d)
          BY DEF Numbered
        <5> QED  BY <2>2, <5>1, ListedIsId DEF CallOK, Numbered
      <4> QED  BY <2>5, <2>6, <3>4, <3>9, <3>10, <4>1, CallsAreIds
    <3> QED  BY <2>7, <2>8, <2>10, <3>12, <3>14, <3>17, <3>18, WriteStep
  <2>12. CASE Listed(p) /\ Exists(version, k.version)
    <3>1. p # c /\ k.version # c
      BY <2>2, <2>12 DEF Exists
    <3>2. UNCHANGED <<pipes, version, current>>
      BY <1>3, <3>1
    <3>3. RowsTyped'
      BY <2>5, <3>2 DEF Numbered, RowsTyped
    <3>4. TablesOK'
      <4>1. \A q \in Ids : Dense(version', q) /\ Dense(run', q)
        BY <2>5, <3>2 DEF Numbered, TablesOK
      <4>2. ASSUME NEW r \in Ids, run'[r].status # "none"
            PROVE  run'[r].pipe \in Range(pipes') /\ Exists(version', run'[r].version)
        <5>1. CASE r = c
          BY <2>5, <2>12, <3>2, <5>1 DEF Listed
        <5>2. CASE r # c
          BY <2>5, <3>2, <4>2, <5>2 DEF Numbered, TablesOK, Listed
        <5> QED  BY <5>1, <5>2
      <4> QED  BY <3>2, <4>1, <4>2 DEF Numbered, TablesOK, Listed
    <3>5. TablesGrow
      BY <2>5, <3>2, IdsFinite DEF TablesGrow
    <3>6. \A d \in Calls \ {c} :
              /\ version'[d].pipe = version[d].pipe /\ run'[d].pipe = run[d].pipe
              /\ d \in Range(pipes') => Listed(d)
              /\ calls[d].pc = "commit" => Count(run', calls[d].pipe) = Count(run, calls[d].pipe)
              /\ calls[d].pc = "saved" => Count(version', calls[d].pipe) = Count(version, calls[d].pipe)
      BY <2>5, <2>6, <3>2, CallsAreIds DEF Listed
    <3> QED  BY <2>7, <2>8, <2>10, <3>3, <3>4, <3>5, <3>6, WriteStep
  <2> QED  BY <2>2, <2>11, <2>12
<1> QED  BY <1>2, <1>3 DEF InsertRun

LEMMA CallStepNumbered ==
    ASSUME Numbered, NEW c \in Calls, CallStep(c)
    PROVE  Numbered'
<1>1. CASE EnqueueCheckout(c)
  BY <1>1, EndStep DEF EnqueueCheckout
<1> QED  BY <1>1, SaveReadNumbered, RestoreReadNumbered, MaxVersionNumbered, InsertVersionNumbered,
            RestoreSetNumbered, PushReadNumbered, TriggerReadNumbered, RetryReadNumbered,
            InsertRunNumbered, TriggerInsertNumbered, TriggerCommitNumbered, SaveCommitNumbered
         DEF CallStep

\* The tasks, the orchestration and Cancel change the status of a run.
LEMMA StatusStep ==
    ASSUME Numbered, UNCHANGED <<pipes, version, current, calls>>, run' \in [Ids -> RunRec], RunKept
    PROVE  Numbered'
<1>1. \A q : RowsOf(run', q) = RowsOf(run, q)
  BY DEF RowsOf, RunKept
<1>2. \A q \in Ids : Dense(run', q) /\ Count(run', q) = Count(run, q)
  <2> TAKE q \in Ids
  <2>1. {run'[x].num : x \in RowsOf(run, q)} = {run[x].num : x \in RowsOf(run, q)}
    BY DEF RowsOf, RunKept
  <2>2. Dense(run, q)
    BY DEF Numbered, TablesOK
  <2> QED  BY <1>1, <2>1, <2>2 DEF Dense, Count
<1>3. RowsTyped'
  BY DEF Numbered, RowsTyped
<1>4. TablesOK'
  <2>1. \A q \in Ids : Dense(version', q) /\ Dense(run', q)
    BY <1>2 DEF Numbered, TablesOK
  <2>2. ASSUME NEW r \in Ids, run'[r].status # "none"
        PROVE  run'[r].pipe \in Range(pipes') /\ Exists(version', run'[r].version)
    BY <2>2 DEF Numbered, TablesOK, Listed, RunKept
  <2> QED  BY <2>1, <2>2 DEF Numbered, TablesOK, Listed
<1>5. TablesGrow
  BY <1>2, IdsFinite DEF TablesGrow
<1>6. ASSUME NEW d \in Calls PROVE CallOK(d)'
  <2>1. version'[d].pipe = version[d].pipe /\ run'[d].pipe = run[d].pipe /\ calls'[d] = calls[d]
    BY CallsAreIds DEF RunKept
  <2>2. calls[d].pc = "commit" => Count(run', calls[d].pipe) = Count(run, calls[d].pipe)
    BY <1>1 DEF Count
  <2> QED  BY <1>5, <2>1, <2>2, OtherCall DEF Listed
<1>7. OneCommit' /\ OneSave' /\ calls' \in [Calls -> CallRec]
  BY DEF Numbered, OneCommit, OneSave
<1> QED  BY <1>3, <1>4, <1>6, <1>7 DEF Numbered

LEMMA SomeStatus == {"running", "success", "failed", "canceled"} \subseteq RunStatuses
BY DEF RunStatuses, TerminalStatus

LEMMA HookSets ==
    ASSUME run \in [Ids -> RunRec], NEW t, Hook(t)
    PROVE  run' \in [Ids -> RunRec] /\ RunKept
<1>1. CASE UNCHANGED run
  BY <1>1, RunStays
<1>2. CASE RepoFail(t.run)
  BY <1>2, RepoFailSets
<1>3. CASE Move(t.run, "failed")
  BY <1>3, MoveSets, SomeStatus
<1> QED  BY <1>1, <1>2, <1>3 DEF Hook

LEMMA TaskStepNumbered ==
    ASSUME Numbered, NEW i \in Slots, TaskStep(i) \/ Overrun(i) \/ Crash(i) \/ Redelivered(i)
    PROVE  Numbered'
<1> DEFINE r == tasks[i].run
<1>1. UNCHANGED <<pipes, version, current, calls>>
  BY DEF TaskStep, CheckoutStart, Clone, Dispatch, BuildStart, BuildEnd, TickStart, InsertStage,
         Advance, Overrun, Crash, Redelivered
<1>2. \/ UNCHANGED run
      \/ Hook(tasks[i])
      \/ RepoFail(r)
      \/ Move(r, "success") \/ Move(r, "failed")
      \/ /\ run[r].status \in {"pending", "running"}
         /\ run' = [run EXCEPT ![r].status = "running"]
  <2>1. CASE CheckoutStart(i) \/ Clone(i) \/ Dispatch(i)
    BY <2>1 DEF CheckoutStart, Clone, Dispatch, Failed
  <2>2. CASE BuildStart(i) \/ BuildEnd(i)
    BY <2>2 DEF BuildStart, BuildEnd, Failed
  <2>3. CASE TickStart(i) \/ InsertStage(i) \/ Advance(i) \/ Overrun(i) \/ Crash(i) \/ Redelivered(i)
    BY <2>3 DEF TickStart, InsertStage, Advance, Overrun, Crash, Redelivered, Failed
  <2> QED  BY <2>1, <2>2, <2>3 DEF TaskStep
<1>3. run \in [Ids -> RunRec]
  BY DEF Numbered, RowsTyped
<1>4. run' \in [Ids -> RunRec] /\ RunKept
  <2>1. CASE UNCHANGED run
    BY <1>3, <2>1, RunStays
  <2>2. CASE Hook(tasks[i])
    BY <1>3, <2>2, HookSets
  <2>3. CASE RepoFail(r)
    BY <1>3, <2>3, RepoFailSets
  <2>4. CASE Move(r, "success") \/ Move(r, "failed")
    BY <1>3, <2>4, MoveSets, SomeStatus
  <2>5. CASE /\ run[r].status \in {"pending", "running"}
             /\ run' = [run EXCEPT ![r].status = "running"]
    <3>1. run' = [run EXCEPT ![r].status = IF TRUE THEN "running" ELSE @]
      BY <2>5
    <3> QED  BY <1>3, <2>5, <3>1, StatusSet, SomeStatus
  <2> QED  BY <1>2, <2>1, <2>2, <2>3, <2>4, <2>5
<1> QED  BY <1>1, <1>4, StatusStep

LEMMA OtherStepNumbered ==
    ASSUME Numbered, NEW r \in Ids, Cancel(r) \/ EngineEnd(r)
    PROVE  Numbered'
<1>1. UNCHANGED <<pipes, version, current, calls>>
  BY DEF Cancel, EngineEnd
<1>2. run \in [Ids -> RunRec]
  BY DEF Numbered, RowsTyped
<1>3. run' \in [Ids -> RunRec] /\ RunKept
  <2>1. CASE EngineEnd(r)
    BY <1>2, <2>1, MoveSets, SomeStatus DEF EngineEnd
  <2>2. CASE Cancel(r)
    <3>1. Move(r, "canceled")
      BY <2>2 DEF Cancel, Move
    <3> QED  BY <1>2, <3>1, MoveSets, SomeStatus
  <2> QED  BY <2>1, <2>2
<1> QED  BY <1>1, <1>3, StatusStep

-----------------------------------------------------------------------------
(* The theorems                                                            *)

LEMMA InitGuarded == Init => Guarded
<1> SUFFICES ASSUME Init PROVE Guarded
  OBVIOUS
<1>1. calls = [c \in Calls |-> NewCall] /\ NewCall \in CallRec /\ NewCall.pc = "new" /\ NewCall.op = ""
  BY DEF Init, NewCall, CallRec
<1>2. NoTask \in TaskRec /\ NoTask.pc = "none" /\ tasks = [i \in Slots |-> NoTask]
  BY DEF Init, NoTask, TaskRec
<1>3. ws = [r \in Ids |-> "none"] /\ engine = {}
  BY DEF Init
<1>4. NoRun \in RunRec /\ NoRun.status = "none"
  BY DEF NoRun, RunRec
<1>5. \A branch \in BOOLEAN :
          [pipe |-> Seed, num |-> 1, status |-> "canceled", version |-> Seed, branch |-> branch] \in RunRec
  BY DEF Ids, RunRec, RunStatuses, TerminalStatus
<1>6. \/ run = [r \in Ids |-> NoRun]
      \/ \E branch \in BOOLEAN :
            run = [r \in Ids |-> IF r = Seed
                                 THEN [pipe |-> Seed, num |-> 1, status |-> "canceled",
                                       version |-> Seed, branch |-> branch]
                                 ELSE NoRun]
  BY DEF Init
<1>7. /\ run \in [Ids -> RunRec]
      /\ \A r \in Ids : run[r].status = "none" \/ (r = Seed /\ run[r].status = "canceled")
  BY <1>4, <1>5, <1>6
<1>8. \A r \in Ids : StatusOK(r)
  BY <1>7, CallsAreIds DEF StatusOK
<1>9. \A i \in Slots : TaskOK(tasks[i], calls, ws)
  BY <1>2 DEF TaskOK
<1>10. calls \in [Calls -> CallRec] /\ \A c \in Calls : calls[c].pc = "new" => calls[c].op = ""
  BY <1>1
<1>11. tasks \in [Slots -> TaskRec]
  BY <1>2
<1> QED  BY <1>3, <1>7, <1>8, <1>9, <1>10, <1>11 DEF Guarded

\* A table whose only row is number 1 of the pipeline Seed.
LEMMA SeedDense ==
    ASSUME NEW table,
           \A x \in Ids : x # Seed => table[x].pipe = Nobody,
           table[Seed].pipe = Nobody \/ (table[Seed].pipe = Seed /\ table[Seed].num = 1)
    PROVE  \A p \in Ids : Dense(table, p)
<1> TAKE p \in Ids
<1>1. Seed \in Ids /\ p # Nobody
  BY NobodyIsNone DEF Ids
<1>2. CASE RowsOf(table, p) = {}
  <2>1. Count(table, p) = 0
    BY <1>2, FS_EmptySet DEF Count
  <2>2. {table[x].num : x \in RowsOf(table, p)} = {}
    BY <1>2
  <2>3. 1 .. 0 = {}
    OBVIOUS
  <2> QED  BY <2>1, <2>2, <2>3 DEF Dense
<1>3. CASE RowsOf(table, p) # {}
  <2>1. RowsOf(table, p) = {Seed} /\ table[Seed].num = 1
    BY <1>1, <1>3 DEF RowsOf
  <2>2. Count(table, p) = 1
    BY <2>1, FS_Singleton DEF Count
  <2>3. {table[x].num : x \in RowsOf(table, p)} = {1}
    BY <2>1
  <2>4. 1 .. Count(table, p) = {1}
    BY <2>2
  <2> QED  BY <2>3, <2>4 DEF Dense
<1> QED  BY <1>2, <1>3

LEMMA InitNumbered == Init => Numbered
<1> SUFFICES ASSUME Init PROVE Numbered
  OBVIOUS
<1>1. Seed \in Ids /\ Nobody \notin Ids
  BY NobodyIsNone DEF Ids
<1>2. /\ NoVersion \in VersionRec /\ NoVersion.pipe = Nobody
      /\ NoRun \in RunRec /\ NoRun.pipe = Nobody /\ NoRun.status = "none"
  BY DEF NoVersion, VersionRec, NoRun, RunRec
<1>3. calls \in [Calls -> CallRec] /\ \A c \in Calls : calls[c].pc = "new"
  <2>1. NewCall \in CallRec /\ NewCall.pc = "new"
    BY DEF NewCall, CallRec
  <2> QED  BY <2>1 DEF Init
<1>4. \A staged \in Backing : [pipe |-> Seed, num |-> 1, staged |-> staged] \in VersionRec
  BY <1>1, LaunchAssumption DEF VersionRec
<1>5. \A branch \in BOOLEAN :
          [pipe |-> Seed, num |-> 1, status |-> "canceled", version |-> Seed, branch |-> branch] \in RunRec
  BY <1>1 DEF RunRec, RunStatuses, TerminalStatus
<1>6. /\ version \in [Ids -> VersionRec]
      /\ \A v \in Ids : v # Seed => version[v].pipe = Nobody
      /\ pipes = <<>> => version[Seed].pipe = Nobody
      /\ pipes # <<>> => version[Seed].pipe = Seed /\ version[Seed].num = 1
  <2>1. PICK staged \in Backing :
          version = [v \in Ids |-> IF v = Seed /\ pipes # <<>>
                                   THEN [pipe |-> Seed, num |-> 1, staged |-> staged]
                                   ELSE NoVersion]
    BY DEF Init
  <2> QED  BY <1>1, <1>2, <1>4, <2>1
<1>7. \/ run = [r \in Ids |-> NoRun]
      \/ /\ pipes # <<>>
         /\ \E branch \in BOOLEAN :
              run = [r \in Ids |-> IF r = Seed
                                   THEN [pipe |-> Seed, num |-> 1, status |-> "canceled",
                                         version |-> Seed, branch |-> branch]
                                   ELSE NoRun]
  BY DEF Init
<1>8. /\ run \in [Ids -> RunRec]
      /\ \A r \in Ids : r # Seed => run[r].pipe = Nobody /\ run[r].status = "none"
      /\ \/ run[Seed].pipe = Nobody /\ run[Seed].status = "none"
         \/ pipes # <<>> /\ run[Seed].pipe = Seed /\ run[Seed].num = 1 /\ run[Seed].version = Seed
  BY <1>1, <1>2, <1>5, <1>7
<1>9. pipes \in {<<>>, <<Seed>>}
  BY DEF Init
<1>10. pipes \in Seq(Ids) /\ Range(pipes) = IF pipes = <<>> THEN {} ELSE {Seed}
  <2>1. CASE pipes = <<>>
    BY <2>1 DEF Range
  <2>2. CASE pipes # <<>>
    <3>1. pipes = <<Seed>> /\ DOMAIN <<Seed>> = {1}
      BY <1>9, <2>2
    <3>2. Range(pipes) = {Seed}
      BY <3>1 DEF Range
    <3>3. <<Seed>> \in Seq(Ids)
      BY <1>1
    <3> QED  BY <2>2, <3>1, <3>2, <3>3
  <2> QED  BY <2>1, <2>2
<1>11. current = [p \in Ids |-> IF p = Seed /\ pipes # <<>> THEN Seed ELSE Nobody]
  BY DEF Init
<1>12. RowsTyped
  BY <1>1, <1>6, <1>8, <1>10, <1>11 DEF RowsTyped
<1>13. TablesOK
  <2>1. \A p \in Ids : Dense(version, p)
    BY <1>6, SeedDense
  <2>2. \A p \in Ids : Dense(run, p)
    BY <1>8, SeedDense
  <2>3. \A p \in Ids : current[p] # Nobody => Exists(version, current[p])
    BY <1>1, <1>6, <1>11 DEF Exists
  <2>4. \A v \in Ids : version[v].pipe # Nobody => Listed(version[v].pipe)
    BY <1>6, <1>10 DEF Listed
  <2>5. \A p \in Range(pipes) : \E v \in Ids : version[v].pipe = p
    BY <1>1, <1>6, <1>10
  <2>6. \A r \in Ids : run[r].status # "none" => Listed(run[r].pipe) /\ Exists(version, run[r].version)
    BY <1>1, <1>6, <1>8, <1>10 DEF Listed, Exists
  <2> QED  BY <2>1, <2>2, <2>3, <2>4, <2>5, <2>6 DEF TablesOK
<1>14. \A c \in Calls : CallOK(c)
  BY <1>3, <1>6, <1>8, <1>10, CallsAreIds DEF CallOK, Listed
<1>15. OneCommit /\ OneSave
  BY <1>3 DEF OneCommit, OneSave
<1> QED  BY <1>3, <1>12, <1>13, <1>14, <1>15 DEF Numbered

\* The inductive invariant.
IInv == Numbered /\ Guarded

LEMMA StepKeeps == IInv /\ [Next]_vars => IInv'
<1> SUFFICES ASSUME Numbered, Guarded, [Next]_vars PROVE Numbered' /\ Guarded'
  BY DEF IInv
<1>1. ASSUME NEW c \in Calls, CallStep(c) PROVE Numbered' /\ Guarded'
  <2>1. Numbered'
    BY <1>1, CallStepNumbered
  <2>2. calls' \in [Calls -> CallRec]
    BY <2>1 DEF Numbered
  <2> QED  BY <1>1, <2>1, <2>2, CallStepKeeps
<1>2. ASSUME NEW i \in Slots, TaskStep(i) \/ Overrun(i) \/ Crash(i) \/ Redelivered(i)
      PROVE  Numbered' /\ Guarded'
  BY <1>2, TaskStepNumbered, CheckoutStartKeeps, CloneKeeps, DispatchKeeps, BuildStartKeeps,
     BuildEndKeeps, TickStartKeeps, InsertStageKeeps, AdvanceKeeps, OverrunKeeps, CrashKeeps,
     RedeliveredKeeps
     DEF TaskStep
<1>3. ASSUME NEW r \in Ids, Cancel(r) \/ EngineEnd(r) PROVE Numbered' /\ Guarded'
  BY <1>3, OtherStepNumbered, CancelKeeps, EngineEndKeeps
<1>4. CASE UNCHANGED vars
  <2>1. UNCHANGED <<pipes, version, current, run, calls>>
    BY <1>4 DEF vars
  <2>2. run' \in [Ids -> RunRec] /\ RunKept
    BY <2>1 DEF Guarded, RunKept
  <2>3. Numbered'
    BY <2>1, <2>2, StatusStep
  <2>4. Guarded'
    BY <1>4 DEF vars, Guarded, StatusOK
  <2> QED  BY <2>3, <2>4
<1> QED  BY <1>1, <1>2, <1>3, <1>4 DEF Next

\* The tables, the calls and the tasks stay as the inductive invariant says,
\* for any number of calls, tasks, retries and faults.
THEOREM LaunchInvariant == Spec => []IInv
<1>1. Init => IInv
  BY InitNumbered, InitGuarded DEF IInv
<1> QED  BY <1>1, StepKeeps, PTL DEF Spec

\* Versions and runs are numbered 1, 2, 3, ... in every pipeline, although
\* restore, save, push, trigger and retry compute max + 1 without a lock: the
\* unique key, the wait for an open transaction, and nothing else, see to it.
THEOREM Numbering == Spec => []NumbersDense
<1>1. IInv => NumbersDense
  BY DenseIsDense DEF IInv, Numbered
<1> QED  BY <1>1, LaunchInvariant, PTL

\* A run passes only behind a completed clone of its own, for any number of
\* deliveries, retries, crashes and cancellations.
THEOREM CheckedOut == Spec => []SuccessCheckedOut
<1>1. IInv => SuccessCheckedOut
  BY DEF IInv, Guarded, StatusOK, SuccessCheckedOut
<1> QED  BY <1>1, LaunchInvariant, PTL

\* The transaction of a save ends with its COMMIT only.
LEMMA SaveEnds ==
    ASSUME Numbered, Guarded, [Next]_vars, NEW c \in Calls,
           At(c, {"save"}, "saved"), calls'[c].pc # "saved"
    PROVE  SaveCommit(c)
<1>1. calls \in [Calls -> CallRec] /\ calls' # calls /\ calls[c].pc = "saved" /\ calls[c].op = "save"
  BY DEF Numbered, At
<1>2. PICK d \in Calls : CallStep(d)
  BY <1>1 DEF Next, vars, TaskStep, CheckoutStart, Clone, Dispatch, BuildStart, BuildEnd, TickStart,
              InsertStage, Advance, Overrun, Crash, Redelivered, Cancel, EngineEnd
<1>3. \A x \in Calls \ {d} : calls'[x] = calls[x]
  <2>1. \A pc : Go(d, pc) \/ Ends(d, pc) => \A x \in Calls \ {d} : calls'[x] = calls[x]
    BY <1>1 DEF Go, Ends
  <2>2. \A op, pc, p, v, staged, branch, max :
            Start(d, op, pc, p, v, staged, branch, max) => \A x \in Calls \ {d} : calls'[x] = calls[x]
    BY <1>1 DEF Start
  <2>3. CASE MaxVersion(d)
    BY <1>1, <2>3 DEF MaxVersion
  <2>4. CASE SaveRead(d) \/ RestoreRead(d) \/ PushRead(d) \/ TriggerRead(d) \/ RetryRead(d)
    BY <2>2, <2>4 DEF SaveRead, RestoreRead, PushRead, TriggerRead, RetryRead
  <2>5. CASE InsertVersion(d) \/ SaveCommit(d) \/ RestoreSet(d) \/ InsertRun(d)
             \/ EnqueueCheckout(d) \/ TriggerInsert(d) \/ TriggerCommit(d)
    BY <2>1, <2>5 DEF InsertVersion, SaveCommit, RestoreSet, InsertRun, EnqueueCheckout,
                      TriggerInsert, TriggerCommit
  <2> QED  BY <1>2, <2>3, <2>4, <2>5 DEF CallStep
<1>4. d = c
  BY <1>1, <1>3
<1> QED  BY <1>1, <1>2, <1>4 DEF CallStep, SaveRead, RestoreRead, MaxVersion, InsertVersion, RestoreSet,
            PushRead, TriggerRead, RetryRead, InsertRun, EnqueueCheckout, TriggerInsert,
            TriggerCommit, Begin, At

\* A save that commits has the largest number of its pipeline and is its current
\* version, however many saves, restores and pushes race; one that does not has
\* lost its own COMMIT, behind the answer, and nothing else.
THEOREM SavedIsNewest == Spec => SaveIsNewest
<1> DEFINE Lost(c) == calls'[c].pc = "lost" /\ faults' = faults + 1
           New(c)  == /\ current'[calls[c].pipe] = c
                      /\ \A v \in Ids \ {c} : version'[v].pipe = calls[c].pipe
                                              => version'[v].num < version'[c].num
<1>1. ASSUME IInv, [Next]_vars, NEW c \in Calls,
             At(c, {"save"}, "saved"), calls'[c].pc # "saved"
      PROVE  Lost(c) \/ New(c)
  <2> DEFINE p == calls[c].pipe
  <2>1. Numbered /\ Guarded /\ At(c, {"save"}, "saved") /\ c \in Ids
    BY <1>1, CallsAreIds DEF IInv
  <2>2. SaveCommit(c)
    BY <1>1, <2>1, SaveEnds
  <2>3. /\ Listed(p) /\ p \in Ids /\ version[c].pipe = Nobody
        /\ calls[c].max = Count(version, p)
    BY <2>1, SavedIs
  <2>4. CASE Fault /\ Ends(c, "lost")
    BY <2>1, <2>4 DEF Fault, Ends, NewCall, Numbered
  <2>5. CASE /\ version' = [version EXCEPT ![c] = NewVersion(c)]
             /\ current' = [current EXCEPT ![p] = c]
    <3>1. UNCHANGED <<pipes, run>>
      BY <2>2 DEF SaveCommit
    <3>2. /\ version'[c].num = Count(version, p) + 1
          /\ \A v \in Ids \ {c} : version'[v] = version[v]
      BY <2>1, <2>3, <2>5, <3>1, VersionAdded
    <3>3. VersionNums(p) = 1 .. Count(version, p) /\ Count(version, p) \in Nat
      BY <2>1, <2>3, NumsAre DEF Numbered
    <3>4. \A v \in Ids \ {c} : version'[v].pipe = p => version'[v].num \in VersionNums(p)
      BY <3>2 DEF VersionNums, VersionsOf
    <3>5. \A v \in Ids \ {c} : version'[v].pipe = p => version'[v].num < version'[c].num
      BY <3>2, <3>3, <3>4
    <3>6. current'[p] = c
      BY <2>1, <2>3, <2>5 DEF Numbered, RowsTyped
    <3> QED  BY <3>5, <3>6
  <2> QED  BY <2>2, <2>4, <2>5 DEF SaveCommit
<1>2. IInv /\ [Next]_vars =>
        [\A c \in Calls :
            At(c, {"save"}, "saved") /\ calls'[c].pc # "saved" =>
                \/ calls'[c].pc = "lost" /\ faults' = faults + 1
                \/ /\ current'[calls[c].pipe] = c
                   /\ \A v \in Ids \ {c} : version'[v].pipe = calls[c].pipe
                                           => version'[v].num < version'[c].num]_vars
  BY <1>1
<1> QED  BY <1>2, LaunchInvariant, PTL DEF Spec, SaveIsNewest
=============================================================================
