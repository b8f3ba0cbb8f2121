---------------------------- MODULE WorkerProofs ----------------------------
(***************************************************************************)
(* Proofs about what the workers do for a run: the stages they execute,    *)
(* for any programs, any number of stages, repetitions and faults, and the *)
(* log of a build, from the stream to the archive and to its readers.      *)
(***************************************************************************)
EXTENDS StageWork, RunLogs, TLAPS

-----------------------------------------------------------------------------
(* StageWork: where an execution is                                        *)

Fields == {"pc", "k", "needs", "out", "steps", "outs", "map", "key", "fd"}

\* The number of steps of the stage s.
Steps(s) == Len(StepsOf(s))

\* An execution x of s is at one of its steps, at a Put of it, at the outputs file.
InStep(x)  == x.pc \in {"mark", "create", "copy", "rename"}
InPut(x)   == x.pc \in {"create", "copy", "rename"}
AtFile(x)  == x.pc \in {"load", "trunc", "write"}

\* Without a step there is nothing to execute: the stage is idle, or could not start.
Rests(x) == x.pc \in {"idle", "report"} /\ x.steps = <<>>

Runs(x, s) ==
    /\ x.pc # "idle" /\ x.k <= Steps(s) + 1 /\ Len(x.steps) = Steps(s)
    /\ \A j \in 1 .. Steps(s) : x.steps[j].name \in Names \cup {""}
    /\ x.out.from = "none" <=> prog[s].out.from = "none"
    /\ InStep(x) => x.k <= Steps(s)
    /\ InPut(x)  => x.key \in Keys /\ x.steps[x.k].name \in Names
    /\ AtFile(x) => x.k = Steps(s) + 1 /\ prog[s].out.from # "none"

ExecOK(x, s) ==
    /\ DOMAIN x = Fields
    /\ x.pc \in Pcs \ {"outputs"} /\ x.k \in Nat
    /\ IF x.k = 0 THEN Rests(x) ELSE Runs(x, s)

WorkTyped ==
    /\ prog \in Programs
    /\ DOMAIN ex = Stages /\ \A s \in Stages : ExecOK(ex[s], s)

\* What a step of the stage s does to the executions.
OnlyMoves(s) ==
    /\ prog' = prog
    /\ DOMAIN ex' = Stages /\ \A t \in Stages : t # s => ex'[t] = ex[t]

LEMMA StepsTyped ==
    ASSUME WorkTyped, NEW s \in Stages
    PROVE  /\ Steps(s) \in Nat /\ DOMAIN StepsOf(s) = 1 .. Steps(s)
           /\ \A j \in 1 .. Steps(s) : /\ {"name", "with"} \subseteq DOMAIN StepsOf(s)[j]
                                       /\ StepsOf(s)[j].name \in Names \cup {""}
<1>1. IsSteps(StepsOf(s))
  BY StageWorkAssumption DEF WorkTyped, StepsOf
<1> DEFINE l == StepsOf(s)
<1>2. l \in Seq(Range(l))
  BY <1>1 DEF IsSteps
<1>3. Len(l) \in Nat /\ DOMAIN l = 1 .. Len(l)
  BY <1>2
<1>4. \A j \in 1 .. Len(l) : l[j] \in Range(l)
  BY <1>3 DEF Range
<1> QED  BY <1>1, <1>3, <1>4 DEF IsSteps, Steps

\* The stage s goes to the execution y.
LEMMA Moved ==
    ASSUME WorkTyped, NEW s \in Stages, NEW y, ex' = [ex EXCEPT ![s] = y], prog' = prog
    PROVE  OnlyMoves(s) /\ ex'[s] = y
BY DEF WorkTyped, OnlyMoves

LEMMA MovedKeeps ==
    ASSUME WorkTyped, NEW s \in Stages, OnlyMoves(s), ExecOK(ex'[s], s)
    PROVE  WorkTyped'
<1>1. \A t \in Stages : ExecOK(ex'[t], t)
  BY DEF WorkTyped, OnlyMoves
<1>2. \A t \in Stages : StepsOf(t)' = StepsOf(t) /\ prog'[t] = prog[t] /\ Steps(t)' = Steps(t)
  BY DEF OnlyMoves, StepsOf, Steps
<1>3. \A t \in Stages : ExecOK(ex[t], t)'
  BY <1>1, <1>2 DEF ExecOK, Runs, Rests, InStep, InPut, AtFile
<1> QED  BY <1>3 DEF WorkTyped, OnlyMoves

LEMMA IdleOK ==
    ASSUME NEW s
    PROVE  /\ DOMAIN Idle = Fields /\ Idle.k = 0 /\ Idle.pc = "idle" /\ Idle.steps = <<>>
           /\ ExecOK(Idle, s)
BY DEF Idle, Fields, Pcs, ExecOK, Rests

LEMMA RenderedFrom ==
    ASSUME NEW t, NEW needs, NEW outs
    PROVE  Rendered(t, needs, outs).from = "none" <=> t.from = "none"
BY DEF Rendered, NoTemplate

\* The execution goes on with the steps it has.
SamePlan(x, y) ==
    /\ DOMAIN y = Fields /\ y.k = x.k /\ y.steps = x.steps /\ y.needs = x.needs
    /\ y.out.from = "none" <=> x.out.from = "none"

LEMMA PlanKept ==
    ASSUME NEW s, NEW x, NEW y, ExecOK(x, s), x.pc \notin {"idle", "report"}, SamePlan(x, y),
           y.pc \in Pcs \ {"outputs", "idle"},
           InStep(y) => x.k <= Steps(s), InPut(y) => y.key \in Keys /\ x.steps[x.k].name \in Names,
           AtFile(y) => x.k = Steps(s) + 1 /\ prog[s].out.from # "none"
    PROVE  ExecOK(y, s)
<1>1. x.k # 0 /\ x.k \in Nat /\ Runs(x, s)
  BY DEF ExecOK, Rests
<1>2. Runs(y, s)
  BY <1>1 DEF Runs, SamePlan
<1> QED  BY <1>1, <1>2 DEF ExecOK, SamePlan

\* A stage that is neither idle nor reporting has a step to be at.
LEMMA Busy ==
    ASSUME WorkTyped, NEW s \in Stages, ex[s].pc \notin {"idle", "report"}
    PROVE  /\ ExecOK(ex[s], s) /\ Runs(ex[s], s) /\ DOMAIN ex[s] = Fields
           /\ ex[s].k \in Nat /\ ex[s].k # 0 /\ ex[s].k <= Steps(s) + 1 /\ Steps(s) \in Nat
           /\ Len(ex[s].steps) = Steps(s)
<1>1. ExecOK(ex[s], s) /\ Steps(s) \in Nat
  BY StepsTyped DEF WorkTyped
<1>2. ex[s].k \in Nat /\ ex[s].k # 0 /\ Runs(ex[s], s)
  BY <1>1 DEF ExecOK, Rests
<1> QED  BY <1>1, <1>2 DEF Runs, ExecOK

LEMMA BeginMoves ==
    ASSUME WorkTyped, NEW s \in Stages, Begin(s)
    PROVE  /\ OnlyMoves(s) /\ ExecOK(ex'[s], s) /\ ex[s].pc = "idle"
           /\ \/ ended /\ ex'[s] = ex[s]
              \/ ~ended /\ ex'[s].pc = "step" /\ ex'[s].k = 1 /\ ex'[s].needs = file.map
              \/ ~ended /\ ex'[s].pc = "report" /\ ex'[s].k = 0
<1>1. ex[s].pc = "idle" /\ prog' = prog /\ ExecOK(ex[s], s) /\ DOMAIN ex = Stages
  BY DEF Begin, At, WorkTyped
<1>2. CASE ended
  <2>1. ex' = ex
    BY <1>2 DEF Begin
  <2> QED  BY <1>1, <1>2, <2>1 DEF OnlyMoves
<1>3. CASE ~ended
  <2> DEFINE needs == file.map
             out   == Rendered(prog[s].out, needs, <<>>)
             steps == [k \in DOMAIN StepsOf(s) |-> [StepsOf(s)[k] EXCEPT !.with = Rendered(@, needs, <<>>)]]
             y == [Idle EXCEPT !.pc = "step", !.k = 1, !.needs = needs, !.out = out, !.steps = steps]
             z == [Idle EXCEPT !.pc = "report"]
  <2>1. ex' = [ex EXCEPT ![s] = y] \/ ex' = [ex EXCEPT ![s] = z]
    BY <1>3 DEF Begin
  <2>2. ExecOK(z, s) /\ z.pc = "report" /\ z.k = 0
    BY DEF Idle, Fields, Pcs, ExecOK, Rests
  <2>3. /\ DOMAIN y = Fields /\ y.pc = "step" /\ y.k = 1 /\ y.needs = needs /\ y.out = out
        /\ y.steps = steps
    <3> HIDE DEF needs, out, steps
    <3> QED  BY DEF Idle, Fields
  <2>4. out.from = "none" <=> prog[s].out.from = "none"
    BY RenderedFrom
  <2>5. Steps(s) \in Nat /\ Len(steps) = Steps(s) /\ \A j \in 1 .. Steps(s) : steps[j].name \in Names \cup {""}
    <3>1. Steps(s) \in Nat /\ DOMAIN StepsOf(s) = 1 .. Steps(s)
      BY StepsTyped
    <3> DEFINE one(j) == [StepsOf(s)[j] EXCEPT !.with = Rendered(@, needs, <<>>)]
    <3>2. \A j \in 1 .. Steps(s) : one(j).name \in Names \cup {""}
      <4>1. \A j \in 1 .. Steps(s) : /\ {"name", "with"} \subseteq DOMAIN StepsOf(s)[j]
                                     /\ StepsOf(s)[j].name \in Names \cup {""}
        BY StepsTyped
      <4>2. \A j \in 1 .. Steps(s) : "name" \in DOMAIN StepsOf(s)[j]
        BY <4>1
      <4>3. \A j \in 1 .. Steps(s) : one(j).name = StepsOf(s)[j].name
        BY <4>2
      <4> QED  BY <4>1, <4>3
    <3>3. steps = [j \in 1 .. Steps(s) |-> one(j)]
      BY <3>1
    <3> HIDE DEF steps, one
    <3>4. \A j \in 1 .. Steps(s) : steps[j] = one(j)
      BY <3>3
    <3>5. Len(steps) = Steps(s)
      BY <3>1, <3>3
    <3> QED  BY <3>1, <3>2, <3>4, <3>5
  <2> HIDE DEF needs, out, steps
  <2> HIDE DEF y
  <2>6. ExecOK(y, s)
    <3>1. y.k # 0 /\ y.k \in Nat /\ y.k <= Steps(s) + 1 /\ y.pc \in Pcs \ {"outputs"} /\ y.pc # "idle"
      <4>1. y.k = 1 /\ y.pc = "step" /\ Steps(s) \in Nat
        BY <2>3, <2>5
      <4>2. 1 <= Steps(s) + 1 /\ 1 \in Nat /\ 1 # 0
        BY <4>1
      <4>3. "step" \in Pcs \ {"outputs"} /\ "step" # "idle"
        BY DEF Pcs
      <4> QED  BY <4>1, <4>2, <4>3
    <3>2. ~InStep(y) /\ ~InPut(y) /\ ~AtFile(y)
      BY <2>3 DEF InStep, InPut, AtFile
    <3>3. Runs(y, s)
      BY <2>3, <2>4, <2>5, <3>1, <3>2 DEF Runs
    <3> QED  BY <2>3, <3>1, <3>3 DEF ExecOK
  <2> HIDE DEF z
  <2>7. CASE ex' = [ex EXCEPT ![s] = y]
    BY <1>1, <1>3, <2>3, <2>6, <2>7, Moved DEF needs
  <2>8. CASE ex' = [ex EXCEPT ![s] = z]
    BY <1>1, <1>3, <2>2, <2>8, Moved
  <2> QED  BY <2>1, <2>7, <2>8
<1> QED  BY <1>2, <1>3

-----------------------------------------------------------------------------
(* What each step of a worker does to the execution of its stage           *)

LEMMA FailsMoves ==
    ASSUME WorkTyped, NEW s \in Stages, ex[s].pc \notin {"idle", "report"}, ex[s].k <= Steps(s),
           Fails(s), prog' = prog
    PROVE  /\ OnlyMoves(s) /\ ExecOK(ex'[s], s) /\ SamePlan(ex[s], ex'[s]) /\ ex'[s].pc = "mark"
<1> DEFINE y == [[ex[s] EXCEPT !.pc = "mark"] EXCEPT !.fd = -1]
<1>1. ex' = [ex EXCEPT ![s] = y]
  BY DEF Fails, WorkTyped
<1>2. DOMAIN ex[s] = Fields /\ ExecOK(ex[s], s)
  BY Busy
<1>3. SamePlan(ex[s], y) /\ y.pc = "mark"
  BY <1>2 DEF SamePlan, Fields
<1> HIDE DEF y
<1>4. ExecOK(y, s)
  BY <1>2, <1>3, PlanKept DEF Pcs, InPut, AtFile
<1> QED  BY <1>1, <1>3, <1>4, Moved

LEMMA SucceedsMoves ==
    ASSUME WorkTyped, NEW s \in Stages, ex[s].pc \notin {"idle", "report"}, ex[s].k <= Steps(s),
           NEW v, Succeeds(s, v), prog' = prog
    PROVE  /\ OnlyMoves(s) /\ ExecOK(ex'[s], s) /\ SamePlan(ex[s], ex'[s]) /\ ex'[s].pc = "mark"
<1> DEFINE o == IF v = "" \/ Current(s).id = "" THEN ex[s].outs
                ELSE [n \in DOMAIN ex[s].outs \cup {Current(s).id} |->
                        IF n = Current(s).id THEN v ELSE ex[s].outs[n]]
           y == [[ex[s] EXCEPT !.pc = "mark"] EXCEPT !.outs = o]
<1>1. ex' = [ex EXCEPT ![s] = y]
  BY DEF Succeeds, WorkTyped
<1> HIDE DEF o
<1>2. DOMAIN ex[s] = Fields /\ ExecOK(ex[s], s)
  BY Busy
<1>3. SamePlan(ex[s], y) /\ y.pc = "mark"
  BY <1>2 DEF SamePlan, Fields
<1> HIDE DEF y
<1>4. ExecOK(y, s)
  BY <1>2, <1>3, PlanKept DEF Pcs, InPut, AtFile
<1> QED  BY <1>1, <1>3, <1>4, Moved

\* The next Put of the step.
LEMMA PutMoves ==
    ASSUME WorkTyped, NEW s \in Stages, ex[s].pc \notin {"idle", "report"}, ex[s].k <= Steps(s),
           NEW key \in Keys, ex[s].steps[ex[s].k].name \in Names,
           ex' = [ex EXCEPT ![s].pc = "create", ![s].key = key], prog' = prog
    PROVE  /\ OnlyMoves(s) /\ ExecOK(ex'[s], s) /\ SamePlan(ex[s], ex'[s]) /\ ex'[s].pc = "create"
<1> DEFINE y == [[ex[s] EXCEPT !.pc = "create"] EXCEPT !.key = key]
<1>1. ex' = [ex EXCEPT ![s] = y]
  BY DEF WorkTyped
<1>2. DOMAIN ex[s] = Fields /\ ExecOK(ex[s], s)
  BY Busy
<1>3. SamePlan(ex[s], y) /\ y.pc = "create" /\ y.key = key
  BY <1>2 DEF SamePlan, Fields
<1> HIDE DEF y
<1>4. ExecOK(y, s)
  BY <1>2, <1>3, PlanKept DEF Pcs, InPut, AtFile
<1> QED  BY <1>1, <1>3, <1>4, Moved

LEMMA GotoMoves ==
    ASSUME WorkTyped, NEW s \in Stages, ex[s].pc \notin {"idle", "report"},
           NEW pc \in Pcs \ {"outputs", "idle"}, Goto(s, pc), prog' = prog,
           pc \in {"mark", "create", "copy", "rename"} => InPut(ex[s]),
           pc \in {"load", "trunc", "write"} => AtFile(ex[s])
    PROVE  /\ OnlyMoves(s) /\ ExecOK(ex'[s], s) /\ SamePlan(ex[s], ex'[s]) /\ ex'[s].pc = pc
           /\ ex'[s].map = ex[s].map /\ ex'[s].key = ex[s].key /\ ex'[s].fd = ex[s].fd
<1> DEFINE y == [ex[s] EXCEPT !.pc = pc]
<1>1. ex' = [ex EXCEPT ![s] = y]
  BY DEF Goto, WorkTyped
<1>2. DOMAIN ex[s] = Fields /\ ExecOK(ex[s], s) /\ Runs(ex[s], s)
  BY Busy
<1>3. SamePlan(ex[s], y) /\ y.pc = pc /\ y.map = ex[s].map /\ y.key = ex[s].key /\ y.fd = ex[s].fd
  BY <1>2 DEF SamePlan, Fields
<1> HIDE DEF y
<1>4. ExecOK(y, s)
  <2>1. InStep(y) => ex[s].k <= Steps(s)
    BY <1>2, <1>3 DEF Runs, InStep, InPut
  <2>2. InPut(y) => y.key \in Keys /\ ex[s].steps[ex[s].k].name \in Names
    BY <1>2, <1>3 DEF Runs, InPut
  <2>3. AtFile(y) => ex[s].k = Steps(s) + 1 /\ prog[s].out.from # "none"
    BY <1>2, <1>3 DEF Runs, AtFile
  <2> QED  BY <1>2, <1>3, <2>1, <2>2, <2>3, PlanKept
<1> QED  BY <1>1, <1>3, <1>4, Moved

LEMMA StepStartMoves ==
    ASSUME WorkTyped, NEW s \in Stages, StepStart(s)
    PROVE  /\ OnlyMoves(s) /\ ExecOK(ex'[s], s) /\ SamePlan(ex[s], ex'[s])
           /\ ex[s].pc = "step" /\ ex'[s].pc \in {"mark", "create"}
<1>1. ex[s].pc = "step" /\ ex[s].k <= Len(ex[s].steps) /\ prog' = prog
  BY DEF StepStart, At
<1>2. Runs(ex[s], s) /\ ex[s].k <= Steps(s) /\ ex[s].k \in 1 .. Steps(s)
  BY <1>1, Busy
<1>3. CASE \E v : Succeeds(s, v)
  BY <1>1, <1>2, <1>3, SucceedsMoves
<1>4. CASE Fails(s)
  BY <1>1, <1>2, <1>4, FailsMoves
<1>5. CASE Current(s).name # "" /\ ex' = [ex EXCEPT ![s].pc = "create", ![s].key = <<Current(s).name, "tgz">>]
  <2>1. Current(s).name \in Names /\ <<Current(s).name, "tgz">> \in Keys
    BY <1>2, <1>5 DEF Runs, Current, Keys
  <2> DEFINE key == <<Current(s).name, "tgz">>
  <2>2. key \in Keys /\ ex' = [ex EXCEPT ![s].pc = "create", ![s].key = key]
    BY <1>5, <2>1
  <2>3. ex[s].steps[ex[s].k].name \in Names
    BY <2>1 DEF Current
  <2> HIDE DEF key
  <2> QED  BY <1>1, <1>2, <2>2, <2>3, PutMoves
<1>6. (\E v : Succeeds(s, v)) \/ Fails(s)
      \/ (Current(s).name # "" /\ ex' = [ex EXCEPT ![s].pc = "create", ![s].key = <<Current(s).name, "tgz">>])
  <2>1. CASE DownloadArtifact(s)
    BY <2>1 DEF DownloadArtifact, Unpack
  <2>2. CASE Shell(s)
    BY <2>2 DEF Shell
  <2>3. CASE UploadArtifact(s)
    BY <2>3 DEF UploadArtifact, Pack
  <2>4. CASE RunPlugin(s)
    BY <2>4 DEF RunPlugin
  <2> QED  BY <2>1, <2>2, <2>3, <2>4 DEF StepStart
<1> QED  BY <1>1, <1>3, <1>4, <1>5, <1>6

LEMMA StepEndMoves ==
    ASSUME WorkTyped, NEW s \in Stages, StepEnd(s)
    PROVE  /\ OnlyMoves(s) /\ ExecOK(ex'[s], s) /\ ex[s].pc = "mark"
           /\ ex'[s].needs = ex[s].needs /\ ex'[s].steps = ex[s].steps
           /\ IF ex[s].fd = -1 THEN ex'[s].pc = "report" /\ ex'[s].k = ex[s].k
                               ELSE ex'[s].pc = "step" /\ ex'[s].k = ex[s].k + 1
<1> DEFINE pc == IF ex[s].fd = -1 THEN "report" ELSE "step"
           k == IF ex[s].fd = -1 THEN ex[s].k ELSE ex[s].k + 1
           y == [[ex[s] EXCEPT !.pc = pc] EXCEPT !.k = k]
<1>1. ex' = [ex EXCEPT ![s] = y] /\ ex[s].pc = "mark" /\ prog' = prog
  BY DEF StepEnd, At, WorkTyped
<1>2. /\ DOMAIN ex[s] = Fields /\ ExecOK(ex[s], s) /\ Runs(ex[s], s)
      /\ ex[s].k \in Nat /\ ex[s].k # 0 /\ Steps(s) \in Nat
  BY <1>1, Busy
<1>3. k \in Nat /\ k # 0 /\ k <= Steps(s) + 1
  <2>1. ex[s].k <= Steps(s)
    BY <1>1, <1>2 DEF Runs, InStep
  <2> QED  BY <1>2, <2>1
<1>4. pc \in {"report", "step"}
  OBVIOUS
<1>5. IF ex[s].fd = -1 THEN pc = "report" /\ k = ex[s].k ELSE pc = "step" /\ k = ex[s].k + 1
  OBVIOUS
<1> HIDE DEF pc, k
<1>6. /\ DOMAIN y = Fields /\ y.pc = pc /\ y.k = k /\ y.needs = ex[s].needs /\ y.steps = ex[s].steps
      /\ y.out = ex[s].out
  BY <1>2 DEF Fields
<1> HIDE DEF y
<1>7. Runs(y, s)
  BY <1>2, <1>3, <1>4, <1>6 DEF Runs, InStep, InPut, AtFile
<1>8. ExecOK(y, s)
  BY <1>3, <1>4, <1>6, <1>7 DEF ExecOK, Pcs
<1> QED  BY <1>1, <1>5, <1>6, <1>8, Moved

LEMMA CreateMoves ==
    ASSUME WorkTyped, NEW s \in Stages, Create(s)
    PROVE  /\ OnlyMoves(s) /\ ExecOK(ex'[s], s) /\ SamePlan(ex[s], ex'[s])
           /\ ex[s].pc = "create" /\ ex'[s].pc = "copy" /\ ex'[s].key = ex[s].key
           /\ ex'[s].fd = IF paths[ex[s].key].tmp = 0 THEN Len(disk) + 1 ELSE paths[ex[s].key].tmp
<1> DEFINE fd == IF paths[ex[s].key].tmp = 0 THEN Len(disk) + 1 ELSE paths[ex[s].key].tmp
           y == [[ex[s] EXCEPT !.pc = "copy"] EXCEPT !.fd = fd]
<1>1. ex' = [ex EXCEPT ![s] = y] /\ ex[s].pc = "create" /\ prog' = prog
  BY DEF Create, At, WorkTyped
<1>2. DOMAIN ex[s] = Fields /\ ExecOK(ex[s], s) /\ Runs(ex[s], s)
  BY <1>1, Busy
<1> HIDE DEF fd
<1>3. SamePlan(ex[s], y) /\ y.pc = "copy" /\ y.key = ex[s].key /\ y.fd = fd
  BY <1>2 DEF SamePlan, Fields
<1> HIDE DEF y
<1>4. ex[s].k <= Steps(s) /\ ex[s].key \in Keys /\ ex[s].steps[ex[s].k].name \in Names
  BY <1>1, <1>2 DEF Runs, InStep, InPut
<1>5. ExecOK(y, s)
  BY <1>1, <1>2, <1>3, <1>4, PlanKept DEF Pcs, AtFile
<1> QED  BY <1>1, <1>3, <1>5, Moved DEF fd

LEMMA CopyMoves ==
    ASSUME WorkTyped, NEW s \in Stages, Copy(s)
    PROVE  /\ OnlyMoves(s) /\ ExecOK(ex'[s], s) /\ SamePlan(ex[s], ex'[s]) /\ ex[s].pc = "copy"
           /\ \/ /\ disk' = [disk EXCEPT ![ex[s].fd] = IF @ = "empty" THEN s ELSE "mixed"]
                 /\ ex'[s].pc = "rename" /\ ex'[s].key = ex[s].key /\ ex'[s].fd = ex[s].fd
                 /\ paths' = paths
              \/ /\ ex'[s].pc = "mark" /\ disk' = disk
                 /\ paths' = [paths EXCEPT ![ex[s].key].tmp = 0]
<1>1. ex[s].pc = "copy" /\ prog' = prog
  BY DEF Copy, At
<1>2. ex[s].k <= Steps(s) /\ InPut(ex[s])
  BY <1>1, Busy DEF Runs, InStep, InPut
<1>3. CASE Fails(s) /\ disk' = disk /\ paths' = [paths EXCEPT ![ex[s].key].tmp = 0]
  BY <1>1, <1>2, <1>3, FailsMoves
<1>4. CASE Goto(s, "rename") /\ disk' = [disk EXCEPT ![ex[s].fd] = IF @ = "empty" THEN s ELSE "mixed"] /\ paths' = paths
  <2>1. "rename" \in Pcs \ {"outputs", "idle"}
    BY DEF Pcs
  <2> QED  BY <1>1, <1>2, <1>4, <2>1, GotoMoves
<1> QED  BY <1>3, <1>4 DEF Copy

LEMMA RenameMoves ==
    ASSUME WorkTyped, NEW s \in Stages, Rename(s)
    PROVE  /\ OnlyMoves(s) /\ ExecOK(ex'[s], s) /\ SamePlan(ex[s], ex'[s]) /\ ex[s].pc = "rename"
           /\ ex'[s].pc \in {"mark", "create"}
           /\ IF paths[ex[s].key].tmp = 0 THEN paths' = paths
              ELSE paths' = [paths EXCEPT ![ex[s].key] = [dst |-> paths[ex[s].key].tmp, tmp |-> 0]]
<1>1. ex[s].pc = "rename" /\ prog' = prog
  BY DEF Rename, At
<1>2. Runs(ex[s], s) /\ ex[s].k <= Steps(s) /\ ex[s].key \in Keys /\ ex[s].steps[ex[s].k].name \in Names
  BY <1>1, Busy DEF Runs, InStep, InPut
<1> DEFINE key == <<Current(s).name, "json">>
<1>3. key \in Keys
  BY <1>2 DEF Keys, Current
<1>4. Fails(s) \/ (\E v : Succeeds(s, v)) \/ ex' = [ex EXCEPT ![s].pc = "create", ![s].key = key]
  BY DEF Rename, NextPut
<1> HIDE DEF key
<1>5. OnlyMoves(s) /\ ExecOK(ex'[s], s) /\ SamePlan(ex[s], ex'[s]) /\ ex'[s].pc \in {"mark", "create"}
  BY <1>1, <1>2, <1>3, <1>4, FailsMoves, SucceedsMoves, PutMoves
<1> QED  BY <1>1, <1>5 DEF Rename

LEMMA ResolvedMoves ==
    ASSUME WorkTyped, NEW s \in Stages, Resolved(s)
    PROVE  /\ OnlyMoves(s) /\ ExecOK(ex'[s], s) /\ SamePlan(ex[s], ex'[s])
           /\ ex[s].pc = "step" /\ ex[s].k = Steps(s) + 1
           /\ ex'[s].pc = IF prog[s].out.from = "none" THEN "report" ELSE "load"
<1> DEFINE pc == IF ex[s].out.from = "none" THEN "report" ELSE "load"
           out == Rendered(ex[s].out, ex[s].needs, ex[s].outs)
           y == [[ex[s] EXCEPT !.pc = pc] EXCEPT !.out = out]
<1>1. ex' = [ex EXCEPT ![s] = y] /\ ex[s].pc = "step" /\ prog' = prog /\ ex[s].k > Len(ex[s].steps)
  BY DEF Resolved, At, WorkTyped
<1>2. /\ DOMAIN ex[s] = Fields /\ ExecOK(ex[s], s) /\ Runs(ex[s], s) /\ ex[s].k \in Nat /\ Steps(s) \in Nat
      /\ Len(ex[s].steps) = Steps(s) /\ ex[s].k <= Steps(s) + 1
  BY <1>1, Busy
<1>3. out.from = "none" <=> ex[s].out.from = "none"
  BY RenderedFrom
<1>4. pc = IF prog[s].out.from = "none" THEN "report" ELSE "load"
  BY <1>2 DEF Runs
<1> HIDE DEF pc, out
<1>5. SamePlan(ex[s], y) /\ y.pc = pc
  BY <1>2, <1>3 DEF SamePlan, Fields
<1> HIDE DEF y
<1>6. ex[s].k = Steps(s) + 1
  BY <1>1, <1>2
<1>7. ExecOK(y, s)
  BY <1>1, <1>2, <1>4, <1>5, <1>6, PlanKept DEF Pcs, InStep, InPut, AtFile
<1> QED  BY <1>1, <1>4, <1>5, <1>6, <1>7, Moved

LEMMA SetLoadMoves ==
    ASSUME WorkTyped, NEW s \in Stages, SetLoad(s)
    PROVE  /\ OnlyMoves(s) /\ ExecOK(ex'[s], s) /\ SamePlan(ex[s], ex'[s]) /\ ex[s].pc = "load"
           /\ \/ file.kind = "torn" /\ ex'[s].pc = "report"
              \/ /\ file.kind # "torn" /\ ex'[s].pc = "trunc"
                 /\ ex'[s].map = [t \in DOMAIN file.map \cup {s} |->
                                   IF t = s THEN ex[s].out.value ELSE file.map[t]]
<1>1. ex[s].pc = "load" /\ prog' = prog
  BY DEF SetLoad, At
<1>2. DOMAIN ex[s] = Fields /\ ExecOK(ex[s], s) /\ Runs(ex[s], s) /\ AtFile(ex[s])
  BY <1>1, Busy DEF AtFile
<1>3. CASE file.kind = "torn"
  <2>1. Goto(s, "report") /\ "report" \in Pcs \ {"outputs", "idle"}
    BY <1>3 DEF SetLoad, Pcs
  <2> QED  BY <1>1, <1>3, <2>1, GotoMoves
<1>4. CASE file.kind # "torn"
  <2> DEFINE map == [t \in DOMAIN file.map \cup {s} |-> IF t = s THEN ex[s].out.value ELSE file.map[t]]
             y == [[ex[s] EXCEPT !.pc = "trunc"] EXCEPT !.map = map]
  <2>1. ex' = [ex EXCEPT ![s] = y]
    BY <1>4 DEF SetLoad, WorkTyped
  <2> HIDE DEF map
  <2>2. SamePlan(ex[s], y) /\ y.pc = "trunc" /\ y.map = map
    BY <1>2 DEF SamePlan, Fields
  <2> HIDE DEF y
  <2>3. ExecOK(y, s)
    BY <1>1, <1>2, <2>2, PlanKept DEF Pcs, InStep, InPut, Runs
  <2> QED  BY <1>1, <1>4, <2>1, <2>2, <2>3, Moved DEF map
<1> QED  BY <1>3, <1>4

LEMMA SetTruncateMoves ==
    ASSUME WorkTyped, NEW s \in Stages, SetTruncate(s)
    PROVE  /\ OnlyMoves(s) /\ ExecOK(ex'[s], s) /\ SamePlan(ex[s], ex'[s])
           /\ ex[s].pc = "trunc" /\ ex'[s].pc = "write" /\ ex'[s].map = ex[s].map
<1>1. ex[s].pc = "trunc" /\ prog' = prog /\ Goto(s, "write") /\ AtFile(ex[s])
  BY DEF SetTruncate, At, AtFile
<1>2. "write" \in Pcs \ {"outputs", "idle"}
  BY DEF Pcs
<1> QED  BY <1>1, <1>2, GotoMoves

LEMMA SetWriteMoves ==
    ASSUME WorkTyped, NEW s \in Stages, SetWrite(s)
    PROVE  /\ OnlyMoves(s) /\ ExecOK(ex'[s], s) /\ SamePlan(ex[s], ex'[s])
           /\ ex[s].pc = "write" /\ ex'[s].pc = "report" /\ ex[s].k = Steps(s) + 1
<1>1. ex[s].pc = "write" /\ prog' = prog /\ Goto(s, "report") /\ AtFile(ex[s])
  BY DEF SetWrite, At, AtFile
<1>2. "report" \in Pcs \ {"outputs", "idle"}
  BY DEF Pcs
<1>3. Runs(ex[s], s)
  BY <1>1, Busy
<1> QED  BY <1>1, <1>2, <1>3, GotoMoves DEF Runs

\* Report and Crash leave the stage idle.
LEMMA IdleMoves ==
    ASSUME WorkTyped, NEW s \in Stages, ex' = [ex EXCEPT ![s] = Idle], prog' = prog
    PROVE  OnlyMoves(s) /\ ExecOK(ex'[s], s) /\ ex'[s] = Idle /\ ex'[s].pc = "idle" /\ ex'[s].k = 0 /\ ex'[s].steps = <<>>
BY Moved, IdleOK

\* The steps between the rows: a Put, or what follows the last step.
Works(s) ==
    \/ Create(s) \/ Copy(s) \/ Rename(s)
    \/ Resolved(s) \/ SetLoad(s) \/ SetTruncate(s) \/ SetWrite(s)

LEMMA WorksMoves ==
    ASSUME WorkTyped, NEW s \in Stages, Works(s)
    PROVE  /\ OnlyMoves(s) /\ ExecOK(ex'[s], s) /\ SamePlan(ex[s], ex'[s])
           /\ ex[s].pc # "idle" /\ ex'[s].pc # "idle"
           /\ UNCHANGED <<ended, status, rows, deliveries, due, unmarked>>
<1>1. CASE Create(s)
  BY <1>1, CreateMoves DEF Create
<1>2. CASE Copy(s)
  <2>1. UNCHANGED <<ended, status, rows, deliveries, due, unmarked>>
    BY <1>2 DEF Copy, history
  <2> QED  BY <1>2, <2>1, CopyMoves
<1>3. CASE Rename(s)
  <2>1. UNCHANGED <<ended, status, rows, deliveries, due, unmarked>>
    BY <1>3 DEF Rename, history
  <2> QED  BY <1>3, <2>1, RenameMoves
<1>4. CASE Resolved(s)
  <2>1. UNCHANGED <<ended, status, rows, deliveries, due, unmarked>>
    BY <1>4 DEF Resolved, history
  <2> QED  BY <1>4, <2>1, ResolvedMoves
<1>5. CASE SetLoad(s)
  BY <1>5, SetLoadMoves DEF SetLoad
<1>6. CASE SetTruncate(s)
  <2>1. UNCHANGED <<ended, status, rows, deliveries, due, unmarked>>
    BY <1>6 DEF SetTruncate, history
  <2> QED  BY <1>6, <2>1, SetTruncateMoves
<1>7. CASE SetWrite(s)
  BY <1>7, SetWriteMoves DEF SetWrite
<1> QED  BY <1>1, <1>2, <1>3, <1>4, <1>5, <1>6, <1>7 DEF Works

LEMMA ReportMoves ==
    ASSUME WorkTyped, NEW s \in Stages, Report(s)
    PROVE  /\ OnlyMoves(s) /\ ExecOK(ex'[s], s) /\ ex[s].pc = "report"
           /\ ex'[s].pc = "idle" /\ ex'[s].k = 0 /\ ex'[s].steps = <<>>
BY IdleMoves DEF Report, At

LEMMA CrashMoves ==
    ASSUME WorkTyped, NEW s \in Stages, Crash(s)
    PROVE  /\ OnlyMoves(s) /\ ExecOK(ex'[s], s) /\ ex[s].pc # "idle"
           /\ ex'[s].pc = "idle" /\ ex'[s].k = 0 /\ ex'[s].steps = <<>>
BY IdleMoves DEF Crash, At

\* The steps of the workers, in the groups that the proofs take them in.
WorkerStep ==
    \E s \in Stages : Begin(s) \/ StepStart(s) \/ StepEnd(s) \/ Works(s) \/ Report(s) \/ Crash(s)

LEMMA NextSteps ==
    ASSUME [Next]_vars
    PROVE  WorkerStep \/ RunEnds \/ UNCHANGED vars
BY DEF Next, WorkerStep, Works

LEMMA WorkStarts ==
    ASSUME Init
    PROVE  WorkTyped
<1>1. \A s \in Stages : ExecOK(Idle, s)
  BY IdleOK
<1> HIDE DEF Idle
<1>2. ex = [s \in Stages |-> Idle] /\ prog \in Programs
  BY DEF Init
<1> QED  BY <1>1, <1>2 DEF WorkTyped

LEMMA WorkKeeps ==
    ASSUME WorkTyped, [Next]_vars
    PROVE  WorkTyped'
<1>1. ASSUME NEW s \in Stages, Begin(s) \/ StepStart(s) \/ StepEnd(s) \/ Works(s) \/ Report(s) \/ Crash(s)
      PROVE  WorkTyped'
  <2>1. OnlyMoves(s) /\ ExecOK(ex'[s], s)
    BY <1>1, BeginMoves, StepStartMoves, StepEndMoves, WorksMoves, ReportMoves, CrashMoves
  <2> QED  BY <2>1, MovedKeeps
<1>2. ASSUME UNCHANGED <<prog, ex>>
      PROVE  WorkTyped'
  <2>1. \A t \in Stages : Steps(t)' = Steps(t) /\ prog'[t] = prog[t]
    BY <1>2 DEF Steps, StepsOf
  <2>2. \A t \in Stages : ExecOK(ex[t], t)'
    BY <1>2, <2>1 DEF WorkTyped, ExecOK, Runs, Rests, InStep, InPut, AtFile
  <2> QED  BY <1>2, <2>2 DEF WorkTyped
<1>3. CASE RunEnds
  BY <1>2, <1>3 DEF RunEnds
<1>4. CASE UNCHANGED vars
  BY <1>2, <1>4 DEF vars, state
<1> QED  BY <1>1, <1>3, <1>4, NextSteps DEF WorkerStep

-----------------------------------------------------------------------------
(* SuccessRows: a stage that says success has rows that say so             *)

\* The rows before the step an execution is at say success, and so do all the
\* rows of a stage that is a success and waits for nothing.
RowsAt(s) ==
    /\ \A j \in 1 .. Steps(s) : j < ex[s].k => rows[s][j] = "success"
    /\ status[s] = "success" /\ ex[s].pc = "idle" /\ s \notin due
          => \A j \in 1 .. Steps(s) : rows[s][j] = "success"

RowsInv ==
    /\ DOMAIN status = Stages
    /\ DOMAIN rows = Stages /\ \A s \in Stages : DOMAIN rows[s] = 1 .. Steps(s)
    /\ unmarked \/ ended \/ \A s \in Stages : RowsAt(s)

LEMMA CountKept ==
    ASSUME prog' = prog, NEW s \in Stages
    PROVE  Steps(s)' = Steps(s) /\ StepsOf(s)' = StepsOf(s)
BY DEF Steps, StepsOf

\* A step of s leaves what the other rows say.
LEMMA RowsElse ==
    ASSUME NEW s \in Stages, OnlyMoves(s), NEW t \in Stages \ {s}, RowsAt(t),
           rows'[t] = rows[t], status'[t] = status[t], t \in due => t \in due'
    PROVE  RowsAt(t)'
<1>1. ex'[t] = ex[t] /\ Steps(t)' = Steps(t)
  BY CountKept DEF OnlyMoves
<1> QED  BY <1>1 DEF RowsAt

\* A step that marks no row and decides no stage.
LEMMA RowsQuiet ==
    ASSUME RowsInv, NEW s \in Stages, OnlyMoves(s), UNCHANGED <<ended, status, rows, unmarked>>,
           \A t \in Stages \ {s} : t \in due => t \in due',
           ended \/ (ex'[s].pc # "idle" /\ ex'[s].k \in {0, 1, ex[s].k})
    PROVE  RowsInv'
<1>1. prog' = prog /\ \A t \in Stages : Steps(t)' = Steps(t)
  BY CountKept DEF OnlyMoves
<1>2. ASSUME ~unmarked, ~ended, NEW t \in Stages
      PROVE  RowsAt(t)'
  <2>1. RowsAt(t)
    BY <1>2 DEF RowsInv
  <2>2. CASE t # s
    BY <2>1, <2>2, RowsElse
  <2>3. CASE t = s
    <3>1. \A j \in 1 .. Steps(s) : j < ex'[s].k => j < ex[s].k
      BY <1>2
    <3> QED  BY <1>1, <1>2, <2>1, <2>3, <3>1 DEF RowsAt
  <2> QED  BY <2>2, <2>3
<1> QED  BY <1>1, <1>2 DEF RowsInv

LEMMA MarkRows ==
    ASSUME RowsInv, NEW s \in Stages, NEW st, Mark(s, st), OnlyMoves(s)
    PROVE  /\ DOMAIN rows' = Stages /\ \A t \in Stages : DOMAIN rows'[t] = 1 .. Steps(t)
           /\ \A t \in Stages \ {s} : rows'[t] = rows[t]
           /\ unmarked' \/ (unmarked' = unmarked
                 /\ rows'[s] = [rows[s] EXCEPT ![ex[s].k] = st])
BY DEF Mark, RowsInv

LEMMA StartRows ==
    ASSUME WorkTyped, RowsInv, NEW s \in Stages, StepStart(s)
    PROVE  RowsInv'
<1>1. Mark(s, "running") /\ UNCHANGED <<ended, status, due>>
  BY DEF StepStart
<1>2. /\ OnlyMoves(s) /\ ex'[s].k = ex[s].k /\ ex'[s].pc # "idle" /\ ex[s].k \in 1 .. Steps(s)
  BY StepStartMoves, Busy DEF SamePlan, StepStart
<1>3. \A t \in Stages : Steps(t)' = Steps(t)
  BY <1>2, CountKept DEF OnlyMoves
<1>4. ASSUME ~unmarked', ~ended, NEW t \in Stages
      PROVE  RowsAt(t)'
  <2>1. unmarked' = unmarked /\ rows'[s] = [rows[s] EXCEPT ![ex[s].k] = "running"]
    BY <1>1, <1>2, <1>4, MarkRows
  <2>2. RowsAt(t) /\ DOMAIN rows[s] = 1 .. Steps(s)
    BY <1>4, <2>1 DEF RowsInv
  <2>3. CASE t # s
    BY <1>1, <1>2, <2>2, <2>3, RowsElse, MarkRows
  <2>4. CASE t = s
    <3>1. \A j \in 1 .. Steps(s) : j < ex[s].k => rows'[s][j] = rows[s][j]
      BY <1>2, <2>1, <2>2
    <3> QED  BY <1>2, <1>3, <2>2, <2>4, <3>1 DEF RowsAt
  <2> QED  BY <2>3, <2>4
<1> QED  BY <1>1, <1>2, <1>3, <1>4, MarkRows DEF RowsInv

LEMMA EndRows ==
    ASSUME WorkTyped, RowsInv, NEW s \in Stages, StepEnd(s)
    PROVE  RowsInv'
<1>1. Mark(s, IF ex[s].fd = -1 THEN "failed" ELSE "success") /\ UNCHANGED <<ended, status, due>>
  BY DEF StepEnd
<1>2. /\ OnlyMoves(s) /\ ex'[s].pc # "idle" /\ ex[s].k \in 1 .. Steps(s)
      /\ IF ex[s].fd = -1 THEN ex'[s].k = ex[s].k ELSE ex'[s].k = ex[s].k + 1
  <2>1. ex[s].pc = "mark" /\ ex[s].k <= Steps(s) /\ ex[s].k \in Nat /\ ex[s].k # 0 /\ Steps(s) \in Nat
    BY StepEndMoves, Busy DEF Runs, InStep
  <2> QED  BY <2>1, StepEndMoves
<1>3. \A t \in Stages : Steps(t)' = Steps(t)
  BY <1>2, CountKept DEF OnlyMoves
<1>4. ASSUME ~unmarked', ~ended, NEW t \in Stages
      PROVE  RowsAt(t)'
  <2> DEFINE st == IF ex[s].fd = -1 THEN "failed" ELSE "success"
  <2>1. unmarked' = unmarked /\ rows'[s] = [rows[s] EXCEPT ![ex[s].k] = st]
    BY <1>1, <1>2, <1>4, MarkRows
  <2>2. RowsAt(t) /\ DOMAIN rows[s] = 1 .. Steps(s)
    BY <1>4, <2>1 DEF RowsInv
  <2>3. CASE t # s
    BY <1>1, <1>2, <2>2, <2>3, RowsElse, MarkRows
  <2>4. CASE t = s
    <3>1. rows'[s][ex[s].k] = st
      BY <1>2, <2>1, <2>2
    <3>2. \A j \in 1 .. Steps(s) : j < ex[s].k => rows'[s][j] = "success"
      BY <1>2, <2>1, <2>2, <2>4 DEF RowsAt
    <3>3. \A j \in 1 .. Steps(s) : j < ex'[s].k => rows'[s][j] = "success"
      <4>1. CASE ex[s].fd = -1
        BY <1>2, <3>2, <4>1
      <4>2. CASE ex[s].fd # -1
        <5>1. \A j \in 1 .. Steps(s) : j < ex[s].k + 1 => j < ex[s].k \/ j = ex[s].k
          BY <1>2
        <5> QED  BY <1>2, <3>1, <3>2, <4>2, <5>1
      <4> QED  BY <4>1, <4>2
    <3> QED  BY <1>2, <1>3, <2>4, <3>3 DEF RowsAt
  <2> QED  BY <2>3, <2>4
<1> QED  BY <1>1, <1>2, <1>3, <1>4, MarkRows DEF RowsInv

LEMMA ReportRows ==
    ASSUME WorkTyped, RowsInv, NEW s \in Stages, Report(s)
    PROVE  RowsInv'
<1>1. UNCHANGED <<ended, rows, unmarked>>
  BY DEF Report, history
<1>2. OnlyMoves(s) /\ ex[s].pc = "report" /\ ex'[s].k = 0
  BY ReportMoves
<1>3. \A t \in Stages : Steps(t)' = Steps(t)
  BY <1>2, CountKept DEF OnlyMoves
<1>4. /\ DOMAIN status' = Stages /\ \A t \in Stages \ {s} : status'[t] = status[t]
      /\ due \subseteq due'
      /\ s \in due' \/ Passed(s)
  BY DEF Report, RowsInv
<1>5. ASSUME ~unmarked, ~ended, NEW t \in Stages
      PROVE  RowsAt(t)'
  <2>1. RowsAt(t)
    BY <1>5 DEF RowsInv
  <2>2. CASE t # s
    BY <1>1, <1>2, <1>4, <2>1, <2>2, RowsElse
  <2>3. CASE t = s
    <3>1. \A j \in 1 .. Steps(s) : ~(j < ex'[s].k)
      BY <1>2
    <3>2. CASE s \in due'
      BY <1>3, <2>3, <3>1, <3>2 DEF RowsAt
    <3>3. CASE Passed(s)
      <4>1. ex[s].k > Len(ex[s].steps) /\ ex[s].k # 0
        BY <3>3, Z3 DEF Passed
      <4>2. Runs(ex[s], s) /\ ex[s].k \in Nat /\ Steps(s) \in Nat
        BY <4>1, StepsTyped DEF WorkTyped, ExecOK
      <4>3. ex[s].k > Steps(s)
        BY <4>1, <4>2 DEF Runs
      <4>4. \A j \in 1 .. Steps(s) : j < ex[s].k
        BY <4>2, <4>3
      <4> QED  BY <1>1, <1>3, <2>1, <2>3, <3>1, <4>4 DEF RowsAt
    <3> QED  BY <1>4, <3>2, <3>3
  <2> QED  BY <2>2, <2>3
<1> QED  BY <1>1, <1>3, <1>4, <1>5 DEF RowsInv

LEMMA CrashRows ==
    ASSUME WorkTyped, RowsInv, NEW s \in Stages, Crash(s)
    PROVE  RowsInv'
<1>1. UNCHANGED <<ended, status, rows, unmarked>> /\ due' = due \cup {s}
  BY DEF Crash
<1>2. OnlyMoves(s) /\ ex'[s].k = 0
  BY CrashMoves
<1>3. \A t \in Stages : Steps(t)' = Steps(t)
  BY <1>2, CountKept DEF OnlyMoves
<1>4. ASSUME ~unmarked, ~ended, NEW t \in Stages
      PROVE  RowsAt(t)'
  <2>1. RowsAt(t)
    BY <1>4 DEF RowsInv
  <2>2. CASE t # s
    BY <1>1, <1>2, <2>1, <2>2, RowsElse
  <2>3. CASE t = s
    BY <1>1, <1>2, <1>3, <2>3 DEF RowsAt
  <2> QED  BY <2>2, <2>3
<1> QED  BY <1>1, <1>3, <1>4 DEF RowsInv

LEMMA RowsKeeps ==
    ASSUME WorkTyped, RowsInv, [Next]_vars
    PROVE  RowsInv'
<1>1. ASSUME NEW s \in Stages, Begin(s)
      PROVE  RowsInv'
  <2>1. UNCHANGED <<ended, status, rows, unmarked>> /\ due' = due \ {s}
    BY <1>1 DEF Begin
  <2> QED  BY <1>1, <2>1, BeginMoves, RowsQuiet
<1>2. ASSUME NEW s \in Stages, Works(s)
      PROVE  RowsInv'
  <2>1. OnlyMoves(s) /\ ex'[s].pc # "idle" /\ ex'[s].k = ex[s].k
        /\ UNCHANGED <<ended, status, rows, due, unmarked>>
    BY <1>2, WorksMoves DEF SamePlan
  <2> QED  BY <2>1, RowsQuiet
<1>3. CASE RunEnds
  <2>1. UNCHANGED <<prog, status, rows>> /\ ended'
    BY <1>3 DEF RunEnds
  <2>2. \A t \in Stages : Steps(t)' = Steps(t)
    BY <2>1, CountKept
  <2> QED  BY <2>1, <2>2 DEF RowsInv
<1>4. CASE UNCHANGED vars
  <2>1. UNCHANGED <<prog, ended, status, rows, due, ex, unmarked>>
    BY <1>4 DEF vars, state, history
  <2>2. \A t \in Stages : Steps(t)' = Steps(t)
    BY <2>1, CountKept
  <2>3. \A t \in Stages : RowsAt(t) => RowsAt(t)'
    BY <2>1, <2>2 DEF RowsAt
  <2> QED  BY <2>1, <2>2, <2>3 DEF RowsInv
<1> QED  BY <1>1, <1>2, <1>3, <1>4, NextSteps, StartRows, EndRows, ReportRows, CrashRows DEF WorkerStep

LEMMA RowsStart ==
    ASSUME Init
    PROVE  RowsInv
<1>1. WorkTyped
  BY WorkStarts
<1>2. /\ DOMAIN status = Stages /\ DOMAIN rows = Stages
      /\ \A s \in Stages : status[s] = "pending" /\ DOMAIN rows[s] = DOMAIN StepsOf(s)
      /\ \A s \in Stages : ex[s] = Idle
  BY DEF Init
<1>3. \A s \in Stages : DOMAIN rows[s] = 1 .. Steps(s)
  BY <1>1, <1>2, StepsTyped
<1>4. \A s \in Stages : ex[s].k = 0
  BY <1>2, IdleOK
<1>5. \A s \in Stages : RowsAt(s)
  BY <1>2, <1>4 DEF RowsAt
<1> QED  BY <1>2, <1>3, <1>5 DEF RowsInv

\* A stage row says success only over step rows that all say success, after
\* however many repetitions and crashes (UpdateStepStatus in ExecuteStage,
\* OnStageComplete), unless the update of a row failed, a repetition is due or
\* the run has ended.
THEOREM SuccessIsEarned == Spec => []SuccessRows
<1>1. Init => WorkTyped /\ RowsInv
  BY WorkStarts, RowsStart
<1>2. WorkTyped /\ RowsInv /\ [Next]_vars => (WorkTyped /\ RowsInv)'
  BY WorkKeeps, RowsKeeps
<1>3. WorkTyped /\ RowsInv => SuccessRows
  <2> SUFFICES ASSUME RowsInv, NEW s \in Stages, status[s] = "success", At(s, "idle"), s \notin due,
                      ~ended, ~unmarked
               PROVE  Range(rows[s]) \subseteq {"success"}
    BY DEF SuccessRows
  <2>1. \A j \in DOMAIN rows[s] : rows[s][j] = "success"
    BY DEF RowsInv, RowsAt, At
  <2> QED  BY <2>1 DEF Range
<1> QED  BY <1>1, <1>2, <1>3, PTL DEF Spec

-----------------------------------------------------------------------------
(* OutputsKept: the file of the outputs                                    *)

\* The map m has what the stage t has written.
Has(m, wrote, t) == t \in DOMAIN m /\ m[t] = wrote[t]

\* One Set at a time; the file is torn only while it is under way; the file has
\* all that was written, and so has the map that a Set is about to write, but
\* for the entry of its own stage.
FileOK ==
    /\ \A s, t \in Stages : Setting(s) /\ Setting(t) => s = t
    /\ file.kind = "torn" => \E s \in Stages : At(s, "write")
    /\ \A t \in DOMAIN saved : file.kind = "torn" \/ Has(file.map, saved, t)
    /\ \A s \in Stages : Setting(s) => s \in DOMAIN ex[s].map /\ \A t \in DOMAIN saved \ {s} : Has(ex[s].map, saved, t)

FileInv ==
    /\ \A t \in DOMAIN saved : t \in Stages /\ prog[t].out.from # "none"
    /\ clash \/ FileOK

\* A step outside the file.
LEMMA FileQuiet ==
    ASSUME FileInv, NEW s \in Stages, OnlyMoves(s), UNCHANGED <<file, saved>>, clash => clash',
           clash' \/ (ex[s].pc # "write" /\ ex'[s].pc \notin {"trunc", "write"})
    PROVE  FileInv'
<1>1. \A t \in DOMAIN saved' : t \in Stages /\ prog'[t].out.from # "none"
  BY DEF FileInv, OnlyMoves
<1>2. ASSUME ~clash'
      PROVE  FileOK'
  <2>1. FileOK /\ ex[s].pc # "write" /\ ~Setting(s)' /\ ~At(s, "write")
    BY <1>2 DEF FileInv, Setting, At
  <2>2. \A t \in Stages \ {s} : ex'[t] = ex[t] /\ (Setting(t)' <=> Setting(t)) /\ (At(t, "write")' <=> At(t, "write"))
    BY DEF OnlyMoves, Setting, At
  <2>4. \A t, u \in Stages : Setting(t)' /\ Setting(u)' => t = u
    BY <2>1, <2>2 DEF FileOK
  <2>5. file'.kind = "torn" => \E t \in Stages : At(t, "write")'
    BY <2>1, <2>2 DEF FileOK
  <2>6. \A t \in DOMAIN saved' : file'.kind = "torn" \/ Has(file'.map, saved', t)
    BY <2>1 DEF FileOK
  <2>7. \A t \in Stages : Setting(t)' => t \in DOMAIN ex'[t].map /\ \A u \in DOMAIN saved' \ {t} : Has(ex'[t].map, saved', u)
    BY <2>1, <2>2 DEF FileOK
  <2> QED  BY <2>4, <2>5, <2>6, <2>7 DEF FileOK
<1> QED  BY <1>1, <1>2 DEF FileInv

LEMMA LoadFile ==
    ASSUME WorkTyped, FileInv, NEW s \in Stages, SetLoad(s)
    PROVE  FileInv'
<1>1. UNCHANGED <<file, saved>> /\ clash' = (clash \/ \E t \in Stages : Setting(t))
  BY DEF SetLoad
<1>2. OnlyMoves(s) /\ ex[s].pc = "load"
      /\ \/ file.kind = "torn" /\ ex'[s].pc = "report"
         \/ /\ file.kind # "torn" /\ ex'[s].pc = "trunc"
            /\ ex'[s].map = [t \in DOMAIN file.map \cup {s} |-> IF t = s THEN ex[s].out.value ELSE file.map[t]]
  BY SetLoadMoves
<1>3. CASE clash' \/ ex'[s].pc = "report"
  BY <1>1, <1>2, <1>3, FileQuiet
<1>4. CASE ~clash' /\ ex'[s].pc = "trunc"
  <2>1. FileOK /\ \A t \in Stages : ~Setting(t)
    BY <1>1, <1>4 DEF FileInv
  <2>2. file.kind # "torn" /\ ex'[s].map = [t \in DOMAIN file.map \cup {s} |-> IF t = s THEN ex[s].out.value ELSE file.map[t]]
    BY <1>2, <1>4
  <2>3. \A t \in DOMAIN saved : Has(file.map, saved, t)
    BY <2>1, <2>2 DEF FileOK
  <2>4. s \in DOMAIN ex'[s].map /\ \A t \in DOMAIN saved \ {s} : Has(ex'[s].map, saved, t)
    BY <2>2, <2>3 DEF Has
  <2>6. \A t \in Stages : Setting(t)' => t = s
    BY <1>2, <2>1 DEF OnlyMoves, Setting
  <2>7. FileOK'
    <3>1. \A t, u \in Stages : Setting(t)' /\ Setting(u)' => t = u
      BY <2>6
    <3>2. \A t \in DOMAIN saved' : file'.kind = "torn" \/ Has(file'.map, saved', t)
      BY <1>1, <2>3
    <3>3. \A t \in Stages : Setting(t)' => t \in DOMAIN ex'[t].map /\ \A u \in DOMAIN saved' \ {t} : Has(ex'[t].map, saved', u)
      BY <1>1, <2>4, <2>6
    <3> QED  BY <1>1, <2>2, <3>1, <3>2, <3>3 DEF FileOK
  <2> QED  BY <1>1, <1>2, <2>7 DEF FileInv, OnlyMoves
<1> QED  BY <1>2, <1>3, <1>4

LEMMA TruncateFile ==
    ASSUME WorkTyped, FileInv, NEW s \in Stages, SetTruncate(s)
    PROVE  FileInv'
<1>1. UNCHANGED <<saved, clash>> /\ file'.kind = "torn"
  BY DEF SetTruncate, history, Torn
<1>2. OnlyMoves(s) /\ ex[s].pc = "trunc" /\ ex'[s].pc = "write" /\ ex'[s].map = ex[s].map
  BY SetTruncateMoves
<1>3. ASSUME FileOK
      PROVE  FileOK'
  <2>1. \A t \in Stages : (Setting(t)' <=> Setting(t)) /\ ex'[t].map = ex[t].map
    BY <1>2 DEF OnlyMoves, Setting
  <2>3. At(s, "write")'
    BY <1>2 DEF At
  <2>4. \A t, u \in Stages : Setting(t)' /\ Setting(u)' => t = u
    BY <1>3, <2>1 DEF FileOK
  <2>5. \A t \in Stages : Setting(t)' => t \in DOMAIN ex'[t].map /\ \A u \in DOMAIN saved' \ {t} : Has(ex'[t].map, saved', u)
    BY <1>1, <1>3, <2>1 DEF FileOK
  <2> QED  BY <1>1, <2>3, <2>4, <2>5 DEF FileOK
<1> QED  BY <1>1, <1>2, <1>3 DEF FileInv, OnlyMoves

LEMMA WriteFile ==
    ASSUME WorkTyped, FileInv, NEW s \in Stages, SetWrite(s)
    PROVE  FileInv'
<1>1. /\ clash' = clash /\ file'.kind = "ok" /\ file'.map = ex[s].map
      /\ saved' = [t \in DOMAIN saved \cup {s} |-> IF t = s THEN ex[s].map[s] ELSE saved[t]]
  BY DEF SetWrite
<1>2. OnlyMoves(s) /\ ex[s].pc = "write" /\ ex'[s].pc = "report"
  BY SetWriteMoves
<1>3. prog[s].out.from # "none"
  BY <1>2, Busy DEF Runs, AtFile
<1>4. \A t \in DOMAIN saved' : t \in Stages /\ prog'[t].out.from # "none"
  BY <1>1, <1>2, <1>3 DEF FileInv, OnlyMoves
<1>5. ASSUME FileOK
      PROVE  FileOK'
  <2>1. s \in DOMAIN ex[s].map /\ \A t \in DOMAIN saved \ {s} : Has(ex[s].map, saved, t)
    BY <1>2, <1>5 DEF FileOK, Setting
  <2>2. \A t \in Stages : ~Setting(t)'
    <3>1. \A t \in Stages \ {s} : ~Setting(t)
      BY <1>2, <1>5 DEF FileOK, Setting
    <3> QED  BY <1>2, <3>1 DEF Setting, OnlyMoves
  <2>3. \A t \in DOMAIN saved' : Has(file'.map, saved', t)
    BY <1>1, <2>1 DEF Has
  <2> QED  BY <1>1, <2>2, <2>3 DEF FileOK
<1> QED  BY <1>1, <1>4, <1>5 DEF FileInv

LEMMA FileKeeps ==
    ASSUME WorkTyped, FileInv, [Next]_vars
    PROVE  FileInv'
<1>1. ASSUME NEW s \in Stages, Begin(s)
      PROVE  FileInv'
  <2>1. UNCHANGED <<file, saved>> /\ (clash => clash')
    BY <1>1 DEF Begin
  <2>2. OnlyMoves(s) /\ ex[s].pc = "idle" /\ ex'[s].pc \notin {"trunc", "write"}
    BY <1>1, BeginMoves
  <2> QED  BY <2>1, <2>2, FileQuiet
<1>2. ASSUME NEW s \in Stages, StepStart(s)
      PROVE  FileInv'
  BY <1>2, StepStartMoves, FileQuiet DEF StepStart
<1>3. ASSUME NEW s \in Stages, StepEnd(s)
      PROVE  FileInv'
  <2>1. OnlyMoves(s) /\ ex[s].pc = "mark" /\ ex'[s].pc \notin {"trunc", "write"}
    BY <1>3, StepEndMoves
  <2> QED  BY <1>3, <2>1, FileQuiet DEF StepEnd
<1>4. ASSUME NEW s \in Stages, Create(s)
      PROVE  FileInv'
  BY <1>4, CreateMoves, FileQuiet DEF Create
<1>5. ASSUME NEW s \in Stages, Copy(s)
      PROVE  FileInv'
  BY <1>5, CopyMoves, FileQuiet DEF Copy, history
<1>6. ASSUME NEW s \in Stages, Rename(s)
      PROVE  FileInv'
  BY <1>6, RenameMoves, FileQuiet DEF Rename, history
<1>7. ASSUME NEW s \in Stages, Resolved(s)
      PROVE  FileInv'
  <2>1. OnlyMoves(s) /\ ex[s].pc = "step" /\ ex'[s].pc \in {"report", "load"}
    BY <1>7, ResolvedMoves
  <2>2. UNCHANGED <<file, saved, clash>>
    BY <1>7 DEF Resolved, history
  <2> QED  BY <2>1, <2>2, FileQuiet
<1>8. ASSUME NEW s \in Stages, Report(s)
      PROVE  FileInv'
  BY <1>8, ReportMoves, FileQuiet DEF Report, history
<1>9. ASSUME NEW s \in Stages, Crash(s)
      PROVE  FileInv'
  <2>1. UNCHANGED <<file, saved>> /\ clash' = (clash \/ At(s, "write"))
    BY <1>9 DEF Crash
  <2> QED  BY <1>9, <2>1, CrashMoves, FileQuiet DEF At
<1>10. ASSUME UNCHANGED <<prog, ex, file, saved, clash>>
       PROVE  FileInv'
  BY <1>10 DEF FileInv, FileOK, Setting, At, Has
<1>11. CASE RunEnds
  BY <1>10, <1>11 DEF RunEnds, history
<1>12. CASE UNCHANGED vars
  BY <1>10, <1>12 DEF vars, state, history
<1> QED  BY <1>1, <1>2, <1>3, <1>4, <1>5, <1>6, <1>7, <1>8, <1>9, <1>11, <1>12, NextSteps, LoadFile,
            TruncateFile, WriteFile DEF WorkerStep, Works

-----------------------------------------------------------------------------
(* OutputsKept: a stage that starts finds what it needs                    *)

Kept(s) == prog[s].out.from = "none" \/ s \in DOMAIN saved

Started(t) == t \in due \/ deliveries[t] # 0

\* A stage that was started has needs that are kept, and so is a stage that has
\* passed; what a stage that runs holds of the outputs file has all of them.
NeedsAt(t) ==
    /\ Started(t) => \A s \in Needs[t] : Kept(s)
    /\ status[t] = "success" \/ Passed(t) => Kept(t)
    /\ ex[t].steps # <<>> => Needs[t] \cap DOMAIN saved \subseteq DOMAIN ex[t].needs

NeedsInv ==
    /\ deliveries \in [Stages -> Nat] /\ DOMAIN status = Stages
    /\ \A t \in Stages : ex[t].pc # "idle" => deliveries[t] # 0
    /\ clash \/ \A t \in Stages : NeedsAt(t)

LEMMA KeptStays ==
    ASSUME NEW s, Kept(s), prog' = prog, DOMAIN saved \subseteq DOMAIN saved'
    PROVE  Kept(s)'
BY DEF Kept

\* A step of s leaves what holds of another stage.
LEMMA NeedsElse ==
    ASSUME NEW s \in Stages, OnlyMoves(s), NEW t \in Stages \ {s}, NeedsAt(t), Started(t)' => Started(t),
           status'[t] = status[t], DOMAIN saved' = DOMAIN saved
    PROVE  NeedsAt(t)'
<1>1. ex'[t] = ex[t] /\ \A u : Kept(u)' = Kept(u)
  BY DEF OnlyMoves, Kept
<1>2. Passed(t)' <=> Passed(t)
  BY <1>1 DEF Passed
<1> QED  BY <1>1, <1>2 DEF NeedsAt

\* A step that starts and decides no stage and writes no output.
LEMMA NeedsQuiet ==
    ASSUME NeedsInv, NEW s \in Stages, OnlyMoves(s), UNCHANGED <<status, deliveries, due, saved>>,
           clash => clash', ex[s].pc # "idle",
           ex'[s].steps = ex[s].steps, ex'[s].needs = ex[s].needs,
           clash' \/ (Passed(s)' => Kept(s))
    PROVE  NeedsInv'
<1>1. \A u \in Stages : (Started(u)' <=> Started(u)) /\ (Kept(u)' <=> Kept(u))
  BY DEF Started, Kept, OnlyMoves
<1>2. ASSUME ~clash', NEW t \in Stages
      PROVE  NeedsAt(t)'
  <2>1. NeedsAt(t)
    BY <1>2 DEF NeedsInv
  <2>2. CASE t # s
    BY <1>1, <2>1, <2>2, NeedsElse
  <2>3. CASE t = s
    <3>1. \A u \in Needs[s] : Kept(u)' <=> Kept(u)
      BY <1>1 DEF Kept, OnlyMoves
    <3> QED  BY <1>1, <1>2, <2>1, <2>3, <3>1 DEF NeedsAt
  <2> QED  BY <2>2, <2>3
<1>3. \A t \in Stages : ex'[t].pc # "idle" => deliveries'[t] # 0
  BY DEF NeedsInv, OnlyMoves
<1> QED  BY <1>2, <1>3 DEF NeedsInv

LEMMA BeginNeeds ==
    ASSUME WorkTyped, FileInv, NeedsInv, NEW s \in Stages, Begin(s)
    PROVE  NeedsInv'
<1>1. /\ UNCHANGED <<status, saved>> /\ s \in due /\ due' = due \ {s}
      /\ deliveries' = [deliveries EXCEPT ![s] = @ + 1]
      /\ clash' = (clash \/ file.kind = "torn")
  BY DEF Begin
<1>2. deliveries' \in [Stages -> Nat] /\ deliveries'[s] # 0
      /\ \A t \in Stages \ {s} : deliveries'[t] = deliveries[t]
  <2>1. deliveries[s] \in Nat /\ deliveries'[s] = deliveries[s] + 1
    BY <1>1 DEF NeedsInv
  <2> QED  BY <1>1, <2>1 DEF NeedsInv
<1>3. OnlyMoves(s) /\ ExecOK(ex'[s], s) /\ ex[s].pc = "idle"
      /\ \/ ex'[s] = ex[s]
         \/ ex'[s].pc = "step" /\ ex'[s].k = 1 /\ ex'[s].needs = file.map
         \/ ex'[s].pc = "report" /\ ex'[s].k = 0
  BY BeginMoves
<1>4. ASSUME ~clash', NEW t \in Stages
      PROVE  NeedsAt(t)'
  <2>1. NeedsAt(t) /\ FileOK /\ file.kind # "torn"
    BY <1>1, <1>4 DEF NeedsInv, FileInv
  <2>2. CASE t # s
    <3>1. Started(t)' => Started(t)
      BY <1>1, <1>2, <2>2 DEF Started
    <3> QED  BY <1>1, <1>3, <2>1, <2>2, <3>1, NeedsElse
  <2>3. CASE t = s
    <3>1. \A u : Kept(u) => Kept(u)'
      BY <1>1, <1>3 DEF Kept, OnlyMoves
    <3>2. Started(s)
      BY <1>1 DEF Started
    <3>3. ~Passed(s)'
      <4>1. ex'[s].pc # "report" \/ ex'[s].k = 0
        BY <1>3
      <4> QED  BY <4>1 DEF Passed
    <3>4. ex'[s].steps # <<>> => ex'[s].needs = file.map
      <4>1. ex'[s].k = 0 => ex'[s].steps = <<>>
        BY <1>3 DEF ExecOK, Rests
      <4>2. ex[s].k = 0
        BY <1>3 DEF WorkTyped, ExecOK, Runs
      <4> QED  BY <1>3, <4>1, <4>2
    <3>5. DOMAIN saved \subseteq DOMAIN file.map
      BY <2>1 DEF FileOK, Has
    <3> QED  BY <1>1, <2>1, <2>3, <3>1, <3>2, <3>3, <3>4, <3>5 DEF NeedsAt
  <2> QED  BY <2>2, <2>3
<1>5. \A t \in Stages : ex'[t].pc # "idle" => deliveries'[t] # 0
  BY <1>2, <1>3 DEF NeedsInv, OnlyMoves
<1> QED  BY <1>1, <1>2, <1>4, <1>5 DEF NeedsInv

LEMMA WriteNeeds ==
    ASSUME WorkTyped, NeedsInv, NEW s \in Stages, SetWrite(s)
    PROVE  NeedsInv'
<1>1. UNCHANGED <<status, deliveries, due, clash>> /\ DOMAIN saved' = DOMAIN saved \cup {s}
  BY DEF SetWrite
<1>2. /\ OnlyMoves(s) /\ SamePlan(ex[s], ex'[s]) /\ ex[s].pc = "write" /\ prog[s].out.from # "none"
  BY SetWriteMoves, Busy DEF Runs, AtFile
<1>3. ASSUME ~clash, NEW t \in Stages
      PROVE  NeedsAt(t)'
  <2>1. NeedsAt(t)
    BY <1>3 DEF NeedsInv
  <2>2. \A u : Kept(u) => Kept(u)'
    BY <1>1, <1>2 DEF Kept, OnlyMoves
  <2>3. Kept(s)'
    BY <1>1 DEF Kept
  <2>4. Started(t)' <=> Started(t)
    BY <1>1 DEF Started
  <2>5. ex'[t].steps = ex[t].steps /\ ex'[t].needs = ex[t].needs /\ (t # s => ex'[t] = ex[t])
    BY <1>2 DEF OnlyMoves, SamePlan
  <2>6. status'[t] = "success" \/ Passed(t)' => Kept(t)'
    BY <1>1, <2>1, <2>2, <2>3, <2>5 DEF NeedsAt, Passed
  <2>7. ASSUME ex[t].steps # <<>>, s \in Needs[t]
        PROVE  s \in DOMAIN ex[t].needs
    <3>1. ex[t].pc # "idle"
      BY <2>7 DEF WorkTyped, ExecOK, Rests, Runs
    <3>2. Kept(s)
      BY <2>1, <2>7, <3>1 DEF NeedsInv, NeedsAt, Started
    <3> QED  BY <1>2, <2>1, <2>7, <3>2 DEF NeedsAt, Kept
  <2> QED  BY <1>1, <2>1, <2>2, <2>4, <2>5, <2>6, <2>7 DEF NeedsAt
<1>4. \A t \in Stages : ex'[t].pc # "idle" => deliveries'[t] # 0
  BY <1>1, <1>2 DEF NeedsInv, OnlyMoves
<1> QED  BY <1>1, <1>3, <1>4 DEF NeedsInv

\* The stage goes back to rest; the stages that become due have needs that are kept.
LEMMA RestNeeds ==
    ASSUME NeedsInv, NEW s \in Stages, OnlyMoves(s), ex[s].pc # "idle", ex'[s].pc = "idle",
           ex'[s].steps = <<>>, UNCHANGED <<deliveries, saved>>, clash => clash',
           DOMAIN status' = Stages, \A t \in Stages \ {s} : status'[t] = status[t],
           clash' \/ (status'[s] = "success" => Kept(s)),
           clash' \/ \A t \in due' \ due : t # s => \A u \in Needs[t] : Kept(u)
    PROVE  NeedsInv'
<1>1. \A u : Kept(u)' <=> Kept(u)
  BY DEF Kept, OnlyMoves
<1>2. ASSUME ~clash', NEW t \in Stages
      PROVE  NeedsAt(t)'
  <2>1. NeedsAt(t)
    BY <1>2 DEF NeedsInv
  <2>2. Started(t)' => \A u \in Needs[t] : Kept(u)'
    <3>1. CASE Started(t)
      BY <1>1, <2>1, <3>1 DEF NeedsAt
    <3>2. CASE ~Started(t)
      <4>1. t # s
        BY <3>2 DEF Started, NeedsInv
      <4> QED  BY <1>1, <1>2, <3>2, <4>1 DEF Started
    <3> QED  BY <3>1, <3>2
  <2>3. CASE t # s
    <3>1. ex'[t] = ex[t] /\ (Passed(t)' <=> Passed(t))
      BY <2>3 DEF OnlyMoves, Passed
    <3> QED  BY <1>1, <2>1, <2>2, <2>3, <3>1 DEF NeedsAt
  <2>4. CASE t = s
    <3>1. ~Passed(s)'
      BY DEF Passed
    <3> QED  BY <1>1, <1>2, <2>2, <2>4, <3>1 DEF NeedsAt
  <2> QED  BY <2>3, <2>4
<1>3. \A t \in Stages : ex'[t].pc # "idle" => deliveries'[t] # 0
  BY DEF NeedsInv, OnlyMoves
<1> QED  BY <1>2, <1>3 DEF NeedsInv

LEMMA ReportNeeds ==
    ASSUME WorkTyped, NeedsInv, NEW s \in Stages, Report(s)
    PROVE  NeedsInv'
<1>1. OnlyMoves(s) /\ ex[s].pc = "report" /\ ex'[s].pc = "idle" /\ ex'[s].steps = <<>>
  BY ReportMoves
<1>2. UNCHANGED <<deliveries, saved, clash>>
  BY DEF Report, history
<1>3. /\ DOMAIN status' = Stages /\ \A t \in Stages \ {s} : status'[t] = status[t]
      /\ status'[s] = "success" => status[s] = "success" \/ Passed(s)
  BY DEF Report, NeedsInv
<1>4. ASSUME ~clash
      PROVE  status'[s] = "success" => Kept(s)
  BY <1>3, <1>4 DEF NeedsInv, NeedsAt
<1>5. ASSUME ~clash, NEW t \in due' \ due, t # s
      PROVE  \A u \in Needs[t] : Kept(u)
  <2>1. Passed(s) /\ t \in Stages /\ \A u \in Needs[t] \ {s} : status[u] = "success"
    BY <1>5 DEF Report
  <2>2. \A u \in Stages : status[u] = "success" \/ Passed(u) => Kept(u)
    BY <1>5 DEF NeedsInv, NeedsAt
  <2>3. Needs[t] \subseteq Stages
    BY <2>1, StageWorkAssumption
  <2> QED  BY <2>1, <2>2, <2>3
<1> QED  BY <1>1, <1>2, <1>3, <1>4, <1>5, RestNeeds

LEMMA CrashNeeds ==
    ASSUME WorkTyped, NeedsInv, NEW s \in Stages, Crash(s)
    PROVE  NeedsInv'
<1>1. OnlyMoves(s) /\ ex[s].pc # "idle" /\ ex'[s].pc = "idle" /\ ex'[s].steps = <<>>
  BY CrashMoves
<1>2. UNCHANGED <<deliveries, saved, status>> /\ due' = due \cup {s} /\ (clash => clash')
  BY DEF Crash
<1>3. DOMAIN status' = Stages /\ (clash' \/ (status'[s] = "success" => Kept(s)))
  BY <1>2 DEF NeedsInv, NeedsAt
<1> QED  BY <1>1, <1>2, <1>3, RestNeeds

LEMMA NeedsKeeps ==
    ASSUME WorkTyped, FileInv, NeedsInv, [Next]_vars
    PROVE  NeedsInv'
<1> DEFINE Quiet(s) == /\ OnlyMoves(s) /\ UNCHANGED <<status, deliveries, due, saved>> /\ (clash => clash')
                       /\ ex[s].pc # "idle" /\ ex'[s].steps = ex[s].steps /\ ex'[s].needs = ex[s].needs
<1>1. ASSUME NEW s \in Stages, StepStart(s)
      PROVE  NeedsInv'
  <2>1. Quiet(s) /\ ex'[s].pc # "report"
    BY <1>1, StepStartMoves DEF StepStart, SamePlan
  <2> QED  BY <2>1, NeedsQuiet DEF Passed
<1>2. ASSUME NEW s \in Stages, StepEnd(s)
      PROVE  NeedsInv'
  <2>1. Quiet(s)
    BY <1>2, StepEndMoves DEF StepEnd
  <2>2. ~Passed(s)'
    <3>1. ex[s].k <= Steps(s) /\ Len(ex[s].steps) = Steps(s) /\ ex[s].k \in Nat /\ Steps(s) \in Nat
      BY <1>2, StepEndMoves, Busy DEF Runs, InStep
    <3>2. ex'[s].steps = ex[s].steps /\ (ex'[s].pc = "report" => ex'[s].k = ex[s].k)
      BY <1>2, StepEndMoves
    <3> QED  BY <3>1, <3>2 DEF Passed
  <2> QED  BY <2>1, <2>2, NeedsQuiet
<1>3. ASSUME NEW s \in Stages, Create(s) \/ Copy(s) \/ Rename(s)
      PROVE  NeedsInv'
  <2>1. Works(s)
    BY <1>3 DEF Works
  <2>2. UNCHANGED <<saved, clash>>
    BY <1>3 DEF Create, Copy, Rename, history
  <2>3. Quiet(s)
    BY <2>1, <2>2, WorksMoves DEF SamePlan
  <2>4. ex'[s].pc # "report"
    BY <1>3, CreateMoves, CopyMoves, RenameMoves
  <2> QED  BY <2>3, <2>4, NeedsQuiet DEF Passed
<1>4. ASSUME NEW s \in Stages, Resolved(s)
      PROVE  NeedsInv'
  <2>1. UNCHANGED <<saved, clash>>
    BY <1>4 DEF Resolved, history
  <2>2. Quiet(s)
    BY <1>4, <2>1, WorksMoves DEF Works, SamePlan
  <2>3. Passed(s)' => Kept(s)
    BY <1>4, ResolvedMoves DEF Passed, Kept
  <2> QED  BY <2>2, <2>3, NeedsQuiet
<1>5. ASSUME NEW s \in Stages, SetLoad(s)
      PROVE  NeedsInv'
  <2>1. saved' = saved /\ clash' = (clash \/ \E t \in Stages : Setting(t))
    BY <1>5 DEF SetLoad
  <2>2. Quiet(s)
    BY <1>5, <2>1, WorksMoves DEF Works, SamePlan
  <2>3. clash' \/ ~Passed(s)'
    <3>1. file.kind = "torn" \/ ex'[s].pc = "trunc"
      BY <1>5, SetLoadMoves
    <3>2. file.kind = "torn" => clash'
      BY <2>1 DEF FileInv, FileOK, Setting, At
    <3> QED  BY <3>1, <3>2 DEF Passed
  <2> QED  BY <2>2, <2>3, NeedsQuiet
<1>6. ASSUME NEW s \in Stages, SetTruncate(s)
      PROVE  NeedsInv'
  <2>1. UNCHANGED <<saved, clash>>
    BY <1>6 DEF SetTruncate, history
  <2>2. Quiet(s)
    BY <1>6, <2>1, WorksMoves DEF Works, SamePlan
  <2>3. ~Passed(s)'
    BY <1>6, SetTruncateMoves DEF Passed
  <2> QED  BY <2>2, <2>3, NeedsQuiet
<1>7. ASSUME UNCHANGED <<prog, ex, status, deliveries, due, saved, clash>>
      PROVE  NeedsInv'
  <2>1. \A t : (Kept(t)' <=> Kept(t)) /\ (Started(t)' <=> Started(t)) /\ (Passed(t)' <=> Passed(t))
    BY <1>7 DEF Kept, Started, Passed
  <2>2. \A t \in Stages : NeedsAt(t)' <=> NeedsAt(t)
    BY <1>7, <2>1 DEF NeedsAt
  <2> QED  BY <1>7, <2>2 DEF NeedsInv
<1>8. CASE RunEnds
  BY <1>7, <1>8 DEF RunEnds, history
<1>9. CASE UNCHANGED vars
  BY <1>7, <1>9 DEF vars, state, history
<1> QED  BY <1>1, <1>2, <1>3, <1>4, <1>5, <1>6, <1>8, <1>9, NextSteps, BeginNeeds, WriteNeeds,
            ReportNeeds, CrashNeeds DEF WorkerStep, Works

LEMMA OutputsStart ==
    ASSUME Init
    PROVE  FileInv /\ NeedsInv
<1>1. /\ saved = <<>> /\ file = NoFile /\ due = {s \in Stages : Needs[s] = {}}
      /\ status = [s \in Stages |-> "pending"] /\ deliveries = [s \in Stages |-> 0]
  BY DEF Init
<1>2. \A s \in Stages : ex[s].pc = "idle" /\ ex[s].steps = <<>>
  BY IdleOK DEF Init
<1>3. FileInv
  <2>1. DOMAIN saved = {} /\ file.kind # "torn" /\ \A s \in Stages : ~Setting(s)
    BY <1>1, <1>2 DEF NoFile, Setting
  <2> QED  BY <2>1 DEF FileInv, FileOK
<1>4. NeedsInv
  <2>1. \A t \in Stages : ~Passed(t) /\ (Started(t) => Needs[t] = {})
    BY <1>1, <1>2 DEF Passed, Started
  <2> QED  BY <1>1, <1>2, <2>1 DEF NeedsInv, NeedsAt
<1> QED  BY <1>3, <1>4

\* stage_outputs.json keeps what every stage has written, and a stage that
\* starts finds what those it needs have written, for any programs and however
\* the stages and the repetitions of their tasks interleave (OutputsFile.Set and
\* LoadNeedsFromFile), as long as no Set met another one or a read and none was
\* cut short.
THEOREM OutputsReachNeeds == Spec => []OutputsKept
<1> DEFINE OutputsInv == WorkTyped /\ FileInv /\ NeedsInv
<1>1. Init => OutputsInv
  BY WorkStarts, OutputsStart
<1>2. OutputsInv /\ [Next]_vars => OutputsInv'
  BY WorkKeeps, FileKeeps, NeedsKeeps
<1>3. OutputsInv => OutputsKept
  <2> SUFFICES ASSUME FileInv, NeedsInv, ~clash, NEW s \in DOMAIN saved
               PROVE  /\ file.kind = "torn" \/ (s \in DOMAIN file.map /\ file.map[s] = saved[s])
                      /\ \A t \in Stages : s \in Needs[t] /\ ex[t].steps # <<>> => s \in DOMAIN ex[t].needs
    BY DEF OutputsKept
  <2> QED  BY DEF FileInv, FileOK, Has, NeedsInv, NeedsAt
<1> QED  BY <1>1, <1>2, <1>3, PTL DEF Spec

-----------------------------------------------------------------------------
(* ArtifactWhole: the files of the artifacts                               *)

Contents == Stages \cup {"empty", "mixed"}

\* The key k holds on to the inode i: at its path, at path.tmp or in an open file.
Uses(k, i) ==
    \/ paths[k].dst = i \/ paths[k].tmp = i
    \/ \E t \in Stages : Putting(t, k) /\ ex[t].fd = i

\* The inodes are there, and no two keys hold on to the same one.
DiskOK ==
    /\ disk \in Seq(Contents)
    /\ paths \in [Keys -> [dst : Nat, tmp : Nat]]
    /\ \A k \in Keys : paths[k].dst <= Len(disk) /\ paths[k].tmp <= Len(disk)
    /\ \A t \in Stages, k \in Keys : Putting(t, k) => ex[t].fd \in 1 .. Len(disk)
    /\ \A k, l \in Keys : k # l => \A i \in 1 .. Len(disk) : ~(Uses(k, i) /\ Uses(l, i))

\* A key whose Puts came one after the other: the file at its path is whole, and
\* path.tmp is the file of the Put under way, written once it is renamed.
KeyOK(k) ==
    /\ paths[k].dst # 0 => disk[paths[k].dst] \in Stages /\ paths[k].dst # paths[k].tmp
    /\ \A t, u \in Stages : Putting(t, k) /\ Putting(u, k) => t = u
    /\ \A t \in Stages : Putting(t, k) =>
          /\ ex[t].fd = paths[k].tmp
          /\ IF ex[t].pc = "copy" THEN disk[ex[t].fd] = "empty" ELSE disk[ex[t].fd] \in Stages
    /\ (\A t \in Stages : ~Putting(t, k)) => paths[k].tmp = 0

PutsInv ==
    /\ DiskOK
    /\ \A k \in Keys \ mixed : KeyOK(k)
    /\ DOMAIN got = Stages /\ (mixed = {} => \A s \in Stages : got[s] \in Stages \cup {""})

\* The other stages hold what they held.
LEMMA OthersPut ==
    ASSUME NEW s \in Stages, OnlyMoves(s)
    PROVE  \A t \in Stages \ {s} : ex'[t] = ex[t] /\ \A k : Putting(t, k)' <=> Putting(t, k)
BY DEF OnlyMoves, Putting

\* A step at the key k that writes only to inodes of k, or to a new one, leaves
\* the other keys as they are.
LEMMA OtherKeys ==
    ASSUME DiskOK, NEW s \in Stages, OnlyMoves(s), NEW k \in Keys,
           \A l \in Keys \ {k} : paths'[l] = paths[l] /\ ~Putting(s, l) /\ ~Putting(s, l)',
           \A i \in 1 .. Len(disk) : Uses(k, i)' => Uses(k, i),
           \A i \in 1 .. Len(disk) : Uses(k, i) \/ disk'[i] = disk[i],
           Len(disk') \in Nat, Len(disk) <= Len(disk')
    PROVE  /\ \A l \in Keys \ {k} : KeyOK(l) => KeyOK(l)'
           /\ \A l, m \in Keys : l # m => \A i \in 1 .. Len(disk') : ~(Uses(l, i)' /\ Uses(m, i)')
<1>1. \A t \in Stages, l \in Keys \ {k} : (Putting(t, l)' <=> Putting(t, l)) /\ (Putting(t, l) => ex'[t] = ex[t])
  BY OthersPut
<1>2. \A l \in Keys \ {k}, i \in Nat : Uses(l, i)' <=> Uses(l, i)
  BY <1>1 DEF Uses
<1>3. Len(disk) \in Nat /\ \A l \in Keys : paths[l].dst \in Nat /\ paths[l].tmp \in Nat
  BY DEF DiskOK
<1>4. \A l \in Keys \ {k}, i \in 1 .. Len(disk) : Uses(l, i) => disk'[i] = disk[i]
  BY DEF DiskOK
<1>5. ASSUME NEW l \in Keys \ {k}, KeyOK(l)
      PROVE  KeyOK(l)'
  <2>1. paths[l].dst # 0 => disk'[paths[l].dst] = disk[paths[l].dst]
    <3>1. paths[l].dst # 0 => paths[l].dst \in 1 .. Len(disk)
      BY <1>3 DEF DiskOK
    <3> QED  BY <1>4, <3>1 DEF Uses
  <2>2. \A t \in Stages : Putting(t, l) => disk'[ex[t].fd] = disk[ex[t].fd]
    <3>1. \A t \in Stages : Putting(t, l) => ex[t].fd \in 1 .. Len(disk) /\ Uses(l, ex[t].fd)
      BY DEF DiskOK, Uses
    <3> QED  BY <1>4, <3>1
  <2>3. paths'[l] = paths[l]
    OBVIOUS
  <2>4. paths'[l].dst # 0 => disk'[paths'[l].dst] \in Stages /\ paths'[l].dst # paths'[l].tmp
    BY <1>5, <2>1, <2>3 DEF KeyOK
  <2>5. \A t, u \in Stages : Putting(t, l)' /\ Putting(u, l)' => t = u
    BY <1>1, <1>5 DEF KeyOK
  <2>6. \A t \in Stages : Putting(t, l)' =>
          /\ ex'[t].fd = paths'[l].tmp
          /\ IF ex'[t].pc = "copy" THEN disk'[ex'[t].fd] = "empty" ELSE disk'[ex'[t].fd] \in Stages
    BY <1>1, <1>5, <2>2, <2>3 DEF KeyOK
  <2>7. (\A t \in Stages : ~Putting(t, l)') => paths'[l].tmp = 0
    BY <1>1, <1>5, <2>3 DEF KeyOK
  <2> QED  BY <2>4, <2>5, <2>6, <2>7 DEF KeyOK
<1>6. ASSUME NEW l \in Keys, NEW m \in Keys, l # m, NEW i \in 1 .. Len(disk'), Uses(l, i)', Uses(m, i)'
      PROVE  FALSE
  <2>1. i \in Nat /\ (i <= Len(disk) => i \in 1 .. Len(disk))
    BY <1>3
  <2>2. CASE i <= Len(disk)
    BY <1>2, <1>6, <2>1, <2>2 DEF DiskOK
  <2>3. CASE ~(i <= Len(disk))
    <3>1. \A n \in Keys \ {k} : ~Uses(n, i)
      <4>1. ASSUME NEW n \in Keys \ {k}, Uses(n, i)
            PROVE  FALSE
        <5>1. \A t \in Stages : Putting(t, n) => ex[t].fd <= Len(disk)
          BY <1>3 DEF DiskOK
        <5>2. paths[n].dst <= Len(disk) /\ paths[n].tmp <= Len(disk)
          BY DEF DiskOK
        <5> QED  BY <2>3, <4>1, <5>1, <5>2 DEF Uses
      <4> QED  BY <4>1
    <3> QED  BY <1>2, <1>6, <2>1, <3>1
  <2> QED  BY <2>2, <2>3
<1> QED  BY <1>5, <1>6

LEMMA KeyTyped ==
    ASSUME DiskOK, NEW k \in Keys
    PROVE  /\ disk \in Seq(Contents) /\ Len(disk) \in Nat
           /\ paths[k] \in [dst : Nat, tmp : Nat] /\ paths[k].dst \in Nat /\ paths[k].tmp \in Nat
           /\ paths[k].dst <= Len(disk) /\ paths[k].tmp <= Len(disk)
<1>1. disk \in Seq(Contents) /\ paths[k] \in [dst : Nat, tmp : Nat]
  BY DEF DiskOK
<1> QED  BY <1>1 DEF DiskOK

\* What a step at the key k must do to the disk for it to stay in order.
LEMMA DiskKept ==
    ASSUME DiskOK, NEW s \in Stages, OnlyMoves(s), NEW k \in Keys, NEW path \in [dst : Nat, tmp : Nat],
           paths' = [paths EXCEPT ![k] = path], path.dst <= Len(disk'), path.tmp <= Len(disk'),
           disk' \in Seq(Contents), Len(disk') \in Nat, Len(disk) <= Len(disk'),
           \A l \in Keys \ {k} : ~Putting(s, l) /\ ~Putting(s, l)',
           Putting(s, k)' => ex'[s].fd \in 1 .. Len(disk'),
           \A i \in 1 .. Len(disk) : Uses(k, i)' => Uses(k, i),
           \A i \in 1 .. Len(disk) : Uses(k, i) \/ disk'[i] = disk[i]
    PROVE  DiskOK' /\ paths'[k] = path /\ \A l \in Keys \ {k} : KeyOK(l) => KeyOK(l)'
<1>1. paths \in [Keys -> [dst : Nat, tmp : Nat]]
  BY DEF DiskOK
<1>2. paths'[k] = path /\ paths' \in [Keys -> [dst : Nat, tmp : Nat]]
  BY <1>1
<1>3. \A l \in Keys \ {k} : paths'[l] = paths[l]
  BY <1>1
<1>4. /\ \A l \in Keys \ {k} : KeyOK(l) => KeyOK(l)'
      /\ \A l, m \in Keys : l # m => \A i \in 1 .. Len(disk') : ~(Uses(l, i)' /\ Uses(m, i)')
  BY <1>3, OtherKeys
<1>5. \A l \in Keys : paths'[l].dst <= Len(disk') /\ paths'[l].tmp <= Len(disk')
  <2>1. ASSUME NEW l \in Keys
        PROVE  paths'[l].dst <= Len(disk') /\ paths'[l].tmp <= Len(disk')
    <3>1. CASE l = k
      BY <1>2, <3>1
    <3>2. CASE l # k
      <4>1. /\ Len(disk) \in Nat /\ paths[l].dst \in Nat /\ paths[l].tmp \in Nat
            /\ paths[l].dst <= Len(disk) /\ paths[l].tmp <= Len(disk)
        BY KeyTyped
      <4> QED  BY <1>3, <3>2, <4>1
    <3> QED  BY <3>1, <3>2
  <2> QED  BY <2>1
<1>6. \A t \in Stages, l \in Keys : Putting(t, l)' => ex'[t].fd \in 1 .. Len(disk')
  <2>1. ASSUME NEW t \in Stages \ {s}, NEW l \in Keys, Putting(t, l)'
        PROVE  ex'[t].fd \in 1 .. Len(disk')
    <3>1. Putting(t, l) /\ ex'[t] = ex[t]
      BY <2>1, OthersPut
    <3>2. ex[t].fd \in 1 .. Len(disk) /\ Len(disk) \in Nat
      BY <3>1, KeyTyped DEF DiskOK
    <3> QED  BY <3>1, <3>2
  <2> QED  BY <2>1
<1> QED  BY <1>2, <1>4, <1>5, <1>6 DEF DiskOK

\* A key that at most one stage, s, has a Put of.
LEMMA KeyAlone ==
    ASSUME NEW s \in Stages, NEW k \in Keys, \A t \in Stages : Putting(t, k)' => t = s,
           paths'[k].dst # 0 => disk'[paths'[k].dst] \in Stages /\ paths'[k].dst # paths'[k].tmp,
           IF Putting(s, k)'
           THEN /\ ex'[s].fd = paths'[k].tmp
                /\ IF ex'[s].pc = "copy" THEN disk'[ex'[s].fd] = "empty" ELSE disk'[ex'[s].fd] \in Stages
           ELSE paths'[k].tmp = 0
    PROVE  KeyOK(k)'
BY DEF KeyOK

\* A step that touches no artifact, or leaves the file of one behind.
LEMMA PutsQuiet ==
    ASSUME WorkTyped, PutsInv, NEW s \in Stages, OnlyMoves(s), UNCHANGED <<paths, disk>>,
           mixed \subseteq mixed', \A k \in Keys : Putting(s, k) => k \in mixed',
           \A k : ~Putting(s, k)',
           DOMAIN got' = Stages /\ (mixed' = {} => \A t \in Stages : got'[t] \in Stages \cup {""})
    PROVE  PutsInv'
<1>1. \A t \in Stages \ {s} : ex'[t] = ex[t] /\ \A k : Putting(t, k)' <=> Putting(t, k)
  BY OthersPut
<1>2. \A k, i : Uses(k, i)' => Uses(k, i)
  BY <1>1 DEF Uses
<1>3. DiskOK'
  BY <1>1, <1>2 DEF PutsInv, DiskOK
<1>4. ASSUME NEW k \in Keys \ mixed'
      PROVE  KeyOK(k)'
  <2>1. KeyOK(k) /\ ~Putting(s, k)
    BY DEF PutsInv
  <2>2. \A t \in Stages : (Putting(t, k)' <=> Putting(t, k)) /\ (Putting(t, k) => ex'[t] = ex[t])
    BY <1>1, <2>1
  <2>3. \A t, u \in Stages : Putting(t, k)' /\ Putting(u, k)' => t = u
    BY <2>1, <2>2 DEF KeyOK
  <2>4. \A t \in Stages : Putting(t, k)' =>
          /\ ex'[t].fd = paths'[k].tmp
          /\ IF ex'[t].pc = "copy" THEN disk'[ex'[t].fd] = "empty" ELSE disk'[ex'[t].fd] \in Stages
    <3>1. \A t \in Stages : Putting(t, k) =>
            /\ ex[t].fd = paths[k].tmp
            /\ IF ex[t].pc = "copy" THEN disk[ex[t].fd] = "empty" ELSE disk[ex[t].fd] \in Stages
      BY <2>1 DEF KeyOK
    <3>2. ASSUME NEW t \in Stages, Putting(t, k)'
          PROVE  /\ ex'[t].fd = paths'[k].tmp
                 /\ IF ex'[t].pc = "copy" THEN disk'[ex'[t].fd] = "empty" ELSE disk'[ex'[t].fd] \in Stages
      <4>1. Putting(t, k) /\ ex'[t] = ex[t] /\ paths' = paths /\ disk' = disk
        BY <2>2, <3>2
      <4> QED  BY <3>1, <4>1
    <3> QED  BY <3>2
  <2>5. (\A t \in Stages : ~Putting(t, k)') => paths'[k].tmp = 0
    BY <2>1, <2>2 DEF KeyOK
  <2> QED  BY <2>1, <2>3, <2>4, <2>5 DEF KeyOK
<1> QED  BY <1>3, <1>4 DEF PutsInv

LEMMA CreatePuts ==
    ASSUME WorkTyped, PutsInv, NEW s \in Stages, Create(s)
    PROVE  PutsInv'
<1>1. ex[s].pc = "create"
  BY CreateMoves
<1>2. PICK key \in Keys : key = ex[s].key
  BY <1>1, Busy DEF Runs, InPut
<1>3. /\ disk \in Seq(Contents) /\ Len(disk) \in Nat /\ DiskOK
      /\ paths[key].dst \in Nat /\ paths[key].tmp \in Nat
      /\ paths[key].dst <= Len(disk) /\ paths[key].tmp <= Len(disk)
  BY <1>2, KeyTyped DEF PutsInv
<1>4. PICK fd \in Nat : fd = IF paths[key].tmp = 0 THEN Len(disk) + 1 ELSE paths[key].tmp
  BY <1>3
<1>5. /\ disk' = (IF paths[key].tmp = 0 THEN Append(disk, "empty") ELSE [disk EXCEPT ![paths[key].tmp] = "empty"])
      /\ paths' = [paths EXCEPT ![key].tmp = fd]
      /\ mixed' = (IF \E t \in Stages : Putting(t, key) THEN mixed \cup {key} ELSE mixed)
      /\ got' = got
  BY <1>2, <1>4 DEF Create
<1>6. OnlyMoves(s) /\ ex'[s].pc = "copy" /\ ex'[s].key = key /\ ex'[s].fd = fd
  BY <1>2, <1>4, CreateMoves
<1>7. /\ disk' \in Seq(Contents) /\ Len(disk') \in Nat /\ Len(disk) <= Len(disk') /\ fd \in 1 .. Len(disk')
      /\ disk'[fd] = "empty" /\ \A i \in 1 .. Len(disk) : i # fd => disk'[i] = disk[i]
  <2>1. "empty" \in Contents
    BY DEF Contents
  <2>2. CASE paths[key].tmp = 0
    BY <1>3, <1>4, <1>5, <2>1, <2>2
  <2>3. CASE paths[key].tmp # 0
    BY <1>3, <1>4, <1>5, <2>1, <2>3
  <2> QED  BY <2>2, <2>3
<1> DEFINE path == [dst |-> paths[key].dst, tmp |-> fd]
<1>8. path \in [dst : Nat, tmp : Nat] /\ path.dst = paths[key].dst /\ path.tmp = fd
      /\ paths' = [paths EXCEPT ![key] = path]
  <2>1. paths[key] \in [dst : Nat, tmp : Nat]
    BY <1>3, KeyTyped
  <2>2. [paths[key] EXCEPT !.tmp = fd] = path
    BY <2>1
  <2> QED  BY <1>3, <1>5, <2>2
<1> HIDE DEF path
<1>9. /\ \A l : ~Putting(s, l)
      /\ \A l : Putting(s, l)' <=> l = key
  BY <1>1, <1>6 DEF Putting
<1>10. \A t \in Stages \ {s} : ex'[t] = ex[t] /\ \A l : Putting(t, l)' <=> Putting(t, l)
  BY <1>6, OthersPut
<1>11. paths'[key] = path
  BY <1>3, <1>8 DEF DiskOK
<1>12. \A i \in 1 .. Len(disk) : (Uses(key, i)' => Uses(key, i)) /\ (Uses(key, i) \/ disk'[i] = disk[i])
  <2>1. ASSUME NEW i \in 1 .. Len(disk), i = fd
        PROVE  Uses(key, i)
    BY <1>3, <1>4, <2>1 DEF Uses
  <2>2. ASSUME NEW i \in 1 .. Len(disk), Uses(key, i)'
        PROVE  Uses(key, i) \/ i = fd
    BY <1>6, <1>8, <1>10, <1>11, <2>2 DEF Uses
  <2> QED  BY <1>7, <2>1, <2>2
<1>13. DiskOK' /\ \A l \in Keys \ {key} : KeyOK(l) => KeyOK(l)'
  <2>1. path.dst <= Len(disk') /\ path.tmp <= Len(disk')
    BY <1>3, <1>7, <1>8
  <2> QED  BY <1>3, <1>6, <1>7, <1>8, <1>9, <1>12, <2>1, DiskKept
<1>14. ASSUME key \notin mixed'
       PROVE  KeyOK(key)'
  <2>1. KeyOK(key) /\ \A t \in Stages : ~Putting(t, key)
    BY <1>5, <1>14 DEF PutsInv
  <2>2. paths[key].tmp = 0 /\ fd = Len(disk) + 1
    BY <1>4, <2>1 DEF KeyOK
  <2>3. paths'[key].dst # 0 => disk'[paths'[key].dst] \in Stages /\ paths'[key].dst # paths'[key].tmp
    <3>1. paths[key].dst # 0 => paths[key].dst \in 1 .. Len(disk) /\ paths[key].dst # fd
      BY <1>3, <2>2
    <3> QED  BY <1>7, <1>8, <1>11, <2>1, <3>1 DEF KeyOK
  <2>4. \A t \in Stages : Putting(t, key)' => t = s
    BY <1>10, <2>1
  <2> QED  BY <1>6, <1>7, <1>8, <1>9, <1>11, <2>3, <2>4, KeyAlone
<1>15. \A k \in Keys \ mixed' : KeyOK(k)'
  BY <1>5, <1>13, <1>14 DEF PutsInv
<1> QED  BY <1>5, <1>13, <1>15 DEF PutsInv

LEMMA CopyPuts ==
    ASSUME WorkTyped, PutsInv, NEW s \in Stages, Copy(s)
    PROVE  PutsInv'
<1>1. OnlyMoves(s) /\ ex[s].pc = "copy" /\ UNCHANGED <<mixed, got>>
  BY CopyMoves DEF Copy, history
<1>2. PICK key \in Keys : key = ex[s].key
  BY <1>1, Busy DEF Runs, InPut
<1>3. /\ disk \in Seq(Contents) /\ Len(disk) \in Nat /\ DiskOK
      /\ paths[key] \in [dst : Nat, tmp : Nat] /\ paths[key].dst \in Nat /\ paths[key].tmp \in Nat
      /\ paths[key].dst <= Len(disk) /\ paths[key].tmp <= Len(disk)
  BY <1>2, KeyTyped DEF PutsInv
<1>4. \A l : Putting(s, l) <=> l = key
  BY <1>1, <1>2 DEF Putting
<1>5. PICK fd \in 1 .. Len(disk) : fd = ex[s].fd /\ Uses(key, fd)
  BY <1>3, <1>4 DEF DiskOK, Uses
<1>6. \/ /\ disk' = [disk EXCEPT ![fd] = IF @ = "empty" THEN s ELSE "mixed"]
         /\ ex'[s].pc = "rename" /\ ex'[s].key = key /\ ex'[s].fd = fd /\ paths' = paths
      \/ ex'[s].pc = "mark" /\ disk' = disk /\ paths' = [paths EXCEPT ![key].tmp = 0]
  BY <1>2, <1>5, CopyMoves
<1>7. \A t \in Stages \ {s} : ex'[t] = ex[t] /\ \A l : Putting(t, l)' <=> Putting(t, l)
  BY <1>1, OthersPut
<1>8. \A l : Putting(s, l)' => l = key /\ ex'[s].fd = fd /\ ex'[s].pc = "rename"
  BY <1>6 DEF Putting
<1>9. disk' \in Seq(Contents) /\ Len(disk') = Len(disk) /\ \A i \in 1 .. Len(disk) : i # fd => disk'[i] = disk[i]
  <2>1. CASE disk' = disk
    BY <1>3, <2>1
  <2>2. CASE disk' = [disk EXCEPT ![fd] = IF @ = "empty" THEN s ELSE "mixed"]
    <3> DEFINE new == IF disk[fd] = "empty" THEN s ELSE "mixed"
    <3>1. new \in Contents /\ disk' = [disk EXCEPT ![fd] = new]
      BY <2>2 DEF Contents
    <3> HIDE DEF new
    <3> QED  BY <1>3, <3>1
  <2> QED  BY <1>6, <2>1, <2>2
<1> DEFINE path == IF ex'[s].pc = "rename" THEN paths[key] ELSE [dst |-> paths[key].dst, tmp |-> 0]
<1>10. /\ path \in [dst : Nat, tmp : Nat] /\ path.dst = paths[key].dst /\ path.tmp \in {0, paths[key].tmp}
       /\ paths' = [paths EXCEPT ![key] = path]
       /\ ex'[s].pc = "mark" => path.tmp = 0
  <2>1. [paths[key] EXCEPT !.tmp = 0] = [dst |-> paths[key].dst, tmp |-> 0]
    BY <1>3
  <2>2. paths \in [Keys -> [dst : Nat, tmp : Nat]]
    BY <1>3 DEF DiskOK
  <2>3. CASE ex'[s].pc = "rename"
    BY <1>3, <1>6, <2>2, <2>3
  <2>4. CASE ex'[s].pc = "mark"
    BY <1>3, <1>6, <2>1, <2>2, <2>4
  <2> QED  BY <1>6, <2>3, <2>4
<1> HIDE DEF path
<1>11. paths'[key] = path
  BY <1>3, <1>10 DEF DiskOK
<1>12. \A i \in 1 .. Len(disk) : (Uses(key, i)' => Uses(key, i)) /\ (Uses(key, i) \/ disk'[i] = disk[i])
  <2>1. ASSUME NEW i \in 1 .. Len(disk), Uses(key, i)'
        PROVE  Uses(key, i)
    <3>1. CASE \E t \in Stages : Putting(t, key)' /\ ex'[t].fd = i
      <4>1. PICK t \in Stages : Putting(t, key)' /\ ex'[t].fd = i
        BY <3>1
      <4>2. CASE t = s
        BY <1>5, <1>8, <4>1, <4>2
      <4>3. CASE t # s
        BY <1>7, <4>1, <4>3 DEF Uses
      <4> QED  BY <4>2, <4>3
    <3>2. CASE path.dst = i \/ path.tmp = i
      BY <1>10, <3>2 DEF Uses
    <3> QED  BY <1>11, <2>1, <3>1, <3>2 DEF Uses
  <2> QED  BY <1>5, <1>9, <2>1
<1>13. DiskOK' /\ \A l \in Keys \ {key} : KeyOK(l) => KeyOK(l)'
  <2>1. path.dst <= Len(disk') /\ path.tmp <= Len(disk') /\ Len(disk') \in Nat /\ Len(disk) <= Len(disk')
    BY <1>3, <1>9, <1>10
  <2>2. \A l \in Keys \ {key} : ~Putting(s, l) /\ ~Putting(s, l)'
    BY <1>4, <1>8
  <2>3. Putting(s, key)' => ex'[s].fd \in 1 .. Len(disk')
    BY <1>8, <1>9
  <2>4. path \in [dst : Nat, tmp : Nat] /\ paths' = [paths EXCEPT ![key] = path] /\ disk' \in Seq(Contents)
    BY <1>9, <1>10
  <2> QED  BY <1>1, <1>3, <1>12, <2>1, <2>2, <2>3, <2>4, DiskKept
<1>14. ASSUME key \notin mixed
       PROVE  KeyOK(key)'
  <2>1. KeyOK(key)
    BY <1>14 DEF PutsInv
  <2>2. fd = paths[key].tmp /\ disk[fd] = "empty" /\ \A t \in Stages : Putting(t, key) => t = s
    BY <1>1, <1>4, <1>5, <2>1 DEF KeyOK
  <2>3. paths'[key].dst # 0 => disk'[paths'[key].dst] \in Stages /\ paths'[key].dst # paths'[key].tmp
    <3>1. paths[key].dst # 0 => /\ paths[key].dst \in 1 .. Len(disk) /\ disk[paths[key].dst] \in Stages
                                /\ paths[key].dst # paths[key].tmp
      BY <1>3, <2>1 DEF KeyOK
    <3> QED  BY <1>9, <1>10, <1>11, <2>2, <3>1
  <2>4. \A t \in Stages : Putting(t, key)' => t = s
    BY <1>7, <2>2
  <2>5. CASE ex'[s].pc = "mark"
    <3>1. ~Putting(s, key)' /\ paths'[key].tmp = 0
      BY <1>8, <1>10, <1>11, <2>5
    <3> QED  BY <2>3, <2>4, <3>1, KeyAlone
  <2>6. CASE ex'[s].pc = "rename"
    <3>1. /\ disk' = [disk EXCEPT ![fd] = IF @ = "empty" THEN s ELSE "mixed"]
          /\ ex'[s].key = key /\ ex'[s].fd = fd /\ paths' = paths
      BY <1>6, <2>6
    <3>2. disk'[fd] = s
      BY <1>3, <2>2, <3>1
    <3>3. Putting(s, key)'
      BY <2>6, <3>1 DEF Putting
    <3> QED  BY <2>2, <2>3, <2>4, <2>6, <3>1, <3>2, <3>3, KeyAlone
  <2> QED  BY <1>6, <2>5, <2>6
<1>15. \A k \in Keys \ mixed' : KeyOK(k)'
  BY <1>1, <1>13, <1>14 DEF PutsInv
<1> QED  BY <1>1, <1>13, <1>15 DEF PutsInv

LEMMA RenamePuts ==
    ASSUME WorkTyped, PutsInv, NEW s \in Stages, Rename(s)
    PROVE  PutsInv'
<1>1. OnlyMoves(s) /\ ex[s].pc = "rename" /\ ex'[s].pc \in {"mark", "create"} /\ UNCHANGED <<disk, mixed, got>>
  BY RenameMoves DEF Rename, history
<1>2. PICK key \in Keys : key = ex[s].key
  BY <1>1, Busy DEF Runs, InPut
<1>3. /\ disk \in Seq(Contents) /\ Len(disk) \in Nat /\ DiskOK
      /\ paths[key] \in [dst : Nat, tmp : Nat] /\ paths[key].dst \in Nat /\ paths[key].tmp \in Nat
      /\ paths[key].dst <= Len(disk) /\ paths[key].tmp <= Len(disk)
  BY <1>2, KeyTyped DEF PutsInv
<1>4. \A l : (Putting(s, l) <=> l = key) /\ ~Putting(s, l)'
  BY <1>1, <1>2 DEF Putting
<1>5. \A t \in Stages \ {s} : ex'[t] = ex[t] /\ \A l : Putting(t, l)' <=> Putting(t, l)
  BY <1>1, OthersPut
<1> DEFINE path == IF paths[key].tmp = 0 THEN paths[key] ELSE [dst |-> paths[key].tmp, tmp |-> 0]
<1>6. /\ path \in [dst : Nat, tmp : Nat] /\ path.tmp = 0
      /\ path.dst = IF paths[key].tmp = 0 THEN paths[key].dst ELSE paths[key].tmp
      /\ paths' = [paths EXCEPT ![key] = path]
  <2>1. paths \in [Keys -> [dst : Nat, tmp : Nat]]
    BY <1>3 DEF DiskOK
  <2> QED  BY <1>2, <1>3, <2>1, RenameMoves
<1> HIDE DEF path
<1>7. paths'[key] = path
  BY <1>3, <1>6 DEF DiskOK
<1>8. \A i \in 1 .. Len(disk) : Uses(key, i)' => Uses(key, i)
  <2>1. ASSUME NEW i \in 1 .. Len(disk), Uses(key, i)'
        PROVE  Uses(key, i)
    <3>1. CASE \E t \in Stages : Putting(t, key)' /\ ex'[t].fd = i
      BY <1>4, <1>5, <3>1 DEF Uses
    <3>2. CASE path.dst = i \/ path.tmp = i
      BY <1>6, <3>2 DEF Uses
    <3> QED  BY <1>7, <2>1, <3>1, <3>2 DEF Uses
  <2> QED  BY <2>1
<1>9. DiskOK' /\ \A l \in Keys \ {key} : KeyOK(l) => KeyOK(l)'
  <2>1. path.dst <= Len(disk') /\ path.tmp <= Len(disk') /\ Len(disk') \in Nat /\ Len(disk) <= Len(disk')
        /\ disk' \in Seq(Contents) /\ \A i \in 1 .. Len(disk) : disk'[i] = disk[i]
    BY <1>1, <1>3, <1>6
  <2> QED  BY <1>1, <1>3, <1>4, <1>6, <1>8, <2>1, DiskKept
<1>10. ASSUME key \notin mixed
       PROVE  KeyOK(key)'
  <2>1. KeyOK(key)
    BY <1>10 DEF PutsInv
  <2>2. /\ \A t \in Stages : Putting(t, key) => t = s
        /\ ex[s].fd = paths[key].tmp /\ disk[ex[s].fd] \in Stages
        /\ paths[key].dst # 0 => disk[paths[key].dst] \in Stages
    BY <1>1, <1>4, <2>1 DEF KeyOK
  <2>3. paths'[key].dst # 0 => disk'[paths'[key].dst] \in Stages /\ paths'[key].dst # paths'[key].tmp
    BY <1>1, <1>6, <1>7, <2>2
  <2>4. \A t \in Stages : Putting(t, key)' => t = s
    BY <1>5, <2>2
  <2> QED  BY <1>4, <1>6, <1>7, <2>3, <2>4, KeyAlone
<1>11. \A k \in Keys \ mixed' : KeyOK(k)'
  BY <1>1, <1>9, <1>10 DEF PutsInv
<1> QED  BY <1>1, <1>9, <1>11 DEF PutsInv

\* What a download unpacks is the file at the path of its key.
LEMMA StartPuts ==
    ASSUME WorkTyped, PutsInv, NEW s \in Stages, StepStart(s)
    PROVE  PutsInv'
<1>1. OnlyMoves(s) /\ ex[s].pc = "step" /\ ex'[s].pc \in {"mark", "create"} /\ UNCHANGED <<paths, disk, mixed>>
  BY StepStartMoves DEF StepStart
<1>2. DOMAIN got' = Stages /\ (mixed = {} => \A t \in Stages : got'[t] \in Stages \cup {""})
  <2>1. CASE UNCHANGED got
    BY <2>1 DEF PutsInv
  <2>2. CASE DownloadArtifact(s) /\ ~UNCHANGED got
    <3>1. PICK key \in Keys : paths[key].dst # 0 /\ got' = [got EXCEPT ![s] = disk[paths[key].dst]]
      BY <2>2 DEF DownloadArtifact, Unpack
    <3>2. mixed = {} => disk[paths[key].dst] \in Stages
      BY <3>1 DEF PutsInv, KeyOK
    <3> QED  BY <3>1, <3>2 DEF PutsInv
  <2> QED  BY <2>1, <2>2 DEF StepStart
<1> QED  BY <1>1, <1>2, PutsQuiet DEF Putting

LEMMA PutsKeep ==
    ASSUME WorkTyped, PutsInv, [Next]_vars
    PROVE  PutsInv'
<1> DEFINE Same(s) == OnlyMoves(s) /\ UNCHANGED <<paths, disk, got>>
                      /\ ex[s].pc \notin {"copy", "rename"} /\ ex'[s].pc \notin {"copy", "rename"}
<1>1. ASSUME NEW s \in Stages, Same(s), mixed' = mixed
      PROVE  PutsInv'
  <2>1. \A k : ~Putting(s, k) /\ ~Putting(s, k)'
    BY <1>1 DEF Putting
  <2>2. DOMAIN got' = Stages /\ (mixed' = {} => \A t \in Stages : got'[t] \in Stages \cup {""})
    BY <1>1 DEF PutsInv
  <2> QED  BY <1>1, <2>1, <2>2, PutsQuiet
<1>2. ASSUME NEW s \in Stages, Begin(s)
      PROVE  PutsInv'
  <2>1. UNCHANGED <<paths, disk, got, mixed>>
    BY <1>2 DEF Begin
  <2> QED  BY <1>1, <1>2, <2>1, BeginMoves
<1>3. ASSUME NEW s \in Stages, StepEnd(s)
      PROVE  PutsInv'
  <2>1. ex[s].pc = "mark" /\ ex'[s].pc \in {"report", "step"} /\ OnlyMoves(s)
    BY <1>3, StepEndMoves
  <2> QED  BY <1>1, <1>3, <2>1 DEF StepEnd
<1>4. ASSUME NEW s \in Stages, Resolved(s)
      PROVE  PutsInv'
  <2>1. UNCHANGED <<paths, disk, got, mixed>>
    BY <1>4 DEF Resolved, history
  <2>2. ex[s].pc = "step" /\ ex'[s].pc \in {"report", "load"} /\ OnlyMoves(s)
    BY <1>4, ResolvedMoves
  <2> QED  BY <1>1, <2>1, <2>2
<1>5. ASSUME NEW s \in Stages, SetLoad(s)
      PROVE  PutsInv'
  <2>1. UNCHANGED <<paths, disk, got, mixed>>
    BY <1>5 DEF SetLoad
  <2> QED  BY <1>1, <1>5, <2>1, SetLoadMoves
<1>6. ASSUME NEW s \in Stages, SetTruncate(s) \/ SetWrite(s)
      PROVE  PutsInv'
  <2>1. UNCHANGED <<paths, disk, got, mixed>>
    BY <1>6 DEF SetTruncate, SetWrite, history
  <2>2. ex[s].pc \in {"trunc", "write"} /\ ex'[s].pc \in {"write", "report"} /\ OnlyMoves(s)
    BY <1>6, SetTruncateMoves, SetWriteMoves
  <2> QED  BY <1>1, <2>1, <2>2
<1>7. ASSUME NEW s \in Stages, Report(s)
      PROVE  PutsInv'
  BY <1>1, <1>7, ReportMoves DEF Report, history
<1>8. ASSUME NEW s \in Stages, Crash(s)
      PROVE  PutsInv'
  <2>1. /\ UNCHANGED <<paths, disk, got>>
        /\ mixed' = IF ex[s].pc \in {"copy", "rename"} THEN mixed \cup {ex[s].key} ELSE mixed
    BY <1>8 DEF Crash
  <2>2. mixed \subseteq mixed' /\ \A k \in Keys : Putting(s, k) => k \in mixed'
    BY <2>1 DEF Putting
  <2>3. OnlyMoves(s) /\ \A k : ~Putting(s, k)'
    BY <1>8, CrashMoves DEF Putting
  <2>4. DOMAIN got' = Stages /\ (mixed' = {} => \A t \in Stages : got'[t] \in Stages \cup {""})
    BY <2>1, <2>2 DEF PutsInv
  <2> QED  BY <2>1, <2>2, <2>3, <2>4, PutsQuiet
<1>9. ASSUME UNCHANGED <<ex, paths, disk, mixed, got>>
      PROVE  PutsInv'
  <2>1. \A t, k : Putting(t, k)' <=> Putting(t, k)
    BY <1>9 DEF Putting
  <2>2. \A k, i : Uses(k, i)' <=> Uses(k, i)
    BY <1>9, <2>1 DEF Uses
  <2>3. DiskOK'
    BY <1>9, <2>1, <2>2 DEF PutsInv, DiskOK
  <2>4. \A k \in Keys : KeyOK(k)' <=> KeyOK(k)
    BY <1>9, <2>1 DEF KeyOK
  <2> QED  BY <1>9, <2>3, <2>4 DEF PutsInv
<1>10. CASE RunEnds
  BY <1>9, <1>10 DEF RunEnds, history
<1>11. CASE UNCHANGED vars
  BY <1>9, <1>11 DEF vars, state, history
<1> QED  BY <1>2, <1>3, <1>4, <1>5, <1>6, <1>7, <1>8, <1>10, <1>11, NextSteps, StartPuts, CreatePuts,
            CopyPuts, RenamePuts DEF WorkerStep, Works

LEMMA PutsStart ==
    ASSUME Init
    PROVE  PutsInv
<1>1. /\ paths = [k \in Keys |-> NoPath] /\ disk = <<>> /\ mixed = {} /\ got = [s \in Stages |-> ""]
      /\ \A s \in Stages : ex[s].pc = "idle"
  BY IdleOK DEF Init
<1>2. \A k \in Keys : paths[k].dst = 0 /\ paths[k].tmp = 0 /\ \A t \in Stages : ~Putting(t, k)
  BY <1>1 DEF NoPath, Putting
<1>3. disk \in Seq(Contents) /\ Len(disk) = 0
  <2>1. <<>> \in Seq(Contents) /\ Len(<<>>) = 0
    OBVIOUS
  <2> QED  BY <1>1, <2>1
<1>4. \A i \in 1 .. Len(disk) : FALSE
  BY <1>3
<1>5. paths \in [Keys -> [dst : Nat, tmp : Nat]]
  BY <1>1 DEF NoPath
<1>6. DiskOK
  BY <1>2, <1>3, <1>4, <1>5 DEF DiskOK
<1> QED  BY <1>1, <1>2, <1>6 DEF PutsInv, KeyOK

\* What stands under a key, and what a download unpacks, is the whole of what
\* one upload packed, for any number of stages that upload to it one after the
\* other, repetitions included (LocalFS.Put, Unpack), unless two Puts of the key
\* overlapped or one was cut short.
THEOREM ArtifactsAreWhole == Spec => []ArtifactWhole
<1>1. Init => WorkTyped /\ PutsInv
  BY WorkStarts, PutsStart
<1>2. WorkTyped /\ PutsInv /\ [Next]_vars => (WorkTyped /\ PutsInv)'
  BY WorkKeeps, PutsKeep
<1>3. PutsInv => ArtifactWhole
  BY DEF PutsInv, KeyOK, ArtifactWhole
<1> QED  BY <1>1, <1>2, <1>3, PTL DEF Spec

-----------------------------------------------------------------------------
(* RunLogs: sequences of ids                                               *)

\* Ids up to n in the order of the appends.
IsLog(s, n) ==
    /\ s \in Seq(1 .. n)
    /\ \A i, j \in 1 .. Len(s) : i < j => s[i] < s[j]

\* The place in the log s up to which the ids are at most id.
SplitsAt(s, id, n) ==
    /\ n \in 0 .. Len(s)
    /\ n > 0 => s[n] <= id
    /\ n < Len(s) => s[n + 1] > id

LEMMA LogTyped ==
    ASSUME NEW last0 \in Nat, NEW s, IsLog(s, last0)
    PROVE  /\ Len(s) \in Nat /\ DOMAIN s = 1 .. Len(s)
           /\ \A i \in 1 .. Len(s) : s[i] \in 1 .. last0 /\ s[i] \in Nat
           /\ \A i, j \in 1 .. Len(s) : i < j => s[i] < s[j]
           /\ \A i, j \in 1 .. Len(s) : s[i] <= s[j] => i <= j
           /\ \A e : e \in Range(s) <=> \E i \in 1 .. Len(s) : s[i] = e
<1>1. s \in Seq(1 .. last0) /\ \A i, j \in 1 .. Len(s) : i < j => s[i] < s[j]
  BY DEF IsLog
<1>2. Len(s) \in Nat /\ DOMAIN s = 1 .. Len(s) /\ \A i \in 1 .. Len(s) : s[i] \in 1 .. last0
  BY <1>1
<1>3. \A i \in 1 .. Len(s) : s[i] \in Nat
  BY <1>2
<1>4. \A i, j \in 1 .. Len(s) : s[i] <= s[j] => i <= j
  BY <1>1, <1>2, <1>3
<1>5. \A e : e \in Range(s) <=> \E i \in 1 .. Len(s) : s[i] = e
  BY <1>2 DEF Range
<1> QED  BY <1>1, <1>2, <1>3, <1>4, <1>5

LEMMA EmptyLog ==
    ASSUME NEW last0 \in Nat, NEW s, IsLog(s, last0)
    PROVE  /\ (\A e : e \notin Range(s)) => s = <<>>
           /\ Len(s) = 0 => s = <<>>
<1>1. s \in Seq(1 .. last0) /\ Len(s) \in Nat
  BY LogTyped DEF IsLog
<1>2. Len(s) = 0 => s = <<>>
  BY <1>1
<1>3. ASSUME Len(s) # 0
      PROVE  s[1] \in Range(s)
  <2>1. 1 \in 1 .. Len(s)
    BY <1>1, <1>3
  <2> QED  BY <2>1, LogTyped
<1> QED  BY <1>2, <1>3

LEMMA AfterIs ==
    ASSUME NEW last0 \in Nat, NEW s, IsLog(s, last0), NEW id \in Nat, NEW n, SplitsAt(s, id, n)
    PROVE  /\ After(s, id) = SubSeq(s, n + 1, Len(s))
           /\ \A i \in 1 .. Len(s) : s[i] > id <=> i > n
<1>1. /\ Len(s) \in Nat /\ \A i \in 1 .. Len(s) : s[i] \in Nat
      /\ \A i, j \in 1 .. Len(s) : i < j => s[i] < s[j]
  BY LogTyped
<1>2. ASSUME NEW m, SplitsAt(s, id, m), NEW i \in 1 .. Len(s)
      PROVE  s[i] > id <=> i > m
  <2>1. m \in Nat /\ m <= Len(s) /\ i \in Nat
    BY <1>1, <1>2 DEF SplitsAt
  <2>2. CASE i > m
    <3>1. m + 1 \in 1 .. Len(s) /\ s[m + 1] > id
      BY <1>1, <1>2, <2>1, <2>2 DEF SplitsAt
    <3>2. m + 1 = i \/ s[m + 1] < s[i]
      BY <1>1, <2>1, <2>2, <3>1
    <3> QED  BY <1>1, <2>2, <3>1, <3>2
  <2>3. CASE ~(i > m)
    <3>1. m \in 1 .. Len(s) /\ s[m] <= id
      BY <1>1, <1>2, <2>1, <2>3 DEF SplitsAt
    <3>2. i = m \/ s[i] < s[m]
      BY <1>1, <2>1, <2>3, <3>1
    <3>3. s[i] <= id /\ s[i] \in Nat
      BY <1>1, <3>1, <3>2
    <3> QED  BY <2>3, <3>3
  <2> QED  BY <2>2, <2>3
<1> DEFINE P(m) == (m > 0 => s[m] <= id) /\ (m < Len(s) => s[m + 1] > id)
           k == CHOOSE m \in 0 .. Len(s) : P(m)
<1>3. k \in 0 .. Len(s) /\ P(k)
  <2>1. n \in 0 .. Len(s) /\ P(n)
    BY DEF SplitsAt
  <2> QED  BY <2>1
<1>4. After(s, id) = SubSeq(s, k + 1, Len(s))
  BY DEF After
<1>5. SplitsAt(s, id, k)
  BY <1>3 DEF SplitsAt
<1> HIDE DEF k
<1>6. k = n
  <2>1. k \in Nat /\ n \in Nat /\ k <= Len(s) /\ n <= Len(s)
    BY <1>1, <1>3 DEF SplitsAt
  <2>2. CASE k < n
    <3>1. n \in 1 .. Len(s) /\ n > k /\ ~(n > n)
      BY <1>1, <2>1, <2>2
    <3> QED  BY <1>2, <1>5, <3>1
  <2>3. CASE n < k
    <3>1. k \in 1 .. Len(s) /\ k > n /\ ~(k > k)
      BY <1>1, <2>1, <2>3
    <3> QED  BY <1>2, <1>5, <3>1
  <2> QED  BY <2>1, <2>2, <2>3
<1> QED  BY <1>2, <1>4, <1>6

\* What comes after an id is a log, of the entries with a larger one.
LEMMA AfterHas ==
    ASSUME NEW last0 \in Nat, NEW s, IsLog(s, last0), NEW id \in Nat, NEW n, SplitsAt(s, id, n)
    PROVE  /\ IsLog(After(s, id), last0)
           /\ \A e : e \in Range(After(s, id)) <=> e \in Range(s) /\ e > id
<1> DEFINE t == SubSeq(s, n + 1, Len(s))
<1>1. After(s, id) = t /\ \A i \in 1 .. Len(s) : s[i] > id <=> i > n
  BY AfterIs
<1>2. /\ Len(s) \in Nat /\ n \in Nat /\ n <= Len(s) /\ s \in Seq(1 .. last0)
      /\ \A i, j \in 1 .. Len(s) : i < j => s[i] < s[j]
      /\ \A e : e \in Range(s) <=> \E i \in 1 .. Len(s) : s[i] = e
  BY LogTyped DEF SplitsAt, IsLog
<1>3. t \in Seq(1 .. last0) /\ Len(t) = Len(s) - n /\ \A i \in 1 .. Len(t) : t[i] = s[n + i] /\ n + i \in 1 .. Len(s)
  <2>1. \A i \in n + 1 .. Len(s) : s[i] \in 1 .. last0
    BY <1>2
  <2>2. Len(t) = Len(s) - n
    BY <1>2
  <2>3. \A i \in 1 .. Len(s) - n : t[i] = s[n + i] /\ n + i \in 1 .. Len(s)
    BY <1>2
  <2>4. t \in Seq(1 .. last0)
    BY <1>2, <2>1
  <2> QED  BY <2>2, <2>3, <2>4
<1> HIDE DEF t
<1>4. IsLog(t, last0)
  <2>1. ASSUME NEW i \in 1 .. Len(t), NEW j \in 1 .. Len(t), i < j
        PROVE  t[i] < t[j]
    <3>1. n + i \in 1 .. Len(s) /\ n + j \in 1 .. Len(s) /\ n + i < n + j
      BY <1>2, <1>3, <2>1
    <3> QED  BY <1>2, <1>3, <3>1
  <2> QED  BY <1>3, <2>1 DEF IsLog
<1>5. ASSUME NEW e
      PROVE  e \in Range(t) <=> e \in Range(s) /\ e > id
  <2>1. ASSUME e \in Range(t)
        PROVE  e \in Range(s) /\ e > id
    <3>1. PICK i \in 1 .. Len(t) : t[i] = e
      BY <1>4, <2>1, LogTyped
    <3>2. n + i \in 1 .. Len(s) /\ n + i > n /\ s[n + i] = e
      BY <1>2, <1>3, <3>1
    <3> QED  BY <1>1, <1>2, <3>2
  <2>2. ASSUME e \in Range(s), e > id
        PROVE  e \in Range(t)
    <3>1. PICK i \in 1 .. Len(s) : s[i] = e /\ i > n
      BY <1>1, <1>2, <2>2
    <3>2. i - n \in 1 .. Len(t) /\ n + (i - n) = i
      BY <1>2, <1>3, <3>1
    <3>3. t[i - n] = e
      BY <1>3, <3>1, <3>2
    <3> QED  BY <1>4, <3>2, <3>3, LogTyped
  <2> QED  BY <2>1, <2>2
<1> QED  BY <1>1, <1>4, <1>5

\* The first entries of a log are a log, and have all entries up to each of them.
LEMMA FirstHas ==
    ASSUME NEW last0 \in Nat, NEW s, IsLog(s, last0), NEW n \in Nat
    PROVE  /\ IsLog(First(s, n), last0)
           /\ Len(First(s, n)) = IF Len(s) < n THEN Len(s) ELSE n
           /\ \A i \in 1 .. Len(First(s, n)) : i \in 1 .. Len(s) /\ First(s, n)[i] = s[i]
<1> DEFINE m == IF Len(s) < n THEN Len(s) ELSE n
           t == SubSeq(s, 1, m)
<1>1. /\ Len(s) \in Nat /\ s \in Seq(1 .. last0) /\ \A i, j \in 1 .. Len(s) : i < j => s[i] < s[j]
  BY LogTyped DEF IsLog
<1>2. m \in Nat /\ m <= Len(s)
  BY <1>1
<1>3. First(s, n) = t /\ m = IF Len(s) < n THEN Len(s) ELSE n
  BY DEF First
<1> HIDE DEF m
<1>4. t \in Seq(1 .. last0) /\ Len(t) = m /\ \A i \in 1 .. m : i \in 1 .. Len(s) /\ t[i] = s[i]
  <2>1. \A i \in 1 .. m : s[i] \in 1 .. last0 /\ i \in 1 .. Len(s)
    BY <1>1, <1>2
  <2>2. Len(t) = m /\ \A i \in 1 .. m : t[i] = s[i]
    BY <1>1, <1>2
  <2>3. t \in Seq(1 .. last0)
    BY <1>1, <1>2, <2>1
  <2> QED  BY <2>1, <2>2, <2>3
<1> HIDE DEF t
<1>5. IsLog(t, last0)
  BY <1>1, <1>4 DEF IsLog
<1> QED  BY <1>3, <1>4, <1>5

LEMMA FirstSeen ==
    ASSUME NEW last0 \in Nat, NEW s, IsLog(s, last0), NEW n \in Nat,
           NEW i \in 1 .. Len(First(s, n)), NEW e \in Range(s), e <= First(s, n)[i]
    PROVE  e \in Range(First(s, i)) /\ e \in Range(First(s, n))
<1>1. PICK j \in 1 .. Len(s) : s[j] = e
  BY LogTyped
<1>2. i \in 1 .. Len(s) /\ First(s, n)[i] = s[i] /\ i \in Nat /\ Len(s) \in Nat
  BY FirstHas, LogTyped
<1>3. j <= i
  BY <1>1, <1>2, LogTyped
<1>4. j \in 1 .. Len(First(s, i)) /\ j \in 1 .. Len(First(s, n))
  BY <1>1, <1>2, <1>3, FirstHas
<1>5. First(s, i)[j] = e /\ First(s, n)[j] = e
  BY <1>1, <1>2, <1>4, FirstHas
<1> QED  BY <1>2, <1>4, <1>5, FirstHas, LogTyped

\* A page of the entries read, which are one more: again the first of the log.
LEMMA FirstFirst ==
    ASSUME NEW last0 \in Nat, NEW s, IsLog(s, last0), NEW n \in Nat
    PROVE  LET t == First(First(s, n + 1), n)
           IN  /\ IsLog(t, last0)
               /\ Len(t) = IF Len(s) < n THEN Len(s) ELSE n
               /\ \A i \in 1 .. Len(t) : i \in 1 .. Len(s) /\ t[i] = s[i] /\ First(s, n + 1)[i] = s[i]
<1> DEFINE r == First(s, n + 1)
           t == First(r, n)
<1>1. /\ IsLog(r, last0) /\ Len(r) = IF Len(s) < n + 1 THEN Len(s) ELSE n + 1
      /\ \A i \in 1 .. Len(r) : i \in 1 .. Len(s) /\ r[i] = s[i]
  <2>1. n + 1 \in Nat
    OBVIOUS
  <2> QED  BY <2>1, FirstHas
<1> HIDE DEF r
<1>2. /\ IsLog(t, last0) /\ Len(t) = IF Len(r) < n THEN Len(r) ELSE n
      /\ \A i \in 1 .. Len(t) : i \in 1 .. Len(r) /\ t[i] = r[i]
  BY <1>1, FirstHas
<1> HIDE DEF t
<1>3. Len(s) \in Nat
  BY LogTyped
<1>4. Len(t) = IF Len(s) < n THEN Len(s) ELSE n
  BY <1>1, <1>2, <1>3
<1>5. \A i \in 1 .. Len(t) : i \in 1 .. Len(s) /\ t[i] = s[i] /\ r[i] = s[i]
  BY <1>1, <1>2
<1> QED  BY <1>2, <1>4, <1>5 DEF r, t

\* A part of a log from its start has all entries up to each of its own.
LEMMA PrefixSeen ==
    ASSUME NEW last0 \in Nat, NEW s, IsLog(s, last0), NEW t, IsLog(t, last0),
           \A i \in 1 .. Len(t) : i \in 1 .. Len(s) /\ t[i] = s[i],
           NEW i \in 1 .. Len(t), NEW e \in Range(s), e <= t[i]
    PROVE  e \in Range(t)
<1>1. PICK j \in 1 .. Len(s) : s[j] = e
  BY LogTyped
<1>2. j <= i /\ j \in Nat /\ i \in Nat /\ Len(t) \in Nat
  BY <1>1, LogTyped
<1>3. j \in 1 .. Len(t)
  BY <1>1, <1>2
<1>4. t[j] = e
  BY <1>1, <1>3
<1> QED  BY <1>3, <1>4, LogTyped

LEMMA ConcatLog ==
    ASSUME NEW last0 \in Nat, NEW s, IsLog(s, last0), NEW t, IsLog(t, last0),
           \A i \in 1 .. Len(s), j \in 1 .. Len(t) : s[i] < t[j]
    PROVE  /\ IsLog(s \o t, last0)
           /\ \A e : e \in Range(s \o t) <=> e \in Range(s) \/ e \in Range(t)
<1>1. /\ s \in Seq(1 .. last0) /\ t \in Seq(1 .. last0) /\ Len(s) \in Nat /\ Len(t) \in Nat
      /\ \A i, j \in 1 .. Len(s) : i < j => s[i] < s[j]
      /\ \A i, j \in 1 .. Len(t) : i < j => t[i] < t[j]
  BY LogTyped DEF IsLog
<1> DEFINE u == s \o t
<1>2. /\ u \in Seq(1 .. last0) /\ Len(u) = Len(s) + Len(t)
      /\ \A i \in 1 .. Len(s) : u[i] = s[i]
      /\ \A i \in 1 .. Len(t) : u[Len(s) + i] = t[i]
  <2>1. u \in Seq(1 .. last0) /\ Len(u) = Len(s) + Len(t)
    BY <1>1
  <2>2. \A i \in 1 .. Len(s) : u[i] = s[i]
    BY <1>1
  <2>3. \A i \in 1 .. Len(t) : u[Len(s) + i] = t[i]
    BY <1>1
  <2> QED  BY <2>1, <2>2, <2>3
<1> HIDE DEF u
<1>3. \A i \in 1 .. Len(u) : i \in 1 .. Len(s) \/ (i - Len(s) \in 1 .. Len(t) /\ u[i] = t[i - Len(s)])
  <2>1. ASSUME NEW i \in 1 .. Len(u), i \notin 1 .. Len(s)
        PROVE  i - Len(s) \in 1 .. Len(t) /\ u[i] = t[i - Len(s)]
    <3>1. i - Len(s) \in 1 .. Len(t) /\ Len(s) + (i - Len(s)) = i
      BY <1>1, <1>2, <2>1
    <3> QED  BY <1>2, <3>1
  <2> QED  BY <2>1
<1>4. IsLog(u, last0)
  <2>1. ASSUME NEW i \in 1 .. Len(u), NEW j \in 1 .. Len(u), i < j
        PROVE  u[i] < u[j]
    <3>1. CASE j \in 1 .. Len(s)
      <4>1. i \in 1 .. Len(s)
        BY <1>1, <2>1, <3>1
      <4> QED  BY <1>1, <1>2, <2>1, <3>1, <4>1
    <3>2. CASE j \notin 1 .. Len(s) /\ i \in 1 .. Len(s)
      BY <1>2, <1>3, <3>2
    <3>3. CASE j \notin 1 .. Len(s) /\ i \notin 1 .. Len(s)
      <4>1. i - Len(s) < j - Len(s)
        BY <1>1, <2>1
      <4> QED  BY <1>1, <1>3, <3>3, <4>1
    <3> QED  BY <3>1, <3>2, <3>3
  <2> QED  BY <1>2, <2>1 DEF IsLog
<1>5. ASSUME NEW e
      PROVE  e \in Range(u) <=> e \in Range(s) \/ e \in Range(t)
  <2>1. ASSUME e \in Range(u)
        PROVE  e \in Range(s) \/ e \in Range(t)
    <3>1. PICK i \in 1 .. Len(u) : u[i] = e
      BY <1>4, <2>1, LogTyped
    <3>2. CASE i \in 1 .. Len(s)
      BY <1>2, <3>1, <3>2, LogTyped
    <3>3. CASE i \notin 1 .. Len(s)
      BY <1>3, <3>1, <3>3, LogTyped
    <3> QED  BY <3>2, <3>3
  <2>2. ASSUME e \in Range(s)
        PROVE  e \in Range(u)
    <3>1. PICK i \in 1 .. Len(s) : s[i] = e
      BY <2>2, LogTyped
    <3>2. i \in 1 .. Len(u)
      BY <1>1, <1>2, <3>1
    <3> QED  BY <1>2, <1>4, <3>1, <3>2, LogTyped
  <2>3. ASSUME e \in Range(t)
        PROVE  e \in Range(u)
    <3>1. PICK i \in 1 .. Len(t) : t[i] = e
      BY <2>3, LogTyped
    <3>2. Len(s) + i \in 1 .. Len(u)
      BY <1>1, <1>2, <3>1
    <3> QED  BY <1>2, <1>4, <3>1, <3>2, LogTyped
  <2> QED  BY <2>1, <2>2, <2>3
<1> QED  BY <1>4, <1>5 DEF u

\* A page of the archiver.  The log s has been read up to id into o; a page of m
\* entries, read with one more, is added.
LEMMA PageIs ==
    ASSUME NEW last0 \in Nat, NEW s, IsLog(s, last0), s # <<>>, NEW o, IsLog(o, last0),
           NEW id \in 0 .. last0, NEW k, SplitsAt(s, id, k), NEW m \in Nat, m >= 1,
           \A i \in 1 .. Len(o) : o[i] <= id,
           \A e \in Range(s) : e <= id => e \in Range(o)
    PROVE  LET r == First(After(s, id), m + 1)
               t == First(r, m)
           IN  /\ IsLog(o \o t, last0)
               /\ Len(r) > m =>
                      /\ r[m] \in 0 .. last0
                      /\ \A i \in 1 .. Len(o \o t) : (o \o t)[i] <= r[m]
                      /\ \A e \in Range(s) : e <= r[m] => e \in Range(o \o t)
               /\ ~(Len(r) > m) =>
                      /\ o \o t # <<>>
                      /\ \A e \in Range(s) : e \in Range(o \o t)
<1> DEFINE a == After(s, id)
           r == First(a, m + 1)
           t == First(r, m)
           u == o \o t
<1>1. IsLog(a, last0) /\ \A e : e \in Range(a) <=> e \in Range(s) /\ e > id
  BY AfterHas
<1> HIDE DEF a
<1>2. /\ IsLog(t, last0) /\ Len(t) = IF Len(a) < m THEN Len(a) ELSE m
      /\ \A i \in 1 .. Len(t) : i \in 1 .. Len(a) /\ t[i] = a[i] /\ r[i] = a[i]
  BY <1>1, FirstFirst
<1>3. Len(r) = IF Len(a) < m + 1 THEN Len(a) ELSE m + 1
  <2>1. m + 1 \in Nat
    OBVIOUS
  <2> QED  BY <1>1, <2>1, FirstHas
<1> HIDE DEF t, r
<1>4. Len(a) \in Nat
  BY <1>1, LogTyped
<1>5. \A e \in Range(s) : e \in 1 .. last0
  BY LogTyped
<1>6. \A i \in 1 .. Len(t) : t[i] \in Range(a) /\ t[i] > id /\ t[i] \in Nat
  <2>1. \A i \in 1 .. Len(t) : t[i] \in Range(a)
    BY <1>1, <1>2, LogTyped
  <2> QED  BY <1>1, <1>5, <2>1
<1>7. \A i \in 1 .. Len(o), j \in 1 .. Len(t) : o[i] < t[j]
  <2>1. \A i \in 1 .. Len(o) : o[i] \in Nat
    BY LogTyped
  <2> QED  BY <1>6, <2>1
<1>8. IsLog(u, last0) /\ \A e : e \in Range(u) <=> e \in Range(o) \/ e \in Range(t)
  BY <1>2, <1>7, ConcatLog
<1> HIDE DEF u
<1>9. ASSUME Len(r) > m
      PROVE  /\ r[m] \in 0 .. last0
             /\ \A i \in 1 .. Len(u) : u[i] <= r[m]
             /\ \A e \in Range(s) : e <= r[m] => e \in Range(u)
  <2>1. Len(t) = m /\ m \in 1 .. Len(t)
    BY <1>2, <1>3, <1>4, <1>9
  <2>2. r[m] = t[m]
    BY <1>2, <2>1
  <2>3. t[m] \in 1 .. last0 /\ t[m] > id
    BY <1>2, <1>6, <2>1, LogTyped
  <2>4. \A e \in Range(o) : e <= t[m]
    <3>1. \A e \in Range(o) : e \in Nat /\ e <= id
      BY LogTyped
    <3> QED  BY <2>3, <3>1
  <2>5. \A e \in Range(t) : e <= t[m]
    <3>1. \A i \in 1 .. m : i = m \/ t[i] < t[m]
      BY <1>2, <2>1, LogTyped
    <3>2. \A i \in 1 .. m : t[i] \in Nat
      BY <1>6, <2>1
    <3>3. \A i \in 1 .. m : t[i] <= t[m]
      BY <2>1, <3>1, <3>2
    <3> QED  BY <1>2, <2>1, <3>3, LogTyped
  <2>6. \A i \in 1 .. Len(u) : u[i] <= t[m]
    BY <1>8, <2>4, <2>5, LogTyped
  <2>7. ASSUME NEW e \in Range(s), e <= t[m]
        PROVE  e \in Range(u)
    <3>1. CASE e <= id
      BY <1>8, <3>1
    <3>2. CASE ~(e <= id)
      <4>1. e \in Range(a)
        BY <1>1, <1>5, <3>2
      <4>2. e \in Range(t)
        BY <1>1, <1>2, <2>1, <2>7, <4>1, PrefixSeen
      <4> QED  BY <1>8, <4>2
    <3> QED  BY <3>1, <3>2
  <2>8. r[m] \in 0 .. last0
    BY <2>2, <2>3
  <2> QED  BY <2>2, <2>6, <2>7, <2>8
<1>10. ASSUME ~(Len(r) > m)
       PROVE  u # <<>> /\ \A e \in Range(s) : e \in Range(u)
  <2>1. Len(t) = Len(a)
    BY <1>2, <1>3, <1>4, <1>10
  <2>2. \A e \in Range(a) : e \in Range(t)
    <3>1. ASSUME NEW e \in Range(a)
          PROVE  e \in Range(t)
      <4>1. PICK i \in 1 .. Len(a) : a[i] = e
        BY <1>1, LogTyped
      <4>2. i \in 1 .. Len(t) /\ t[i] = e
        BY <1>2, <2>1, <4>1
      <4> QED  BY <1>2, <4>2, LogTyped
    <3> QED  BY <3>1
  <2>3. \A e \in Range(s) : e \in Range(u)
    <3>1. \A e \in Range(s) : e <= id \/ e > id
      BY <1>5
    <3> QED  BY <1>1, <1>8, <2>2, <3>1
  <2>4. u # <<>>
    <3>1. Len(s) \in Nat /\ s \in Seq(1 .. last0)
      BY LogTyped DEF IsLog
    <3>2. 1 \in 1 .. Len(s)
      BY <3>1
    <3>3. s[1] \in Range(u)
      BY <2>3, <3>2, LogTyped
    <3>4. PICK i \in 1 .. Len(u) : TRUE
      BY <1>8, <3>3, LogTyped
    <3>5. Len(<<>>) = 0 /\ Len(u) \in Nat
      BY <1>8, LogTyped
    <3> QED  BY <3>4, <3>5
  <2> QED  BY <2>3, <2>4
<1> QED  BY <1>8, <1>9, <1>10 DEF u, t, r, a

-----------------------------------------------------------------------------
(* RunLogs: the stream and the archive                                     *)

\* The ids of the stream follow each other up to the last one, as the cap only
\* takes the oldest.  Every entry is in the stream, in the archive or removed,
\* and a stream that was not begun after a Drop has all that the cap has left.
StreamInv ==
    /\ last \in Nat /\ stream \in Seq(Nat) /\ Len(stream) <= last
    /\ \A i \in 1 .. Len(stream) : stream[i] = last - Len(stream) + i
    /\ writer \in Seq(Builds) /\ Len(writer) = last
    /\ IsLog(archive, last)
    /\ stream = <<>> /\ archive = <<>> => last = 0
    /\ \A e \in 1 .. last : e \in Range(stream) \cup Range(archive) \cup trimmed \cup gone
    /\ late \/ stream = <<>> \/ \A e \in 1 .. last : e \in Range(stream) \cup trimmed

\* A sequence of ids that follow each other up to m.
LEMMA Consecutive ==
    ASSUME NEW m \in Nat, NEW s \in Seq(Nat), Len(s) <= m,
           \A i \in 1 .. Len(s) : s[i] = m - Len(s) + i
    PROVE  /\ IsLog(s, m)
           /\ \A e : e \in Range(s) <=> e \in 1 .. m /\ e > m - Len(s)
<1>1. Len(s) \in Nat /\ DOMAIN s = 1 .. Len(s)
  OBVIOUS
<1>2. \A i \in 1 .. Len(s) : s[i] \in 1 .. m
  <2>1. ASSUME NEW i \in 1 .. Len(s)
        PROVE  m - Len(s) + i \in 1 .. m
    BY <1>1
  <2> QED  BY <1>1, <2>1
<1>3. \A i, j \in 1 .. Len(s) : i < j => s[i] < s[j]
  <2>1. ASSUME NEW i \in 1 .. Len(s), NEW j \in 1 .. Len(s), i < j
        PROVE  m - Len(s) + i < m - Len(s) + j
    BY <1>1, <2>1
  <2> QED  BY <1>1, <2>1
<1>4. IsLog(s, m)
  BY <1>1, <1>2, <1>3 DEF IsLog
<1>5. ASSUME NEW e, e \in Range(s)
      PROVE  e \in 1 .. m /\ e > m - Len(s)
  <2>1. PICK i \in 1 .. Len(s) : s[i] = e
    BY <1>1, <1>5 DEF Range
  <2> QED  BY <1>1, <1>2, <2>1
<1>6. ASSUME NEW e \in 1 .. m, e > m - Len(s)
      PROVE  e \in Range(s)
  <2> DEFINE i == e - (m - Len(s))
  <2>1. i \in 1 .. Len(s) /\ m - Len(s) + i = e
    BY <1>1, <1>6
  <2> HIDE DEF i
  <2>2. s[i] = e
    BY <2>1
  <2> QED  BY <1>1, <2>1, <2>2 DEF Range
<1> QED  BY <1>4, <1>5, <1>6

LEMMA StreamIsLog ==
    ASSUME StreamInv
    PROVE  /\ IsLog(stream, last)
           /\ \A e : e \in Range(stream) <=> e \in 1 .. last /\ e > last - Len(stream)
BY Consecutive DEF StreamInv

\* An id up to the last one splits the stream.
LEMMA StreamSplits ==
    ASSUME StreamInv, NEW id \in 0 .. last
    PROVE  \E n : SplitsAt(stream, id, n)
<1>1. /\ last \in Nat /\ Len(stream) \in Nat /\ Len(stream) <= last /\ id \in Nat /\ id <= last
      /\ \A i \in 1 .. Len(stream) : stream[i] = last - Len(stream) + i
  BY DEF StreamInv
<1>2. CASE id <= last - Len(stream)
  <2>1. 0 < Len(stream) => stream[0 + 1] > id
    <3>1. 0 < Len(stream) => 1 \in 1 .. Len(stream)
      BY <1>1
    <3>2. 0 < Len(stream) => stream[1] = last - Len(stream) + 1
      BY <1>1, <3>1
    <3> QED  BY <1>1, <1>2, <3>2
  <2>2. SplitsAt(stream, id, 0)
    BY <1>1, <2>1 DEF SplitsAt
  <2> QED  BY <2>2
<1>3. CASE ~(id <= last - Len(stream))
  <2> DEFINE n == id - (last - Len(stream))
  <2>1. n \in 1 .. Len(stream) /\ last - Len(stream) + n = id
    BY <1>1, <1>3
  <2> HIDE DEF n
  <2>2. stream[n] = id
    BY <1>1, <2>1
  <2>3. n < Len(stream) => n + 1 \in 1 .. Len(stream) /\ last - Len(stream) + (n + 1) > id
    BY <1>1, <2>1
  <2>4. n < Len(stream) => stream[n + 1] > id
    BY <1>1, <2>3
  <2>5. SplitsAt(stream, id, n)
    BY <1>1, <2>1, <2>2, <2>4 DEF SplitsAt
  <2> QED  BY <2>5
<1> QED  BY <1>2, <1>3

\* An id that is in a log splits it.
LEMMA MemberSplits ==
    ASSUME NEW last0 \in Nat, NEW s, IsLog(s, last0), NEW id \in Range(s)
    PROVE  id \in Nat /\ \E n : SplitsAt(s, id, n)
<1>1. PICK n \in 1 .. Len(s) : s[n] = id
  BY LogTyped
<1>2. Len(s) \in Nat /\ n \in Nat /\ id \in Nat
  BY <1>1, LogTyped
<1>3. n < Len(s) => n + 1 \in 1 .. Len(s) /\ n < n + 1
  BY <1>2
<1>4. n < Len(s) => s[n + 1] > id
  BY <1>1, <1>2, <1>3, LogTyped
<1>5. SplitsAt(s, id, n)
  BY <1>1, <1>2, <1>4 DEF SplitsAt
<1> QED  BY <1>2, <1>5

LEMMA LogGrows ==
    ASSUME NEW m \in Nat, NEW n \in Nat, m <= n, NEW s, IsLog(s, m)
    PROVE  IsLog(s, n)
<1>1. 1 .. m \subseteq 1 .. n
  OBVIOUS
<1>2. s \in Seq(1 .. n)
  BY <1>1 DEF IsLog
<1> QED  BY <1>2 DEF IsLog

\* A step of the build b that adds to the log what b writes, or nothing.
Grows(b) ==
    /\ UNCHANGED <<archive, gone>>
    /\ last' \in Nat /\ last <= last'
    /\ stream # <<>> => stream' # <<>>
    /\ \A e \in Range(stream') : e \in Range(stream) \/ (e \in Nat /\ e > last /\ writer'[e] = b)
    /\ \A e \in 1 .. last : writer'[e] = writer[e]
    /\ trimmed \subseteq trimmed' /\ (late => late')

LEMMA Append1Stream ==
    ASSUME StreamInv, NEW b \in Builds, Append1(b), UNCHANGED <<archive, gone>>
    PROVE  StreamInv' /\ Grows(b)
<1> DEFINE full == Append(stream, last + 1)
           cap  == IF Len(full) > MaxLen THEN Len(full) - MaxLen ELSE 0
<1>1. /\ last \in Nat /\ stream \in Seq(Nat) /\ Len(stream) \in Nat /\ Len(stream) <= last
      /\ \A i \in 1 .. Len(stream) : stream[i] = last - Len(stream) + i
      /\ writer \in Seq(Builds) /\ Len(writer) = last
  BY DEF StreamInv
<1>2. /\ last' = last + 1 /\ writer' = Append(writer, b)
      /\ late' = (late \/ (archive # <<>> /\ stream = <<>>))
  BY DEF Append1
<1>3. PICK k \in 0 .. cap : stream' = SubSeq(full, k + 1, Len(full)) /\ trimmed' = trimmed \cup {full[i] : i \in 1 .. k}
  BY DEF Append1
<1>4. full \in Seq(Nat) /\ Len(full) = Len(stream) + 1
  BY <1>1
<1>5. k \in Nat /\ k <= Len(stream)
  <2>1. MaxLen \in Nat /\ MaxLen >= 1
    BY RunLogsAssumption
  <2> QED  BY <1>1, <1>4, <2>1
<1>6. \A i \in 1 .. Len(full) : full[i] = last - Len(stream) + i
  <2>1. ASSUME NEW i \in 1 .. Len(stream)
        PROVE  full[i] = stream[i]
    BY <1>1
  <2>2. full[Len(stream) + 1] = last + 1 /\ last + 1 = last - Len(stream) + (Len(stream) + 1)
    BY <1>1
  <2>3. \A i \in 1 .. Len(full) : i \in 1 .. Len(stream) \/ i = Len(stream) + 1
    BY <1>1, <1>4
  <2> QED  BY <1>1, <2>1, <2>2, <2>3
<1> HIDE DEF full, cap
<1>7. /\ stream' \in Seq(Nat) /\ Len(stream') = Len(stream) + 1 - k
      /\ \A i \in 1 .. Len(stream') : stream'[i] = last' - Len(stream') + i
  <2>1. stream' \in Seq(Nat) /\ Len(stream') = Len(stream) + 1 - k
    <3>1. \A i \in k + 1 .. Len(full) : full[i] \in Nat
      BY <1>1, <1>4, <1>5
    <3> QED  BY <1>1, <1>3, <1>4, <1>5, <3>1
  <2>2. ASSUME NEW i \in 1 .. Len(stream')
        PROVE  stream'[i] = last' - Len(stream') + i
    <3>1. stream'[i] = full[k + i] /\ k + i \in 1 .. Len(full)
      BY <1>1, <1>3, <1>4, <1>5, <2>1
    <3>2. last - Len(stream) + (k + i) = last' - Len(stream') + i
      BY <1>1, <1>2, <1>5, <2>1
    <3> QED  BY <1>6, <3>1, <3>2
  <2> QED  BY <2>1, <2>2
<1>8. Len(stream') \in Nat /\ Len(stream') <= last' /\ Len(stream') >= 1 /\ last' \in Nat /\ last <= last'
  BY <1>1, <1>2, <1>5, <1>7
<1>9. \A e : e \in Range(stream') <=> e \in 1 .. last' /\ e > last' - Len(stream')
  BY <1>7, <1>8, Consecutive
<1>10. \A e \in Range(stream) : e \in Range(stream') \cup trimmed'
  <2>1. ASSUME NEW e \in Range(stream), e \notin Range(stream')
        PROVE  e \in trimmed'
    <3>1. e \in 1 .. last /\ e > last - Len(stream)
      BY StreamIsLog
    <3>2. e <= last' - Len(stream')
      <4>1. e \in 1 .. last'
        BY <1>1, <1>2, <3>1
      <4>2. ~(e > last' - Len(stream'))
        BY <1>9, <2>1, <4>1
      <4> QED  BY <1>8, <4>1, <4>2
    <3> DEFINE i == e - (last - Len(stream))
    <3>3. i \in 1 .. k /\ i \in 1 .. Len(full) /\ last - Len(stream) + i = e
      <4>1. last' - Len(stream') = last - Len(stream) + k
        BY <1>1, <1>2, <1>5, <1>7
      <4> QED  BY <1>1, <1>4, <1>5, <3>1, <3>2, <4>1
    <3> HIDE DEF i
    <3>4. full[i] = e
      BY <1>6, <3>3
    <3> QED  BY <1>3, <3>3, <3>4
  <2> QED  BY <2>1
<1>11. last' \in Range(stream')
  BY <1>8, <1>9
<1>12. \A e \in 1 .. last' : e \in 1 .. last \/ e = last'
  BY <1>1, <1>2
<1>13. IsLog(archive, last')
  BY <1>1, <1>8, LogGrows DEF StreamInv
<1>14. writer' \in Seq(Builds) /\ Len(writer') = last' /\ writer'[last'] = b /\ \A e \in 1 .. last : writer'[e] = writer[e]
  BY <1>1, <1>2
<1>15. trimmed \subseteq trimmed' /\ stream' # <<>>
  <2>1. trimmed \subseteq trimmed'
    BY <1>3
  <2>2. stream' # <<>>
    BY <1>8
  <2> QED  BY <2>1, <2>2
<1>16. \A e \in 1 .. last' : e \in Range(stream') \cup Range(archive') \cup trimmed' \cup gone'
  BY <1>10, <1>11, <1>12, <1>15 DEF StreamInv
<1>17. late' \/ \A e \in 1 .. last' : e \in Range(stream') \cup trimmed'
  <2>1. CASE late' \/ stream = <<>> \/ \A e \in 1 .. last : e \in Range(stream) \cup trimmed
    <3>1. ~late' /\ stream = <<>> => last = 0
      BY <1>2 DEF StreamInv
    <3> QED  BY <1>1, <1>10, <1>11, <1>12, <1>15, <2>1, <3>1
  <2> QED  BY <1>2, <2>1 DEF StreamInv
<1>18. \A e \in Range(stream') : e \in Range(stream) \/ (e \in Nat /\ e > last /\ writer'[e] = b)
  <2>1. ASSUME NEW e \in Range(stream'), e # last'
        PROVE  e \in Range(stream)
    <3>1. e \in 1 .. last /\ e > last' - Len(stream')
      BY <1>9, <1>12, <2>1
    <3>2. e > last - Len(stream)
      BY <1>1, <1>2, <1>5, <1>7, <3>1
    <3> QED  BY <3>1, <3>2, StreamIsLog
  <2> QED  BY <1>1, <1>2, <1>14, <2>1
<1>19. StreamInv'
  BY <1>7, <1>8, <1>13, <1>14, <1>15, <1>16, <1>17 DEF StreamInv
<1>20. Grows(b)
  BY <1>2, <1>8, <1>14, <1>15, <1>18 DEF Grows
<1> QED  BY <1>19, <1>20

LEMMA NoAppendStream ==
    ASSUME StreamInv, NEW b, NoAppend, UNCHANGED <<archive, gone>>
    PROVE  StreamInv' /\ Grows(b)
<1>1. last \in Nat /\ \A e \in Range(stream) : e \in Range(stream')
  BY DEF StreamInv, NoAppend
<1>2. StreamInv'
  BY DEF StreamInv, NoAppend
<1>3. Grows(b)
  BY <1>1 DEF Grows, NoAppend
<1> QED  BY <1>2, <1>3

LEMMA LineStream ==
    ASSUME StreamInv, NEW b \in Builds, Line(b), UNCHANGED <<archive, gone>>
    PROVE  StreamInv' /\ Grows(b)
BY Append1Stream, NoAppendStream DEF Line

-----------------------------------------------------------------------------
(* RunLogs: the builds                                                     *)

BuildTyped ==
    /\ DOMAIN build = Builds
    /\ \A b \in Builds : DOMAIN build[b] = {"pc", "tail", "exit", "from", "out"}

\* A step of the build b is its own.
OnlyBuild(b) == \A c \in Builds : c # b => build'[c] = build[c]

LEMMA BuildSet ==
    ASSUME BuildTyped, NEW b \in Builds, NEW w, build' = [build EXCEPT ![b] = w],
           DOMAIN w = {"pc", "tail", "exit", "from", "out"}
    PROVE  BuildTyped' /\ OnlyBuild(b) /\ build'[b] = w
<1>1. DOMAIN build' = Builds /\ OnlyBuild(b) /\ build'[b] = w
  BY DEF BuildTyped, OnlyBuild
<1>2. BuildTyped'
  BY <1>1 DEF BuildTyped, OnlyBuild
<1> QED  BY <1>1, <1>2

LEMMA BuildGoes ==
    ASSUME BuildTyped, NEW b \in Builds, NEW p, build' = [build EXCEPT ![b].pc = p]
    PROVE  /\ BuildTyped' /\ OnlyBuild(b) /\ build'[b].pc = p
           /\ build'[b].from = build[b].from /\ build'[b].out = build[b].out
<1> DEFINE w == [build[b] EXCEPT !.pc = p]
<1>1. /\ DOMAIN w = {"pc", "tail", "exit", "from", "out"} /\ w.pc = p
      /\ w.from = build[b].from /\ w.out = build[b].out
  BY DEF BuildTyped
<1>2. build' = [build EXCEPT ![b] = w]
  OBVIOUS
<1> HIDE DEF w
<1> QED  BY <1>1, <1>2, BuildSet

LEMMA BuildEnds ==
    ASSUME BuildTyped, NEW b \in Builds, NEW x, NEW p,
           \/ build' = [build EXCEPT ![b].exit = x, ![b].pc = p]
           \/ build' = [build EXCEPT ![b].exit = x, ![b].tail = FALSE, ![b].pc = p]
    PROVE  BuildTyped' /\ OnlyBuild(b) /\ build'[b].pc = p
<1>1. CASE build' = [build EXCEPT ![b].exit = x, ![b].pc = p]
  <2> DEFINE w == [[build[b] EXCEPT !.exit = x] EXCEPT !.pc = p]
  <2>1. DOMAIN w = {"pc", "tail", "exit", "from", "out"} /\ w.pc = p
    BY DEF BuildTyped
  <2>2. build' = [build EXCEPT ![b] = w]
    BY <1>1 DEF BuildTyped
  <2> HIDE DEF w
  <2> QED  BY <2>1, <2>2, BuildSet
<1>2. CASE build' = [build EXCEPT ![b].exit = x, ![b].tail = FALSE, ![b].pc = p]
  <2> DEFINE w == [[[build[b] EXCEPT !.exit = x] EXCEPT !.tail = FALSE] EXCEPT !.pc = p]
  <2>1. DOMAIN w = {"pc", "tail", "exit", "from", "out"} /\ w.pc = p
    BY DEF BuildTyped
  <2>2. build' = [build EXCEPT ![b] = w]
    BY <1>2 DEF BuildTyped
  <2> HIDE DEF w
  <2> QED  BY <2>1, <2>2, BuildSet
<1> QED  BY <1>1, <1>2

LEMMA BuildPrints ==
    ASSUME BuildTyped, NEW b \in Builds, NEW x, build' = [build EXCEPT ![b].tail = x]
    PROVE  BuildTyped' /\ OnlyBuild(b) /\ build'[b].pc = build[b].pc
<1> DEFINE w == [build[b] EXCEPT !.tail = x]
<1>1. DOMAIN w = {"pc", "tail", "exit", "from", "out"} /\ w.pc = build[b].pc
  BY DEF BuildTyped
<1>2. build' = [build EXCEPT ![b] = w]
  OBVIOUS
<1> HIDE DEF w
<1> QED  BY <1>1, <1>2, BuildSet

LEMMA BuildEmpties ==
    ASSUME BuildTyped, NEW b \in Builds, NEW p,
           build' = [build EXCEPT ![b].pc = p, ![b].from = 0, ![b].out = <<>>]
    PROVE  /\ BuildTyped' /\ OnlyBuild(b) /\ build'[b].pc = p
           /\ build'[b].from = 0 /\ build'[b].out = <<>>
<1> DEFINE w == [[[build[b] EXCEPT !.pc = p] EXCEPT !.from = 0] EXCEPT !.out = <<>>]
<1>1. /\ DOMAIN w = {"pc", "tail", "exit", "from", "out"} /\ w.pc = p
      /\ w.from = 0 /\ w.out = <<>>
  BY DEF BuildTyped
<1>2. build' = [build EXCEPT ![b] = w]
  BY DEF BuildTyped
<1> HIDE DEF w
<1> QED  BY <1>1, <1>2, BuildSet

LEMMA BuildPages ==
    ASSUME BuildTyped, NEW b \in Builds, NEW p, NEW t, NEW e,
           build' = [build EXCEPT ![b].pc = p, ![b].out = t, ![b].from = e]
    PROVE  /\ BuildTyped' /\ OnlyBuild(b) /\ build'[b].pc = p
           /\ build'[b].from = e /\ build'[b].out = t
<1> DEFINE w == [[[build[b] EXCEPT !.pc = p] EXCEPT !.out = t] EXCEPT !.from = e]
<1>1. /\ DOMAIN w = {"pc", "tail", "exit", "from", "out"} /\ w.pc = p
      /\ w.from = e /\ w.out = t
  BY DEF BuildTyped
<1>2. build' = [build EXCEPT ![b] = w]
  BY DEF BuildTyped
<1> HIDE DEF w
<1> QED  BY <1>1, <1>2, BuildSet

-----------------------------------------------------------------------------
(* RunLogs: the build that decides the run archives its log                *)

\* From the mark to the end of ArchiveAndDrop.
Deciding(b) == build[b].pc \in {"system", "len", "page", "put", "drop"}

\* Up to where the archiver is, it has every entry of the stream; when it has
\* read the last page, what it does not have was appended by another build.
DecideAt(b) ==
    /\ Deciding(b) => run \in Terminal
    /\ build[b].pc \in {"system", "len", "page", "put"} => archive = <<>>
    /\ build[b].pc \in {"page", "put"} => stream # <<>> /\ IsLog(build[b].out, last)
    /\ build[b].pc = "page" =>
           /\ build[b].from \in 0 .. last
           /\ \A i \in 1 .. Len(build[b].out) : build[b].out[i] <= build[b].from
           /\ \A e \in Range(stream) : e <= build[b].from => e \in Range(build[b].out)
    /\ build[b].pc = "put" =>
           /\ build[b].out # <<>>
           /\ \A e \in Range(stream) : e \in Range(build[b].out) \/ writer[e] # b
    /\ build[b].pc = "drop" =>
           /\ archive # <<>>
           /\ \A e \in Range(stream) : e \in Range(archive) \/ writer[e] # b

\* A run is decided once: one build archives at a time, and none after it.
DecideInv ==
    /\ archive # <<>> => run \in Terminal
    /\ \A b, c \in Builds : Deciding(b) /\ Deciding(c) => b = c
    /\ \A b \in Builds : DecideAt(b)

\* What a Drop removed had been appended by another build.
GoneInv == \A e \in gone : e \in 1 .. last /\ \E b \in Builds : b # writer[e] /\ build[b].pc = "done"

\* A step of the build b, or of no build, is no part of another's archive.
LEMMA DecideElse ==
    ASSUME StreamInv, NEW b, Grows(b), NEW c \in Builds, c # b, DecideAt(c), build'[c] = build[c],
           run \in Terminal => run' \in Terminal
    PROVE  DecideAt(c)'
<1>1. /\ archive' = archive /\ last \in Nat /\ last' \in Nat /\ last <= last' /\ (stream # <<>> => stream' # <<>>)
      /\ \A e \in Range(stream') : e \in Range(stream) \/ (e \in Nat /\ e > last /\ writer'[e] = b)
      /\ \A e \in 1 .. last : writer'[e] = writer[e]
  BY DEF Grows, StreamInv
<1>2. \A e \in Range(stream) : e \in 1 .. last
  BY StreamIsLog
<1>3. (Deciding(c) => run \in Terminal)'
  BY DEF DecideAt, Deciding
<1>4. (build[c].pc \in {"system", "len", "page", "put"} => archive = <<>>)'
  BY <1>1 DEF DecideAt
<1>5. (build[c].pc \in {"page", "put"} => stream # <<>> /\ IsLog(build[c].out, last))'
  <2>1. ASSUME build[c].pc \in {"page", "put"}
        PROVE  stream # <<>> /\ IsLog(build[c].out, last)
    BY <2>1 DEF DecideAt
  <2>2. ASSUME build[c].pc \in {"page", "put"}
        PROVE  IsLog(build[c].out, last')
    BY <1>1, <2>1, <2>2, LogGrows
  <2>3. ASSUME build[c].pc \in {"page", "put"}
        PROVE  stream' # <<>>
    BY <1>1, <2>1, <2>3
  <2> QED  BY <2>2, <2>3
<1>6. ASSUME build'[c].pc = "page"
      PROVE  /\ build'[c].from \in 0 .. last'
             /\ \A i \in 1 .. Len(build'[c].out) : build'[c].out[i] <= build'[c].from
             /\ \A e \in Range(stream') : e <= build'[c].from => e \in Range(build'[c].out)
  <2>1. /\ build[c].from \in 0 .. last
        /\ \A i \in 1 .. Len(build[c].out) : build[c].out[i] <= build[c].from
        /\ \A e \in Range(stream) : e <= build[c].from => e \in Range(build[c].out)
    BY <1>6 DEF DecideAt
  <2>2. build[c].from \in 0 .. last'
    BY <1>1, <2>1
  <2>3. ASSUME NEW e \in Range(stream'), e <= build[c].from
        PROVE  e \in Range(build[c].out)
    <3>1. ~(e > last)
      <4>1. e \in Nat
        BY <1>1, <1>2, <2>3
      <4>2. e <= last
        BY <1>1, <2>1, <2>3, <4>1
      <4> QED  BY <1>1, <4>1, <4>2
    <3> QED  BY <1>1, <2>1, <2>3, <3>1
  <2> QED  BY <2>1, <2>2, <2>3
<1>7. ASSUME build'[c].pc = "put"
      PROVE  /\ build'[c].out # <<>>
             /\ \A e \in Range(stream') : e \in Range(build'[c].out) \/ writer'[e] # c
  BY <1>1, <1>2, <1>7 DEF DecideAt
<1>8. ASSUME build'[c].pc = "drop"
      PROVE  /\ archive' # <<>>
             /\ \A e \in Range(stream') : e \in Range(archive') \/ writer'[e] # c
  BY <1>1, <1>2, <1>8 DEF DecideAt
<1> QED  BY <1>3, <1>4, <1>5, <1>6, <1>7, <1>8 DEF DecideAt

\* A step of the build b that puts and drops nothing.
LEMMA DecideStep ==
    ASSUME StreamInv, DecideInv, NEW b \in Builds, Grows(b), OnlyBuild(b), DecideAt(b)',
           run \in Terminal => run' \in Terminal,
           \/ Deciding(b)' => Deciding(b)
           \/ run \notin Terminal
    PROVE  DecideInv'
<1>1. \A c \in Builds : DecideAt(c)'
  <2>1. ASSUME NEW c \in Builds, c # b
        PROVE  DecideAt(c)'
    <3>1. DecideAt(c) /\ build'[c] = build[c]
      BY <2>1 DEF DecideInv, OnlyBuild
    <3> QED  BY <2>1, <3>1, DecideElse
  <2> QED  BY <2>1
<1>2. \A c \in Builds : c # b => (Deciding(c)' <=> Deciding(c))
  BY DEF OnlyBuild, Deciding
<1>3. run \notin Terminal => \A c \in Builds : ~Deciding(c)
  BY DEF DecideInv, DecideAt
<1>4. \A c, d \in Builds : Deciding(c)' /\ Deciding(d)' => c = d
  BY <1>2, <1>3 DEF DecideInv
<1>5. archive' # <<>> => run' \in Terminal
  BY DEF Grows, DecideInv
<1> QED  BY <1>1, <1>4, <1>5 DEF DecideInv

\* What is gone stays accounted for.
LEMMA GoneStep ==
    ASSUME StreamInv, GoneInv, NEW b \in Builds, Grows(b), OnlyBuild(b),
           build[b].pc = "done" => build'[b].pc = "done"
    PROVE  GoneInv'
<1> SUFFICES ASSUME NEW e \in gone'
             PROVE  e \in 1 .. last' /\ \E c \in Builds : c # writer'[e] /\ build'[c].pc = "done"
  BY DEF GoneInv
<1>1. e \in gone /\ e \in 1 .. last
  BY DEF Grows, GoneInv
<1>2. writer'[e] = writer[e] /\ e \in 1 .. last'
  BY <1>1 DEF Grows, StreamInv
<1>3. PICK c \in Builds : c # writer[e] /\ build[c].pc = "done"
  BY <1>1 DEF GoneInv
<1>4. build'[c].pc = "done"
  BY <1>3 DEF OnlyBuild
<1> QED  BY <1>2, <1>3, <1>4

ReaderInv ==
    /\ DOMAIN reader = {"pc", "next", "got"} /\ reader.next \in 0 .. last
    /\ reader.pc = "panel" => reader.next = 0
    /\ ReadersSeeNoHole

LEMMA ReaderStays ==
    ASSUME StreamInv, ReaderInv, UNCHANGED reader, last' \in Nat, last <= last',
           trimmed \subseteq trimmed', gone \subseteq gone', late => late'
    PROVE  ReaderInv'
<1>1. last \in Nat /\ reader.next \in 0 .. last'
  BY DEF ReaderInv, StreamInv
<1>2. ReadersSeeNoHole'
  BY DEF ReaderInv, ReadersSeeNoHole
<1> QED  BY <1>1, <1>2 DEF ReaderInv

LogInv == StreamInv /\ BuildTyped /\ DecideInv /\ GoneInv /\ ReaderInv

\* The steps that neither put nor drop: what they have to show.
LEMMA QuietKeeps ==
    ASSUME LogInv, NEW b \in Builds, StreamInv', BuildTyped', Grows(b), OnlyBuild(b), DecideAt(b)',
           UNCHANGED reader, run \in Terminal => run' \in Terminal,
           Deciding(b)' => Deciding(b) \/ run \notin Terminal,
           build[b].pc # "done"
    PROVE  LogInv'
<1>1. DecideInv'
  BY DecideStep DEF LogInv
<1>2. GoneInv'
  BY GoneStep DEF LogInv
<1>3. ReaderInv'
  BY ReaderStays DEF LogInv, Grows
<1> QED  BY <1>1, <1>2, <1>3 DEF LogInv

\* Before the mark and after the end a build is not part of the archive.
LEMMA NotDeciding ==
    ASSUME NEW b, ~Deciding(b)'
    PROVE  DecideAt(b)'
BY DEF DecideAt, Deciding

LEMMA StartKeeps ==
    ASSUME LogInv, NEW b \in Builds, Start(b)
    PROVE  LogInv'
<1>1. PICK p \in {"done", "pull", "exec"} : BuildGoto(b, p)
  BY DEF Start
<1>2. BuildTyped' /\ OnlyBuild(b) /\ build'[b].pc = p
  BY <1>1, BuildGoes DEF BuildGoto, LogInv
<1>3. StreamInv' /\ Grows(b)
  BY LineStream, NoAppendStream DEF Start, LogInv
<1>4. /\ build[b].pc # "done" /\ UNCHANGED reader
      /\ run \in Terminal => run' \in Terminal
  BY DEF Start, BuildAt, Terminal
<1>5. ~Deciding(b)'
  BY <1>2 DEF Deciding
<1> QED  BY <1>2, <1>3, <1>4, <1>5, NotDeciding, QuietKeeps

LEMMA PrepareKeeps ==
    ASSUME LogInv, NEW b \in Builds, Prepare(b) \/ PrepareFails(b)
    PROVE  LogInv'
<1>1. BuildTyped' /\ OnlyBuild(b) /\ build'[b].pc \in {"create", "start", "exec", "remove", "mark"}
  <2>1. CASE Prepare(b)
    <3>1. PICK p \in {"create", "start", "exec"} : BuildGoto(b, p)
      BY <2>1 DEF Prepare, BuildAt
    <3> QED  BY <3>1, BuildGoes DEF BuildGoto, LogInv
  <2>2. CASE PrepareFails(b)
    <3>1. PICK x \in {"failed", "timeout"} : Ends(b, x, IF BuildAt(b, "start") THEN "remove" ELSE "mark")
      BY <2>2 DEF PrepareFails
    <3> DEFINE p == IF BuildAt(b, "start") THEN "remove" ELSE "mark"
    <3>2. p \in {"remove", "mark"} /\ build' = [build EXCEPT ![b].exit = x, ![b].pc = p]
      BY <3>1 DEF Ends
    <3> HIDE DEF p
    <3> QED  BY <3>2, BuildEnds DEF LogInv
  <2> QED  BY <2>1, <2>2
<1>2. NoAppend /\ UNCHANGED <<archive, gone, reader, run>> /\ build[b].pc # "done"
  BY DEF Prepare, PrepareFails, NoAppend, logHistory
<1>3. StreamInv' /\ Grows(b)
  BY <1>2, NoAppendStream DEF LogInv
<1>4. ~Deciding(b)'
  BY <1>1 DEF Deciding
<1> QED  BY <1>1, <1>2, <1>3, <1>4, NotDeciding, QuietKeeps

LEMMA ExecKeeps ==
    ASSUME LogInv, NEW b \in Builds, PrintLine(b) \/ ExitHost(b) \/ ExitDocker(b)
    PROVE  LogInv'
<1>1. BuildTyped' /\ OnlyBuild(b) /\ build'[b].pc \in {"exec", "mark", "remove"}
  <2>1. CASE PrintLine(b)
    <3>1. PICK x \in BOOLEAN : build' = [build EXCEPT ![b].tail = x]
      BY <2>1 DEF PrintLine
    <3> QED  BY <2>1, <3>1, BuildPrints DEF PrintLine, BuildAt, LogInv
  <2>2. CASE ExitHost(b) \/ ExitDocker(b)
    <3>1. PICK x \in {"ok", "failed", "timeout"}, p \in {"mark", "remove"} :
              build' = [build EXCEPT ![b].exit = x, ![b].tail = FALSE, ![b].pc = p]
      BY <2>2 DEF ExitHost, ExitDocker
    <3> QED  BY <3>1, BuildEnds DEF LogInv
  <2> QED  BY <2>1, <2>2
<1>2. UNCHANGED <<archive, gone, reader, run>> /\ build[b].pc # "done"
  BY DEF PrintLine, ExitHost, ExitDocker, BuildAt
<1>3. Line(b) \/ NoAppend
  BY DEF PrintLine, ExitHost, ExitDocker, Flush
<1>4. StreamInv' /\ Grows(b)
  BY <1>2, <1>3, LineStream, NoAppendStream DEF LogInv
<1>5. ~Deciding(b)'
  BY <1>1 DEF Deciding
<1> QED  BY <1>1, <1>2, <1>4, <1>5, NotDeciding, QuietKeeps

LEMMA RemoveKeeps ==
    ASSUME LogInv, NEW b \in Builds, RemoveContainer(b)
    PROVE  LogInv'
<1>1. BuildTyped' /\ OnlyBuild(b) /\ build'[b].pc = "mark"
  BY BuildGoes DEF RemoveContainer, BuildGoto, LogInv
<1>2. NoAppend /\ UNCHANGED <<archive, gone, reader, run>> /\ build[b].pc # "done"
  BY DEF RemoveContainer, BuildAt, NoAppend, logHistory
<1>3. StreamInv' /\ Grows(b)
  BY <1>2, NoAppendStream DEF LogInv
<1>4. ~Deciding(b)'
  BY <1>1 DEF Deciding
<1> QED  BY <1>1, <1>2, <1>3, <1>4, NotDeciding, QuietKeeps

\* Only a run that is not over is decided, which has no archive yet.
LEMMA MarkKeeps ==
    ASSUME LogInv, NEW b \in Builds, BuildMark(b)
    PROVE  LogInv'
<1>1. PICK p \in {"done", "system"} : BuildGoto(b, p) /\ (p = "system" => run \notin Terminal /\ run' \in Terminal)
  BY DEF BuildMark, Terminal
<1>2. BuildTyped' /\ OnlyBuild(b) /\ build'[b].pc = p
  BY <1>1, BuildGoes DEF BuildGoto, LogInv
<1>3. NoAppend /\ UNCHANGED <<archive, gone, reader>> /\ build[b].pc # "done" /\ (run \in Terminal => run' \in Terminal)
  BY DEF BuildMark, BuildAt, NoAppend, logHistory
<1>4. StreamInv' /\ Grows(b)
  BY <1>3, NoAppendStream DEF LogInv
<1>5. DecideAt(b)'
  <2>1. p = "system" => archive' = <<>>
    BY <1>1, <1>3 DEF LogInv, DecideInv
  <2> QED  BY <1>1, <1>2, <2>1 DEF DecideAt, Deciding
<1>6. Deciding(b)' => Deciding(b) \/ run \notin Terminal
  BY <1>1, <1>2 DEF Deciding
<1> QED  BY <1>2, <1>3, <1>4, <1>5, <1>6, QuietKeeps

LEMMA SystemKeeps ==
    ASSUME LogInv, NEW b \in Builds, System(b)
    PROVE  LogInv'
<1>1. BuildTyped' /\ OnlyBuild(b) /\ build'[b].pc = "len"
  BY BuildGoes DEF System, BuildGoto, LogInv
<1>2. Line(b) /\ UNCHANGED <<archive, gone, reader, run>> /\ build[b].pc = "system"
  BY DEF System, BuildAt
<1>3. StreamInv' /\ Grows(b)
  BY <1>2, LineStream DEF LogInv
<1>4. Deciding(b)
  BY <1>2 DEF Deciding
<1>5. DecideAt(b)'
  <2>1. run \in Terminal /\ archive = <<>>
    BY <1>2, <1>4 DEF LogInv, DecideInv, DecideAt
  <2> QED  BY <1>1, <1>2, <2>1 DEF DecideAt, Deciding
<1> QED  BY <1>1, <1>2, <1>3, <1>4, <1>5, QuietKeeps

LEMMA CrashKeeps ==
    ASSUME LogInv, NEW b \in Builds, BuildCrash(b)
    PROVE  LogInv'
<1>1. DOMAIN Fresh = {"pc", "tail", "exit", "from", "out"} /\ Fresh.pc = "queued"
  BY DEF Fresh
<1>2. BuildTyped' /\ OnlyBuild(b) /\ build'[b] = Fresh
  BY <1>1, BuildSet DEF BuildCrash, LogInv
<1>3. NoAppend /\ UNCHANGED <<archive, gone, reader, run>> /\ build[b].pc # "done"
  BY DEF BuildCrash, NoAppend
<1>4. StreamInv' /\ Grows(b)
  BY <1>3, NoAppendStream DEF LogInv
<1>5. ~Deciding(b)'
  BY <1>1, <1>2 DEF Deciding
<1> QED  BY <1>2, <1>3, <1>4, <1>5, NotDeciding, QuietKeeps

LEMMA LenKeeps ==
    ASSUME LogInv, NEW b \in Builds, ArchiveLen(b)
    PROVE  LogInv'
<1>1. PICK p \in {"done", "page"} :
          /\ build' = [build EXCEPT ![b].pc = p, ![b].from = 0, ![b].out = <<>>]
          /\ p = "page" => stream # <<>>
  <2>1. CASE stream = <<>>
    BY <2>1 DEF ArchiveLen
  <2>2. CASE stream # <<>>
    BY <2>2 DEF ArchiveLen
  <2> QED  BY <2>1, <2>2
<1>2. p \in {"done", "page"} /\ (p = "page" => stream # <<>>)
  BY <1>1
<1>3. BuildTyped' /\ OnlyBuild(b) /\ build'[b].pc = p /\ build'[b].from = 0 /\ build'[b].out = <<>>
  <2>1. BuildTyped /\ build' = [build EXCEPT ![b].pc = p, ![b].from = 0, ![b].out = <<>>]
    BY <1>1 DEF LogInv
  <2> QED  BY <2>1, BuildEmpties
<1>4. NoAppend /\ UNCHANGED <<archive, gone, reader, run>> /\ build[b].pc = "len"
  BY DEF ArchiveLen, BuildAt, NoAppend, logHistory
<1>5. StreamInv' /\ Grows(b)
  BY <1>4, NoAppendStream DEF LogInv
<1>6. Deciding(b)
  BY <1>4 DEF Deciding
<1>7. DecideAt(b)'
  <2>1. run' \in Terminal /\ archive' = <<>>
    BY <1>4, <1>6 DEF LogInv, DecideInv, DecideAt
  <2>2. p = "page" => stream' # <<>> /\ IsLog(build'[b].out, last')
    <3>1. IsLog(<<>>, last')
      BY DEF IsLog
    <3> QED  BY <1>2, <1>3, <1>4, <3>1 DEF NoAppend
  <2>3. /\ build'[b].from \in 0 .. last'
        /\ \A i \in 1 .. Len(build'[b].out) : build'[b].out[i] <= build'[b].from
        /\ \A e \in Range(stream') : e <= build'[b].from => e \in Range(build'[b].out)
    <3>1. last' \in Nat /\ \A e \in Range(stream') : e \in Nat /\ e > 0
      <4>1. last' \in Nat /\ \A e \in Range(stream') : e \in 1 .. last'
        BY <1>4, StreamIsLog DEF NoAppend, LogInv, StreamInv
      <4> QED  BY <4>1
    <3>2. \A e \in Range(stream') : ~(e <= 0)
      BY <3>1
    <3>3. Len(<<>>) = 0
      OBVIOUS
    <3> QED  BY <1>3, <3>1, <3>2, <3>3
  <2> QED  BY <1>2, <1>3, <2>1, <2>2, <2>3 DEF DecideAt, Deciding
<1> QED  BY <1>3, <1>4, <1>5, <1>6, <1>7, QuietKeeps

LEMMA PageKeeps ==
    ASSUME LogInv, NEW b \in Builds, ArchivePage(b)
    PROVE  LogInv'
<1> DEFINE r == First(After(stream, build[b].from), Page + 1)
<1>1. NoAppend /\ UNCHANGED <<archive, gone, reader, run>> /\ build[b].pc = "page"
  BY DEF ArchivePage, BuildAt, NoAppend, logHistory
<1>2. /\ run \in Terminal /\ archive = <<>> /\ stream # <<>> /\ IsLog(build[b].out, last)
      /\ build[b].from \in 0 .. last
      /\ \A i \in 1 .. Len(build[b].out) : build[b].out[i] <= build[b].from
      /\ \A e \in Range(stream) : e <= build[b].from => e \in Range(build[b].out)
  BY <1>1 DEF LogInv, DecideInv, DecideAt, Deciding
<1>3. PICK o, t, e, p :
          /\ o = build[b].out /\ t = o \o First(r, Page)
          /\ p = (IF Len(r) > Page THEN "page" ELSE "put")
          /\ e = (IF Len(r) > Page THEN r[Page] ELSE build[b].from)
  OBVIOUS
<1>4. build' = [build EXCEPT ![b].pc = p, ![b].out = t, ![b].from = e]
  BY <1>3 DEF ArchivePage, LogInv, BuildTyped
<1>5. /\ IsLog(t, last)
      /\ p = "page" =>
             /\ e \in 0 .. last
             /\ \A i \in 1 .. Len(t) : t[i] <= e
             /\ \A x \in Range(stream) : x <= e => x \in Range(t)
      /\ p = "put" => t # <<>> /\ \A x \in Range(stream) : x \in Range(t)
  <2>1. PICK k : SplitsAt(stream, build[b].from, k)
    BY <1>2, StreamSplits DEF LogInv
  <2>2. last \in Nat /\ IsLog(stream, last) /\ Page \in Nat /\ Page >= 1
    BY StreamIsLog, RunLogsAssumption DEF LogInv, StreamInv
  <2>3. /\ IsLog(t, last)
        /\ Len(r) > Page =>
               /\ r[Page] \in 0 .. last
               /\ \A i \in 1 .. Len(t) : t[i] <= r[Page]
               /\ \A x \in Range(stream) : x <= r[Page] => x \in Range(t)
        /\ ~(Len(r) > Page) => t # <<>> /\ \A x \in Range(stream) : x \in Range(t)
    BY <1>2, <1>3, <2>1, <2>2, PageIs
  <2> HIDE DEF r
  <2>4. CASE Len(r) > Page
    BY <1>3, <2>3, <2>4
  <2>5. CASE ~(Len(r) > Page)
    BY <1>3, <2>3, <2>5
  <2> QED  BY <2>4, <2>5
<1>6. p \in {"page", "put"}
  BY <1>3
<1> HIDE DEF r
<1>7. BuildTyped' /\ OnlyBuild(b) /\ build'[b].pc = p /\ build'[b].from = e /\ build'[b].out = t
  <2>1. BuildTyped
    BY DEF LogInv
  <2> QED  BY <1>4, <2>1, BuildPages
<1>8. StreamInv' /\ Grows(b)
  BY <1>1, NoAppendStream DEF LogInv
<1>9. Deciding(b)
  BY <1>1 DEF Deciding
<1>10. DecideAt(b)'
  <2>1. run' \in Terminal /\ archive' = <<>> /\ stream' = stream /\ last' = last /\ stream # <<>>
    BY <1>1, <1>2 DEF NoAppend
  <2> QED  BY <1>5, <1>6, <1>7, <2>1 DEF DecideAt, Deciding
<1> QED  BY <1>1, <1>7, <1>8, <1>9, <1>10, QuietKeeps

\* The archive had nothing: what was accounted for is.
LEMMA PutKeeps ==
    ASSUME LogInv, NEW b \in Builds, ArchivePut(b)
    PROVE  LogInv'
<1>1. NoAppend /\ UNCHANGED <<stream, last, trimmed, late, gone, reader, run>> /\ build[b].pc = "put"
  BY DEF ArchivePut, BuildAt, NoAppend, logHistory
<1>2. Deciding(b)
  BY <1>1 DEF Deciding
<1>3. /\ run \in Terminal /\ archive = <<>> /\ stream # <<>> /\ IsLog(build[b].out, last) /\ build[b].out # <<>>
      /\ \A e \in Range(stream) : e \in Range(build[b].out) \/ writer[e] # b
  BY <1>1, <1>2 DEF LogInv, DecideInv, DecideAt
<1>4. CASE archive' = archive /\ BuildGoto(b, "done")
  <2>1. BuildTyped' /\ OnlyBuild(b) /\ build'[b].pc = "done"
    BY <1>4, BuildGoes DEF BuildGoto, LogInv
  <2>2. StreamInv' /\ Grows(b)
    BY <1>1, <1>4, NoAppendStream DEF LogInv
  <2>3. ~Deciding(b)'
    BY <2>1 DEF Deciding
  <2> QED  BY <1>1, <1>4, <2>1, <2>2, <2>3, NotDeciding, QuietKeeps
<1>5. CASE archive' = build[b].out /\ BuildGoto(b, "drop")
  <2>1. BuildTyped' /\ OnlyBuild(b) /\ build'[b].pc = "drop"
    BY <1>5, BuildGoes DEF BuildGoto, LogInv
  <2>2. StreamInv'
    <3>1. \A e : e \notin Range(<<>>)
      BY DEF Range
    <3>2. \A e \in 1 .. last : e \in Range(stream) \cup Range(archive') \cup trimmed \cup gone
      BY <1>3, <3>1 DEF LogInv, StreamInv
    <3>3. IsLog(archive', last') /\ archive' # <<>> /\ UNCHANGED <<stream, last, writer, trimmed, gone, late>>
      BY <1>1, <1>3, <1>5 DEF NoAppend
    <3>4. \A e \in 1 .. last' : e \in Range(stream') \cup Range(archive') \cup trimmed' \cup gone'
      BY <3>2, <3>3
    <3> QED  BY <3>3, <3>4 DEF LogInv, StreamInv
  <2>3. DecideInv'
    <3>1. \A c \in Builds : c # b => ~Deciding(c)
      BY <1>2 DEF LogInv, DecideInv
    <3>2. \A c \in Builds : c # b => ~Deciding(c)'
      BY <2>1, <3>1 DEF Deciding, OnlyBuild
    <3>3. DecideAt(b)'
      BY <1>1, <1>3, <1>5, <2>1 DEF DecideAt, Deciding, NoAppend
    <3>4. \A c \in Builds : DecideAt(c)'
      BY <3>2, <3>3, NotDeciding
    <3> QED  BY <1>1, <1>3, <3>2, <3>4 DEF DecideInv
  <2>4. GoneInv'
    BY <1>1, <2>1 DEF LogInv, GoneInv, OnlyBuild, NoAppend
  <2>5. ReaderInv'
    BY <1>1 DEF LogInv, ReaderInv, ReadersSeeNoHole
  <2> QED  BY <2>1, <2>2, <2>3, <2>4, <2>5 DEF LogInv
<1> QED  BY <1>4, <1>5 DEF ArchivePut

LEMMA DropKeeps ==
    ASSUME LogInv, NEW b \in Builds, ArchiveDrop(b)
    PROVE  LogInv'
<1>1. UNCHANGED <<archive, last, trimmed, late, writer, reader, run>> /\ build[b].pc = "drop"
  BY DEF ArchiveDrop, BuildAt
<1>2. Deciding(b)
  BY <1>1 DEF Deciding
<1>3. /\ run \in Terminal /\ archive # <<>>
      /\ \A e \in Range(stream) : e \in Range(archive) \/ writer[e] # b
  BY <1>1, <1>2 DEF LogInv, DecideInv, DecideAt
<1>4. BuildTyped' /\ OnlyBuild(b) /\ build'[b].pc = "done"
  <2> DEFINE w == [Fresh EXCEPT !.pc = "done"]
  <2>1. DOMAIN w = {"pc", "tail", "exit", "from", "out"} /\ w.pc = "done"
    BY DEF Fresh
  <2>2. build' = [build EXCEPT ![b] = w]
    BY DEF ArchiveDrop
  <2> HIDE DEF w
  <2> QED  BY <2>1, <2>2, BuildSet DEF LogInv
<1>5. CASE UNCHANGED <<stream, gone>>
  <2>1. StreamInv' /\ Grows(b)
    BY <1>1, <1>5, NoAppendStream DEF LogInv, NoAppend
  <2>2. ~Deciding(b)'
    BY <1>4 DEF Deciding
  <2> QED  BY <1>1, <1>4, <2>1, <2>2, NotDeciding, QuietKeeps
<1>6. CASE stream' = <<>> /\ gone' = gone \cup (Range(stream) \ Range(archive))
  <2>1. \A e : e \notin Range(<<>>)
    BY DEF Range
  <2>2. StreamInv'
    <3>1. stream' \in Seq(Nat) /\ Len(stream') = 0
      BY <1>6
    <3>2. last \in Nat
      BY DEF LogInv, StreamInv
    <3>3. \A e \in 1 .. last : e \in Range(stream') \cup Range(archive) \cup trimmed \cup gone'
      BY <1>6 DEF LogInv, StreamInv
    <3> QED  BY <1>1, <1>3, <1>6, <3>1, <3>2, <3>3 DEF LogInv, StreamInv
  <2>3. \A c \in Builds : ~Deciding(c)'
    BY <1>2, <1>4 DEF LogInv, DecideInv, Deciding, OnlyBuild
  <2>4. DecideInv'
    BY <1>1, <1>3, <2>3, NotDeciding DEF DecideInv
  <2>5. GoneInv'
    <3>1. ASSUME NEW e \in gone
          PROVE  e \in 1 .. last /\ \E c \in Builds : c # writer[e] /\ build'[c].pc = "done"
      BY <1>4, <3>1 DEF LogInv, GoneInv, OnlyBuild
    <3>2. ASSUME NEW e \in Range(stream) \ Range(archive)
          PROVE  e \in 1 .. last /\ \E c \in Builds : c # writer[e] /\ build'[c].pc = "done"
      <4>1. e \in 1 .. last
        BY StreamIsLog DEF LogInv
      <4>2. writer[e] # b
        BY <1>3
      <4> QED  BY <1>4, <4>1, <4>2
    <3> QED  BY <1>1, <1>6, <3>1, <3>2 DEF GoneInv
  <2>6. ReaderInv'
    BY <1>1, <1>6, ReaderStays DEF LogInv, StreamInv
  <2> QED  BY <1>4, <2>2, <2>4, <2>5, <2>6 DEF LogInv
<1> QED  BY <1>5, <1>6 DEF ArchiveDrop

\* Of what a history request reads, a reader misses only what is gone: with an
\* entry in the stream, the stream has all that the cap left; without one, the
\* archive has it.
LEMMA HistorySeen ==
    ASSUME StreamInv, NEW id \in 0 .. last, History(id) # <<>>
    PROVE  LET t == First(History(id), Count)
           IN  /\ NextOf(History(id)) \in 1 .. last
               /\ late \/ \A e \in 1 .. last : e > id /\ e <= NextOf(History(id)) => e \in Range(t) \cup trimmed \cup gone
<1> DEFINE live == IF id = 0 THEN stream ELSE From(stream, id)
           h == IF live # <<>> THEN live ELSE Slice(archive, id)
           r == First(h, Count + 1)
           t == First(r, Count)
<1>1. last \in Nat /\ id \in Nat /\ IsLog(stream, last) /\ IsLog(archive, last) /\ Count \in Nat /\ Count >= 1
  BY StreamIsLog, RunLogsAssumption DEF StreamInv
<1>2. IsLog(live, last) /\ \A e \in Range(stream) : e >= id => e \in Range(live)
  <2>1. CASE id = 0
    BY <1>1, <2>1
  <2>2. CASE id # 0
    <3>1. id - 1 \in 0 .. last /\ id - 1 \in Nat
      BY <1>1, <2>2
    <3>2. PICK n : SplitsAt(stream, id - 1, n)
      BY <3>1, StreamSplits
    <3>3. live = After(stream, id - 1)
      BY <2>2 DEF From
    <3>4. IsLog(live, last) /\ \A e : e \in Range(live) <=> e \in Range(stream) /\ e > id - 1
      BY <1>1, <3>1, <3>2, <3>3, AfterHas
    <3>5. \A e \in Range(stream) : e \in Nat /\ (e >= id => e > id - 1)
      BY <1>1, StreamIsLog
    <3> QED  BY <3>4, <3>5
  <2> QED  BY <2>1, <2>2
<1> HIDE DEF live
<1>3. IsLog(h, last) /\ (late \/ \A e \in 1 .. last : e > id => e \in Range(h) \cup trimmed \cup gone)
  <2>1. CASE live # <<>>
    <3>1. stream # <<>>
      <4>1. ASSUME stream = <<>> PROVE FALSE
        <5>1. id = 0 => live = <<>>
          BY <4>1 DEF live
        <5>2. ASSUME id # 0 PROVE live = <<>>
          <6>1. id - 1 \in 0 .. last
            BY <1>1, <5>2
          <6>2. PICK n : SplitsAt(stream, id - 1, n)
            BY <6>1, StreamSplits
          <6>3. \A e : e \notin Range(live)
            <7>1. live = After(stream, id - 1) /\ id - 1 \in Nat
              BY <1>1, <5>2 DEF live, From
            <7>2. \A e : e \notin Range(stream)
              BY <4>1 DEF Range
            <7> QED  BY <1>1, <6>2, <7>1, <7>2, AfterHas
          <6> QED  BY <1>1, <1>2, <6>3, EmptyLog
        <5> QED  BY <2>1, <5>1, <5>2
      <4> QED  BY <4>1
    <3>2. late \/ \A e \in 1 .. last : e \in Range(stream) \cup trimmed
      BY <3>1 DEF StreamInv
    <3>3. \A e \in 1 .. last : e > id => e >= id
      BY <1>1
    <3> QED  BY <1>2, <2>1, <3>2, <3>3
  <2>2. CASE live = <<>>
    <3>1. \A e \in 1 .. last : e > id => e \notin Range(stream)
      <4>1. \A e : e \notin Range(live)
        BY <2>2 DEF Range
      <4>2. \A e \in 1 .. last : e > id => e >= id
        BY <1>1
      <4> QED  BY <1>2, <4>1, <4>2
    <3>2. \A e \in 1 .. last : e > id => e \in Range(archive) \cup trimmed \cup gone
      BY <3>1 DEF StreamInv
    <3>3. IsLog(Slice(archive, id), last) /\ \A e \in Range(archive) : e > id => e \in Range(Slice(archive, id))
      <4>1. CASE id \in Range(archive)
        <5>1. PICK n : SplitsAt(archive, id, n)
          BY <1>1, <4>1, MemberSplits
        <5> QED  BY <1>1, <4>1, <5>1, AfterHas DEF Slice
      <4>2. CASE id \notin Range(archive)
        BY <1>1, <4>2 DEF Slice
      <4> QED  BY <4>1, <4>2
    <3> QED  BY <2>2, <3>2, <3>3
  <2> QED  BY <2>1, <2>2
<1>4. History(id) = r
  BY DEF History, live
<1> HIDE DEF h
<1>5. /\ IsLog(t, last) /\ Len(t) = IF Len(h) < Count THEN Len(h) ELSE Count
      /\ \A i \in 1 .. Len(t) : i \in 1 .. Len(h) /\ t[i] = h[i] /\ r[i] = h[i]
  BY <1>1, <1>3, FirstFirst
<1>6. IsLog(r, last) /\ Len(r) = IF Len(h) < Count + 1 THEN Len(h) ELSE Count + 1
  <2>1. Count + 1 \in Nat
    BY <1>1
  <2> QED  BY <1>1, <1>3, <2>1, FirstHas
<1> HIDE DEF r, t
<1>7. Len(t) \in 1 .. Len(t) /\ Len(h) \in Nat
  <2>1. Len(h) \in Nat /\ Len(r) # 0
    BY <1>1, <1>3, <1>4, <1>6, LogTyped, EmptyLog
  <2> QED  BY <1>1, <1>5, <1>6, <2>1
<1>8. NextOf(History(id)) = t[Len(t)] /\ First(History(id), Count) = t
  <2>1. NextOf(History(id)) = r[Len(t)]
    BY <1>4 DEF NextOf, t
  <2>2. r[Len(t)] = t[Len(t)]
    BY <1>5, <1>7
  <2> QED  BY <1>4, <2>1, <2>2 DEF t
<1>9. t[Len(t)] \in 1 .. last
  BY <1>1, <1>5, <1>7, LogTyped
<1>10. ASSUME NEW e \in Range(h), e <= t[Len(t)]
       PROVE  e \in Range(t)
  BY <1>1, <1>3, <1>5, <1>7, <1>10, PrefixSeen
<1> QED  BY <1>3, <1>8, <1>9, <1>10

\* The reader goes on to the entry `to` with the entries t.
LEMMA ReaderGoes ==
    ASSUME StreamInv, ReaderInv, UNCHANGED <<last, trimmed, gone, late>>, NEW to \in 0 .. last,
           DOMAIN reader' = {"pc", "next", "got"}, reader'.next = to, reader'.pc # "panel", NEW t,
           \/ reader'.got = reader.got \cup t
           \/ reader'.got = t /\ reader.next = 0,
           late \/ \A e \in 1 .. last : e > reader.next /\ e <= to => e \in t \cup trimmed \cup gone
    PROVE  ReaderInv'
<1>1. last \in Nat /\ reader.next \in 0 .. last
  BY DEF StreamInv, ReaderInv
<1>2. ASSUME ~late, NEW e \in 1 .. to
      PROVE  e \in reader'.got \cup trimmed \cup gone
  <2>1. e \in 1 .. last /\ e <= to
    BY <1>1
  <2>2. CASE e <= reader.next
    <3>1. e \in 1 .. reader.next /\ reader.next # 0
      BY <1>1, <2>1, <2>2
    <3> QED  BY <1>2, <3>1 DEF ReaderInv, ReadersSeeNoHole
  <2>3. CASE ~(e <= reader.next)
    <3>1. e > reader.next
      BY <1>1, <2>1, <2>3
    <3> QED  BY <1>2, <2>1, <3>1
  <2> QED  BY <2>2, <2>3
<1>3. ReadersSeeNoHole'
  BY <1>2 DEF ReadersSeeNoHole
<1> QED  BY <1>3 DEF ReaderInv

\* A step of the reader is no step of the log.
LEMMA ReaderKeeps ==
    ASSUME LogInv, UNCHANGED <<run, build, stream, last, archive, writer, trimmed, gone, late>>, ReaderInv'
    PROVE  LogInv'
<1>1. StreamInv'
  BY DEF LogInv, StreamInv
<1>2. BuildTyped'
  BY DEF LogInv, BuildTyped
<1>3. DecideInv'
  BY DEF LogInv, DecideInv, DecideAt, Deciding
<1>4. GoneInv'
  BY DEF LogInv, GoneInv
<1> QED  BY <1>1, <1>2, <1>3, <1>4 DEF LogInv

LEMMA PageOnKeeps ==
    ASSUME LogInv, PageOn
    PROVE  LogInv'
<1> DEFINE h == History(reader.next)
           t == Range(First(h, Count))
<1>1. h # <<>> /\ reader' = [reader EXCEPT !.next = NextOf(h), !.got = @ \cup t]
  BY DEF PageOn
<1>2. UNCHANGED <<run, build, stream, last, archive, writer, trimmed, gone, late>>
  BY DEF PageOn, logHistory
<1>3. /\ DOMAIN reader' = {"pc", "next", "got"} /\ reader'.next = NextOf(h) /\ reader'.got = reader.got \cup t
      /\ reader'.pc # "panel"
  BY <1>1 DEF PageOn, LogInv, ReaderInv
<1>4. /\ reader.next \in 0 .. last /\ last \in Nat
      /\ NextOf(h) \in 1 .. last
      /\ late \/ \A e \in 1 .. last : e > reader.next /\ e <= NextOf(h) => e \in t \cup trimmed \cup gone
  BY <1>1, HistorySeen DEF LogInv, ReaderInv, StreamInv
<1> HIDE DEF h, t
<1>6. ReaderInv'
  <2>1. PICK to, u : to = NextOf(h) /\ u = t
    OBVIOUS
  <2>2. to \in 0 .. last
    BY <1>4, <2>1
  <2> QED  BY <1>2, <1>3, <1>4, <2>1, <2>2, ReaderGoes DEF LogInv
<1> QED  BY <1>2, <1>6, ReaderKeeps

\* The panel asks from the start, and its stream begins where the history ended.
LEMMA PanelLoadsKeeps ==
    ASSUME LogInv, PanelLoads
    PROVE  LogInv'
<1> DEFINE h == History(0)
           t == Range(First(h, Count))
<1>1. /\ DOMAIN reader' = {"pc", "next", "got"} /\ reader'.got = t /\ reader'.pc # "panel"
      /\ reader'.next = IF h = <<>> THEN 0 ELSE NextOf(h)
      /\ reader.next = 0
  <2>1. reader'.pc # "panel"
    BY DEF PanelLoads
  <2> QED  BY <2>1 DEF PanelLoads, LogInv, ReaderInv
<1>2. UNCHANGED <<run, build, stream, last, archive, writer, trimmed, gone, late>>
  BY DEF PanelLoads, logHistory
<1>3. last \in Nat /\ 0 \in 0 .. last
  BY DEF LogInv, StreamInv
<1>4. ReaderInv'
  <2>1. CASE h = <<>>
    <3>1. reader'.next = 0
      BY <1>1, <2>1
    <3> QED  BY <1>1, <1>2, <1>3, <3>1 DEF ReaderInv, ReadersSeeNoHole
  <2>2. CASE h # <<>>
    <3>1. /\ NextOf(h) \in 1 .. last
          /\ late \/ \A e \in 1 .. last : e > 0 /\ e <= NextOf(h) => e \in t \cup trimmed \cup gone
      BY <1>3, <2>2, HistorySeen DEF LogInv
    <3> HIDE DEF h, t
    <3>2. PICK to, u : to = NextOf(h) /\ u = t
      OBVIOUS
    <3>3. to \in 0 .. last /\ reader'.next = to /\ reader'.got = u
      BY <1>1, <1>3, <2>2, <3>1, <3>2
    <3> QED  BY <1>1, <1>2, <3>1, <3>2, <3>3, ReaderGoes DEF LogInv
  <2> QED  BY <2>1, <2>2
<1> QED  BY <1>2, <1>4, ReaderKeeps

LEMMA FollowKeeps ==
    ASSUME LogInv, Follow
    PROVE  LogInv'
<1> DEFINE r == XRead(reader.next)
<1>1. PICK n \in 1 .. Len(r) : reader' = [reader EXCEPT !.next = r[n], !.got = @ \cup Range(First(r, n))]
  BY DEF Follow
<1>2. UNCHANGED <<run, build, stream, last, archive, writer, trimmed, gone, late>>
  BY DEF Follow, logHistory
<1>3. /\ DOMAIN reader' = {"pc", "next", "got"} /\ reader'.next = r[n]
      /\ reader'.got = reader.got \cup Range(First(r, n)) /\ reader'.pc # "panel"
  BY <1>1 DEF Follow, LogInv, ReaderInv
<1>4. last \in Nat /\ reader.next \in 0 .. last /\ reader.next \in Nat /\ IsLog(stream, last)
  BY StreamIsLog DEF LogInv, ReaderInv, StreamInv
<1>5. IsLog(r, last) /\ \A e : e \in Range(r) <=> e \in Range(stream) /\ e > reader.next
  <2>1. PICK k : SplitsAt(stream, reader.next, k)
    BY <1>4, StreamSplits DEF LogInv
  <2> QED  BY <1>4, <2>1, AfterHas DEF XRead
<1> HIDE DEF r
<1>6. r[n] \in 1 .. last /\ r[n] \in Range(r) /\ n \in Nat /\ Len(r) \in Nat
  BY <1>1, <1>4, <1>5, LogTyped
<1>7. late \/ \A e \in 1 .. last : e \in Range(stream) \cup trimmed
  <2>1. stream # <<>>
    <3>1. \A e : e \notin Range(<<>>)
      BY DEF Range
    <3> QED  BY <1>5, <1>6, <3>1
  <2> QED  BY <2>1 DEF LogInv, StreamInv
<1>8. ASSUME NEW e \in Range(r), e <= r[n]
      PROVE  e \in Range(First(r, n))
  <2>1. /\ IsLog(First(r, n), last) /\ n \in 1 .. Len(First(r, n)) /\ First(r, n)[n] = r[n]
        /\ \A i \in 1 .. Len(First(r, n)) : i \in 1 .. Len(r) /\ First(r, n)[i] = r[i]
    <3>1. /\ IsLog(First(r, n), last) /\ Len(First(r, n)) = IF Len(r) < n THEN Len(r) ELSE n
          /\ \A i \in 1 .. Len(First(r, n)) : i \in 1 .. Len(r) /\ First(r, n)[i] = r[i]
      BY <1>4, <1>5, <1>6, FirstHas
    <3>2. n \in 1 .. Len(First(r, n))
      BY <1>1, <1>6, <3>1
    <3> QED  BY <3>1, <3>2
  <2> QED  BY <1>4, <1>5, <1>8, <2>1, PrefixSeen
<1>9. late \/ \A e \in 1 .. last : e > reader.next /\ e <= r[n] => e \in Range(First(r, n)) \cup trimmed \cup gone
  BY <1>5, <1>7, <1>8
<1>10. ReaderInv'
  <2>1. PICK to, u : to = r[n] /\ u = Range(First(r, n))
    OBVIOUS
  <2>2. to \in 0 .. last
    BY <1>4, <1>6, <2>1
  <2> QED  BY <1>2, <1>3, <1>9, <2>1, <2>2, ReaderGoes DEF LogInv
<1> QED  BY <1>2, <1>10, ReaderKeeps

LEMMA CancelKeeps ==
    ASSUME LogInv, Cancel
    PROVE  LogInv'
<1>1. /\ UNCHANGED <<build, stream, last, archive, writer, trimmed, gone, late, reader>>
      /\ run' \in Terminal
  BY DEF Cancel, Terminal, logHistory
<1>2. StreamInv'
  BY <1>1 DEF LogInv, StreamInv
<1>3. BuildTyped'
  BY <1>1 DEF LogInv, BuildTyped
<1>4. DecideInv'
  BY <1>1 DEF LogInv, DecideInv, DecideAt, Deciding
<1>5. GoneInv'
  BY <1>1 DEF LogInv, GoneInv
<1>6. ReaderInv'
  BY <1>1 DEF LogInv, ReaderInv, ReadersSeeNoHole
<1> QED  BY <1>2, <1>3, <1>4, <1>5, <1>6 DEF LogInv

LEMMA PanelClosesKeeps ==
    ASSUME LogInv, PanelCloses
    PROVE  LogInv'
<1>1. UNCHANGED <<run, build, stream, last, archive, writer, trimmed, gone, late>>
  BY DEF PanelCloses, logHistory
<1>2. /\ DOMAIN reader' = {"pc", "next", "got"} /\ reader'.next = reader.next /\ reader'.got = reader.got
      /\ reader'.pc # "panel"
  BY DEF PanelCloses, LogInv, ReaderInv
<1>3. ReaderInv'
  BY <1>1, <1>2 DEF LogInv, ReaderInv, ReadersSeeNoHole
<1> QED  BY <1>1, <1>3, ReaderKeeps

LEMMA LogStarts == LogInit => LogInv
<1> SUFFICES ASSUME LogInit
             PROVE  LogInv
  OBVIOUS
<1>1. /\ build = [b \in Builds |-> Fresh] /\ stream = <<>> /\ last = 0 /\ archive = <<>>
      /\ writer = <<>> /\ trimmed = {} /\ gone = {} /\ late = FALSE
  BY DEF LogInit
<1>2. StreamInv
  <2>1. stream \in Seq(Nat) /\ writer \in Seq(Builds) /\ Len(stream) = 0 /\ Len(writer) = 0
    BY <1>1
  <2>2. IsLog(archive, last)
    BY <1>1 DEF IsLog
  <2>3. 1 .. last = {}
    BY <1>1
  <2> QED  BY <1>1, <2>1, <2>2, <2>3 DEF StreamInv
<1>3. BuildTyped /\ \A b \in Builds : build[b].pc = "queued"
  BY <1>1 DEF BuildTyped, Fresh
<1>4. DecideInv
  BY <1>1, <1>3 DEF DecideInv, DecideAt, Deciding
<1>5. GoneInv
  BY <1>1 DEF GoneInv
<1>6. ReaderInv
  <2>1. PICK pc \in {"page", "panel"} : reader = [pc |-> pc, next |-> 0, got |-> {}]
    BY DEF LogInit
  <2> QED  BY <1>1, <2>1 DEF ReaderInv, ReadersSeeNoHole
<1> QED  BY <1>2, <1>3, <1>4, <1>5, <1>6 DEF LogInv

LEMMA LogKeeps == LogInv /\ [LogNext]_logVars => LogInv'
<1> SUFFICES ASSUME LogInv, [LogNext]_logVars
             PROVE  LogInv'
  OBVIOUS
<1>1. ASSUME NEW b \in Builds,
             \/ Start(b) \/ Prepare(b) \/ PrepareFails(b) \/ PrintLine(b) \/ ExitHost(b) \/ ExitDocker(b)
             \/ RemoveContainer(b) \/ BuildMark(b) \/ System(b) \/ BuildCrash(b)
             \/ ArchiveLen(b) \/ ArchivePage(b) \/ ArchivePut(b) \/ ArchiveDrop(b)
      PROVE  LogInv'
  BY <1>1, StartKeeps, PrepareKeeps, ExecKeeps, RemoveKeeps, MarkKeeps, SystemKeeps, CrashKeeps,
     LenKeeps, PageKeeps, PutKeeps, DropKeeps
<1>2. CASE Cancel \/ PageOn \/ PanelLoads \/ Follow \/ PanelCloses
  BY <1>2, CancelKeeps, PageOnKeeps, PanelLoadsKeeps, FollowKeeps, PanelClosesKeeps
<1>3. CASE UNCHANGED logVars
  <2>1. UNCHANGED <<run, build, stream, last, archive, writer, trimmed, gone, late, reader>>
    BY <1>3 DEF logVars, logState, logHistory
  <2>2. ReaderInv'
    BY <2>1 DEF LogInv, ReaderInv, ReadersSeeNoHole
  <2> QED  BY <2>1, <2>2, ReaderKeeps
<1> QED  BY <1>1, <1>2, <1>3 DEF LogNext

\* Moving the log of a run to the archive loses no entry of the build that
\* decides the run: each entry appended is in the stream, in the archive, taken
\* by the cap, or was appended by another build between the last page and the
\* Drop; and the archive is in the order of the appends.  Archiver.ArchiveAndDrop
\* with the writers of the run's other build, for any number of builds, any cap
\* and any page size.
THEOREM ArchiveKeepsLog == LogSpec => []ArchiveLosesNothing
<1>1. LogInv => ArchiveLosesNothing
  <2> SUFFICES ASSUME LogInv
               PROVE  ArchiveLosesNothing
    OBVIOUS
  <2>1. \A e \in 1 .. last : e \in Range(stream) \cup Range(archive) \cup trimmed \cup gone
    BY DEF LogInv, StreamInv
  <2>2. \A e \in gone : \E b \in Builds : b # writer[e] /\ build[b].pc = "done"
    BY DEF LogInv, GoneInv
  <2>3. \A i \in 1 .. Len(archive) - 1 : archive[i] < archive[i + 1]
    <3>1. last \in Nat /\ IsLog(archive, last)
      BY DEF LogInv, StreamInv
    <3>2. Len(archive) \in Nat
      BY <3>1, LogTyped
    <3>3. \A i \in 1 .. Len(archive) - 1 : i \in 1 .. Len(archive) /\ i + 1 \in 1 .. Len(archive) /\ i < i + 1
      BY <3>2
    <3> QED  BY <3>1, <3>3 DEF IsLog
  <2> QED  BY <2>1, <2>2, <2>3 DEF ArchiveLosesNothing
<1> QED  BY <1>1, LogStarts, LogKeeps, PTL DEF LogSpec

\* A reader that pages through the history by the next it is given, and the
\* panel that reads the history once and follows the stream, miss no entry up to
\* where they are but those the cap took or no archive has, also when the log
\* moves to the archive between two requests (as long as nothing is appended
\* after the Drop).  ReadHistory with source=auto, sliceEntriesFrom and Follow,
\* for any size of a page.
THEOREM HistoryHasNoHole == LogSpec => []ReadersSeeNoHole
<1>1. LogInv => ReadersSeeNoHole
  BY DEF LogInv, ReaderInv
<1> QED  BY <1>1, LogStarts, LogKeeps, PTL DEF LogSpec

=============================================================================
