----------------------------- MODULE StageWork -----------------------------
(***************************************************************************)
(* What the workers do for the stages of one run: ExecuteStage renders a   *)
(* stage, runs its steps in order (shell, artifact steps, plugins), keeps  *)
(* the step rows and passes outputs on through stage_outputs.json.  The    *)
(* stages that are ready run in parallel, each by a task of its own, with  *)
(* its own OutputsFile and so its own mutex; a task whose worker dies or   *)
(* that returns an error is delivered again.  Which stage is ready and     *)
(* what becomes of the run is RunEngine's; here a stage starts when all it *)
(* needs has succeeded, and the run may end (be cancelled, fail) any time. *)
(***************************************************************************)
EXTENDS Integers, Sequences, FiniteSets, SequencesExt, PluginAction

CONSTANTS
    Stages,
    Needs,         \* Needs[s]: the stages s waits for
    Programs,      \* the pipelines to choose from, see Step and Template below
    Names,         \* names of artifacts
    Plugins,       \* the plugins of the registry and
    Versions,      \* their versions
    MaxDeliveries, \* how often a stage task is delivered, 1 + asynq.MaxRetry
    MaxFaults      \* bound on crashes and failed statements

\* The steps a stage lists, in their order; the artifact names among them.
IsSteps(steps) ==
    /\ steps \in Seq(Range(steps))
    /\ \A step \in Range(steps) : {"name", "with"} \subseteq DOMAIN step /\ step.name \in Names \cup {""}

ASSUME StageWorkAssumption ==
    /\ IsFiniteSet(Stages)
    /\ Needs \in [Stages -> SUBSET Stages]
    /\ \A P \in Programs, s \in Stages : IsSteps(P[s].steps) /\ IsSteps(P[s].uses)
    /\ MaxDeliveries \in Nat \ {0} /\ MaxFaults \in Nat

VARIABLES
    prog,       \* the program of each stage: its steps and its outputs: template
    ended,      \* runs.status is terminal
    status,     \* stages.status
    rows,       \* steps.status of the rows of a stage
    deliveries, \* deliveries of the task of a stage so far
    due,        \* stages whose task waits in the queue
    ex,         \* the executions under way
    file,       \* stage_outputs.json
    paths,      \* artifact storage: for a key, the inode at its path and at path.tmp
    disk,       \* the content of the inodes
    faults,
    \* history
    saved,      \* the outputs a stage has written
    clash,      \* a Set of the outputs file met another one or a read, or was cut short
    mixed,      \* artifact keys two Puts of which overlapped, or one was cut short
    got,        \* what the last download of a stage unpacked
    unmarked    \* an update of a step row failed

state   == <<prog, ended, status, rows, deliveries, due, ex, file, paths, disk, faults>>
history == <<saved, clash, mixed, got, unmarked>>
vars    == <<state, history>>

(* A template is a literal, a step's output or the output of a needed stage, *)
(* a value a literal, "" or the name of an artifact uploaded in this run; a   *)
(* stage has one output or none, a step one (an artifact's id or a plugin's). *)
NoTemplate == [from |-> "none", at |-> "", value |-> ""]

NoFile == [kind |-> "ok", map |-> <<>>]  \* missing or empty: load returns an empty map
Torn   == [kind |-> "torn", map |-> <<>>]

Idle == [pc |-> "idle", k |-> 0, needs |-> <<>>, out |-> NoTemplate, steps |-> <<>>,
         outs |-> <<>>, map |-> <<>>, key |-> <<"", "">>, fd |-> 0]

Keys == Names \X {"tgz", "json"}
NoPath == [dst |-> 0, tmp |-> 0]

Pcs == {"idle", "step", "mark", "create", "copy", "rename", "outputs", "load", "trunc", "write", "report"}

TypeOK ==
    /\ prog \in Programs /\ ended \in BOOLEAN
    /\ status \in [Stages -> {"pending", "success", "failed"}]
    /\ \A s \in Stages : Range(rows[s]) \subseteq {"pending", "running", "success", "failed"}
    /\ deliveries \in [Stages -> 0 .. MaxDeliveries] /\ due \subseteq Stages
    /\ \A s \in Stages : ex[s].pc \in Pcs /\ ex[s].k \in 0 .. Len(ex[s].steps) + 1
    /\ file.kind \in {"ok", "torn"} /\ DOMAIN file.map \subseteq Stages
    /\ \A k \in Keys : {paths[k].dst, paths[k].tmp} \subseteq 0 .. Len(disk)
    /\ Range(disk) \subseteq Stages \cup {"empty", "mixed"}
    /\ DOMAIN saved \subseteq Stages /\ clash \in BOOLEAN /\ mixed \subseteq Keys

\* A stage with a uses: of its own and no steps is one step without an id.
StepsOf(s) == IF prog[s].steps = <<>> /\ prog[s].uses # <<>> THEN prog[s].uses ELSE prog[s].steps

Init ==
    /\ prog \in Programs
    /\ ended = FALSE
    /\ status = [s \in Stages |-> "pending"]
    /\ rows = [s \in Stages |-> [k \in DOMAIN StepsOf(s) |-> "pending"]]
    /\ deliveries = [s \in Stages |-> 0]
    /\ due = {s \in Stages : Needs[s] = {}}
    /\ ex = [s \in Stages |-> Idle]
    /\ file = NoFile
    /\ paths = [k \in Keys |-> NoPath]
    /\ disk = <<>>
    /\ faults = 0
    /\ saved = <<>> /\ clash = FALSE /\ mixed = {} /\ unmarked = FALSE
    /\ got = [s \in Stages |-> ""]

Fault == faults < MaxFaults /\ faults' = faults + 1

At(s, pc) == ex[s].pc = pc
Current(s) == ex[s].steps[ex[s].k]

-----------------------------------------------------------------------------
(* Starting: render the stage                                              *)

Known(f, x) == IF x \in DOMAIN f THEN f[x] ELSE ""

\* RenderString in a context with the needs and the step outputs given.
Rendered(t, needs, outs) ==
    CASE t.from = "step" -> [NoTemplate EXCEPT !.from = "literal", !.value = Known(outs, t.at)]
      [] t.from = "need" -> [NoTemplate EXCEPT !.from = "literal", !.value = Known(needs, t.at)]
      [] OTHER -> t

\* ProcessTask and ExecuteStage up to the loop.  Everything the stage holds is
\* rendered here, outputs: included, before there is a step output.  An outputs
\* file that does not parse counts as empty.
Begin(s) ==
    /\ s \in due /\ At(s, "idle") /\ deliveries[s] < MaxDeliveries
    /\ due' = due \ {s}
    /\ deliveries' = [deliveries EXCEPT ![s] = @ + 1]
    /\ \/ /\ ended
          /\ UNCHANGED <<ex, faults>>
       \/ /\ ~ended
          /\ LET needs == file.map
             IN  ex' = [ex EXCEPT ![s] =
                    [Idle EXCEPT !.pc = "step", !.k = 1, !.needs = needs,
                       !.out = Rendered(prog[s].out, needs, <<>>),
                       !.steps = [k \in DOMAIN StepsOf(s) |->
                          [StepsOf(s)[k] EXCEPT !.with = Rendered(@, needs, <<>>)]]]]
          /\ UNCHANGED faults
       \/ /\ ~ended      \* a row cannot be read, the stage is gone, no workspace
          /\ Fault
          /\ ex' = [ex EXCEPT ![s] = [Idle EXCEPT !.pc = "report"]]
    /\ clash' = (clash \/ file.kind = "torn")
    /\ UNCHANGED <<prog, ended, status, rows, file, paths, disk, saved, mixed, got, unmarked>>

-----------------------------------------------------------------------------
(* The loop over the steps                                                 *)

\* UPDATE steps SET status = st unless the row has failed before.
MarkUnlessFailed(s, st) ==
    \/ /\ rows' = [rows EXCEPT ![s][ex[s].k] = IF @ = "failed" THEN @ ELSE st]
       /\ UNCHANGED <<faults, unmarked>>
    \/ /\ Fault
       /\ unmarked' = TRUE
       /\ UNCHANGED rows

\* UpdateStepStatus, its error ignored.
Mark(s, st) ==
    \/ /\ rows' = [rows EXCEPT ![s][ex[s].k] = st]
       /\ UNCHANGED <<faults, unmarked>>
    \/ /\ Fault
       /\ unmarked' = TRUE
       /\ UNCHANGED rows

Goto(s, pc) == ex' = [ex EXCEPT ![s].pc = pc]

\* The end of a step: its outputs, if there are any, are kept under its id; the
\* id stands for the name of a step that has none.
Succeeds(s, value) ==
    ex' = [ex EXCEPT ![s].pc = "mark",
                     ![s].outs = IF value = "" \/ Current(s).id = "" THEN @
                                 ELSE [n \in DOMAIN @ \cup {Current(s).id} |->
                                         IF n = Current(s).id THEN value ELSE @[n]]]
\* -1 marks the failed step.
Fails(s) == ex' = [ex EXCEPT ![s].pc = "mark", ![s].fd = -1]

\* run: in bash.  It exits with 0, with something else, or is killed at the
\* timeout; a blank script is skipped.
Shell(s) ==
    \/ /\ Current(s).kind \in {"shell", "empty"}
       /\ Succeeds(s, "")
    \/ /\ Current(s).kind = "shell"
       /\ Fails(s)

\* Pack up to its first Put: the files are collected, unless none matches.
Pack(s, name) ==
    \/ ex' = [ex EXCEPT ![s].pc = "create", ![s].key = <<name, "tgz">>]
    \/ Fails(s)

\* helios/upload-artifact@v1 takes a name and paths.
UploadArtifact(s) ==
    /\ Current(s).kind = "upload"
    /\ IF Current(s).name = "" THEN Fails(s) ELSE Pack(s, Current(s).name)

\* Unpack: the file must be there and be a tar.gz to its end.
Unpack(s, inode) ==
    \/ /\ inode # 0 /\ disk[inode] # "empty"
       /\ Succeeds(s, "")
       /\ got' = [got EXCEPT ![s] = disk[inode]]
    \/ /\ inode # 0 => disk[inode] \notin Stages
       /\ Fails(s)
       /\ UNCHANGED got

\* helios/download-artifact@v1: an id without a run is the name of an artifact
\* of this one.  An id that is missing fails.
DownloadArtifact(s) ==
    /\ Current(s).kind = "download"
    /\ LET key == <<Current(s).with.value, "tgz">>
       IN  Unpack(s, IF key \in Keys THEN paths[key].dst ELSE 0)

\* runPlugin: a container with all its secrets named is run.
RunPlugin(s) ==
    /\ Current(s).kind = "plugin"
    /\ LET step == Current(s)
           v    == Resolve(Plugins, Versions, 0, step.ref)
           runs == /\ v # NoVersion /\ v.action.using = "container"
                   /\ Unauthorized(v.action.needs, step.secrets, step.keys) = {}
       IN  \/ runs /\ Succeeds(s, Known(SetOutputs(v.action.prints), "tag"))
           \/ Fails(s)

\* The row goes to running and the step runs in one go, an upload up to its Put.
StepStart(s) ==
    /\ At(s, "step") /\ ex[s].k <= Len(ex[s].steps)
    /\ Mark(s, "running")
    /\ \/ DownloadArtifact(s)
       \/ /\ Shell(s) \/ UploadArtifact(s) \/ RunPlugin(s)
          /\ UNCHANGED got
    /\ UNCHANGED <<prog, ended, status, deliveries, due, file, paths, disk, saved, clash, mixed>>

\* The row goes to success or failed; a failed step ends the stage.
StepEnd(s) ==
    /\ At(s, "mark")
    /\ LET failed == ex[s].fd = -1
       IN  /\ Mark(s, IF failed THEN "failed" ELSE "success")
           /\ ex' = [ex EXCEPT ![s].pc = IF failed THEN "report" ELSE "step",
                               ![s].k = IF failed THEN @ ELSE @ + 1]
    /\ UNCHANGED <<prog, ended, status, deliveries, due, file, paths, disk, saved, clash, mixed, got>>

-----------------------------------------------------------------------------
(* LocalFS.Put: path.tmp is created or truncated, written, then renamed    *)

Putting(t, key) == ex[t].pc \in {"copy", "rename"} /\ ex[t].key = key

Create(s) ==
    /\ At(s, "create")
    /\ LET key == ex[s].key
           tmp == paths[key].tmp
       IN  /\ disk' = IF tmp = 0 THEN Append(disk, "empty") ELSE [disk EXCEPT ![tmp] = "empty"]
           /\ paths' = [paths EXCEPT ![key].tmp = IF tmp = 0 THEN Len(disk) + 1 ELSE tmp]
           /\ ex' = [ex EXCEPT ![s].pc = "copy", ![s].fd = IF tmp = 0 THEN Len(disk) + 1 ELSE tmp]
           /\ mixed' = IF \E t \in Stages : Putting(t, key) THEN mixed \cup {key} ELSE mixed
    /\ UNCHANGED <<prog, ended, status, rows, deliveries, due, file, faults, saved, clash, got, unmarked>>

\* A Put that renames the file although the copy has failed.
CopyAnyway(s) ==
    /\ At(s, "copy")
    /\ Goto(s, "rename")
    /\ \/ /\ disk' = [disk EXCEPT ![ex[s].fd] = IF @ = "empty" THEN s ELSE "mixed"]
          /\ UNCHANGED faults
       \/ /\ Fault
          /\ UNCHANGED disk
    /\ UNCHANGED <<prog, ended, status, rows, deliveries, due, file, paths, history>>

\* The copy may fail (no space); the path of the temporary file is removed.
Copy(s) ==
    /\ At(s, "copy")
    /\ \/ /\ disk' = [disk EXCEPT ![ex[s].fd] = IF @ = "empty" THEN s ELSE "mixed"]
          /\ Goto(s, "rename")
          /\ UNCHANGED <<paths, faults>>
       \/ /\ Fault
          /\ paths' = [paths EXCEPT ![ex[s].key].tmp = 0]
          /\ Fails(s)
          /\ UNCHANGED disk
    /\ UNCHANGED <<prog, ended, status, rows, deliveries, due, file, history>>

\* After the tar.gz the manifest, and then the step has its id.
NextPut(s, name) ==
    IF ex[s].key[2] = "tgz"
    THEN ex' = [ex EXCEPT ![s].pc = "create", ![s].key = <<name, "json">>]
    ELSE Succeeds(s, name)

Rename(s) ==
    /\ At(s, "rename")
    /\ LET key == ex[s].key
       IN  \/ /\ paths[key].tmp = 0        \* another Put has renamed it
              /\ Fails(s)
              /\ UNCHANGED paths
           \/ /\ paths[key].tmp # 0
              /\ paths' = [paths EXCEPT ![key] = [dst |-> paths[key].tmp, tmp |-> 0]]
              /\ NextPut(s, Current(s).name)
    /\ UNCHANGED <<prog, ended, status, rows, deliveries, due, file, disk, faults, history>>

-----------------------------------------------------------------------------
(* After the last step: ResolveStageOutputs and OutputsFile.Set            *)

\* What is left of outputs: is resolved with the step outputs.
Resolved(s) ==
    /\ At(s, "step") /\ ex[s].k > Len(ex[s].steps)
    /\ ex' = [ex EXCEPT ![s].pc = IF ex[s].out.from = "none" THEN "report" ELSE "load",
                        ![s].out = Rendered(@, ex[s].needs, ex[s].outs)]
    /\ UNCHANGED <<prog, ended, status, rows, deliveries, due, file, paths, disk, faults, history>>

Setting(t) == ex[t].pc \in {"trunc", "write"}

\* A Set that starts from an empty map.
SetBlank(s) ==
    /\ At(s, "load")
    /\ ex' = [ex EXCEPT ![s].pc = "trunc", ![s].map = [t \in {s} |-> ex[s].out.value]]
    /\ clash' = (clash \/ \E t \in Stages : Setting(t))
    /\ UNCHANGED <<prog, ended, status, rows, deliveries, due, file, paths, disk, faults,
                   saved, mixed, got, unmarked>>

\* Set returns when the file does not parse; the caller ignores the error.
SetLoad(s) ==
    /\ At(s, "load")
    /\ IF file.kind = "torn" THEN Goto(s, "report")
       ELSE ex' = [ex EXCEPT ![s].pc = "trunc",
                    ![s].map = [t \in DOMAIN file.map \cup {s} |->
                                   IF t = s THEN ex[s].out.value ELSE file.map[t]]]
    /\ clash' = (clash \/ \E t \in Stages : Setting(t))
    /\ UNCHANGED <<prog, ended, status, rows, deliveries, due, file, paths, disk, faults,
                   saved, mixed, got, unmarked>>

\* os.WriteFile truncates the file and then writes it.
SetTruncate(s) ==
    /\ At(s, "trunc")
    /\ file' = Torn
    /\ Goto(s, "write")
    /\ UNCHANGED <<prog, ended, status, rows, deliveries, due, paths, disk, faults, history>>

SetWrite(s) ==
    /\ At(s, "write")
    /\ file' = [kind |-> "ok", map |-> ex[s].map]
    /\ saved' = [t \in DOMAIN saved \cup {s} |-> IF t = s THEN ex[s].map[s] ELSE saved[t]]
    /\ Goto(s, "report")
    /\ UNCHANGED <<prog, ended, status, rows, deliveries, due, paths, disk, faults,
                   clash, mixed, got, unmarked>>

-----------------------------------------------------------------------------
(* The end of the task                                                     *)

Passed(s) == ex[s].pc = "report" /\ ex[s].k > Len(ex[s].steps) /\ ex[s].k > 0

\* OnStageComplete and the tick behind it: a success lets the stages that wait
\* for it start.  A failed stage makes the task fail, to be delivered again; so
\* does a statement that fails here.  The worker may die before the task is done.
Report(s) ==
    /\ At(s, "report")
    /\ \/ /\ status' = [status EXCEPT ![s] = IF Passed(s) THEN "success" ELSE "failed"]
          /\ due' = IF Passed(s)
                    THEN due \cup {t \in Stages : /\ s \in Needs[t] /\ deliveries[t] = 0
                                                  /\ \A u \in Needs[t] \ {s} : status[u] = "success"}
                    ELSE due \cup {s}
          /\ UNCHANGED faults
       \/ /\ Fault
          /\ due' = due \cup {s}
          /\ status' \in {status, [status EXCEPT ![s] = IF Passed(s) THEN "success" ELSE "failed"]}
    /\ ex' = [ex EXCEPT ![s] = Idle]
    /\ UNCHANGED <<prog, ended, rows, deliveries, file, paths, disk, history>>

\* The worker dies; the task is delivered again.
Crash(s) ==
    /\ ~At(s, "idle")
    /\ Fault
    /\ ex' = [ex EXCEPT ![s] = Idle]
    /\ due' = due \cup {s}
    /\ clash' = (clash \/ At(s, "write"))
    /\ mixed' = IF ex[s].pc \in {"copy", "rename"} THEN mixed \cup {ex[s].key} ELSE mixed
    /\ UNCHANGED <<prog, ended, status, rows, deliveries, file, paths, disk, saved, got, unmarked>>

\* Cancel, or a failed stage that ends the run.
RunEnds ==
    /\ ~ended
    /\ ended' = TRUE
    /\ UNCHANGED <<prog, status, rows, deliveries, due, ex, file, paths, disk, faults, history>>

Next ==
    \/ \E s \in Stages : \/ Begin(s) \/ StepStart(s) \/ StepEnd(s)
                         \/ Create(s) \/ Copy(s) \/ Rename(s)
                         \/ Resolved(s) \/ SetLoad(s) \/ SetTruncate(s) \/ SetWrite(s)
                         \/ Report(s) \/ Crash(s)
    \/ RunEnds

Spec == Init /\ [][Next]_vars

-----------------------------------------------------------------------------
(* Properties                                                              *)

\* stage_outputs.json keeps what every stage has written, whatever order the
\* stages and the repetitions of their tasks come in, and a stage that starts
\* finds what those it needs have written, as long as no Set overlapped with
\* another one or with a read and none was cut short while it wrote.
OutputsKept ==
    clash \/ \A s \in DOMAIN saved :
                /\ \/ file.kind = "torn"
                   \/ s \in DOMAIN file.map /\ file.map[s] = saved[s]
                /\ \A t \in Stages : s \in Needs[t] /\ ex[t].steps # <<>> => s \in DOMAIN ex[t].needs

\* A stage row says success only over step rows that all say success, after
\* however many repetitions and crashes, unless the update of a row failed or a
\* repetition is due; it is not made up for once the run has ended.
SuccessRows ==
    \A s \in Stages :
        status[s] = "success" /\ At(s, "idle") /\ s \notin due /\ ~ended /\ ~unmarked
           => Range(rows[s]) \subseteq {"success"}

\* What a download unpacks, and what stands under a key, is the whole of what
\* one upload packed, unless two Puts of the key overlapped or one was cut short.
ArtifactWhole ==
    /\ \A s \in Stages : got[s] \in Stages \cup {""} \/ mixed # {}
    /\ \A k \in Keys : paths[k].dst # 0 /\ k \notin mixed => disk[paths[k].dst] \in Stages

\* spec/04-pipeline-dsl.md, artifact passing: a stage publishes the id of an
\* upload as its output, and a stage that needs it downloads the artifact with
\* needs.<stage>.outputs.<key>.
IdReachesNeeds ==
    \A s, t \in Stages :
        (/\ s \in Needs[t] /\ status[s] = "success" /\ ~clash /\ file.kind = "ok"
         /\ prog[s].out.from = "step"
         /\ \E step \in Range(prog[s].steps) : step.kind = "upload" /\ step.id = prog[s].out.at)
           => Known(file.map, s) \in {step.name : step \in Range(prog[s].steps)} \ {""}
=============================================================================
