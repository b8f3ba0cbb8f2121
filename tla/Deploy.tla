------------------------------- MODULE Deploy -------------------------------
(***************************************************************************)
(* The helios/ssh-deploy step: the batch executor runs one task per host,  *)
(* serially, in parallel or in rolling batches, until a threshold of       *)
(* failures; a task backs up the destination, uploads the new version and  *)
(* runs the scripts; when a host failed, the hosts that succeeded are      *)
(* restored from their newest backup.  The stage may be delivered again:   *)
(* after the death of its worker, or when it takes longer than the task    *)
(* may, and then the first deployment goes on beside the second, for       *)
(* nothing in it looks at the context that is over.  Backups stay on the   *)
(* hosts.  A version is what the destination directory holds.              *)
(***************************************************************************)
EXTENDS Integers, Sequences, FiniteSets, SequencesExt

CONSTANTS
    N,             \* number of hosts
    MaxThreshold,  \* bound on max_failures
    MaxWidth,      \* bound on batch_size and max_concurrency
    Scripts,       \* the scripts given, of "before", "restart" and "after"
    MaxRepeats,    \* bound on the deliveries after the first
    MaxMeddling,   \* bound on the steps of a deployment that was overtaken by the next
    RepeatsIn,     \* strategies under which those are explored, a bound
    RepeatsAt,     \* thresholds at which those are explored, a bound
    MeddlesAt      \* hosts at which the steps of an overtaken deployment are, a bound

ASSUME DeployAssumption ==
    /\ {N, MaxThreshold, MaxWidth} \subseteq Nat \ {0} /\ {MaxRepeats, MaxMeddling} \subseteq Nat
    /\ Scripts \subseteq {"before", "restart", "after"}
    /\ RepeatsIn \subseteq {"serial", "parallel", "rolling"}

Hosts == 1 .. N

VARIABLES
    opts,      \* the inputs of the step
    pc,        \* of Run: "hosts", "rollback", "done"
    turn,      \* the first host of the batch (rolling)
    task,      \* the task of each host
    failures,
    deployed,  \* deployedHosts
    back,      \* hosts of deployed rolled back so far
    version,   \* what dest holds on a host
    baks,      \* dest.helios-bak-* on a host, by the age of the tag
    repeats,
    meddling,  \* the steps that overtaken deployments have left, a bound
    \* history
    before,    \* version and baks when the step began
    tried,     \* outcome of the rollback of a host
    disturbed  \* hosts at which an overtaken deployment has been since the step began

vars == <<opts, pc, turn, task, failures, deployed, back, version, baks,
          repeats, meddling, before, tried, disturbed>>

Strategies == {"serial", "parallel", "rolling"}
Versions == {"absent", "older", "old", "new", "torn"}

Idle == [pc |-> "idle", error |-> "", bak |-> ""]

TypeOK ==
    /\ opts.strategy \in Strategies /\ pc \in {"hosts", "rollback", "done"}
    /\ turn \in Hosts /\ failures \in 0 .. N /\ Range(deployed) \subseteq Hosts
    /\ \A i \in Hosts : /\ task[i].pc \in {"idle", "backup", "upload", "before", "restart", "after",
                                           "append", "ended", "done"}
                        /\ task[i].error \in {"", "failed", "stopped"}
                        /\ version[i] \in Versions /\ Range(baks[i]) \subseteq Versions
    /\ repeats \in 0 .. MaxRepeats /\ meddling \in 0 .. MaxMeddling /\ disturbed \subseteq Hosts

\* The hosts have never been deployed to, or have the old version and the
\* backup an earlier deployment left.
Init ==
    /\ opts \in [strategy : Strategies, max : 0 .. MaxThreshold, width : 1 .. MaxWidth,
                 dest : BOOLEAN, source : BOOLEAN]
    /\ opts.source => opts.dest                  \* without a dest the source is not read
    /\ opts.strategy = "serial" => opts.width = 1
    /\ pc = "hosts" /\ turn = 1 /\ task = [i \in Hosts |-> Idle] /\ failures = 0
    /\ deployed = <<>> /\ back = 0 /\ repeats = 0 /\ meddling = 0
    /\ \E found \in {[version |-> "absent", baks |-> <<>>], [version |-> "old", baks |-> <<"older">>]} :
          /\ before = [i \in Hosts |-> found]
          /\ version = [i \in Hosts |-> found.version]
          /\ baks = [i \in Hosts |-> found.baks]
    /\ tried = [i \in Hosts |-> ""] /\ disturbed = {}

\* Mutant: one failure more than the threshold.
ShouldStopLate == failures > opts.max

ShouldStop == IF opts.max = 0 THEN failures > 0 ELSE failures >= opts.max

Active(i) == task[i].pc \notin {"idle", "done"}
Batch == {i \in Hosts : turn <= i /\ i < turn + opts.width}

\* The turn of a host: after the one before it, when the semaphore has room,
\* or with its batch.
Turn(i) ==
    CASE opts.strategy = "serial" -> \A j \in 1 .. i - 1 : task[j].pc = "done"
      [] opts.strategy = "parallel" -> Cardinality({j \in Hosts : Active(j)}) < opts.width
      [] opts.strategy = "rolling" -> i \in Batch

Goto(i, at) == task' = [task EXCEPT ![i].pc = at]
Fail(i) == task' = [task EXCEPT ![i].pc = "ended", ![i].error = "failed"]

\* A connection, or none: unreachable, no or a wrong key or password.
Dial(i) == Goto(i, "backup") \/ Fail(i)

\* A command in a session of its own, without a timeout: exit 0 or an error.
Exec(i, next) == Goto(i, next) \/ Fail(i)

Stopped == [Idle EXCEPT !.pc = "done", !.error = "stopped"]

-----------------------------------------------------------------------------
(* The executor and the task of a host                                     *)

\* Serial and parallel read the counter before each task, rolling only
\* between batches.  A host that cannot be dialled fails.
Start(i) ==
    /\ pc = "hosts" /\ task[i].pc = "idle" /\ Turn(i)
    /\ IF opts.strategy # "rolling" /\ ShouldStop
       THEN task' = [task EXCEPT ![i] = Stopped]
       ELSE Dial(i)
    /\ UNCHANGED <<opts, pc, turn, failures, deployed, back, version, baks,
                   repeats, meddling, before, tried, disturbed>>

BackedUp(i, bak) == task' = [task EXCEPT ![i].pc = "upload", ![i].bak = bak]

\* cp -r of dest: its failure is ignored and may leave a torn copy.
Backup(i) ==
    /\ task[i].pc = "backup"
    /\ \/ /\ opts.dest /\ version[i] # "absent"
          /\ \/ /\ baks' = [baks EXCEPT ![i] = Append(@, version[i])]
                /\ BackedUp(i, "good")
             \/ /\ baks' = [baks EXCEPT ![i] = Append(@, "torn")]
                /\ BackedUp(i, "failed")
             \/ /\ UNCHANGED baks
                /\ BackedUp(i, "failed")
       \/ /\ ~(opts.dest /\ version[i] # "absent")
          /\ UNCHANGED baks
          /\ Goto(i, "upload")
    /\ UNCHANGED <<opts, pc, turn, failures, deployed, back, version,
                   repeats, meddling, before, tried, disturbed>>

\* before_script, restart_command and after_script, each if given, run in that
\* order, all of them after the upload.
Place == [upload |-> 1, before |-> 2, restart |-> 3, after |-> 4, append |-> 5]
Later(at) == {s \in Scripts \cup {"append"} : Place[s] > Place[at]}
NextScript(at) == CHOOSE s \in Later(at) : \A x \in Later(at) : Place[s] <= Place[x]

\* UploadFile, or UploadDir when the source is a directory: MkdirAll, then one
\* file after the other is created and copied, until one fails.
Transfers(i, ok) ==
    \E v \in IF ok THEN {"new"} ELSE {version[i], "torn"} : version' = [version EXCEPT ![i] = v]

\* Without a source or a dest nothing is transferred; an upload that fails may
\* have written some files.
Upload(i) ==
    /\ task[i].pc = "upload"
    /\ \/ /\ ~(opts.dest /\ opts.source)
          /\ UNCHANGED version
          /\ Goto(i, NextScript("upload"))
       \/ /\ opts.dest /\ opts.source
          /\ Transfers(i, TRUE)
          /\ Goto(i, NextScript("upload"))
       \/ /\ opts.dest /\ opts.source
          /\ Transfers(i, FALSE)
          /\ Fail(i)
    /\ UNCHANGED <<opts, pc, turn, failures, deployed, back, baks,
                   repeats, meddling, before, tried, disturbed>>

Script(i) ==
    /\ task[i].pc \in Scripts
    /\ Exec(i, NextScript(task[i].pc))
    /\ UNCHANGED <<opts, pc, turn, failures, deployed, back, version, baks,
                   repeats, meddling, before, tried, disturbed>>

Deployed(i) ==
    /\ task[i].pc = "append"
    /\ deployed' = Append(deployed, i)
    /\ Goto(i, "ended")
    /\ UNCHANGED <<opts, pc, turn, failures, back, version, baks,
                   repeats, meddling, before, tried, disturbed>>

\* failures++ under the mutex, then the semaphore is released.
Count(i) ==
    /\ task[i].pc = "ended"
    /\ failures' = IF task[i].error = "failed" THEN failures + 1 ELSE failures
    /\ Goto(i, "done")
    /\ UNCHANGED <<opts, pc, turn, deployed, back, version, baks,
                   repeats, meddling, before, tried, disturbed>>

NextBatch ==
    /\ pc = "hosts" /\ opts.strategy = "rolling"
    /\ turn + opts.width <= N
    /\ \A i \in Batch : task[i].pc = "done"
    /\ \A i \in turn + opts.width .. N : task[i].pc = "idle"
    /\ IF ShouldStop
       THEN /\ task' = [i \in Hosts |-> IF i >= turn + opts.width THEN Stopped ELSE task[i]]
            /\ UNCHANGED turn
       ELSE /\ turn' = turn + opts.width
            /\ UNCHANGED task
    /\ UNCHANGED <<opts, pc, failures, deployed, back, version, baks,
                   repeats, meddling, before, tried, disturbed>>

-----------------------------------------------------------------------------
(* The end of the step                                                     *)

Failed == \E i \in Hosts : task[i].error # ""

AllDone ==
    /\ pc = "hosts" /\ \A i \in Hosts : task[i].pc = "done"
    /\ pc' = IF Failed /\ deployed # <<>> THEN "rollback" ELSE "done"
    /\ UNCHANGED <<opts, turn, task, failures, deployed, back, version, baks,
                   repeats, meddling, before, tried, disturbed>>

\* Mutant: ls | sort | head -1, the oldest backup.
RestoredOldest(i) ==
    /\ version' = [version EXCEPT ![i] = Head(baks[i])]
    /\ baks' = [baks EXCEPT ![i] = Tail(baks[i])]

\* if [ -n "$bak" ]; then rm -rf dest && cp -r $bak dest && rm -rf $bak; fi
Restored(i) ==
    /\ version' = [version EXCEPT ![i] = Last(baks[i])]
    /\ baks' = [baks EXCEPT ![i] = Front(baks[i])]

Tried(i, outcome) == tried' = [tried EXCEPT ![i] = outcome]

\* The hosts of deployedHosts, in their order.  Without a dest or a backup the
\* rollback does nothing and reports success; a failure is only logged.
Rollback ==
    /\ pc = "rollback"
    /\ LET i == deployed[back + 1]
       IN  \/ /\ opts.dest /\ baks[i] # <<>>
              /\ Restored(i)
              /\ Tried(i, "done")
           \/ /\ ~(opts.dest /\ baks[i] # <<>>)
              /\ UNCHANGED <<version, baks>>
              /\ Tried(i, "nothing")
           \/ /\ opts.dest
              /\ \E v \in {version[i]} \cup (IF baks[i] = <<>> THEN {} ELSE {"absent", "torn", Last(baks[i])}) :
                    version' = [version EXCEPT ![i] = v]
              /\ UNCHANGED baks
              /\ Tried(i, "failed")
    /\ back' = back + 1
    /\ pc' = IF back' = Len(deployed) THEN "done" ELSE "rollback"
    /\ UNCHANGED <<opts, turn, task, failures, deployed, repeats, meddling, before, disturbed>>

-----------------------------------------------------------------------------
(* The stage is delivered again                                            *)

\* Its worker has died, or the timeout of the task (30 minutes) has passed: asynq
\* repeats it, while the deployment that it has given up goes on.  The step
\* starts over with whatever the hosts hold.
DeliveredAgain ==
    /\ repeats < MaxRepeats /\ pc # "done"
    /\ opts.strategy \in RepeatsIn /\ opts.max \in RepeatsAt
    /\ repeats' = repeats + 1
    /\ pc' = "hosts" /\ turn' = 1 /\ task' = [i \in Hosts |-> Idle] /\ failures' = 0
    /\ deployed' = <<>> /\ back' = 0
    /\ meddling' = MaxMeddling
    /\ before' = [i \in Hosts |-> [version |-> version[i], baks |-> baks[i]]]
    /\ tried' = [i \in Hosts |-> ""] /\ disturbed' = {}
    /\ UNCHANGED <<opts, version, baks>>

\* A deployment that was overtaken does something at a host: it backs dest up,
\* writes to it, or restores the newest backup, its own or another's.  One whose
\* worker has died takes no step any more; after the end of the step it is not followed.
Overtaken(i) ==
    /\ meddling > 0 /\ i \in MeddlesAt
    /\ opts.dest /\ pc # "done"
    /\ \/ /\ version[i] # "absent"
          /\ \E v \in {version[i], "torn"} : baks' = [baks EXCEPT ![i] = Append(@, v)]
          /\ UNCHANGED version
       \/ /\ opts.source
          /\ \E v \in {"new", "torn"} : version' = [version EXCEPT ![i] = v]
          /\ UNCHANGED baks
       \/ baks[i] # <<>> /\ Restored(i)
       \/ /\ baks[i] # <<>>
          /\ \E v \in {"absent", "torn", Last(baks[i])} : version' = [version EXCEPT ![i] = v]
          /\ UNCHANGED baks
    /\ meddling' = meddling - 1
    /\ disturbed' = disturbed \cup {i}
    /\ UNCHANGED <<opts, pc, turn, task, failures, deployed, back, repeats, before, tried>>

Next ==
    \/ \E i \in Hosts :
          Start(i) \/ Backup(i) \/ Upload(i) \/ Script(i) \/ Deployed(i) \/ Count(i)
          \/ Overtaken(i)
    \/ NextBatch \/ AllDone \/ Rollback \/ DeliveredAgain

Spec == Init /\ [][Next]_vars

-----------------------------------------------------------------------------
(* Properties                                                              *)

Threshold == IF opts.max = 0 THEN 1 ELSE opts.max

\* Hosts that fail are at most the threshold and the others already in flight
\* when it is reached: the counter is read before and raised after the tasks,
\* outside one critical section.
FailuresBounded ==
    Cardinality({i \in Hosts : task[i].error = "failed"}) <= Threshold + opts.width - 1

\* The host holds the version it had when the step began, and the backups it had,
\* if its task never ran, or if it had succeeded with a good backup of its own
\* and its rollback reported success.
Undone(i) ==
    \/ task[i].error = "stopped"
    \/ i \in Range(deployed) /\ task[i].bak = "good" /\ tried[i] = "done"
    => [version |-> version[i], baks |-> baks[i]] = before[i]

\* A failed step leaves every such host as it was, however often the stage was
\* delivered before, unless a deployment that was overtaken has been at the host
\* since the step began: which backup is the newest is then not the step's to say.
RolledBack == pc = "done" /\ Failed => \A i \in Hosts \ disturbed : Undone(i)

\* Violated: so it does at the others.
RolledBackBeside == pc = "done" /\ Failed => \A i \in Hosts : Undone(i)

\* Violated: a failed step whose rollbacks all reported success leaves no host
\* with the new version, or with half of it.  A host that failed after its
\* upload is not in deployedHosts, a host without a backup stays new, and
\* after another delivery the newest backup is one of the new version.
NothingLeftBehind ==
    pc = "done" /\ Failed /\ (\A i \in Range(deployed) : tried[i] # "failed") =>
        \A i \in Hosts : version[i] \in {"absent", "old"}

=============================================================================
