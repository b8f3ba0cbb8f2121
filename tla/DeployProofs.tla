---------------------------- MODULE DeployProofs ----------------------------
(***************************************************************************)
(* Proofs about Deploy: how many hosts a deployment can break, and that a  *)
(* rollback which reports success restores the hosts that had succeeded.   *)
(***************************************************************************)
EXTENDS Deploy, FiniteSetTheorems, TLAPS

Places  == {"idle", "backup", "upload", "before", "restart", "after", "append", "ended", "done"}
TaskRec == [pc : Places, error : {"", "failed", "stopped"}, bak : {"", "good", "failed"}]
OptsRec == [strategy : Strategies, max : 0 .. MaxThreshold, width : 1 .. MaxWidth,
            dest : BOOLEAN, source : BOOLEAN]
Found   == [version : Versions, baks : Seq(Versions)]

Typed ==
    /\ opts \in OptsRec /\ (opts.strategy = "serial" => opts.width = 1)
    /\ pc \in {"hosts", "rollback", "done"}
    /\ turn \in Nat /\ failures \in Nat /\ back \in Nat
    /\ task \in [Hosts -> TaskRec]
    /\ deployed \in Seq(Hosts)
    /\ version \in [Hosts -> Versions]
    /\ baks \in [Hosts -> Seq(Versions)]
    /\ before \in [Hosts -> Found]
    /\ tried \in [Hosts -> {"", "done", "nothing", "failed"}]

-----------------------------------------------------------------------------
(* The hosts that may still fail                                           *)

\* Of the tasks t: those that have been counted as failures, those at work.
Counted(t) == {i \in Hosts : t[i].pc = "done" /\ t[i].error = "failed"}
AtWork(t)  == {i \in Hosts : t[i].pc \notin {"idle", "done"}}

\* The hosts of the batch from u on whose tasks a rolling deployment starts
\* without a look at the counter.
Awaited(o, t, u) ==
    {i \in Hosts : o.strategy = "rolling" /\ u <= i /\ i < u + o.width /\ t[i].pc = "idle"}

Exposed(o, t, u) == Counted(t) \cup AtWork(t) \cup Awaited(o, t, u)
Limit(o) == (IF o.max = 0 THEN 1 ELSE o.max) + o.width - 1

\* The inductive invariant of the executor, f being the counter.
Bounded(o, t, u, f) ==
    /\ f = Cardinality(Counted(t))
    /\ Cardinality(Exposed(o, t, u)) <= Limit(o)
    /\ \A i \in Hosts : /\ t[i].error = "failed" => t[i].pc \in {"ended", "done"}
                        /\ t[i].pc = "idle" => t[i].error = "" /\ t[i].bak = ""
    /\ o.strategy = "serial" =>
           \A i \in Hosts : t[i].pc # "idle" => \A j \in 1 .. i - 1 : t[j].pc = "done"
    /\ o.strategy = "rolling" => \A i \in Hosts : i < u => t[i].pc = "done"

LEMMA HostsFinite ==
    /\ N \in Nat \ {0} /\ IsFiniteSet(Hosts)
    /\ \A S \in SUBSET Hosts : IsFiniteSet(S) /\ Cardinality(S) \in Nat
<1>1. N \in Nat \ {0}
  BY DeployAssumption
<1>2. IsFiniteSet(Hosts)
  BY <1>1, FS_Interval DEF Hosts
<1>3. ASSUME NEW S \in SUBSET Hosts PROVE IsFiniteSet(S) /\ Cardinality(S) \in Nat
  BY <1>2, FS_Subset, FS_CardinalityType
<1> QED  BY <1>1, <1>2, <1>3

LEMMA ExposedHosts ==
    ASSUME NEW o, NEW t, NEW u
    PROVE  Exposed(o, t, u) \in SUBSET Hosts /\ Counted(t) \in SUBSET Hosts /\ AtWork(t) \in SUBSET Hosts
BY DEF Exposed, Counted, AtWork, Awaited

\* Fewer or the same hosts.
LEMMA Fewer ==
    ASSUME NEW S \in SUBSET Hosts, NEW T \in SUBSET Hosts, S \subseteq T
    PROVE  Cardinality(S) <= Cardinality(T)
BY HostsFinite, FS_Subset

\* At most as many hosts as in two sets together.
LEMMA Together ==
    ASSUME NEW S \in SUBSET Hosts, NEW A \in SUBSET Hosts, NEW B \in SUBSET Hosts, S \subseteq A \cup B
    PROVE  Cardinality(S) <= Cardinality(A) + Cardinality(B)
<1>1. IsFiniteSet(A) /\ IsFiniteSet(B) /\ A \cup B \in SUBSET Hosts /\ A \cap B \in SUBSET Hosts
  BY HostsFinite
<1>2. Cardinality(A \cup B) = Cardinality(A) + Cardinality(B) - Cardinality(A \cap B)
  BY <1>1, FS_Union
<1>3. Cardinality(S) <= Cardinality(A \cup B)
  BY <1>1, Fewer
<1>4. /\ Cardinality(S) \in Nat /\ Cardinality(A) \in Nat /\ Cardinality(B) \in Nat
      /\ Cardinality(A \cap B) \in Nat /\ Cardinality(A \cup B) \in Nat
  BY <1>1, HostsFinite
<1> QED  BY <1>2, <1>3, <1>4

\* A batch has no more hosts than the width.
LEMMA BatchFits ==
    ASSUME NEW u \in Nat, NEW w \in Nat, NEW S \in SUBSET Hosts, \A i \in S : u <= i /\ i < u + w
    PROVE  Cardinality(S) <= w
<1>1. S \subseteq u .. (u + w - 1)
  BY DEF Hosts
<1>2. IsFiniteSet(u .. (u + w - 1)) /\ Cardinality(u .. (u + w - 1)) = IF u > u + w - 1 THEN 0 ELSE w
  <2>1. u \in Int /\ u + w - 1 \in Int
    OBVIOUS
  <2>2. /\ IsFiniteSet(u .. (u + w - 1))
        /\ Cardinality(u .. (u + w - 1)) = IF u > u + w - 1 THEN 0 ELSE (u + w - 1) - u + 1
    BY <2>1, FS_Interval
  <2>3. (u + w - 1) - u + 1 = w
    OBVIOUS
  <2> QED  BY <2>2, <2>3
<1>3. Cardinality(S) <= Cardinality(u .. (u + w - 1))
  BY <1>1, <1>2, FS_Subset
<1>4. Cardinality(u .. (u + w - 1)) <= w
  BY <1>2
<1>5. Cardinality(S) \in Nat /\ Cardinality(u .. (u + w - 1)) \in Nat
  BY <1>2, HostsFinite, FS_CardinalityType
<1> QED  BY <1>3, <1>4, <1>5

LEMMA LimitIs ==
    ASSUME NEW o \in OptsRec
    PROVE  o.width \in Nat \ {0} /\ o.max \in Nat /\ Limit(o) \in Nat /\ o.width <= Limit(o)
<1>1. o.width \in 1 .. MaxWidth /\ o.max \in 0 .. MaxThreshold /\ MaxWidth \in Nat /\ MaxThreshold \in Nat
  BY DeployAssumption DEF OptsRec
<1> QED  BY <1>1 DEF Limit

\* As long as the executor goes on, one failure may still come.
LEMMA GoesOn ==
    ASSUME opts \in OptsRec, failures \in Nat, ~ShouldStop
    PROVE  failures + opts.width <= Limit(opts)
<1>1. opts.width \in Nat /\ opts.max \in Nat
  BY LimitIs
<1> QED  BY <1>1 DEF ShouldStop, Limit

LEMMA BoundedFailures == Typed /\ Bounded(opts, task, turn, failures) => FailuresBounded
<1> SUFFICES ASSUME Typed, Bounded(opts, task, turn, failures) PROVE FailuresBounded
  OBVIOUS
<1> DEFINE failed == {i \in Hosts : task[i].error = "failed"}
<1>1. failed \subseteq Exposed(opts, task, turn)
  BY DEF Bounded, Exposed, Counted, AtWork
<1>2. Cardinality(failed) <= Cardinality(Exposed(opts, task, turn))
  BY <1>1, ExposedHosts, Fewer
<1>3. Cardinality(failed) \in Nat /\ Cardinality(Exposed(opts, task, turn)) \in Nat
  BY HostsFinite, ExposedHosts
<1>4. Limit(opts) = Threshold + opts.width - 1 /\ Limit(opts) \in Nat
  BY LimitIs DEF Limit, Threshold, Typed
<1>5. Cardinality(Exposed(opts, task, turn)) <= Limit(opts)
  BY DEF Bounded
<1>6. Cardinality(failed) <= Limit(opts)
  BY <1>2, <1>3, <1>4, <1>5
<1> QED  BY <1>4, <1>6 DEF FailuresBounded

-----------------------------------------------------------------------------
(* What a step does to the task of its host                                *)

Others(i) == \A j \in Hosts \ {i} : task'[j] = task[j]

LEMMA GotoSets ==
    ASSUME task \in [Hosts -> TaskRec], NEW i \in Hosts, NEW at \in Places, Goto(i, at)
    PROVE  /\ task' \in [Hosts -> TaskRec] /\ Others(i)
           /\ task'[i].pc = at /\ task'[i].error = task[i].error /\ task'[i].bak = task[i].bak
<1> DEFINE new == [task[i] EXCEPT !.pc = at]
<1>1. new \in TaskRec /\ new.pc = at /\ new.error = task[i].error /\ new.bak = task[i].bak
  BY DEF TaskRec
<1>2. task' = [task EXCEPT ![i] = new]
  BY DEF Goto
<1> HIDE DEF new
<1> QED  BY <1>1, <1>2 DEF Others

LEMMA FailSets ==
    ASSUME task \in [Hosts -> TaskRec], NEW i \in Hosts, Fail(i)
    PROVE  /\ task' \in [Hosts -> TaskRec] /\ Others(i)
           /\ task'[i].pc = "ended" /\ task'[i].error = "failed" /\ task'[i].bak = task[i].bak
<1> DEFINE new == [[task[i] EXCEPT !.pc = "ended"] EXCEPT !.error = "failed"]
<1>1. new \in TaskRec /\ new.pc = "ended" /\ new.error = "failed" /\ new.bak = task[i].bak
  BY DEF TaskRec, Places
<1>2. task' = [task EXCEPT ![i] = new]
  BY DEF Fail
<1> HIDE DEF new
<1> QED  BY <1>1, <1>2 DEF Others

LEMMA BackedUpSets ==
    ASSUME task \in [Hosts -> TaskRec], NEW i \in Hosts, NEW bak \in {"good", "failed"}, BackedUp(i, bak)
    PROVE  /\ task' \in [Hosts -> TaskRec] /\ Others(i)
           /\ task'[i].pc = "upload" /\ task'[i].error = task[i].error /\ task'[i].bak = bak
<1> DEFINE new == [[task[i] EXCEPT !.pc = "upload"] EXCEPT !.bak = bak]
<1>1. new \in TaskRec /\ new.pc = "upload" /\ new.error = task[i].error /\ new.bak = bak
  BY DEF TaskRec, Places
<1>2. task' = [task EXCEPT ![i] = new]
  BY DEF BackedUp
<1> HIDE DEF new
<1> QED  BY <1>1, <1>2 DEF Others

\* After the upload or a script comes another script, or the end.
LEMMA NextScriptIs ==
    ASSUME NEW at \in {"upload"} \cup Scripts
    PROVE  NextScript(at) \in {"before", "restart", "after", "append"}
<1> DEFINE later == Later(at)
           First(s) == \A x \in later : Place[s] <= Place[x]
<1>1. /\ Scripts \subseteq {"before", "restart", "after"}
      /\ Place["upload"] = 1 /\ Place["before"] = 2 /\ Place["restart"] = 3 /\ Place["after"] = 4
      /\ Place["append"] = 5
  BY DeployAssumption DEF Place
<1>2. "append" \in later /\ later \subseteq {"before", "restart", "after", "append"}
  <2>1. Place[at] \in {1, 2, 3, 4}
    BY <1>1
  <2>2. Place["append"] > Place[at]
    BY <1>1, <2>1
  <2> QED  BY <1>1, <2>2 DEF Later
<1> HIDE DEF later
<1>3. \E s \in later : First(s)
  <2>1. CASE "before" \in later
    BY <1>1, <1>2, <2>1
  <2>2. CASE "before" \notin later /\ "restart" \in later
    BY <1>1, <1>2, <2>2
  <2>3. CASE "before" \notin later /\ "restart" \notin later /\ "after" \in later
    BY <1>1, <1>2, <2>3
  <2>4. CASE "before" \notin later /\ "restart" \notin later /\ "after" \notin later
    BY <1>1, <1>2, <2>4
  <2> QED  BY <2>1, <2>2, <2>3, <2>4
<1>4. (CHOOSE s \in later : First(s)) \in later
  BY <1>3
<1>5. NextScript(at) \in later
  BY <1>4 DEF NextScript, later
<1> QED  BY <1>2, <1>5

-----------------------------------------------------------------------------
(* The bound                                                               *)

InTask == {"backup", "upload", "before", "restart", "after", "append", "ended"}

\* A step within the task of a host.
LEMMA WithinBounded ==
    ASSUME Typed, Bounded(opts, task, turn, failures), UNCHANGED <<opts, turn, failures>>,
           NEW i \in Hosts, Others(i), task[i].pc \in InTask, task'[i].pc \in InTask,
           task'[i].error = "failed" => task'[i].pc = "ended"
    PROVE  Bounded(opts', task', turn', failures')
<1>1. Counted(task') = Counted(task)
  BY DEF Counted, Others, InTask
<1>2. AtWork(task') = AtWork(task)
  BY DEF AtWork, Others, InTask
<1>3. Awaited(opts, task', turn) = Awaited(opts, task, turn)
  BY DEF Awaited, Others, InTask
<1>4. Exposed(opts, task', turn) = Exposed(opts, task, turn)
  BY <1>1, <1>2, <1>3 DEF Exposed
<1>5. \A j \in Hosts : /\ task'[j].error = "failed" => task'[j].pc \in {"ended", "done"}
                       /\ task'[j].pc = "idle" => task'[j].error = "" /\ task'[j].bak = ""
  BY DEF Bounded, Others, InTask
<1>6. \A j \in Hosts : /\ task'[j].pc = "idle" <=> task[j].pc = "idle"
                       /\ task'[j].pc = "done" <=> task[j].pc = "done"
  BY DEF Others, InTask
<1>7. \A j \in Hosts : \A k \in 1 .. j - 1 : k \in Hosts
  BY HostsFinite DEF Hosts
<1> QED  BY <1>1, <1>4, <1>5, <1>6, <1>7 DEF Bounded

\* The counter is raised for a task that has failed.
LEMMA CountBounded ==
    ASSUME Typed, Bounded(opts, task, turn, failures), NEW i \in Hosts, Count(i)
    PROVE  Bounded(opts', task', turn', failures') /\ failures' \in Nat
<1>1. task[i].pc = "ended" /\ Goto(i, "done") /\ UNCHANGED <<opts, turn>>
  BY DEF Count
<1>2. Others(i) /\ task'[i].pc = "done" /\ task'[i].error = task[i].error
  BY <1>1, GotoSets DEF Typed, Places
<1>3. failures = Cardinality(Counted(task)) /\ IsFiniteSet(Counted(task)) /\ failures \in Nat
  BY ExposedHosts, HostsFinite DEF Bounded, Typed
<1>4. failures' = Cardinality(Counted(task')) /\ failures' \in Nat
  <2>1. CASE task[i].error = "failed"
    <3>1. Counted(task') = Counted(task) \cup {i} /\ i \notin Counted(task)
      BY <1>1, <1>2, <2>1 DEF Counted, Others
    <3>2. Cardinality(Counted(task')) = failures + 1
      BY <1>3, <3>1, FS_AddElement
    <3> QED  BY <1>3, <2>1, <3>2 DEF Count
  <2>2. CASE task[i].error # "failed"
    <3>1. Counted(task') = Counted(task)
      BY <1>1, <1>2, <2>2 DEF Counted, Others
    <3> QED  BY <1>3, <2>2, <3>1 DEF Count
  <2> QED  BY <2>1, <2>2
<1>5. Exposed(opts, task', turn) \subseteq Exposed(opts, task, turn)
  BY <1>1, <1>2 DEF Exposed, Counted, AtWork, Awaited, Others
<1>6. Cardinality(Exposed(opts, task', turn)) <= Limit(opts)
  <2>1. Cardinality(Exposed(opts, task', turn)) <= Cardinality(Exposed(opts, task, turn))
    BY <1>5, ExposedHosts, Fewer
  <2>2. /\ Cardinality(Exposed(opts, task', turn)) \in Nat
        /\ Cardinality(Exposed(opts, task, turn)) \in Nat /\ Limit(opts) \in Nat
    BY ExposedHosts, HostsFinite, LimitIs DEF Typed
  <2>3. Cardinality(Exposed(opts, task, turn)) <= Limit(opts)
    BY DEF Bounded
  <2> QED  BY <2>1, <2>2, <2>3
<1>7. \A j \in Hosts : /\ task'[j].error = "failed" => task'[j].pc \in {"ended", "done"}
                       /\ task'[j].pc = "idle" => task'[j].error = "" /\ task'[j].bak = ""
  BY <1>2 DEF Bounded, Others
<1>8. \A j \in Hosts : /\ task'[j].pc = "idle" <=> task[j].pc = "idle"
                       /\ task[j].pc = "done" => task'[j].pc = "done"
  BY <1>1, <1>2 DEF Others
<1>9. \A j \in Hosts : \A k \in 1 .. j - 1 : k \in Hosts
  BY HostsFinite DEF Hosts
<1> QED  BY <1>1, <1>4, <1>6, <1>7, <1>8, <1>9 DEF Bounded

\* A host whose turn it is, in a deployment that goes on or a batch under way.
LEMMA StartBounded ==
    ASSUME Typed, Bounded(opts, task, turn, failures), NEW i \in Hosts, Start(i)
    PROVE  Bounded(opts', task', turn', failures') /\ task' \in [Hosts -> TaskRec]
<1>1. task[i].pc = "idle" /\ task[i].error = "" /\ Turn(i) /\ UNCHANGED <<opts, turn, failures>>
  BY DEF Start, Bounded
<1>2. \/ opts.strategy # "rolling" /\ task' = [task EXCEPT ![i] = Stopped]
      \/ (opts.strategy = "rolling" \/ ~ShouldStop) /\ (Goto(i, "backup") \/ Fail(i))
  BY DEF Start, Dial
<1>3. Stopped \in TaskRec /\ Stopped.pc = "done" /\ Stopped.error = "stopped"
  BY DEF Stopped, Idle, TaskRec, Places
<1>4. /\ task' \in [Hosts -> TaskRec] /\ Others(i)
      /\ \/ opts.strategy # "rolling" /\ task'[i].pc = "done" /\ task'[i].error = "stopped"
         \/ /\ opts.strategy = "rolling" \/ ~ShouldStop
            /\ task'[i].pc = "backup" /\ task'[i].error = ""
         \/ /\ opts.strategy = "rolling" \/ ~ShouldStop
            /\ task'[i].pc = "ended" /\ task'[i].error = "failed"
  <2>1. CASE opts.strategy # "rolling" /\ task' = [task EXCEPT ![i] = Stopped]
    BY <1>3, <2>1 DEF Typed, Others
  <2>2. CASE (opts.strategy = "rolling" \/ ~ShouldStop) /\ Goto(i, "backup")
    BY <1>1, <2>2, GotoSets DEF Typed, Places
  <2>3. CASE (opts.strategy = "rolling" \/ ~ShouldStop) /\ Fail(i)
    BY <2>3, FailSets DEF Typed
  <2> QED  BY <1>2, <2>1, <2>2, <2>3
<1>5. Counted(task') = Counted(task)
  BY <1>1, <1>4 DEF Counted, Others
<1>6. failures = Cardinality(Counted(task)) /\ failures \in Nat /\ Limit(opts) \in Nat
      /\ opts.width \in Nat \ {0}
  BY LimitIs DEF Bounded, Typed
<1>7. Cardinality(Exposed(opts, task', turn)) <= Limit(opts)
  <2>1. Cardinality(Exposed(opts, task, turn)) <= Limit(opts)
    BY DEF Bounded
  <2>2. /\ Cardinality(Exposed(opts, task', turn)) \in Nat
        /\ Cardinality(Exposed(opts, task, turn)) \in Nat
        /\ Cardinality(AtWork(task)) \in Nat
    BY ExposedHosts, HostsFinite
  <2>3. CASE opts.strategy = "rolling"
    <3>1. turn <= i /\ i < turn + opts.width
      BY <1>1, <2>3 DEF Turn, Batch
    <3>2. Exposed(opts, task', turn) \subseteq Exposed(opts, task, turn)
      BY <1>1, <1>4, <2>3, <3>1 DEF Exposed, Counted, AtWork, Awaited, Others
    <3>3. Cardinality(Exposed(opts, task', turn)) <= Cardinality(Exposed(opts, task, turn))
      BY <3>2, ExposedHosts, Fewer
    <3> QED  BY <1>6, <2>1, <2>2, <3>3
  <2>4. CASE opts.strategy # "rolling" /\ task'[i].pc = "done"
    <3>1. Exposed(opts, task', turn) \subseteq Exposed(opts, task, turn)
      BY <1>1, <1>4, <2>4 DEF Exposed, Counted, AtWork, Awaited, Others
    <3>2. Cardinality(Exposed(opts, task', turn)) <= Cardinality(Exposed(opts, task, turn))
      BY <3>1, ExposedHosts, Fewer
    <3> QED  BY <1>6, <2>1, <2>2, <3>2
  <2>5. CASE opts.strategy # "rolling" /\ task'[i].pc # "done"
    <3>1. ~ShouldStop
      BY <1>4, <2>5
    <3>2. failures + opts.width <= Limit(opts)
      BY <3>1, GoesOn DEF Typed
    <3>3. Cardinality(AtWork(task)) < opts.width
      <4>1. CASE opts.strategy = "parallel"
        <5>1. AtWork(task) = {j \in Hosts : Active(j)}
          BY DEF AtWork, Active
        <5> QED  BY <1>1, <4>1, <5>1 DEF Turn
      <4>2. CASE opts.strategy = "serial"
        <5>1. \A j \in 1 .. i - 1 : task[j].pc = "done"
          BY <1>1, <4>2 DEF Turn
        <5>2. \A j \in Hosts : i < j => task[j].pc = "idle"
          <6> TAKE j \in Hosts
          <6> HAVE i < j
          <6>1. i \in 1 .. j - 1
            BY HostsFinite DEF Hosts
          <6> QED  BY <1>1, <4>2, <6>1 DEF Bounded
        <5>3. \A j \in Hosts : task[j].pc \in {"idle", "done"}
          <6> TAKE j \in Hosts
          <6>1. j < i \/ j = i \/ i < j
            BY HostsFinite DEF Hosts
          <6>2. j < i => j \in 1 .. i - 1
            BY HostsFinite DEF Hosts
          <6> QED  BY <1>1, <5>1, <5>2, <6>1, <6>2
        <5>4. AtWork(task) = {}
          BY <5>3 DEF AtWork
        <5> QED  BY <1>6, <5>4, FS_EmptySet
      <4> QED  BY <2>5, <4>1, <4>2 DEF Typed, OptsRec, Strategies
    <3>4. Exposed(opts, task', turn) \subseteq Counted(task) \cup (AtWork(task) \cup {i})
      BY <1>1, <1>4, <1>5, <2>5 DEF Exposed, AtWork, Awaited, Others
    <3>5. Cardinality(Exposed(opts, task', turn)) <= failures + Cardinality(AtWork(task) \cup {i})
      BY <1>6, <3>4, ExposedHosts, Together
    <3>6. Cardinality(AtWork(task) \cup {i}) = Cardinality(AtWork(task)) + 1
      <4>1. i \notin AtWork(task) /\ IsFiniteSet(AtWork(task))
        BY <1>1, ExposedHosts, HostsFinite DEF AtWork
      <4> QED  BY <4>1, FS_AddElement
    <3> QED  BY <1>6, <2>2, <3>2, <3>3, <3>5, <3>6
  <2> QED  BY <2>3, <2>4, <2>5
<1>8. \A j \in Hosts : /\ task'[j].error = "failed" => task'[j].pc \in {"ended", "done"}
                       /\ task'[j].pc = "idle" => task'[j].error = "" /\ task'[j].bak = ""
  BY <1>4 DEF Bounded, Others
<1>9. \A j \in Hosts : \A k \in 1 .. j - 1 : k \in Hosts
  BY HostsFinite DEF Hosts
<1>10. \A j \in Hosts : task[j].pc = "done" => task'[j].pc = "done"
  BY <1>1, <1>4 DEF Others
<1>11. opts.strategy = "serial" =>
           \A j \in Hosts : task'[j].pc # "idle" => \A k \in 1 .. j - 1 : task'[k].pc = "done"
  <2> HAVE opts.strategy = "serial"
  <2>1. \A k \in 1 .. i - 1 : task[k].pc = "done"
    BY <1>1 DEF Turn
  <2>2. \A j \in Hosts : task[j].pc # "idle" => \A k \in 1 .. j - 1 : task[k].pc = "done"
    BY DEF Bounded
  <2>3. \A j \in Hosts \ {i} : task'[j].pc = task[j].pc
    BY <1>4 DEF Others
  <2> QED  BY <1>9, <1>10, <2>1, <2>2, <2>3
<1>12. opts.strategy = "rolling" => \A j \in Hosts : j < turn => task'[j].pc = "done"
  BY <1>10 DEF Bounded
<1>13. failures = Cardinality(Counted(task'))
  BY <1>5, <1>6
<1>14. Bounded(opts, task', turn, failures)
  BY <1>7, <1>8, <1>11, <1>12, <1>13 DEF Bounded
<1> QED  BY <1>1, <1>4, <1>14

LEMMA NextBatchBounded ==
    ASSUME Typed, Bounded(opts, task, turn, failures), NextBatch
    PROVE  /\ Bounded(opts', task', turn', failures')
           /\ task' \in [Hosts -> TaskRec] /\ turn' \in Nat
<1> DEFINE w == opts.width
<1>1. /\ UNCHANGED <<opts, failures>> /\ opts.strategy = "rolling"
      /\ \A i \in Batch : task[i].pc = "done"
      /\ \A i \in turn + w .. N : task[i].pc = "idle"
  BY DEF NextBatch
<1>2. w \in Nat \ {0} /\ turn \in Nat /\ N \in Nat /\ Limit(opts) \in Nat
  BY LimitIs, HostsFinite DEF Typed
<1>3. \A i \in Hosts : task[i].pc = IF i < turn + w THEN "done" ELSE "idle"
  <2> TAKE i \in Hosts
  <2>1. CASE i < turn
    <3>1. task[i].pc = "done"
      BY <1>1, <2>1 DEF Bounded
    <3> QED  BY <1>2, <2>1, <3>1 DEF Hosts
  <2>2. CASE turn <= i /\ i < turn + w
    BY <1>1, <1>2, <2>2 DEF Batch
  <2>3. CASE turn + w <= i
    BY <1>1, <1>2, <2>3 DEF Hosts
  <2> QED  BY <1>2, <2>1, <2>2, <2>3 DEF Hosts
<1>4. failures = Cardinality(Counted(task)) /\ failures \in Nat
  BY DEF Bounded, Typed
<1>5. \A i \in Hosts : /\ task[i].error = "failed" => task[i].pc \in {"ended", "done"}
                       /\ task[i].pc = "idle" => task[i].error = "" /\ task[i].bak = ""
  BY DEF Bounded
<1>6. CASE ShouldStop
  <2>1. /\ task' = [i \in Hosts |-> IF i >= turn + w THEN Stopped ELSE task[i]]
        /\ turn' = turn
    BY <1>6 DEF NextBatch
  <2>2. Stopped \in TaskRec /\ Stopped.pc = "done" /\ Stopped.error = "stopped"
    BY DEF Stopped, Idle, TaskRec, Places
  <2>3. task' \in [Hosts -> TaskRec]
    BY <2>1, <2>2 DEF Typed
  <2>4. \A i \in Hosts : /\ i < turn + w => task'[i] = task[i]
                         /\ ~(i < turn + w) => task'[i].pc = "done" /\ task'[i].error = "stopped"
    BY <1>2, <2>1, <2>2 DEF Hosts
  <2>5. Counted(task') = Counted(task)
    BY <1>3, <2>4 DEF Counted
  <2>6. Exposed(opts, task', turn) \subseteq Exposed(opts, task, turn)
    BY <1>3, <2>4, <2>5 DEF Exposed, AtWork, Awaited
  <2>7. Cardinality(Exposed(opts, task', turn)) <= Cardinality(Exposed(opts, task, turn))
    BY <2>6, ExposedHosts, Fewer
  <2>8. /\ Cardinality(Exposed(opts, task, turn)) <= Limit(opts)
        /\ Cardinality(Exposed(opts, task, turn)) \in Nat
        /\ Cardinality(Exposed(opts, task', turn)) \in Nat
    BY ExposedHosts, HostsFinite DEF Bounded
  <2>9. Cardinality(Exposed(opts, task', turn)) <= Limit(opts)
    BY <1>2, <2>7, <2>8
  <2>10. \A i \in Hosts : /\ task'[i].pc = "done"
                          /\ task'[i].error = "failed" => task'[i].pc \in {"ended", "done"}
    BY <1>3, <2>4
  <2>11. Bounded(opts, task', turn, failures)
    BY <1>1, <1>4, <2>5, <2>9, <2>10 DEF Bounded
  <2> QED  BY <1>1, <1>2, <2>1, <2>3, <2>11
<1>7. CASE ~ShouldStop
  <2>1. turn' = turn + w /\ task' = task /\ turn' \in Nat
    BY <1>2, <1>7 DEF NextBatch
  <2> DEFINE next == Awaited(opts, task, turn + w)
  <2>2. AtWork(task) = {}
    BY <1>3 DEF AtWork
  <2>3. Exposed(opts, task, turn + w) \subseteq Counted(task) \cup next
    BY <2>2 DEF Exposed
  <2>4. next \in SUBSET Hosts /\ Cardinality(next) <= w
    <3>1. next \in SUBSET Hosts /\ \A i \in next : turn + w <= i /\ i < (turn + w) + w
      BY DEF Awaited
    <3> HIDE DEF next
    <3>2. turn + w \in Nat /\ w \in Nat
      BY <1>2
    <3> QED  BY <3>1, <3>2, BatchFits
  <2> HIDE DEF next
  <2>5. Cardinality(Exposed(opts, task, turn + w)) <= failures + Cardinality(next)
    BY <1>4, <2>3, <2>4, ExposedHosts, Together
  <2>6. failures + w <= Limit(opts)
    BY <1>7, GoesOn DEF Typed
  <2>7. Cardinality(Exposed(opts, task, turn + w)) \in Nat /\ Cardinality(next) \in Nat
    BY <2>4, ExposedHosts, HostsFinite
  <2>8. Cardinality(Exposed(opts, task, turn + w)) <= Limit(opts)
    BY <1>2, <1>4, <2>4, <2>5, <2>6, <2>7
  <2>9. \A i \in Hosts : i < turn + w => task[i].pc = "done"
    BY <1>3
  <2>10. Bounded(opts, task, turn + w, failures)
    BY <1>1, <1>4, <1>5, <2>8, <2>9 DEF Bounded
  <2> QED  BY <1>1, <2>1, <2>10 DEF Typed
<1> QED  BY <1>6, <1>7

\* A deployment that starts, or starts over.
LEMMA FreshBounded ==
    ASSUME NEW o \in OptsRec, NEW t, t = [i \in Hosts |-> Idle]
    PROVE  Bounded(o, t, 1, 0)
<1>1. o.width \in Nat \ {0} /\ Limit(o) \in Nat /\ o.width <= Limit(o)
  BY LimitIs
<1>2. \A i \in Hosts : t[i].pc = "idle" /\ t[i].error = "" /\ t[i].bak = ""
  BY DEF Idle
<1>3. Counted(t) = {} /\ AtWork(t) = {}
  BY <1>2 DEF Counted, AtWork
<1>4. Cardinality(Counted(t)) = 0
  BY <1>3, FS_EmptySet
<1>5. Exposed(o, t, 1) \in SUBSET Hosts /\ \A i \in Exposed(o, t, 1) : 1 <= i /\ i < 1 + o.width
  BY <1>3 DEF Exposed, Awaited
<1>6. Cardinality(Exposed(o, t, 1)) <= o.width
  BY <1>1, <1>5, BatchFits
<1>7. Cardinality(Exposed(o, t, 1)) <= Limit(o)
  BY <1>1, <1>5, <1>6, HostsFinite
<1>8. \A i \in Hosts : ~(i < 1)
  BY DEF Hosts
<1> QED  BY <1>2, <1>4, <1>7, <1>8 DEF Bounded

-----------------------------------------------------------------------------
(* What a rollback finds                                                   *)

Untouched(i)  == version[i] = before[i].version /\ baks[i] = before[i].baks
InDeployed(i) == \E k \in 1 .. Len(deployed) : deployed[k] = i

\* Until it is rolled back, the newest backup of a host whose backup was good
\* is what it held when the step began, if no other deployment has been there.
HeldOK(i) ==
    /\ task[i].pc \in {"idle", "backup"} \/ task[i].error = "stopped" => Untouched(i)
    /\ task[i].bak = "good" /\ tried[i] = "" => baks[i] = Append(before[i].baks, before[i].version)
    /\ task[i].bak = "good" /\ tried[i] = "done" => Untouched(i)

HostOK(i) ==
    /\ i \notin disturbed => HeldOK(i)
    /\ task[i].error = "stopped" => task[i].pc = "done"
    /\ task[i].bak = "good" => task[i].pc \notin {"idle", "backup"}
    /\ tried[i] # "" => \E k \in 1 .. Len(deployed) : k <= back /\ deployed[k] = i
    /\ InDeployed(i) => task[i].pc \in {"ended", "done"} /\ task[i].error # "stopped"

Restorable ==
    /\ \A i \in Hosts : HostOK(i)
    /\ \A j, k \in 1 .. Len(deployed) : deployed[j] = deployed[k] => j = k
    /\ pc = "hosts" => back = 0
    /\ pc = "rollback" => back < Len(deployed)
    /\ pc # "hosts" => \A i \in Hosts : task[i].pc = "done"

\* The inductive invariant.
IInv == Typed /\ Bounded(opts, task, turn, failures) /\ Restorable

LEMMA RestorableRolledBack == IInv => RolledBack
<1> SUFFICES ASSUME Typed, Restorable, NEW i \in Hosts \ disturbed,
                    \/ task[i].error = "stopped"
                    \/ i \in Range(deployed) /\ task[i].bak = "good" /\ tried[i] = "done"
             PROVE  [version |-> version[i], baks |-> baks[i]] = before[i]
  BY DEF IInv, RolledBack, Undone
<1>1. Untouched(i)
  BY DEF Restorable, HostOK, HeldOK
<1>2. before[i] \in Found
  BY DEF Typed
<1> QED  BY <1>1, <1>2 DEF Untouched, Found

\* A step of a host touches no other host.
LEMMA HostStep ==
    ASSUME Typed, Restorable, NEW i \in Hosts, Others(i),
           task[i].pc # "done", UNCHANGED <<pc, deployed, back, before, tried, disturbed>>,
           \A j \in Hosts \ {i} : version'[j] = version[j] /\ baks'[j] = baks[j],
           HostOK(i)'
    PROVE  Restorable'
<1>1. pc = "hosts" /\ back = 0
  BY DEF Restorable
<1>2. ASSUME NEW j \in Hosts, j # i PROVE HostOK(j)'
  <2>1. HostOK(j)
    BY DEF Restorable
  <2>2. /\ task'[j] = task[j] /\ version'[j] = version[j] /\ baks'[j] = baks[j]
        /\ before' = before /\ tried' = tried /\ deployed' = deployed /\ back' = back
    BY <1>2 DEF Others
  <2> QED  BY <2>1, <2>2 DEF HostOK, HeldOK, Untouched, InDeployed
<1> QED  BY <1>1, <1>2 DEF Restorable

LEMMA StartKeeps ==
    ASSUME IInv, NEW i \in Hosts, Start(i)
    PROVE  IInv'
<1> USE DEF IInv
<1>1. /\ task[i].pc = "idle"
      /\ UNCHANGED <<opts, pc, turn, failures, deployed, back, version, baks, before, tried, disturbed>>
  BY DEF Start
<1>2. Bounded(opts', task', turn', failures') /\ task' \in [Hosts -> TaskRec]
  BY StartBounded
<1>3. /\ Others(i) /\ task'[i].bak = ""
      /\ task'[i].pc # "idle" /\ (task'[i].error = "stopped" => task'[i].pc = "done")
  <2>1. task[i].error = "" /\ task[i].bak = ""
    BY <1>1 DEF Bounded
  <2>2. CASE task' = [task EXCEPT ![i] = Stopped]
    <3>1. Stopped.pc = "done" /\ Stopped.bak = ""
      BY DEF Stopped, Idle
    <3> QED  BY <2>2, <3>1 DEF Others, Typed
  <2>3. CASE Goto(i, "backup")
    BY <2>1, <2>3, GotoSets DEF Typed, Places
  <2>4. CASE Fail(i)
    BY <2>1, <2>4, FailSets DEF Typed
  <2> QED  BY <2>2, <2>3, <2>4 DEF Start, Dial
<1>4. HostOK(i) /\ ~InDeployed(i) /\ tried[i] = ""
  BY <1>1 DEF Restorable, HostOK, HeldOK, InDeployed
<1>5. HostOK(i)'
  BY <1>1, <1>3, <1>4 DEF HostOK, HeldOK, Untouched, InDeployed
<1>6. Restorable'
  BY <1>1, <1>3, <1>5, HostStep
<1> QED  BY <1>1, <1>2, <1>6 DEF Typed

LEMMA BackupKeeps ==
    ASSUME IInv, NEW i \in Hosts, Backup(i)
    PROVE  IInv'
<1> USE DEF IInv
<1>1. /\ task[i].pc = "backup"
      /\ UNCHANGED <<opts, pc, turn, failures, deployed, back, version, before, tried, disturbed>>
  BY DEF Backup
<1>2. \/ baks' = [baks EXCEPT ![i] = Append(@, version[i])] /\ BackedUp(i, "good")
      \/ /\ baks' = [baks EXCEPT ![i] = Append(@, "torn")] \/ baks' = baks
         /\ BackedUp(i, "failed")
      \/ baks' = baks /\ Goto(i, "upload")
  BY DEF Backup
<1>3. /\ HostOK(i) /\ (i \notin disturbed => Untouched(i)) /\ ~InDeployed(i) /\ tried[i] = ""
      /\ task[i].bak # "good" /\ task[i].error \notin {"stopped", "failed"}
  BY <1>1 DEF Restorable, HostOK, HeldOK, InDeployed, Bounded
<1>4. /\ task' \in [Hosts -> TaskRec] /\ Others(i)
      /\ task'[i].pc = "upload" /\ task'[i].error = task[i].error
  <2>1. CASE BackedUp(i, "good") \/ BackedUp(i, "failed")
    BY <2>1, BackedUpSets DEF Typed
  <2>2. CASE Goto(i, "upload")
    BY <2>2, GotoSets DEF Typed, Places
  <2> QED  BY <1>2, <2>1, <2>2
<1>5. /\ baks' \in [Hosts -> Seq(Versions)]
      /\ \A j \in Hosts \ {i} : baks'[j] = baks[j]
  <2>1. /\ version[i] \in Versions /\ "torn" \in Versions /\ baks[i] \in Seq(Versions)
        /\ baks \in [Hosts -> Seq(Versions)]
    BY DEF Typed, Versions
  <2>2. Append(baks[i], version[i]) \in Seq(Versions) /\ Append(baks[i], "torn") \in Seq(Versions)
    BY <2>1
  <2> QED  BY <1>2, <2>1, <2>2
<1>6. i \notin disturbed /\ task'[i].bak = "good" =>
        baks'[i] = Append(before[i].baks, before[i].version)
  <2>1. CASE baks' = [baks EXCEPT ![i] = Append(@, version[i])] /\ BackedUp(i, "good")
    BY <1>3, <2>1 DEF Typed, Untouched
  <2>2. CASE BackedUp(i, "failed")
    BY <2>2, BackedUpSets DEF Typed
  <2>3. CASE Goto(i, "upload")
    BY <1>3, <2>3, GotoSets DEF Typed, Places
  <2> QED  BY <1>2, <2>1, <2>2, <2>3
<1>7. HostOK(i)'
  BY <1>1, <1>3, <1>4, <1>6 DEF HostOK, HeldOK, InDeployed
<1>8. Restorable'
  BY <1>1, <1>4, <1>5, <1>7, HostStep
<1>9. Bounded(opts', task', turn', failures')
  BY <1>1, <1>3, <1>4, WithinBounded DEF InTask
<1> QED  BY <1>1, <1>4, <1>5, <1>8, <1>9 DEF Typed

LEMMA UploadKeeps ==
    ASSUME IInv, NEW i \in Hosts, Upload(i)
    PROVE  IInv'
<1> USE DEF IInv
<1>1. /\ task[i].pc = "upload"
      /\ UNCHANGED <<opts, pc, turn, failures, deployed, back, baks, before, tried, disturbed>>
  BY DEF Upload
<1>2. /\ HostOK(i) /\ ~InDeployed(i) /\ tried[i] = "" /\ task[i].error \notin {"stopped", "failed"}
  BY <1>1 DEF Restorable, HostOK, HeldOK, InDeployed, Bounded
<1>3. Goto(i, NextScript("upload")) \/ Fail(i)
  BY DEF Upload
<1>4. NextScript("upload") \in {"before", "restart", "after", "append"}
  BY NextScriptIs
<1>5. /\ task' \in [Hosts -> TaskRec] /\ Others(i) /\ task'[i].bak = task[i].bak
      /\ \/ task'[i].pc \in {"before", "restart", "after", "append"} /\ task'[i].error = task[i].error
         \/ task'[i].pc = "ended" /\ task'[i].error = "failed"
  <2>1. CASE Goto(i, NextScript("upload"))
    BY <1>4, <2>1, GotoSets DEF Typed, Places
  <2>2. CASE Fail(i)
    BY <2>2, FailSets DEF Typed
  <2> QED  BY <1>3, <2>1, <2>2
<1>6. version' \in [Hosts -> Versions] /\ \A j \in Hosts \ {i} : version'[j] = version[j]
  <2>1. version' = version \/ \E v \in {"new", "torn", version[i]} : version' = [version EXCEPT ![i] = v]
    BY DEF Upload, Transfers
  <2> QED  BY <2>1 DEF Typed, Versions
<1>7. HostOK(i)'
  BY <1>1, <1>2, <1>5 DEF HostOK, HeldOK, InDeployed
<1>8. Restorable'
  BY <1>1, <1>5, <1>6, <1>7, HostStep
<1>9. Bounded(opts', task', turn', failures')
  BY <1>1, <1>2, <1>5, WithinBounded DEF InTask
<1> QED  BY <1>1, <1>5, <1>6, <1>8, <1>9 DEF Typed

LEMMA ScriptKeeps ==
    ASSUME IInv, NEW i \in Hosts, Script(i)
    PROVE  IInv'
<1> USE DEF IInv
<1>1. /\ task[i].pc \in Scripts /\ task[i].pc \in {"before", "restart", "after"}
      /\ UNCHANGED <<opts, pc, turn, failures, deployed, back, version, baks, before, tried, disturbed>>
  BY DeployAssumption DEF Script
<1>2. /\ HostOK(i) /\ ~InDeployed(i) /\ tried[i] = "" /\ task[i].error \notin {"stopped", "failed"}
  BY <1>1 DEF Restorable, HostOK, HeldOK, InDeployed, Bounded
<1>3. Goto(i, NextScript(task[i].pc)) \/ Fail(i)
  BY DEF Script, Exec
<1>4. NextScript(task[i].pc) \in {"before", "restart", "after", "append"}
  BY <1>1, NextScriptIs
<1>5. /\ task' \in [Hosts -> TaskRec] /\ Others(i) /\ task'[i].bak = task[i].bak
      /\ \/ task'[i].pc \in {"before", "restart", "after", "append"} /\ task'[i].error = task[i].error
         \/ task'[i].pc = "ended" /\ task'[i].error = "failed"
  <2>1. CASE Goto(i, NextScript(task[i].pc))
    BY <1>4, <2>1, GotoSets DEF Typed, Places
  <2>2. CASE Fail(i)
    BY <2>2, FailSets DEF Typed
  <2> QED  BY <1>3, <2>1, <2>2
<1>6. HostOK(i)'
  BY <1>1, <1>2, <1>5 DEF HostOK, HeldOK, InDeployed
<1>7. Restorable'
  BY <1>1, <1>5, <1>6, HostStep
<1>8. Bounded(opts', task', turn', failures')
  BY <1>1, <1>2, <1>5, WithinBounded DEF InTask
<1> QED  BY <1>1, <1>5, <1>7, <1>8 DEF Typed

LEMMA DeployedKeeps ==
    ASSUME IInv, NEW i \in Hosts, Deployed(i)
    PROVE  IInv'
<1> USE DEF IInv
<1> DEFINE n == Len(deployed)
<1>1. /\ task[i].pc = "append" /\ Goto(i, "ended") /\ deployed' = Append(deployed, i)
      /\ UNCHANGED <<opts, pc, turn, failures, back, version, baks, before, tried, disturbed>>
  BY DEF Deployed
<1>2. /\ HostOK(i) /\ ~InDeployed(i) /\ tried[i] = "" /\ task[i].error \notin {"stopped", "failed"}
      /\ pc = "hosts" /\ back = 0
  BY <1>1 DEF Restorable, HostOK, HeldOK, InDeployed, Bounded
<1>3. /\ task' \in [Hosts -> TaskRec] /\ Others(i) /\ task'[i].bak = task[i].bak
      /\ task'[i].pc = "ended" /\ task'[i].error = task[i].error
  BY <1>1, GotoSets DEF Typed, Places
<1>4. /\ deployed' \in Seq(Hosts) /\ Len(deployed') = n + 1 /\ n \in Nat
      /\ deployed'[n + 1] = i /\ \A k \in 1 .. n : deployed'[k] = deployed[k]
  <2>0. deployed \in Seq(Hosts)
    BY DEF Typed
  <2>1. n \in Nat
    BY <2>0
  <2>2. deployed' \in Seq(Hosts) /\ Len(deployed') = n + 1
    BY <1>1, <2>0
  <2>3. deployed'[n + 1] = i /\ \A k \in 1 .. n : deployed'[k] = deployed[k]
    BY <1>1, <2>0
  <2> QED  BY <2>1, <2>2, <2>3
<1>5. \A j, k \in 1 .. n + 1 : deployed'[j] = deployed'[k] => j = k
  <2>1. \A k \in 1 .. n : deployed[k] # i
    BY <1>2 DEF InDeployed
  <2>2. \A j, k \in 1 .. n : deployed[j] = deployed[k] => j = k
    BY DEF Restorable
  <2>3. \A k \in 1 .. n + 1 : k \in 1 .. n \/ k = n + 1
    BY <1>4
  <2> QED  BY <1>4, <2>1, <2>2, <2>3
<1>6. \A j \in Hosts \ {i} : InDeployed(j)' <=> InDeployed(j)
  BY <1>4 DEF InDeployed
<1>7. ASSUME NEW j \in Hosts, j # i PROVE HostOK(j)'
  <2>1. HostOK(j) /\ tried[j] = ""
    <3>1. HostOK(j)
      BY DEF Restorable
    <3>2. \A k \in 1 .. n : ~(k <= back)
      <4>1. \A k \in 1 .. n : ~(k <= 0)
        BY <1>4
      <4> QED  BY <1>2, <4>1
    <3> QED  BY <3>1, <3>2 DEF HostOK, HeldOK
  <2>2. /\ task'[j] = task[j] /\ version' = version /\ baks' = baks
        /\ before' = before /\ tried' = tried /\ disturbed' = disturbed
    BY <1>1, <1>3, <1>7 DEF Others
  <2> QED  BY <1>6, <1>7, <2>1, <2>2 DEF HostOK, HeldOK, Untouched
<1>8. HostOK(i)'
  BY <1>1, <1>2, <1>3 DEF HostOK, HeldOK
<1>9. Restorable'
  <2>1. \A j \in Hosts : HostOK(j)'
    BY <1>7, <1>8
  <2>2. \A j, k \in 1 .. Len(deployed') : deployed'[j] = deployed'[k] => j = k
    BY <1>4, <1>5
  <2> QED  BY <1>1, <1>2, <2>1, <2>2 DEF Restorable
<1>10. Bounded(opts', task', turn', failures')
  BY <1>1, <1>2, <1>3, WithinBounded DEF InTask
<1> QED  BY <1>1, <1>3, <1>4, <1>9, <1>10 DEF Typed

LEMMA CountKeeps ==
    ASSUME IInv, NEW i \in Hosts, Count(i)
    PROVE  IInv'
<1> USE DEF IInv
<1>1. /\ task[i].pc = "ended" /\ Goto(i, "done")
      /\ UNCHANGED <<opts, pc, turn, deployed, back, version, baks, before, tried, disturbed>>
  BY DEF Count
<1>2. HostOK(i) /\ task[i].error # "stopped"
  BY <1>1 DEF Restorable, HostOK, HeldOK
<1>3. /\ task' \in [Hosts -> TaskRec] /\ Others(i) /\ task'[i].bak = task[i].bak
      /\ task'[i].pc = "done" /\ task'[i].error = task[i].error
  BY <1>1, GotoSets DEF Typed, Places
<1>4. HostOK(i)'
  BY <1>1, <1>2, <1>3 DEF HostOK, HeldOK, Untouched, InDeployed
<1>5. Restorable'
  BY <1>1, <1>3, <1>4, HostStep
<1>6. Bounded(opts', task', turn', failures') /\ failures' \in Nat
  BY CountBounded
<1> QED  BY <1>1, <1>3, <1>5, <1>6 DEF Typed

LEMMA NextBatchKeeps == IInv /\ NextBatch => IInv'
<1> SUFFICES ASSUME IInv, NextBatch PROVE IInv'
  OBVIOUS
<1> USE DEF IInv
<1>1. UNCHANGED <<opts, pc, failures, deployed, back, version, baks, before, tried, disturbed>>
  BY DEF NextBatch
<1>2. Bounded(opts', task', turn', failures') /\ task' \in [Hosts -> TaskRec] /\ turn' \in Nat
  BY NextBatchBounded
<1>3. Stopped.pc = "done" /\ Stopped.error = "stopped" /\ Stopped.bak = ""
  BY DEF Stopped, Idle
<1>4. \A j \in Hosts : task'[j] = task[j] \/ (task[j].pc = "idle" /\ task'[j] = Stopped)
  <2> DEFINE w == opts.width
  <2>1. w \in Nat /\ turn \in Nat /\ N \in Nat
    BY LimitIs, HostsFinite DEF Typed
  <2>2. \A j \in turn + w .. N : task[j].pc = "idle"
    BY DEF NextBatch
  <2>3. task' = task \/ task' = [j \in Hosts |-> IF j >= turn + w THEN Stopped ELSE task[j]]
    BY DEF NextBatch
  <2> HIDE DEF w
  <2>4. \A j \in Hosts : j >= turn + w => task[j].pc = "idle"
    BY <2>1, <2>2 DEF Hosts
  <2>5. CASE task' = task
    BY <2>5
  <2>6. CASE task' = [j \in Hosts |-> IF j >= turn + w THEN Stopped ELSE task[j]]
    BY <2>4, <2>6
  <2> QED  BY <2>3, <2>5, <2>6
<1>5. ASSUME NEW j \in Hosts PROVE HostOK(j)'
  <2>1. HostOK(j)
    BY DEF Restorable
  <2>2. CASE task'[j] = task[j]
    BY <1>1, <2>1, <2>2 DEF HostOK, HeldOK, Untouched, InDeployed
  <2>3. CASE task[j].pc = "idle" /\ task'[j] = Stopped
    <3>1. ~InDeployed(j) /\ (j \notin disturbed => Untouched(j)) /\ tried[j] = ""
      BY <2>1, <2>3 DEF HostOK, HeldOK, InDeployed
    <3> QED  BY <1>1, <1>3, <2>3, <3>1 DEF HostOK, HeldOK, Untouched, InDeployed
  <2> QED  BY <1>4, <2>2, <2>3
<1>6. pc = "hosts"
  BY DEF NextBatch
<1>7. Restorable'
  BY <1>1, <1>5, <1>6 DEF Restorable
<1> QED  BY <1>1, <1>2, <1>7 DEF Typed

LEMMA AllDoneKeeps == IInv /\ AllDone => IInv'
<1> SUFFICES ASSUME IInv, AllDone PROVE IInv'
  OBVIOUS
<1> USE DEF IInv
<1>1. /\ UNCHANGED <<opts, turn, task, failures, deployed, back, version, baks, before, tried, disturbed>>
      /\ pc = "hosts" /\ \A j \in Hosts : task[j].pc = "done"
      /\ pc' \in {"rollback", "done"} /\ (pc' = "rollback" => deployed # <<>>)
  BY DEF AllDone
<1>2. \A j \in Hosts : HostOK(j)'
  BY <1>1 DEF Restorable, HostOK, HeldOK, Untouched, InDeployed
<1>3. pc' = "rollback" => back < Len(deployed)
  <2>0. deployed \in Seq(Hosts)
    BY DEF Typed
  <2>1. deployed # <<>> => Len(deployed) > 0
    BY <2>0
  <2>2. back = 0
    BY <1>1 DEF Restorable
  <2> QED  BY <1>1, <2>1, <2>2
<1>4. Restorable'
  BY <1>1, <1>2, <1>3 DEF Restorable
<1> QED  BY <1>1, <1>4 DEF Typed

LEMMA RollbackKeeps == IInv /\ Rollback => IInv'
<1> SUFFICES ASSUME IInv, Rollback PROVE IInv'
  OBVIOUS
<1> USE DEF IInv
<1> DEFINE i == deployed[back + 1]
<1>1. /\ pc = "rollback" /\ back' = back + 1
      /\ pc' = IF back' = Len(deployed) THEN "done" ELSE "rollback"
      /\ UNCHANGED <<opts, turn, task, failures, deployed, before, disturbed>>
  BY DEF Rollback
<1>2. back \in Nat /\ back + 1 \in 1 .. Len(deployed) /\ i \in Hosts /\ Len(deployed) \in Nat
  <2>1. back \in Nat /\ deployed \in Seq(Hosts)
    BY DEF Typed
  <2>2. back < Len(deployed)
    BY <1>1 DEF Restorable
  <2>3. Len(deployed) \in Nat /\ \A k \in 1 .. Len(deployed) : deployed[k] \in Hosts
    BY <2>1
  <2>4. back + 1 \in 1 .. Len(deployed)
    BY <2>1, <2>2, <2>3
  <2> QED  BY <2>1, <2>3, <2>4
<1>3. InDeployed(i)
  BY <1>2 DEF InDeployed
<1> HIDE DEF i
<1>4. HostOK(i) /\ task[i].error # "stopped" /\ task[i].pc = "done"
  BY <1>1, <1>2, <1>3 DEF Restorable, HostOK, HeldOK
<1>5. tried[i] = ""
  <2>1. SUFFICES ASSUME NEW k \in 1 .. Len(deployed), k <= back, deployed[k] = i PROVE FALSE
    BY <1>2, <1>4 DEF HostOK, HeldOK, Typed
  <2>2. deployed[back + 1] = i
    BY DEF i
  <2> QED  BY <1>2, <2>1, <2>2 DEF Restorable
<1>6. \/ /\ baks[i] # <<>> /\ version' = [version EXCEPT ![i] = Last(baks[i])]
         /\ baks' = [baks EXCEPT ![i] = Front(baks[i])] /\ tried' = [tried EXCEPT ![i] = "done"]
      \/ /\ UNCHANGED <<version, baks>> /\ tried' = [tried EXCEPT ![i] = "nothing"]
      \/ /\ UNCHANGED baks /\ tried' = [tried EXCEPT ![i] = "failed"]
         /\ \E v : /\ v \in {version[i], "absent", "torn"} \/ (baks[i] # <<>> /\ v = Last(baks[i]))
                   /\ version' = [version EXCEPT ![i] = v]
  BY DEF Rollback, Restored, Tried, i
<1>7. /\ version[i] \in Versions /\ baks[i] \in Seq(Versions)
      /\ baks[i] # <<>> => Last(baks[i]) \in Versions /\ Front(baks[i]) \in Seq(Versions)
  <2>1. version[i] \in Versions /\ baks[i] \in Seq(Versions)
    BY <1>2 DEF Typed
  <2>2. baks[i] # <<>> => Last(baks[i]) \in Versions
    BY <2>1 DEF Last
  <2>3. baks[i] # <<>> => Front(baks[i]) \in Seq(Versions)
    BY <2>1 DEF Front
  <2> QED  BY <2>1, <2>2, <2>3
<1>8. /\ version' \in [Hosts -> Versions] /\ baks' \in [Hosts -> Seq(Versions)]
      /\ tried' \in [Hosts -> {"", "done", "nothing", "failed"}] /\ tried'[i] # ""
      /\ \A j \in Hosts \ {i} : version'[j] = version[j] /\ baks'[j] = baks[j] /\ tried'[j] = tried[j]
  <2>1. /\ version \in [Hosts -> Versions] /\ baks \in [Hosts -> Seq(Versions)]
        /\ tried \in [Hosts -> {"", "done", "nothing", "failed"}]
        /\ "absent" \in Versions /\ "torn" \in Versions
    BY DEF Typed, Versions
  <2>2. \/ version' = version
        \/ \E v \in Versions : version' = [version EXCEPT ![i] = v]
    BY <1>6, <1>7, <2>1
  <2>3. \/ baks' = baks
        \/ \E b \in Seq(Versions) : baks' = [baks EXCEPT ![i] = b]
    BY <1>6, <1>7
  <2>4. \E outcome \in {"done", "nothing", "failed"} : tried' = [tried EXCEPT ![i] = outcome]
    BY <1>6
  <2>5. version' \in [Hosts -> Versions] /\ \A j \in Hosts \ {i} : version'[j] = version[j]
    BY <1>2, <2>1, <2>2
  <2>6. baks' \in [Hosts -> Seq(Versions)] /\ \A j \in Hosts \ {i} : baks'[j] = baks[j]
    BY <1>2, <2>1, <2>3
  <2>7. /\ tried' \in [Hosts -> {"", "done", "nothing", "failed"}] /\ tried'[i] # ""
        /\ \A j \in Hosts \ {i} : tried'[j] = tried[j]
    BY <1>2, <2>1, <2>4
  <2> QED  BY <2>5, <2>6, <2>7
<1>9. i \notin disturbed /\ task[i].bak = "good" /\ tried'[i] = "done" =>
        version'[i] = before[i].version /\ baks'[i] = before[i].baks
  <2> SUFFICES ASSUME i \notin disturbed, task[i].bak = "good", tried'[i] = "done"
               PROVE  version'[i] = before[i].version /\ baks'[i] = before[i].baks
    OBVIOUS
  <2>1. version'[i] = Last(baks[i]) /\ baks'[i] = Front(baks[i])
    BY <1>2, <1>6 DEF Typed
  <2> DEFINE olds == before[i].baks
             last == before[i].version
  <2>2. baks[i] = Append(olds, last) /\ olds \in Seq(Versions)
    BY <1>2, <1>4, <1>5 DEF HostOK, HeldOK, Typed, Found
  <2> HIDE DEF olds, last
  <2>3. Last(Append(olds, last)) = last
    BY <2>2 DEF Last
  <2>4. Front(Append(olds, last)) = olds
    BY <2>2 DEF Front
  <2> QED  BY <2>1, <2>2, <2>3, <2>4 DEF olds, last
<1>10. ASSUME NEW j \in Hosts PROVE HostOK(j)'
  <2>1. HostOK(j)
    BY DEF Restorable
  <2>2. CASE j = i
    <3>1. \E k \in 1 .. Len(deployed) : k <= back + 1 /\ deployed[k] = i
      BY <1>2 DEF i
    <3> QED  BY <1>1, <1>4, <1>8, <1>9, <2>2, <3>1 DEF HostOK, HeldOK, Untouched, InDeployed
  <2>3. CASE j # i
    <3>1. \A k \in 1 .. Len(deployed) : k <= back => k <= back + 1
      BY <1>2
    <3> QED  BY <1>1, <1>8, <2>1, <2>3, <3>1 DEF HostOK, HeldOK, Untouched, InDeployed
  <2> QED  BY <2>2, <2>3
<1>11. Restorable'
  BY <1>1, <1>2, <1>10 DEF Restorable
<1>12. Bounded(opts', task', turn', failures')
  BY <1>1
<1>13. Typed'
  <2>1. back' \in Nat /\ pc' \in {"rollback", "done"}
    BY <1>1, <1>2
  <2> QED  BY <1>1, <1>8, <2>1 DEF Typed
<1> QED  BY <1>11, <1>12, <1>13

LEMMA NoneYet ==
    /\ <<>> \in Seq(Hosts) /\ <<>> \in Seq(Versions)
    /\ Len(<<>>) = 0 /\ \A k \in 1 .. Len(<<>>) : FALSE
<1>1. Len(<<>>) = 0
  OBVIOUS
<1>2. \A k \in 1 .. 0 : FALSE
  OBVIOUS
<1>3. <<>> \in Seq(Hosts) /\ <<>> \in Seq(Versions)
  OBVIOUS
<1> QED  BY <1>1, <1>2, <1>3

LEMMA DeliveredAgainKeeps == IInv /\ DeliveredAgain => IInv'
<1> SUFFICES ASSUME IInv, DeliveredAgain PROVE IInv'
  OBVIOUS
<1> USE DEF IInv
<1>1. /\ pc' = "hosts" /\ turn' = 1 /\ task' = [i \in Hosts |-> Idle] /\ failures' = 0
      /\ deployed' = <<>> /\ back' = 0
      /\ before' = [i \in Hosts |-> [version |-> version[i], baks |-> baks[i]]]
      /\ tried' = [i \in Hosts |-> ""]
      /\ UNCHANGED <<opts, version, baks>>
  BY DEF DeliveredAgain
<1>2. \A i \in Hosts : task'[i] = Idle
  BY <1>1
<1>3. Bounded(opts', task', turn', failures')
  BY <1>1, <1>2, FreshBounded DEF Typed
<1>4. Typed'
  <2>1. task' \in [Hosts -> TaskRec]
    BY <1>1 DEF Idle, TaskRec, Places
  <2>2. before' \in [Hosts -> Found]
    BY <1>1 DEF Typed, Found
  <2>3. deployed' \in Seq(Hosts)
    BY <1>1, NoneYet
  <2>4. tried' \in [Hosts -> {"", "done", "nothing", "failed"}]
    BY <1>1
  <2> QED  BY <1>1, <2>1, <2>2, <2>3, <2>4 DEF Typed
<1>5. ASSUME NEW i \in Hosts PROVE HostOK(i)'
  <2>1. Untouched(i)'
    BY <1>1 DEF Untouched
  <2>2. task'[i].pc = "idle" /\ task'[i].error = "" /\ task'[i].bak = "" /\ tried'[i] = ""
    BY <1>1, <1>2 DEF Idle
  <2>3. ~InDeployed(i)'
    BY <1>1, NoneYet DEF InDeployed
  <2> QED  BY <2>1, <2>2, <2>3 DEF HostOK, HeldOK
<1>6. Restorable'
  <2>1. \A j, k \in 1 .. Len(deployed') : deployed'[j] = deployed'[k] => j = k
    BY <1>1, NoneYet
  <2> QED  BY <1>1, <1>5, <2>1 DEF Restorable
<1> QED  BY <1>3, <1>4, <1>6

\* An overtaken deployment changes what a host holds, and no more.
LEMMA OvertakenKeeps ==
    ASSUME IInv, NEW i \in Hosts, Overtaken(i)
    PROVE  IInv'
<1> USE DEF IInv
<1>1. /\ disturbed' = disturbed \cup {i}
      /\ UNCHANGED <<opts, pc, turn, task, failures, deployed, back, before, tried>>
  BY DEF Overtaken
<1>2. /\ version[i] \in Versions /\ baks[i] \in Seq(Versions)
      /\ version \in [Hosts -> Versions] /\ baks \in [Hosts -> Seq(Versions)]
      /\ {"new", "torn", "absent"} \subseteq Versions
  BY DEF Typed, Versions
<1>3. baks[i] # <<>> => Last(baks[i]) \in Versions /\ Front(baks[i]) \in Seq(Versions)
  <2>1. baks[i] # <<>> => Last(baks[i]) \in Versions
    BY <1>2 DEF Last
  <2>2. baks[i] # <<>> => Front(baks[i]) \in Seq(Versions)
    BY <1>2 DEF Front
  <2> QED  BY <2>1, <2>2
<1>4. /\ version' = version \/ \E v \in Versions : version' = [version EXCEPT ![i] = v]
      /\ baks' = baks \/ \E b \in Seq(Versions) : baks' = [baks EXCEPT ![i] = b]
  <2>1. ASSUME NEW v \in Versions PROVE Append(baks[i], v) \in Seq(Versions)
    BY <1>2
  <2>2. CASE \E v \in {version[i], "torn"} : baks' = [baks EXCEPT ![i] = Append(@, v)] /\ UNCHANGED version
    BY <1>2, <2>1, <2>2
  <2>3. CASE \E v \in {"new", "torn"} : version' = [version EXCEPT ![i] = v] /\ UNCHANGED baks
    BY <1>2, <2>3
  <2>4. CASE baks[i] # <<>> /\ Restored(i)
    BY <1>3, <2>4 DEF Restored
  <2>5. CASE /\ baks[i] # <<>> /\ UNCHANGED baks
             /\ \E v \in {"absent", "torn", Last(baks[i])} : version' = [version EXCEPT ![i] = v]
    BY <1>2, <1>3, <2>5
  <2> QED  BY <2>2, <2>3, <2>4, <2>5 DEF Overtaken
<1>5. /\ version' \in [Hosts -> Versions] /\ \A j \in Hosts \ {i} : version'[j] = version[j]
      /\ baks' \in [Hosts -> Seq(Versions)] /\ \A j \in Hosts \ {i} : baks'[j] = baks[j]
  BY <1>2, <1>4
<1>6. ASSUME NEW j \in Hosts PROVE HostOK(j)'
  <2>1. HostOK(j)
    BY DEF Restorable
  <2> QED  BY <1>1, <1>5, <2>1 DEF HostOK, HeldOK, Untouched, InDeployed
<1>7. Restorable'
  BY <1>1, <1>6 DEF Restorable
<1>8. Bounded(opts', task', turn', failures')
  BY <1>1
<1>9. Typed'
  BY <1>1, <1>5 DEF Typed
<1> QED  BY <1>7, <1>8, <1>9

LEMMA InitIInv == Init => IInv
<1> SUFFICES ASSUME Init PROVE IInv
  OBVIOUS
<1>1. /\ opts \in OptsRec /\ (opts.strategy = "serial" => opts.width = 1)
      /\ pc = "hosts" /\ turn = 1 /\ task = [i \in Hosts |-> Idle] /\ failures = 0
      /\ deployed = <<>> /\ back = 0 /\ tried = [i \in Hosts |-> ""]
  BY DEF Init, OptsRec
<1>2. PICK found \in {[version |-> "absent", baks |-> <<>>], [version |-> "old", baks |-> <<"older">>]} :
          /\ before = [i \in Hosts |-> found]
          /\ version = [i \in Hosts |-> found.version]
          /\ baks = [i \in Hosts |-> found.baks]
  BY DEF Init
<1>3. found.version \in Versions /\ found.baks \in Seq(Versions) /\ found \in Found
  <2>1. "old" \in Versions /\ "absent" \in Versions /\ "older" \in Versions
    BY DEF Versions
  <2>2. <<"older">> \in Seq(Versions)
    BY <2>1
  <2>3. found.version \in Versions
    BY <1>2, <2>1
  <2>4. found.baks \in Seq(Versions)
    <3>1. found.baks = <<>> \/ found.baks = <<"older">>
      BY <1>2
    <3> QED  BY <2>2, <3>1, NoneYet
  <2>5. found = [version |-> found.version, baks |-> found.baks]
    BY <1>2
  <2> QED  BY <2>3, <2>4, <2>5 DEF Found
<1>4. \A i \in Hosts : task[i] = Idle
  BY <1>1
<1>5. Bounded(opts, task, turn, failures)
  BY <1>1, <1>4, FreshBounded
<1>6. Typed
  <2>1. task \in [Hosts -> TaskRec]
    BY <1>1 DEF Idle, TaskRec, Places
  <2>2. version \in [Hosts -> Versions] /\ baks \in [Hosts -> Seq(Versions)] /\ before \in [Hosts -> Found]
    BY <1>2, <1>3
  <2>3. deployed \in Seq(Hosts)
    BY <1>1, NoneYet
  <2>4. tried \in [Hosts -> {"", "done", "nothing", "failed"}]
    BY <1>1
  <2> QED  BY <1>1, <2>1, <2>2, <2>3, <2>4 DEF Typed
<1>7. ASSUME NEW i \in Hosts PROVE HostOK(i)
  <2>1. Untouched(i)
    BY <1>2 DEF Untouched
  <2>2. task[i].pc = "idle" /\ task[i].error = "" /\ task[i].bak = "" /\ tried[i] = ""
    BY <1>1, <1>4 DEF Idle
  <2>3. ~InDeployed(i)
    BY <1>1, NoneYet DEF InDeployed
  <2> QED  BY <2>1, <2>2, <2>3 DEF HostOK, HeldOK
<1>8. Restorable
  <2>1. \A j, k \in 1 .. Len(deployed) : deployed[j] = deployed[k] => j = k
    BY <1>1, NoneYet
  <2> QED  BY <1>1, <1>7, <2>1 DEF Restorable
<1> QED  BY <1>5, <1>6, <1>8 DEF IInv

LEMMA NextKeeps == IInv /\ [Next]_vars => IInv'
<1> SUFFICES ASSUME IInv, [Next]_vars PROVE IInv'
  OBVIOUS
<1>1. CASE UNCHANGED vars
  <2>1. UNCHANGED <<opts, pc, turn, task, failures, deployed, back, version, baks, before, tried, disturbed>>
    BY <1>1 DEF vars
  <2>2. Typed'
    BY <2>1 DEF IInv, Typed
  <2>3. Bounded(opts', task', turn', failures')
    BY <2>1 DEF IInv
  <2>4. Restorable'
    <3>1. \A i \in Hosts : HostOK(i)'
      BY <2>1 DEF IInv, Restorable, HostOK, HeldOK, Untouched, InDeployed
    <3> QED  BY <2>1, <3>1 DEF IInv, Restorable
  <2> QED  BY <2>2, <2>3, <2>4 DEF IInv
<1>2. ASSUME NEW i \in Hosts,
             Start(i) \/ Backup(i) \/ Upload(i) \/ Script(i) \/ Deployed(i) \/ Count(i)
             \/ Overtaken(i)
      PROVE  IInv'
  <2>1. CASE Start(i)
    BY <2>1, StartKeeps
  <2>2. CASE Backup(i)
    BY <2>2, BackupKeeps
  <2>3. CASE Upload(i)
    BY <2>3, UploadKeeps
  <2>4. CASE Script(i)
    BY <2>4, ScriptKeeps
  <2>5. CASE Deployed(i)
    BY <2>5, DeployedKeeps
  <2>6. CASE Count(i)
    BY <2>6, CountKeeps
  <2>7. CASE Overtaken(i)
    BY <2>7, OvertakenKeeps
  <2> QED  BY <1>2, <2>1, <2>2, <2>3, <2>4, <2>5, <2>6, <2>7
<1>3. CASE NextBatch
  BY <1>3, NextBatchKeeps
<1>4. CASE AllDone
  BY <1>4, AllDoneKeeps
<1>5. CASE Rollback
  BY <1>5, RollbackKeeps
<1>6. CASE DeliveredAgain
  BY <1>6, DeliveredAgainKeeps
<1> QED  BY <1>1, <1>2, <1>3, <1>4, <1>5, <1>6 DEF Next

\* The hosts a deployment has broken are at most the failure threshold and the
\* width of the pool or of the batch less one, whatever the number of hosts,
\* the inputs of the step, the order of the tasks and the repetitions of the stage
\* (sshrunner/batch.go).
THEOREM Overshoot == Spec => []FailuresBounded
<1>1. Init => IInv
  BY InitIInv
<1>2. IInv /\ [Next]_vars => IInv'
  BY NextKeeps
<1>3. IInv => FailuresBounded
  BY BoundedFailures DEF IInv
<1> QED  BY <1>1, <1>2, <1>3, PTL DEF Spec

\* A host that had succeeded in a failed deployment, with a good backup and a
\* rollback that reported success, holds the version and the backups it had
\* when the step began, and a host the executor stopped before has not been
\* touched, but for the hosts at which a deployment that goes on behind its
\* timeout has been meanwhile (ssh_deploy.go).
THEOREM RollbackRestores == Spec => []RolledBack
<1>1. Init => IInv
  BY InitIInv
<1>2. IInv /\ [Next]_vars => IInv'
  BY NextKeeps
<1>3. IInv => RolledBack
  BY RestorableRolledBack
<1> QED  BY <1>1, <1>2, <1>3, PTL DEF Spec

=============================================================================
