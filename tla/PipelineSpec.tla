---------------------------- MODULE PipelineSpec ----------------------------
(***************************************************************************)
(* The pipeline language between the editor and the scheduler: validation  *)
(* (api/pkg/dsl), the expansion of matrix stages and the graph of the      *)
(* instances (api/pkg/engine).  A document is what Parse has decoded.      *)
(* Names are sequences of numbers in the order of the strings they stand   *)
(* for, an instance is the name with its index appended: build-0 is a name *)
(* a stage may also be given by its author.                                *)
(***************************************************************************)
EXTENDS Integers, Sequences, FiniteSets, SequencesExt

CONSTANTS
    Docs,       \* the documents to choose from
    Separators  \* the numbers an id may not contain: idPattern refuses them

VARIABLES
    doc,     \* the document
    phase,   \* how far it has come
    errors,  \* the kinds of the errors ValidateRaw has returned
    cycles,  \* the cycles the last search has reported
    stages,  \* the stages of the expanded pipeline
    layers   \* the result of TopologicalSort

vars == <<doc, phase, errors, cycles, stages, layers>>

RangeOf(s)    == {s[i] : i \in DOMAIN s}
When(c, set)  == IF c THEN set ELSE {}

-----------------------------------------------------------------------------
(* Validation                                                              *)

\* A stage as the document declares it.  steps: for every step whether it has a
\* run and a uses; options: whether mode, timeout and on_timeout are legal; texts:
\* the strings that may hold expressions, as sequences of delimiters, the roots of
\* references and "text".

StageErrors(s) ==
    When(s.id = <<>> \/ RangeOf(s.id) \cap Separators # {}, {"id"})
    \cup When(s.type \notin {"", "approval"}, {"type"})
    \cup (IF s.type = "approval"
          THEN When(~s.approvers, {"approvers"}) \cup When(s.steps # <<>>, {"steps"})
               \cup When(s.uses, {"uses"}) \cup When(~s.options, {"options"})
          ELSE When(s.steps = <<>> /\ ~s.uses, {"nothing"})
               \cup When(s.steps # <<>> /\ s.uses, {"both"}))
    \cup When(\E t \in RangeOf(s.steps) : t.run = t.uses, {"step"})

\* A document without stages is not looked at further.
StructErrors(d) ==
    When(d.version # "1", {"version"}) \cup When(~d.name, {"name"})
    \cup (IF d.stages = <<>> THEN {"stages"} ELSE UNION {StageErrors(s) : s \in RangeOf(d.stages)})

Named(d) == {s.id : s \in RangeOf(d.stages)} \ {<<>>}

CrossErrors(d) ==
    When(\E i, j \in DOMAIN d.stages : /\ i < j /\ d.stages[i].id = d.stages[j].id
                                       /\ d.stages[i].id # <<>>, {"duplicate"})
    \cup When(\E s \in RangeOf(d.stages) : RangeOf(s.needs) \ Named(d) # {}, {"unknown"})
    \cup When(\E s \in RangeOf(d.stages) : s.id \in RangeOf(s.needs), {"self"})

\* exprPattern: from an opening delimiter to the next closing one, with nothing
\* that closes in between; FindAll goes on behind a match.
Count(t, x) == Cardinality({i \in DOMAIN t : t[i] = x})
Blocks(t) ==
    {b \in (DOMAIN t) \X (DOMAIN t) :
        /\ b[1] < b[2] /\ t[b[1]] = "${{" /\ t[b[2]] = "}}"
        /\ \A i \in b[1] + 1 .. b[2] - 1 : t[i] # "}}"
        /\ \A i \in 1 .. b[1] - 1 : t[i] = "${{" => \E j \in i .. b[1] : t[j] = "}}"}
Roots == {"vars", "env", "inputs", "secrets", "matrix", "needs", "github", "run", "steps"}

TextErrors(t) ==
    IF Count(t, "${{") # Count(t, "}}") THEN {"unbalanced"}
    ELSE When(\E b \in Blocks(t) : b[2] = b[1] + 1, {"empty"})
         \cup When(\E b \in Blocks(t) : \E i \in b[1] + 1 .. b[2] - 1 :
                       t[i] \notin Roots \cup {"text", "${{"}, {"root"})

ExpressionErrors(d) ==
    UNION {TextErrors(t) : t \in UNION {s.texts : s \in RangeOf(d.stages)} \cup d.texts}

\* The stages a stage needs, as validateDAG keeps them for a name; a mutant looks at
\* the last stage of the document in vain.
AdjacentButLast(d, id) ==
    FlattenSeq([i \in 1 .. Len(d.stages) - 1 |->
        IF d.stages[i].id = id THEN SelectSeq(d.stages[i].needs, LAMBDA n : n \in Named(d)) ELSE <<>>])

Adjacent(d, id) ==
    FlattenSeq([i \in DOMAIN d.stages |->
        IF d.stages[i].id = id THEN SelectSeq(d.stages[i].needs, LAMBDA n : n \in Named(d)) ELSE <<>>])

\* validateDAG.  The colour of a stage, the stack of the search and the cycle it
\* has returned: a search that returns one leaves its stack and its grey stages.
White(ids)     == [color |-> [id \in ids |-> "white"], stack |-> <<>>]
Entered(id, s) == [s EXCEPT !.color[id] = "gray", !.stack = Append(@, id)]

\* From the first entry of dep on the stack, and back to it.
Closed(s, dep) ==
    LET at == CHOOSE k \in DOMAIN s.stack : /\ s.stack[k] = dep
                                            /\ \A l \in 1 .. k - 1 : s.stack[l] # dep
    IN Append(SubSeq(s.stack, at, Len(s.stack)), dep)

RECURSIVE VisitFrom(_, _, _, _)
VisitFrom(d, id, i, s) ==
    IF s.cycle # <<>> THEN s
    ELSE IF i > Len(Adjacent(d, id))
         THEN [s EXCEPT !.color[id] = "black", !.stack = Front(@)]
    ELSE LET dep == Adjacent(d, id)[i] IN
         CASE s.color[dep] = "gray" -> [s EXCEPT !.cycle = Closed(s, dep)]
           [] s.color[dep] = "white" ->
                  VisitFrom(d, id, i + 1, VisitFrom(d, dep, 1, Entered(dep, s)))
           [] OTHER -> VisitFrom(d, id, i + 1, s)

\* The loop over the map of ids, in the order the runtime has chosen; the cycles
\* it has found.
RECURSIVE Searched(_, _, _)
Searched(d, order, s) ==
    IF order = <<>> THEN {}
    ELSE IF s.color[Head(order)] # "white" THEN Searched(d, Tail(order), s)
    ELSE LET t == VisitFrom(d, Head(order), 1, Entered(Head(order), s))
         IN When(t.cycle # <<>>, {t.cycle})
            \cup Searched(d, Tail(order), [t EXCEPT !.cycle = <<>>])

DagErrors(d, order) ==
    Searched(d, order, White(Named(d)) @@ [cycle |-> <<>>])

-----------------------------------------------------------------------------
(* Matrix stages                                                           *)

\* matrix: dims, the dimensions in the order of their keys, include and exclude,
\* which list combinations; a combination maps keys to values.
NoMatrix == [dims |-> <<>>, exclude |-> {}, include |-> <<>>]

RECURSIVE Cartesian(_)
Cartesian(dims) ==
    IF dims = <<>> THEN << <<>> >>
    ELSE LET last == dims[Len(dims)] IN
         FlattenSeq([i \in DOMAIN Cartesian(Front(dims)) |->
             [j \in DOMAIN last.vals |-> (last.key :> last.vals[j]) @@ Cartesian(Front(dims))[i]]])

\* Every key of an exclude that lists one is met.
Excluded(c, m) ==
    \E x \in m.exclude : /\ x # <<>>
                         /\ \A k \in DOMAIN x : k \in DOMAIN c /\ c[k] = x[k]

Combos(m) ==
    (IF m.dims = <<>> THEN <<>> ELSE SelectSeq(Cartesian(m.dims), LAMBDA c : ~Excluded(c, m)))
    \o m.include

Plain(m)        == m.dims = <<>> /\ m.include = <<>>
MatrixFails(m)  == /\ ~Plain(m)
                   /\ \/ \E i \in DOMAIN m.dims : m.dims[i].vals = <<>>
                      \/ Combos(m) = <<>>

\* ExpandMatrix: the instances of a stage; the first has index 0.
Instances(s) ==
    IF Plain(s.matrix) THEN << [id |-> s.id, of |-> s.id, needs |-> s.needs] >>
    ELSE [i \in DOMAIN Combos(s.matrix) |->
             [id |-> Append(s.id, i - 1), of |-> s.id, needs |-> s.needs]]

\* A mutant: needs are reconnected to the first instance only.
IdsOfFirst(d, id) == << Instances(CHOOSE s \in RangeOf(d.stages) : s.id = id)[1].id >>

\* The entry of a stage in the map from declared ids to those of the instances.
IdsOf(d, id) ==
    LET all == Instances(CHOOSE s \in RangeOf(d.stages) : s.id = id)
    IN [i \in DOMAIN all |-> all[i].id]

Distinct(seq) ==
    FoldLeft(LAMBDA acc, x : IF x \in RangeOf(acc) THEN acc ELSE Append(acc, x), <<>>, seq)

Reconnected(d, needs) ==
    Distinct(FlattenSeq([i \in DOMAIN needs |->
        IF needs[i] \in {s.id : s \in RangeOf(d.stages)} THEN IdsOf(d, needs[i]) ELSE <<needs[i]>>]))

Expanded(d) ==
    LET all == FlattenSeq([i \in DOMAIN d.stages |-> Instances(d.stages[i])])
    IN [i \in DOMAIN all |-> [all[i] EXCEPT !.needs = Reconnected(d, @)]]

-----------------------------------------------------------------------------
(* The graph of the instances                                              *)

\* BuildDAG: the first stage of an id counts.
Order(ss)     == Distinct([i \in DOMAIN ss |-> ss[i].id])
Node(ss, id)  == ss[CHOOSE i \in DOMAIN ss : /\ ss[i].id = id
                                            /\ \A j \in 1 .. i - 1 : ss[j].id # id]
In(ss, id)    == SelectSeq(Node(ss, id).needs, LAMBDA n : n # id /\ n \in RangeOf(Order(ss)))
Out(ss, id)   == {n \in RangeOf(Order(ss)) : id \in RangeOf(In(ss, n))}
Dangling(ss)  == UNION {RangeOf(Node(ss, id).needs) : id \in RangeOf(Order(ss))} \ RangeOf(Order(ss))

\* The order of the names.
Before(a, b) ==
    \/ IsStrictPrefix(a, b)
    \/ \E i \in DOMAIN a \cap DOMAIN b : a[i] < b[i] /\ SubSeq(a, 1, i - 1) = SubSeq(b, 1, i - 1)
Sorted(ids) == SetToSortSeq(ids, Before)

\* DetectCycles: the search goes on behind a cycle and pops its stack.
RECURSIVE Walk(_, _, _, _)
Walk(ss, id, nexts, s) ==
    IF nexts = <<>> THEN [s EXCEPT !.color[id] = "black", !.stack = Front(@)]
    ELSE Walk(ss, id, Tail(nexts),
         CASE s.color[Head(nexts)] = "gray" -> [s EXCEPT !.cycles = Append(@, Closed(s, Head(nexts)))]
           [] s.color[Head(nexts)] = "white" ->
                  Walk(ss, Head(nexts), Sorted(Out(ss, Head(nexts))), Entered(Head(nexts), s))
           [] OTHER -> s)

DetectCycles(ss) ==
    FoldLeft(LAMBDA s, id : IF s.color[id] # "white" THEN s
                            ELSE Walk(ss, id, Sorted(Out(ss, id)), Entered(id, s)),
             White(RangeOf(Order(ss))) @@ [cycles |-> <<>>], Sorted(RangeOf(Order(ss)))).cycles

\* TopologicalSort of a graph without cycles: layer by layer, in the order of the
\* document, what no stage left over is needed by.
RECURSIVE LayersOf(_, _)
LayersOf(ss, left) ==
    LET fresh == SelectSeq(left, LAMBDA id : RangeOf(In(ss, id)) \cap RangeOf(left) = {})
    IN IF fresh = <<>> THEN <<>>
       ELSE <<fresh>> \o LayersOf(ss, SelectSeq(left, LAMBDA id : id \notin RangeOf(fresh)))

-----------------------------------------------------------------------------
(* The way of a document                                                   *)

Init ==
    /\ doc \in Docs
    /\ phase = "raw"
    /\ errors = {} /\ cycles = {}
    /\ stages = <<>> /\ layers = <<>>

\* ValidateRaw, as save, validate and the editor call it.
Validate ==
    /\ phase = "raw"
    /\ \E order \in SetToSeqs(Named(doc)) : cycles' = DagErrors(doc, order)
    /\ errors' = StructErrors(doc) \cup CrossErrors(doc) \cup ExpressionErrors(doc)
                 \cup When(cycles' # {}, {"cycle"})
    /\ phase' = IF errors' = {} THEN "accepted" ELSE "rejected"
    /\ UNCHANGED <<doc, stages, layers>>

\* ExpandPipeline, at Bootstrap, at every tick and at every execution.
ExpandPipeline ==
    /\ phase = "accepted"
    /\ IF \E s \in RangeOf(doc.stages) : MatrixFails(s.matrix)
       THEN phase' = "failed" /\ UNCHANGED stages
       ELSE phase' = "expanded" /\ stages' = Expanded(doc)
    /\ UNCHANGED <<doc, errors, cycles, layers>>

\* BuildDAG, DetectCycles and TopologicalSort.
BuildGraph ==
    /\ phase = "expanded"
    /\ cycles' = RangeOf(DetectCycles(stages))
    /\ IF cycles' # {} THEN phase' = "failed" /\ UNCHANGED layers
       ELSE phase' = "layered" /\ layers' = LayersOf(stages, Order(stages))
    /\ UNCHANGED <<doc, errors, stages>>

Next == Validate \/ ExpandPipeline \/ BuildGraph
Spec == Init /\ [][Next]_vars

-----------------------------------------------------------------------------
(* Properties                                                              *)

\* Reachability, by definition: the least relation that has the edges and is
\* transitive.
RECURSIVE Closure(_)
Closure(r) ==
    LET more == r \cup {<<x[1], y[2]>> : <<x, y>> \in {p \in r \X r : p[1][2] = p[2][1]}}
    IN IF more = r THEN r ELSE Closure(more)
Cyclic(r) == \E e \in Closure(r) : e[1] = e[2]
IsCycle(path, r) == /\ Len(path) > 1 /\ path[1] = path[Len(path)]
                    /\ \A i \in 1 .. Len(path) - 1 : <<path[i], path[i + 1]>> \in r

NeedsGraph    == {e \in Named(doc) \X Named(doc) :
                     \E s \in RangeOf(doc.stages) : s.id = e[1] /\ e[2] \in RangeOf(s.needs)}
InstanceGraph == {e \in RangeOf(Order(stages)) \X RangeOf(Order(stages)) :
                     e[1] # e[2] /\ e[1] \in RangeOf(Node(stages, e[2]).needs)}

\* Whatever order the ids are visited in, and though a search that finds a cycle
\* leaves its colours and its stack behind, a cycle is reported exactly when the
\* needs of the document have one (validateDAG).
CycleVerdict ==
    phase \in {"accepted", "rejected"} => (("cycle" \in errors) <=> Cyclic(NeedsGraph))

\* The instances get ids of their own unless an author has chosen one of them, and
\* every matrix has a combination left: validation looks at neither.
Expandable ==
    /\ \A s \in RangeOf(doc.stages) : ~MatrixFails(s.matrix)
    /\ \A i, j \in DOMAIN Expanded(doc) : i # j => Expanded(doc)[i].id # Expanded(doc)[j].id

LayerOf(id) == CHOOSE k \in DOMAIN layers : id \in RangeOf(layers[k])

\* An accepted document that can be expanded runs as its needs say: every instance
\* is in one layer, waits for every instance of every stage its own stage needs and
\* is in a layer behind theirs, but no later than they require.
RunsInOrder ==
    (phase \notin {"raw", "rejected"} /\ Expandable) =>
        /\ phase # "failed"
        /\ phase = "layered" =>
              /\ Dangling(stages) = {}
              /\ \A st \in RangeOf(stages) :
                     Cardinality({k \in DOMAIN layers : st.id \in RangeOf(layers[k])}) = 1
              /\ \A st \in RangeOf(stages) :
                     LET s  == CHOOSE x \in RangeOf(doc.stages) : x.id = st.of
                         up == {u \in RangeOf(stages) : u.of \in RangeOf(s.needs)}
                     IN /\ \A u \in up : <<u.id, st.id>> \in InstanceGraph /\ LayerOf(u.id) < LayerOf(st.id)
                        /\ LayerOf(st.id) > 1 => \E u \in up : LayerOf(u.id) = LayerOf(st.id) - 1

\* matrix.go:189: the suffix keeps the ids of the instances apart; dag.go:25 relies
\* on it.
InstancesApart ==
    phase \in {"expanded", "layered"} =>
        \A i, j \in DOMAIN stages : i # j => stages[i].id # stages[j].id

\* validator.go:362: a reported path is a cycle.
ReportedCycles ==
    phase \in {"accepted", "rejected"} => \A path \in cycles : IsCycle(path, NeedsGraph)

=============================================================================
