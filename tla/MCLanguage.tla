----------------------------- MODULE MCLanguage -----------------------------
(***************************************************************************)
(* The language of pipelines: documents for PipelineSpec, sources for      *)
(* Expression.  The two share no state and are checked in one run, which   *)
(* lets one of them move.                                                  *)
(*                                                                         *)
(* Documents: every graph of needs over three stages and an unknown name,  *)
(* every combination of a few matrices, and the ways in which one stage or *)
(* the head of a document can be wrong.                                    *)
(*                                                                         *)
(* Sources: every sequence of up to MaxTokens tokens, every chain of four  *)
(* operands, and strings of several parts.                                 *)
(***************************************************************************)
EXTENDS PipelineSpec, Expression

CONSTANT MaxTokens

-----------------------------------------------------------------------------
(* Documents                                                               *)

A == <<1>>
B == <<2>>
C == <<3>>
A0 == <<1, 0>>
Ghost == <<4>>
Dashed == <<9>>
MCSeparators == {9}

Run  == [run |-> TRUE, uses |-> FALSE]
Use  == [run |-> FALSE, uses |-> TRUE]
Idle == [run |-> FALSE, uses |-> FALSE]
Both == [run |-> TRUE, uses |-> TRUE]

Stage(id, needs) ==
    [id |-> id, type |-> "", needs |-> needs, approvers |-> FALSE, steps |-> <<Run>>,
     uses |-> FALSE, options |-> TRUE, texts |-> {}, matrix |-> NoMatrix]
Doc(ss) == [version |-> "1", name |-> TRUE, texts |-> {}, stages |-> ss]

\* Graphs.
NeedsSets == {S \in SUBSET {A, B, C, Ghost} : Ghost \in S => Cardinality(S) <= 2}
ByName(S) == SetToSortSeq(S, Before)
Graphs ==
    {Doc(<<Stage(A, ByName(x)), Stage(B, ByName(y)), Stage(C, ByName(z))>>) :
        x, y, z \in NeedsSets}

\* Matrices.
Dim(k, v) == [key |-> k, vals |-> v]
TwoValues == [NoMatrix EXCEPT !.dims = <<Dim("os", <<1, 2>>)>>]
Matrices == {
    NoMatrix, TwoValues,
    [TwoValues EXCEPT !.exclude = { "os" :> 1 }],
    [TwoValues EXCEPT !.exclude = { "os" :> 1, "os" :> 2 }],
    [TwoValues EXCEPT !.exclude = { "os" :> 1, "os" :> 2 }, !.include = << "arch" :> 1 >>],
    [TwoValues EXCEPT !.exclude = { <<>> , "arch" :> 1 }],
    [NoMatrix EXCEPT !.dims = <<Dim("arch", <<1, 2>>), Dim("os", <<1, 2>>)>>,
                     !.exclude = { ("arch" :> 1) @@ ("os" :> 2) }],
    [NoMatrix EXCEPT !.dims = <<Dim("arch", <<>>)>>],
    [NoMatrix EXCEPT !.include = << "os" :> 1, "os" :> 3 >>] }
Wide(s, m) == [s EXCEPT !.matrix = m]
Expansions ==
    {Doc(<<Wide(Stage(x, nx), m1), Wide(Stage(y, ny), m2), Stage(z, nz)>>) :
        <<x, y, z>> \in {<<A, B, C>>, <<A, A0, B>>, <<A, B, A0>>, <<A0, A, B>>},
        nx \in {<<>>, <<B>>}, ny \in {<<>>, <<A>>, <<A0>>}, nz \in {<<>>, <<A>>, <<B, A>>, <<A, B>>},
        m1, m2 \in Matrices}

\* A stage whose id is that of an instance closes a cycle that the document has not.
First == <<0>>
Collisions ==
    {Doc(<<Stage(First, <<>>), Wide(Stage(A, <<B>>), m), Stage(A0, <<>>), Stage(B, n)>>) :
        m \in Matrices, n \in {<<A0>>, <<A0, First>>, <<First>>}}

\* One wrong stage, or a wrong head.
Gate == [Stage(B, <<A>>) EXCEPT !.type = "approval", !.steps = <<>>, !.approvers = TRUE]
Odd == {
    [Stage(<<>>, <<>>) EXCEPT !.steps = <<Use>>], Stage(Dashed, <<>>),
    [Stage(B, <<>>) EXCEPT !.type = "deploy"], Gate,
    [Gate EXCEPT !.approvers = FALSE], [Gate EXCEPT !.steps = <<Run>>], [Gate EXCEPT !.uses = TRUE],
    [Gate EXCEPT !.options = FALSE], [Stage(B, <<A>>) EXCEPT !.options = FALSE],
    [Stage(B, <<A>>) EXCEPT !.steps = <<>>], [Stage(B, <<A>>) EXCEPT !.uses = TRUE],
    [Stage(B, <<A>>) EXCEPT !.uses = TRUE, !.steps = <<>>],
    [Stage(B, <<A>>) EXCEPT !.steps = <<Run, Both>>], [Stage(B, <<A>>) EXCEPT !.steps = <<Idle>>] }
OddTexts == {<<>>, <<"text">>, <<"${{", "}}">>, <<"${{", "vars", "}}">>, <<"${{", "bogus", "}}">>,
          <<"${{", "text", "${{", "}}">>, <<"}}", "${{">>, <<"${{", "${{", "vars", "}}", "}}">>,
          <<"${{", "vars", "}}", "text", "${{", "env", "}}">>}
Oddities ==
    {Doc(<<Stage(A, <<>>), s>>) : s \in Odd}
    \cup {Doc(<<Stage(A, <<>>), [s EXCEPT !.texts = {t}]>>) : s \in {Stage(A, <<>>), Gate}, t \in OddTexts}
    \cup {[Doc(<<Stage(A, <<>>)>>) EXCEPT !.texts = {t}] : t \in OddTexts}
    \cup {[version |-> v, name |-> n, texts |-> {}, stages |-> ss] :
              v \in {"", "1", "2"}, n \in BOOLEAN, ss \in {<<>>, <<Stage(A, <<>>)>>}}

MCDocs == Graphs \cup Expansions \cup Collisions \cup Oddities

-----------------------------------------------------------------------------
(* Sources                                                                 *)

MCLiterals == [t \in {"0", "2", "half", "empty", "one", "nil"} |->
    CASE t = "0" -> Num(0, 1) [] t = "2" -> Num(2, 1) [] t = "half" -> Num(1, 2)
      [] t = "empty" -> Str(<<>>) [] t = "one" -> Str(<<1>>) [] t = "nil" -> Nil]
MCIdents == "m" :> <<40>> @@ "k" :> <<41>> @@ "success" :> <<42>> @@ "join" :> <<43>>
MCValues == "m" :> [t |-> "map", m |-> (<<1>> :> Str(<<40>>)) @@ (<<41>> :> Num(3, 1))] @@ "k" :> [t |-> "arr", a |-> <<Num(1, 1), Nil>>]

Tokens == {"0", "m", "k", "(", ")", "[", "]", ".", ",", "!", "-", "+", "==", "&&", "||", "?", ":"}
Sources == UNION {[1 .. n -> Tokens] : n \in 1 .. MaxTokens}

Ops == {"||", "&&", "==", "<", "-", "/", "%"}
Operands == {<<"0">>, <<"half">>, <<"!", "empty">>, <<"-", "m", ".", "k">>}
Chains ==
    {<<"2">> \o <<o>> \o a \o <<p>> \o b \o <<q>> \o <<"m", "[", "one", "]">> :
        o, p, q \in Ops, a, b \in Operands}
    \cup {<<"(", "2", o>> \o a \o <<")", p>> \o b \o <<"?", "0", ":", "2", "?", "k", ":", "one">> :
        o, p \in Ops, a, b \in Operands}
Joinable == {<<"0">>, <<"one">>, <<"empty">>, <<"m">>, <<"success", "(", ")">>, <<"nil">>,
             <<"(", "2", "/", "0", ")">>, <<"(", "m", "==", "m", ")">>, <<"join", "(", "k", ",", "one", ")">>,
             <<"join", "(", "0", ")">>}
Joins2 == {a \o <<o>> \o b : a, b \in Joinable, o \in {"&&", "||"}}
Functions == {<<f, "(">> \o a \o <<",">> \o b \o <<")">> : f \in {"join", "m", "success"},
                 a, b \in {<<"k">>, <<"one">>, <<"2", ">", "0">>}}

Block(s) == [block |-> TRUE, src |-> s, plain |-> <<>>]
Verbatim(s) == [block |-> FALSE, src |-> <<>>, plain |-> s]
Words == {Verbatim(<<40>>), Block(<<"m">>), Block(<<"one">>), Block(<<"2", "/", "0">>), Block(<<"2", "%", "half">>)}
MCTexts == {<<Block(s)>> : s \in Sources \cup Chains \cup Joins2 \cup Functions}
           \cup UNION {[1 .. n -> Words] : n \in 0 .. 3}

-----------------------------------------------------------------------------
NoText == <<>>
NoDoc  == Doc(<<>>)
MCInit ==
    \/ text = NoText /\ status = "" /\ ExpressionInit /\ Init
    \/ doc = NoDoc /\ Init /\ ExpressionInit
MCNext ==
    \/ text = NoText /\ Next /\ UNCHANGED expressionVars
    \/ doc = NoDoc /\ ExpressionNext /\ UNCHANGED vars
MCSpec == MCInit /\ [][MCNext]_<<vars, expressionVars>>
=============================================================================
