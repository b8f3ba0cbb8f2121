----------------------------- MODULE Expression -----------------------------
(***************************************************************************)
(* The expressions of the pipeline language (api/pkg/expr): the parser,    *)
(* the evaluation and RenderString, which replaces the ${{ }} blocks of a  *)
(* string.  A source is a sequence of tokens.  Strings are sequences of    *)
(* numbers in the order of the characters: a digit is itself, "-" is -2,   *)
(* "." is -1, words are above 9.  Numbers are fractions.                   *)
(***************************************************************************)
EXTENDS Integers, Sequences, FiniteSets, SequencesExt

CONSTANTS
    Texts,      \* the strings to render: sequences of plain strings and blocks
    Literals,   \* the value of every literal token
    Idents,     \* the text of every token that is a name
    Values,     \* Context.Values
    RunStatuses \* the values Context.RunStatus may have

VARIABLES
    text,      \* the string, as a sequence of parts
    status,    \* Context.RunStatus
    rendered,  \* what RenderString has returned: the string,
    raw,       \* the value of a single block, Nil otherwise
    failed,    \* the parts whose block is in error
    outcome    \* "source", "done" or "panic"

expressionVars == <<text, status, rendered, raw, failed, outcome>>

-----------------------------------------------------------------------------
(* The parser                                                              *)

\* The operators of every level, from parseOr to parseMul.
Levels == << {"||"}, {"&&"}, {"==", "!="}, {"<", ">", "<=", ">="}, {"+", "-"}, {"*", "/", "%"} >>

Is(toks, t)      == toks # <<>> /\ Head(toks) = t
Fail             == [ok |-> FALSE, node |-> <<>>, rest |-> <<>>]
Found(n, rest)   == [ok |-> TRUE, node |-> n, rest |-> rest]
Callable(n)      == n[1] \in {"id", "mem"}

RECURSIVE FlattenName(_)
FlattenName(n) == IF n[1] = "id" THEN <<n[2]>> ELSE Append(FlattenName(n[2]), n[3])

RECURSIVE Ternary(_), Level(_, _), Chain(_, _), Unary(_), Primary(_), Postfix(_), Args(_, _)

\* parseTernary: then and else are ternaries again.
Ternary(toks) ==
    LET c == Level(1, toks) IN
    IF ~c.ok \/ ~Is(c.rest, "?") THEN c
    ELSE LET a == Ternary(Tail(c.rest)) IN
         IF ~a.ok \/ ~Is(a.rest, ":") THEN Fail
         ELSE LET b == Ternary(Tail(a.rest)) IN
              IF b.ok THEN Found(<<"?:", c.node, a.node, b.node>>, b.rest) ELSE Fail

\* A mutant: a level takes everything behind its operator as the right operand.
ChainRight(k, left) ==
    IF left.ok /\ left.rest # <<>> /\ Head(left.rest) \in Levels[k]
    THEN LET right == Level(k, Tail(left.rest)) IN
         IF right.ok THEN Found(<<"bin", Head(left.rest), left.node, right.node>>, right.rest) ELSE Fail
    ELSE left

\* parseOr .. parseMul: operands of the next level, joined from the left.
Chain(k, left) ==
    IF left.ok /\ left.rest # <<>> /\ Head(left.rest) \in Levels[k]
    THEN LET right == Level(k + 1, Tail(left.rest)) IN
         IF right.ok
         THEN Chain(k, Found(<<"bin", Head(left.rest), left.node, right.node>>, right.rest))
         ELSE Fail
    ELSE left
Level(k, toks) == IF k > Len(Levels) THEN Unary(toks) ELSE Chain(k, Level(k + 1, toks))

Unary(toks) ==
    IF Is(toks, "!") \/ Is(toks, "-")
    THEN LET right == Unary(Tail(toks)) IN
         IF right.ok THEN Found(<<"un", Head(toks), right.node>>, right.rest) ELSE Fail
    ELSE Postfix(Primary(toks))

Primary(toks) ==
    CASE toks = <<>>                     -> Fail
      [] Head(toks) \in DOMAIN Literals  -> Found(<<"lit", Head(toks)>>, Tail(toks))
      [] Head(toks) \in DOMAIN Idents           -> Found(<<"id", Head(toks)>>, Tail(toks))
      [] Head(toks) = "("                ->
             LET n == Ternary(Tail(toks)) IN
             IF n.ok /\ Is(n.rest, ")") THEN Found(n.node, Tail(n.rest)) ELSE Fail
      [] OTHER                           -> Fail

\* The arguments up to the closing parenthesis.
Args(toks, args) ==
    LET a == Ternary(toks) IN
    CASE ~a.ok           -> Fail
      [] Is(a.rest, ",") -> Args(Tail(a.rest), Append(args, a.node))
      [] Is(a.rest, ")") -> Found(Append(args, a.node), Tail(a.rest))
      [] OTHER           -> Fail

Postfix(left) ==
    CASE ~left.ok -> Fail
      [] Is(left.rest, ".") ->
             IF Len(left.rest) > 1 /\ left.rest[2] \in DOMAIN Idents
             THEN Postfix(Found(<<"mem", left.node, left.rest[2]>>, SubSeq(left.rest, 3, Len(left.rest))))
             ELSE Fail
      [] Is(left.rest, "[") ->
             LET i == Ternary(Tail(left.rest)) IN
             IF i.ok /\ Is(i.rest, "]") THEN Postfix(Found(<<"idx", left.node, i.node>>, Tail(i.rest)))
             ELSE Fail
      [] Is(left.rest, "(") ->
             IF ~Callable(left.node) THEN Fail
             ELSE LET args == IF Is(Tail(left.rest), ")") THEN Found(<<>>, Tail(Tail(left.rest)))
                              ELSE Args(Tail(left.rest), <<>>)
                  IN IF args.ok
                     THEN Postfix(Found(<<"call", FlattenName(left.node), args.node>>, args.rest))
                     ELSE Fail
      [] OTHER -> left

\* Parse: the whole source has to be used up.
Parse(toks) == LET n == Ternary(toks) IN IF n.ok /\ n.rest = <<>> THEN n.node ELSE <<>>

-----------------------------------------------------------------------------
(* Values                                                                  *)

Nil      == [t |-> "nil"]
Bool(b)  == [t |-> "bool", v |-> b]
Str(s)   == [t |-> "str", v |-> s]
Num(n, d) == [t |-> "num", n |-> IF d < 0 THEN -n ELSE n, d |-> IF d < 0 THEN -d ELSE d]
False == <<20>>
True  == <<21>>
Other == <<29>>   \* how a value prints that has no shorter form here

NaturalOf(s) == FoldLeft(LAMBDA acc, c : 10 * acc + c, 0, s)
RECURSIVE Digits(_)
Digits(n) == IF n < 10 THEN <<n>> ELSE Append(Digits(n \div 10), n % 10)

\* Division and remainder of Go truncate.
Abs(n)       == IF n < 0 THEN -n ELSE n
Quo(n, d)    == IF n < 0 THEN -((-n) \div d) ELSE n \div d
Rem(n, d)    == n - Abs(d) * Quo(n, Abs(d))
Truncated(x)       == Quo(x.n, x.d)

\* toNumber; NoNumber if it returns false.
NoNumber == [t |-> "none"]
ToNumber(v) ==
    CASE v.t = "num"  -> v
      [] v.t = "bool" -> Num(IF v.v THEN 1 ELSE 0, 1)
      [] v.t = "str"  -> IF v.v # <<>> /\ \A i \in DOMAIN v.v : v.v[i] \in 0 .. 9
                         THEN Num(NaturalOf(v.v), 1)
                         ELSE IF Len(v.v) > 1 /\ v.v[1] = -2 /\ \A i \in 2 .. Len(v.v) : v.v[i] \in 0 .. 9
                         THEN Num(-NaturalOf(Tail(v.v)), 1) ELSE NoNumber
      [] OTHER        -> NoNumber

Printed(v) ==
    CASE v.t = "nil"  -> <<>>
      [] v.t = "str"  -> v.v
      [] v.t = "bool" -> IF v.v THEN True ELSE False
      [] v.t = "num"  -> IF Rem(v.n, v.d) # 0 THEN Other
                         ELSE IF Truncated(v) < 0 THEN <<-2>> \o Digits(-Truncated(v)) ELSE Digits(Truncated(v))
      [] OTHER        -> Other

Truthy(v) ==
    CASE v.t = "nil"  -> FALSE
      [] v.t = "bool" -> v.v
      [] v.t = "num"  -> v.n # 0
      [] v.t = "str"  -> v.v # <<>>
      [] OTHER        -> TRUE

SameNumber(a, b) == a.n * b.d = b.n * a.d
LessNumber(a, b) == a.n * b.d < b.n * a.d
LessText(a, b) ==
    \/ IsStrictPrefix(a, b)
    \/ \E i \in DOMAIN a \cap DOMAIN b : a[i] < b[i] /\ SubSeq(a, 1, i - 1) = SubSeq(b, 1, i - 1)

\* looseEq; two maps, or two arrays, cannot be compared: the runtime panics.
Uncomparable(a, b) == a.t = b.t /\ a.t \in {"map", "arr"}
LooseEq(a, b) ==
    CASE a.t = "nil" \/ b.t = "nil"             -> a.t = b.t
      [] a.t = "str" \/ b.t = "str"             -> Printed(a) = Printed(b)
      [] NoNumber \in {ToNumber(a), ToNumber(b)} -> FALSE
      [] OTHER                                   -> SameNumber(ToNumber(a), ToNumber(b))

Less(a, b) ==
    IF NoNumber \in {ToNumber(a), ToNumber(b)} THEN LessText(Printed(a), Printed(b))
    ELSE LessNumber(ToNumber(a), ToNumber(b))
Same(a, b) ==
    IF NoNumber \in {ToNumber(a), ToNumber(b)} THEN Printed(a) = Printed(b)
    ELSE SameNumber(ToNumber(a), ToNumber(b))
Compare(op, a, b) ==
    CASE op = "<"  -> Less(a, b)
      [] op = ">"  -> Less(b, a)
      [] op = "<=" -> Less(a, b) \/ Same(a, b)
      [] op = ">=" -> Less(b, a) \/ Same(a, b)

\* memberAccess and indexAccess.
Member(v, key) == IF v.t = "map" /\ key \in DOMAIN v.m THEN v.m[key] ELSE Nil
Index(v, i) ==
    CASE v.t = "map" -> Member(v, Printed(i))
      [] v.t = "arr" /\ ToNumber(i) # NoNumber ->
             IF Truncated(ToNumber(i)) \in 0 .. Len(v.a) - 1 THEN v.a[Truncated(ToNumber(i)) + 1] ELSE Nil
      [] OTHER -> Nil

-----------------------------------------------------------------------------
(* Evaluation.  A result is a value, an error or a panic.                  *)

Error == [t |-> "error"]
Panic == [t |-> "panic"]
Bad(v) == v.t \in {"error", "panic"}
FirstBad(vs) == vs[CHOOSE i \in DOMAIN vs : Bad(vs[i]) /\ \A j \in 1 .. i - 1 : ~Bad(vs[j])]
AnyBad(vs)   == \E i \in DOMAIN vs : Bad(vs[i])

Arithmetic(op, a, b) ==
    CASE op = "+" /\ "str" \in {a.t, b.t}              -> Str(Printed(a) \o Printed(b))
      [] NoNumber \in {ToNumber(a), ToNumber(b)}       -> Error
      [] OTHER ->
         LET x == ToNumber(a) y == ToNumber(b) IN
         CASE op = "+" -> Num(x.n * y.d + y.n * x.d, x.d * y.d)
           [] op = "-" -> Num(x.n * y.d - y.n * x.d, x.d * y.d)
           [] op = "*" -> Num(x.n * y.n, x.d * y.d)
           [] op = "/" -> IF y.n = 0 THEN Error ELSE Num(x.n * y.d, x.d * y.n)
           [] op = "%" -> IF y.n = 0 THEN Error
                          ELSE IF Truncated(y) = 0 THEN Panic ELSE Num(Rem(Truncated(x), Truncated(y)), 1)

Binary(op, a, b) ==
    CASE op \in {"==", "!="} -> IF Uncomparable(a, b) THEN Panic ELSE Bool(LooseEq(a, b) = (op = "=="))
      [] op \in Levels[4]    -> Bool(Compare(op, a, b))
      [] OTHER               -> Arithmetic(op, a, b)

\* contains, startsWith, endsWith.
Within(f, s, x) ==
    \E i \in 0 .. Len(s) - Len(x) : /\ SubSeq(s, i + 1, i + Len(x)) = x
                                    /\ f = "startsWith" => i = 0
                                    /\ f = "endsWith" => i = Len(s) - Len(x)

\* join and format over texts; {0}, {1} .. are the words 30, 31 ..
RECURSIVE Joined(_, _)
Joined(ss, sep) == CASE ss = <<>> -> <<>> [] Len(ss) = 1 -> ss[1]
                     [] OTHER -> ss[1] \o sep \o Joined(Tail(ss), sep)
ReplaceWord(s, w, by) == FlattenSeq([i \in DOMAIN s |-> IF s[i] = w THEN by ELSE <<s[i]>>])
Formatted(tpl, args) ==
    FoldLeft(LAMBDA out, i : ReplaceWord(out, 29 + i, Printed(args[i])), tpl,
             [i \in DOMAIN args |-> i])

\* The functions of the run's status do not look at arguments; the others evaluate
\* theirs in order.
StatusCall(f, st) ==
    CASE f = "success"   -> st \in {"", "success"}
      [] f = "failure"   -> st \in {"failure", "failed"}
      [] f = "always"    -> TRUE
      [] f = "cancelled" -> st \in {"cancelled", "canceled"}
Apply(f, args) ==
    CASE f \in {"contains", "startsWith", "endsWith"} /\ Len(args) = 2 ->
             Bool(Within(f, Printed(args[1]), Printed(args[2])))
      [] f = "format" /\ args # <<>> -> Str(Formatted(Printed(args[1]), Tail(args)))
      [] f = "fromJSON" /\ Len(args) = 1 ->
             LET s == Printed(args[1]) IN
             CASE s \in {True, False} -> Bool(s = True)
               [] ToNumber(Str(s)) # NoNumber -> ToNumber(Str(s))
               [] OTHER -> Error
      [] f = "toJSON" /\ Len(args) = 1 ->
             Str(IF args[1].t \in {"bool", "num"} THEN Printed(args[1]) ELSE Other)
      [] f = "join" /\ Len(args) = 2 /\ args[1].t = "arr" ->
             Str(Joined([i \in DOMAIN args[1].a |-> Printed(args[1].a[i])], Printed(args[2])))
      [] OTHER -> Error
StatusFunctions == {"success", "failure", "always", "cancelled"}

Decides(op, l)   == Truthy(l) = (op = "||")

RECURSIVE Eval(_, _)
Eval(n, st) ==
    CASE n[1] = "lit" -> Literals[n[2]]
      [] n[1] = "id"  -> IF n[2] \in DOMAIN Values THEN Values[n[2]] ELSE Nil
      [] n[1] = "mem" -> LET v == Eval(n[2], st) IN IF Bad(v) THEN v ELSE Member(v, Idents[n[3]])
      [] n[1] = "idx" -> LET v == Eval(n[2], st) i == Eval(n[3], st) IN
                         IF AnyBad(<<v, i>>) THEN FirstBad(<<v, i>>) ELSE Index(v, i)
      [] n[1] = "un"  -> LET v == Eval(n[3], st) IN
                         CASE Bad(v) -> v
                           [] n[2] = "!" -> Bool(~Truthy(v))
                           [] ToNumber(v) = NoNumber -> Error
                           [] OTHER -> Num(-ToNumber(v).n, ToNumber(v).d)
      [] n[1] = "?:"  -> LET c == Eval(n[2], st) IN
                         IF Bad(c) THEN c ELSE Eval(IF Truthy(c) THEN n[3] ELSE n[4], st)
      [] n[1] = "bin" /\ n[2] \in {"&&", "||"} ->
                         LET l == Eval(n[3], st) IN
                         IF Bad(l) \/ Decides(n[2], l) THEN l ELSE Eval(n[4], st)
      [] n[1] = "bin" /\ n[2] \notin {"&&", "||"} ->
                         LET l == Eval(n[3], st) r == Eval(n[4], st) IN
                         IF AnyBad(<<l, r>>) THEN FirstBad(<<l, r>>) ELSE Binary(n[2], l, r)
      [] n[1] = "call" ->
             IF Len(n[2]) = 1 /\ n[2][1] \in StatusFunctions THEN Bool(StatusCall(n[2][1], st))
             ELSE LET args == [i \in DOMAIN n[3] |-> Eval(n[3][i], st)] IN
                  IF Len(n[2]) > 1 THEN Error
                  ELSE IF AnyBad(args) THEN FirstBad(args) ELSE Apply(n[2][1], args)

EvalSource(toks, st) == IF Parse(toks) = <<>> THEN Error ELSE Eval(Parse(toks), st)

-----------------------------------------------------------------------------
(* RenderString                                                            *)

\* A part is a plain string or a block with the tokens of its source.  A string
\* that begins with a block and ends with one is taken for a single block: the
\* source of two has delimiters in it and does not parse.
BlocksIn(tx) == {i \in DOMAIN tx : tx[i].block}
Whole(tx)  == tx # <<>> /\ tx[1].block /\ tx[Len(tx)].block
Source(tx) == IF Len(tx) = 1 THEN tx[1].src ELSE <<"}}">>

\* A block in error stays as it is written.
Kept(i) == <<50 + i>>
Results(tx, st) == [i \in DOMAIN tx |-> IF tx[i].block THEN EvalSource(tx[i].src, st) ELSE Str(tx[i].plain)]
Rebuilt(vs)     == FlattenSeq([i \in DOMAIN vs |-> IF vs[i].t = "error" THEN Kept(i) ELSE Printed(vs[i])])

ExpressionInit ==
    /\ text \in Texts /\ status \in RunStatuses
    /\ rendered = <<>> /\ raw = Nil /\ failed = {} /\ outcome = "source"

RenderWhole ==
    /\ outcome = "source" /\ Whole(text)
    /\ LET v == EvalSource(Source(text), status) IN
       /\ outcome'  = IF v.t = "panic" THEN "panic" ELSE "done"
       /\ failed'   = IF v.t = "error" THEN DOMAIN text ELSE {}
       /\ rendered' = IF Bad(v) THEN <<>> ELSE Printed(v)
       /\ raw'      = IF Bad(v) THEN Nil ELSE v
    /\ UNCHANGED <<text, status>>

RenderMixed ==
    /\ outcome = "source" /\ ~Whole(text)
    /\ LET vs == Results(text, status) IN
       IF \E i \in DOMAIN vs : vs[i].t = "panic"
       THEN outcome' = "panic" /\ UNCHANGED <<rendered, raw, failed>>
       ELSE /\ outcome' = "done"
            /\ failed' = {i \in DOMAIN vs : vs[i].t = "error"}
            /\ rendered' = Rebuilt(vs)
            /\ raw' = Str(rendered')
    /\ UNCHANGED <<text, status>>

ExpressionNext == RenderWhole \/ RenderMixed

-----------------------------------------------------------------------------
(* Properties                                                              *)

\* What a source means, by where it is split: at its first "?", else at the last
\* operator of the weakest level, outside of brackets; <<>> if it means nothing.
Open    == {"(", "["}
Close   == {")", "]"}
Depth(toks, i)  == Cardinality({k \in 1 .. i - 1 : toks[k] \in Open})
                   - Cardinality({k \in 1 .. i - 1 : toks[k] \in Close})
                   - (IF toks[i] \in Close THEN 1 ELSE 0)
Outside(toks)   == {i \in DOMAIN toks : Depth(toks, i) = 0}
Ends(t)         == t \in Close \cup DOMAIN Idents \cup DOMAIN Literals
Infix(toks, k)  == {i \in Outside(toks) : /\ i > 1 /\ Ends(toks[i - 1]) /\ toks[i] \in Levels[k]}
Greatest(S)     == CHOOSE x \in S : \A y \in S : y <= x
Least(S)        == CHOOSE x \in S : \A y \in S : x <= y
Cut(toks, a, b) == SubSeq(toks, a, b)
Formed(n, parts)  == IF \E i \in DOMAIN parts : parts[i] = <<>> THEN <<>> ELSE n \o parts

\* The colon of the first "?".
Colons(toks, q) ==
    {i \in Outside(toks) : /\ i > q /\ toks[i] = ":"
        /\ Cardinality({k \in Outside(toks) : k \in q .. i /\ toks[k] = "?"})
           = Cardinality({k \in Outside(toks) : k \in q .. i /\ toks[k] = ":"})}

RECURSIVE Meant(_)
MeantArgs(toks) ==
    LET commas == {0, Len(toks) + 1} \cup {i \in Outside(toks) : toks[i] = ","}
        ends   == SetToSortSeq(commas, LAMBDA a, b : a < b)
    IN IF toks = <<>> THEN <<>>
       ELSE [i \in 1 .. Len(ends) - 1 |-> Meant(Cut(toks, ends[i] + 1, ends[i + 1] - 1))]
MeantBracket(toks) ==
    LET n    == Len(toks)
        at   == {i \in 1 .. n - 1 : toks[i] \in Open /\ Depth(toks, i) = 0}
        o    == Greatest(at)
        left == Meant(Cut(toks, 1, o - 1))
    IN CASE at = {} -> <<>>
         [] toks[n] = ")" /\ toks[o] = "(" /\ o = 1 -> Meant(Cut(toks, 2, n - 1))
         [] toks[n] = "]" /\ toks[o] = "[" -> Formed(<<"idx">>, <<left, Meant(Cut(toks, o + 1, n - 1))>>)
         [] toks[n] = ")" /\ toks[o] = "(" /\ o > 1 ->
                LET args == MeantArgs(Cut(toks, o + 1, n - 1)) IN
                IF left = <<>> \/ ~Callable(left) \/ <<>> \in {args[i] : i \in DOMAIN args} THEN <<>>
                ELSE <<"call", FlattenName(left), args>>
         [] OTHER -> <<>>
Meant(toks) ==
    LET n == Len(toks)
        q == {i \in Outside(toks) : toks[i] = "?"}
        k == {l \in DOMAIN Levels : Infix(toks, l) # {}}
    IN CASE toks = <<>> -> <<>>
         [] q # {} -> IF Colons(toks, Least(q)) = {} THEN <<>>
                      ELSE LET c == Least(Colons(toks, Least(q))) IN
                           Formed(<<"?:">>, <<Meant(Cut(toks, 1, Least(q) - 1)),
                                            Meant(Cut(toks, Least(q) + 1, c - 1)),
                                            Meant(Cut(toks, c + 1, n))>>)
         [] q = {} /\ k # {} ->
                LET i == Greatest(Infix(toks, Least(k))) IN
                Formed(<<"bin", toks[i]>>, <<Meant(Cut(toks, 1, i - 1)), Meant(Cut(toks, i + 1, n))>>)
         [] q = {} /\ k = {} /\ toks[1] \in {"!", "-"} ->
                Formed(<<"un", toks[1]>>, <<Meant(Tail(toks))>>)
         [] q = {} /\ k = {} /\ toks[1] \notin {"!", "-"} /\ n = 1 ->
                CASE toks[1] \in DOMAIN Literals -> <<"lit", toks[1]>>
                  [] toks[1] \in DOMAIN Idents          -> <<"id", toks[1]>>
                  [] OTHER                       -> <<>>
         [] OTHER ->
                IF toks[n] \in Close THEN MeantBracket(toks)
                ELSE IF toks[n] \in DOMAIN Idents /\ toks[n - 1] = "."
                THEN IF Meant(Cut(toks, 1, n - 2)) = <<>> THEN <<>>
                     ELSE <<"mem", Meant(Cut(toks, 1, n - 2)), toks[n]>>
                ELSE <<>>

\* The recursive descent reads every source as its operators bind: weaker levels
\* outside, equal ones from the left, a ternary from the right; and it refuses
\* what has no reading.
Grouping == \A i \in BlocksIn(text) : Parse(text[i].src) = Meant(text[i].src)

\* render.go:64: several blocks are replaced one by one; what one of them says does
\* not touch the others.
BlocksReplaced ==
    (outcome = "done" /\ Len(text) > 1) => rendered = Rebuilt(Results(text, status))

\* eval.go:16: what goes wrong in an expression is an error at its position.
NeverPanics == outcome # "panic"

=============================================================================
