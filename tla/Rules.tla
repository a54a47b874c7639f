------------------------------- MODULE Rules --------------------------------
(***************************************************************************)
(* Which programs the language accepts, said on the tree: the rules the    *)
(* compiler's error messages name.  Scopes nest through functions; there   *)
(* are no slots, upvalues or passes here.  Known records                   *)
(*   scopes  the local scopes, innermost last: name -> [const, ready];     *)
(*           ready is FALSE while the variable's initializer is read       *)
(*   consts  the constants among the globals                               *)
(*   fn      the kind of the innermost function, loop whether a loop of it *)
(*           surrounds, class "none", "base" or "derived"                  *)
(*   ok      no rule broken so far                                         *)
(***************************************************************************)
EXTENDS Syntax, SequencesExt, TLC

Unknown == [scopes |-> <<>>, consts |-> {}, fn |-> "script", loop |-> FALSE,
            class |-> "none", ok |-> TRUE]

Require(rule, c) == IF rule THEN c ELSE [c EXCEPT !.ok = FALSE]
Nested(c) == [c EXCEPT !.scopes = Append(@, <<>>)]
\* What was learnt inside, in the place c stands for.
BackTo(inner, c) == [c EXCEPT !.ok = inner.ok, !.consts = inner.consts]

Mark(c, x, const, ready) ==
    IF c.scopes = <<>> THEN c
    ELSE [c EXCEPT !.scopes[Len(c.scopes)] = (x :> [const |-> const, ready |-> ready]) @@ @]
Declare(c, x) ==
    Mark(Require(c.scopes = <<>> \/ x \notin DOMAIN Last(<< <<>> >> \o c.scopes), c), x, FALSE, FALSE)
Ready(c, x) == Mark(c, x, FALSE, TRUE)
Fixed(c, x) ==
    IF c.scopes = <<>> THEN [c EXCEPT !.consts = @ \cup {x}] ELSE Mark(c, x, TRUE, TRUE)
New(c, x) == Ready(Declare(c, x), x)
NewAll(c, xs, const) ==
    FoldLeft(LAMBDA acc, x : IF const THEN Fixed(Declare(acc, x), x) ELSE New(acc, x), c, xs)

Use(c, x, written) ==
    LET at == SelectLastInSeq(c.scopes, LAMBDA scope : x \in DOMAIN scope) IN
    IF at # 0 THEN Require(c.scopes[at][x].ready /\ ~(written /\ c.scopes[at][x].const), c)
              ELSE Require(~(written /\ x \in c.consts), c)

NamesOf(pat) ==
    CASE pat.how = "map" -> [i \in 1 .. Len(pat.kxs) |-> pat.kxs[i][2]]
      [] pat.how = "array" -> SelectSeq(pat.xs, LAMBDA x : x # "")
      [] pat.how \in {"name", "type"} -> <<pat.x>>
      [] OTHER -> <<>>

RECURSIVE In(_, _), InAll(_, _)

Scoped(c, ss) == BackTo(InAll(Nested(c), ss), c)
Optionally(c, node) == IF node = Nothing THEN c ELSE In(c, node)

\* No positional or spread argument after a named one, names only in calls.
Arguments(c, list, namesAllowed) ==
    LET how == [i \in 1 .. Len(list) |-> list[i].how]
        rule == /\ "named" \in ToSet(how) => namesAllowed /\ "spread" \notin ToSet(how)
                /\ \A i, j \in DOMAIN how : i < j /\ how[i] = "named" => how[j] = "named"
    IN InAll(Require(rule, c), [i \in 1 .. Len(list) |-> list[i].e])

FunctionIn(c, kind, ps, body) ==
    LET inside == [Nested(c) EXCEPT !.fn = kind, !.loop = FALSE]
        plainLast == \A i, j \in DOMAIN ps :
                        i < j /\ ps[i].how = "optional" => ps[j].how \in {"optional", "rest"}
        param(acc, p) ==
            CASE p.how \in {"array", "map"} -> acc
              [] p.how = "optional" -> In(New(acc, p.x), p.e)
              [] OTHER -> New(acc, p.x)
        unpack(acc, p) == IF p.how \in {"array", "map"} THEN NewAll(acc, NamesOf(p), FALSE) ELSE acc
        entered == FoldLeft(unpack, FoldLeft(param, Require(plainLast, inside), ps), ps)
    IN BackTo(InAll(entered, body), c)

ClassIn(c, s) ==
    LET declared == New(c, s.x)
        entered == [(IF s.up = "" THEN declared
                     ELSE Require(s.up # s.x, Use(declared, s.up, FALSE)))
                        EXCEPT !.class = IF s.up = "" THEN "base" ELSE "derived"]
        method(acc, m) ==
            FunctionIn(acc, IF m.x = "init" THEN "initializer" ELSE "method", m.ps, m.body)
    IN BackTo(FoldLeft(method, entered, s.ms), declared)

Arms(c, arms) ==
    LET one(acc, a) ==
            LET tested == CASE a.pat.how = "literal" -> In(acc, a.pat.e)
                            [] a.pat.how = "type" -> Use(acc, a.pat.c, FALSE)
                            [] OTHER -> acc
                inside == Optionally(NewAll(Nested(tested), NamesOf(a.pat), FALSE), a.guard)
            IN BackTo(In(inside, a.body), acc)
        lastly == \A i \in 1 .. Len(arms) - 1 : ~(arms[i].pat = Wild /\ arms[i].guard = Nothing)
    IN FoldLeft(one, Require(lastly, c), arms)

CatchIn(c, k) ==
    LET tested == IF k.how = "typed" THEN FoldLeft(LAMBDA acc, x : Use(acc, x, FALSE), c, k.cs) ELSE c
        inside == IF k.how = "bare" THEN Nested(tested) ELSE New(Nested(tested), k.x)
    IN BackTo(InAll(inside, k.b), c)

InLoop(c) == [c EXCEPT !.loop = TRUE]

ForIn(c, s) ==
    LET inside == Optionally(Nested(c), s.i) IN
    BackTo(In(Optionally(Optionally(InLoop(inside), s.c), s.n), s.b), c)

VarIn(c, s) == LET d == Optionally(Declare(c, s.x), s.e) IN
               IF s.k = "const" THEN Fixed(d, s.x) ELSE Ready(d, s.x)

ImportIn(c, s) ==
    NewAll(Require(c.scopes = <<>>, c), IF s.k = "import" THEN <<s.x>> ELSE s.xs, TRUE)

\* The parts of a tree that are trees of the same scope, in order.
Operands(e) ==
    CASE e.k \in {"set", "update", "unary", "print", "expression", "throw"} -> <<e.e>>
      [] e.k \in {"binary", "and", "or"} -> <<e.l, e.r>>
      [] e.k = "ternary" -> <<e.c, e.y, e.n>>
      [] e.k = "if" -> IF e.n = Nothing THEN <<e.c, e.y>> ELSE <<e.c, e.y, e.n>>
      [] e.k = "interpolation" -> [i \in 1 .. Len(e.parts) |-> e.parts[i].e]
      [] e.k = "prop" -> <<e.o>>
      [] e.k \in {"setProp", "updateProp"} -> <<e.o, e.e>>
      [] e.k = "index" -> <<e.o, e.i>>
      [] e.k \in {"setIndex", "updateIndex"} -> <<e.o, e.i, e.e>>
      [] e.k = "map" -> FlattenSeq(e.entries)
      [] OTHER -> <<>>

InAll(c, nodes) ==
    IF nodes = <<>> \/ ~c.ok THEN c
    ELSE LET d == In(c, Head(nodes)) IN IF d.ok THEN InAll(d, Tail(nodes)) ELSE d

In(c, e) ==
    CASE e.k = "get" -> Use(c, e.x, FALSE)
      [] e.k \in {"set", "update"} -> InAll(Use(c, e.x, TRUE), Operands(e))
      [] e.k = "call" -> Arguments(In(c, e.f), e.args, TRUE)
      [] e.k = "invoke" -> Arguments(In(c, e.o), e.args, FALSE)
      [] e.k = "this" -> Require(c.class # "none", c)
      [] e.k \in {"super", "superInvoke"} -> Arguments(Require(c.class = "derived", c), e.args, FALSE)
      [] e.k = "array" -> Arguments(c, e.els, FALSE)
      [] e.k = "arrow" -> FunctionIn(c, "arrow", e.ps, e.body)
      [] e.k = "arrowExpr" -> FunctionIn(c, "arrow", e.ps, <<Do(e.e)>>)
      [] e.k \in {"matchExpr", "match"} -> Arms(In(c, e.e), e.arms)
      [] e.k \in {"var", "const"} -> VarIn(c, e)
      [] e.k = "unpack" -> NewAll(In(c, e.e), NamesOf(e.pat), e.const)
      [] e.k = "block" -> Scoped(c, e.ss)
      [] e.k = "while" -> BackTo(In(InLoop(In(c, e.c)), e.b), c)
      [] e.k = "for" -> ForIn(c, e)
      [] e.k = "forEach" ->
           BackTo(In(NewAll(Nested(InLoop(In(c, e.e))), NamesOf(e.pat), FALSE), e.b), c)
      [] e.k = "switch" ->
           Optionally(InAll(In(c, e.e), FlattenSeq(e.cases)), e.d)
      [] e.k = "return" ->
           Optionally(Require(c.fn # "script" /\ (e.e = Nothing \/ c.fn # "initializer"), c), e.e)
      [] e.k \in {"break", "continue"} -> Require(c.loop, c)
      [] e.k = "try" ->
           LET tried == FoldLeft(CatchIn, Scoped(c, e.b), e.catches) IN
           Require(e.catches # <<>> \/ e.f # Nothing,
                   IF e.f = Nothing THEN tried ELSE Scoped(tried, e.f.ss))
      [] e.k = "fun" -> FunctionIn(New(c, e.x), "function", e.ps, e.body)
      [] e.k = "class" -> ClassIn(c, e)
      [] e.k \in {"import", "importFrom"} -> ImportIn(c, e)
      [] OTHER -> InAll(c, Operands(e))

Legal(ss) == InAll(Unknown, ss).ok
=============================================================================
