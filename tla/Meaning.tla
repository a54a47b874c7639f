------------------------------ MODULE Meaning -------------------------------
(***************************************************************************)
(* What a program means, said on its tree: variables are cells in lexical  *)
(* environments, an expression has an outcome and a statement completes.   *)
(* There is no stack, no code and no handler here.  It is the abstract     *)
(* specification of Compiler and Machine together.                         *)
(*   store s: cells, heap, globals of each module, cache of imports, what  *)
(*            was printed, and the depth of calls                          *)
(*   env:     vars (name -> cell), home (the module whose globals it sees),*)
(*            top (directly in the unit), tries (inside a try statement)   *)
(* An outcome k is "ok", "throw" (with the value thrown) or "error" (the   *)
(* unit ends at once); a statement can also "return", "break", "continue", *)
(* or "tail": return the result of a call that needs no frame of its own.  *)
(***************************************************************************)
EXTENDS Values, SequencesExt

CONSTANT DepthMax          \* calls that may be active at once

Main == "main"
Rule == INSTANCE Rules

Outcome(s, k, v) == [s |-> s, k |-> k, v |-> v]
Ok(s, v) == Outcome(s, "ok", v)
Fatal(s) == Outcome(s, "error", Nil)
Then(r, F(_, _)) == IF r.k = "ok" THEN F(r.s, r.v) ELSE r

Create(s, o) == [s EXCEPT !.heap = Append(@, o)]
Newest(s) == Ref(Len(s.heap))
Created(s, o) == Ok(Create(s, o), Ref(Len(s.heap) + 1))
NewError(s, class) == Outcome(Create(s, InstanceOf(class)), "throw", Ref(Len(s.heap) + 1))

(* Variables. *)
Bound(s, env, x, v) ==
    [s |-> [s EXCEPT !.cells = Append(@, v)],
     env |-> [env EXCEPT !.vars = Put(@, x, Len(s.cells) + 1)]]
Declared(s, env, x, v) ==
    IF env.top THEN [s |-> [s EXCEPT !.globals[env.home] = Put(@, x, v)], env |-> env]
               ELSE Bound(s, env, x, v)
Inner(env) == [env EXCEPT !.top = FALSE]

ValueOf(s, env, x) ==
    CASE x \in DOMAIN env.vars -> Ok(s, s.cells[env.vars[x]])
      [] x \notin DOMAIN env.vars /\ x \in DOMAIN s.globals[env.home] ->
           Ok(s, s.globals[env.home][x])
      [] OTHER -> Fatal(s)
Assigned(s, env, x, v) ==
    CASE x \in DOMAIN env.vars -> Ok([s EXCEPT !.cells[env.vars[x]] = v], v)
      [] x \notin DOMAIN env.vars /\ x \in DOMAIN s.globals[env.home] ->
           Ok([s EXCEPT !.globals[env.home][x] = v], v)
      [] OTHER -> Fatal(s)

(* Properties, elements and patterns. *)
RECURSIVE FindMethod(_, _, _)
FindMethod(s, c, p) ==           \* the method of class c or the nearest ancestor, or Nil
    CASE c = 0 -> Nil
      [] c # 0 /\ p \in DOMAIN s.heap[c].methods -> s.heap[c].methods[p]
      [] OTHER -> FindMethod(s, s.heap[c].super, p)

Sized == [string |-> "length", array |-> "length", map |-> "size"]
SizeOf(s, v) == CASE IsText(v) -> Len(v.s)
                  [] Is(s.heap, v, "array") -> Len(s.heap[v.o].els)
                  [] Is(s.heap, v, "map") -> Cardinality(DOMAIN s.heap[v.o].of)

BoundMethod(s, v, c, p) ==
    IF FindMethod(s, c, p) = Nil THEN Fatal(s) ELSE Created(s, BoundTo(v, FindMethod(s, c, p)))

PropertyOf(s, v, p) ==
    LET type == TypeName(s.heap, v)
        o == s.heap[v.o]
    IN CASE type = "module" /\ p \in DOMAIN s.globals[o.path] -> Ok(s, s.globals[o.path][p])
         [] type = "instance" /\ p \in DOMAIN o.fields -> Ok(s, o.fields[p])
         [] type = "instance" /\ p \notin DOMAIN o.fields -> BoundMethod(s, v, o.class, p)
         [] type \in DOMAIN Sized /\ p = Sized[type] -> Ok(s, Int64(SizeOf(s, v)))
         [] OTHER -> Fatal(s)

ElementOf(s, v, i) ==
    CASE Is(s.heap, v, "array") /\ IsInt(i) /\ i.n \in 0 .. Len(s.heap[v.o].els) - 1 ->
           Ok(s, s.heap[v.o].els[i.n + 1])
      [] Is(s.heap, v, "map") /\ i \in DOMAIN s.heap[v.o].of -> Ok(s, s.heap[v.o].of[i])
      [] OTHER -> Fatal(s)
WithElement(s, v, i, new) ==
    CASE Is(s.heap, v, "array") /\ IsInt(i) /\ i.n \in 0 .. Len(s.heap[v.o].els) - 1 ->
           Ok([s EXCEPT !.heap[v.o].els[i.n + 1] = new], new)
      [] Is(s.heap, v, "map") -> Ok([s EXCEPT !.heap[v.o].of = Put(@, i, new)], new)
      [] OTHER -> Fatal(s)

\* The names of a pattern, with the key of the part each one gets.
Parts(pat) ==
    IF pat.how = "map" THEN [i \in 1 .. Len(pat.kxs) |-> << Text(pat.kxs[i][1]), pat.kxs[i][2] >>]
    ELSE SelectSeq([i \in 1 .. Len(pat.xs) |-> << Int64(i - 1), pat.xs[i] >>],
                   LAMBDA part : part[2] # "")
Unpacked(s, env, pat, v) ==
    FoldLeft(LAMBDA acc, part :
                 IF acc.k # "ok" THEN acc
                 ELSE LET r == ElementOf(acc.s, v, part[1])
                          d == Declared(r.s, acc.env, part[2], r.v)
                      IN IF r.k = "ok" THEN [s |-> d.s, env |-> d.env, k |-> "ok"]
                                       ELSE [acc EXCEPT !.k = "error"],
             [s |-> s, env |-> env, k |-> "ok"], Parts(pat))

(***************************************************************************)
(* Calls.  A closure is its parameters, its body, and its environment.     *)
(***************************************************************************)
RECURSIVE Eval(_, _, _), Exec(_, _, _), ExecAll(_, _, _), Apply(_, _, _, _), ImportDone(_, _, _)

ClosureOf(env, ps, body, kind) ==
    [is |-> "closure", ps |-> ps, body |-> body, kind |-> kind,
     env |-> [env EXCEPT !.top = FALSE, !.tries = FALSE]]

Names(ps) == [i \in 1 .. Len(ps) |-> IF ps[i].how \in {"array", "map"} THEN "" ELSE ps[i].x]
HasRest(ps) == ps # <<>> /\ Last(ps).how = "rest"
Required(ps) == Len(SelectSeq(ps, LAMBDA p : p.how \notin {"optional", "rest"}))

\* One value for each parameter, Missing where a default is to be used; <<>>
\* and FALSE when the arguments do not fit.
Fit(ps, args, s) ==
    LET fixed == IF HasRest(ps) THEN Len(ps) - 1 ELSE Len(ps)
        given == [i \in 1 .. fixed |-> IF i <= Len(args) THEN args[i] ELSE Missing]
        extra == SubSeq(args, fixed + 1, Len(args))
    IN CASE Len(args) < Required(ps) \/ (~HasRest(ps) /\ Len(args) > Len(ps)) -> Fatal(s)
         [] HasRest(ps) /\ Len(args) >= Required(ps) ->
              Ok(Create(s, ArrayOf(extra)), Append(given, Ref(Len(s.heap) + 1)))
         [] OTHER -> Ok(s, given)

\* Defaults are evaluated in the order of the parameters, each seeing those
\* before it; patterns are taken apart after all parameters have values.
WithParameter(acc, p, v) ==
    LET default == Eval(acc.s, acc.env, p.e)
        r == IF v = Missing THEN default ELSE Ok(acc.s, v)
        x == IF p.how \in {"array", "map"} THEN "" ELSE p.x
        b == Bound(r.s, acc.env, x, r.v)
    IN CASE acc.k # "ok" -> acc
         [] acc.k = "ok" /\ r.k # "ok" -> [acc EXCEPT !.s = r.s, !.k = r.k, !.v = r.v]
         [] OTHER -> [acc EXCEPT !.s = b.s, !.env = b.env]

BindParameters(s, env, ps, args) ==
    LET bound == FoldLeft(LAMBDA acc, i : WithParameter(acc, ps[i], args[i]),
                          [s |-> s, env |-> env, k |-> "ok", v |-> Nil],
                          [i \in 1 .. Len(ps) |-> i])
        unpack(acc, i) ==
            LET u == Unpacked(acc.s, acc.env, ps[i], args[i]) IN
            IF acc.k # "ok" \/ ps[i].how \notin {"array", "map"} THEN acc
            ELSE [acc EXCEPT !.s = u.s, !.env = u.env, !.k = u.k]
    IN FoldLeft(unpack, bound, [i \in 1 .. Len(ps) |-> i])

\* Run the body with `this` bound to self (ignored by plain functions).
RunBody(s, c, self, args) ==
    LET f == s.heap[c.o]
        this == IF f.kind \in {"method", "initializer"} THEN Bound(s, f.env, "this", self)
                ELSE [s |-> s, env |-> f.env]
        p == BindParameters(this.s, this.env, f.ps, args)
        r == IF f.kind = "expression" THEN Eval(p.s, p.env, f.body)
             ELSE ExecAll(p.s, p.env, f.body)
    IN CASE p.k # "ok" -> Outcome(p.s, p.k, p.v)
         [] p.k = "ok" /\ f.kind = "initializer" /\ r.k \in {"next", "return"} -> Ok(r.s, self)
         [] p.k = "ok" /\ f.kind # "initializer" /\ r.k = "return" -> Ok(r.s, r.v)
         [] p.k = "ok" /\ f.kind # "initializer" /\ r.k = "next" -> Ok(r.s, Nil)
         [] OTHER -> r

\* Call a closure with arguments; a tail call goes on at the same depth.
Apply(s, c, self, args) ==
    LET fit == Fit(s.heap[c.o].ps, args, s)
        r == RunBody([fit.s EXCEPT !.depth = @ + 1], c, self, fit.v)
        back == [r EXCEPT !.s.depth = s.depth]
    IN CASE fit.k # "ok" -> fit
         [] fit.k = "ok" /\ s.depth = DepthMax -> Fatal(s)
         [] fit.k = "ok" /\ s.depth # DepthMax /\ r.k = "tail" ->
              Apply(back.s, r.v.c, r.v.self, r.v.args)
         [] OTHER -> back

\* The closure a callable value runs, its `this`, for calls of any value.
CallOf(s, v, args) ==
    LET o == s.heap[v.o]
        new == Create(s, InstanceOf(v.o))
        init == FindMethod(s, v.o, "init")
    IN CASE Is(s.heap, v, "closure") -> Apply(s, v, Nil, args)
         [] Is(s.heap, v, "bound") -> Apply(s, o.method, o.receiver, args)
         [] Is(s.heap, v, "class") ->
              CASE init # Nil -> Apply(new, init, Newest(new), args)
                [] init = Nil /\ args = <<>> -> Ok(new, Newest(new))
                [] OTHER -> Fatal(s)
         [] OTHER -> Fatal(s)

\* Arguments given by name.  A value that cannot take them, or a name that
\* does not fit, is an exception.
KeywordCall(s, v, args, named) ==
    LET o == s.heap[v.o]
        init == FindMethod(s, v.o, "init")
        c == CASE Is(s.heap, v, "closure") -> v
               [] Is(s.heap, v, "bound") -> o.method
               [] Is(s.heap, v, "class") -> init
               [] OTHER -> Nil
        ps == s.heap[c.o].ps
        names == Names(ps)
        index(x) == SelectInSeq(names, LAMBDA y : y = x)
        full == [i \in 1 .. Len(ps) |->
                    LET j == SelectInSeq(named, LAMBDA nv : nv[1] = names[i]) IN
                    CASE i <= Len(args) -> args[i]
                      [] i > Len(args) /\ j # 0 -> named[j][2]
                      [] OTHER -> Missing]
        bad == \/ c = Nil \/ HasRest(ps) \/ Len(args) > Len(ps)
               \/ \E j \in 1 .. Len(named) : index(named[j][1]) \in 0 .. Len(args)
               \/ \E i, j \in 1 .. Len(named) : i # j /\ named[i][1] = named[j][1]
               \/ \E i \in 1 .. Required(ps) : full[i] = Missing
    IN IF bad THEN NewError(s, 3) ELSE CallOf(s, v, full)

MethodCall(s, v, p, args) ==
    LET type == TypeName(s.heap, v)
        o == s.heap[v.o]
        method == FindMethod(s, o.class, p)
    IN CASE type = "module" ->
              Then(PropertyOf(s, v, p), LAMBDA s1, f : CallOf(s1, f, args))
         [] type = "instance" /\ p \in DOMAIN o.fields -> CallOf(s, o.fields[p], args)
         [] type = "instance" /\ p \notin DOMAIN o.fields /\ method # Nil ->
              Apply(s, method, v, args)
         [] type = "iterator" /\ p = "__iter__" /\ args = <<>> -> Ok(s, v)
         [] type \in {"array", "map"} /\ p = "__iter__" /\ args = <<>> ->
              Created(s, IteratorOver(v))
         [] type = "array" /\ p = "push" /\ Len(args) = 1 ->
              Ok([s EXCEPT !.heap[v.o].els = Append(@, args[1])], Nil)
         [] type = "map" /\ p = "containsKey" /\ Len(args) = 1 ->
              Ok(s, Bool(args[1] \in DOMAIN o.of))
         [] OTHER -> Fatal(s)

(***************************************************************************)
(* Operators.  An instance answers with its magic method.                  *)
(***************************************************************************)
ByMagic(s, a, method, args, F(_, _), otherwise) ==
    IF Is(s.heap, a, "instance") /\ FindMethod(s, s.heap[a.o].class, method) # Nil
    THEN Then(Apply(s, FindMethod(s, s.heap[a.o].class, method), a, args), F)
    ELSE otherwise

AsIs(s, v) == Ok(s, v)
Truth(s, v) == Ok(s, Bool(~Falsey(v)))

Equality(s, a, b) ==
    IF a = b THEN Ok(s, Bool(TRUE))
    ELSE ByMagic(s, a, "__eq__", <<b>>, Truth, Ok(s, Bool(FALSE)))

\* a < b when less, else a > b.
Ordered(s, a, b, less) ==
    LET sign(s1, v) == IF IsInt(v) THEN Ok(s1, Bool(IF less THEN v.n < 0 ELSE v.n > 0))
                                   ELSE Fatal(s1)
    IN IF IsInt(a) /\ IsInt(b) THEN Ok(s, Bool(IF less THEN a.n < b.n ELSE a.n > b.n))
       ELSE ByMagic(s, a, "__cmp__", <<b>>, sign, Fatal(s))

Not(s, v) == Ok(s, Bool(Falsey(v)))

CodeOf == ("+" :> "ADD") @@ ("-" :> "SUBTRACT") @@ ("*" :> "MULTIPLY") @@ ("/" :> "DIVIDE")
          @@ ("%" :> "MODULO") @@ ("&" :> "BITWISE_AND") @@ ("|" :> "BITWISE_OR")
          @@ ("^" :> "BITWISE_XOR") @@ ("<<" :> "LEFT_SHIFT") @@ (">>" :> "RIGHT_SHIFT")
MagicOf == ("+" :> "__add__") @@ ("-" :> "__sub__") @@ ("*" :> "__mul__")
           @@ ("/" :> "__div__") @@ ("%" :> "__mod__")

Operate(s, op, a, b) ==
    CASE op = "==" -> Equality(s, a, b)
      [] op = "!=" -> Then(Equality(s, a, b), Not)
      [] op = "<" -> Ordered(s, a, b, TRUE)
      [] op = ">=" -> Then(Ordered(s, a, b, TRUE), Not)
      [] op = ">" -> Ordered(s, a, b, FALSE)
      [] op = "<=" -> Then(Ordered(s, a, b, FALSE), Not)
      [] op = "is" -> IF Is(s.heap, b, "class") THEN Ok(s, Bool(Matches(s.heap, a, b))) ELSE Fatal(s)
      [] op = "+" /\ IsText(a) /\ IsText(b) -> Ok(s, Text(a.s \o b.s))
      [] op \in {"&", "|", "^", "<<", ">>"} ->
           IF IsInt(a) /\ IsInt(b) THEN Ok(s, Int64(OnBits(CodeOf[op], a.n, b.n))) ELSE Fatal(s)
      [] OTHER ->
           IF IsInt(a) /\ IsInt(b)
           THEN IF ArithmeticFails(CodeOf[op], a.n, b.n) THEN Fatal(s)
                ELSE Ok(s, Int64(Exact(CodeOf[op], a.n, b.n)))
           ELSE ByMagic(s, a, MagicOf[op], <<b>>, AsIs, Fatal(s))

OperateOne(s, op, a) ==
    CASE op = "!" -> Not(s, a)
      [] op = "typeof" -> Ok(s, Text(TypeName(s.heap, a)))
      [] op = "~" -> IF IsInt(a) THEN Ok(s, Int64(-a.n - 1)) ELSE Fatal(s)
      [] op = "-" -> IF IsInt(a) THEN IF Fits(-a.n) THEN Ok(s, Int64(-a.n)) ELSE Fatal(s)
                     ELSE ByMagic(s, a, "__neg__", <<>>, AsIs, Fatal(s))

(***************************************************************************)
(* Text.  An instance that has a method for it says what it is shown as.   *)
(***************************************************************************)
Says(s, v) ==
    /\ Is(s.heap, v, "instance")
    /\ LET method == FindMethod(s, s.heap[v.o].class, "__toString__") IN
       method # Nil /\ s.heap[method.o].ps = <<>>
SaidBy(s, v) ==
    Then(Apply(s, FindMethod(s, s.heap[v.o].class, "__toString__"), v, <<>>), LAMBDA s1, r :
        Ok(s1, IF IsText(r) THEN r.s ELSE Plain(s1.heap, v)))

TextOf(s, v) == IF Says(s, v) THEN SaidBy(s, v) ELSE Ok(s, InString(s.heap, v))

\* A line being printed that begins with text: what it is after v, or after the
\* elements of array v from the i-th on.  What came before is written when an
\* instance is asked.
RECURSIVE Printed(_, _, _), PrintedFrom(_, _, _, _)
PrintedFrom(s, text, v, i) ==
    LET els == s.heap[v.o].els IN
    IF i > Len(els) THEN Ok(s, text \o "]")
    ELSE Then(Printed(s, IF i > 1 THEN text \o " " ELSE text, els[i]), LAMBDA s1, more :
              PrintedFrom(s1, more, v, i + 1))
Printed(s, text, v) ==
    CASE Is(s.heap, v, "array") -> PrintedFrom(s, text \o "[", v, 1)
      [] Says(s, v) -> SaidBy(IF text = "" THEN s ELSE [s EXCEPT !.out = Append(@, text)], v)
      [] OTHER -> Ok(s, text \o Plain(s.heap, v))

(***************************************************************************)
(* Expressions.                                                            *)
(***************************************************************************)
\* The values of a list of expressions, spreads included, in one sequence.
EvalList(s, env, list) ==
    LET one(acc, a) ==
            Then(acc, LAMBDA s1, vs :
            Then(Eval(s1, env, a.e), LAMBDA s2, v :
                CASE a.how # "spread" -> Ok(s2, Append(vs, v))
                  [] a.how = "spread" /\ Is(s2.heap, v, "array") -> Ok(s2, vs \o s2.heap[v.o].els)
                  [] OTHER -> Fatal(s2)))
    IN FoldLeft(one, Ok(s, <<>>), list)

Positional(args) == SelectSeq(args, LAMBDA a : a.how # "named")
ByName(args) == SelectSeq(args, LAMBDA a : a.how = "named")

Pair(s, env, e1, e2, F(_, _, _)) ==
    Then(Eval(s, env, e1), LAMBDA s1, a : Then(Eval(s1, env, e2), LAMBDA s2, b : F(s2, a, b)))

MapValue(s, env, e) ==
    LET one(acc, kv) ==
            Then(acc, LAMBDA s1, of :
                 Pair(s1, env, kv[1], kv[2], LAMBDA s2, k, v : Ok(s2, Put(of, k, v))))
    IN Then(FoldLeft(one, Ok(s, <<>>), e.entries), LAMBDA s1, of : Created(s1, MapWith(of)))

CallResult(s, env, e) ==
    Then(Eval(s, env, e.f), LAMBDA s1, f :
    Then(EvalList(s1, env, Positional(e.args)), LAMBDA s2, args :
    Then(EvalList(s2, env, ByName(e.args)), LAMBDA s3, named :
        IF named = <<>> THEN CallOf(s3, f, args)
        ELSE KeywordCall(s3, f, args,
                         [j \in 1 .. Len(named) |-> << ByName(e.args)[j].x, named[j] >>]))))

WithProperty(s, v, p, new) ==
    IF Is(s.heap, v, "instance")
    THEN Ok([s EXCEPT !.heap[v.o].fields = Put(@, p, new)], new) ELSE Fatal(s)

PropertyValue(s, env, e) ==
    Then(Eval(s, env, e.o), LAMBDA s1, v :
        CASE e.k = "prop" -> PropertyOf(s1, v, e.p)
          [] e.k = "setProp" ->
               Then(Eval(s1, env, e.e), LAMBDA s2, new : WithProperty(s2, v, e.p, new))
          [] e.k = "updateProp" ->
               Then(PropertyOf(s1, v, e.p), LAMBDA s2, old :
               Then(Eval(s2, env, e.e), LAMBDA s3, b :
               Then(Operate(s3, e.op, old, b), LAMBDA s4, new : WithProperty(s4, v, e.p, new)))))

SubscriptValue(s, env, e) ==
    Pair(s, env, e.o, e.i, LAMBDA s1, v, i :
        CASE e.k = "index" -> ElementOf(s1, v, i)
          [] e.k = "setIndex" ->
               Then(Eval(s1, env, e.e), LAMBDA s2, new : WithElement(s2, v, i, new))
          [] e.k = "updateIndex" ->
               Then(ElementOf(s1, v, i), LAMBDA s2, old :
               Then(Eval(s2, env, e.e), LAMBDA s3, b :
               Then(Operate(s3, e.op, old, b), LAMBDA s4, new : WithElement(s4, v, i, new)))))

SuperValue(s, env, e) ==
    LET this == s.cells[env.vars["this"]]
        class == s.cells[env.vars["super"]].o
        method == FindMethod(s, class, e.p)
    IN IF e.k = "super" THEN BoundMethod(s, this, class, e.p)
       ELSE Then(EvalList(s, env, e.args), LAMBDA s1, args :
                IF method = Nil THEN Fatal(s1) ELSE Apply(s1, method, this, args))

\* Whether a value fits a pattern, and the variables the pattern then has.
Fitting(s, env, pat, v) ==
    CASE pat.how = "wild" -> Ok(s, Bool(TRUE))
      [] pat.how = "literal" -> Then(Eval(s, env, pat.e), LAMBDA s1, e : Equality(s1, v, e))
      [] pat.how = "type" ->
           Then(ValueOf(s, env, pat.c), LAMBDA s1, c : Operate(s1, "is", v, c))
      [] pat.how = "array" ->
           Ok(s, Bool(Is(s.heap, v, "array") /\ Len(s.heap[v.o].els) = Len(pat.xs)))
      [] pat.how = "map" ->
           Ok(s, Bool(/\ Is(s.heap, v, "map")
                      /\ \A kx \in ToSet(pat.kxs) : Text(kx[1]) \in DOMAIN s.heap[v.o].of))
PatternEnv(s, env, pat, v) ==
    CASE pat.how \in {"array", "map"} -> Unpacked(s, Inner(env), pat, v)
      [] pat.how = "type" -> Bound(s, env, pat.x, v)
      [] OTHER -> [s |-> s, env |-> env]

\* The first arm, from the i-th on, that v fits and whose guard holds: its
\* number and environment, or 0.
RECURSIVE Chosen(_, _, _, _, _)
Chosen(s, env, arms, i, v) ==
    LET arm == arms[i] IN
    IF i > Len(arms) THEN Ok(s, [i |-> 0])
    ELSE Then(Fitting(s, env, arm.pat, v), LAMBDA s1, fits :
         LET in == PatternEnv(s1, env, arm.pat, v)
             take(s2, g) == IF Falsey(g) THEN Chosen(s2, env, arms, i + 1, v)
                                         ELSE Ok(s2, [i |-> i, env |-> Inner(in.env)])
         IN IF Falsey(fits) THEN Chosen(s1, env, arms, i + 1, v)
            ELSE IF arm.guard = Nothing THEN take(in.s, Bool(TRUE))
            ELSE Then(Eval(in.s, in.env, arm.guard), take))

MatchValue(s, env, e) ==
    Then(Eval(s, env, e.e), LAMBDA s1, v :
    Then(Chosen(s1, env, e.arms, 1, v), LAMBDA s2, c :
        IF c.i = 0 THEN NewError(s2, 2) ELSE Eval(s2, c.env, e.arms[c.i].body)))

InterpolationValue(s, env, e) ==
    FoldLeft(LAMBDA acc, p :
                 Then(acc, LAMBDA s1, shown :
                 Then(Eval(s1, env, p.e), LAMBDA s2, v :
                 Then(TextOf(s2, v), LAMBDA s3, text : Ok(s3, Text(shown.s \o text \o p.after))))),
             Ok(s, Text(e.s)), e.parts)

Eval(s, env, e) ==
    CASE e.k = "literal" -> Ok(s, e.v)
      [] e.k = "get" -> ValueOf(s, env, e.x)
      [] e.k = "this" -> ValueOf(s, env, "this")
      [] e.k = "set" -> Then(Eval(s, env, e.e), LAMBDA s1, v : Assigned(s1, env, e.x, v))
      [] e.k = "update" ->
           Then(ValueOf(s, env, e.x), LAMBDA s1, old :
           Then(Eval(s1, env, e.e), LAMBDA s2, b :
           Then(Operate(s2, e.op, old, b), LAMBDA s3, new : Assigned(s3, env, e.x, new))))
      [] e.k = "unary" -> Then(Eval(s, env, e.e), LAMBDA s1, v : OperateOne(s1, e.op, v))
      [] e.k = "binary" ->
           Pair(s, env, e.l, e.r, LAMBDA s1, a, b : Operate(s1, e.op, a, b))
      [] e.k = "and" ->
           Then(Eval(s, env, e.l), LAMBDA s1, v : IF Falsey(v) THEN Ok(s1, v) ELSE Eval(s1, env, e.r))
      [] e.k = "or" ->
           Then(Eval(s, env, e.l), LAMBDA s1, v : IF Falsey(v) THEN Eval(s1, env, e.r) ELSE Ok(s1, v))
      [] e.k = "ternary" ->
           Then(Eval(s, env, e.c), LAMBDA s1, v : Eval(s1, env, IF Falsey(v) THEN e.n ELSE e.y))
      [] e.k = "interpolation" -> InterpolationValue(s, env, e)
      [] e.k = "array" -> Then(EvalList(s, env, e.els), LAMBDA s1, vs : Created(s1, ArrayOf(vs)))
      [] e.k = "map" -> MapValue(s, env, e)
      [] e.k = "call" -> CallResult(s, env, e)
      [] e.k = "invoke" ->
           Then(Eval(s, env, e.o), LAMBDA s1, v :
           Then(EvalList(s1, env, e.args), LAMBDA s2, args : MethodCall(s2, v, e.p, args)))
      [] e.k \in {"prop", "setProp", "updateProp"} -> PropertyValue(s, env, e)
      [] e.k \in {"index", "setIndex", "updateIndex"} -> SubscriptValue(s, env, e)
      [] e.k \in {"super", "superInvoke"} -> SuperValue(s, env, e)
      [] e.k = "arrow" -> Created(s, ClosureOf(env, e.ps, e.body, "function"))
      [] e.k = "arrowExpr" -> Created(s, ClosureOf(env, e.ps, e.e, "expression"))
      [] e.k = "matchExpr" -> MatchValue(s, env, e)

(***************************************************************************)
(* Statements.                                                             *)
(***************************************************************************)
Done(s, env, k, v) == [s |-> s, env |-> env, k |-> k, v |-> v]
Went(s, env) == Done(s, env, "next", Nil)

\* A statement that begins with a value; another outcome is the statement's.
After(r, env, F(_, _)) == IF r.k = "ok" THEN F(r.s, r.v) ELSE Done(r.s, env, r.k, r.v)
\* The variables of an inner scope end with it.
Leaving(r, env) == [r EXCEPT !.env = env]

ExecAll(s, env, ss) ==
    FoldLeft(LAMBDA acc, st : IF acc.k = "next" THEN Exec(acc.s, acc.env, st) ELSE acc,
             Went(s, env), ss)
InScope(s, env, ss) == Leaving(ExecAll(s, Inner(env), ss), env)

Declaration(s, env, x, v) == LET d == Declared(s, env, x, v) IN Went(d.s, d.env)

RECURSIVE Loop(_, _, _, _, _)
Loop(s, env, c, next, b) ==
    LET test == IF c = Nothing THEN Ok(s, Bool(TRUE)) ELSE Eval(s, env, c)
        again(r) ==
            IF next = Nothing THEN Loop(r.s, env, c, next, b)
            ELSE After(Eval(r.s, env, next), env, LAMBDA s2, v : Loop(s2, env, c, next, b))
        body(s1, v) ==
            LET r == Leaving(Exec(s1, Inner(env), b), env) IN
            CASE Falsey(v) -> Went(s1, env)
              [] ~Falsey(v) /\ r.k = "break" -> Went(r.s, env)
              [] ~Falsey(v) /\ r.k \in {"next", "continue"} -> again(r)
              [] OTHER -> r
    IN After(test, env, body)

\* The next value of an iterator.  An exception of the iterator ends the loop.
NextValue(s, it) ==
    LET o == s.heap[it.o]
        els == s.heap[o.source.o].els
    IN CASE Is(s.heap, it, "instance") -> MethodCall(s, it, "__next__", <<>>)
         [] Is(s.heap, it, "iterator") ->
              IF o.index \in DOMAIN els THEN Ok([s EXCEPT !.heap[it.o].index = @ + 1], els[o.index])
              ELSE NewError(s, 1)
         [] OTHER -> Fatal(s)

RECURSIVE Each(_, _, _, _, _)
Each(s, env, pat, it, b) ==
    LET r == NextValue(s, it)
        in == IF pat.how = "name" THEN Bound(r.s, Inner(env), pat.x, r.v) @@ [k |-> "ok"]
              ELSE Unpacked(r.s, Inner(env), pat, r.v)
        done == Leaving(Exec(in.s, in.env, b), env)
    IN CASE r.k = "throw" -> Went([r.s EXCEPT !.depth = s.depth], env)
         [] r.k = "error" -> Done(r.s, env, "error", Nil)
         [] r.k = "ok" /\ in.k # "ok" -> Done(in.s, env, "error", Nil)
         [] r.k = "ok" /\ in.k = "ok" /\ done.k = "break" -> Went(done.s, env)
         [] r.k = "ok" /\ in.k = "ok" /\ done.k \in {"next", "continue"} ->
              Each(done.s, env, pat, it, b)
         [] OTHER -> done

RECURSIVE Cases(_, _, _, _, _)
Cases(s, env, v, cases, d) ==
    IF cases = <<>> THEN IF d = Nothing THEN Went(s, env) ELSE Leaving(Exec(s, Inner(env), d), env)
    ELSE After(Then(Eval(s, env, cases[1][1]), LAMBDA s1, c : Equality(s1, v, c)), env,
               LAMBDA s2, same : IF Falsey(same) THEN Cases(s2, env, v, Tail(cases), d)
                                 ELSE Leaving(Exec(s2, Inner(env), cases[1][2]), env))

MatchDone(s, env, st) ==
    After(Eval(s, env, st.e), env, LAMBDA s1, v :
    After(Chosen(s1, Inner(env), st.arms, 1, v), env, LAMBDA s2, c :
        IF c.i = 0 THEN Went(s2, env) ELSE Leaving(Exec(s2, c.env, st.arms[c.i].body), env)))

ReturnDone(s, env, st) ==
    LET e == st.e
        plain == e.k = "call" /\ \A a \in ToSet(e.args) : a.how = "positional"
        tail(s2, f, args) ==
            CASE Is(s2.heap, f, "closure") ->
                   Done(s2, env, "tail", [c |-> f, self |-> Nil, args |-> args])
              [] Is(s2.heap, f, "bound") ->
                   Done(s2, env, "tail", [c |-> s2.heap[f.o].method, args |-> args,
                                          self |-> s2.heap[f.o].receiver])
              [] OTHER -> After(CallOf(s2, f, args), env, LAMBDA s3, v : Done(s3, env, "return", v))
    IN CASE e = Nothing -> Done(s, env, "return", Nil)
         [] e # Nothing /\ plain /\ ~env.tries ->
              After(Eval(s, env, e.f), env, LAMBDA s1, f :
              After(EvalList(s1, env, e.args), env, LAMBDA s2, args : tail(s2, f, args)))
         [] OTHER -> After(Eval(s, env, e), env, LAMBDA s1, v : Done(s1, env, "return", v))

\* The clause for a thrown value: the first whose class fits, or with no class.
RECURSIVE Handled(_, _, _, _)
Handled(s, env, clauses, v) ==
    LET k == clauses[1]
        test(acc, c) ==
            Then(acc, LAMBDA s1, found :
                IF ~Falsey(found) THEN Ok(s1, found)
                ELSE Then(ValueOf(s1, env, c), LAMBDA s2, class : Operate(s2, "is", v, class)))
        fits == IF k.how = "typed" THEN FoldLeft(test, Ok(s, Bool(FALSE)), k.cs)
                ELSE Ok(s, Bool(TRUE))
        in == IF k.how = "bare" THEN [s |-> fits.s, env |-> Inner(env)]
              ELSE Bound(fits.s, Inner(env), k.x, v)
    IN IF clauses = <<>> THEN Done(s, env, "throw", v)
       ELSE After(fits, env, LAMBDA s1, found :
                IF Falsey(found) THEN Handled(s1, env, Tail(clauses), v)
                ELSE Leaving(ExecAll(in.s, in.env, k.b), env))

TryDone(s, env, st) ==
    LET inside == [env EXCEPT !.tries = TRUE]
        tried == InScope(s, inside, st.b)
        caught == IF tried.k = "throw" /\ st.catches # <<>>
                  THEN Handled([tried.s EXCEPT !.depth = s.depth], inside, st.catches, tried.v)
                  ELSE tried
        final == InScope([caught.s EXCEPT !.depth = s.depth], inside, st.f.ss)
    IN CASE caught.k = "error" \/ st.f = Nothing -> Leaving(caught, env)
         [] caught.k # "error" /\ st.f # Nothing /\ final.k = "next" ->
              [caught EXCEPT !.s = final.s, !.env = env]
         [] OTHER -> Leaving(final, env)

ClassDone(s, env, st) ==
    LET class == Create(s, ClassOf(st.x))
        ref == Newest(class)
        d == Declared(class, env, st.x, ref)
        methods(s1, env1) ==
            LET one(acc, m) ==
                    LET c == Create(acc, ClosureOf(env1, m.ps, m.body,
                                          IF m.x = "init" THEN "initializer" ELSE "method"))
                    IN [c EXCEPT !.heap[ref.o].methods = Put(@, m.x, Newest(c))]
            IN Went(FoldLeft(one, s1, st.ms), d.env)
        derived(s1, up) ==
            LET b == Bound([s1 EXCEPT !.heap[ref.o].super = up.o], d.env, "super", up) IN
            IF Is(s1.heap, up, "class") THEN methods(b.s, b.env) ELSE Done(s1, env, "error", Nil)
    IN IF st.up = "" THEN methods(d.s, d.env)
       ELSE After(ValueOf(d.s, d.env, st.up), env, derived)

\* The function sees its own name; a local one through its cell.
FunDone(s, env, st) ==
    LET d == Declared(s, env, st.x, Nil)
        c == Create(d.s, ClosureOf(d.env, st.ps, st.body, "function"))
    IN Went(Assigned(c, d.env, st.x, Newest(c)).s, d.env)

Exec(s, env, st) ==
    CASE st.k = "print" ->
           After(Then(Eval(s, env, st.e), LAMBDA s1, v : Printed(s1, "", v)), env,
                 LAMBDA s2, text : Went([s2 EXCEPT !.out = Append(@, text)], env))
      [] st.k = "expression" -> After(Eval(s, env, st.e), env, LAMBDA s1, v : Went(s1, env))
      [] st.k \in {"var", "const"} ->
           After(IF st.e = Nothing THEN Ok(s, Nil) ELSE Eval(s, env, st.e), env,
                 LAMBDA s1, v : Declaration(s1, env, st.x, v))
      [] st.k = "unpack" ->
           After(Eval(s, env, st.e), env, LAMBDA s1, v :
                 LET u == Unpacked(s1, env, st.pat, v) IN
                 Done(u.s, u.env, IF u.k = "ok" THEN "next" ELSE u.k, Nil))
      [] st.k = "block" -> InScope(s, env, st.ss)
      [] st.k = "if" ->
           After(Eval(s, env, st.c), env, LAMBDA s1, v :
                 CASE ~Falsey(v) -> Exec(s1, env, st.y)
                   [] Falsey(v) /\ st.n # Nothing -> Exec(s1, env, st.n)
                   [] OTHER -> Went(s1, env))
      [] st.k = "while" -> Loop(s, env, st.c, Nothing, st.b)
      [] st.k = "for" ->
           LET i == IF st.i = Nothing THEN Went(s, Inner(env)) ELSE Exec(s, Inner(env), st.i) IN
           IF i.k = "next" THEN Leaving(Loop(i.s, i.env, st.c, st.n, st.b), env)
           ELSE Leaving(i, env)
      [] st.k = "forEach" ->
           After(Eval(s, env, st.e), env, LAMBDA s1, v :
           After(MethodCall(s1, v, "__iter__", <<>>), env, LAMBDA s2, it :
                 Each(s2, env, st.pat, it, st.b)))
      [] st.k = "switch" ->
           After(Eval(s, env, st.e), env, LAMBDA s1, v : Cases(s1, env, v, st.cases, st.d))
      [] st.k = "match" -> MatchDone(s, env, st)
      [] st.k = "return" -> ReturnDone(s, env, st)
      [] st.k \in {"break", "continue"} -> Done(s, env, st.k, Nil)
      [] st.k = "throw" ->
           After(Eval(s, env, st.e), env, LAMBDA s1, v : Done(s1, env, "throw", v))
      [] st.k = "try" -> TryDone(s, env, st)
      [] st.k = "fun" -> FunDone(s, env, st)
      [] st.k = "class" -> ClassDone(s, env, st)
      [] st.k \in {"import", "importFrom"} -> ImportDone(s, env, st)

(***************************************************************************)
(* Units.  An import runs a module once; a module that is still loading    *)
(* cannot be imported, and one that failed is as if never imported.        *)
(***************************************************************************)
RunUnit(s, name, home) ==
    IF ~Rule!Legal(s.units[name]) THEN Done(s, <<>>, "rejected", Nil)
    ELSE LET r == ExecAll([s EXCEPT !.depth = @ + 1],
                          [vars |-> <<>>, home |-> home, top |-> TRUE, tries |-> FALSE],
                          s.units[name])
         IN [r EXCEPT !.s.depth = s.depth]

Imported(s, m) ==
    LET ref == Ref(Len(s.heap) + 1)
        loading == [Create(s, ModuleOf(m)) EXCEPT !.cache = Put(@, m, Nil),
                                                  !.globals = Put(@, m, <<>>)]
        r == RunUnit(loading, m, m)
        failed == [r.s EXCEPT !.cache = Restrict(@, DOMAIN @ \ {m})]
    IN CASE m \in DOMAIN s.cache /\ s.cache[m] # Nil -> Ok(s, s.cache[m])
         [] m \notin DOMAIN s.cache /\ m \in DOMAIN s.units ->
              CASE r.k = "next" -> Ok([r.s EXCEPT !.cache = Put(@, m, ref)], ref)
                [] r.k = "throw" -> Outcome(failed, "throw", r.v)
                [] OTHER -> Fatal(failed)
         [] OTHER -> Fatal(s)

ImportDone(s, env, st) ==
    LET one(acc, x) ==
            IF acc.k # "next" THEN acc
            ELSE After(PropertyOf(acc.s, acc.v, x), env, LAMBDA s1, v :
                       [acc EXCEPT !.s = Declared(s1, env, x, v).s])
    IN After(Imported(s, st.m), env, LAMBDA s1, v :
             IF st.k = "import" THEN Declaration(s1, env, st.x, v)
             ELSE FoldLeft(one, Done(s1, env, "next", v), st.xs))

\* What one line prints; the line after it goes on with the same globals.
Line(s, name) ==
    LET r == RunUnit(s, name, Main)
        said == CASE r.k = "next" -> Ok(r.s, <<>>)
                  [] r.k = "rejected" -> Ok(r.s, <<"!rejected">>)
                  [] r.k = "throw" -> Then(TextOf(r.s, r.v), LAMBDA s1, text : Ok(s1, << "!" \o text >>))
                  [] r.k = "error" -> Ok(r.s, <<"!error">>)
    IN [said.s EXCEPT !.out = @ \o said.v, !.depth = 0]

OutputOf(p) ==
    FoldLeft(Line, [cells |-> <<>>, globals |-> (Main :> <<>>), cache |-> <<>>, out |-> <<>>,
                    heap |-> << ClassOf("StopIteration"), ClassOf("ValueError"),
                                ClassOf("TypeError") >>,
                    depth |-> 0, units |-> p.units], p.lines).out
=============================================================================
