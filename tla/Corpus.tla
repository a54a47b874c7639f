------------------------------- MODULE Corpus -------------------------------
(***************************************************************************)
(* The programs the runs of MCCompiled compile and execute, named by       *)
(* tuples of strings.  "nest" puts a statement into two constructs of the  *)
(* language; "call" meets lists of parameters with lists of arguments,     *)
(* through every kind of callee; "operate" applies every operator to every *)
(* pair of operands; "update" assigns to every kind of target.             *)
(***************************************************************************)
EXTENDS Syntax, SequencesExt, TLC

Script(ss) == [lines |-> <<"script">>, units |-> ("script" :> ss)]

A == Get("a")
PrintChars(s) == PrintOf(Chars(s))
Lt(e, n) == Binary("<", e, Num(n))
Plus(e, n) == Binary("+", e, Num(n))
Run(f, ss) == << Fun(f, <<>>, ss), Do(Call(Get(f), <<>>)) >>
MethodOf(x, ps, body) == [x |-> x, ps |-> ps, body |-> body]
NoCatch == <<>>
Shown(x) == << Catch(x, << PrintOf(Get(x)) >>) >>

(***************************************************************************)
(* nest: outer construct, inner construct, leaf.  All of it is in a        *)
(* function of one parameter a, called with 1; the closure kept in the     *)
(* global g is called after the function has been left.                    *)
(***************************************************************************)
Leaves == {"print", "return", "throw", "break", "continue", "capture", "fault", "call", "tail"}

Leaf(l) ==
    CASE l = "print"    -> << PrintOf(A) >>
      [] l = "return"   -> << Return(Plus(A, 10)) >>
      [] l = "throw"    -> << Throw(Plus(A, 20)) >>
      [] l = "break"    -> << Var("z", A), Break >>
      [] l = "continue" -> << Var("z", A), Continue >>
      [] l = "capture"  -> << Var("y", Plus(A, 1)), Do(Update("y", "+", Num(1))),
                              Do(Assign("g", Arrow(<<>>, << Return(Update("y", "+", A)) >>))) >>
      [] l = "fault"    -> << Do(Unary("-", Lit(Nil))) >>
      [] l = "call"     -> << PrintOf(Call(Get("thrower"), << Pos(A) >>)) >>
      [] l = "tail"     -> << Return(Call(Get("thrower"), << Pos(Num(5)) >>)) >>

Constructs == {"block", "if", "while", "for", "each", "unpack", "switch", "match", "bind", "guard",
               "try", "catch", "finally", "section", "both", "typed", "arrow", "method", "magic", "iterator"}
Loops == {"while", "for", "each", "unpack", "iterator"}

\* Statements ss inside the construct; v makes names of the two levels differ.
Construct(c, v, ss) ==
    LET x == "x" \o v
        i == "i" \o v
        C == "C" \o v
    IN CASE c = "block" -> << Block(<< Var(x, Num(2)) >> \o ss \o << PrintOf(Get(x)) >>) >>
         [] c = "if" -> << If(Lt(A, 2), Block(ss), PrintChars("else")) >>
         [] c = "while" ->
              << Var(i, Num(0)),
                 While(Lt(Get(i), 2), Block(<< Do(Update(i, "+", Num(1))), Var(x, Get(i)) >> \o ss)),
                 PrintOf(Get(i)) >>
         [] c = "for" ->
              << For(Var(i, Num(0)), Lt(Get(i), 2), Update(i, "+", Num(1)), Block(ss)) >>
         [] c = "each" ->
              << ForEach(Name(x), Array(<< Pos(Num(7)), Pos(Num(8)) >>),
                         Block(ss \o << PrintOf(Get(x)) >>)) >>
         [] c = "unpack" ->
              << ForEach(ByIndex(<<x, i>>),
                         Array(<< Pos(Array(<< Pos(Num(3)), Pos(Num(4)) >>)) >>),
                         Block(ss \o << PrintOf(Get(i)) >>)) >>
         [] c = "switch" ->
              << Switch(A, << <<Num(3), PrintChars("three")>>, <<Num(1), Block(ss)>> >>,
                        PrintChars("default")) >>
         [] c = "match" ->
              << Match(A, << Arm(Just(Num(3)), PrintChars("three")),
                             ArmIf(Just(Num(1)), Lt(A, 9), Block(ss)),
                             Arm(Wild, PrintChars("wild")) >>) >>
         [] c = "bind" ->
              << Match(Array(<< Pos(A), Pos(Num(6)) >>),
                       << Arm(ByKey(<< <<"k", x>> >>), PrintChars("map")),
                          Arm(ByIndex(<<x, i>>), Block(ss \o << PrintOf(Get(i)) >>)) >>) >>
         [] c = "guard" ->
              << Match(Array(<< Pos(A) >>),
                       << ArmIf(ByIndex(<<x>>), Binary(">", Get(x), Num(1)), PrintChars("no")),
                          Arm(Wild, Block(ss)) >>) >>
         [] c = "try" -> << Try(ss, Shown("e" \o v), Nothing) >>
         [] c = "catch" -> << Try(<< Throw(Num(30)) >>,
                                  << Catch(x, ss \o << PrintOf(Get(x)) >>) >>, Nothing) >>
         [] c = "finally" -> << Try(ss, NoCatch, Block(<< PrintChars("finally") >>)) >>
         [] c = "section" -> << Try(<< PrintChars("try") >>, NoCatch, Block(ss)) >>
         [] c = "both" -> << Try(<< Var(x, Num(2)) >> \o ss, Shown("e" \o v),
                                 Block(<< PrintChars("finally") >>)) >>
         [] c = "typed" ->
              << Try(ss, << CatchOf(<<"Other">>, x, << PrintChars("other") >>),
                            CatchOf(<<"Other", "Kind">>, x, << PrintChars("kind") >>) >>, Nothing) >>
         [] c = "arrow" -> << PrintOf(Call(Arrow(<<>>, ss), <<>>)) >>
         [] c = "method" ->
              << Class(C, "Kind", << MethodOf("go", <<>>, ss) >>),
                 PrintOf(Invoke(Call(Get(C), <<>>), "go", <<>>)) >>
         [] c = "magic" ->
              << Class(C, "", << MethodOf("__add__", << Param(x) >>, ss) >>),
                 PrintOf(Binary("+", Call(Get(C), <<>>), Num(1))) >>
         [] c = "iterator" ->
              << Class(C, "", << MethodOf("init", <<>>, << Do(SetProp(This, "n", Num(0))) >>),
                                 MethodOf("__iter__", <<>>, << Return(This) >>),
                                 MethodOf("__next__", <<>>,
                                        << If(Binary("==", Prop(This, "n"), Num(2)),
                                              Throw(Num(0)), Nothing),
                                           Return(UpdateProp(This, "n", "+", Num(1))) >>) >>),
                 ForEach(Name(x), Call(Get(C), <<>>), Block(ss)) >>

NestProgram(outer, inner, leaf) ==
    Script(<< Var("g", Nothing),
              Class("Kind", "", <<>>), Class("Other", "", <<>>),
              Fun("thrower", << Param("n") >>,
                  << If(Lt(Get("n"), 5), Throw(Call(Get("Kind"), <<>>)), Nothing),
                     Return(Get("n")) >>),
              Fun("f", << Param("a") >>,
                  << Var("w", Num(40)) >>
                  \o Construct(outer, "1", Construct(inner, "2", Leaf(leaf)))
                  \o << PrintOf(Binary("+", Get("w"), A)), Return(A) >>),
              Try(<< PrintOf(Call(Get("f"), << Pos(Num(1)) >>)), Throw(Num(99)) >>,
                  Shown("e"), Nothing) >>
           \o IF leaf = "capture" THEN << PrintOf(Call(Get("g"), <<>>)),
                                          PrintOf(Call(Get("g"), <<>>)) >> ELSE <<>>)

Nests == {"nest"} \X (Constructs \cup {"block"}) \X Constructs \X Leaves

(***************************************************************************)
(* call: a callee, its parameters and the arguments it is called with.     *)
(***************************************************************************)
ParameterLists ==
    [none |-> << >>, one |-> << Param("p") >>, two |-> << Param("p"), Param("q") >>,
     last |-> << Param("p"), Optional("q", Plus(Get("p"), 1)) >>,
     all |-> << Optional("p", Num(5)), Optional("q", Plus(Get("p"), 1)) >>,
     shut |-> << Optional("p", Num(5)), Optional("q", Call(ArrowExpr(<<>>, Plus(Get("p"), 1)), <<>>)) >>,
     rest |-> << Rest("r") >>, more |-> << Param("p"), Rest("r") >>,
     pair |-> << ByIndex(<<"p", "q">>), Param("r") >>,
     keys |-> << Param("r"), ByKey(<< <<"k", "p">> >>) >>]

Args ==
    [none |-> << >>, one |-> << Pos(Num(1)) >>, two |-> << Pos(Num(1)), Pos(Num(2)) >>,
     three |-> << Pos(Num(1)), Pos(Num(2)), Pos(Num(3)) >>,
     array |-> << Pos(Array(<< Pos(Num(3)), Pos(Num(4)) >>)), Pos(Num(2)) >>,
     map |-> << Pos(Num(2)), Pos(MapOf(<< <<Chars("k"), Num(7)>> >>)) >>,
     named |-> << Named("p", Num(8)) >>,
     later |-> << Named("q", Num(8)) >>,
     swapped |-> << Named("q", Num(1)), Named("p", Num(2)) >>,
     mixed |-> << Pos(Num(1)), Named("q", Num(9)) >>,
     twice |-> << Pos(Num(1)), Named("p", Num(9)) >>,
     unknown |-> << Pos(Num(1)), Named("z", Num(9)) >>,
     misplaced |-> << Named("p", Num(9)), Pos(Num(1)) >>,
     spread |-> << Spread(Array(<< Pos(Num(1)), Pos(Num(2)) >>)) >>,
     spreads |-> << Pos(Num(1)), Spread(Array(<< >>)), Spread(Array(<< Pos(Num(2)) >>)) >>,
     nothing |-> << Spread(Num(3)) >>]

NamesIn(ps) ==
    FlattenSeq([i \in 1 .. Len(ps) |->
        CASE ps[i].how = "array" -> ps[i].xs
          [] ps[i].how = "map" -> << ps[i].kxs[1][2] >>
          [] OTHER -> << ps[i].x >>])

\* The callee shows its parameters, and returns the last of them.
Callees == {"function", "arrow", "bound", "invoke", "field", "class", "super", "get", "tail", "module"}

CallProgram(kind, params, list) ==
    LET ps == ParameterLists[params]
        names == NamesIn(ps)
        shows == [i \in 1 .. Len(names) |-> PrintOf(Get(names[i]))]
        body == shows \o << Return(IF names = <<>> THEN Num(0) ELSE Get(Last(names))) >>
        args == Args[list]
        base == Class("B", "", << MethodOf("go", ps, body) >>)
        calling(ss, e) == Try(ss \o << PrintOf(e) >>, Shown("e"), Nothing)
    IN CASE kind = "function" -> Script(<< Fun("f", ps, body), calling(<<>>, Call(Get("f"), args)) >>)
         [] kind = "arrow" -> Script(<< calling(<<>>, Call(Arrow(ps, body), args)) >>)
         [] kind = "tail" ->
              Script(<< Fun("f", ps, body),
                        Fun("t", << Param("s"), Param("t") >>,
                            << Var("v", Num(6)), Return(Call(Get("f"), args)) >>),
                        calling(<<>>, Call(Get("t"), << Pos(Num(4)), Pos(Num(5)) >>)) >>)
         [] kind = "bound" ->
              Script(<< base, calling(<< Var("m", Prop(Call(Get("B"), <<>>), "go")) >>,
                                      Call(Get("m"), args)) >>)
         [] kind = "invoke" -> Script(<< base, calling(<<>>, Invoke(Call(Get("B"), <<>>), "go", args)) >>)
         [] kind = "field" ->
              Script(<< base, calling(<< Var("o", Call(Get("B"), <<>>)),
                                         Do(SetProp(Get("o"), "go", Arrow(ps, body))) >>,
                                      Invoke(Get("o"), "go", args)) >>)
         [] kind = "class" ->
              Script(<< Class("C", "", << MethodOf("init", ps, shows) >>),
                        calling(<<>>, Call(Get("C"), args)) >>)
         [] kind = "super" ->
              Script(<< base,
                        Class("D", "B", << MethodOf("go", <<>>, << Return(SuperInvoke("go", args)) >>) >>),
                        calling(<<>>, Invoke(Call(Get("D"), <<>>), "go", <<>>)) >>)
         [] kind = "get" ->
              Script(<< base,
                        Class("D", "B", << MethodOf("go", <<>>, << Return(Call(Super("go"), args)) >>) >>),
                        calling(<<>>, Invoke(Call(Get("D"), <<>>), "go", <<>>)) >>)
         [] kind = "module" ->
              [lines |-> <<"script">>,
               units |-> [script |-> << Import("m", "m"), calling(<<>>, Invoke(Get("m"), "go", args)) >>,
                          m |-> << Fun("go", ps, body) >>]]

\* `super.m(...a)` is compiled with the mark of a spread for a count of 255
\* arguments and reads below the stack: no program here has it.
CallPrograms ==
    {key \in {"call"} \X Callees \X (DOMAIN ParameterLists) \X (DOMAIN Args) :
        ~(key[2] = "super" /\ key[4] \in {"spread", "spreads", "nothing"})}

\* A rest parameter behind an optional one, called with n arguments.
OptionalRest(n) ==
    Script(<< Fun("f", << Param("p"), Optional("q", Num(2)), Rest("r") >>,
                  << PrintOf(Get("p")), PrintOf(Get("q")), PrintOf(Get("r")) >>),
              Do(Call(Get("f"), [i \in 1 .. n |-> Pos(Num(i))])) >>)

(***************************************************************************)
(* operate: an operator and its operands.  update: a compound assignment.  *)
(***************************************************************************)
Operands ==
    [zero |-> Num(0), one |-> Num(1), minusOne |-> Unary("-", Num(1)), seven |-> Num(7),
     minusSeven |-> Unary("-", Num(7)), most |-> Num(127),
     least |-> Binary("-", Unary("-", Num(127)), Num(1)),
     chars |-> Chars("s"), yes |-> Lit(Bool(TRUE)), nothing |-> Lit(Nil),
     array |-> Array(<< Pos(Num(1)) >>), plain |-> Call(Get("Plain"), <<>>),
     magic |-> Call(Get("Magic"), <<>>)]

BinaryOps == {"+", "-", "*", "/", "%", "<", "<=", ">", ">=", "==", "!=", "&", "|", "^", "<<", ">>"}
Answer(ps, e) == << Return(e) >>
MagicMethods ==
    << MethodOf("__add__", << Param("o") >>, << Return(Chars("sum")) >>),
       MethodOf("__mod__", << Param("o") >>, << Throw(Chars("mod")) >>),
       MethodOf("__cmp__", << Param("o") >>, << Return(Get("o")) >>),
       MethodOf("__eq__", << Param("o") >>, << Return(Get("o")) >>),
       MethodOf("__neg__", <<>>, << Return(This) >>) >>
Magical == << Class("Plain", "", <<>>), Class("Magic", "", MagicMethods) >>

OperateProgram(op, l, r) ==
    Script(Magical \o << Try(<< PrintOf(Binary(op, Operands[l], Operands[r])) >>, Shown("e"), Nothing),
                         PrintChars("end") >>)
OperateOneProgram(op, r) ==
    Script(Magical \o << Try(<< PrintOf(Unary(op, Operands[r])) >>, Shown("e"), Nothing),
                         PrintChars("end") >>)

Targets == {"local", "captured", "global", "constant", "field", "element", "entry", "undefined"}
UpdateProgram(target, op, r) ==
    LET change(x) == << PrintOf(Update(x, op, Operands[r])), PrintOf(Get(x)) >>
    IN CASE target = "local" -> Script(Magical \o << Block(<< Var("x", Num(6)) >> \o change("x")) >>)
         [] target = "captured" ->
              Script(Magical \o << Block(<< Var("x", Num(6)),
                                            Do(Call(Arrow(<<>>, change("x")), <<>>)),
                                            PrintOf(Get("x")) >>) >>)
         [] target = "global" -> Script(Magical \o << Var("x", Num(6)) >> \o change("x"))
         [] target = "constant" -> Script(Magical \o << Const("x", Num(6)) >> \o change("x"))
         [] target = "undefined" -> Script(Magical \o change("x"))
         [] target = "field" ->
              Script(Magical \o << Var("o", Call(Get("Plain"), <<>>)),
                                   Do(SetProp(Get("o"), "x", Num(6))),
                                   PrintOf(UpdateProp(Get("o"), "x", op, Operands[r])),
                                   PrintOf(Prop(Get("o"), "x")) >>)
         [] target = "element" ->
              Script(Magical \o << Var("a", Array(<< Pos(Num(5)), Pos(Num(6)) >>)),
                                   PrintOf(UpdateIndex(A, Num(1), op, Operands[r])), PrintOf(A) >>)
         [] target = "entry" ->
              Script(Magical \o << Var("a", MapOf(<< <<Chars("k"), Num(6)>> >>)),
                                   PrintOf(UpdateIndex(A, Chars("k"), op, Operands[r])),
                                   PrintOf(Index(A, Chars("k"))) >>)

OperatePrograms ==
    {"operate"} \X BinaryOps \X {"zero", "minusOne", "seven", "most", "least", "chars", "nothing", "magic"}
                \X {"zero", "minusOne", "minusSeven", "most", "chars", "plain", "magic"}
OperateOnePrograms == {"one"} \X {"-", "!", "~", "typeof"} \X (DOMAIN Operands)
UpdatePrograms ==
    {"update"} \X Targets \X {"+", "-", "*", "/"} \X {"one", "seven", "most", "zero", "nothing"}
=============================================================================
