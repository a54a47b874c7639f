------------------------------ MODULE Samples -------------------------------
(***************************************************************************)
(* Programs written out one by one for the runs of MCCompiled, by name:    *)
(* closures, classes, patterns and recursion (Whole), sessions at the      *)
(* prompt (Sessions), modules (Imports) and programs that break one rule   *)
(* of the language each (Illegal).                                         *)
(***************************************************************************)
EXTENDS Corpus

B == Get("b")
C == Get("c")
F == Get("f")
G == Get("g")
N == Get("n")
X == Get("x")
Y == Get("y")
CallTo(f, e) == Call(f, << Pos(e) >>)
Do0(f) == Do(Call(f, <<>>))
ArrayWith(es) == Array([i \in 1 .. Len(es) |-> Pos(es[i])])
Guarded(ss) == Try(ss, << Catch("e", << PrintOf(Get("e")) >>) >>, Nothing)
Method0(x, ss) == MethodOf(x, <<>>, ss)

Closures ==
    [shared |->
        << Var("f", Nothing), Var("g", Nothing),
           Block(<< Var("x", Num(1)), Var("y", Num(10)),
                    Do(Assign("f", Arrow(<<>>, << Do(Update("x", "+", Y)), Return(X) >>))),
                    Do(Assign("g", Arrow(<<>>, << Do(Update("y", "+", X)), Return(Y) >>))),
                    PrintOf(Call(F, <<>>)), PrintOf(Call(G, <<>>)) >>),
           PrintOf(Call(F, <<>>)), PrintOf(Call(G, <<>>)) >>,
     deep |->
        << Fun("f", << Param("x") >>,
               << Var("y", Plus(X, 1)),
                  Fun("g", << Param("n") >>,
                      << Return(ArrowExpr(<<>>, Binary("+", Update("y", "+", N), X))) >>),
                  Return(ArrayWith(<< CallTo(G, Num(5)), CallTo(G, Num(7)) >>)) >>),
           Var("a", CallTo(F, Num(1))),
           PrintOf(Call(Index(A, Num(0)), <<>>)), PrintOf(Call(Index(A, Num(1)), <<>>)),
           PrintOf(Call(Index(A, Num(0)), <<>>)) >>,
     inLoop |->
        << Var("a", ArrayWith(<<>>)),
           For(Var("i", Num(0)), Lt(Get("i"), 3), Update("i", "+", Num(1)),
               Block(<< Var("x", Binary("*", Get("i"), Num(2))),
                        If(Binary("==", Get("i"), Num(1)), Continue, Nothing),
                        Do(Invoke(A, "push", << Pos(ArrowExpr(<<>>, Binary("+", X, Get("i")))) >>)) >>)),
           ForEach(Name("f"), A, PrintOf(Call(F, <<>>))) >>,
     perItem |->
        << Var("a", ArrayWith(<<>>)),
           ForEach(Name("x"), ArrayWith(<< Num(1), Num(2) >>),
                   Do(Invoke(A, "push", << Pos(ArrowExpr(<<>>, Update("x", "+", Num(10)))) >>))),
           ForEach(Name("f"), A, Block(<< PrintOf(Call(F, <<>>)), PrintOf(Call(F, <<>>)) >>)) >>,
     parameter |->
        << Fun("f", << Param("x"), Optional("y", ArrowExpr(<<>>, Update("x", "+", Num(1)))) >>,
               << Do0(Y), Return(ArrowExpr(<<>>, X)) >>),
           PrintOf(Call(CallTo(F, Num(3)), <<>>)) >>,
     recursive |->
        << Block(<< Fun("f", << Param("n") >>,
                        << Return(Ternary(Lt(N, 2), Num(1),
                                          Binary("*", N, CallTo(F, Binary("-", N, Num(1)))))) >>),
                    PrintOf(CallTo(F, Num(4))) >>) >>,
     loopLeft |->
        << Var("f", Nothing),
           While(Lit(Bool(TRUE)),
                 Block(<< Var("x", Num(3)), Var("y", Num(4)),
                          Do(Assign("f", ArrowExpr(<<>>, Update("y", "+", X)))), Break >>)),
           PrintOf(Call(F, <<>>)), PrintOf(Call(F, <<>>)) >>,
     thrownAway |->
        << Var("f", Nothing),
           Fun("g", << Param("x") >>,
               << Var("y", Num(4)), Do(Assign("f", ArrowExpr(<<>>, Update("y", "+", X)))), Throw(X) >>),
           Guarded(<< Var("z", Num(0)), Do(CallTo(G, Num(2))) >>),
           PrintOf(Call(F, <<>>)), PrintOf(Call(F, <<>>)) >>]

Classes ==
    [chain |->
        << Class("A", "", << MethodOf("init", << Param("n") >>, << Do(SetProp(This, "n", N)) >>),
                             Method0("who", << Return(Plus(Prop(This, "n"), 1)) >>),
                             Method0("name", << Return(Chars("A")) >>) >>),
           Class("B", "A", << Method0("who", << Return(Plus(SuperInvoke("who", <<>>), 10)) >>) >>),
           Class("C", "B", << MethodOf("init", << Param("n") >>,
                                       << Do(SuperInvoke("init", << Pos(Plus(N, 1)) >>)) >>),
                              Method0("who", << Var("f", Super("who")),
                                                Return(Plus(Call(F, <<>>), 50)) >>) >>),
           Var("x", CallTo(Get("C"), Num(1))),
           PrintOf(Invoke(X, "who", <<>>)), PrintOf(Invoke(X, "name", <<>>)),
           PrintOf(Binary("is", X, Get("A"))),
           PrintOf(Binary("is", CallTo(Get("B"), Num(1)), Get("C"))) >>,
     initializer |->
        << Class("A", "", << Method0("init", << Do(SetProp(This, "n", Num(1))), Return(Nothing) >>) >>),
           Var("x", Call(Get("A"), <<>>)), Var("y", Invoke(X, "init", <<>>)),
           PrintOf(Binary("==", X, Y)), PrintOf(Prop(X, "n")) >>,
     bound |->
        << Class("A", "", << Method0("go", << Return(UpdateProp(This, "n", "+", Num(1))) >>),
                             Method0("later", << Return(ArrowExpr(<<>>, Invoke(This, "go", <<>>))) >>) >>),
           Var("x", Call(Get("A"), <<>>)), Do(SetProp(X, "n", Num(0))),
           Var("f", Prop(X, "go")), Do(SetProp(X, "go", Arrow(<<>>, << Return(Num(40)) >>))),
           PrintOf(Call(F, <<>>)), PrintOf(Invoke(X, "go", <<>>)),
           PrintOf(Call(Invoke(X, "later", <<>>), <<>>)), PrintOf(Prop(X, "n")) >>,
     nested |->
        << Class("A", "", << Method0("go", << Class("B", "A", << Method0("go", << Return(Num(2)) >>) >>),
                                              Return(Invoke(Call(Get("B"), <<>>), "go", <<>>)) >>),
                             Method0("who", << Return(Num(3)) >>) >>),
           PrintOf(Invoke(Call(Get("A"), <<>>), "go", <<>>)) >>,
     local |->
        << Block(<< Class("A", "", << Method0("make", << Return(Call(Get("A"), <<>>)) >>) >>),
                    Class("B", "A", << Method0("go", << Return(SuperInvoke("make", <<>>)) >>) >>),
                    PrintOf(Binary("is", Invoke(Call(Get("B"), <<>>), "go", <<>>), Get("A"))) >>) >>,
     missing |->
        << Class("A", "", <<>>), Guarded(<< Do(Invoke(Call(Get("A"), <<>>), "go", <<>>)) >>) >>,
     notClass |-> << Var("A", Num(1)), Class("B", "A", <<>>) >>,
     fieldOfInt |-> << Guarded(<< PrintOf(Prop(Num(1), "x")) >>) >>]

Patterns ==
    [unpacking |->
        << Fun("f", << Param("a") >>,
               << Unpack(ByIndex(<< "x", "", "y" >>), A, FALSE), Do(Update("x", "+", Y)),
                  Unpack(ByKey(<< <<"k", "n">>, <<"j", "g">> >>),
                         MapOf(<< <<Chars("j"), X>>, <<Chars("k"), Y>> >>), TRUE),
                  Return(ArrayWith(<< X, Y, N, G >>)) >>),
           PrintOf(CallTo(F, ArrayWith(<< Num(1), Num(2), Num(3) >>))),
           Unpack(ByIndex(<< "x", "y" >>), ArrayWith(<< Num(7), Num(8) >>), FALSE),
           Do(Update("x", "+", Y)), PrintOf(X),
           Guarded(<< Unpack(ByIndex(<< "a", "b" >>), ArrayWith(<< Num(7) >>), FALSE) >>) >>,
     expressions |->
        << Fun("f", << Param("x") >>,
               << Return(MatchExpr(X, << Arm(Just(Num(1)), Chars("one")),
                                         ArmIf(Just(X), Lt(X, 5), Plus(X, 100)),
                                         Arm(Wild, Chars("many")) >>)) >>),
           PrintOf(CallTo(F, Num(1))), PrintOf(CallTo(F, Num(3))), PrintOf(CallTo(F, Num(9))),
           Var("y", MatchExpr(ArrayWith(<< Num(4) >>), << Arm(ByIndex(<< "x" >>), Plus(X, 1)) >>)),
           PrintOf(Y), Do(Assign("y", MatchExpr(Y, << Arm(Just(Num(5)), Num(6)) >>))), PrintOf(Y) >>,
     noArm |->
        << Guarded(<< PrintOf(MatchExpr(Num(2), << Arm(Just(Num(1)), Chars("one")) >>)) >>),
           Match(Num(2), << Arm(Just(Num(1)), PrintChars("one")) >>), PrintChars("end") >>,
     types |->
        << Class("A", "", <<>>), Class("B", "A", <<>>),
           Fun("f", << Param("x") >>,
               << Match(X, << Arm(Typed("B", "n"), PrintOf(Binary("is", N, Get("A")))),
                              ArmIf(Typed("A", "m"), Lit(Bool(FALSE)), PrintChars("never")),
                              Arm(Typed("A", "n"), Block(<< Do(Assign("g", ArrowExpr(<<>>, N))) >>)),
                              Arm(Wild, PrintChars("other")) >>) >>),
           Var("g", Nothing),
           Do(CallTo(F, Call(Get("A"), <<>>))), Do(CallTo(F, Call(Get("B"), <<>>))), Do(CallTo(F, Num(1))),
           PrintOf(Binary("is", Call(G, <<>>), Get("A"))) >>,
     switches |->
        << ForEach(Name("x"), ArrayWith(<< Num(1), Num(2), Num(3) >>),
                   Switch(X, << <<Num(1), Block(<< Var("n", X), PrintOf(N) >>)>>,
                                <<Num(2), If(Binary("==", X, Num(2)), Continue, Nothing)>> >>, Nothing)),
           PrintChars("end") >>,
     interpolated |->
        << Var("x", Num(3)),
           PrintOf(Interpolation("x", << [e |-> X, after |-> ""],
                                         [e |-> Call(ArrowExpr(<<>>, Plus(X, 1)), <<>>), after |-> "y"],
                                         [e |-> Lit(Nil), after |-> "z"] >>)) >>,
     logic |->
        << Fun("f", << Param("x") >>, << PrintOf(X), Return(X) >>),
           PrintOf(And(CallTo(F, Num(1)), CallTo(F, Lit(Nil)))),
           PrintOf(Or(CallTo(F, Lit(Bool(FALSE))), CallTo(F, Num(2)))),
           PrintOf(And(CallTo(F, Lit(Nil)), CallTo(F, Num(3)))),
           PrintOf(Ternary(Or(Num(0), Lit(Nil)), CallTo(F, Num(4)), CallTo(F, Num(5)))),
           PrintOf(Unary("typeof", F)), PrintOf(Unary("!", Num(0))) >>,
     spreading |->
        << Fun("f", << Param("x"), Rest("r") >>,
               << PrintOf(Prop(Get("r"), "length")),
                  Return(Array(<< Spread(Get("r")), Pos(X), Spread(Get("r")) >>)) >>),
           PrintOf(Call(F, << Pos(Num(1)), Spread(ArrayWith(<< Num(2), Num(3) >>)), Pos(Num(4)) >>)),
           PrintOf(Call(F, << Spread(ArrayWith(<< Num(2) >>)) >>)) >>,
     maps |->
        << Var("a", MapOf(<< <<Chars("k"), Num(1)>>, <<Num(2), Num(5)>>, <<Chars("k"), Num(3)>> >>)),
           PrintOf(Prop(A, "size")), PrintOf(Index(A, Chars("k"))),
           Do(SetIndex(A, Lit(Nil), UpdateIndex(A, Num(2), "+", Num(1)))),
           PrintOf(Index(A, Lit(Nil))), PrintOf(Invoke(A, "containsKey", << Pos(Num(9)) >>)),
           PrintOf(Index(A, Num(9))) >>]

(***************************************************************************)
(* Values shown, and instances that say what they are shown as.  None of   *)
(* them throws while it does, or fails.                                    *)
(***************************************************************************)
Saying(ss) == Method0("__toString__", ss)
PartsOf(es) == Interpolation("", [i \in 1 .. Len(es) |-> [e |-> es[i], after |-> " "]])
Speakers ==
    << Class("A", "", << MethodOf("init", << Param("n") >>, << Do(SetProp(This, "n", N)) >>),
                         Saying(<< Return(Interpolation("A", << [e |-> Prop(This, "n"), after |-> ""] >>)) >>) >>),
       Class("B", "A", <<>>),
       Class("C", "B", << Saying(<< PrintChars("asked"),
                                    Return(Binary("+", SuperInvoke("__toString__", <<>>), Chars("C"))) >>) >>) >>
NewOf(c, e) == Call(Get(c), << Pos(e) >>)

Spoken ==
    [spoken |-> Speakers \o
        << Var("x", NewOf("B", NewOf("A", Num(1)))),
           PrintOf(X), PrintOf(PartsOf(<< X, Get("A"), NewOf("C", X), Num(3) >>)),
           PrintOf(ArrayWith(<< Num(1), X, ArrayWith(<< NewOf("C", Num(2)), NewOf("C", Num(3)) >>), Num(4) >>)),
           Fun("f", << Param("a") >>,
               << Var("y", Plus(Prop(A, "n"), 1)), PrintOf(ArrayWith(<< A, Y, ArrowExpr(<<>>, Y) >>)), Return(Y) >>),
           PrintOf(CallTo(F, NewOf("C", Num(5)))) >>,
     plain |->
        << Class("A", "", << Saying(<< Return(This) >>) >>), Class("B", "", << Saying(<<>>) >>),
           Class("C", "", << MethodOf("__toString__", << Rest("r") >>, << Return(Chars("no")) >>) >>),
           Fun("f", <<>>, <<>>), Var("x", Call(C, <<>>)),
           Do(SetProp(X, "__toString__", ArrowExpr(<<>>, Chars("no")))),
           Var("a", ArrayWith(<< Call(Get("A"), <<>>), Call(Get("B"), <<>>), X, Get("A"), Lit(Nil), F >>)),
           PrintOf(A),
           PrintOf(PartsOf(<< Index(A, Num(0)), Index(A, Num(1)), X, Get("A"), F, A, Prop(Call(Get("A"), <<>>), "__toString__") >>)) >>,
     catching |->
        << Var("g", Nothing),
           Class("A", "", << Saying(<< Try(<< Throw(This) >>,
                                           << Catch("e", << Do(Assign("g", ArrowExpr(<<>>, Get("e")))) >>) >>,
                                           Block(<< PrintChars("finally") >>)),
                                       Return(Chars("A")) >>) >>),
           Guarded(<< Var("x", Call(Get("A"), <<>>)),
                      Throw(Binary("+", PartsOf(<< X, X >>), Unary("typeof", Call(G, <<>>)))) >>),
           PrintOf(Call(G, <<>>)) >>,
     growing |->
        << Var("a", ArrayWith(<<>>)),
           Class("A", "", << Saying(<< If(Lt(Prop(A, "length"), 4), Do(Invoke(A, "push", << Pos(This) >>)), Nothing),
                                       Return(Chars("A")) >>) >>),
           Do(Invoke(A, "push", << Pos(Call(Get("A"), <<>>)) >>)), PrintOf(A) >>]

Failures ==
    [rethrown |->
        << Class("A", "", <<>>), Class("B", "", <<>>),
           Guarded(<< Try(<< Throw(Num(1)) >>,
                          << CatchOf(<< "A", "B" >>, "x", << PrintChars("never") >>) >>,
                          Block(<< PrintChars("finally") >>)) >>),
           Guarded(<< Try(<< Throw(Num(2)) >>, << Catch("x", << Throw(Plus(X, 1)) >>) >>,
                          Block(<< PrintChars("finally") >>)) >>),
           Guarded(<< Try(<< Throw(Num(4)) >>, NoCatch, Block(<< Throw(Num(5)) >>)) >>) >>,
     chosen |->
        << Class("A", "", <<>>), Class("B", "A", <<>>),
           Fun("f", << Param("x") >>,
               << Try(<< Throw(X) >>, << CatchOf(<< "B" >>, "b", << PrintChars("B") >>),
                                         CatchOf(<< "A" >>, "a", << PrintChars("A") >>),
                                         CatchBare(<< PrintChars("bare") >>) >>, Nothing) >>),
           Do(CallTo(F, Call(Get("A"), <<>>))), Do(CallTo(F, Call(Get("B"), <<>>))), Do(CallTo(F, Num(1))) >>,
     uncaught |-> << Fun("f", << >>, << Throw(Num(1)) >>), Var("x", Num(2)), Do0(F), PrintOf(X) >>,
     afterFinally |->
        << Fun("f", << Param("a") >>,
               << Var("x", Num(3)),
                  Try(<< Var("y", Num(1)), Do(Assign("a", ArrowExpr(<<>>, Update("y", "+", X)))) >>,
                      NoCatch, Block(<< PrintOf(Call(A, <<>>)) >>)),
                  Return(Call(A, <<>>)) >>),
           PrintOf(CallTo(F, Num(0))) >>,
     inSection |->
        << Fun("f", << Param("x") >>,
               << Var("y", Num(3)),
                  Try(<< Throw(X) >>, NoCatch,
                      Block(<< While(Lt(X, 2), Do(Update("x", "+", Num(1)))),
                               For(Nothing, Lt(Y, 5), Update("y", "+", Num(1)),
                                   If(Binary("==", Y, Num(4)), Block(<< PrintOf(Y), Continue >>), Nothing)),
                               Try(<< PrintOf(CallTo(ArrowExpr(<< Param("n") >>, Binary("*", N, Y)), X)) >>, NoCatch,
                                   Block(<< Do(Assign("g", ArrowExpr(<<>>, Update("y", "+", X)))) >>)),
                               PrintOf(Call(G, <<>>)) >>)) >>),
           Var("g", Nothing), Guarded(<< Do(CallTo(F, Num(0))) >>), PrintOf(Call(G, <<>>)) >>,
     inArgument |->
        << Fun("f", << Param("x"), Param("y") >>, << Return(X) >>),
           Fun("g", << >>, << Throw(Num(8)) >>),
           Guarded(<< PrintOf(Call(F, << Pos(Num(1)), Pos(Call(G, <<>>)) >>)) >>),
           PrintOf(Binary("+", Num(1), Call(F, << Pos(Num(1)), Pos(Num(2)) >>))) >>,
     endless |->
        << Fun("f", << Param("n") >>, << Return(Plus(CallTo(F, N), 1)) >>), Guarded(<< Do(CallTo(F, Num(1))) >>) >>,
     deepTail |->
        << Fun("f", << Param("n"), Optional("x", Num(1)) >>,
               << If(Binary("==", N, Num(0)), Return(X), Nothing),
                  Return(Call(F, << Pos(Binary("-", N, Num(1))), Pos(Plus(X, 2)) >>)) >>),
           PrintOf(CallTo(F, Num(9))) >>,
     tailInMethod |->
        << Class("A", "", << MethodOf("go", << Param("n"), Param("f") >>,
                                      << If(Lt(N, 1), Return(Chars("done")), Nothing),
                                         Return(Call(F, << Pos(Binary("-", N, Num(1))), Pos(F) >>)) >>) >>),
           Var("x", Call(Get("A"), <<>>)),
           PrintOf(Invoke(X, "go", << Pos(Num(8)), Pos(Prop(X, "go")) >>)) >>,
     tailKeeps |->
        << Fun("g", << Param("f") >>, << Return(Call(F, <<>>)) >>),
           Fun("f", << Param("x") >>, << Return(CallTo(G, ArrowExpr(<<>>, Update("x", "+", Num(1))))) >>),
           PrintOf(CallTo(F, Num(1))) >>]

(***************************************************************************)
(* Lines typed at the prompt: what a line that fails leaves for the next.  *)
(***************************************************************************)
Session(list) ==
    LET name(i) == "line" \o ToString(i) IN
    [lines |-> [i \in 1 .. Len(list) |-> name(i)],
     units |-> [x \in {name(i) : i \in 1 .. Len(list)} |->
                   list[CHOOSE i \in 1 .. Len(list) : name(i) = x]]]

Sessions ==
    [failing |->
        << << Var("a", Num(1)), Fun("f", <<>>, << Return(Update("a", "+", Num(1))) >>) >>,
           << PrintOf(Call(F, <<>>)), Throw(A), PrintChars("never") >>,
           << PrintOf(Call(F, <<>>)), Do(Unary("-", Lit(Nil))) >>,
           << Break >>,
           << PrintOf(Call(F, <<>>)) >> >>,
     insideTry |->
        << << Fun("f", << Param("x") >>, << Try(<< Do(Unary("-", X)) >>, << CatchBare(<< PrintChars("no") >>) >>,
                                                Block(<< PrintChars("no") >>)) >>) >>,
           << Do(CallTo(F, Lit(Nil))) >>,
           << Guarded(<< Throw(Num(3)) >>) >>,
           << Throw(Num(4)) >> >>,
     insideMagic |->
        << << Class("A", "", << MethodOf("__add__", << Param("x") >>, << Throw(X) >>) >>),
              Var("a", Call(Get("A"), <<>>)) >>,
           << PrintOf(Plus(A, 1)) >>,
           << Guarded(<< PrintOf(Plus(A, 2)) >>) >>,
           << PrintOf(Plus(A, 3)) >>, << PrintChars("end") >> >>,
     report |->
        << Speakers,
           << Fun("f", << Param("x") >>, << Var("y", X), Do(ArrowExpr(<<>>, Y)), Throw(X) >>),
              Do(CallTo(F, NewOf("C", ArrayWith(<< Num(1) >>)))) >>,
           << PrintOf(NewOf("C", Get("C"))), Throw(Get("C")) >>,
           << Throw(ArrayWith(<< Num(1) >>)) >> >>,
     redefining |->
        << << Const("a", Num(1)) >>, << PrintOf(A) >>, << Var("a", Num(2)), PrintOf(A) >>,
           << Fun("f", <<>>, << Return(A) >>) >>, << Do(Assign("a", Num(5))), PrintOf(Call(F, <<>>)) >>,
           << PrintOf(B), PrintChars("never") >> >>]

(***************************************************************************)
(* Modules.                                                                *)
(***************************************************************************)
Module == << PrintChars("module"), Var("x", Num(1)),
             Fun("f", << Param("n") >>, << Return(Update("x", "+", N)) >>) >>
Importing(lines, modules) ==
    LET session == Session(lines) IN [session EXCEPT !.units = modules @@ @]

Imports ==
    [once |-> Importing(<< << Import("m", "a"), Import("m", "b"), PrintOf(Invoke(A, "f", << Pos(Num(4)) >>)),
                              PrintOf(Prop(B, "x")), ImportFrom("m", << "f" >>), PrintOf(CallTo(F, Num(1))),
                              PrintOf(Prop(A, "x")), Var("x", Num(70)), PrintOf(CallTo(F, Num(1))) >> >>,
                        ("m" :> Module)),
     indirect |-> Importing(<< << Import("n", "a"), Import("m", "b"), PrintOf(Prop(A, "y")), PrintOf(Prop(B, "x")) >> >>,
                         ("m" :> Module) @@
                         ("n" :> << ImportFrom("m", << "f", "x" >>), Var("y", CallTo(F, X)) >>)),
     circular |-> Importing(<< << PrintChars("start"), Import("m", "a"), PrintChars("never") >> >>,
                            ("m" :> << PrintChars("m"), Import("n", "b") >>) @@
                            ("n" :> << PrintChars("n"), Import("m", "a") >>)),
     absent |-> Importing(<< << Import("m", "a") >>, << PrintChars("next") >>, << Import("m", "a") >> >>, <<>>),
     rejected |-> Importing(<< << Import("m", "a") >>, << PrintChars("next") >> >>, ("m" :> << Break >>)),
     broken |-> Importing(<< << Import("m", "a"), PrintChars("never") >>, << PrintChars("next"), PrintOf(A) >> >>,
                           ("m" :> << PrintChars("m"), Var("x", Num(1)), Throw(X) >>)),
     noName |-> Importing(<< << ImportFrom("m", << "x", "z" >>) >>, << PrintOf(X) >> >>, ("m" :> Module)),
     sealed |-> Importing(<< << Import("m", "a"), Do(SetProp(A, "x", Num(5))) >>, << PrintOf(Prop(A, "x")) >> >>,
                          ("m" :> Module)),
     fixed |-> Importing(<< << Import("m", "a"), Do(Assign("a", Num(5))) >> >>, ("m" :> Module))]

(***************************************************************************)
(* Programs that break a rule of the language, and neighbours that do not. *)
(***************************************************************************)
InFunction(ss) == << Fun("f", << Param("a") >>, ss) >>
InMethod(up, x, ss) == << Class("A", "", <<>>), Class("B", up, << Method0(x, ss) >>) >>
Illegal ==
    [breakOutside |-> << Break >>, continueOutside |-> << If(A, Continue, Nothing) >>,
     breakInFunction |-> << While(Lit(Nil), Block(InFunction(<< Break >>))) >>,
     returnOutside |-> << Return(Nothing) >>,
     thisOutside |-> << PrintOf(This) >>, thisInFunction |-> InFunction(<< PrintOf(This) >>),
     thisInArrow |-> InMethod("", "go", << Return(ArrowExpr(<<>>, This)) >>),
     superOutside |-> InFunction(<< PrintOf(Super("go")) >>),
     superWithout |-> InMethod("", "go", << PrintOf(Super("go")) >>),
     superWith |-> InMethod("A", "go", << PrintOf(Super("go")) >>),
     ownSuper |-> << Class("A", "A", <<>>) >>,
     initReturns |-> InMethod("", "init", << Return(Num(1)) >>),
     initArrowReturns |-> InMethod("", "init", << Do(Arrow(<<>>, << Return(Num(1)) >>)) >>),
     twoLocals |-> InFunction(<< Var("x", Num(1)), Var("x", Num(2)) >>),
     localOfParameter |-> InFunction(<< Var("a", Num(1)) >>),
     shadowing |-> InFunction(<< Block(<< Var("a", Num(1)) >>) >>),
     twoGlobals |-> << Var("a", Num(1)), Var("a", Num(2)), PrintOf(A) >>,
     twoParameters |-> << Fun("f", << Param("a"), Param("a") >>, <<>>) >>,
     readsItself |-> << Block(<< Var("x", X) >>) >>,
     readsOuter |-> << Var("x", Num(1)), Block(<< Var("y", X) >>) >>,
     closureReadsItself |-> << Block(<< Var("x", ArrowExpr(<<>>, X)) >>) >>,
     constLocal |-> InFunction(<< Const("x", Num(1)), Do(Assign("x", Num(2))) >>),
     constUpdated |-> << Const("x", Num(1)), Do(Update("x", "+", Num(2))) >>,
     constUpvalue |-> InFunction(<< Const("x", Num(1)), Do(ArrowExpr(<<>>, Assign("x", Num(2)))) >>),
     constFromFunction |-> << Const("x", Num(1)) >> \o InFunction(<< Do(Assign("x", Num(2))) >>),
     constHidden |-> << Const("x", Num(1)), Block(<< Var("x", Num(2)), Do(Assign("x", Num(3))) >>) >>,
     constUnpacked |-> << Unpack(ByIndex(<< "x" >>), ArrayWith(<< Num(1) >>), TRUE), Do(Assign("x", Num(2))) >>,
     importInBlock |-> << Block(<< Import("m", "a") >>) >>,
     importInFunction |-> InFunction(<< Import("m", "b") >>),
     plainAfterOptional |-> << Fun("f", << Optional("a", Num(1)), Param("b") >>, <<>>) >>,
     armAfterWild |-> << Match(Num(1), << Arm(Wild, PrintOf(Num(1))), Arm(Just(Num(1)), PrintOf(Num(1))) >>) >>,
     armAfterGuard |-> << Match(Num(1), << ArmIf(Wild, Lit(Nil), PrintOf(Num(1))),
                                           Arm(Just(Num(1)), PrintOf(Num(1))) >>) >>,
     bareTry |-> << Try(<< PrintOf(Num(1)) >>, NoCatch, Nothing) >>,
     namedInInvoke |-> << Do(Invoke(A, "go", << Named("x", Num(1)) >>)) >>,
     namedInArray |-> << Do(Array(<< Named("x", Num(1)) >>)) >>,
     namedAndSpread |-> << Do(Call(F, << Named("x", Num(1)), Spread(A) >>)) >>,
     catchTwice |-> InFunction(<< Guarded(<< Var("a", Num(1)) >>),
                                  Try(<<>>, << Catch("x", << Var("x", Num(1)) >>) >>, Nothing) >>),
     loopVariable |-> << ForEach(Name("x"), A, Block(<< Var("x", Num(1)) >>)), Do(Assign("x", Num(2))) >>]

SampleScripts == Closures @@ Classes @@ Patterns @@ Spoken @@ Failures @@ Illegal
SamplePrograms == [x \in DOMAIN SampleScripts |-> Script(SampleScripts[x])]
                  @@ [x \in DOMAIN Sessions |-> Session(Sessions[x])]
                  @@ Imports
=============================================================================
