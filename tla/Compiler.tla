------------------------------ MODULE Compiler ------------------------------
(***************************************************************************)
(* The single pass compiler of compiler.c and compiler_stmt.c, from trees  *)
(* (module Syntax) to the code of functions.  A jump holds the index of    *)
(* its target and a constant stands in its instruction: byte offsets and   *)
(* constant pools are abstracted.  A compiler in progress is a record:     *)
(*   fns     the stack of struct Compiler, `current` last; the loop and    *)
(*           finally contexts initCompiler saves and resets are in each    *)
(*   funs    the functions ended so far, numbered in that order            *)
(*   consts  constGlobals                                                  *)
(*   supers  for each enclosing class, whether it has a superclass         *)
(*   call    lastEmittedCall: the index of the last plain call, or 0       *)
(*   error   parser.hadError                                               *)
(*   kept    for each parse function under way, what it keeps in its local *)
(*           variables: the slots and places it has marked, and the jumps  *)
(*           it has to patch, each with the label it is for                *)
(* A function also records, for the invariants only, how many locals the   *)
(* compiler counts where each statement starts (statements), and where the *)
(* finally sections around it do (sections).                               *)
(***************************************************************************)
EXTENDS Syntax, SequencesExt

CONSTANT LocalsMax         \* UINT8_COUNT

ASSUME LocalsMaxAssumption == LocalsMax \in Nat \ {0}

Local(x, depth) == [name |-> x, depth |-> depth, captured |-> FALSE, const |-> FALSE]

NewFunction(type) ==
    [type |-> type, code |-> <<>>, upvalues |-> <<>>, depth |-> 0,
     locals |-> << Local(IF type \in {"function", "arrow"} THEN "" ELSE "this", 0) >>,
     loops |-> <<>>, finallies |-> <<>>, sections |-> <<>>,
     arity |-> 0, minArity |-> 0, rest |-> FALSE, params |-> <<>>, statements |-> {}]

NewCompiler ==
    [fns |-> << NewFunction("script") >>, funs |-> <<>>, consts |-> {}, supers |-> <<>>,
     call |-> 0, error |-> FALSE, kept |-> <<>>]

Current(c) == Last(c.fns)
Error(c) == [c EXCEPT !.error = TRUE]
ErrorIf(bad, c) == IF bad THEN Error(c) ELSE c
Here(c) == Len(Current(c).code)
LocalCount(c) == Len(Current(c).locals)
Top(c) == LocalCount(c) - 1                      \* slot of the newest local
AtGlobalScope(c) == Current(c).depth = 0

Emit3(c, op, a, b) ==
    [c EXCEPT !.fns[Len(c.fns)].code = Append(@, [op |-> op, a |-> a, b |-> b])]
Emit2(c, op, a) == Emit3(c, op, a, 0)
Emit(c, op) == Emit3(c, op, 0, 0)
EmitAll(c, ops) ==
    [c EXCEPT !.fns[Len(c.fns)].code =
        @ \o [i \in 1 .. Len(ops) |-> [op |-> ops[i], a |-> 0, b |-> 0]]]
EmitConstant(c, v) == Emit2(c, "CONSTANT", v)

\* The jumps at the indices ats land on the next instruction.
PatchedTo(code, ats, target) ==
    [i \in DOMAIN code |-> IF i \in ats THEN [code[i] EXCEPT !.a = target] ELSE code[i]]
PatchAll(c, ats) == [c EXCEPT !.fns[Len(c.fns)].code = PatchedTo(@, ats, Here(c) + 1)]
EmitReturn(c) ==
    Emit(IF Current(c).type = "initializer" THEN Emit2(c, "GET_LOCAL", 0) ELSE Emit(c, "NIL"),
         "RETURN")

(***************************************************************************)
(* Scopes and locals.                                                      *)
(***************************************************************************)
BeginScope(c) == [c EXCEPT !.fns[Len(c.fns)].depth = @ + 1]

\* The instruction that takes each of the last n locals off the stack, newest first.
BugPopsFor(f, n) == [j \in 1 .. n |-> "POP"]
PopsFor(f, n) ==
    [j \in 1 .. n |-> IF f.locals[Len(f.locals) - j + 1].captured
                      THEN "CLOSE_UPVALUE" ELSE "POP"]

\* How many locals are deeper than depth.
Deeper(f, depth) ==
    Len(f.locals) - SelectLastInSeq(f.locals, LAMBDA l : l.depth <= depth)

\* The same, but not stopped by a local whose initializer is being compiled.
DeeperInitialized(f, depth) ==
    Len(f.locals) - SelectLastInSeq(f.locals, LAMBDA l : l.depth # -1 /\ l.depth <= depth)

CloseScope(c, n) ==
    LET popped == EmitAll(c, PopsFor(Current(c), n)) IN
    [popped EXCEPT !.fns[Len(c.fns)].locals = SubSeq(@, 1, Len(@) - n),
                   !.fns[Len(c.fns)].depth  = @ - 1]

EndScope(c) == CloseScope(c, Deeper(Current(c), Current(c).depth - 1))

EndScopeKeepingTop(c) ==
    LET n == Deeper(Current(c), Current(c).depth - 1) IN
    IF n = 0 THEN CloseScope(c, 0)
             ELSE CloseScope(Emit2(c, "SET_LOCAL", LocalCount(c) - n), n)

LeaveTo(c, depth) == EmitAll(c, PopsFor(Current(c), DeeperInitialized(Current(c), depth)))

AddLocal(c, x) ==
    IF LocalCount(c) = LocalsMax THEN Error(c)
    ELSE [c EXCEPT !.fns[Len(c.fns)].locals = Append(@, Local(x, -1))]

MarkInitialized(c) ==
    IF AtGlobalScope(c) THEN c
    ELSE [c EXCEPT !.fns[Len(c.fns)].locals[LocalCount(c)].depth = Current(c).depth]

HiddenLocal(c) == MarkInitialized(AddLocal(c, ""))
NewLocal(c, x) == MarkInitialized(AddLocal(c, x))

MarkConst(c) == [c EXCEPT !.fns[Len(c.fns)].locals[LocalCount(c)].const = TRUE]

Redeclared(f, x) ==
    \E l \in ToSet(SubSeq(f.locals, Len(f.locals) - DeeperInitialized(f, f.depth - 1) + 1,
                          Len(f.locals))) : l.name = x

DeclareVariable(c, x) ==
    IF AtGlobalScope(c) THEN c
    ELSE AddLocal(ErrorIf(Redeclared(Current(c), x), c), x)

DefineVariable(c, x) ==
    IF AtGlobalScope(c) THEN Emit2(c, "DEFINE_GLOBAL", x) ELSE MarkInitialized(c)

(***************************************************************************)
(* Names.  Compilers are addressed by their level in fns; -1 is `absent`.  *)
(***************************************************************************)
ResolveLocal(f, x) == SelectLastInSeq(f.locals, LAMBDA l : l.name = x) - 1

ReadsItself(f, slot) == slot # -1 /\ f.locals[slot + 1].depth = -1

AddUpvalue(c, level, up) ==
    LET same == SelectInSeq(c.fns[level].upvalues,
                            LAMBDA u : u.index = up.index /\ u.isLocal = up.isLocal)
    IN IF same # 0 THEN [c |-> c, i |-> same - 1]
       ELSE [c |-> [c EXCEPT !.fns[level].upvalues = Append(@, up)],
             i |-> Len(c.fns[level].upvalues)]

RECURSIVE ResolveUpvalue(_, _, _)
ResolveUpvalue(c, level, x) ==
    IF level = 1 THEN [c |-> c, i |-> -1]
    ELSE LET outer == c.fns[level - 1]
             slot == ResolveLocal(outer, x)
             further == ResolveUpvalue(c, level - 1, x)
         IN CASE slot # -1 ->
                   AddUpvalue([ErrorIf(ReadsItself(outer, slot), c)
                                   EXCEPT !.fns[level - 1].locals[slot + 1].captured = TRUE],
                              level, [index |-> slot, isLocal |-> TRUE,
                                      const |-> outer.locals[slot + 1].const])
              [] slot = -1 /\ further.i # -1 ->
                   AddUpvalue(further.c, level,
                              [index |-> further.i, isLocal |-> FALSE,
                               const |-> further.c.fns[level - 1].upvalues[further.i + 1].const])
              [] OTHER -> further

\* Where namedVariable finds x: the suffix of its two instructions, their
\* operand, whether it is const, and the compiler afterwards.
Lookup(c, x) ==
    LET slot == ResolveLocal(Current(c), x)
        up == ResolveUpvalue(c, Len(c.fns), x)
    IN CASE slot # -1 ->
              [c |-> ErrorIf(ReadsItself(Current(c), slot), c), get |-> "GET_LOCAL",
               set |-> "SET_LOCAL", a |-> slot, const |-> Current(c).locals[slot + 1].const]
         [] slot = -1 /\ up.i # -1 ->
              [c |-> up.c, get |-> "GET_UPVALUE", set |-> "SET_UPVALUE", a |-> up.i,
               const |-> Current(up.c).upvalues[up.i + 1].const]
         [] OTHER ->
              [c |-> up.c, get |-> "GET_GLOBAL", set |-> "SET_GLOBAL", a |-> x,
               const |-> x \in c.consts]

ReadFrom(v) == Emit2(v.c, v.get, v.a)
ReadVariable(c, x) == ReadFrom(Lookup(c, x))

(***************************************************************************)
(* A parse function emits instructions and calls the parse functions of    *)
(* its parts.  The operator of the same name gives, in that order, a       *)
(* sequence of trees and of the pieces below; Compiled says what each does *)
(* to the compiler.                                                        *)
(***************************************************************************)
Op2(op, a, b) == [k |-> "emit", op |-> op, a |-> a, b |-> b]
Op1(op, a) == Op2(op, a, 0)
Op(op) == Op2(op, 0, 0)
Ops(ops) == [i \in 1 .. Len(ops) |-> Op(ops[i])]
Constant(v) == Op1("CONSTANT", v)

Forward(op, label) == [k |-> "jump", op |-> op, label |-> label]
Place(label) == [k |-> "place", label |-> label]      \* where those jumps land
Mark(label) == [k |-> "mark", label |-> label]        \* the place LoopTo goes back to
LoopTo(label) == [k |-> "loop", label |-> label]
Hidden(label) == [k |-> "hidden", label |-> label]    \* a hidden local, its slot kept
Load(label) == [k |-> "load", label |-> label]        \* GET_LOCAL of that slot
Resolve(x) == [k |-> "resolve", x |-> x]              \* a variable to be assigned
ReadIt == [k |-> "readIt"]
StoreIt == [k |-> "storeIt"]

Act(act) == [k |-> "act", act |-> act]                \* a change that emits no instruction,
BeginsScope == Act("beginScope")                      \* or what the compiler's state says
EndsScope == Act("endScope")
OnName(act, x) == [k |-> "name", act |-> act, x |-> x]
FailIf(bad) == [k |-> "failIf", bad |-> bad]

(***************************************************************************)
(* Expressions: one operator for each parselet.                            *)
(***************************************************************************)
OpsOf(op) ==
    CASE op = "+" -> <<"ADD">>        [] op = "-" -> <<"SUBTRACT">>
      [] op = "*" -> <<"MULTIPLY">>   [] op = "==" -> <<"EQUAL">>
      [] op = "!=" -> <<"EQUAL", "NOT">>
      [] op = "<" -> <<"LESS">>       [] op = ">=" -> <<"LESS", "NOT">>
      [] op = ">" -> <<"GREATER">>    [] op = "<=" -> <<"GREATER", "NOT">>
      [] op = "/" -> <<"DIVIDE">>     [] op = "%" -> <<"MODULO">>
      [] op = "&" -> <<"BITWISE_AND">>  [] op = "|" -> <<"BITWISE_OR">>
      [] op = "^" -> <<"BITWISE_XOR">>
      [] op = "<<" -> <<"LEFT_SHIFT">>  [] op = ">>" -> <<"RIGHT_SHIFT">>
      [] op = "is" -> <<"CHECK_TYPE">>

BinaryCode(e) == << e.l, e.r >> \o Ops(OpsOf(e.op))

UnaryCode(e) ==
    << e.e, Op(CASE e.op = "!" -> "NOT" [] e.op = "-" -> "NEGATE"
                 [] e.op = "~" -> "BITWISE_NOT" [] e.op = "typeof" -> "TYPEOF") >>

AndCode(e) == << e.l, Forward("JUMP_IF_FALSE", "end"), Op("POP"), e.r, Place("end") >>

OrCode(e) ==
    << e.l, Forward("JUMP_IF_FALSE", "else"), Forward("JUMP", "end"),
       Place("else"), Op("POP"), e.r, Place("end") >>

TernaryCode(e) ==
    << e.c, Forward("JUMP_IF_FALSE", "else"), Op("POP"), e.y, Forward("JUMP", "end"),
       Place("else"), Op("POP"), e.n, Place("end") >>

InterpolationCode(e) ==
    LET part(p) == << p.e, Op("STRINGIFY"), Op("ADD") >>
                   \o IF p.after = "" THEN <<>> ELSE << Constant(Text(p.after)), Op("ADD") >>
    IN << Constant(Text(e.s)) >> \o FlattenSeq([i \in 1 .. Len(e.parts) |-> part(e.parts[i])])

AssignCode(e) == << Resolve(e.x), e.e, StoreIt >>
UpdateCode(e) == << Resolve(e.x), ReadIt, e.e >> \o Ops(OpsOf(e.op)) \o << StoreIt >>

\* Arguments and array elements.  At the first spread the values before it
\* become an array, to which all that follow are added.
HowMany(list, how) == Len(SelectSeq(list, LAMBDA a : a.how = how))
Spreads(list) == HowMany(list, "spread") > 0

ElementCode(list, i) ==
    LET before == SubSeq(list, 1, i - 1) IN
    CASE list[i].how = "named" -> << Constant(Text(list[i].x)), list[i].e >>
      [] list[i].how = "positional" ->
           << list[i].e >> \o IF Spreads(before) THEN << Op("ARRAY_APPEND") >> ELSE <<>>
      [] list[i].how = "spread" ->
           (IF Spreads(before) THEN <<>> ELSE << Op1("BUILD_ARRAY", i - 1) >>)
           \o << list[i].e, Op("SPREAD_ARRAY") >>

\* Named arguments are the last ones, and do not mix with a spread.
Misplaced(list, allowNamed) ==
    \/ ~allowNamed /\ HowMany(list, "named") > 0
    \/ \E i, j \in 1 .. Len(list) :
          list[i].how = "named" /\ list[j].how # "named" /\ (i < j \/ list[j].how = "spread")

Elements(list, allowNamed) ==
    << FailIf(Misplaced(list, allowNamed)) >>
    \o FlattenSeq([i \in 1 .. Len(list) |-> ElementCode(list, i)])

ArrayCode(e) ==
    Elements(e.els, FALSE)
    \o IF Spreads(e.els) THEN <<>> ELSE << Op1("BUILD_ARRAY", Len(e.els)) >>

SpreadSentinel == 255

CallCode(e) ==
    LET named == HowMany(e.args, "named") IN
    << e.f >> \o Elements(e.args, TRUE)
    \o CASE Spreads(e.args) -> << Op("CALL_SPREAD") >>
         [] ~Spreads(e.args) /\ named > 0 -> << Op2("CALL_KW", Len(e.args) - named, named) >>
         [] OTHER -> << Op1("CALL", Len(e.args)), Act("noteCall") >>

InvokeCode(e) ==
    << e.o >> \o Elements(e.args, FALSE)
    \o << IF Spreads(e.args) THEN Op1("INVOKE_SPREAD", e.p) ELSE Op2("INVOKE", e.p, Len(e.args)) >>

MapCode(e) == FlattenSeq(e.entries) \o << Op1("BUILD_MAP", Len(e.entries)) >>

PropertyCode(e) ==
    << e.o >> \o
    CASE e.k = "prop" -> << Op1("GET_PROPERTY", e.p) >>
      [] e.k = "setProp" -> << e.e, Op1("SET_PROPERTY", e.p) >>
      [] e.k = "updateProp" -> << Op1("DUP", 0), Op1("GET_PROPERTY", e.p), e.e >>
                               \o Ops(OpsOf(e.op)) \o << Op1("SET_PROPERTY", e.p) >>

SubscriptCode(e) ==
    << e.o, e.i >> \o
    CASE e.k = "index" -> << Op("INDEX_GET") >>
      [] e.k = "setIndex" -> << e.e, Op("INDEX_SET") >>
      [] e.k = "updateIndex" -> << Op1("DUP", 1), Op1("DUP", 1), Op("INDEX_GET"), e.e >>
                                \o Ops(OpsOf(e.op)) \o << Op("INDEX_SET") >>

SuperCode(c, e) ==
    << FailIf(c.supers = <<>> \/ ~Last(<<FALSE>> \o c.supers)), Get("this") >> \o
    CASE e.k = "super" -> << Get("super"), Op1("GET_SUPER", e.p) >>
      [] e.k = "superInvoke" ->
           Elements(e.args, FALSE)
           \o << Get("super"), Op2("SUPER_INVOKE", e.p, IF Spreads(e.args) THEN SpreadSentinel
                                                                         ELSE Len(e.args)) >>

\* emitArrayPatternBindings, emitMapPatternBindings: each name of the pattern
\* becomes a local that holds its part of the value `load` reads.
PatternKey(pat, i) == IF pat.how = "array" THEN Int64(i - 1) ELSE Text(pat.kxs[i][1])
PatternName(pat, i) == IF pat.how = "array" THEN pat.xs[i] ELSE pat.kxs[i][2]
PatternParts(pat) ==
    SelectSeq([i \in 1 .. (IF pat.how = "array" THEN Len(pat.xs) ELSE Len(pat.kxs)) |-> i],
              LAMBDA i : PatternName(pat, i) # "")

PatternBindings(load, pat, const) ==
    LET part(i) == << load, Constant(PatternKey(pat, i)), Op("INDEX_GET"),
                      OnName("declareInitialized", PatternName(pat, i)) >>
                   \o IF const THEN << Act("markConst") >> ELSE <<>>
        parts == PatternParts(pat)
    IN FlattenSeq([j \in 1 .. Len(parts) |-> part(parts[j])])

(***************************************************************************)
(* Functions.                                                              *)
(***************************************************************************)
HasDefault(ps) == HowMany(ps, "optional") > 0
IsPattern(p) == p.how \in {"array", "map"}

\* Slot i holds the i-th parameter.  A default is evaluated when the slot has
\* no value yet.
ParameterCode(ps, i) ==
    LET p == ps[i] IN
    << FailIf(p.how \notin {"optional", "rest"} /\ HasDefault(SubSeq(ps, 1, i - 1))) >>
    \o (IF IsPattern(p) THEN << Hidden("parameter") >>
        ELSE << OnName("declareInitialized", p.x) >>)
    \o IF p.how # "optional" THEN <<>>
       ELSE << Forward("DEFAULT_ARG", "given"), p.e, Op1("SET_LOCAL", i), Op("POP"), Place("given") >>

\* Patterns are extracted after every parameter has its slot.
Parameters(ps) ==
    FlattenSeq([i \in 1 .. Len(ps) |-> ParameterCode(ps, i)])
    \o FlattenSeq([i \in 1 .. Len(ps) |->
           IF IsPattern(ps[i]) THEN PatternBindings(Op1("GET_LOCAL", i), ps[i], FALSE) ELSE <<>>])

\* compileFunction, and arrowFunction for the two forms of arrows.
Function(type, ps, body) ==
    << [k |-> "function", type |-> type, ps |-> ps] >> \o Parameters(ps) \o body
    \o << Act("endFunction") >>

ArrowExprCode(e) == Function("arrow", e.ps, << e.e, Op("RETURN") >>)

ThisCode(c) == << FailIf(c.supers = <<>>), Get("this") >>

FunDeclaration(s) ==
    << OnName("declareInitialized", s.x) >> \o Function("function", s.ps, s.body)
    \o << OnName("define", s.x) >>

Method(m) ==
    Function(IF m.x = "init" THEN "initializer" ELSE "method", m.ps, m.body)
    \o << Op1("METHOD", m.x) >>

\* The class is on the stack below its superclass while OP_INHERIT copies the
\* methods, and the superclass stays as the local `super` of the methods.
Inherit(s) ==
    << Get(s.up), FailIf(s.up = s.x), BeginsScope, OnName("new", "super"),
       Get(s.x), Op("INHERIT"), Act("noteSuper") >>

ClassDeclaration(s) ==
    << OnName("declare", s.x), Op1("CLASS", s.x), OnName("define", s.x), Act("enterClass") >>
    \o (IF s.up = "" THEN <<>> ELSE Inherit(s))
    \o << Get(s.x) >> \o FlattenSeq([i \in 1 .. Len(s.ms) |-> Method(s.ms[i])]) \o << Op("POP") >>
    \o (IF s.up = "" THEN <<>> ELSE << EndsScope >>) \o << Act("leaveClass") >>

(***************************************************************************)
(* Declarations and statements.                                            *)
(***************************************************************************)
VarDeclaration(s) ==
    << OnName("declare", s.x), IF s.e = Nothing THEN Op("NIL") ELSE s.e, OnName("define", s.x) >>

ConstDeclaration(c, s) ==
    IF AtGlobalScope(c)
    THEN << OnName("declare", s.x), s.e, OnName("constGlobal", s.x), OnName("define", s.x) >>
    ELSE << OnName("declare", s.x), Act("markConst"), s.e, OnName("define", s.x) >>

\* At global scope the value is duplicated for each name but the last; a map
\* pattern has no place to skip.
UnpackGlobal(s) ==
    LET parts == PatternParts(s.pat)
        one(i) == (IF i = Last(parts) THEN <<>> ELSE << Op1("DUP", 0) >>)
                  \o << Constant(PatternKey(s.pat, i)), Op("INDEX_GET") >>
                  \o (IF s.const THEN << OnName("constGlobal", PatternName(s.pat, i)) >> ELSE <<>>)
                  \o << Op1("DEFINE_GLOBAL", PatternName(s.pat, i)) >>
    IN << s.e >> \o IF parts = <<>> THEN << Op("POP") >>
                    ELSE FlattenSeq([j \in 1 .. Len(parts) |-> one(parts[j])])

UnpackLocal(s) == << s.e, Hidden("value") >> \o PatternBindings(Load("value"), s.pat, s.const)

BlockStatement(ss) == << BeginsScope >> \o ss \o << EndsScope >>

BugIfStatement(s) ==          \* the condition is left on the stack
    << s.c, Forward("JUMP_IF_FALSE", "else"), Op("POP"), s.y, Forward("JUMP", "end"), Place("else") >>
    \o (IF s.n = Nothing THEN <<>> ELSE << s.n >>) \o << Place("end") >>

IfStatement(s) ==
    << s.c, Forward("JUMP_IF_FALSE", "else"), Op("POP"), s.y, Forward("JUMP", "end"),
       Place("else"), Op("POP") >>
    \o (IF s.n = Nothing THEN <<>> ELSE << s.n >>) \o << Place("end") >>

\* `continue` jumps back to the label, or without one ("") is patched later.
EnterLoop(label) == [k |-> "enterLoop", label |-> label]

WhileStatement(s) ==
    << Mark("start"), s.c, Forward("JUMP_IF_FALSE", "exit"), Op("POP"), EnterLoop("start"), s.b,
       LoopTo("start"), Place("exit"), Op("POP"), Act("leaveLoop") >>

ForInitializer(i) ==
    CASE i.k = "nothing" -> <<>>
      [] i.k = "expression" -> << i.e, Op("POP") >>
      [] i.k = "var" -> VarDeclaration(i)
      [] i.k = "unpack" -> UnpackLocal(i)

\* The increment stands before the body: the body loops back to it, and it to
\* the condition.
ForStatement(s) ==
    LET again == IF s.n = Nothing THEN "start" ELSE "increment" IN
    << BeginsScope >> \o ForInitializer(s.i) \o << Mark("start") >>
    \o (IF s.c = Nothing THEN <<>> ELSE << s.c, Forward("JUMP_IF_FALSE", "exit"), Op("POP") >>)
    \o (IF s.n = Nothing THEN <<>>
        ELSE << Forward("JUMP", "body"), Mark("increment"), s.n, Op("POP"), LoopTo("start"),
                Place("body") >>)
    \o << EnterLoop(again), s.b, LoopTo(again) >>
    \o (IF s.c = Nothing THEN <<>> ELSE << Place("exit"), Op("POP") >>)
    \o << Act("leaveLoop"), EndsScope >>

ForEachTarget(pat) ==
    << BeginsScope >> \o IF pat.how = "name" THEN << OnName("new", pat.x) >>
                         ELSE << Hidden("value") >> \o PatternBindings(Load("value"), pat, FALSE)

ForEachStatement(s) ==
    << BeginsScope, s.e, Op2("INVOKE", "__iter__", 0), Hidden("iterator"), Mark("start"),
       Forward("TRY", "stopped"), Load("iterator"), Op("ITERATE"), Op("END_TRY"),
       Forward("JUMP", "body"), Place("stopped"), Op("POP"), Forward("JUMP", "exit"),
       Place("body"), EnterLoop("") >>
    \o ForEachTarget(s.pat)
    \o << s.b, EndsScope, Act("continuesHere"), LoopTo("start"), Place("exit"), Act("leaveLoop"),
          EndsScope >>

SwitchStatement(s) ==
    LET case(k) == << Load("value"), k[1], Op("EQUAL"), Forward("JUMP_IF_FALSE", "next"), Op("POP"),
                      k[2], Forward("JUMP", "end"), Place("next"), Op("POP") >>
    IN << BeginsScope, s.e, Hidden("value") >>
       \o FlattenSeq([i \in 1 .. Len(s.cases) |-> case(s.cases[i])])
       \o (IF s.d = Nothing THEN <<>> ELSE << s.d >>) \o << Place("end"), EndsScope >>

(***************************************************************************)
(* Match.  The tests of an arm skip to the next one, with FALSE on top of  *)
(* the stack.                                                              *)
(***************************************************************************)
SkipIfFalse == << Forward("JUMP_IF_FALSE", "skip"), Op("POP") >>

TypeTest(type) ==
    << Load("value"), Op("TYPEOF"), Constant(Text(type)), Op("EQUAL") >> \o SkipIfFalse

BindAll(pat) ==
    LET parts == PatternParts(pat)
        one(i) == << Load("value"), Constant(PatternKey(pat, i)), Op("INDEX_GET"),
                     OnName("new", PatternName(pat, i)) >>
    IN << BeginsScope >> \o FlattenSeq([j \in 1 .. Len(parts) |-> one(parts[j])])

MatchPattern(pat) ==
    LET hasKey(kx) == << Load("value"), Constant(Text(kx[1])), Op2("INVOKE", "containsKey", 1) >>
                      \o SkipIfFalse
    IN CASE pat.how = "wild" -> <<>>
         [] pat.how = "literal" -> << Load("value"), pat.e, Op("EQUAL") >> \o SkipIfFalse
         [] pat.how = "type" ->
              << Load("value"), Get(pat.c), Op("CHECK_TYPE") >> \o SkipIfFalse
              \o << BeginsScope, Load("value"), OnName("new", pat.x) >>
         [] pat.how = "array" ->
              TypeTest("array")
              \o << Load("value"), Op1("GET_PROPERTY", "length"), Constant(Int64(Len(pat.xs))),
                    Op("EQUAL") >>
              \o SkipIfFalse \o BindAll(pat)
         [] pat.how = "map" ->
              TypeTest("map") \o FlattenSeq([i \in 1 .. Len(pat.kxs) |-> hasKey(pat.kxs[i])])
              \o BindAll(pat)

Binds(pat) == pat.how \in {"array", "map", "type"}
BoundBy(pat) == IF pat.how = "type" THEN 1 ELSE Len(PatternParts(pat))

\* When the guard fails the bound variables are popped, whether or not a
\* closure captured them, and FALSE is pushed for the POP all skips share.
GuardFails(pat) ==
    << Place("unguarded") >> \o [i \in 1 .. BoundBy(pat) + 1 |-> Op("POP")]
    \o << Op("FALSE"), Forward("JUMP_IF_FALSE", "skip") >>

MatchArm(arms, i, isExpr) ==
    LET pat == arms[i].pat
        guarded == arms[i].guard # Nothing
    IN << FailIf(\E j \in 1 .. i - 1 : arms[j].pat.how = "wild" /\ arms[j].guard = Nothing) >>
       \o MatchPattern(pat)
       \o (IF ~guarded THEN <<>>
           ELSE << arms[i].guard, Forward("JUMP_IF_FALSE", IF Binds(pat) THEN "unguarded" ELSE "skip"),
                   Op("POP") >>)
       \o << arms[i].body >>
       \o (IF ~Binds(pat) THEN <<>>
           ELSE << IF isExpr THEN Act("endScopeKeepingTop") ELSE EndsScope >>)
       \o << Forward("JUMP", "end") >>
       \o (IF guarded /\ Binds(pat) THEN GuardFails(pat) ELSE <<>>)
       \o (IF pat.how = "wild" /\ ~guarded THEN <<>> ELSE << Place("skip"), Op("POP") >>)

MatchArms(e, arms, isExpr) ==
    << BeginsScope, e, Hidden("value") >>
    \o FlattenSeq([i \in 1 .. Len(arms) |-> MatchArm(arms, i, isExpr)])

MatchStatement(s) == MatchArms(s.e, s.arms, FALSE) \o << Place("end"), EndsScope >>

MatchExpression(e) ==
    MatchArms(e.e, e.arms, TRUE)
    \o << Op("MATCH_FAIL"), Place("end"), Act("endScopeKeepingTop") >>

(***************************************************************************)
(* Leaving a function or a loop; exceptions.                               *)
(***************************************************************************)
BugReturnStatement(c, s) ==   \* the try statements around it are forgotten
    IF s.e = Nothing THEN << Act("emptyReturn") >>
                     ELSE << Act("forgetCall"), s.e, Act("returnValue") >>

\* In a try statement the value goes through the finally section.
ReturnStatement(c, s) ==
    LET inTry == Current(c).finallies # <<>>
        through == << Op1("ENTER_FINALLY", "RETURN"), Act("jumpToFinally") >>
    IN << FailIf(\/ Current(c).type = "script"
                 \/ s.e # Nothing /\ Current(c).type = "initializer") >>
       \o CASE s.e = Nothing /\ inTry -> << Op("NIL") >> \o through
            [] s.e = Nothing /\ ~inTry -> << Act("emptyReturn") >>
            [] s.e # Nothing /\ inTry -> << Act("forgetCall"), s.e >> \o through
            [] OTHER -> << Act("forgetCall"), s.e, Act("returnValue") >>

\* One clause of catch.  A clause without parentheses has no scope of its own.
CatchClause(k) ==
    LET test(x) == << Load("thrown"), Get(x), Op("CHECK_TYPE"), Op("NOT"),
                      Forward("JUMP_IF_FALSE", "found"), Op("POP") >>
        bound == << BeginsScope, Load("thrown"), OnName("new", k.x) >> \o k.b \o << EndsScope >>
    IN CASE k.how = "bare" -> k.b \o << Forward("JUMP", "handled") >>
         [] k.how = "any" -> bound \o << Forward("JUMP", "handled") >>
         [] k.how = "typed" ->
              FlattenSeq([i \in 1 .. Len(k.cs) |-> test(k.cs[i])])
              \o << Forward("JUMP", "next"), Place("found"), Op("POP") >> \o bound
              \o << Forward("JUMP", "handled"), Place("next") >>

Catches(clauses) ==
    << Place("catch"), BeginsScope, Hidden("thrown") >>
    \o FlattenSeq([i \in 1 .. Len(clauses) |-> CatchClause(clauses[i])])
    \o << Load("thrown"), Op("THROW"), Place("handled"), EndsScope >>

\* s.f is the block of `finally`, or Nothing; a statement without one has an
\* empty finally section.  Without a catch clause no handler is needed.
TryStatement(s) ==
    LET catches == s.catches # <<>> IN
    << FailIf(~catches /\ s.f = Nothing), Forward("SETUP_FINALLY", "section"),
       IF catches THEN Forward("TRY", "catch") ELSE Op("NOP"), Act("enterTry") >>
    \o BlockStatement(s.b)
    \o << IF catches THEN Op("END_TRY") ELSE Op("NOP"), Forward("JUMP", "normal") >>
    \o (IF catches THEN Catches(s.catches) ELSE <<>>)
    \o << Place("normal"), Op1("ENTER_FINALLY", "NORMAL"), Act("returnsHere"), Place("section"),
          Act("enterSection") >>
    \o (IF s.f = Nothing THEN <<>> ELSE BlockStatement(s.f.ss))
    \o << Op("END_FINALLY"), Act("leaveTry") >>

(***************************************************************************)
(* Imports, and the dispatch of expressions and statements.                *)
(***************************************************************************)
ImportDeclaration(c, s) ==
    LET defined(x) == << OnName("constGlobal", x), Op1("DEFINE_GLOBAL", x) >>
        one(i) == (IF i = Len(s.xs) THEN <<>> ELSE << Op1("DUP", 0) >>)
                  \o << Op1("GET_PROPERTY", s.xs[i]) >> \o defined(s.xs[i])
    IN << FailIf(~AtGlobalScope(c)), Op1("IMPORT", s.m) >>
       \o IF s.k = "import" THEN defined(s.x)
          ELSE FlattenSeq([i \in 1 .. Len(s.xs) |-> one(i)])

Expression(c, e) ==
    CASE e.k = "set" -> AssignCode(e)
      [] e.k = "update" -> UpdateCode(e)
      [] e.k = "unary" -> UnaryCode(e)
      [] e.k = "binary" -> BinaryCode(e)
      [] e.k = "and" -> AndCode(e)
      [] e.k = "or" -> OrCode(e)
      [] e.k = "ternary" -> TernaryCode(e)
      [] e.k = "interpolation" -> InterpolationCode(e)
      [] e.k = "call" -> CallCode(e)
      [] e.k = "invoke" -> InvokeCode(e)
      [] e.k \in {"prop", "setProp", "updateProp"} -> PropertyCode(e)
      [] e.k \in {"index", "setIndex", "updateIndex"} -> SubscriptCode(e)
      [] e.k = "this" -> ThisCode(c)
      [] e.k \in {"super", "superInvoke"} -> SuperCode(c, e)
      [] e.k = "array" -> ArrayCode(e)
      [] e.k = "map" -> MapCode(e)
      [] e.k = "arrow" -> Function("arrow", e.ps, e.body)
      [] e.k = "arrowExpr" -> ArrowExprCode(e)
      [] e.k = "matchExpr" -> MatchExpression(e)

Statement(c, s) ==
    CASE s.k = "print" -> << s.e, Op("PRINT") >>
      [] s.k = "expression" -> << s.e, Op("POP") >>
      [] s.k = "var" -> VarDeclaration(s)
      [] s.k = "const" -> ConstDeclaration(c, s)
      [] s.k = "unpack" -> IF AtGlobalScope(c) THEN UnpackGlobal(s) ELSE UnpackLocal(s)
      [] s.k = "block" -> BlockStatement(s.ss)
      [] s.k = "if" -> IfStatement(s)
      [] s.k = "while" -> WhileStatement(s)
      [] s.k = "for" -> ForStatement(s)
      [] s.k = "forEach" -> ForEachStatement(s)
      [] s.k = "switch" -> SwitchStatement(s)
      [] s.k = "match" -> MatchStatement(s)
      [] s.k = "return" -> ReturnStatement(c, s)
      [] s.k = "break" -> << Act("break") >>
      [] s.k = "continue" -> << Act("continue") >>
      [] s.k = "throw" -> << s.e, Op("THROW") >>
      [] s.k = "try" -> TryStatement(s)
      [] s.k = "fun" -> FunDeclaration(s)
      [] s.k = "class" -> ClassDeclaration(s)
      [] s.k \in {"import", "importFrom"} -> ImportDeclaration(c, s)

ExpressionKinds == {"set", "update", "unary", "binary", "and", "or", "ternary", "interpolation",
                    "call", "invoke", "prop", "setProp", "updateProp", "index", "setIndex",
                    "updateIndex", "this", "super", "superInvoke", "array", "map", "arrow",
                    "arrowExpr", "matchExpr"}
StatementKinds == {"print", "expression", "var", "const", "unpack", "block", "if", "while", "for",
                   "forEach", "switch", "match", "return", "break", "continue", "throw", "try",
                   "fun", "class", "import", "importFrom"}

(***************************************************************************)
(* What each piece does to the compiler.                                   *)
(***************************************************************************)
(* What a parse function keeps. *)
Noted(c, label, v) == [c EXCEPT !.kept[Len(c.kept)].marks = (label :> v) @@ @]
Kept(c, label) == Last(c.kept).marks[label]
HiddenNoted(c, label) == Noted(c, label, Top(c))
ResolvedTo(v) == Noted(ErrorIf(v.const, v.c), "variable", v)

\* A jump to be patched; OP_DEFAULT_ARG also holds the slot it asks.
Jump(c, op) == Emit3(c, op, 0, IF op = "DEFAULT_ARG" THEN Top(c) ELSE 0)
JumpNoted(c, label) ==
    [c EXCEPT !.kept[Len(c.kept)].jumps = @ \cup {[label |-> label, at |-> Here(c)]}]
Landed(c, label) ==
    [PatchAll(c, {j.at : j \in {i \in Last(c.kept).jumps : i.label = label}})
        EXCEPT !.kept[Len(c.kept)].jumps = {j \in @ : j.label # label}]

(* Functions and classes. *)
WithParameters(f, ps) ==
    LET rest == HowMany(ps, "rest") > 0
        firstDefault == SelectInSeq(ps, LAMBDA p : p.how = "optional")
    IN [f EXCEPT !.depth = 1, !.arity = Len(ps), !.rest = rest,
                 !.params = [i \in 1 .. Len(ps) |-> IF IsPattern(ps[i]) THEN "" ELSE ps[i].x],
                 !.minArity = CASE firstDefault # 0 -> firstDefault - 1
                                [] firstDefault = 0 /\ rest -> Len(ps) - 1
                                [] OTHER -> Len(ps)]
BeginFunction(c, type, ps) ==
    [c EXCEPT !.fns = Append(@, WithParameters(NewFunction(type), ps))]

EndCompiler(c) == [c EXCEPT !.fns = Front(@), !.funs = Append(@, Current(c)), !.call = 0]
Closure(c, upvalues) == Emit3(c, "CLOSURE", Len(c.funs), upvalues)
EndFunction(c) == Closure(EndCompiler(c), Current(c).upvalues)

(* Calls and returns: a plain call that is the last instruction of a       *)
(* returned value becomes a tail call.                                     *)
TailCallLast(c) ==
    IF c.call # 0 /\ c.call = Here(c) /\ Last(Current(c).code).op = "CALL"
    THEN [c EXCEPT !.fns[Len(c.fns)].code[Here(c)].op = "TAIL_CALL"] ELSE c

JumpToFinally(c) ==
    [c EXCEPT !.fns[Len(c.fns)].finallies[Len(Current(c).finallies)] = @ \cup {Here(c)}]

(* Loops and try statements. *)
Loop(c) == Last(Current(c).loops)
NewLoop(c, target) ==
    [c EXCEPT !.fns[Len(c.fns)].loops =
        Append(@, [depth |-> Current(c).depth, target |-> target,
                   breaks |-> {}, continues |-> {}])]
LeaveLoop(c) == [PatchAll(c, Loop(c).breaks) EXCEPT !.fns[Len(c.fns)].loops = Front(@)]

BreakStatement(c) ==
    LET jump == Jump(LeaveTo(c, Loop(c).depth), "JUMP") IN
    IF Current(c).loops = <<>> THEN Error(c)
    ELSE [jump EXCEPT !.fns[Len(c.fns)].loops[Len(Current(c).loops)].breaks = @ \cup {Here(jump)}]

BugContinueStatement(c) ==    \* the jump counted from its own start
    LET left == LeaveTo(c, Loop(c).depth) IN
    IF Current(c).loops = <<>> THEN Error(c) ELSE Emit2(left, "LOOP", Here(left) + 1)

ContinueLater(c) ==
    [c EXCEPT !.fns[Len(c.fns)].loops[Len(Current(c).loops)].continues = @ \cup {Here(c)}]

ContinueStatement(c) ==
    CASE Current(c).loops = <<>> -> Error(c)
      [] Current(c).loops # <<>> /\ Loop(c).target # 0 ->
           Emit2(LeaveTo(c, Loop(c).depth), "LOOP", Loop(c).target)
      [] OTHER -> ContinueLater(Jump(LeaveTo(c, Loop(c).depth), "JUMP"))

EnterTry(c) == [c EXCEPT !.fns[Len(c.fns)].finallies = Append(@, {})]
EnterSection(c) == [c EXCEPT !.fns[Len(c.fns)].sections = Append(@, LocalCount(c))]
LeaveTry(c) == [c EXCEPT !.fns[Len(c.fns)].finallies = Front(@),
                         !.fns[Len(c.fns)].sections = Front(@)]

Acted(c, act) ==
    CASE act = "beginScope" -> BeginScope(c)
      [] act = "endScope" -> EndScope(c)
      [] act = "endScopeKeepingTop" -> EndScopeKeepingTop(c)
      [] act = "markConst" -> MarkConst(c)
      [] act = "noteCall" -> [c EXCEPT !.call = Here(c)]
      [] act = "forgetCall" -> [c EXCEPT !.call = 0]
      [] act = "emptyReturn" -> EmitReturn(c)
      [] act = "returnValue" -> Emit(TailCallLast(c), "RETURN")
      [] act = "jumpToFinally" -> JumpToFinally(Jump(c, "JUMP"))
      [] act = "endFunction" -> EndFunction(EmitReturn(c))
      [] act = "enterClass" -> [c EXCEPT !.supers = Append(@, FALSE)]
      [] act = "noteSuper" -> [c EXCEPT !.supers[Len(c.supers)] = TRUE]
      [] act = "leaveClass" -> [c EXCEPT !.supers = Front(@)]
      [] act = "continuesHere" -> PatchAll(c, Loop(c).continues)
      [] act = "leaveLoop" -> LeaveLoop(c)
      [] act = "enterTry" -> EnterTry(c)
      [] act = "returnsHere" -> PatchAll(c, Last(Current(c).finallies))
      [] act = "enterSection" -> EnterSection(c)
      [] act = "leaveTry" -> LeaveTry(c)
      [] act = "break" -> BreakStatement(c)
      [] act = "continue" -> ContinueStatement(c)

ActedOn(c, act, x) ==
    CASE act = "declare" -> DeclareVariable(c, x)
      [] act = "define" -> DefineVariable(c, x)
      [] act = "declareInitialized" -> MarkInitialized(DeclareVariable(c, x))
      [] act = "new" -> NewLocal(c, x)
      [] act = "constGlobal" -> [c EXCEPT !.consts = @ \cup {x}]

AfterPiece(c, p) ==
    CASE p.k = "emit" -> Emit3(c, p.op, p.a, p.b)
      [] p.k = "literal" -> EmitConstant(c, p.v)
      [] p.k = "get" -> ReadVariable(c, p.x)
      [] p.k = "act" -> Acted(c, p.act)
      [] p.k = "name" -> ActedOn(c, p.act, p.x)
      [] p.k = "failIf" -> ErrorIf(p.bad, c)
      [] p.k = "jump" -> JumpNoted(Jump(c, p.op), p.label)
      [] p.k = "place" -> Landed(c, p.label)
      [] p.k = "mark" -> Noted(c, p.label, Here(c) + 1)
      [] p.k = "loop" -> Emit2(c, "LOOP", Kept(c, p.label))
      [] p.k = "hidden" -> HiddenNoted(HiddenLocal(c), p.label)
      [] p.k = "load" -> Emit2(c, "GET_LOCAL", Kept(c, p.label))
      [] p.k = "resolve" -> ResolvedTo(Lookup(c, p.x))
      [] p.k = "readIt" -> Emit2(c, Kept(c, "variable").get, Kept(c, "variable").a)
      [] p.k = "storeIt" -> Emit2(c, Kept(c, "variable").set, Kept(c, "variable").a)
      [] p.k = "enterLoop" -> NewLoop(c, IF p.label = "" THEN 0 ELSE Kept(c, p.label))
      [] p.k = "function" -> BeginFunction(c, p.type, p.ps)

StartOfStatement(c) ==
    [c EXCEPT !.fns[Len(c.fns)].statements =
        @ \cup {[at |-> Here(c) + 1, locals |-> LocalCount(c), sections |-> Current(c).sections]}]

EnterTree(c) == [c EXCEPT !.kept = Append(@, [marks |-> <<>>, jumps |-> {}])]
LeaveTree(c) == [c EXCEPT !.kept = Front(@)]

\* Nothing is kept of a unit in error, so what follows an error is left out.
RECURSIVE Compiled(_, _)
Compiled(c, ps) ==
    IF ps = <<>> \/ c.error THEN c
    ELSE LET p == Head(ps) IN
         Compiled(CASE p.k \in StatementKinds ->
                         LeaveTree(Compiled(EnterTree(StartOfStatement(c)), Statement(c, p)))
                    [] p.k \in ExpressionKinds ->
                         LeaveTree(Compiled(EnterTree(c), Expression(c, p)))
                    [] OTHER -> AfterPiece(c, p),
                  Tail(ps))

\* A script or module: its functions, the last of them the unit itself, and
\* whether the compiler reported an error.
UnitOf(c) == [funs |-> EndCompiler(c).funs, error |-> c.error]
Compile(ss) == UnitOf(EmitReturn(Compiled(NewCompiler, ss)))
=============================================================================
