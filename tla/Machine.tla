------------------------------ MODULE Machine -------------------------------
(***************************************************************************)
(* vm.c: the virtual machine that runs what Compiler emits.  A program is  *)
(* a record of its units (the text of a script, of a line typed at the     *)
(* prompt or of a module file, by name) and of the units interpret() is    *)
(* given one after the other.  The variable vm is the C structure of that  *)
(* name:                                                                   *)
(*   frames    every call frame ever written; depth is frameCount; a frame *)
(*             is the closure, ip, and base, the index in stack of slot 0  *)
(*   stack, top, upvalues, open   the values, as module Stack says; a slot *)
(*             above top keeps its old value until a push overwrites it    *)
(*   handlers  exceptionHandlers; frames is the frameCount at OP_TRY       *)
(*   runs      the activations of run(), with baseFrame and what the C     *)
(*             caller does with the result                                 *)
(*   pending   an exception a __toString__ did not catch, pendingUnwind    *)
(*   cache     importCache: a module, or Bool(TRUE) while it is loading    *)
(*   heap      all objects; globals the global table of each module        *)
(*   units     what compile() made of the units read so far                *)
(*   out       lines printed, in pieces where a call interrupts one, and   *)
(*             "!..." for a line that failed                               *)
(***************************************************************************)
EXTENDS Compiler, Values, Stack

CONSTANTS Programs, FramesMax, HandlersMax

VARIABLE program
vars == <<program, vm>>

Texts == Programs[program].units
Main == "main"           \* the table of the globals outside every module

\* Classes the machine raises itself, at fixed places in the heap.
StopIteration == 1
ValueError == 2
TypeError == 3

NewVM ==
    [frames |-> <<>>, depth |-> 0, stack |-> <<>>, top |-> 0, upvalues |-> <<>>, open |-> <<>>,
     handlers |-> <<>>, runs |-> <<>>, cache |-> <<>>,
     heap |-> << ClassOf("StopIteration"), ClassOf("ValueError"), ClassOf("TypeError") >>,
     globals |-> (Main :> <<>>), units |-> <<>>, out |-> <<>>, status |-> "idle", line |-> 0,
     pending |-> <<>>]

Frame(m) == m.frames[m.depth]
Slot(m, i) == Frame(m).base + i
Object(m, v) == m.heap[v.o]
Upvalue(m, i) == Object(m, Frame(m).closure).upvalues[i + 1]

(***************************************************************************)
(* Entering a function, from an instruction or from C.                     *)
(***************************************************************************)
FunctionOf(m, closure) ==
    LET c == Object(m, closure) IN m.units[c.unit].funs[c.fn]

Enter(m, closure, argCount) ==
    IF m.depth = FramesMax THEN RuntimeError(m)
    ELSE LET frame == [closure |-> closure, ip |-> 1, base |-> m.top - argCount] IN
         [m EXCEPT !.depth = @ + 1,
                   !.frames = IF m.depth < Len(@) THEN [@ EXCEPT ![m.depth + 1] = frame]
                                                  ELSE Append(@, frame)]

CallClosure(m, closure, n) ==
    LET f == FunctionOf(m, closure)
        bound == BindCallArgs(m, f, n)
    IN IF bound.status # "run" THEN bound ELSE Enter(bound, closure, f.arity)

(***************************************************************************)
(* Text.  An instance is shown as its class's __toString__ says, which C   *)
(* runs in a run() of its own; without a text from it, as its class.       *)
(***************************************************************************)
\* A new run(), for what C does with its result (why).  One for a __toString__
\* also keeps what is shown if it gives no text, and what is still to be printed.
NewRun(m, why, text, todo) == [base |-> m.depth, why |-> why, text |-> text, todo |-> todo]

AsksInstance(m, v) ==
    /\ Is(m.heap, v, "instance")
    /\ LET methods == m.heap[Object(m, v).class].methods IN
       /\ "__toString__" \in DOMAIN methods
       /\ FunctionOf(m, methods["__toString__"]).arity = 0

AskInstance(m, v, why, todo) ==
    LET methods == m.heap[Object(m, v).class].methods
        calling == [Push(m, v) EXCEPT !.runs = Append(@, NewRun(m, why, Plain(m.heap, v), todo))]
    IN CallClosure(calling, methods["__toString__"], 0)

\* A piece of a line, ended by the end of the line or by a call.
Written(m, text) == IF text = "" THEN m ELSE [m EXCEPT !.out = Append(@, text)]

ElementsFrom(array, i) == [t |-> "elements", array |-> array, i |-> i]

\* printObject: what is still to be printed of a line that begins with text.  An
\* array's elements are counted anew after each.
RECURSIVE PrintRest(_, _, _)
PrintRest(m, text, todo) ==
    LET v == Head(todo)
        rest == Tail(todo)
        els == m.heap[v.array].els
    IN CASE todo = <<>> -> [m EXCEPT !.out = Append(@, text)]
         [] todo # <<>> /\ v.t = "elements" ->
              IF v.i > Len(els) THEN PrintRest(m, text \o "]", rest)
              ELSE PrintRest(m, text \o (IF v.i > 1 THEN " " ELSE ""),
                             << els[v.i], ElementsFrom(v.array, v.i + 1) >> \o rest)
         [] todo # <<>> /\ Is(m.heap, v, "array") ->
              PrintRest(m, text \o "[", << ElementsFrom(v.o, 1) >> \o rest)
         [] todo # <<>> /\ AsksInstance(m, v) -> AskInstance(Written(m, text), v, "PRINT", rest)
         [] OTHER -> PrintRest(m, text \o Plain(m.heap, v), rest)

Stringify(m, v) ==
    IF AsksInstance(m, v) THEN AskInstance(m, v, "STRINGIFY", <<>>)
                          ELSE Push(m, Text(InString(m.heap, v)))

\* What each caller of stringify does with the text.
AfterToString(m, run, text) ==
    CASE run.why = "PRINT" -> PrintRest(m, text, run.todo)
      [] run.why = "STRINGIFY" -> Push(m, Text(text))
      [] run.why = "REPORT" -> Fail(m, "!" \o text)

Shows == {"PRINT", "STRINGIFY", "REPORT"}

(***************************************************************************)
(* Exceptions.  A throw passes every run() that began above the frame of   *)
(* the newest handler: its C callers restore the stack and return.         *)
(***************************************************************************)
Land(m, v) ==
    LET h == Last(m.handlers)
        landed == [CloseUpvalues(m, h.top + 1) EXCEPT
                      !.handlers = Front(@), !.top = h.top,
                      !.runs = SelectSeq(@, LAMBDA r : r.base < h.frames), !.pending = <<>>,
                      !.depth = h.frames, !.frames[h.frames].ip = h.ip]
    IN PushAll(landed, IF h.type = "catch" THEN <<v>> ELSE << Text("EXCEPTION"), v >>)

\* callMagicUnary and stringify: a __toString__ that an exception leaves has given
\* no text, and the instruction goes on, with the exception still pending.
Swallow(m, i, v) ==
    LET run == m.runs[i]
        top == m.frames[run.base + 1].base - 1
        back == [CloseUpvalues(m, top + 1) EXCEPT
                    !.top = top, !.depth = run.base, !.runs = SubSeq(@, 1, i - 1),
                    !.pending = <<v>>]
    IN AfterToString(back, run, run.text)

\* A handler that its try left behind resumes a frame that has returned, as
\* its place in the array was last written.
Unwind(m, v) ==
    LET shows == {i \in DOMAIN m.runs : m.runs[i].base >= Last(m.handlers).frames
                                        /\ m.runs[i].why \in Shows}
    IN IF shows = {} THEN Land(m, v) ELSE Swallow(m, Max(shows), v)

ThrowException(m, v) ==
    CASE m.handlers # <<>> -> Unwind(m, v)
      [] m.handlers = <<>> /\ AsksInstance(m, v) -> AskInstance(m, v, "REPORT", <<>>)
      [] OTHER -> Fail(m, "!" \o InString(m.heap, v))

\* A dispatch that fails while an exception is pending throws that one; with no
\* handler left the code reads beside the array of handlers.
ThrowPending(m) ==
    IF m.handlers = <<>> THEN [m EXCEPT !.status = "wild"] ELSE Unwind(m, Head(m.pending))

RaiseError(m, class) ==
    ThrowException([m EXCEPT !.heap = Append(@, InstanceOf(class))], Ref(Len(m.heap) + 1))

Install(m, type, ip) ==
    IF Len(m.handlers) >= HandlersMax THEN RuntimeError(m)
    ELSE [m EXCEPT !.handlers = Append(@, [type |-> type, frames |-> m.depth,
                                           top |-> m.top, ip |-> ip])]

(***************************************************************************)
(* Calls.                                                                  *)
(***************************************************************************)
CallClass(m, class, n) ==
    LET new == [Poke(m, m.top - n, Ref(Len(m.heap) + 1))
                   EXCEPT !.heap = Append(@, InstanceOf(class.o))]
        methods == Object(m, class).methods
    IN CASE "init" \in DOMAIN methods -> CallClosure(new, methods["init"], n)
         [] "init" \notin DOMAIN methods /\ n = 0 -> new
         [] OTHER -> RuntimeError(m)

CallValue(m, n) ==
    LET callee == Peek(m, n) IN
    CASE Is(m.heap, callee, "bound") ->
           CallClosure(Poke(m, m.top - n, Object(m, callee).receiver),
                       Object(m, callee).method, n)
      [] Is(m.heap, callee, "class") -> CallClass(m, callee, n)
      [] Is(m.heap, callee, "closure") -> CallClosure(m, callee, n)
      [] OTHER -> RuntimeError(m)

\* The function of a callee that takes keywords; a function without one.
KeywordCallee(m, callee) ==
    LET methods == Object(m, callee).methods IN
    CASE Is(m.heap, callee, "closure") -> FunctionOf(m, callee)
      [] Is(m.heap, callee, "bound") -> FunctionOf(m, Object(m, callee).method)
      [] Is(m.heap, callee, "class") /\ "init" \in DOMAIN methods ->
           FunctionOf(m, methods["init"])
      [] OTHER -> [NewFunction("script") EXCEPT !.rest = TRUE]

ParameterIndex(f, x) == SelectInSeq(f.params, LAMBDA p : p = x)

\* One value for each parameter.  The pairs of names and values are read in
\* order: a name that is unknown or already has its value stops the call.
CallKeyword(m, posCount, namedCount) ==
    LET total == posCount + 2 * namedCount
        f == KeywordCallee(m, Peek(m, total))
        given == TopValues(m, total)
        names == [j \in 1 .. namedCount |-> given[posCount + 2 * j - 1].s]
        at(i) == SelectInSeq(names, LAMBDA x : ParameterIndex(f, x) = i)
        ordered == [i \in 1 .. f.arity |->
                       CASE i <= posCount -> given[i]
                         [] i > posCount /\ at(i) # 0 -> given[posCount + 2 * at(i)]
                         [] OTHER -> Missing]
        bad == \/ f.rest \/ posCount > f.arity
               \/ \E j \in 1 .. namedCount : \/ ParameterIndex(f, names[j]) \in {0} \cup 1 .. posCount
                                             \/ names[j] \in ToSet(SubSeq(names, 1, j - 1))
               \/ \E i \in 1 .. f.minArity : ordered[i] = Missing
    IN IF bad THEN RaiseError(m, TypeError)
       ELSE CallValue(PushAll(Drop(m, total), ordered), f.arity)

\* Methods the built-in classes have in C: the value they return.
HasNative(m, receiver, name, n) ==
    \/ n = 0 /\ name = "__iter__" /\ ~IsText(receiver)
    \/ n = 1 /\ name = "push" /\ Is(m.heap, receiver, "array")
    \/ n = 1 /\ name = "containsKey" /\ Is(m.heap, receiver, "map")

InvokeNative(m, receiver, name, n) ==
    CASE name = "__iter__" /\ Is(m.heap, receiver, "iterator") -> m
      [] name = "__iter__" /\ ~Is(m.heap, receiver, "iterator") ->
           PushNew(Drop(m, 1), IteratorOver(receiver))
      [] name = "push" ->
           Replace([m EXCEPT !.heap[receiver.o].els = Append(@, Peek(m, 0))], 2, Nil)
      [] name = "containsKey" ->
           Replace(m, 2, Bool(Peek(m, 0) \in DOMAIN Object(m, receiver).of))

InvokeFromClass(m, class, name, n) ==
    LET methods == m.heap[class].methods IN
    IF name \in DOMAIN methods THEN CallClosure(m, methods[name], n) ELSE RuntimeError(m)

InvokeMethod(m, name, n) ==
    LET receiver == Peek(m, n)
        members == m.globals[Object(m, receiver).path]
        instance == Object(m, receiver)
    IN CASE Is(m.heap, receiver, "module") ->
              IF name \in DOMAIN members THEN CallValue(Poke(m, m.top - n, members[name]), n)
                                         ELSE RuntimeError(m)
         [] Is(m.heap, receiver, "instance") ->
              IF name \in DOMAIN instance.fields
              THEN CallValue(Poke(m, m.top - n, instance.fields[name]), n)
              ELSE InvokeFromClass(m, instance.class, name, n)
         [] IsText(receiver) \/ \E type \in {"array", "map", "iterator"} : Is(m.heap, receiver, type) ->
              IF HasNative(m, receiver, name, n) THEN InvokeNative(m, receiver, name, n)
                                                 ELSE RuntimeError(m)
         [] OTHER -> RuntimeError(m)

\* bindMethod: replaces the receiver on top of the stack.
BindMethod(m, class, name) ==
    LET methods == m.heap[class].methods IN
    IF name \in DOMAIN methods THEN PushNew(Drop(m, 1), BoundTo(Peek(m, 0), methods[name]))
                               ELSE RuntimeError(m)

GetProperty(m, name) ==
    LET v == Peek(m, 0)
        o == Object(m, v)
    IN CASE Is(m.heap, v, "module") ->
              IF name \in DOMAIN m.globals[o.path] THEN Replace(m, 1, m.globals[o.path][name])
                                                   ELSE RuntimeError(m)
         [] IsText(v) /\ name = "length" -> Replace(m, 1, Int64(Len(v.s)))
         [] Is(m.heap, v, "array") /\ name = "length" -> Replace(m, 1, Int64(Len(o.els)))
         [] Is(m.heap, v, "map") /\ name = "size" -> Replace(m, 1, Int64(Cardinality(DOMAIN o.of)))
         [] Is(m.heap, v, "instance") ->
              IF name \in DOMAIN o.fields THEN Replace(m, 1, o.fields[name])
                                          ELSE BindMethod(m, o.class, name)
         [] OTHER -> RuntimeError(m)

\* An index is converted to an int before it is compared with the length.
InBounds(m, array, i) == IsInt(i) /\ ToInt(i.n) + 1 \in DOMAIN Object(m, array).els

IndexGet(m) ==
    LET i == Peek(m, 0)
        v == Peek(m, 1)
    IN CASE Is(m.heap, v, "array") /\ InBounds(m, v, i) ->
              Replace(m, 2, Object(m, v).els[ToInt(i.n) + 1])
         [] Is(m.heap, v, "map") /\ i \in DOMAIN Object(m, v).of ->
              Replace(m, 2, Object(m, v).of[i])
         [] OTHER -> RuntimeError(m)

IndexSet(m) ==
    LET v == Peek(m, 2)
        i == Peek(m, 1)
        new == Peek(m, 0)
    IN CASE Is(m.heap, v, "array") /\ InBounds(m, v, i) ->
              Replace([m EXCEPT !.heap[v.o].els[ToInt(i.n) + 1] = new], 3, new)
         [] Is(m.heap, v, "map") -> Replace([m EXCEPT !.heap[v.o].of = Put(@, i, new)], 3, new)
         [] OTHER -> RuntimeError(m)

(***************************************************************************)
(* Nested runs: a magic method or the unit of an import runs in a run() of *)
(* its own, inside the C function that started it.                         *)
(***************************************************************************)
Nested(m, entered, why) ==
    IF entered.status # "run" THEN entered
    ELSE [entered EXCEPT !.runs = Append(@, NewRun(m, why, "", <<>>))]

MagicName == [ADD |-> "__add__", SUBTRACT |-> "__sub__", MULTIPLY |-> "__mul__",
              DIVIDE |-> "__div__", MODULO |-> "__mod__", NEGATE |-> "__neg__",
              EQUAL |-> "__eq__", LESS |-> "__cmp__", GREATER |-> "__cmp__"]

\* The last n values are popped, then pushed for the method: receiver first.
CallMagic(m, op, n) ==
    LET receiver == Peek(m, n - 1)
        methods == m.heap[Object(m, receiver).class].methods
    IN CASE Is(m.heap, receiver, "instance") /\ MagicName[op] \in DOMAIN methods ->
              Nested(m, CallClosure(m, methods[MagicName[op]], n - 1), op)
         [] m.pending # <<>> -> ThrowPending(Drop(m, n))
         [] op = "EQUAL" -> Replace(m, 2, Bool(FALSE))
         [] OTHER -> RuntimeError(m)

\* What the caller of callMagicBinary or callMagicUnary makes of the result.
AfterMagic(m, op) ==
    LET v == Peek(m, 0) IN
    CASE op = "EQUAL" -> Replace(m, 1, Bool(~Falsey(v)))
      [] op = "LESS" /\ IsInt(v) -> Replace(m, 1, Bool(v.n < 0))
      [] op = "GREATER" /\ IsInt(v) -> Replace(m, 1, Bool(v.n > 0))
      [] op \in {"LESS", "GREATER"} /\ ~IsInt(v) -> RuntimeError(m)
      [] OTHER -> m

\* The closure of the code of a unit, just compiled, is pushed.
PushUnit(m, name, unit, home) ==
    PushNew([m EXCEPT !.units = Put(@, name, unit)],
            [is |-> "closure", unit |-> name, fn |-> Len(unit.funs), home |-> home,
             upvalues |-> <<>>])

\* A module that is not in the cache is compiled and run, above its path and
\* the module object.
RunModule(m, path, unit) ==
    LET closure == PushUnit([m EXCEPT !.globals = Put(@, path, <<>>)], path, unit, path) IN
    IF unit.error THEN RuntimeError(m)
                  ELSE Nested(m, CallClosure(closure, Peek(closure, 0), 0), "import")

LoadModule(m, path) ==
    RunModule(PushNew(Push([m EXCEPT !.cache = Put(@, path, Bool(TRUE))], Text(path)),
                      ModuleOf(path)),
              path, Compile(Texts[path]))

BugExecuteImport(m, path) ==  \* the cache is not asked
    IF path \in DOMAIN Texts THEN LoadModule(m, path) ELSE RuntimeError(m)

ExecuteImport(m, path) ==
    CASE path \in DOMAIN m.cache /\ m.cache[path] # Bool(TRUE) -> Push(m, m.cache[path])
      [] path \notin DOMAIN m.cache /\ path \in DOMAIN Texts -> LoadModule(m, path)
      [] OTHER -> RuntimeError(m)

AfterImport(m) ==
    LET module == Peek(m, 1) IN
    Replace([m EXCEPT !.cache = Put(@, Object(m, module).path, module)], 3, module)

\* run() returns to the C code that called it; the result is on the stack.
EndRun(m) ==
    LET run == Last(m.runs)
        why == run.why
        ended == [m EXCEPT !.runs = Front(@)]
        result == Peek(m, 0)
    IN CASE why = "unit" -> [Drop(ended, 1) EXCEPT !.status = "idle"]
         [] why = "import" -> AfterImport(ended)
         [] why \in Shows ->
              AfterToString(Drop(ended, 1), run, IF IsText(result) THEN result.s ELSE run.text)
         [] OTHER -> AfterMagic(ended, why)

EndRunAt(m) == IF m.depth = Last(m.runs).base THEN EndRun(m) ELSE m

BugReturnFrom(m) ==           \* the upvalues of slot 0 are not closed
    LET base == Frame(m).base
        left == [CloseUpvalues(m, base + 1) EXCEPT !.depth = @ - 1, !.top = base - 1]
    IN EndRunAt(Push(left, Peek(m, 0)))

ReturnFrom(m) ==
    LET base == Frame(m).base
        left == [CloseUpvalues(m, base) EXCEPT !.depth = @ - 1, !.top = base - 1]
    IN EndRunAt(Push(left, Peek(m, 0)))

\* A return that waited for a finally section.  When it ends a run() the
\* stack is popped once and not reset to the frame's slots.
ReturnAfterFinally(m) ==
    LET left == [CloseUpvalues(Drop(m, 2), Frame(m).base) EXCEPT !.depth = @ - 1] IN
    IF left.depth = Last(m.runs).base THEN EndRun(Drop(left, 1))
    ELSE Push([left EXCEPT !.top = Frame(m).base - 1], Peek(m, 0))

(***************************************************************************)
(* The instructions: one action for each case of run().                    *)
(***************************************************************************)
Code == FunctionOf(vm, Frame(vm).closure).code
Instr == Code[Frame(vm).ip]
Fetched == [vm EXCEPT !.frames[vm.depth].ip = @ + 1]
JumpTo(m, target) == [m EXCEPT !.frames[m.depth].ip = target]

Running == vm.status = "run"
Globals == vm.globals[Object(vm, Frame(vm).closure).home]
Home == Object(vm, Frame(vm).closure).home

Step(ops, m) ==
    /\ Running
    /\ Instr.op \in ops
    /\ vm' = m
    /\ UNCHANGED program

OpConstant == Step({"CONSTANT"}, Push(Fetched, Instr.a))
OpNil == Step({"NIL"}, Push(Fetched, Nil))
OpFalse == Step({"FALSE"}, Push(Fetched, Bool(FALSE)))
OpPop == Step({"POP"}, Drop(Fetched, 1))
OpDup == Step({"DUP"}, Push(Fetched, Peek(vm, Instr.a)))
OpNop == Step({"NOP"}, Fetched)

OpGetLocal == Step({"GET_LOCAL"}, Push(Fetched, vm.stack[Slot(vm, Instr.a)]))
OpSetLocal == Step({"SET_LOCAL"}, Poke(Fetched, Slot(vm, Instr.a), Peek(vm, 0)))

OpGetGlobal ==
    Step({"GET_GLOBAL"}, IF Instr.a \in DOMAIN Globals THEN Push(Fetched, Globals[Instr.a])
                                                       ELSE RuntimeError(vm))
OpDefineGlobal ==
    Step({"DEFINE_GLOBAL"},
         [Drop(Fetched, 1) EXCEPT !.globals[Home] = Put(@, Instr.a, Peek(vm, 0))])
OpSetGlobal ==
    Step({"SET_GLOBAL"}, IF Instr.a \in DOMAIN Globals
                         THEN [Fetched EXCEPT !.globals[Home][Instr.a] = Peek(vm, 0)]
                         ELSE RuntimeError(vm))

OpGetUpvalue ==
    Step({"GET_UPVALUE"}, Push(Fetched, UpvalueValue(vm, Upvalue(vm, Instr.a))))
OpSetUpvalue ==
    Step({"SET_UPVALUE"}, SetUpvalue(Fetched, Upvalue(vm, Instr.a), Peek(vm, 0)))
OpCloseUpvalue == Step({"CLOSE_UPVALUE"}, Drop(CloseUpvalues(Fetched, vm.top), 1))

\* The upvalues of the new closure are captured one after the other.
CaptureAll(m, closure, list) ==
    LET one(acc, u) ==
            LET captured == Capture(acc, Slot(acc, u.index)) IN
            IF u.isLocal
            THEN [captured.m EXCEPT !.heap[closure.o].upvalues = Append(@, captured.u)]
            ELSE [acc EXCEPT !.heap[closure.o].upvalues = Append(@, Upvalue(acc, u.index))]
    IN FoldLeft(one, m, list)

OpClosure ==
    LET frame == Object(vm, Frame(vm).closure)
        pushed == PushNew(Fetched, [is |-> "closure", unit |-> frame.unit, fn |-> Instr.a,
                                    home |-> frame.home, upvalues |-> <<>>])
    IN Step({"CLOSURE"}, CaptureAll(pushed, Peek(pushed, 0), Instr.b))

OpGetProperty == Step({"GET_PROPERTY"}, GetProperty(Fetched, Instr.a))
OpSetProperty ==
    Step({"SET_PROPERTY"},
         IF Is(vm.heap, Peek(vm, 1), "instance")
         THEN Replace([Fetched EXCEPT !.heap[Peek(vm, 1).o].fields = Put(@, Instr.a, Peek(vm, 0))],
                      2, Peek(vm, 0))
         ELSE RuntimeError(vm))
OpGetSuper == Step({"GET_SUPER"}, BindMethod(Drop(Fetched, 1), Peek(vm, 0).o, Instr.a))

OpEqual ==
    Step({"EQUAL"}, IF Peek(vm, 0) = Peek(vm, 1) THEN Replace(Fetched, 2, Bool(TRUE))
                                                 ELSE CallMagic(Fetched, "EQUAL", 2))

Ints(n) == \A i \in 0 .. n - 1 : IsInt(Peek(vm, i))
Right == Peek(vm, 0).n
Left == Peek(vm, 1).n

OpCompare ==
    Step({"LESS", "GREATER"},
         IF Ints(2) THEN Replace(Fetched, 2, Bool(IF Instr.op = "LESS" THEN Left < Right
                                                                       ELSE Left > Right))
                    ELSE CallMagic(Fetched, Instr.op, 2))

ArithmeticOps == {"ADD", "SUBTRACT", "MULTIPLY", "DIVIDE", "MODULO"}
OpArithmetic ==
    Step(ArithmeticOps,
         CASE Instr.op = "ADD" /\ IsText(Peek(vm, 0)) /\ IsText(Peek(vm, 1)) ->
                Replace(Fetched, 2, Text(Peek(vm, 1).s \o Peek(vm, 0).s))
           [] Ints(2) -> IF ArithmeticFails(Instr.op, Left, Right) THEN RuntimeError(vm)
                         ELSE Replace(Fetched, 2, Int64(Exact(Instr.op, Left, Right)))
           [] OTHER -> CallMagic(Fetched, Instr.op, 2))

BitwiseOps == {"BITWISE_AND", "BITWISE_OR", "BITWISE_XOR", "LEFT_SHIFT", "RIGHT_SHIFT"}
OpBitwise ==
    Step(BitwiseOps, IF Ints(2) THEN Replace(Fetched, 2, Int64(OnBits(Instr.op, Left, Right)))
                                ELSE RuntimeError(vm))
OpBitwiseNot ==
    Step({"BITWISE_NOT"}, IF Ints(1) THEN Replace(Fetched, 1, Int64(-Right - 1))
                                     ELSE RuntimeError(vm))
OpNot == Step({"NOT"}, Replace(Fetched, 1, Bool(Falsey(Peek(vm, 0)))))
OpNegate ==
    Step({"NEGATE"}, CASE Ints(1) /\ Fits(-Right) -> Replace(Fetched, 1, Int64(-Right))
                       [] Ints(1) /\ ~Fits(-Right) -> RuntimeError(vm)
                       [] OTHER -> CallMagic(Fetched, "NEGATE", 1))
OpTypeof == Step({"TYPEOF"}, Replace(Fetched, 1, Text(TypeName(vm.heap, Peek(vm, 0)))))
OpStringify == Step({"STRINGIFY"}, Stringify(Drop(Fetched, 1), Peek(vm, 0)))
OpPrint == Step({"PRINT"}, PrintRest(Drop(Fetched, 1), "", << Peek(vm, 0) >>))

OpJump == Step({"JUMP", "LOOP"}, JumpTo(vm, Instr.a))
OpJumpIfFalse ==
    Step({"JUMP_IF_FALSE"}, IF Falsey(Peek(vm, 0)) THEN JumpTo(vm, Instr.a) ELSE Fetched)
OpDefaultArg ==
    Step({"DEFAULT_ARG"}, IF vm.stack[Slot(vm, Instr.b)] = Missing THEN Fetched
                                                                   ELSE JumpTo(vm, Instr.a))

OpCall == Step({"CALL"}, CallValue(Fetched, Instr.a))
OpCallKw == Step({"CALL_KW"}, CallKeyword(Fetched, Instr.a, Instr.b))

\* The arguments are bound on top of the stack, then callee and arguments
\* slide down over the frame, which goes on with the new closure.
TailCall(m, closure, n) ==
    LET f == FunctionOf(m, closure)
        bound == BindCallArgs(m, f, n)
        base == Frame(m).base
        closed == CloseUpvalues(bound, base)
        moved == PushAll([closed EXCEPT !.top = base - 1], TopValues(closed, f.arity + 1))
    IN IF bound.status # "run" THEN bound
       ELSE [moved EXCEPT !.frames[m.depth] = [closure |-> closure, ip |-> 1, base |-> base]]

OpTailCall ==
    LET callee == Peek(vm, Instr.a) IN
    Step({"TAIL_CALL"},
         CASE Is(vm.heap, callee, "closure") -> TailCall(Fetched, callee, Instr.a)
           [] Is(vm.heap, callee, "bound") ->
                TailCall(Poke(Fetched, vm.top - Instr.a, Object(vm, callee).receiver),
                         Object(vm, callee).method, Instr.a)
           [] OTHER -> CallValue(Fetched, Instr.a))

\* The array of arguments on top of the stack is replaced by its elements.
SpreadArguments(m) == Object(m, Peek(m, 0)).els
OpCallSpread ==
    Step({"CALL_SPREAD"}, CallValue(PushAll(Drop(Fetched, 1), SpreadArguments(vm)), Len(SpreadArguments(vm))))
OpInvokeSpread ==
    Step({"INVOKE_SPREAD"},
         InvokeMethod(PushAll(Drop(Fetched, 1), SpreadArguments(vm)), Instr.a, Len(SpreadArguments(vm))))
OpInvoke == Step({"INVOKE"}, InvokeMethod(Fetched, Instr.a, Instr.b))
OpSuperInvoke ==
    Step({"SUPER_INVOKE"}, InvokeFromClass(Drop(Fetched, 1), Peek(vm, 0).o, Instr.a, Instr.b))

OpCheckType ==
    Step({"CHECK_TYPE"},
         IF Is(vm.heap, Peek(vm, 0), "class")
         THEN Replace(Fetched, 2, Bool(Matches(vm.heap, Peek(vm, 1), Peek(vm, 0))))
         ELSE RuntimeError(vm))

\* An instance is asked for the next value; a failed dispatch ends the program.
OpIterate ==
    LET v == Peek(vm, 0)
        source == Object(vm, Object(vm, v).source).els
    IN Step({"ITERATE"},
            CASE Is(vm.heap, v, "instance") -> InvokeMethod(Fetched, "__next__", 0)
              [] Is(vm.heap, v, "iterator") ->
                   IF Object(vm, v).index \in DOMAIN source
                   THEN Replace([Fetched EXCEPT !.heap[v.o].index = @ + 1], 1,
                                source[Object(vm, v).index])
                   ELSE RaiseError(Drop(Fetched, 1), StopIteration)
              [] OTHER -> RuntimeError(vm))

\* Of two equal keys the later one is stored last.
OpBuildMap ==
    LET entries == TopValues(vm, 2 * Instr.a)
        store(acc, i) == Put(acc, entries[2 * i - 1], entries[2 * i])
    IN Step({"BUILD_MAP"},
            PushNew(Drop(Fetched, 2 * Instr.a),
                    MapWith(FoldLeft(store, <<>>, [i \in 1 .. Instr.a |-> i]))))
OpBuildArray ==
    Step({"BUILD_ARRAY"}, PushNew(Drop(Fetched, Instr.a), ArrayOf(TopValues(vm, Instr.a))))
OpArrayAppend ==
    Step({"ARRAY_APPEND"},
         [Drop(Fetched, 1) EXCEPT !.heap[Peek(vm, 1).o].els = Append(@, Peek(vm, 0))])
OpSpreadArray ==
    Step({"SPREAD_ARRAY"},
         IF Is(vm.heap, Peek(vm, 0), "array")
         THEN [Drop(Fetched, 1) EXCEPT !.heap[Peek(vm, 1).o].els = @ \o Object(vm, Peek(vm, 0)).els]
         ELSE RuntimeError(vm))
OpIndexGet == Step({"INDEX_GET"}, IndexGet(Fetched))
OpIndexSet == Step({"INDEX_SET"}, IndexSet(Fetched))
OpMatchFail == Step({"MATCH_FAIL"}, RaiseError(Fetched, ValueError))

OpClass == Step({"CLASS"}, PushNew(Fetched, ClassOf(Instr.a)))
OpInherit ==
    LET sub == Peek(vm, 0).o
        super == Peek(vm, 1)
    IN Step({"INHERIT"},
            IF Is(vm.heap, super, "class")
            THEN [Drop(Fetched, 1) EXCEPT !.heap[sub].super = super.o,
                                          !.heap[sub].methods = Object(vm, super).methods @@ @]
            ELSE RuntimeError(vm))
OpMethod ==
    Step({"METHOD"},
         [Drop(Fetched, 1) EXCEPT !.heap[Peek(vm, 1).o].methods = Put(@, Instr.a, Peek(vm, 0))])
OpImport == Step({"IMPORT"}, ExecuteImport(Fetched, Instr.a))

OpTry == Step({"TRY"}, Install(Fetched, "catch", Instr.a))
OpSetupFinally == Step({"SETUP_FINALLY"}, Install(Fetched, "finally", Instr.a))
OpEndTry == Step({"END_TRY"}, [Fetched EXCEPT !.handlers = Front(@)])
OpThrow == Step({"THROW"}, ThrowException(Drop(Fetched, 1), Peek(vm, 0)))

OpEnterFinally ==
    LET top == Last(vm.handlers).top
        popped == [Fetched EXCEPT !.handlers = Front(@)]
    IN Step({"ENTER_FINALLY"},
            IF Instr.a = "NORMAL" THEN PushAll(popped, << Text("NORMAL"), Nil >>)
            ELSE PushAll([CloseUpvalues(Drop(popped, 1), top + 1) EXCEPT !.top = top],
                         << Text("RETURN"), Peek(vm, 0) >>))
OpEndFinally ==
    LET payload == Peek(vm, 0)
        tag == Peek(vm, 1).s
    IN Step({"END_FINALLY"},
            CASE tag = "NORMAL" -> Drop(Fetched, 2)
              [] tag = "EXCEPTION" -> ThrowException(Drop(Fetched, 2), payload)
              [] tag = "RETURN" -> ReturnAfterFinally(Fetched))
OpReturn == Step({"RETURN"}, ReturnFrom(vm))

(***************************************************************************)
(* interpret(): called with one unit after the other by repl and runFile.  *)
(***************************************************************************)
Lines == Programs[program].lines

RunUnit(m, name, unit) ==
    LET pushed == PushUnit([m EXCEPT !.status = "run"], name, unit, Main)
        called == CallClosure(pushed, Peek(pushed, 0), 0)
    IN IF unit.error THEN [m EXCEPT !.out = Append(@, "!rejected")]
       ELSE [called EXCEPT !.runs = << NewRun(m, "unit", "", <<>>) >>]

Interpret ==
    /\ vm.status = "idle" /\ vm.line < Len(Lines)
    /\ LET name == Lines[vm.line + 1] IN
       vm' = RunUnit([vm EXCEPT !.line = @ + 1], name, Compile(Texts[name]))
    /\ UNCHANGED program

Quit ==
    /\ vm.status = "idle" /\ vm.line = Len(Lines)
    /\ vm' = [vm EXCEPT !.status = "done"]
    /\ UNCHANGED program

Finished == vm.status \in {"done", "wild"} /\ UNCHANGED vars

Init == program \in DOMAIN Programs /\ vm = NewVM

Moves == \/ OpConstant \/ OpNil \/ OpFalse \/ OpPop \/ OpDup \/ OpNop
         \/ OpGetLocal \/ OpSetLocal \/ OpGetGlobal \/ OpDefineGlobal \/ OpSetGlobal
         \/ OpGetUpvalue \/ OpSetUpvalue \/ OpCloseUpvalue \/ OpClosure
Operators == \/ OpGetProperty \/ OpSetProperty \/ OpGetSuper \/ OpEqual \/ OpCompare
             \/ OpArithmetic \/ OpBitwise \/ OpBitwiseNot \/ OpNot \/ OpNegate
             \/ OpTypeof \/ OpStringify \/ OpPrint \/ OpCheckType
Collections == \/ OpIterate \/ OpBuildMap \/ OpBuildArray \/ OpArrayAppend \/ OpSpreadArray
               \/ OpIndexGet \/ OpIndexSet \/ OpMatchFail
Control == \/ OpJump \/ OpJumpIfFalse \/ OpDefaultArg
           \/ OpCall \/ OpCallKw \/ OpTailCall \/ OpCallSpread \/ OpInvokeSpread
           \/ OpInvoke \/ OpSuperInvoke \/ OpReturn
           \/ OpTry \/ OpSetupFinally \/ OpEndTry \/ OpThrow \/ OpEnterFinally \/ OpEndFinally
Definitions == OpClass \/ OpInherit \/ OpMethod \/ OpImport

Execute == Moves \/ Operators \/ Collections \/ Control \/ Definitions

Next == Interpret \/ Execute \/ Quit \/ Finished

Spec == Init /\ [][Next]_vars /\ WF_vars(Interpret \/ Execute \/ Quit)
=============================================================================
