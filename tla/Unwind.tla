-------------------------------- MODULE Unwind --------------------------------
(***************************************************************************)
(* Control transfer in the efto virtual machine: call frames, re-entrant   *)
(* run() invocations, the stack of exception handlers and the completion   *)
(* protocol of try / catch / finally.                                      *)
(*                                                                         *)
(* The program is not a parameter.  It is chosen statement by statement:   *)
(* the frame on top remembers the constructs that enclose its current      *)
(* program point (`ctx`) and the number of locals the compiler has counted *)
(* there (`locals`), and every statement the compiler accepts at that      *)
(* point is a possible next action.  An action is what the compiler emits  *)
(* for the statement, executed by run().                                   *)
(*                                                                         *)
(* Values are abstracted away; the height of the value stack is not.  A    *)
(* state in which run() is about to execute a statement has no temporary   *)
(* on the stack.                                                           *)
(*                                                                         *)
(* A definition named Bug... is not part of the model: it is the next      *)
(* definition with a plausible mistake in it, kept to show which property  *)
(* notices.                                                                *)
(***************************************************************************)
EXTENDS Integers, Sequences, SequencesExt

CONSTANTS
    FRAMES_MAX,             \* vm.frames has this many entries
    STACK_MAX,              \* vm.stack has this many entries
    EXCEPTION_HANDLER_MAX,  \* vm.exceptionHandlers has this many entries
    MAX_LOCALS,             \* bound: locals in scope in one frame
    MAX_OPEN,               \* bound: constructs open in all frames together
    REPL,                   \* repl(), or runFile(), which exits after one program
    Calls,                  \* the callers of run() programs may use
    Forms                   \* the delicate statement forms programs may use

\* A native that takes a callback (vmCallValue), an operator with a method
\* (callMagicBinary, callMagicUnary), a type pattern with a validator
\* (valueMatchesTypeDescriptor), the text of an instance with a __toString__
\* (stringify, for OP_PRINT, OP_STRINGIFY and the natives that make text).
AllCalls == {"native", "magic", "check", "toString"}

\* The callers that take a failed run() for an answer, "no match" or no text, and
\* go on as if nothing were pending.
Swallows == {"check", "toString"}

\* Statement forms a run or a theorem wants to include or to exclude.
AllForms == { "catchReturn",     \* return from a try body that has a catch
              "nestedReturn",    \* return from a try inside an active try
              "finallyReturn",   \* return from a finally block
              "callbackReturn",  \* return from a try, in the base frame of run()
              "breakTry"         \* break or continue out of a try statement
            }

ASSUME ConstantsAssumption ==
    /\ FRAMES_MAX \in Nat \ {0}
    /\ STACK_MAX \in Nat
    /\ EXCEPTION_HANDLER_MAX \in Nat
    /\ MAX_LOCALS \in Nat
    /\ MAX_OPEN \in Nat
    /\ REPL \in BOOLEAN
    /\ Calls \subseteq AllCalls
    /\ Forms \subseteq AllForms

VARIABLES
    frames,         \* vm.frames[0 .. frameCount-1]
    stackTop,       \* vm.stackTop - vm.stack
    handlers,       \* vm.exceptionHandlers[0 .. exceptionHandlerCount-1]
    runs,           \* the run() invocations on the C stack, outermost first
    mode,           \* what the C code on top of that stack is doing
    pendingUnwind   \* vm.pendingUnwind

vars == <<frames, stackTop, handlers, runs, mode, pendingUnwind>>

-----------------------------------------------------------------------------
(* Frames, handlers and runs.                                              *)

\* A construct that encloses a program point.  `at` is the number of locals in
\* scope where it starts; a for-each counts its hidden iterator.
Construct ==
    { c \in [ kind  : {"try", "loop", "foreach"},
              catch : BOOLEAN,
              phase : {"body", "catch", "finally", "start", "next"},
              tag   : {"none", "normal", "exception", "return"},
              at    : Nat ] :
        /\ c.kind = "foreach" => c.at > 0
        /\ c.phase \in {"start", "next"} => c.kind = "foreach"
        /\ c.kind = "try" /\ c.phase = "body" => c.tag = "none" }

Frame == [ slots : Int, locals : Nat, ctx : Seq(Construct) ]

\* `site` is the code handlerIp points at; it finds the frame inside `ctx` with
\* `locals` locals in scope.
Handler == [ site       : {"catch", "finally", "exitLoop"},
             frameCount : Nat,
             stackTop   : Int,
             ctx        : Seq(Construct),
             locals     : Nat ]

\* An invocation of run(), by the function that called it.
Run == [ kind : {"interpret"} \cup AllCalls, base : Nat, savedTop : Int ]

Modes == {"idle", "exec", "unwind", "native", "error", "exited", "wild"}

AfterProgram == IF REPL THEN "idle" ELSE "exited"

TryAt(hasCatch, n) ==
    [kind |-> "try", catch |-> hasCatch, phase |-> "body", tag |-> "none", at |-> n]

LoopAt(n) ==
    [kind |-> "loop", catch |-> FALSE, phase |-> "body", tag |-> "none", at |-> n]

ForEachAt(n) ==
    [kind |-> "foreach", catch |-> FALSE, phase |-> "start", tag |-> "none", at |-> n]

InPhase(c, phase) == [c EXCEPT !.phase = phase]

BugCompletionLost(c, tag) == [c EXCEPT !.phase = "finally", !.tag = "normal"]

\* The completion a finally block will resume is pushed below its locals.
InFinally(c, tag) == [c EXCEPT !.phase = "finally", !.tag = tag]

IsTry(c) == c.kind = "try"

IsLoop(c) == c.kind \in {"loop", "foreach"}

\* Positions in a context.
TryPositions(ctx) == {i \in 1 .. Len(ctx) : IsTry(ctx[i])}

LoopPositions(ctx) == {i \in 1 .. Len(ctx) : IsLoop(ctx[i])}

Innermost(positions) == CHOOSE i \in positions : \A j \in positions : j <= i

Top == Last(frames)

Ctx == Top.ctx

Base == Last(runs).base

\* call(): a frame whose callee and n arguments start at the given height.
NewFrame(slots, n) == [slots |-> slots, locals |-> n + 1, ctx |-> <<>>]

WithTop(f) == Append(Front(frames), f)

\* The frame on top at another program point, with n locals.
TopAt(n, ctx) == WithTop([slots |-> Top.slots, locals |-> n, ctx |-> ctx])

BugInTryOnlyInnermost == Ctx # <<>> /\ IsTry(Last(Ctx))

\* currentFinally # NULL: the compiler is inside a try statement of this function.
InTry == TryPositions(Ctx) # {}

CanOpen == Len(FlattenSeq([i \in 1 .. Len(frames) |-> frames[i].ctx])) < MAX_OPEN

-----------------------------------------------------------------------------
(* OP_SETUP_FINALLY, OP_TRY.                                               *)

FinallyHandler(fc, top, outer, c) ==
    [ site |-> "finally", frameCount |-> fc, stackTop |-> top,
      ctx |-> Append(outer, InFinally(c, "exception")), locals |-> c.at ]

\* The catch block starts with the exception in a hidden local.
CatchHandler(fc, top, outer, c) ==
    [ site |-> "catch", frameCount |-> fc, stackTop |-> top,
      ctx |-> Append(outer, InPhase(c, "catch")), locals |-> c.at + 1 ]

\* The handler a for-each installs around __next__: it discards the exception
\* and leaves the loop, which drops the hidden iterator.
LoopHandler(fc, top, outer, c) ==
    [ site |-> "exitLoop", frameCount |-> fc, stackTop |-> top,
      ctx |-> outer, locals |-> c.at - 1 ]

BugCatchBelowFinally(fc, top, outer, c) ==
    IF c.catch
    THEN << CatchHandler(fc, top, outer, c), FinallyHandler(fc, top, outer, c) >>
    ELSE << FinallyHandler(fc, top, outer, c) >>

\* The handlers a try statement pushes: finally first, then catch.
TryHandlers(fc, top, outer, c) ==
    IF c.catch
    THEN << FinallyHandler(fc, top, outer, c), CatchHandler(fc, top, outer, c) >>
    ELSE << FinallyHandler(fc, top, outer, c) >>

BugLandingWithoutTag(h) == h.stackTop + (IF h.site = "exitLoop" THEN -1 ELSE 1)

\* stackTop after tryLandUnwind and the first instructions at the landing site.
LandingTop(h) ==
    h.stackTop + (IF h.site = "catch" THEN 1 ELSE IF h.site = "finally" THEN 2 ELSE -1)

-----------------------------------------------------------------------------
(* Steps shared by several actions.                                        *)

\* Undefined behaviour: an index of -1 into the handlers, a jump never patched,
\* the frame of a call that is over, a push below the stack.  Nothing the
\* process does afterwards is modelled.
GoWild ==
    /\ mode' = "wild"
    /\ frames' = <<>>
    /\ handlers' = <<>>
    /\ runs' = <<>>
    /\ stackTop' = 0
    /\ pendingUnwind' = FALSE

BugHandlersSurviveReset ==
    /\ frames' = <<>>
    /\ stackTop' = 0
    /\ pendingUnwind' = FALSE
    /\ UNCHANGED handlers

ResetStack ==
    /\ frames' = <<>>
    /\ stackTop' = 0
    /\ handlers' = <<>>
    /\ pendingUnwind' = FALSE

\* runtimeError(): the frames, the handlers and the value stack are gone at
\* once; the C callers in rs still have to return.
HardErrorUnder(rs) ==
    /\ ResetStack
    /\ runs' = rs
    /\ mode' = "error"

\* throwException().  No frame is touched yet.  What nothing catches is reported;
\* the __toString__ that may run for the report is left out: the stacks are reset
\* after it whatever it does.
Raise ==
    IF handlers = <<>>
    THEN HardErrorUnder(runs)
    ELSE /\ pendingUnwind' = TRUE
         /\ mode' = "unwind"
         /\ UNCHANGED <<frames, stackTop, handlers, runs>>

\* A call statement in frame fs[Len(fs)] has returned and its result is popped,
\* or, for the __next__ call of a for-each, bound to the loop variable after
\* OP_END_TRY.
ResumeCaller(fs, top) ==
    LET caller == Last(fs)
    IN  IF caller.ctx # <<>> /\ Last(caller.ctx).phase = "next"
        THEN /\ frames' = Append(Front(fs),
                     [ slots  |-> caller.slots,
                       locals |-> caller.locals + 1,
                       ctx    |-> Append(Front(caller.ctx), InPhase(Last(caller.ctx), "body")) ])
             /\ handlers' = Front(handlers)
             /\ stackTop' = top + 1
        ELSE /\ frames' = fs
             /\ stackTop' = top
             /\ UNCHANGED handlers

\* run() returns INTERPRET_OK and its caller pops the result; top is the height
\* that leaves.
ReturnFromRun(fs, top) ==
    /\ frames' = fs
    /\ stackTop' = top
    /\ UNCHANGED handlers
    /\ \/ Last(runs).kind = "interpret" /\ mode' = AfterProgram /\ runs' = Front(runs)
       \/ Last(runs).kind = "native" /\ mode' = "native" /\ UNCHANGED runs
       \/ /\ Last(runs).kind \in {"magic"} \cup Swallows
          /\ mode' = "exec"
          /\ runs' = Front(runs)

-----------------------------------------------------------------------------
(* interpret() and ordinary statements.                                    *)

Init ==
    /\ frames = <<>>
    /\ stackTop = 0
    /\ handlers = <<>>
    /\ runs = <<>>
    /\ mode = "idle"
    /\ pendingUnwind = FALSE

\* A REPL line, or the script: push the closure, call it, run(0).
Interpret ==
    /\ mode = "idle"
    /\ IF stackTop < 0
       THEN GoWild
       ELSE /\ frames' = << NewFrame(stackTop, 0) >>
            /\ stackTop' = stackTop + 1
            /\ runs' = << [kind |-> "interpret", base |-> 0, savedTop |-> stackTop] >>
            /\ mode' = "exec"
            /\ UNCHANGED <<handlers, pendingUnwind>>

\* run() is between two statements of the frame on top.
AtStatement ==
    /\ mode = "exec"
    /\ stackTop \in 0 .. STACK_MAX - 1
    /\ Ctx # <<>> => Last(Ctx).phase # "start"

\* A variable declaration, or the variable of a catch clause.
Declare ==
    /\ AtStatement
    /\ Top.locals < MAX_LOCALS
    /\ frames' = TopAt(Top.locals + 1, Ctx)
    /\ stackTop' = stackTop + 1
    /\ UNCHANGED <<handlers, runs, mode, pendingUnwind>>

\* push() on a full stack ends the process; every statement pushes.
StackOverflow ==
    /\ mode = "exec"
    /\ stackTop >= STACK_MAX
    /\ ResetStack
    /\ runs' = <<>>
    /\ mode' = "exited"

\* Only after an early return has taken too many cells with it.
StackUnderflow ==
    /\ mode = "exec"
    /\ stackTop < 0
    /\ GoWild

\* A statement that makes run() report an error no handler can catch.
HardError ==
    /\ AtStatement
    /\ HardErrorUnder(runs)

\* OP_THROW, the rethrow after the last catch clause, or a native that raises.
Throw ==
    /\ AtStatement
    /\ Raise

-----------------------------------------------------------------------------
(* Calls and returns inside one run().                                     *)

\* OP_CALL, OP_INVOKE, ... of a closure with n arguments.
Call(n) ==
    /\ AtStatement
    /\ IF Len(frames) = FRAMES_MAX
       THEN HardErrorUnder(runs)
       ELSE /\ frames' = Append(frames, NewFrame(stackTop, n))
            /\ stackTop' = stackTop + n + 1
            /\ UNCHANGED <<handlers, runs, mode, pendingUnwind>>

\* OP_TAIL_CALL: only emitted in a function and outside every try statement.
TailCall(n) ==
    /\ AtStatement
    /\ Len(frames) > 1
    /\ ~InTry
    /\ frames' = WithTop(NewFrame(Top.slots, n))
    /\ stackTop' = Top.slots + n + 1
    /\ UNCHANGED <<handlers, runs, mode, pendingUnwind>>

\* OP_RETURN: a return statement outside every try, or the end of the function
\* or of the script.
Return ==
    /\ AtStatement
    /\ ~InTry
    /\ Len(frames) = 1 => Ctx = <<>>
    /\ UNCHANGED pendingUnwind
    /\ IF Len(frames) - 1 = Base
       THEN ReturnFromRun(Front(frames), Top.slots)
       ELSE ResumeCaller(Front(frames), Top.slots) /\ UNCHANGED <<runs, mode>>

\* A return statement inside a try: OP_ENTER_FINALLY with COMPLETE_RETURN takes
\* the handler on top, whatever it is, and jumps to the innermost finally block.
\* In a finally block the jump was patched before it was emitted: it goes to
\* garbage.
ReturnInTry ==
    /\ AtStatement
    /\ Len(frames) > 1
    /\ InTry
    /\ LET j == Innermost(TryPositions(Ctx))
           h == Last(handlers)
       IN  IF Ctx[j].phase = "finally"
           THEN /\ "finallyReturn" \in Forms
                /\ GoWild
           ELSE /\ Ctx[j].phase = "body" /\ Ctx[j].catch => "catchReturn" \in Forms
                /\ (\E i \in TryPositions(Ctx) : i < j /\ Ctx[i].phase # "finally")
                      => "nestedReturn" \in Forms
                /\ Len(frames) - 1 = Base => "callbackReturn" \in Forms
                /\ IF handlers = <<>>
                   THEN GoWild
                   ELSE /\ handlers' = Front(handlers)
                        /\ stackTop' = h.stackTop + 2
                        /\ frames' = TopAt(Ctx[j].at,
                               Append(SubSeq(Ctx, 1, j - 1), InFinally(Ctx[j], "return")))
                        /\ UNCHANGED <<runs, mode, pendingUnwind>>

-----------------------------------------------------------------------------
(* try / catch / finally.                                                  *)

\* tryStatement() up to the body: OP_SETUP_FINALLY and, with a catch, OP_TRY.
EnterTry(hasCatch) ==
    LET c  == TryAt(hasCatch, Top.locals)
        hs == TryHandlers(Len(frames), stackTop, Ctx, c)
    IN  /\ AtStatement
        /\ CanOpen
        /\ IF Len(handlers) + Len(hs) > EXCEPTION_HANDLER_MAX
           THEN HardErrorUnder(runs)
           ELSE /\ handlers' = handlers \o hs
                /\ frames' = TopAt(Top.locals, Append(Ctx, c))
                /\ UNCHANGED <<stackTop, runs, mode, pendingUnwind>>

BugEndTryAfterCatch(c) == IF c.catch THEN 2 ELSE 1

\* Handlers popped on the way to the finally block: OP_END_TRY after a body with a
\* catch, then OP_ENTER_FINALLY.
HandlersDropped(c) == IF c.phase = "body" /\ c.catch THEN 2 ELSE 1

\* The end of the body or of a catch block: drop the block's locals and enter the
\* finally block with COMPLETE_NORMAL.
FallIntoFinally ==
    /\ AtStatement
    /\ Ctx # <<>>
    /\ LET c == Last(Ctx)
           k == HandlersDropped(c)
       IN  /\ IsTry(c)
           /\ c.phase \in {"body", "catch"}
           /\ IF Len(handlers) < k
              THEN GoWild
              ELSE /\ handlers' = SubSeq(handlers, 1, Len(handlers) - k)
                   /\ stackTop' = stackTop - (Top.locals - c.at) + 2
                   /\ frames' = TopAt(c.at, Append(Front(Ctx), InFinally(c, "normal")))
                   /\ UNCHANGED <<runs, mode, pendingUnwind>>

\* OP_END_FINALLY.  A pending return leaves the frame at once; in the base frame
\* of a run() it pops once more and returns without restoring stackTop, and the
\* C caller then pops what it takes for the result.
EndFinally ==
    /\ AtStatement
    /\ Ctx # <<>>
    /\ Last(Ctx).phase = "finally"
    /\ LET c   == Last(Ctx)
           top == stackTop - (Top.locals - c.at) - 2
       IN  \/ /\ c.tag = "normal"
              /\ stackTop' = top
              /\ frames' = TopAt(c.at, Front(Ctx))
              /\ UNCHANGED <<handlers, runs, mode, pendingUnwind>>
           \/ /\ c.tag = "exception"
              /\ Raise
           \/ /\ c.tag = "return"
              /\ UNCHANGED pendingUnwind
              /\ IF Len(frames) - 1 = Base
                 THEN ReturnFromRun(Front(frames), top - 2)
                 ELSE ResumeCaller(Front(frames), Top.slots) /\ UNCHANGED <<runs, mode>>

-----------------------------------------------------------------------------
(* Loops.                                                                  *)

\* while and for: one entry for the whole statement.  Ending an iteration has
\* the effect of Continue, a false condition that of Break.
EnterLoop ==
    /\ AtStatement
    /\ CanOpen
    /\ frames' = TopAt(Top.locals, Append(Ctx, LoopAt(Top.locals)))
    /\ UNCHANGED <<stackTop, handlers, runs, mode, pendingUnwind>>

EnterForEach ==
    /\ AtStatement
    /\ CanOpen
    /\ Top.locals < MAX_LOCALS
    /\ frames' = TopAt(Top.locals + 1, Append(Ctx, ForEachAt(Top.locals + 1)))
    /\ stackTop' = stackTop + 1
    /\ UNCHANGED <<handlers, runs, mode, pendingUnwind>>

BugEveryLoopDropsALocal(c) == c.at - 1

\* Locals left when the jump of a break has been taken: the iterator of a
\* for-each goes with the loop.
LocalsAfter(c) == IF c.kind = "foreach" THEN c.at - 1 ELSE c.at

\* break and continue pop the locals the compiler counts down to the loop and
\* jump; they touch no handler and enter no finally block.
LeaveInnerScopes(loop, n) ==
    /\ \A i \in TryPositions(Ctx) : i > loop => "breakTry" \in Forms
    /\ stackTop' = stackTop - (Top.locals - n)
    /\ UNCHANGED <<handlers, runs, mode, pendingUnwind>>

Break ==
    /\ AtStatement
    /\ LoopPositions(Ctx) # {}
    /\ LET l == Innermost(LoopPositions(Ctx))
           n == LocalsAfter(Ctx[l])
       IN  /\ LeaveInnerScopes(l, n)
           /\ frames' = TopAt(n, SubSeq(Ctx, 1, l - 1))

Continue ==
    /\ AtStatement
    /\ LoopPositions(Ctx) # {}
    /\ LET l == Innermost(LoopPositions(Ctx))
           c == IF Ctx[l].kind = "foreach" THEN InPhase(Ctx[l], "start") ELSE Ctx[l]
       IN  /\ LeaveInnerScopes(l, c.at)
           /\ frames' = TopAt(c.at, Append(SubSeq(Ctx, 1, l - 1), c))

AtLoopStart ==
    /\ mode = "exec"
    /\ stackTop \in 0 .. STACK_MAX - 1
    /\ Ctx # <<>>
    /\ Last(Ctx).phase = "start"

\* OP_TRY finds no room for the handler of a for-each.
ForEachNoRoom ==
    /\ AtLoopStart
    /\ Len(handlers) = EXCEPTION_HANDLER_MAX
    /\ HardErrorUnder(runs)

\* OP_TRY, OP_ITERATE on a built-in iterator with a value left, OP_END_TRY.
ForEachHit ==
    /\ AtLoopStart
    /\ Len(handlers) < EXCEPTION_HANDLER_MAX
    /\ frames' = TopAt(Top.locals + 1, Append(Front(Ctx), InPhase(Last(Ctx), "body")))
    /\ stackTop' = stackTop + 1
    /\ UNCHANGED <<handlers, runs, mode, pendingUnwind>>

\* OP_ITERATE on an exhausted built-in iterator: StopIteration is thrown and
\* lands on the handler OP_TRY has just pushed.
ForEachExhausted ==
    /\ AtLoopStart
    /\ Len(handlers) < EXCEPTION_HANDLER_MAX
    /\ frames' = TopAt(LocalsAfter(Last(Ctx)), Front(Ctx))
    /\ stackTop' = stackTop - 1
    /\ pendingUnwind' = FALSE
    /\ UNCHANGED <<handlers, runs, mode>>

\* OP_TRY and OP_ITERATE on an instance: __next__ is called in this run().
ForEachNextCall ==
    /\ AtLoopStart
    /\ Len(handlers) < EXCEPTION_HANDLER_MAX
    /\ IF Len(frames) = FRAMES_MAX
       THEN HardErrorUnder(runs)
       ELSE LET c == InPhase(Last(Ctx), "next")
                h == LoopHandler(Len(frames), stackTop, Front(Ctx), c)
            IN  /\ handlers' = Append(handlers, h)
                /\ frames' = Append(TopAt(Top.locals, Append(Front(Ctx), c)),
                                    NewFrame(stackTop, 0))
                /\ stackTop' = stackTop + 1
                /\ UNCHANGED <<runs, mode, pendingUnwind>>

-----------------------------------------------------------------------------
(* Unwinding: tryLandUnwind, postCallFailure, and the C callers of run().  *)

BugOwnedAtBase(h) == h.frameCount >= Base

BugNotOwnedJustAboveBase(h) == h.frameCount > Base + 1

\* The handler was installed above this run()'s base.
OwnedByThisRun(h) == h.frameCount > Base

Land ==
    /\ mode = "unwind"
    /\ LET h == Last(handlers)
       IN  /\ OwnedByThisRun(h)
           /\ IF h.frameCount > Len(frames)
              THEN GoWild
              ELSE /\ handlers' = Front(handlers)
                   /\ frames' = Append(SubSeq(frames, 1, h.frameCount - 1),
                                  [ slots  |-> frames[h.frameCount].slots,
                                    locals |-> h.locals,
                                    ctx    |-> h.ctx ])
                   /\ stackTop' = LandingTop(h)
                   /\ pendingUnwind' = FALSE
                   /\ mode' = "exec"
                   /\ UNCHANGED runs

\* Stack cells a native keeps below its callback (receiver and callback), and
\* the receiver and argument the native itself was called with.
NativeTemps == 2
NativeArgs  == 2

BugOperatorSwallows(kind) == IF kind = "native" THEN "unwind" ELSE "exec"

\* A native and an operator report the failure, and postCallFailure goes on
\* unwinding.  A type pattern takes it for "no match", stringify shows "X instance":
\* run() goes on.
ModeAfterUnwind(kind) == IF kind \in Swallows THEN "exec" ELSE "unwind"

\* The handler belongs to an outer run(): this one returns INTERPRET_UNWIND and
\* its C caller restores the height and the frames it had.  A native then drops
\* its temporaries.
Propagate ==
    /\ mode = "unwind"
    /\ ~OwnedByThisRun(Last(handlers))
    /\ Last(runs).kind # "interpret"
    /\ LET r == Last(runs)
       IN  /\ frames' = SubSeq(frames, 1, r.base)
           /\ stackTop' = IF r.kind = "native" THEN r.savedTop - NativeTemps ELSE r.savedTop
           /\ mode' = ModeAfterUnwind(r.kind)
           /\ runs' = Front(runs)
           /\ UNCHANGED <<handlers, pendingUnwind>>

\* OP_EQUAL on two values that differ and have no __eq__: a pending unwind is
\* taken for the failure of __eq__.
EqualityTest ==
    /\ AtStatement
    /\ pendingUnwind
    /\ IF handlers = <<>>
       THEN GoWild
       ELSE /\ mode' = "unwind"
            /\ UNCHANGED <<frames, stackTop, handlers, runs, pendingUnwind>>

\* The C callers return after an error no handler can catch.  Those that swallow
\* it let run() go on in a frame that is gone.
ErrorReturn ==
    /\ mode = "error"
    /\ LET r == Last(runs)
       IN  IF r.kind \in Swallows
           THEN GoWild
           ELSE /\ runs' = Front(runs)
                /\ mode' = IF r.kind = "interpret" THEN AfterProgram ELSE "error"
                /\ stackTop' = IF r.kind = "native" THEN stackTop - NativeTemps ELSE stackTop
                /\ UNCHANGED <<frames, handlers, pendingUnwind>>

-----------------------------------------------------------------------------
(* Calls through C: a native that takes a callback, an operator method, a  *)
(* type pattern, a __toString__.  The callee gets its own run().           *)

\* Cells the caller pushes below the callee: receiver, argument and temporaries
\* of a native; the operands of an operator are popped first.
CellsBelow(kind) == IF kind = "native" THEN NativeArgs + NativeTemps ELSE 0

\* Arguments the callee gets.
Arguments(kind) == IF kind = "toString" THEN 0 ELSE 1

NestedCall(kind) ==
    LET r == [kind |-> kind, base |-> Len(frames), savedTop |-> stackTop + CellsBelow(kind)]
    IN  /\ AtStatement
        /\ IF Len(frames) = FRAMES_MAX
           THEN HardErrorUnder(Append(runs, r))
           ELSE /\ runs' = Append(runs, r)
                /\ frames' = Append(frames, NewFrame(r.savedTop, Arguments(kind)))
                /\ stackTop' = r.savedTop + Arguments(kind) + 1
                /\ UNCHANGED <<handlers, mode, pendingUnwind>>

\* The native calls its callback for the next element.
CallbackAgain ==
    /\ mode = "native"
    /\ IF stackTop < 0
       THEN GoWild
       ELSE /\ frames' = Append(frames, NewFrame(stackTop, 1))
            /\ stackTop' = stackTop + 2
            /\ mode' = "exec"
            /\ UNCHANGED <<handlers, runs, pendingUnwind>>

\* The native returns: it drops its temporaries, invokeFromClass the receiver
\* and the argument, and the statement the result.
NativeFinish ==
    /\ mode = "native"
    /\ stackTop' = stackTop - NativeTemps - NativeArgs
    /\ runs' = Front(runs)
    /\ mode' = "exec"
    /\ UNCHANGED <<frames, handlers, pendingUnwind>>

\* The native raises: the same clean-up, then postCallFailure throws.
NativeFail ==
    /\ mode = "native"
    /\ runs' = Front(runs)
    /\ IF handlers = <<>>
       THEN HardErrorUnder(Front(runs))
       ELSE /\ stackTop' = stackTop - NativeTemps - NativeArgs
            /\ pendingUnwind' = TRUE
            /\ mode' = "unwind"
            /\ UNCHANGED <<frames, handlers>>

-----------------------------------------------------------------------------
Statement ==
    \/ Declare \/ StackOverflow \/ StackUnderflow \/ HardError \/ Throw
    \/ \E n \in 0 .. 1 : Call(n) \/ TailCall(n)
    \/ Return \/ ReturnInTry
    \/ \E hasCatch \in BOOLEAN : EnterTry(hasCatch)
    \/ FallIntoFinally \/ EndFinally
    \/ EnterLoop \/ EnterForEach \/ Break \/ Continue
    \/ ForEachNoRoom \/ ForEachHit \/ ForEachExhausted \/ ForEachNextCall
    \/ EqualityTest
    \/ \E kind \in Calls : NestedCall(kind)

InC ==
    \/ Land \/ Propagate \/ ErrorReturn
    \/ CallbackAgain \/ NativeFinish \/ NativeFail

Next == Interpret \/ Statement \/ InC

Spec == Init /\ [][Next]_vars

\* Unwinding is straight C code: it does not stop by itself.
FairSpec == Spec /\ WF_vars(Land) /\ WF_vars(Propagate)

-----------------------------------------------------------------------------
(* Properties.                                                             *)

\* The state has the shapes declared above.
TypeOK ==
    /\ frames \in Seq(Frame)
    /\ stackTop \in Int
    /\ handlers \in Seq(Handler)
    /\ runs \in Seq(Run)
    /\ mode \in Modes
    /\ pendingUnwind \in BOOLEAN

\* run(baseFrame) never executes a frame at or below its base, and the bases of
\* the run() invocations on the C stack grow strictly from interpret()'s 0: the
\* test `frameCount == baseFrame` in OP_RETURN and OP_END_FINALLY is met by the
\* invocation that started the frame.  An unwind has a handler to go to.
RunNesting ==
    /\ \A i \in 1 .. Len(runs) : runs[i].kind = "interpret" <=> i = 1
    /\ runs # <<>> => runs[1].base = 0
    /\ \A i, j \in 1 .. Len(runs) : i < j => runs[i].base < runs[j].base
    /\ mode \in {"exec", "unwind"} => runs # <<>> /\ Len(frames) > Base
    /\ mode = "native" => /\ runs # <<>>
                          /\ Last(runs).kind = "native"
                          /\ Len(frames) = Base
    /\ mode = "error" => runs # <<>> /\ frames = <<>>
    /\ mode \in {"idle", "exited", "wild"} => frames = <<>> /\ runs = <<>>
    /\ mode = "unwind" => handlers # <<>>

\* Height of a frame at a statement: its locals, and a completion (tag and
\* payload) for every finally block it is inside.
FrameHeight(f) ==
    f.locals + 2 * Cardinality({i \in 1 .. Len(f.ctx) : f.ctx[i].phase = "finally"})

\* Every frame starts exactly where the one below it stops, plus what a native
\* keeps there, and the value stack ends where the frame on top says: no
\* statement, landing or early return leaves a cell too many or too few.
StackLayout ==
    mode \in {"exec", "native"} =>
        LET Below(i) == CellsBelow(
                IF \E k \in 1 .. Len(runs) : runs[k].base = i /\ runs[k].kind = "native"
                THEN "native" ELSE "magic")
            End(i) == IF i = 0 THEN 0
                      ELSE frames[i].slots + FrameHeight(frames[i]) + Below(i)
        IN  /\ \A i \in 1 .. Len(frames) : frames[i].slots = End(i - 1)
            /\ stackTop = End(Len(frames))

\* vmCallValue hands the stack back to the native at the height it had before
\* the callback, whichever way the callback returned.
NativeSeesItsStack == mode = "native" => stackTop = Last(runs).savedTop

\* The handlers a construct owns in its phase.
OwnHandlers(i, j) ==
    LET c     == frames[i].ctx[j]
        outer == SubSeq(frames[i].ctx, 1, j - 1)
        top   == frames[i].slots + c.at
                   + 2 * Cardinality({k \in 1 .. Len(outer) : outer[k].phase = "finally"})
        entry == [c EXCEPT !.phase = "body", !.tag = "none"]
    IN  CASE IsTry(c) /\ c.phase = "body"  -> TryHandlers(i, top, outer, entry)
          [] IsTry(c) /\ c.phase = "catch" -> << FinallyHandler(i, top, outer, entry) >>
          [] c.phase = "next"              -> << LoopHandler(i, top, outer, c) >>
          [] OTHER                         -> <<>>

\* No handler belongs to a call that is over.
HandlersOfLiveFrames == \A k \in 1 .. Len(handlers) : handlers[k].frameCount <= Len(frames)

\* The handler stack is exactly what the try statements and for-each loops of
\* the live frames own, innermost on top: none is left behind by a statement
\* that leaves a try, none is missing.
HandlersMatchTries ==
    mode \in {"exec", "unwind", "native"} =>
        handlers = FlattenSeq([i \in 1 .. Len(frames) |->
                       FlattenSeq([j \in 1 .. Len(frames[i].ctx) |-> OwnHandlers(i, j)])])

\* No statement makes the C code index an empty handler stack, follow a jump that
\* was never patched, run a frame that is gone or push below the stack.
StaysDefined == mode # "wild"

\* A statement begins with an unwind still pending only where a caller of run() took
\* the exception for an answer, or where the statement before it began so: landing,
\* natives, operators, returns and errors all settle it.
OnlySwallowedUnwindsStay ==
    [][ pendingUnwind' /\ mode' # "unwind" =>
          \/ mode # "unwind" /\ pendingUnwind
          \/ mode = "unwind" /\ Last(runs).kind \in Swallows ]_vars

\* Whatever way a REPL line ends, and whatever calls through C it was in, it leaves
\* no frame, no handler and no value behind for the next line.  An error leaves no
\* unwind pending either, but the natives it passes drop their temporaries from a
\* stack that is already empty, and so may leave its end below its start.
LinesEndClean ==
    [][ mode # "idle" /\ mode' = "idle" =>
          /\ frames' = <<>>
          /\ handlers' = <<>>
          /\ IF mode = "error" THEN stackTop' <= 0 /\ ~pendingUnwind' ELSE stackTop' = 0 ]_vars

\* A try statement is left only through its finally block: by return, by an
\* exception that lands further out, or at its end.  Only an error that stops
\* the program skips it, and a full value stack that ends the process.
FinallyNotSkipped ==
    [][ mode' \notin {"error", "wild"} /\ ~StackOverflow =>
        \A i \in 1 .. Len(frames) : \A j \in 1 .. Len(frames[i].ctx) :
            LET c == frames[i].ctx[j]
            IN  IsTry(c) /\ c.phase # "finally" =>
                    /\ i <= Len(frames')
                    /\ j <= Len(frames'[i].ctx)
                    /\ IsTry(frames'[i].ctx[j])
                    /\ frames'[i].ctx[j].at = c.at ]_vars

\* An exception that leaves the body of a try with a catch goes to the catch
\* block before the finally block.
CatchNotSkipped ==
    [][ mode = "unwind" =>
        \A i \in 1 .. Len(frames) : \A j \in 1 .. Len(frames[i].ctx) :
            LET c == frames[i].ctx[j]
            IN  IsTry(c) /\ c.catch /\ c.phase = "body" =>
                    ~ (/\ i <= Len(frames')
                       /\ j <= Len(frames'[i].ctx)
                       /\ frames'[i].ctx[j].phase = "finally") ]_vars

\* An exception in flight lands: its unwinding never gets stuck between two
\* run() invocations that each leave it to the other.
UnwindingEnds == mode = "unwind" ~> mode # "unwind"
=============================================================================
