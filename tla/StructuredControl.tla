--------------------------- MODULE StructuredControl ---------------------------
(***************************************************************************)
(* What try / catch / finally, for-each, calls and returns promise a       *)
(* program, whatever the interpreter keeps to do it.  A call stack is a    *)
(* sequence of frames, a frame the sequence of the constructs that enclose *)
(* its current point, outermost first.  There are no handlers, no heights  *)
(* and no run() invocations: an exception looks at the text of the program *)
(* and goes at once to the innermost construct that takes it, however many *)
(* frames and natives lie between.                                         *)
(***************************************************************************)
EXTENDS Integers, Sequences, SequencesExt

VARIABLES
    stack,  \* the frames of the program, innermost last
    state   \* "idle", "running", "failed" (an uncatchable error) or "exited"

sVars == <<stack, state>>

Constructs ==
    [kind : {"try"}, catch : BOOLEAN, phase : {"body"}, tag : {"none"}] \cup
    [kind : {"loop"}, catch : {FALSE}, phase : {"body"}, tag : {"none"}] \cup
    [kind : {"foreach"}, catch : {FALSE}, phase : {"start"}, tag : {"none"}]

\* An exception is taken by a try in its body or its catch block, and by a
\* for-each that waits for __next__.
Takes(c) == (c.kind = "try" /\ c.phase # "finally") \/ c.phase = "next"

Takers(s) ==
    UNION { {<<i, j>> : j \in {k \in 1 .. Len(s[i]) : Takes(s[i][k])}} : i \in 1 .. Len(s) }

InnermostTaker(s) ==
    CHOOSE p \in Takers(s) :
        \A q \in Takers(s) : q[1] < p[1] \/ (q[1] = p[1] /\ q[2] <= p[2])

\* The context in which construct c, inside outer, goes on after an exception.
AfterException(outer, c) ==
    CASE c.kind = "foreach" -> outer
      [] c.kind = "try" /\ c.catch /\ c.phase = "body" ->
            Append(outer, [c EXCEPT !.phase = "catch"])
      [] OTHER -> Append(outer, [c EXCEPT !.phase = "finally", !.tag = "exception"])

Unwound(s) ==
    LET p == InnermostTaker(s)
    IN  Append(SubSeq(s, 1, p[1] - 1),
               AfterException(SubSeq(s[p[1]], 1, p[2] - 1), s[p[1]][p[2]]))

Ctx == Last(stack)

Here == Last(Ctx)

Rewrite(ctx) == stack' = Append(Front(stack), ctx)

OutsideTry == \A j \in 1 .. Len(Ctx) : Ctx[j].kind # "try"

\* A call has returned into the last frame of s; a for-each that waited for it
\* runs its body.
Resumed(s) ==
    IF Last(s) # <<>> /\ Last(Last(s)).phase = "next"
    THEN Append(Front(s), Append(Front(Last(s)), [Last(Last(s)) EXCEPT !.phase = "body"]))
    ELSE s

LeaveFrame ==
    IF Len(stack) = 1
    THEN stack' = <<>> /\ state' \in {"idle", "exited"}
    ELSE stack' = Resumed(Front(stack)) /\ UNCHANGED state

Raise ==
    IF Takers(stack) = {}
    THEN stack' = <<>> /\ state' = "failed"
    ELSE stack' = Unwound(stack) /\ UNCHANGED state

-----------------------------------------------------------------------------
Init == stack = <<>> /\ state = "idle"

Start == state = "idle" /\ state' = "running" /\ stack' = << <<>> >>

Fail == state = "running" /\ state' = "failed" /\ stack' = <<>>

\* A push on a full value stack ends the process.
Exhaust == state = "running" /\ state' = "exited" /\ stack' = <<>>

Recover == state = "failed" /\ state' \in {"idle", "exited"} /\ UNCHANGED stack

Throw == state = "running" /\ Raise

Call == state = "running" /\ stack' = Append(stack, <<>>) /\ UNCHANGED state

TailCall == state = "running" /\ OutsideTry /\ Rewrite(<<>>) /\ UNCHANGED state

\* A frame outside every try returns at once ...
Return == state = "running" /\ OutsideTry /\ LeaveFrame

\* ... inside one it runs the innermost finally block first.
ReturnThrough ==
    /\ state = "running"
    /\ \E j \in 1 .. Len(Ctx) :
          /\ Ctx[j].kind = "try"
          /\ Ctx[j].phase # "finally"
          /\ \A k \in j + 1 .. Len(Ctx) : Ctx[k].kind # "try"
          /\ Rewrite(Append(SubSeq(Ctx, 1, j - 1),
                            [Ctx[j] EXCEPT !.phase = "finally", !.tag = "return"]))
    /\ UNCHANGED state

Enter(c) == state = "running" /\ Rewrite(Append(Ctx, c)) /\ UNCHANGED state

\* A body or a catch block that ends is followed by the finally block.
Complete ==
    /\ state = "running"
    /\ Ctx # <<>>
    /\ Here.kind = "try" /\ Here.phase # "finally"
    /\ Rewrite(Append(Front(Ctx), [Here EXCEPT !.phase = "finally", !.tag = "normal"]))
    /\ UNCHANGED state

\* The end of a finally block resumes what it interrupted.
EndFinally ==
    /\ state = "running"
    /\ Ctx # <<>>
    /\ Here.phase = "finally"
    /\ \/ Here.tag = "normal" /\ Rewrite(Front(Ctx)) /\ UNCHANGED state
       \/ Here.tag = "exception" /\ Raise
       \/ Here.tag = "return" /\ LeaveFrame

LeaveLoop ==
    /\ state = "running"
    /\ Ctx # <<>>
    /\ Here.kind # "try"
    /\ Rewrite(Front(Ctx))
    /\ UNCHANGED state

\* A for-each at its start binds a value of a built-in iterator or calls
\* __next__; at the end of its body it is at its start again.
Iterate ==
    /\ state = "running"
    /\ Ctx # <<>>
    /\ Here.kind = "foreach"
    /\ \/ Here.phase = "body" /\ Rewrite(Append(Front(Ctx), [Here EXCEPT !.phase = "start"]))
       \/ Here.phase = "start" /\ Rewrite(Append(Front(Ctx), [Here EXCEPT !.phase = "body"]))
       \/ /\ Here.phase = "start"
          /\ stack' = Append(Append(Front(stack),
                          Append(Front(Ctx), [Here EXCEPT !.phase = "next"])), <<>>)
    /\ UNCHANGED state

Next ==
    \/ Start \/ Fail \/ Exhaust \/ Recover \/ Throw \/ Call \/ TailCall \/ Return \/ ReturnThrough
    \/ \E c \in Constructs : Enter(c)
    \/ Complete \/ EndFinally \/ LeaveLoop \/ Iterate

Spec == Init /\ [][Next]_sVars
=============================================================================
