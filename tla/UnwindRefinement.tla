--------------------------- MODULE UnwindRefinement ---------------------------
(***************************************************************************)
(* The handler stack, the completion protocol and the run() invocations of *)
(* Unwind implement StructuredControl.  The mapping forgets heights and    *)
(* runs.  An exception in flight is already where it will land: at the     *)
(* code the handler on top points at.                                      *)
(***************************************************************************)
EXTENDS Unwind

\* A context without the local counts.
Text(ctx) == [j \in 1 .. Len(ctx) |->
    [kind |-> ctx[j].kind, catch |-> ctx[j].catch, phase |-> ctx[j].phase, tag |-> ctx[j].tag]]

Texts(fs) == [i \in 1 .. Len(fs) |-> Text(fs[i].ctx)]

ProgramStack ==
    IF mode = "unwind"
    THEN Append(Texts(SubSeq(frames, 1, Last(handlers).frameCount - 1)),
                Text(Last(handlers).ctx))
    ELSE Texts(frames)

ProgramState ==
    CASE mode \in {"exec", "unwind", "native"} -> "running"
      [] mode = "error" -> "failed"
      [] OTHER -> mode

Program == INSTANCE StructuredControl WITH stack <- ProgramStack, state <- ProgramState

\* Every exception, return and loop exit of a program that keeps to the safe
\* statement forms goes where the text of the program says: landing and
\* propagating through C are invisible, and a throw lands on the innermost
\* construct that takes it.
ImplementsStructuredControl == Program!Spec
=============================================================================
