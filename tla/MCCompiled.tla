----------------------------- MODULE MCCompiled -----------------------------
(***************************************************************************)
(* The programs of Corpus and Samples, compiled by Compiler and executed   *)
(* by Machine, against the meaning of their trees.                         *)
(***************************************************************************)
EXTENDS Machine, Samples

CONSTANT Keys            \* the names of the programs

ProgramOf(key) ==
    CASE key[1] = "nest" -> NestProgram(key[2], key[3], key[4])
      [] key[1] = "call" -> CallProgram(key[2], key[3], key[4])
      [] key[1] = "operate" -> OperateProgram(key[2], key[3], key[4])
      [] key[1] = "one" -> OperateOneProgram(key[2], key[3])
      [] key[1] = "update" -> UpdateProgram(key[2], key[3], key[4])
      [] key[1] = "sample" -> SamplePrograms[key[2]]
      [] key[1] = "optionalRest" -> OptionalRest(key[2])

(***************************************************************************)
(* Statement forms whose handlers or finally sections the compiler loses:  *)
(* break and continue out of a try; return out of a try that has catch     *)
(* clauses, out of two tries, or out of a try in a method that C called.   *)
(* In a finally section itself, those that leave it, and those that have a *)
(* local variable there, of their own or hidden.                           *)
(***************************************************************************)
Tries == {"try", "catch", "finally", "both", "typed"}
Catching == {"try", "both", "typed"}
Functions == {"arrow", "method", "magic"}

Leaving(key) == CASE key[3] \in Functions -> <<>>
               [] key[3] \notin Functions /\ key[2] \in Functions -> << key[3] >>
               [] OTHER -> << key[2], key[3] >>
Lost(key) ==
    LET tries == SelectSeq(Leaving(key), LAMBDA c : c \in Tries) IN
    \/ key[4] \in {"break", "continue"} /\ key[3] \in Tries /\ key[2] \in Loops
    \/ key[4] \in {"return", "tail"} /\ \/ Len(tries) > 1
                                        \/ \E i \in 1 .. Len(tries) : tries[i] \in Catching
                                        \/ tries # <<>> /\ key[2] = "magic"

NoLocals == {"if", "finally", "section", "arrow"}
OffItsSlot(key) ==
    \/ key[2] = "section" /\ key[3] \notin NoLocals
    \/ /\ key[3] = "section" \/ (key[2] = "section" /\ key[3] # "arrow")
       /\ key[4] \in {"return", "tail", "break", "continue", "capture"}

SafeNests == {key \in Nests : ~Lost(key) /\ ~OffItsSlot(key)}
SafeKeys == SafeNests \cup CallPrograms \cup OperatePrograms \cup OperateOnePrograms
            \cup UpdatePrograms \cup ({"sample"} \X (DOMAIN SamplePrograms))
OptionalRestKeys == {"optionalRest"} \X {0, 1, 2, 3}

MCPrograms == [key \in Keys |-> ProgramOf(key)]

Reference == INSTANCE Meaning WITH DepthMax <- FramesMax

VARIABLE turn            \* flipped by every step before the last

all == <<vars, turn>>
MCInit == Init /\ turn = FALSE

\* Fairness of Machine!Spec, said of turn: the action is one TLC need not
\* execute to see whether it is enabled, and a step that flips turn is a step
\* of the machine that has not finished.
Advance == vm.status # "done" /\ turn' = ~turn
MCNext == Next /\ turn' = IF vm.status = "done" THEN turn ELSE ~turn
MCSpec == MCInit /\ [][MCNext]_all /\ WF_turn(Advance)

(***************************************************************************)
(* Properties.                                                             *)
(***************************************************************************)
Reader == INSTANCE Transcript WITH meaning <- Reference!OutputOf(Programs[program]),
                                  out <- vm.out, over <- vm.status = "done"

\* Compiling a program and executing the instructions shows the lines the
\* program means, in their order; a program is rejected exactly when it
\* breaks a rule of the language.
ShowsWhatItMeans == Reader!Spec

\* Every program comes to its end: no jump goes back to where it has been
\* without something having changed.
ComesToItsEnd == <>(vm.status = "done")

\* Where a statement starts, every local the compiler counts has the slot it is
\* read from: the frame holds those locals and, above them, the two cells of each
\* finally section around the statement, and no local is above such cells, which
\* the compiler does not count.
StackMatchesLocals ==
    Running =>
        \A s \in FunctionOf(vm, Frame(vm).closure).statements :
            s.at = Frame(vm).ip =>
                /\ vm.top - Frame(vm).base + 1 = s.locals + 2 * Len(s.sections)
                /\ \A i \in DOMAIN s.sections : s.sections[i] = s.locals

\* Every exception handler is of a frame that has not returned, and the
\* stack is at least as high as the handler would cut it to.
HandlersLive ==
    \A i \in 1 .. Len(vm.handlers) :
        LET h == vm.handlers[i] IN
        /\ h.frames <= vm.depth /\ h.top <= vm.top
        /\ i > 1 => vm.handlers[i - 1].frames <= h.frames

\* "On success the stack holds exactly `arity` argument slots above the
\* callee" (bindCallArgs): where a function starts, the closure's caller left
\* one value for each parameter above the frame's slot 0, which is the callee
\* or the receiver.
ArgumentsBound ==
    Running /\ Frame(vm).ip = 1 =>
        LET f == FunctionOf(vm, Frame(vm).closure)
            base == Frame(vm).base
        IN /\ base \in 1 .. vm.top /\ vm.top - base = f.arity
           /\ f.type \in {"function", "arrow", "script"} => vm.stack[base] = Frame(vm).closure

\* A module that has been loaded stays the one its name stands for, and its
\* globals are never set up again.
LoadedOnce ==
    [][/\ \A path \in DOMAIN vm.cache :
             vm.cache[path] # Bool(TRUE) => path \in DOMAIN vm'.cache /\ vm'.cache[path] = vm.cache[path]
       /\ \A path \in DOMAIN vm.globals :
             DOMAIN vm.globals[path] \subseteq DOMAIN vm'.globals[path]]_all
=============================================================================
