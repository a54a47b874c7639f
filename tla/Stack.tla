-------------------------------- MODULE Stack --------------------------------
(***************************************************************************)
(* The value stack of vm.c: pushing and popping, the upvalues that point   *)
(* into it and the arguments of a call.  vm is the machine, a record that  *)
(* module Machine completes; of its fields this module uses                *)
(*   stack, top         every slot ever written, and stackTop              *)
(*   upvalues, open     the ObjUpvalues, whose slot is 0 when closed, and  *)
(*                      openUpvalues, a list from the highest slot down    *)
(*   runs               the activations of run(), and why C started each   *)
(* StackSpec is what the instructions rely on in each other: none but an   *)
(* assignment writes over a variable that a closure has captured.          *)
(***************************************************************************)
EXTENDS Objects, SequencesExt

VARIABLE vm

ResetStack(m) ==
    [m EXCEPT !.top = 0, !.depth = 0, !.open = <<>>, !.handlers = <<>>, !.runs = <<>>,
              !.pending = <<>>]

\* runtimeError, after which every run() returns up to interpret(), but for those
\* of stringify, which does not ask how they ended: when it shows an uncaught
\* exception that one is reported as well, and otherwise the instruction and the
\* code behind it go on with no frame ("wild": where to is not followed).
Fail(m, line) ==
    LET reports == SelectSeq(m.runs, LAMBDA r : r.why = "REPORT") IN
    [ResetStack(m) EXCEPT
        !.out = Append(@, line) \o Reverse([i \in DOMAIN reports |-> "!" \o reports[i].text]),
        !.status = IF \E i \in DOMAIN m.runs : m.runs[i].why \in {"PRINT", "STRINGIFY"}
                   THEN "wild" ELSE "idle"]
RuntimeError(m) == Fail(m, "!error")

Poke(m, i, v) == [m EXCEPT !.stack[i] = v]
Push(m, v) ==
    [m EXCEPT !.top = @ + 1,
              !.stack = IF m.top < Len(@) THEN [@ EXCEPT ![m.top + 1] = v] ELSE Append(@, v)]
PushAll(m, vs) ==
    LET above == m.top + Len(vs) IN
    [m EXCEPT !.top = above,
              !.stack = SubSeq(@, 1, m.top) \o vs \o SubSeq(@, above + 1, Len(@))]
Drop(m, n) == [m EXCEPT !.top = @ - n]
Peek(m, distance) == m.stack[m.top - distance]
Replace(m, n, v) == Push(Drop(m, n), v)
TopValues(m, n) == SubSeq(m.stack, m.top - n + 1, m.top)
PushNew(m, o) == Push([m EXCEPT !.heap = Append(@, o)], Ref(Len(m.heap) + 1))

(***************************************************************************)
(* Upvalues.                                                               *)
(***************************************************************************)
SlotOf(m, i) == m.upvalues[m.open[i]].slot

\* Where the walk of the open list ends that looks for slots below `from`.
FirstBelow(m, from) ==
    LET below == {i \in DOMAIN m.open : SlotOf(m, i) < from}
    IN IF below = {} THEN Len(m.open) + 1 ELSE Min(below)

StillOpen(m, from) == SubSeq(m.open, FirstBelow(m, from), Len(m.open))
WithClosed(m, from) ==
    LET closing == {m.open[i] : i \in 1 .. FirstBelow(m, from) - 1} IN
    [u \in DOMAIN m.upvalues |->
        IF u \in closing THEN [slot |-> 0, closed |-> m.stack[m.upvalues[u].slot]]
                         ELSE m.upvalues[u]]
CloseUpvalues(m, from) ==
    [m EXCEPT !.open = StillOpen(m, from), !.upvalues = WithClosed(m, from)]

BugCapture(m, slot) ==        \* always listed first
    LET new == Len(m.upvalues) + 1 IN
    [m |-> [m EXCEPT !.upvalues = Append(@, [slot |-> slot, closed |-> Nil]),
                     !.open = <<new>> \o @],
     u |-> new]

\* captureUpvalue: the machine and the upvalue for a slot.
Capture(m, slot) ==
    LET at == FirstBelow(m, slot + 1)
        new == Len(m.upvalues) + 1
    IN IF at <= Len(m.open) /\ SlotOf(m, at) = slot THEN [m |-> m, u |-> m.open[at]]
       ELSE [m |-> [m EXCEPT !.upvalues = Append(@, [slot |-> slot, closed |-> Nil]),
                             !.open = InsertAt(@, at, new)],
             u |-> new]

UpvalueValue(m, u) == IF m.upvalues[u].slot # 0 THEN m.stack[m.upvalues[u].slot]
                                               ELSE m.upvalues[u].closed
SetUpvalue(m, u, v) ==
    IF m.upvalues[u].slot # 0 THEN Poke(m, m.upvalues[u].slot, v)
                              ELSE [m EXCEPT !.upvalues[u].closed = v]

(***************************************************************************)
(* Arguments.                                                              *)
(***************************************************************************)
BugBindCallArgs(m, f, n) ==   \* absent optional arguments get no place
    LET extra == n - f.arity + 1 IN
    CASE f.rest /\ n >= f.minArity ->
           PushNew(Drop(m, extra), ArrayOf(SubSeq(TopValues(m, n), f.arity, n)))
      [] ~f.rest /\ n \in f.minArity .. f.arity -> m
      [] OTHER -> RuntimeError(m)

\* bindCallArgs, for a call of function f with n arguments.
BindCallArgs(m, f, n) ==
    LET start == f.arity - 1
        extra == IF n > start THEN n - start ELSE 0
        rest == PushNew(Drop(m, extra), ArrayOf(SubSeq(TopValues(m, n), start + 1, n)))
        missing == [i \in 1 .. f.arity - n |-> Missing]
    IN CASE f.rest /\ n >= f.minArity -> rest
         [] ~f.rest /\ n \in f.minArity .. f.arity -> PushAll(m, missing)
         [] OTHER -> RuntimeError(m)

-----------------------------------------------------------------------------
(***************************************************************************)
(* What instructions do to the stack and the upvalues.                     *)
(***************************************************************************)
cells == <<vm.stack, vm.top, vm.upvalues, vm.open>>

OpenSlots(m) == {SlotOf(m, i) : i \in DOMAIN m.open}

\* The variables on the stack that closures share, below a slot, are as they were.
Untouched(below) == \A s \in OpenSlots(vm) : s < below => vm'.stack[s] = vm.stack[s]

\* Most instructions: push and pop what no closure has captured.
Move ==
    /\ vm'.upvalues = vm.upvalues /\ vm'.open = vm.open
    /\ \A s \in OpenSlots(vm) : s <= vm'.top
    /\ Untouched(vm.top + 1)

\* Assignment to a local variable, or through an upvalue that is open.
AssignSlot ==
    /\ \E s \in DOMAIN vm.stack : vm'.stack = [vm.stack EXCEPT ![s] = vm'.stack[s]]
    /\ vm'.top = vm.top /\ vm'.upvalues = vm.upvalues /\ vm'.open = vm.open

\* Assignment through an upvalue that is closed.
AssignClosed ==
    /\ \E u \in DOMAIN vm.upvalues :
          /\ vm.upvalues[u].slot = 0
          /\ vm'.upvalues = [vm.upvalues EXCEPT ![u].closed = vm'.upvalues[u].closed]
    /\ vm'.stack = vm.stack /\ vm'.top = vm.top /\ vm'.open = vm.open

\* The end of a scope or of a call, a tail call, a throw: the stack is cut, after
\* the variables above the cut have moved to their upvalues.
Close ==
    \E from \in 1 .. vm.top + 1 :
        /\ from - 1 <= vm'.top
        /\ vm'.upvalues = WithClosed(vm, from) /\ vm'.open = StillOpen(vm, from)
        /\ Untouched(from)

\* OP_CLOSURE captures one slot after the other.
NewSlots ==
    [i \in 1 .. Len(vm'.upvalues) - Len(vm.upvalues) |-> vm'.upvalues[Len(vm.upvalues) + i].slot]
Captured(slots) ==
    LET captured[i \in 0 .. Len(slots)] ==
            IF i = 0 THEN [upvalues |-> vm.upvalues, open |-> vm.open]
                     ELSE Capture(captured[i - 1], slots[i]).m
    IN captured[Len(slots)]
CaptureSlots ==
    /\ NewSlots \in Seq(1 .. vm'.top)
    /\ vm'.upvalues = Captured(NewSlots).upvalues /\ vm'.open = Captured(NewSlots).open
    /\ vm.top <= vm'.top
    /\ Untouched(vm.top + 1)

\* An error nobody catches: resetStack leaves upvalues behind that are neither
\* open nor closed.
Reset == vm'.top = 0 /\ vm'.open = <<>> /\ vm'.upvalues = vm.upvalues

StackInit == vm.stack = <<>> /\ vm.top = 0 /\ vm.upvalues = <<>> /\ vm.open = <<>>

StackNext ==
    /\ vm'.top \in Nat /\ 1 .. vm'.top \subseteq DOMAIN vm'.stack
    /\ Move \/ AssignSlot \/ AssignClosed \/ Close \/ CaptureSlots \/ Reset

StackSpec == StackInit /\ [][StackNext]_cells

\* Compiled code keeps to the discipline: a slot is written over or given up only
\* when no closure has captured it, unless by an assignment to its variable.
KeepsVariables == StackSpec

-----------------------------------------------------------------------------
(* Properties.                                                             *)

\* The open upvalues are listed from the highest slot down, one for a slot,
\* and none points above the stack: a list in another order makes closing
\* stop early and capturing miss the upvalue a variable already has.
UpvaluesOrdered ==
    /\ \A i \in 1 .. Len(vm.open) - 1 :
          vm.upvalues[vm.open[i]].slot > vm.upvalues[vm.open[i + 1]].slot
    /\ vm.open # <<>> => vm.upvalues[vm.open[1]].slot \in 1 .. vm.top

\* The upvalues that closures may use; the others resetStack has left behind.
Live(m) == {u \in DOMAIN m.upvalues : m.upvalues[u].slot = 0 \/ \E i \in DOMAIN m.open : m.open[i] = u}

\* Those whose value a step changes.
Changed == {u \in Live(vm) \cap Live(vm') : UpvalueValue(vm', u) # UpvalueValue(vm, u)}

StepKeepsVariables ==
    /\ \A u \in DOMAIN vm.upvalues :
          /\ u \in DOMAIN vm'.upvalues
          /\ vm.upvalues[u].slot = 0 => vm'.upvalues[u].slot = 0
    /\ \A u, w \in Changed : u = w /\ vm'.top = vm.top /\ vm'.open = vm.open

\* An upvalue that is closed stays closed.  A step changes the value of one
\* captured variable at most, and then neither the height of the stack nor the
\* list: leaving the stack, pushing, popping and capturing change no variable's
\* value, whichever closures share it.
VariablesKept == [][StepKeepsVariables]_cells
=============================================================================
