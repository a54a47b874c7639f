----------------------------- MODULE UnwindProofs -----------------------------
(***************************************************************************)
(* What holds of Unwind for every size of the frame, value and handler     *)
(* stacks, every set of callers and every statement form, the ill-treated  *)
(* ones included.                                                          *)
(***************************************************************************)
EXTENDS Unwind, FiniteSetTheorems, WellFoundedInduction, TLAPS

-----------------------------------------------------------------------------
(* Sequences.                                                              *)

\* A prefix.
LEMMA Prefix ==
    ASSUME NEW S, NEW s \in Seq(S), NEW n \in Int, n <= Len(s)
    PROVE  /\ SubSeq(s, 1, n) \in Seq(S)
           /\ n >= 0 => Len(SubSeq(s, 1, n)) = n
           /\ n < 0 => SubSeq(s, 1, n) = <<>>
OBVIOUS

\* Dropping the last element.
LEMMA FrontLast ==
    ASSUME NEW S, NEW s \in Seq(S), s # <<>>
    PROVE  /\ Front(s) \in Seq(S)
           /\ Len(s) \in Nat /\ Len(s) > 0
           /\ Len(Front(s)) = Len(s) - 1
           /\ Last(s) = s[Len(s)]
           /\ Last(s) \in S
           /\ \A i \in 1 .. Len(s) - 1 : Front(s)[i] = s[i]
<1>1. Len(s) \in Nat /\ Len(s) > 0
  OBVIOUS
<1>2. Last(s) = s[Len(s)] /\ Last(s) \in S
  BY <1>1 DEF Last
<1>3. Front(s) = SubSeq(s, 1, Len(s) - 1)
  BY DEF Front
<1>4. Front(s) \in Seq(S) /\ Len(Front(s)) = Len(s) - 1
  <2>1. Len(s) - 1 \in Int /\ Len(s) - 1 <= Len(s) /\ Len(s) - 1 >= 0
    BY <1>1
  <2>2. SubSeq(s, 1, Len(s) - 1) \in Seq(S) /\ Len(SubSeq(s, 1, Len(s) - 1)) = Len(s) - 1
    BY <2>1, Prefix
  <2> QED
    BY <2>2, <1>3
<1>5. \A i \in 1 .. Len(s) - 1 : Front(s)[i] = s[i]
  BY <1>1, <1>3
<1> QED
  BY <1>1, <1>2, <1>4, <1>5

\* Adding one.
LEMMA Appended ==
    ASSUME NEW S, NEW s \in Seq(S), NEW e \in S
    PROVE  /\ Append(s, e) \in Seq(S)
           /\ Len(s) \in Nat
           /\ Len(Append(s, e)) = Len(s) + 1
           /\ Append(s, e) # <<>>
           /\ Last(Append(s, e)) = e
           /\ Append(s, e)[Len(s) + 1] = e
           /\ \A i \in 1 .. Len(s) : Append(s, e)[i] = s[i]
BY DEF Last

\* The empty sequence is the one of length 0.
LEMMA EmptyLen ==
    ASSUME NEW S, NEW s \in Seq(S)
    PROVE  /\ Len(s) \in Nat
           /\ s = <<>> <=> Len(s) = 0
           /\ <<>> \in Seq(S)
OBVIOUS

\* A set of positions has an innermost one.
LEMMA InnermostIn ==
    ASSUME NEW n \in Nat, NEW S \in SUBSET (1 .. n), S # {}
    PROVE  Innermost(S) \in S /\ \A j \in S : j <= Innermost(S)
<1> DEFINE From(i) == {k \in 1 .. n : i <= k}
           T == {From(i) : i \in S}
<1>1. T \subseteq SUBSET (1 .. n) /\ T # {}
  OBVIOUS
<1>2. IsFiniteSet(1 .. n)
  BY FS_Interval
<1>3. PICK x \in T : \A y \in T : ~ (<<y, x>> \in StrictSubsetOrdering(1 .. n))
  <2>1. T \subseteq FiniteSubsetsOf(1 .. n)
    <3> HIDE DEF T
    <3> QED
      BY <1>1, <1>2, FS_FiniteSubsetsOfFinite
  <2>2. IsWellFoundedOn(StrictSubsetOrdering(1 .. n), FiniteSubsetsOf(1 .. n))
    BY FS_StrictSubsetOrderingWellFounded
  <2> HIDE DEF T
  <2> QED
    BY <1>1, <2>1, <2>2, WFMin
<1>4. PICK m \in S : x = From(m)
  OBVIOUS
<1>5. \A j \in S : j <= m
  <2> SUFFICES ASSUME NEW j \in S, j > m PROVE FALSE
    OBVIOUS
  <2>1. From(j) \subseteq From(m) /\ From(j) # From(m)
    <3>1. m \in From(m) /\ m \notin From(j)
      OBVIOUS
    <3>2. From(j) \subseteq From(m)
      OBVIOUS
    <3> QED
      BY <3>1, <3>2
  <2>2. <<From(j), From(m)>> \in StrictSubsetOrdering(1 .. n)
    <3>1. From(j) \in SUBSET (1 .. n) /\ From(m) \in SUBSET (1 .. n)
      OBVIOUS
    <3> HIDE DEF From
    <3> QED
      BY <2>1, <3>1 DEF StrictSubsetOrdering
  <2> QED
    BY <1>3, <1>4, <2>2
<1> QED
  BY <1>5 DEF Innermost
-----------------------------------------------------------------------------
(* The parts of a state.                                                   *)

\* The run() invocations start with interpret's and their bases grow.
RunStack(rs) ==
    /\ rs \in Seq(Run)
    /\ \A i \in 1 .. Len(rs) : rs[i].kind = "interpret" <=> i = 1
    /\ rs # <<>> => rs[1].base = 0
    /\ \A i, j \in 1 .. Len(rs) : i < j => rs[i].base < rs[j].base

\* The inductive invariant.
Inv == TypeOK /\ RunNesting

\* Popping an invocation that interpret() did not make.
LEMMA RunPopped ==
    ASSUME NEW rs, RunStack(rs), rs # <<>>, Last(rs).kind # "interpret"
    PROVE  /\ RunStack(Front(rs))
           /\ Front(rs) # <<>>
           /\ Last(Front(rs)) \in Run
           /\ Last(Front(rs)).base < Last(rs).base
<1>1. /\ rs \in Seq(Run) /\ Len(rs) \in Nat /\ Len(rs) > 0
      /\ Last(rs) = rs[Len(rs)]
      /\ Front(rs) \in Seq(Run) /\ Len(Front(rs)) = Len(rs) - 1
      /\ \A i \in 1 .. Len(rs) - 1 : Front(rs)[i] = rs[i]
  BY FrontLast DEF RunStack
<1>2. Len(rs) # 1
  BY <1>1 DEF RunStack
<1>3. Front(rs) # <<>>
  BY <1>1, <1>2, EmptyLen
<1>4. RunStack(Front(rs))
  BY <1>1, <1>2 DEF RunStack
<1>5. Last(Front(rs)) = rs[Len(rs) - 1] /\ Last(Front(rs)) \in Run
  BY <1>1, <1>2, <1>3, FrontLast
<1>6. rs[Len(rs) - 1].base < rs[Len(rs)].base
  BY <1>1, <1>2 DEF RunStack
<1> QED
  BY <1>1, <1>3, <1>4, <1>5, <1>6

\* Pushing one.
LEMMA RunPushed ==
    ASSUME NEW rs, RunStack(rs), rs # <<>>, NEW r \in Run,
           r.kind # "interpret", Last(rs).base < r.base
    PROVE  RunStack(Append(rs, r)) /\ Append(rs, r) # <<>> /\ Last(Append(rs, r)) = r
<1>1. /\ rs \in Seq(Run) /\ Len(rs) \in Nat /\ Len(rs) > 0
      /\ Last(rs) = rs[Len(rs)] /\ Last(rs) \in Run
  BY FrontLast DEF RunStack
<1>2. /\ Append(rs, r) \in Seq(Run) /\ Append(rs, r) # <<>>
      /\ Len(Append(rs, r)) = Len(rs) + 1
      /\ Last(Append(rs, r)) = r
      /\ Append(rs, r)[Len(rs) + 1] = r
      /\ \A i \in 1 .. Len(rs) : Append(rs, r)[i] = rs[i]
  BY <1>1, Appended
<1>3. \A i \in 1 .. Len(rs) : rs[i].base <= Last(rs).base /\ rs[i].base \in Nat
  <2>1. \A i \in 1 .. Len(rs) : rs[i] \in Run
    BY <1>1
  <2> QED
    BY <1>1, <2>1 DEF RunStack, Run
<1>4. \A i \in 1 .. Len(rs) + 1 : Append(rs, r)[i].kind = "interpret" <=> i = 1
  BY <1>1, <1>2 DEF RunStack
<1>5. \A i, j \in 1 .. Len(rs) + 1 :
          i < j => Append(rs, r)[i].base < Append(rs, r)[j].base
  <2> SUFFICES ASSUME NEW i \in 1 .. Len(rs) + 1, NEW j \in 1 .. Len(rs) + 1, i < j
               PROVE  Append(rs, r)[i].base < Append(rs, r)[j].base
    OBVIOUS
  <2>1. CASE j = Len(rs) + 1
    <3>1. i \in 1 .. Len(rs)
      BY <1>1, <2>1
    <3>2. r.base \in Nat /\ Last(rs).base \in Nat
      BY <1>1 DEF Run
    <3>3. rs[i].base <= Last(rs).base /\ rs[i].base \in Nat
      BY <1>3, <3>1
    <3>4. rs[i].base < r.base
      BY <3>2, <3>3
    <3> QED
      BY <1>2, <2>1, <3>1, <3>4
  <2>2. CASE j # Len(rs) + 1
    <3>1. i \in 1 .. Len(rs) /\ j \in 1 .. Len(rs)
      BY <1>1, <2>2
    <3> QED
      BY <1>2, <3>1 DEF RunStack
  <2> QED
    BY <2>1, <2>2
<1>6. Append(rs, r)[1].base = 0
  BY <1>1, <1>2 DEF RunStack
<1> QED
  BY <1>2, <1>4, <1>5, <1>6 DEF RunStack

\* The stacks after a reset.
LEMMA EmptyStacks ==
    <<>> \in Seq(Frame) /\ <<>> \in Seq(Handler) /\ <<>> \in Seq(Run)
<1>1. \A S : <<>> \in Seq(S)
  OBVIOUS
<1> QED
  BY <1>1

\* What the invariant says while a run() executes or unwinds.
LEMMA Running ==
    ASSUME Inv, mode \in {"exec", "unwind"}
    PROVE  /\ RunStack(runs) /\ runs # <<>>
           /\ Last(runs) \in Run /\ Base \in Nat
           /\ Len(frames) \in Nat /\ Len(frames) > Base
           /\ frames \in Seq(Frame) /\ frames # <<>>
           /\ Top \in Frame /\ Ctx \in Seq(Construct)
           /\ Top.slots \in Int /\ Top.locals \in Nat
           /\ stackTop \in Int /\ handlers \in Seq(Handler) /\ pendingUnwind \in BOOLEAN
<1>1. /\ RunStack(runs) /\ runs # <<>> /\ Len(frames) > Base
      /\ frames \in Seq(Frame) /\ stackTop \in Int /\ handlers \in Seq(Handler)
      /\ pendingUnwind \in BOOLEAN
  BY DEF Inv, TypeOK, RunNesting, RunStack
<1>2. Last(runs) \in Run /\ Base \in Nat
  <2>1. Last(runs) \in Run
    BY <1>1, FrontLast DEF RunStack
  <2> QED
    BY <2>1 DEF Run, Base
<1>3. Len(frames) \in Nat /\ frames # <<>>
  BY <1>1, <1>2, EmptyLen
<1>4. Top \in Frame
  BY <1>1, <1>3, FrontLast DEF Top
<1>5. Ctx \in Seq(Construct) /\ Top.slots \in Int /\ Top.locals \in Nat
  BY <1>4 DEF Ctx, Frame
<1> QED
  BY <1>1, <1>2, <1>3, <1>4, <1>5

\* The innermost try and the innermost loop of a context.
LEMMA InnermostTry ==
    ASSUME NEW ctx \in Seq(Construct), TryPositions(ctx) # {}
    PROVE  LET j == Innermost(TryPositions(ctx))
           IN  /\ j \in 1 .. Len(ctx) /\ ctx[j] \in Construct
               /\ SubSeq(ctx, 1, j - 1) \in Seq(Construct)
<1>1. Len(ctx) \in Nat /\ TryPositions(ctx) \in SUBSET (1 .. Len(ctx))
  BY DEF TryPositions
<1> DEFINE j == Innermost(TryPositions(ctx))
<1>2. j \in 1 .. Len(ctx)
  BY <1>1, InnermostIn
<1> HIDE DEF j
<1>3. SubSeq(ctx, 1, j - 1) \in Seq(Construct)
  BY <1>1, <1>2, Prefix
<1>4. ctx[j] \in Construct
  BY <1>2
<1> QED
  BY <1>2, <1>3, <1>4 DEF j

\* The innermost open loop is a loop of the context.
LEMMA InnermostLoop ==
    ASSUME NEW ctx \in Seq(Construct), LoopPositions(ctx) # {}
    PROVE  LET l == Innermost(LoopPositions(ctx))
           IN  /\ l \in 1 .. Len(ctx) /\ ctx[l] \in Construct /\ IsLoop(ctx[l])
               /\ SubSeq(ctx, 1, l - 1) \in Seq(Construct)
<1>1. Len(ctx) \in Nat /\ LoopPositions(ctx) \in SUBSET (1 .. Len(ctx))
  BY DEF LoopPositions
<1> DEFINE l == Innermost(LoopPositions(ctx))
<1>2. l \in LoopPositions(ctx)
  BY <1>1, InnermostIn
<1> HIDE DEF l
<1>3. l \in 1 .. Len(ctx) /\ IsLoop(ctx[l])
  BY <1>2 DEF LoopPositions
<1>4. SubSeq(ctx, 1, l - 1) \in Seq(Construct)
  BY <1>1, <1>3, Prefix
<1>5. ctx[l] \in Construct
  BY <1>3
<1> QED
  BY <1>3, <1>4, <1>5 DEF l

\* The constructs a statement opens or moves on.
LEMMA ConstructTypes ==
    /\ \A n \in Nat, b \in BOOLEAN : TryAt(b, n) \in Construct
    /\ \A n \in Nat : LoopAt(n) \in Construct
    /\ \A n \in Nat : ForEachAt(n + 1) \in Construct
    /\ \A c \in Construct, tag \in {"normal", "exception", "return"} : InFinally(c, tag) \in Construct
    /\ \A c \in Construct : InPhase(c, "catch") \in Construct
    /\ \A c \in Construct, p \in {"body", "start", "next"} :
            c.kind = "foreach" => InPhase(c, p) \in Construct
<1>1. \A n \in Nat, b \in BOOLEAN : TryAt(b, n) \in Construct
  BY DEF TryAt, Construct
<1>2. \A n \in Nat : LoopAt(n) \in Construct
  BY DEF LoopAt, Construct
<1>3. \A n \in Nat : ForEachAt(n + 1) \in Construct
  BY DEF ForEachAt, Construct
<1>4. \A c \in Construct, tag \in {"normal", "exception", "return"} : InFinally(c, tag) \in Construct
  BY DEF InFinally, Construct
<1>5. \A c \in Construct : InPhase(c, "catch") \in Construct
  BY DEF InPhase, Construct
<1>6. \A c \in Construct, p \in {"body", "start", "next"} :
            c.kind = "foreach" => InPhase(c, p) \in Construct
  BY DEF InPhase, Construct
<1> QED
  BY <1>1, <1>2, <1>3, <1>4, <1>5, <1>6

\* A for-each counts its iterator, so that dropping it leaves a number of locals.
LEMMA LoopLocals ==
    ASSUME NEW c \in Construct
    PROVE  c.at \in Nat /\ LocalsAfter(c) \in Nat /\ (c.kind = "foreach" => c.at - 1 \in Nat)
BY DEF Construct, LocalsAfter

\* A new frame.
LEMMA NewFrameType ==
    ASSUME NEW slots \in Int, NEW n \in Nat
    PROVE  NewFrame(slots, n) \in Frame
<1>1. <<>> \in Seq(Construct)
  OBVIOUS
<1> QED
  BY <1>1 DEF NewFrame, Frame

\* The frame on top at another point of its function.
LEMMA TopAtType ==
    ASSUME frames \in Seq(Frame), frames # <<>>, NEW n \in Nat, NEW ctx \in Seq(Construct)
    PROVE  /\ TopAt(n, ctx) \in Seq(Frame)
           /\ Len(TopAt(n, ctx)) = Len(frames)
           /\ TopAt(n, ctx) # <<>>
<1> DEFINE f == [slots |-> Top.slots, locals |-> n, ctx |-> ctx]
<1>1. /\ Front(frames) \in Seq(Frame) /\ Len(Front(frames)) = Len(frames) - 1
      /\ Len(frames) \in Nat /\ Top \in Frame
  BY FrontLast DEF Top
<1>2. f \in Frame
  BY <1>1 DEF Frame
<1>3. TopAt(n, ctx) = Append(Front(frames), f)
  BY DEF TopAt, WithTop
<1> HIDE DEF f
<1> QED
  BY <1>1, <1>2, <1>3, Appended
-----------------------------------------------------------------------------
(* Steps that several actions share.                                       *)

\* A step that stays in the run() that executes.
LEMMA SameRun ==
    ASSUME Inv, mode \in {"exec", "unwind"},
           UNCHANGED runs,
           frames' \in Seq(Frame), Len(frames') > Base,
           stackTop' \in Int, handlers' \in Seq(Handler), pendingUnwind' \in BOOLEAN,
           mode' = "exec"
    PROVE  Inv'
<1>1. RunStack(runs) /\ runs # <<>>
  BY Running
<1>2. TypeOK'
  BY <1>1 DEF TypeOK, Modes, RunStack
<1>3. Base' = Base
  BY DEF Base
<1>4. RunNesting'
  BY <1>1, <1>3 DEF RunNesting, RunStack
<1> QED
  BY <1>2, <1>4 DEF Inv

\* Undefined behaviour ends the behaviour of the model.
LEMMA Wild ==
    ASSUME GoWild
    PROVE  Inv'
<1>1. /\ frames' = <<>> /\ stackTop' = 0 /\ handlers' = <<>> /\ pendingUnwind' = FALSE
      /\ runs' = <<>> /\ mode' = "wild"
  BY DEF GoWild
<1>2. TypeOK'
  <2>1. frames' \in Seq(Frame) /\ handlers' \in Seq(Handler) /\ runs' \in Seq(Run)
    BY <1>1, EmptyStacks, Zenon
  <2>2. stackTop' = 0
    BY <1>1
  <2>3. stackTop' \in Int
    BY <2>2
  <2>4. mode' \in Modes /\ pendingUnwind' \in BOOLEAN
    BY <1>1, Zenon DEF Modes
  <2> QED
    BY <2>1, <2>3, <2>4, Zenon DEF TypeOK
<1>3. RunNesting'
  BY <1>1 DEF RunNesting
<1> QED
  BY <1>2, <1>3 DEF Inv

\* An error no handler can catch.
LEMMA HardErrorStep ==
    ASSUME NEW rs, RunStack(rs), rs # <<>>, HardErrorUnder(rs)
    PROVE  Inv'
<1>1. /\ frames' = <<>> /\ stackTop' = 0 /\ handlers' = <<>> /\ pendingUnwind' = FALSE
      /\ runs' = rs /\ mode' = "error"
  BY DEF HardErrorUnder, ResetStack
<1>2. TypeOK'
  <2>1. frames' \in Seq(Frame) /\ handlers' \in Seq(Handler) /\ runs' \in Seq(Run)
    BY <1>1, EmptyStacks, Zenon DEF RunStack
  <2>2. stackTop' = 0
    BY <1>1
  <2>3. stackTop' \in Int
    BY <2>2
  <2>4. mode' \in Modes /\ pendingUnwind' \in BOOLEAN
    BY <1>1, Zenon DEF Modes
  <2> QED
    BY <2>1, <2>3, <2>4, Zenon DEF TypeOK
<1>3. RunNesting'
  BY <1>1 DEF RunNesting, RunStack
<1> QED
  BY <1>2, <1>3 DEF Inv

\* A throw.
LEMMA RaiseStep ==
    ASSUME Inv, mode = "exec", Raise
    PROVE  Inv'
<1>1. RunStack(runs) /\ runs # <<>>
  BY Running
<1>2. CASE handlers = <<>>
  BY <1>1, <1>2, HardErrorStep DEF Raise
<1>3. CASE handlers # <<>>
  <2>1. /\ pendingUnwind' = TRUE /\ mode' = "unwind"
        /\ UNCHANGED <<frames, stackTop, handlers, runs>>
    BY <1>3 DEF Raise
  <2>2. TypeOK'
    BY <2>1 DEF Inv, TypeOK, Modes
  <2>3. RunNesting'
    BY <1>3, <2>1 DEF Inv, RunNesting, Base
  <2> QED
    BY <2>2, <2>3 DEF Inv
<1> QED
  BY <1>2, <1>3

\* A call returns into a frame of the same run().
LEMMA ResumeStep ==
    ASSUME Inv, mode = "exec", NEW fs \in Seq(Frame), NEW top \in Int,
           Len(fs) > Base, ResumeCaller(fs, top), UNCHANGED <<runs, mode, pendingUnwind>>
    PROVE  Inv'
<1> DEFINE caller == Last(fs)
<1>1. Base \in Nat /\ handlers \in Seq(Handler) /\ pendingUnwind \in BOOLEAN
  BY Running
<1>2. fs # <<>> /\ caller \in Frame /\ Len(fs) \in Nat
  <2>1. fs # <<>> /\ Len(fs) \in Nat
    BY <1>1, EmptyLen
  <2> QED
    BY <2>1, FrontLast
<1>3. CASE caller.ctx # <<>> /\ Last(caller.ctx).phase = "next"
  <2> DEFINE c     == InPhase(Last(caller.ctx), "body")
             moved == [ slots  |-> caller.slots,
                        locals |-> caller.locals + 1,
                        ctx    |-> Append(Front(caller.ctx), c) ]
  <2>1. frames' = Append(Front(fs), moved) /\ handlers' = Front(handlers) /\ stackTop' = top + 1
    BY <1>3 DEF ResumeCaller
  <2>2. /\ caller.slots \in Int /\ caller.locals \in Nat
        /\ Last(caller.ctx) \in Construct /\ Front(caller.ctx) \in Seq(Construct)
    <3>1. caller.slots \in Int /\ caller.locals \in Nat /\ caller.ctx \in Seq(Construct)
      BY <1>2 DEF Frame
    <3> QED
      BY <3>1, <1>3, FrontLast
  <2>3. c \in Construct
    <3>1. Last(caller.ctx).kind = "foreach"
      BY <1>3, <2>2 DEF Construct
    <3> QED
      BY <2>2, <3>1, ConstructTypes
  <2>4. Append(Front(caller.ctx), c) \in Seq(Construct)
    BY <2>2, <2>3, Appended
  <2>5. moved \in Frame
    <3> HIDE DEF c
    <3> QED
      BY <2>2, <2>4 DEF Frame
  <2>6. frames' \in Seq(Frame) /\ Len(frames') = Len(fs)
    <3>1. Front(fs) \in Seq(Frame) /\ Len(Front(fs)) = Len(fs) - 1
      BY <1>2, FrontLast
    <3> HIDE DEF moved
    <3> QED
      BY <2>1, <2>5, <3>1, <1>2, Appended
  <2>7. handlers' \in Seq(Handler)
    BY <1>1, <2>1, Prefix, EmptyLen DEF Front
  <2> QED
    BY <1>1, <2>1, <2>6, <2>7, SameRun
<1>4. CASE ~(caller.ctx # <<>> /\ Last(caller.ctx).phase = "next")
  <2>1. frames' = fs /\ stackTop' = top /\ UNCHANGED handlers
    BY <1>4 DEF ResumeCaller
  <2> QED
    BY <1>1, <2>1, SameRun
<1> QED
  BY <1>3, <1>4

\* The base frame of a run() returns.
LEMMA ReturnFromRunStep ==
    ASSUME Inv, mode = "exec", NEW fs \in Seq(Frame), NEW top \in Int,
           Len(fs) = Base, ReturnFromRun(fs, top), UNCHANGED pendingUnwind
    PROVE  Inv'
<1>1. /\ RunStack(runs) /\ runs # <<>> /\ Last(runs) \in Run /\ Base \in Nat
      /\ handlers \in Seq(Handler) /\ pendingUnwind \in BOOLEAN
      /\ Len(runs) \in Nat /\ Len(runs) > 0 /\ Last(runs) = runs[Len(runs)]
  <2>1. /\ RunStack(runs) /\ runs # <<>> /\ Last(runs) \in Run /\ Base \in Nat
        /\ handlers \in Seq(Handler) /\ pendingUnwind \in BOOLEAN
    BY Running
  <2> QED
    BY <2>1, FrontLast DEF RunStack
<1>2. frames' = fs /\ stackTop' = top /\ UNCHANGED <<handlers, pendingUnwind>>
  BY DEF ReturnFromRun
<1>3. CASE Last(runs).kind = "interpret"
  <2>1. Len(runs) = 1 /\ Base = 0
    <3>1. Len(runs) \in 1 .. Len(runs)
      BY <1>1
    <3>2. Len(runs) = 1
      BY <1>1, <1>3, <3>1 DEF RunStack
    <3> QED
      BY <1>1, <3>2 DEF RunStack, Base
  <2>2. mode' = AfterProgram /\ runs' = Front(runs)
    BY <1>3 DEF ReturnFromRun, Swallows
  <2>3. runs' = <<>> /\ frames' = <<>>
    <3>1. Front(runs) \in Seq(Run) /\ Len(Front(runs)) = 0
      BY <1>1, <2>1, FrontLast DEF RunStack
    <3> QED
      BY <3>1, <2>1, <2>2, <1>2, EmptyLen
  <2>4. mode' \in {"idle", "exited"}
    BY <2>2 DEF AfterProgram
  <2>5. TypeOK'
    BY <1>1, <1>2, <2>3, <2>4 DEF TypeOK, Modes
  <2>6. RunNesting'
    BY <2>3, <2>4 DEF RunNesting
  <2> QED
    BY <2>5, <2>6 DEF Inv
<1>4. CASE Last(runs).kind = "native"
  <2>1. mode' = "native" /\ UNCHANGED runs
    BY <1>4 DEF ReturnFromRun, Swallows
  <2>2. TypeOK'
    BY <1>1, <1>2, <2>1 DEF TypeOK, Modes, RunStack
  <2>3. RunNesting'
    BY <1>1, <1>2, <1>4, <2>1 DEF RunNesting, RunStack, Base
  <2> QED
    BY <2>2, <2>3 DEF Inv
<1>5. CASE Last(runs).kind \in {"magic"} \cup Swallows
  <2>1. mode' = "exec" /\ runs' = Front(runs)
    BY <1>5 DEF ReturnFromRun, Swallows
  <2>2. /\ RunStack(Front(runs)) /\ Front(runs) # <<>>
        /\ Last(Front(runs)).base < Base
    BY <1>1, <1>5, RunPopped DEF Base, Swallows
  <2>3. TypeOK'
    BY <1>1, <1>2, <2>1, <2>2 DEF TypeOK, Modes, RunStack
  <2>4. RunNesting'
    BY <1>1, <1>2, <2>1, <2>2 DEF RunNesting, RunStack, Base
  <2> QED
    BY <2>3, <2>4 DEF Inv
<1> QED
  BY <1>1, <1>3, <1>4, <1>5 DEF Run, AllCalls, Swallows

\* The handlers a construct pushes.
LEMMA HandlerTypes ==
    ASSUME NEW fc \in Nat, NEW top \in Int, NEW outer \in Seq(Construct), NEW c \in Construct
    PROVE  /\ FinallyHandler(fc, top, outer, c) \in Handler
           /\ CatchHandler(fc, top, outer, c) \in Handler
           /\ c.kind = "foreach" => LoopHandler(fc, top, outer, c) \in Handler
           /\ TryHandlers(fc, top, outer, c) \in Seq(Handler)
<1>1. c.at \in Nat /\ (c.kind = "foreach" => c.at - 1 \in Nat)
  BY LoopLocals
<1>2. /\ Append(outer, InFinally(c, "exception")) \in Seq(Construct)
      /\ Append(outer, InPhase(c, "catch")) \in Seq(Construct)
  <2>1. InFinally(c, "exception") \in Construct /\ InPhase(c, "catch") \in Construct
    BY ConstructTypes
  <2> QED
    BY <2>1, Appended
<1>3. FinallyHandler(fc, top, outer, c) \in Handler
  BY <1>1, <1>2 DEF FinallyHandler, Handler
<1>4. CatchHandler(fc, top, outer, c) \in Handler
  BY <1>1, <1>2 DEF CatchHandler, Handler
<1>5. c.kind = "foreach" => LoopHandler(fc, top, outer, c) \in Handler
  BY <1>1 DEF LoopHandler, Handler
<1>6. TryHandlers(fc, top, outer, c) \in Seq(Handler)
  BY <1>3, <1>4 DEF TryHandlers
<1> QED
  BY <1>3, <1>4, <1>5, <1>6
-----------------------------------------------------------------------------
(* The actions.                                                            *)

\* interpret() starts from no frame and no run().
LEMMA InterpretStep ==
    ASSUME Inv, Interpret
    PROVE  Inv'
<1>1. CASE stackTop < 0
  <2>1. GoWild
    BY <1>1 DEF Interpret
  <2> QED
    BY <2>1, Wild
<1>2. CASE ~(stackTop < 0)
  <2> DEFINE r == [kind |-> "interpret", base |-> 0, savedTop |-> stackTop]
             f == NewFrame(stackTop, 0)
  <2>1. /\ frames' = << f >> /\ stackTop' = stackTop + 1 /\ runs' = << r >>
        /\ mode' = "exec" /\ UNCHANGED <<handlers, pendingUnwind>>
    BY <1>2 DEF Interpret
  <2>2. stackTop \in Int /\ handlers \in Seq(Handler) /\ pendingUnwind \in BOOLEAN
    BY DEF Inv, TypeOK
  <2>3. r \in Run /\ r.kind = "interpret" /\ r.base = 0
    BY <2>2 DEF Run
  <2>4. f \in Frame
    BY <2>2, NewFrameType
  <2> HIDE DEF r, f
  <2>5. TypeOK'
    <3>1. frames' \in Seq(Frame) /\ runs' \in Seq(Run)
      BY <2>1, <2>3, <2>4
    <3> QED
      BY <3>1, <2>1, <2>2 DEF TypeOK, Modes
  <2>6. RunNesting'
    <3>1. Len(runs') = 1 /\ runs'[1] = r /\ Len(frames') = 1 /\ runs' # <<>>
      BY <2>1
    <3>2. Base' = 0
      BY <3>1, <2>3 DEF Base, Last
    <3> QED
      BY <3>1, <3>2, <2>1, <2>3 DEF RunNesting
  <2> QED
    BY <2>5, <2>6 DEF Inv
<1> QED
  BY <1>1, <1>2

\* A statement that only moves the frame on top.
LEMMA TopMoves ==
    ASSUME Inv, mode = "exec", NEW n \in Nat, NEW ctx \in Seq(Construct),
           frames' = TopAt(n, ctx),
           stackTop' \in Int, handlers' \in Seq(Handler), pendingUnwind' \in BOOLEAN,
           UNCHANGED <<runs, mode>>
    PROVE  Inv'
<1>1. frames' \in Seq(Frame) /\ Len(frames') > Base
  BY Running, TopAtType
<1> QED
  BY <1>1, SameRun

\* Declare keeps the invariant.
LEMMA DeclareStep ==
    ASSUME Inv, Declare
    PROVE  Inv'
<1>1. mode = "exec"
  BY DEF Declare, AtStatement
<1>2. Ctx \in Seq(Construct) /\ Top.locals + 1 \in Nat /\ stackTop + 1 \in Int
      /\ handlers \in Seq(Handler) /\ pendingUnwind \in BOOLEAN
  BY <1>1, Running
<1> QED
  BY <1>1, <1>2, TopMoves DEF Declare

\* StackOverflow keeps the invariant.
LEMMA StackOverflowStep ==
    ASSUME StackOverflow
    PROVE  Inv'
<1>1. /\ frames' = <<>> /\ stackTop' = 0 /\ handlers' = <<>> /\ pendingUnwind' = FALSE
      /\ runs' = <<>> /\ mode' = "exited"
  BY DEF StackOverflow, ResetStack
<1>2. TypeOK'
  <2>1. frames' \in Seq(Frame) /\ handlers' \in Seq(Handler) /\ runs' \in Seq(Run)
    BY <1>1, EmptyStacks, Zenon
  <2>2. stackTop' = 0
    BY <1>1
  <2>3. stackTop' \in Int
    BY <2>2
  <2>4. mode' \in Modes /\ pendingUnwind' \in BOOLEAN
    BY <1>1, Zenon DEF Modes
  <2> QED
    BY <2>1, <2>3, <2>4, Zenon DEF TypeOK
<1>3. RunNesting'
  BY <1>1 DEF RunNesting
<1> QED
  BY <1>2, <1>3 DEF Inv

\* A new frame in the run() that executes.
LEMMA FramePushed ==
    ASSUME Inv, mode = "exec", NEW fs \in Seq(Frame), Len(fs) >= Base,
           NEW slots \in Int, NEW n \in Nat, frames' = Append(fs, NewFrame(slots, n)),
           stackTop' \in Int, handlers' \in Seq(Handler), pendingUnwind' \in BOOLEAN,
           UNCHANGED <<runs, mode>>
    PROVE  Inv'
<1>1. NewFrame(slots, n) \in Frame
  BY NewFrameType
<1>2. frames' \in Seq(Frame) /\ Len(frames') = Len(fs) + 1 /\ Len(fs) \in Nat
  BY <1>1, Appended
<1>3. Base \in Nat
  BY Running
<1>4. Len(frames') > Base
  BY <1>2, <1>3
<1> QED
  BY <1>2, <1>4, SameRun

\* Call keeps the invariant.
LEMMA CallStep ==
    ASSUME Inv, NEW n \in 0 .. 1, Call(n)
    PROVE  Inv'
<1>1. mode = "exec"
  BY DEF Call, AtStatement
<1>2. CASE Len(frames) = FRAMES_MAX
  <2>1. HardErrorUnder(runs)
    BY <1>2 DEF Call
  <2> QED
    BY <1>1, <2>1, Running, HardErrorStep
<1>3. CASE Len(frames) # FRAMES_MAX
  <2>1. /\ frames' = Append(frames, NewFrame(stackTop, n)) /\ stackTop' = stackTop + n + 1
        /\ UNCHANGED <<handlers, runs, mode, pendingUnwind>>
    BY <1>3 DEF Call
  <2>2. /\ frames \in Seq(Frame) /\ Len(frames) >= Base /\ stackTop \in Int
        /\ handlers \in Seq(Handler) /\ pendingUnwind \in BOOLEAN
    BY <1>1, Running
  <2> QED
    BY <1>1, <2>1, <2>2, FramePushed
<1> QED
  BY <1>2, <1>3

\* TailCall keeps the invariant.
LEMMA TailCallStep ==
    ASSUME Inv, NEW n \in 0 .. 1, TailCall(n)
    PROVE  Inv'
<1>1. mode = "exec"
  BY DEF TailCall, AtStatement
<1>2. /\ frames \in Seq(Frame) /\ frames # <<>> /\ Len(frames) > Base /\ Top.slots \in Int
      /\ Len(frames) \in Nat /\ Base \in Nat
      /\ handlers \in Seq(Handler) /\ pendingUnwind \in BOOLEAN
  BY <1>1, Running
<1>3. Front(frames) \in Seq(Frame) /\ Len(Front(frames)) >= Base
  BY <1>2, FrontLast
<1>4. /\ frames' = Append(Front(frames), NewFrame(Top.slots, n))
      /\ stackTop' = Top.slots + n + 1
      /\ UNCHANGED <<handlers, runs, mode, pendingUnwind>>
  BY DEF TailCall, WithTop
<1> QED
  BY <1>1, <1>2, <1>3, <1>4, FramePushed

\* The frame on top returns, to a frame of its run() or to the C caller.
LEMMA FramePopped ==
    ASSUME Inv, mode = "exec", NEW top \in Int, UNCHANGED pendingUnwind,
           IF Len(frames) - 1 = Base
           THEN ReturnFromRun(Front(frames), top)
           ELSE ResumeCaller(Front(frames), Top.slots) /\ UNCHANGED <<runs, mode>>
    PROVE  Inv'
<1>1. /\ frames \in Seq(Frame) /\ frames # <<>> /\ Len(frames) \in Nat /\ Len(frames) > Base
      /\ Base \in Nat /\ Top.slots \in Int
  BY Running
<1>2. Front(frames) \in Seq(Frame) /\ Len(Front(frames)) = Len(frames) - 1
  BY <1>1, FrontLast
<1>3. CASE Len(frames) - 1 = Base
  BY <1>2, <1>3, ReturnFromRunStep
<1>4. CASE Len(frames) - 1 # Base
  <2>1. Len(Front(frames)) > Base
    BY <1>1, <1>2, <1>4
  <2> QED
    BY <1>1, <1>2, <1>4, <2>1, ResumeStep
<1> QED
  BY <1>3, <1>4

\* Return keeps the invariant.
LEMMA ReturnStep ==
    ASSUME Inv, Return
    PROVE  Inv'
<1>1. mode = "exec"
  BY DEF Return, AtStatement
<1>2. Top.slots \in Int
  BY <1>1, Running
<1> QED
  BY <1>1, <1>2, FramePopped DEF Return

\* ReturnInTry keeps the invariant.
LEMMA ReturnInTryStep ==
    ASSUME Inv, ReturnInTry
    PROVE  Inv'
<1> DEFINE j == Innermost(TryPositions(Ctx))
           h == Last(handlers)
<1>1. mode = "exec" /\ TryPositions(Ctx) # {}
  BY DEF ReturnInTry, AtStatement, InTry
<1>2. Ctx \in Seq(Construct) /\ handlers \in Seq(Handler) /\ pendingUnwind \in BOOLEAN
  BY <1>1, Running
<1>3. CASE Ctx[j].phase = "finally" \/ handlers = <<>>
  <2>1. GoWild
    BY <1>3 DEF ReturnInTry
  <2> QED
    BY <2>1, Wild
<1>4. CASE ~(Ctx[j].phase = "finally" \/ handlers = <<>>)
  <2> DEFINE ctx == Append(SubSeq(Ctx, 1, j - 1), InFinally(Ctx[j], "return"))
  <2>1. /\ handlers' = Front(handlers) /\ stackTop' = h.stackTop + 2
        /\ frames' = TopAt(Ctx[j].at, ctx) /\ UNCHANGED <<runs, mode, pendingUnwind>>
    BY <1>4 DEF ReturnInTry
  <2>2. Front(handlers) \in Seq(Handler) /\ h \in Handler
    BY <1>2, <1>4, FrontLast
  <2>3. h.stackTop + 2 \in Int
    BY <2>2 DEF Handler
  <2>4. Ctx[j] \in Construct /\ SubSeq(Ctx, 1, j - 1) \in Seq(Construct)
    BY <1>1, <1>2, InnermostTry
  <2> HIDE DEF j
  <2>5. ctx \in Seq(Construct)
    <3>1. InFinally(Ctx[j], "return") \in Construct
      BY <2>4, ConstructTypes
    <3> QED
      BY <2>4, <3>1, Appended
  <2>6. Ctx[j].at \in Nat
    BY <2>4, LoopLocals
  <2> HIDE DEF ctx
  <2> QED
    BY <1>1, <1>2, <2>1, <2>2, <2>3, <2>5, <2>6, TopMoves
<1> QED
  BY <1>3, <1>4

\* EnterTry keeps the invariant.
LEMMA EnterTryStep ==
    ASSUME Inv, NEW hasCatch \in BOOLEAN, EnterTry(hasCatch)
    PROVE  Inv'
<1> DEFINE c  == TryAt(hasCatch, Top.locals)
           hs == TryHandlers(Len(frames), stackTop, Ctx, c)
<1>1. mode = "exec"
  BY DEF EnterTry, AtStatement
<1>2. CASE Len(handlers) + Len(hs) > EXCEPTION_HANDLER_MAX
  <2>1. HardErrorUnder(runs)
    BY <1>2 DEF EnterTry
  <2> QED
    BY <1>1, <2>1, Running, HardErrorStep
<1>3. CASE ~(Len(handlers) + Len(hs) > EXCEPTION_HANDLER_MAX)
  <2>1. /\ handlers' = handlers \o hs /\ frames' = TopAt(Top.locals, Append(Ctx, c))
        /\ UNCHANGED <<stackTop, runs, mode, pendingUnwind>>
    BY <1>3 DEF EnterTry
  <2>2. /\ Top.locals \in Nat /\ Ctx \in Seq(Construct) /\ Len(frames) \in Nat
        /\ stackTop \in Int /\ handlers \in Seq(Handler) /\ pendingUnwind \in BOOLEAN
    BY <1>1, Running
  <2>3. c \in Construct
    BY <2>2, ConstructTypes
  <2> HIDE DEF c
  <2>4. Append(Ctx, c) \in Seq(Construct)
    BY <2>2, <2>3, Appended
  <2>5. hs \in Seq(Handler)
    BY <2>2, <2>3, HandlerTypes
  <2> HIDE DEF hs
  <2>6. handlers' \in Seq(Handler)
    BY <2>1, <2>2, <2>5
  <2> QED
    BY <1>1, <2>1, <2>2, <2>4, <2>6, TopMoves
<1> QED
  BY <1>2, <1>3

\* FallIntoFinally keeps the invariant.
LEMMA FallIntoFinallyStep ==
    ASSUME Inv, FallIntoFinally
    PROVE  Inv'
<1> DEFINE c == Last(Ctx)
           k == HandlersDropped(c)
<1>1. mode = "exec" /\ Ctx # <<>>
  BY DEF FallIntoFinally, AtStatement
<1>2. CASE Len(handlers) < k
  <2>1. GoWild
    BY <1>2 DEF FallIntoFinally
  <2> QED
    BY <2>1, Wild
<1>3. CASE ~(Len(handlers) < k)
  <2>1. /\ handlers' = SubSeq(handlers, 1, Len(handlers) - k)
        /\ stackTop' = stackTop - (Top.locals - c.at) + 2
        /\ frames' = TopAt(c.at, Append(Front(Ctx), InFinally(c, "normal")))
        /\ UNCHANGED <<runs, mode, pendingUnwind>>
    BY <1>3 DEF FallIntoFinally
  <2>2. /\ Top.locals \in Nat /\ Ctx \in Seq(Construct) /\ stackTop \in Int
        /\ handlers \in Seq(Handler) /\ pendingUnwind \in BOOLEAN
    BY <1>1, Running
  <2>3. c \in Construct /\ Front(Ctx) \in Seq(Construct)
    BY <1>1, <2>2, FrontLast
  <2>4. k \in {1, 2}
    BY DEF HandlersDropped
  <2> HIDE DEF c, k
  <2>5. c.at \in Nat
    BY <2>3, LoopLocals
  <2>6. Append(Front(Ctx), InFinally(c, "normal")) \in Seq(Construct)
    <3>1. InFinally(c, "normal") \in Construct
      BY <2>3, ConstructTypes
    <3> QED
      BY <2>3, <3>1, Appended
  <2>7. handlers' \in Seq(Handler)
    <3>1. Len(handlers) \in Nat /\ Len(handlers) - k \in Int /\ Len(handlers) - k <= Len(handlers)
      BY <2>2, <2>4, EmptyLen
    <3> QED
      BY <2>1, <2>2, <3>1, Prefix
  <2>8. stackTop' \in Int
    BY <2>1, <2>2, <2>5
  <2> QED
    BY <1>1, <2>1, <2>2, <2>5, <2>6, <2>7, <2>8, TopMoves
<1> QED
  BY <1>2, <1>3

\* EndFinally keeps the invariant.
LEMMA EndFinallyStep ==
    ASSUME Inv, EndFinally
    PROVE  Inv'
<1> DEFINE c   == Last(Ctx)
           top == stackTop - (Top.locals - c.at) - 2
<1>1. mode = "exec" /\ Ctx # <<>>
  BY DEF EndFinally, AtStatement
<1>2. /\ Top.locals \in Nat /\ Ctx \in Seq(Construct) /\ stackTop \in Int
      /\ handlers \in Seq(Handler) /\ pendingUnwind \in BOOLEAN
  BY <1>1, Running
<1>3. c \in Construct /\ Front(Ctx) \in Seq(Construct) /\ c.at \in Nat
  BY <1>1, <1>2, FrontLast, LoopLocals
<1>4. top \in Int /\ top - 2 \in Int
  <2> HIDE DEF c
  <2> QED
    BY <1>2, <1>3
<1>5. CASE c.tag = "normal" /\ stackTop' = top /\ frames' = TopAt(c.at, Front(Ctx))
           /\ UNCHANGED <<handlers, runs, mode, pendingUnwind>>
  <2> HIDE DEF c, top
  <2> QED
    BY <1>1, <1>2, <1>3, <1>4, <1>5, TopMoves
<1>6. CASE c.tag = "exception" /\ Raise
  BY <1>1, <1>6, RaiseStep
<1>7. CASE /\ c.tag = "return"
           /\ UNCHANGED pendingUnwind
           /\ IF Len(frames) - 1 = Base
              THEN ReturnFromRun(Front(frames), top - 2)
              ELSE ResumeCaller(Front(frames), Top.slots) /\ UNCHANGED <<runs, mode>>
  <2> HIDE DEF c, top
  <2> QED
    BY <1>1, <1>4, <1>7, FramePopped
<1> QED
  BY <1>5, <1>6, <1>7 DEF EndFinally

\* EnterLoop keeps the invariant.
LEMMA EnterLoopStep ==
    ASSUME Inv, EnterLoop
    PROVE  Inv'
<1>1. mode = "exec"
  BY DEF EnterLoop, AtStatement
<1>2. /\ Top.locals \in Nat /\ Ctx \in Seq(Construct) /\ stackTop \in Int
      /\ handlers \in Seq(Handler) /\ pendingUnwind \in BOOLEAN
  BY <1>1, Running
<1>3. Append(Ctx, LoopAt(Top.locals)) \in Seq(Construct)
  <2>1. LoopAt(Top.locals) \in Construct
    BY <1>2, ConstructTypes
  <2> QED
    BY <1>2, <2>1, Appended
<1> QED
  BY <1>1, <1>2, <1>3, TopMoves DEF EnterLoop

\* EnterForEach keeps the invariant.
LEMMA EnterForEachStep ==
    ASSUME Inv, EnterForEach
    PROVE  Inv'
<1>1. mode = "exec"
  BY DEF EnterForEach, AtStatement
<1>2. /\ Top.locals \in Nat /\ Top.locals + 1 \in Nat /\ Ctx \in Seq(Construct)
      /\ stackTop + 1 \in Int /\ handlers \in Seq(Handler) /\ pendingUnwind \in BOOLEAN
  BY <1>1, Running
<1>3. Append(Ctx, ForEachAt(Top.locals + 1)) \in Seq(Construct)
  <2>1. ForEachAt(Top.locals + 1) \in Construct
    BY <1>2, ConstructTypes
  <2> QED
    BY <1>2, <2>1, Appended
<1> QED
  BY <1>1, <1>2, <1>3, TopMoves DEF EnterForEach

\* Break keeps the invariant.
LEMMA BreakStep ==
    ASSUME Inv, Break
    PROVE  Inv'
<1> DEFINE l == Innermost(LoopPositions(Ctx))
           n == LocalsAfter(Ctx[l])
<1>1. mode = "exec" /\ LoopPositions(Ctx) # {}
  BY DEF Break, AtStatement
<1>2. /\ Top.locals \in Nat /\ Ctx \in Seq(Construct) /\ stackTop \in Int
      /\ handlers \in Seq(Handler) /\ pendingUnwind \in BOOLEAN
  BY <1>1, Running
<1>3. Ctx[l] \in Construct /\ SubSeq(Ctx, 1, l - 1) \in Seq(Construct)
  BY <1>1, <1>2, InnermostLoop
<1>4. /\ frames' = TopAt(n, SubSeq(Ctx, 1, l - 1))
      /\ stackTop' = stackTop - (Top.locals - n)
      /\ UNCHANGED <<handlers, runs, mode, pendingUnwind>>
  BY DEF Break, LeaveInnerScopes
<1> HIDE DEF l
<1>5. n \in Nat
  BY <1>3, LoopLocals
<1> HIDE DEF n
<1>6. stackTop' \in Int
  BY <1>2, <1>4, <1>5
<1> QED
  BY <1>1, <1>2, <1>3, <1>4, <1>5, <1>6, TopMoves

\* Continue keeps the invariant.
LEMMA ContinueStep ==
    ASSUME Inv, Continue
    PROVE  Inv'
<1> DEFINE l == Innermost(LoopPositions(Ctx))
           c == IF Ctx[l].kind = "foreach" THEN InPhase(Ctx[l], "start") ELSE Ctx[l]
<1>1. mode = "exec" /\ LoopPositions(Ctx) # {}
  BY DEF Continue, AtStatement
<1>2. /\ Top.locals \in Nat /\ Ctx \in Seq(Construct) /\ stackTop \in Int
      /\ handlers \in Seq(Handler) /\ pendingUnwind \in BOOLEAN
  BY <1>1, Running
<1>3. Ctx[l] \in Construct /\ SubSeq(Ctx, 1, l - 1) \in Seq(Construct)
  BY <1>1, <1>2, InnermostLoop
<1>4. /\ frames' = TopAt(c.at, Append(SubSeq(Ctx, 1, l - 1), c))
      /\ stackTop' = stackTop - (Top.locals - c.at)
      /\ UNCHANGED <<handlers, runs, mode, pendingUnwind>>
  BY DEF Continue, LeaveInnerScopes
<1> HIDE DEF l
<1>5. c \in Construct
  BY <1>3, ConstructTypes
<1> HIDE DEF c
<1>6. c.at \in Nat /\ Append(SubSeq(Ctx, 1, l - 1), c) \in Seq(Construct)
  BY <1>3, <1>5, LoopLocals, Appended
<1>7. stackTop' \in Int
  BY <1>2, <1>4, <1>6
<1> QED
  BY <1>1, <1>2, <1>4, <1>6, <1>7, TopMoves

\* A for-each at its start.
LEMMA LoopStart ==
    ASSUME Inv, AtLoopStart
    PROVE  /\ mode = "exec"
           /\ Front(Ctx) \in Seq(Construct)
           /\ Last(Ctx) \in Construct /\ Last(Ctx).kind = "foreach"
           /\ Top.locals \in Nat /\ Top.locals + 1 \in Nat
           /\ stackTop \in Int /\ handlers \in Seq(Handler) /\ pendingUnwind \in BOOLEAN
<1>1. mode = "exec" /\ Ctx # <<>> /\ Last(Ctx).phase = "start"
  BY DEF AtLoopStart
<1>2. /\ Top.locals \in Nat /\ Top.locals + 1 \in Nat /\ Ctx \in Seq(Construct)
      /\ stackTop \in Int /\ handlers \in Seq(Handler) /\ pendingUnwind \in BOOLEAN
  BY <1>1, Running
<1>3. Front(Ctx) \in Seq(Construct) /\ Last(Ctx) \in Construct
  BY <1>1, <1>2, FrontLast
<1>4. Last(Ctx).kind = "foreach"
  BY <1>1, <1>3 DEF Construct
<1> QED
  BY <1>1, <1>2, <1>3, <1>4

\* ForEachNoRoom keeps the invariant.
LEMMA ForEachNoRoomStep ==
    ASSUME Inv, ForEachNoRoom
    PROVE  Inv'
<1>1. mode = "exec" /\ HardErrorUnder(runs)
  BY DEF ForEachNoRoom, AtLoopStart
<1> QED
  BY <1>1, Running, HardErrorStep

\* ForEachHit keeps the invariant.
LEMMA ForEachHitStep ==
    ASSUME Inv, ForEachHit
    PROVE  Inv'
<1>1. AtLoopStart
  BY DEF ForEachHit
<1>2. Append(Front(Ctx), InPhase(Last(Ctx), "body")) \in Seq(Construct)
  <2>1. InPhase(Last(Ctx), "body") \in Construct
    BY <1>1, LoopStart, ConstructTypes
  <2> QED
    BY <1>1, <2>1, LoopStart, Appended
<1>3. stackTop + 1 \in Int
  BY <1>1, LoopStart
<1> QED
  BY <1>1, <1>2, <1>3, LoopStart, TopMoves DEF ForEachHit

\* ForEachExhausted keeps the invariant.
LEMMA ForEachExhaustedStep ==
    ASSUME Inv, ForEachExhausted
    PROVE  Inv'
<1>1. AtLoopStart
  BY DEF ForEachExhausted
<1>2. LocalsAfter(Last(Ctx)) \in Nat /\ stackTop - 1 \in Int
  BY <1>1, LoopStart, LoopLocals
<1> QED
  BY <1>1, <1>2, LoopStart, TopMoves DEF ForEachExhausted

\* ForEachNextCall keeps the invariant.
LEMMA ForEachNextCallStep ==
    ASSUME Inv, ForEachNextCall
    PROVE  Inv'
<1>1. AtLoopStart
  BY DEF ForEachNextCall
<1>2. CASE Len(frames) = FRAMES_MAX
  <2>1. HardErrorUnder(runs) /\ mode = "exec"
    BY <1>1, <1>2 DEF ForEachNextCall, AtLoopStart
  <2> QED
    BY <2>1, Running, HardErrorStep
<1>3. CASE Len(frames) # FRAMES_MAX
  <2> DEFINE c == InPhase(Last(Ctx), "next")
             h == LoopHandler(Len(frames), stackTop, Front(Ctx), c)
             fs == TopAt(Top.locals, Append(Front(Ctx), c))
  <2>1. /\ handlers' = Append(handlers, h)
        /\ frames' = Append(fs, NewFrame(stackTop, 0))
        /\ stackTop' = stackTop + 1
        /\ UNCHANGED <<runs, mode, pendingUnwind>>
    BY <1>3 DEF ForEachNextCall
  <2>2. c \in Construct /\ c.kind = "foreach"
    <3>1. c \in Construct
      BY <1>1, LoopStart, ConstructTypes
    <3>2. c.kind = "foreach"
      BY <1>1, LoopStart DEF InPhase, Construct
    <3> QED
      BY <3>1, <3>2
  <2>3. /\ mode = "exec" /\ Front(Ctx) \in Seq(Construct) /\ stackTop \in Int
        /\ handlers \in Seq(Handler) /\ pendingUnwind \in BOOLEAN /\ Top.locals \in Nat
    BY <1>1, LoopStart
  <2>4. frames \in Seq(Frame) /\ frames # <<>> /\ Len(frames) \in Nat /\ Len(frames) > Base
        /\ Base \in Nat
    BY <2>3, Running
  <2> HIDE DEF c
  <2>5. Append(Front(Ctx), c) \in Seq(Construct)
    BY <2>2, <2>3, Appended
  <2>6. h \in Handler
    BY <2>2, <2>3, <2>4, HandlerTypes
  <2>7. fs \in Seq(Frame) /\ Len(fs) = Len(frames)
    BY <2>3, <2>4, <2>5, TopAtType
  <2> HIDE DEF h, fs
  <2>8. handlers' \in Seq(Handler)
    BY <2>1, <2>3, <2>6, Appended
  <2>9. Len(fs) >= Base /\ stackTop' \in Int
    BY <2>1, <2>3, <2>4, <2>7
  <2> QED
    BY <2>1, <2>3, <2>7, <2>8, <2>9, FramePushed
<1> QED
  BY <1>2, <1>3

\* Land keeps the invariant.
LEMMA LandStep ==
    ASSUME Inv, Land
    PROVE  Inv'
<1> DEFINE h == Last(handlers)
           f == [slots |-> frames[h.frameCount].slots, locals |-> h.locals, ctx |-> h.ctx]
<1>1. mode = "unwind" /\ h.frameCount > Base
  BY DEF Land, OwnedByThisRun
<1>2. /\ frames \in Seq(Frame) /\ Len(frames) \in Nat /\ Base \in Nat
      /\ handlers \in Seq(Handler) /\ handlers # <<>>
  BY <1>1, Running DEF Inv, RunNesting
<1>3. CASE h.frameCount > Len(frames)
  <2>1. GoWild
    BY <1>3 DEF Land
  <2> QED
    BY <2>1, Wild
<1>4. CASE ~(h.frameCount > Len(frames))
  <2>1. /\ handlers' = Front(handlers)
        /\ frames' = Append(SubSeq(frames, 1, h.frameCount - 1), f)
        /\ stackTop' = LandingTop(h)
        /\ pendingUnwind' = FALSE /\ mode' = "exec" /\ UNCHANGED runs
    BY <1>4 DEF Land
  <2>2. h \in Handler /\ Front(handlers) \in Seq(Handler)
    BY <1>2, FrontLast
  <2>3. h.frameCount \in Nat /\ h.stackTop \in Int /\ h.locals \in Nat /\ h.ctx \in Seq(Construct)
    BY <2>2 DEF Handler
  <2>4. LandingTop(h) \in Int
    BY <2>3 DEF LandingTop
  <2> HIDE DEF h
  <2>5. h.frameCount \in 1 .. Len(frames)
    BY <1>1, <1>2, <1>4, <2>3
  <2>6. f \in Frame
    <3>1. frames[h.frameCount] \in Frame
      BY <1>2, <2>5
    <3>2. frames[h.frameCount].slots \in Int
      BY <3>1 DEF Frame
    <3> QED
      BY <2>3, <3>2 DEF Frame
  <2> HIDE DEF f
  <2>7. /\ SubSeq(frames, 1, h.frameCount - 1) \in Seq(Frame)
        /\ Len(SubSeq(frames, 1, h.frameCount - 1)) = h.frameCount - 1
    <3>1. h.frameCount - 1 \in Int /\ h.frameCount - 1 <= Len(frames) /\ h.frameCount - 1 >= 0
      BY <1>2, <2>5
    <3> QED
      BY <1>2, <3>1, Prefix
  <2>8. frames' \in Seq(Frame) /\ Len(frames') = h.frameCount - 1 + 1
    BY <2>1, <2>6, <2>7, Appended
  <2>9. Len(frames') > Base
    BY <1>1, <1>2, <2>3, <2>8
  <2> QED
    BY <1>1, <2>1, <2>2, <2>4, <2>8, <2>9, SameRun
<1> QED
  BY <1>3, <1>4

\* The run() that executes has returned to the one below.
LEMMA RunLeft ==
    ASSUME Inv, RunStack(runs), runs # <<>>, Last(runs).kind # "interpret",
           Last(runs).base \in Nat,
           frames' \in Seq(Frame), Len(frames') = Last(runs).base,
           stackTop' \in Int, handlers' \in Seq(Handler), pendingUnwind' \in BOOLEAN,
           runs' = Front(runs),
           \/ mode' = "exec"
           \/ mode' = "unwind" /\ handlers' # <<>>
    PROVE  Inv'
<1>1. /\ RunStack(Front(runs)) /\ Front(runs) # <<>>
      /\ Last(Front(runs)).base < Last(runs).base
  BY RunPopped
<1>2. TypeOK'
  BY <1>1 DEF TypeOK, Modes, RunStack
<1>3. RunNesting'
  <2>1. Len(frames') > Base'
    BY <1>1 DEF Base
  <2> QED
    BY <1>1, <2>1 DEF RunNesting, RunStack
<1> QED
  BY <1>2, <1>3 DEF Inv

\* Propagate keeps the invariant.
LEMMA PropagateStep ==
    ASSUME Inv, Propagate
    PROVE  Inv'
<1> DEFINE r == Last(runs)
<1>1. mode = "unwind" /\ r.kind # "interpret"
  BY DEF Propagate
<1>2. /\ RunStack(runs) /\ runs # <<>> /\ r \in Run /\ Base \in Nat
      /\ frames \in Seq(Frame) /\ Len(frames) \in Nat /\ Len(frames) > Base
      /\ handlers \in Seq(Handler) /\ pendingUnwind \in BOOLEAN
  BY <1>1, Running
<1>3. handlers # <<>>
  BY <1>1 DEF Inv, RunNesting
<1>4. /\ frames' = SubSeq(frames, 1, r.base)
      /\ stackTop' = (IF r.kind = "native" THEN r.savedTop - NativeTemps ELSE r.savedTop)
      /\ mode' = ModeAfterUnwind(r.kind)
      /\ runs' = Front(runs)
      /\ UNCHANGED <<handlers, pendingUnwind>>
  BY DEF Propagate
<1>5. r.base \in Nat /\ r.base < Len(frames) /\ r.savedTop \in Int
  BY <1>2 DEF Base, Run
<1>6. frames' \in Seq(Frame) /\ Len(frames') = r.base
  BY <1>2, <1>4, <1>5, Prefix
<1>7. stackTop' \in Int
  BY <1>4, <1>5 DEF NativeTemps
<1>8. mode' = "exec" \/ mode' = "unwind"
  BY <1>4 DEF ModeAfterUnwind
<1> QED
  BY <1>1, <1>2, <1>3, <1>4, <1>5, <1>6, <1>7, <1>8, RunLeft

\* EqualityTest keeps the invariant.
LEMMA EqualityTestStep ==
    ASSUME Inv, EqualityTest
    PROVE  Inv'
<1>1. CASE handlers = <<>>
  <2>1. GoWild
    BY <1>1 DEF EqualityTest
  <2> QED
    BY <2>1, Wild
<1>2. CASE handlers # <<>>
  <2>1. /\ mode = "exec" /\ mode' = "unwind"
        /\ UNCHANGED <<frames, stackTop, handlers, runs, pendingUnwind>>
    BY <1>2 DEF EqualityTest, AtStatement
  <2>2. TypeOK'
    BY <2>1 DEF Inv, TypeOK, Modes
  <2>3. RunNesting'
    BY <1>2, <2>1 DEF Inv, RunNesting, Base
  <2> QED
    BY <2>2, <2>3 DEF Inv
<1> QED
  BY <1>1, <1>2

\* ErrorReturn keeps the invariant.
LEMMA ErrorReturnStep ==
    ASSUME Inv, ErrorReturn
    PROVE  Inv'
<1> DEFINE r == Last(runs)
<1>1. mode = "error" /\ runs # <<>> /\ frames = <<>> /\ RunStack(runs)
  BY DEF ErrorReturn, Inv, TypeOK, RunNesting, RunStack
<1>2. /\ r \in Run /\ Len(runs) \in Nat /\ Len(runs) > 0 /\ r = runs[Len(runs)]
      /\ Front(runs) \in Seq(Run) /\ Len(Front(runs)) = Len(runs) - 1
  BY <1>1, FrontLast DEF RunStack
<1>3. CASE r.kind \in Swallows
  <2>1. GoWild
    BY <1>3 DEF ErrorReturn
  <2> QED
    BY <2>1, Wild
<1>4. CASE r.kind \notin Swallows
  <2>1. /\ runs' = Front(runs)
        /\ mode' = (IF r.kind = "interpret" THEN AfterProgram ELSE "error")
        /\ stackTop' = (IF r.kind = "native" THEN stackTop - NativeTemps ELSE stackTop)
        /\ UNCHANGED <<frames, handlers, pendingUnwind>>
    BY <1>4 DEF ErrorReturn
  <2>2. /\ frames \in Seq(Frame) /\ stackTop \in Int /\ handlers \in Seq(Handler)
        /\ pendingUnwind \in BOOLEAN
    BY DEF Inv, TypeOK
  <2>3. stackTop' \in Int
    BY <2>1, <2>2 DEF NativeTemps
  <2>4. mode' \in {"idle", "exited", "error"}
    BY <2>1 DEF AfterProgram
  <2>5. TypeOK'
    <3>1. mode' \in Modes
      BY <2>4 DEF Modes
    <3>2. runs' \in Seq(Run) /\ frames' \in Seq(Frame) /\ handlers' \in Seq(Handler)
          /\ pendingUnwind' \in BOOLEAN
      BY <1>2, <2>1, <2>2
    <3> QED
      BY <2>3, <3>1, <3>2 DEF TypeOK
  <2>6. CASE r.kind = "interpret"
    <3>1. Len(runs) \in 1 .. Len(runs)
      BY <1>2
    <3>2. Len(runs) = 1
      BY <1>1, <1>2, <2>6, <3>1 DEF RunStack
    <3>3. runs' = <<>>
      BY <1>2, <2>1, <3>2, EmptyLen
    <3>4. mode' \in {"idle", "exited"}
      BY <2>1, <2>6 DEF AfterProgram
    <3>5. RunNesting'
      <4>1. frames' = <<>>
        BY <1>1, <2>1
      <4> QED
        BY <3>3, <3>4, <4>1 DEF RunNesting
    <3> QED
      BY <2>5, <3>5 DEF Inv
  <2>7. CASE r.kind # "interpret"
    <3>1. RunStack(runs') /\ runs' # <<>>
      BY <1>1, <2>1, <2>7, RunPopped
    <3>2. mode' = "error" /\ frames' = <<>>
      BY <1>1, <2>1, <2>7
    <3>3. RunNesting'
      BY <3>1, <3>2 DEF RunNesting, RunStack
    <3> QED
      BY <2>5, <3>3 DEF Inv
  <2> QED
    BY <2>6, <2>7
<1> QED
  BY <1>3, <1>4

\* NestedCall keeps the invariant.
LEMMA NestedCallStep ==
    ASSUME Inv, NEW kind \in Calls, NestedCall(kind)
    PROVE  Inv'
<1> DEFINE r == [kind |-> kind, base |-> Len(frames), savedTop |-> stackTop + CellsBelow(kind)]
<1>1. mode = "exec"
  BY DEF NestedCall, AtStatement
<1>2. /\ RunStack(runs) /\ runs # <<>> /\ Base \in Nat
      /\ frames \in Seq(Frame) /\ Len(frames) \in Nat /\ Len(frames) > Base
      /\ stackTop \in Int /\ handlers \in Seq(Handler) /\ pendingUnwind \in BOOLEAN
  BY <1>1, Running
<1>3. r \in Run /\ r.kind # "interpret" /\ Base < r.base /\ r.savedTop \in Int
      /\ r.base = Len(frames)
  <2>1. kind \in AllCalls
    BY ConstantsAssumption
  <2>2. stackTop + CellsBelow(kind) \in Int
    BY <1>2 DEF CellsBelow, NativeArgs, NativeTemps
  <2>3. kind # "interpret"
    BY <2>1 DEF AllCalls
  <2> QED
    BY <1>2, <2>1, <2>2, <2>3 DEF Run
<1> HIDE DEF r
<1>4. RunStack(Append(runs, r)) /\ Append(runs, r) # <<>> /\ Last(Append(runs, r)) = r
  BY <1>2, <1>3, RunPushed DEF Base
<1>5. CASE Len(frames) = FRAMES_MAX
  <2>1. HardErrorUnder(Append(runs, r))
    BY <1>5 DEF NestedCall, r
  <2> QED
    BY <1>4, <2>1, HardErrorStep
<1>6. CASE Len(frames) # FRAMES_MAX
  <2>1. /\ runs' = Append(runs, r)
        /\ frames' = Append(frames, NewFrame(r.savedTop, Arguments(kind)))
        /\ stackTop' = r.savedTop + Arguments(kind) + 1
        /\ UNCHANGED <<handlers, mode, pendingUnwind>>
    BY <1>6 DEF NestedCall, r
  <2>2. NewFrame(r.savedTop, Arguments(kind)) \in Frame /\ Arguments(kind) \in Nat
    <3>1. Arguments(kind) \in Nat
      BY DEF Arguments
    <3> QED
      BY <1>3, <3>1, NewFrameType
  <2>3. frames' \in Seq(Frame) /\ Len(frames') = Len(frames) + 1
    BY <1>2, <2>1, <2>2, Appended
  <2>4. TypeOK'
    <3>1. runs' \in Seq(Run)
      BY <1>4, <2>1 DEF RunStack
    <3>2. mode' \in Modes /\ handlers' \in Seq(Handler) /\ pendingUnwind' \in BOOLEAN
      BY <1>1, <1>2, <2>1 DEF Modes
    <3>3. stackTop' \in Int
      BY <1>3, <2>1, <2>2
    <3> QED
      BY <2>3, <3>1, <3>2, <3>3 DEF TypeOK
  <2>5. RunNesting'
    <3>1. Len(frames') > Base'
      BY <1>2, <1>3, <1>4, <2>1, <2>3 DEF Base
    <3>2. mode' = "exec"
      BY <1>1, <2>1
    <3>3. RunStack(runs') /\ runs' # <<>>
      BY <1>4, <2>1
    <3> QED
      BY <3>1, <3>2, <3>3 DEF RunNesting, RunStack
  <2> QED
    BY <2>4, <2>5 DEF Inv
<1> QED
  BY <1>5, <1>6

\* What the invariant says while a native works between two callbacks.
LEMMA InNative ==
    ASSUME Inv, mode = "native"
    PROVE  /\ RunStack(runs) /\ runs # <<>> /\ Last(runs).kind = "native"
           /\ Last(runs).base \in Nat /\ Len(frames) = Last(runs).base
           /\ frames \in Seq(Frame) /\ stackTop \in Int
           /\ handlers \in Seq(Handler) /\ pendingUnwind \in BOOLEAN
<1>1. /\ RunStack(runs) /\ runs # <<>> /\ Last(runs).kind = "native"
      /\ Len(frames) = Last(runs).base
      /\ frames \in Seq(Frame) /\ stackTop \in Int
      /\ handlers \in Seq(Handler) /\ pendingUnwind \in BOOLEAN
  BY DEF Inv, TypeOK, RunNesting, RunStack, Base
<1>2. Last(runs) \in Run
  BY <1>1, FrontLast DEF RunStack
<1>3. Last(runs).base \in Nat
  BY <1>2 DEF Run
<1> QED
  BY <1>1, <1>3

\* CallbackAgain keeps the invariant.
LEMMA CallbackAgainStep ==
    ASSUME Inv, CallbackAgain
    PROVE  Inv'
<1>1. mode = "native"
  BY DEF CallbackAgain
<1>2. CASE stackTop < 0
  <2>1. GoWild
    BY <1>2 DEF CallbackAgain
  <2> QED
    BY <2>1, Wild
<1>3. CASE ~(stackTop < 0)
  <2>1. /\ frames' = Append(frames, NewFrame(stackTop, 1)) /\ stackTop' = stackTop + 2
        /\ mode' = "exec" /\ UNCHANGED <<handlers, runs, pendingUnwind>>
    BY <1>3 DEF CallbackAgain
  <2>2. NewFrame(stackTop, 1) \in Frame
    BY <1>1, InNative, NewFrameType
  <2>3. frames' \in Seq(Frame) /\ Len(frames') = Len(frames) + 1 /\ Len(frames) \in Nat
    BY <1>1, <2>1, <2>2, InNative, Appended
  <2>4. TypeOK'
    <3>1. mode' \in Modes /\ stackTop' \in Int
      BY <1>1, <2>1, InNative DEF Modes
    <3>2. runs' \in Seq(Run)
      BY <1>1, <2>1, InNative DEF RunStack
    <3> QED
      BY <1>1, <2>1, <2>3, <3>1, <3>2, InNative DEF TypeOK
  <2>5. RunNesting'
    <3>1. Len(frames') > Base'
      BY <1>1, <2>1, <2>3, InNative DEF Base
    <3>2. RunStack(runs') /\ runs' # <<>>
      BY <1>1, <2>1, InNative
    <3> QED
      BY <2>1, <3>1, <3>2 DEF RunNesting, RunStack
  <2> QED
    BY <2>4, <2>5 DEF Inv
<1> QED
  BY <1>2, <1>3

\* NativeFinish keeps the invariant.
LEMMA NativeFinishStep ==
    ASSUME Inv, NativeFinish
    PROVE  Inv'
<1>1. /\ mode = "native" /\ mode' = "exec" /\ runs' = Front(runs)
      /\ stackTop' = stackTop - NativeTemps - NativeArgs
      /\ UNCHANGED <<frames, handlers, pendingUnwind>>
  BY DEF NativeFinish
<1>2. stackTop' \in Int
  BY <1>1, InNative DEF NativeTemps, NativeArgs
<1> QED
  BY <1>1, <1>2, InNative, RunLeft

\* NativeFail keeps the invariant.
LEMMA NativeFailStep ==
    ASSUME Inv, NativeFail
    PROVE  Inv'
<1>1. mode = "native" /\ runs' = Front(runs)
  BY DEF NativeFail
<1>2. CASE handlers = <<>>
  <2>1. HardErrorUnder(Front(runs))
    BY <1>2 DEF NativeFail
  <2>2. RunStack(Front(runs)) /\ Front(runs) # <<>>
    BY <1>1, InNative, RunPopped
  <2> QED
    BY <2>1, <2>2, HardErrorStep
<1>3. CASE handlers # <<>>
  <2>1. /\ stackTop' = stackTop - NativeTemps - NativeArgs
        /\ pendingUnwind' = TRUE /\ mode' = "unwind" /\ UNCHANGED <<frames, handlers>>
    BY <1>3 DEF NativeFail
  <2>2. stackTop' \in Int
    BY <1>1, <2>1, InNative DEF NativeTemps, NativeArgs
  <2> QED
    BY <1>1, <1>3, <2>1, <2>2, InNative, RunLeft
<1> QED
  BY <1>2, <1>3
-----------------------------------------------------------------------------
(* The invariant.                                                          *)

\* The machine starts in the invariant.
LEMMA InitInv == Init => Inv
<1> SUFFICES ASSUME Init PROVE Inv
  OBVIOUS
<1>1. TypeOK
  <2>1. frames \in Seq(Frame) /\ handlers \in Seq(Handler) /\ runs \in Seq(Run)
    BY EmptyStacks, Zenon DEF Init
  <2>2. stackTop = 0
    BY DEF Init
  <2>3. stackTop \in Int
    BY <2>2
  <2>4. mode \in Modes /\ pendingUnwind \in BOOLEAN
    BY Zenon DEF Init, Modes
  <2> QED
    BY <2>1, <2>3, <2>4, Zenon DEF TypeOK
<1>2. RunNesting
  BY DEF Init, RunNesting
<1> QED
  BY <1>1, <1>2 DEF Inv

\* Every statement keeps the invariant.
LEMMA StatementInv ==
    ASSUME Inv, Statement
    PROVE  Inv'
<1>1. CASE Declare
  BY <1>1, DeclareStep
<1>2. CASE StackOverflow
  BY <1>2, StackOverflowStep
<1>3. CASE StackUnderflow
  BY <1>3, Wild DEF StackUnderflow
<1>4. CASE HardError
  BY <1>4, Running, HardErrorStep DEF HardError, AtStatement
<1>5. CASE Throw
  BY <1>5, RaiseStep DEF Throw, AtStatement
<1>6. CASE \E n \in 0 .. 1 : Call(n) \/ TailCall(n)
  BY <1>6, CallStep, TailCallStep
<1>7. CASE Return
  BY <1>7, ReturnStep
<1>8. CASE ReturnInTry
  BY <1>8, ReturnInTryStep
<1>9. CASE \E hasCatch \in BOOLEAN : EnterTry(hasCatch)
  BY <1>9, EnterTryStep
<1>10. CASE FallIntoFinally
  BY <1>10, FallIntoFinallyStep
<1>11. CASE EndFinally
  BY <1>11, EndFinallyStep
<1>12. CASE EnterLoop
  BY <1>12, EnterLoopStep
<1>13. CASE EnterForEach
  BY <1>13, EnterForEachStep
<1>14. CASE Break
  BY <1>14, BreakStep
<1>15. CASE Continue
  BY <1>15, ContinueStep
<1>16. CASE ForEachNoRoom
  BY <1>16, ForEachNoRoomStep
<1>17. CASE ForEachHit
  BY <1>17, ForEachHitStep
<1>18. CASE ForEachExhausted
  BY <1>18, ForEachExhaustedStep
<1>19. CASE ForEachNextCall
  BY <1>19, ForEachNextCallStep
<1>20. CASE EqualityTest
  BY <1>20, EqualityTestStep
<1>21. CASE \E kind \in Calls : NestedCall(kind)
  BY <1>21, NestedCallStep
<1> QED
  BY <1>1, <1>2, <1>3, <1>4, <1>5, <1>6, <1>7, <1>8, <1>9, <1>10, <1>11, <1>12, <1>13,
     <1>14, <1>15, <1>16, <1>17, <1>18, <1>19, <1>20, <1>21 DEF Statement

\* Every step of the C code between statements keeps it.
LEMMA InCInv ==
    ASSUME Inv, InC
    PROVE  Inv'
<1>1. CASE Land
  BY <1>1, LandStep
<1>2. CASE Propagate
  BY <1>2, PropagateStep
<1>3. CASE ErrorReturn
  BY <1>3, ErrorReturnStep
<1>4. CASE CallbackAgain
  BY <1>4, CallbackAgainStep
<1>5. CASE NativeFinish
  BY <1>5, NativeFinishStep
<1>6. CASE NativeFail
  BY <1>6, NativeFailStep
<1> QED
  BY <1>1, <1>2, <1>3, <1>4, <1>5, <1>6 DEF InC

\* Every step keeps it.
LEMMA NextInv == Inv /\ [Next]_vars => Inv'
<1> SUFFICES ASSUME Inv, [Next]_vars PROVE Inv'
  OBVIOUS
<1>1. CASE Interpret
  BY <1>1, InterpretStep
<1>2. CASE Statement
  BY <1>2, StatementInv
<1>3. CASE InC
  BY <1>3, InCInv
<1>4. CASE UNCHANGED vars
  <2>1. TypeOK'
    BY <1>4 DEF vars, Inv, TypeOK
  <2>2. RunNesting'
    BY <1>4 DEF vars, Inv, RunNesting, Base
  <2> QED
    BY <2>1, <2>2 DEF Inv
<1> QED
  BY <1>1, <1>2, <1>3, <1>4 DEF Next

\* So it holds in every state.
LEMMA AlwaysInv == Spec => []Inv
<1> QED
  BY InitInv, NextInv, PTL DEF Spec

\* Type correctness, for every size of the three stacks and every statement form:
\* in particular no statement leaves a negative number of locals, no handler
\* refers to a point of the code without its locals, and a for-each never counts
\* fewer locals than its iterator.
THEOREM TypeCorrect == Spec => []TypeOK
<1>1. Inv => TypeOK
  BY DEF Inv
<1> QED
  BY <1>1, AlwaysInv, PTL

\* The test `frameCount == baseFrame`, with which a run() finds out that the call
\* it was started for is over, is met by the invocation that started it: whatever
\* the program does, run() never executes a frame of its C caller, and the
\* invocations on the C stack nest.
THEOREM RunsNest == Spec => []RunNesting
<1>1. Inv => RunNesting
  BY DEF Inv
<1> QED
  BY <1>1, AlwaysInv, PTL
-----------------------------------------------------------------------------
(* Pending unwinds of programs in which no caller of run() swallows one.   *)

\* Every run() was called by interpret() or in one of the ways programs may use.
CallersAllowed(rs) == \A i \in 1 .. Len(rs) : rs[i].kind \in {"interpret"} \cup Calls

\* A pending unwind does not survive into the execution of a statement.
PendingOnlyWhileUnwinding == pendingUnwind => mode = "unwind"

PendInv == PendingOnlyWhileUnwinding /\ CallersAllowed(runs)

\* A step that leaves the run() invocations alone, starts no unwinding without a
\* pending exception and leaves none pending without unwinding.
LEMMA PendKept ==
    ASSUME PendInv, CallersAllowed(runs'), pendingUnwind' => mode' = "unwind"
    PROVE  PendInv'
BY DEF PendInv, PendingOnlyWhileUnwinding

\* Leaving an invocation.
LEMMA CallersOfFront ==
    ASSUME NEW rs \in Seq(Run), rs # <<>>, CallersAllowed(rs)
    PROVE  CallersAllowed(Front(rs)) /\ Last(rs).kind \in {"interpret"} \cup Calls
<1>1. /\ Len(rs) \in Nat /\ Len(rs) > 0 /\ Last(rs) = rs[Len(rs)]
      /\ Len(Front(rs)) = Len(rs) - 1
      /\ \A i \in 1 .. Len(rs) - 1 : Front(rs)[i] = rs[i]
  BY FrontLast
<1> QED
  BY <1>1 DEF CallersAllowed

\* Entering one.
LEMMA CallersOfAppend ==
    ASSUME NEW rs \in Seq(Run), CallersAllowed(rs), NEW r \in Run, r.kind \in Calls
    PROVE  CallersAllowed(Append(rs, r))
<1>1. /\ Len(rs) \in Nat /\ Len(Append(rs, r)) = Len(rs) + 1
      /\ Append(rs, r)[Len(rs) + 1] = r
      /\ \A i \in 1 .. Len(rs) : Append(rs, r)[i] = rs[i]
  BY Appended
<1> QED
  BY <1>1 DEF CallersAllowed

\* The steps several actions share.
LEMMA PendGoWild ==
    ASSUME PendInv, GoWild
    PROVE  PendInv'
<1>1. runs' = <<>> /\ pendingUnwind' = FALSE
  BY DEF GoWild
<1>2. CallersAllowed(runs')
  BY <1>1 DEF CallersAllowed
<1> QED
  BY <1>1, <1>2, PendKept

\* An uncatchable error ends any unwinding.
LEMMA PendHardError ==
    ASSUME PendInv, NEW rs, CallersAllowed(rs), HardErrorUnder(rs)
    PROVE  PendInv'
<1>1. runs' = rs /\ pendingUnwind' = FALSE
  BY DEF HardErrorUnder, ResetStack
<1> QED
  BY <1>1, PendKept

\* A throw unwinds, or ends the program.
LEMMA PendRaise ==
    ASSUME PendInv, Raise
    PROVE  PendInv'
<1>1. CallersAllowed(runs)
  BY DEF PendInv
<1>2. CASE handlers = <<>>
  BY <1>1, <1>2, PendHardError DEF Raise
<1>3. CASE handlers # <<>>
  BY <1>1, <1>3, PendKept DEF Raise
<1> QED
  BY <1>2, <1>3

\* A statement that neither raises nor calls through C.
LEMMA PendQuiet ==
    ASSUME PendInv, UNCHANGED <<runs, mode, pendingUnwind>>
    PROVE  PendInv'
BY DEF PendInv, PendingOnlyWhileUnwinding

\* A return out of a run() leaves no unwind pending.
LEMMA PendReturn ==
    ASSUME Inv, PendInv, mode = "exec", NEW fs, NEW top, ReturnFromRun(fs, top),
           UNCHANGED pendingUnwind
    PROVE  PendInv'
<1>1. runs \in Seq(Run) /\ runs # <<>> /\ CallersAllowed(runs)
  BY Running DEF PendInv, RunStack
<1>2. CallersAllowed(Front(runs))
  BY <1>1, CallersOfFront
<1>3. runs' = runs \/ runs' = Front(runs)
  BY DEF ReturnFromRun
<1>4. ~pendingUnwind'
  BY DEF PendInv, PendingOnlyWhileUnwinding
<1>5. CallersAllowed(runs')
  BY <1>1, <1>2, <1>3
<1> QED
  BY <1>4, <1>5, PendKept

\* Nor does a return to a frame of the same run().
LEMMA PendFramePopped ==
    ASSUME Inv, PendInv, mode = "exec", NEW top, UNCHANGED pendingUnwind,
           IF Len(frames) - 1 = Base
           THEN ReturnFromRun(Front(frames), top)
           ELSE ResumeCaller(Front(frames), Top.slots) /\ UNCHANGED <<runs, mode>>
    PROVE  PendInv'
<1>1. CASE Len(frames) - 1 = Base
  BY <1>1, PendReturn
<1>2. CASE Len(frames) - 1 # Base
  BY <1>2, PendQuiet
<1> QED
  BY <1>1, <1>2

\* No statement leaves an unwind pending.
LEMMA PendStatement ==
    ASSUME Inv, PendInv, Statement, Calls \cap Swallows = {}
    PROVE  PendInv'
<1>0. CallersAllowed(runs)
  BY DEF PendInv
<1>1. CASE Declare
  BY <1>1, PendQuiet DEF Declare
<1>2. CASE StackOverflow
  <2>1. runs' = <<>> /\ pendingUnwind' = FALSE
    BY <1>2 DEF StackOverflow, ResetStack
  <2>2. CallersAllowed(runs')
    BY <2>1 DEF CallersAllowed
  <2> QED
    BY <2>1, <2>2, PendKept
<1>3. CASE StackUnderflow
  BY <1>3, PendGoWild DEF StackUnderflow
<1>4. CASE HardError
  BY <1>0, <1>4, PendHardError DEF HardError
<1>5. CASE Throw
  BY <1>5, PendRaise DEF Throw
<1>6. ASSUME NEW n \in 0 .. 1, Call(n) \/ TailCall(n)
      PROVE  PendInv'
  <2>1. CASE Call(n) /\ Len(frames) = FRAMES_MAX
    BY <1>0, <2>1, PendHardError DEF Call
  <2>2. CASE Call(n) /\ Len(frames) # FRAMES_MAX
    BY <2>2, PendQuiet DEF Call
  <2>3. CASE TailCall(n)
    BY <2>3, PendQuiet DEF TailCall
  <2> QED
    BY <1>6, <2>1, <2>2, <2>3
<1>7. CASE Return
  <2>1. mode = "exec"
    BY <1>7 DEF Return, AtStatement
  <2> QED
    BY <1>7, <2>1, PendFramePopped DEF Return
<1>8. CASE ReturnInTry
  <2> DEFINE j == Innermost(TryPositions(Ctx))
  <2>1. CASE Ctx[j].phase = "finally" \/ handlers = <<>>
    <3>1. GoWild
      BY <1>8, <2>1 DEF ReturnInTry
    <3> QED
      BY <3>1, PendGoWild
  <2>2. CASE ~(Ctx[j].phase = "finally" \/ handlers = <<>>)
    <3>1. UNCHANGED <<runs, mode, pendingUnwind>>
      BY <1>8, <2>2 DEF ReturnInTry
    <3> QED
      BY <3>1, PendQuiet
  <2> QED
    BY <2>1, <2>2
<1>9. ASSUME NEW hasCatch \in BOOLEAN, EnterTry(hasCatch)
      PROVE  PendInv'
  <2>1. HardErrorUnder(runs) \/ UNCHANGED <<runs, mode, pendingUnwind>>
    BY <1>9 DEF EnterTry
  <2> QED
    BY <1>0, <2>1, PendHardError, PendQuiet
<1>10. CASE FallIntoFinally
  <2>1. GoWild \/ UNCHANGED <<runs, mode, pendingUnwind>>
    BY <1>10 DEF FallIntoFinally
  <2> QED
    BY <2>1, PendGoWild, PendQuiet
<1>11. CASE EndFinally
  <2> DEFINE top == stackTop - (Top.locals - Last(Ctx).at) - 2
  <2>1. mode = "exec"
    BY <1>11 DEF EndFinally, AtStatement
  <2>2. CASE Last(Ctx).tag = "normal" /\ UNCHANGED <<runs, mode, pendingUnwind>>
    BY <2>2, PendQuiet
  <2>3. CASE Last(Ctx).tag = "exception" /\ Raise
    BY <2>3, PendRaise
  <2>4. CASE /\ Last(Ctx).tag = "return"
             /\ UNCHANGED pendingUnwind
             /\ IF Len(frames) - 1 = Base
                THEN ReturnFromRun(Front(frames), top - 2)
                ELSE ResumeCaller(Front(frames), Top.slots) /\ UNCHANGED <<runs, mode>>
    <3> HIDE DEF top
    <3> QED
      BY <2>1, <2>4, PendFramePopped
  <2> QED
    BY <1>11, <2>2, <2>3, <2>4 DEF EndFinally
<1>12. CASE EnterLoop
  BY <1>12, PendQuiet DEF EnterLoop
<1>13. CASE EnterForEach
  BY <1>13, PendQuiet DEF EnterForEach
<1>14. CASE Break
  BY <1>14, PendQuiet DEF Break, LeaveInnerScopes
<1>15. CASE Continue
  BY <1>15, PendQuiet DEF Continue, LeaveInnerScopes
<1>16. CASE ForEachNoRoom
  BY <1>0, <1>16, PendHardError DEF ForEachNoRoom
<1>17. CASE ForEachHit
  BY <1>17, PendQuiet DEF ForEachHit
<1>18. CASE ForEachExhausted
  <2>1. UNCHANGED runs /\ pendingUnwind' = FALSE
    BY <1>18 DEF ForEachExhausted
  <2> QED
    BY <1>0, <2>1, PendKept
<1>19. CASE ForEachNextCall
  <2>1. HardErrorUnder(runs) \/ UNCHANGED <<runs, mode, pendingUnwind>>
    BY <1>19 DEF ForEachNextCall
  <2> QED
    BY <1>0, <2>1, PendHardError, PendQuiet
<1>20. CASE EqualityTest
  BY <1>20 DEF EqualityTest, AtStatement, PendInv, PendingOnlyWhileUnwinding
<1>21. ASSUME NEW kind \in Calls, NestedCall(kind)
       PROVE  PendInv'
  <2> DEFINE r == [kind |-> kind, base |-> Len(frames), savedTop |-> stackTop + CellsBelow(kind)]
  <2>1. mode = "exec"
    BY <1>21 DEF NestedCall, AtStatement
  <2>2. /\ runs \in Seq(Run) /\ stackTop \in Int /\ Len(frames) \in Nat
    BY <2>1, Running DEF RunStack
  <2>3. r \in Run /\ r.kind \in Calls
    <3>1. kind \in AllCalls /\ stackTop + CellsBelow(kind) \in Int
      BY <2>2, ConstantsAssumption DEF CellsBelow, NativeArgs, NativeTemps
    <3> QED
      BY <2>2, <3>1 DEF Run
  <2>4. HardErrorUnder(Append(runs, r))
        \/ (runs' = Append(runs, r) /\ UNCHANGED <<mode, pendingUnwind>>)
    BY <1>21 DEF NestedCall
  <2> HIDE DEF r
  <2>5. CallersAllowed(Append(runs, r))
    BY <1>0, <2>2, <2>3, CallersOfAppend
  <2>6. CASE HardErrorUnder(Append(runs, r))
    BY <2>5, <2>6, PendHardError
  <2>7. CASE runs' = Append(runs, r) /\ UNCHANGED <<mode, pendingUnwind>>
    BY <2>5, <2>7, PendKept DEF PendInv, PendingOnlyWhileUnwinding
  <2> QED
    BY <2>4, <2>6, <2>7
<1> QED
  BY <1>1, <1>2, <1>3, <1>4, <1>5, <1>6, <1>7, <1>8, <1>9, <1>10, <1>11, <1>12, <1>13,
     <1>14, <1>15, <1>16, <1>17, <1>18, <1>19, <1>20, <1>21 DEF Statement

\* Nor does the C code between statements.
LEMMA PendInC ==
    ASSUME Inv, PendInv, InC, Calls \cap Swallows = {}
    PROVE  PendInv'
<1>0. CallersAllowed(runs) /\ runs \in Seq(Run) /\ (pendingUnwind => mode = "unwind")
  BY DEF PendInv, PendingOnlyWhileUnwinding, Inv, TypeOK
<1>1. CASE Land
  <2>1. GoWild \/ (UNCHANGED runs /\ pendingUnwind' = FALSE)
    BY <1>1 DEF Land
  <2> QED
    BY <1>0, <2>1, PendGoWild, PendKept
<1>2. CASE Propagate
  <2>1. runs # <<>> /\ runs' = Front(runs) /\ mode' = ModeAfterUnwind(Last(runs).kind)
    BY <1>2, Running DEF Propagate
  <2>2. CallersAllowed(Front(runs)) /\ Last(runs).kind \notin Swallows
    BY <1>0, <2>1, CallersOfFront DEF Swallows
  <2>3. mode' = "unwind"
    BY <2>1, <2>2 DEF ModeAfterUnwind
  <2> QED
    BY <2>1, <2>2, <2>3, PendKept
<1>3. CASE ErrorReturn
  <2>1. mode = "error" /\ runs # <<>>
    BY <1>3 DEF ErrorReturn, Inv, RunNesting
  <2>2. CallersAllowed(Front(runs)) /\ Last(runs).kind \notin Swallows
    BY <1>0, <2>1, CallersOfFront DEF Swallows
  <2>3. runs' = Front(runs) /\ UNCHANGED pendingUnwind
    BY <1>3, <2>2 DEF ErrorReturn
  <2> QED
    BY <1>0, <2>1, <2>2, <2>3, PendKept
<1>4. CASE CallbackAgain
  <2>1. GoWild \/ (UNCHANGED <<runs, pendingUnwind>> /\ mode = "native")
    BY <1>4 DEF CallbackAgain
  <2> QED
    BY <1>0, <2>1, PendGoWild, PendKept
<1>5. CASE NativeFinish
  <2>1. mode = "native" /\ runs # <<>> /\ runs' = Front(runs) /\ UNCHANGED pendingUnwind
    BY <1>5 DEF NativeFinish, Inv, RunNesting
  <2>2. CallersAllowed(Front(runs))
    BY <1>0, <2>1, CallersOfFront
  <2> QED
    BY <1>0, <2>1, <2>2, PendKept
<1>6. CASE NativeFail
  <2>1. mode = "native" /\ runs # <<>> /\ runs' = Front(runs)
    BY <1>6 DEF NativeFail, Inv, RunNesting
  <2>2. CallersAllowed(Front(runs))
    BY <1>0, <2>1, CallersOfFront
  <2>3. HardErrorUnder(Front(runs)) \/ mode' = "unwind"
    BY <1>6 DEF NativeFail
  <2> QED
    BY <2>1, <2>2, <2>3, PendHardError, PendKept
<1> QED
  BY <1>1, <1>2, <1>3, <1>4, <1>5, <1>6 DEF InC

\* Nor does any step.
LEMMA PendNext ==
    ASSUME Calls \cap Swallows = {}
    PROVE  Inv /\ PendInv /\ [Next]_vars => PendInv'
<1> SUFFICES ASSUME Inv, PendInv, [Next]_vars PROVE PendInv'
  OBVIOUS
<1>1. CASE Interpret
  <2>1. CASE GoWild
    BY <2>1, PendGoWild
  <2>2. CASE ~GoWild
    <3>1. /\ runs' = << [kind |-> "interpret", base |-> 0, savedTop |-> stackTop] >>
          /\ mode = "idle" /\ UNCHANGED pendingUnwind
      BY <1>1, <2>2 DEF Interpret
    <3>2. CallersAllowed(runs')
      BY <3>1 DEF CallersAllowed
    <3>3. ~pendingUnwind'
      BY <3>1 DEF PendInv, PendingOnlyWhileUnwinding
    <3> QED
      BY <3>2, <3>3, PendKept
  <2> QED
    BY <2>1, <2>2
<1>2. CASE Statement
  BY <1>2, PendStatement
<1>3. CASE InC
  BY <1>3, PendInC
<1>4. CASE UNCHANGED vars
  BY <1>4, PendQuiet DEF vars
<1> QED
  BY <1>1, <1>2, <1>3, <1>4 DEF Next

-----------------------------------------------------------------------------
(* Pending unwinds of all programs.                                        *)

\* A step that leaves an unwind pending only if it was, or if it begins to unwind.
Settles == pendingUnwind' => pendingUnwind \/ mode' = "unwind"

\* The steps several actions share.
LEMMA StepsSettle ==
    /\ GoWild => Settles
    /\ \A rs : HardErrorUnder(rs) => Settles
    /\ Raise => Settles
    /\ UNCHANGED pendingUnwind => Settles
<1>1. GoWild => Settles
  BY DEF GoWild, Settles
<1>2. ASSUME NEW rs, HardErrorUnder(rs) PROVE Settles
  BY <1>2 DEF HardErrorUnder, ResetStack, Settles
<1>3. Raise => Settles
  BY <1>2 DEF Raise, Settles
<1>4. UNCHANGED pendingUnwind => Settles
  BY DEF Settles
<1> QED
  BY <1>1, <1>2, <1>3, <1>4

\* Statements begin to unwind, or leave what was pending.
LEMMA StatementSettles ==
    ASSUME Statement
    PROVE  mode = "exec" /\ Settles
<1>1. ASSUME Declare \/ EnterLoop \/ EnterForEach \/ Return
      PROVE  mode = "exec" /\ Settles
  BY <1>1, StepsSettle DEF Declare, EnterLoop, EnterForEach, Return, AtStatement
<1>2. CASE StackOverflow
  BY <1>2 DEF StackOverflow, ResetStack, Settles
<1>3. CASE StackUnderflow
  BY <1>3, StepsSettle DEF StackUnderflow
<1>4. CASE HardError
  BY <1>4, StepsSettle DEF HardError, AtStatement
<1>5. CASE Throw
  BY <1>5, StepsSettle DEF Throw, AtStatement
<1>6. ASSUME NEW n \in 0 .. 1, Call(n) \/ TailCall(n)
      PROVE  mode = "exec" /\ Settles
  <2>1. mode = "exec" /\ (HardErrorUnder(runs) \/ UNCHANGED pendingUnwind)
    BY <1>6 DEF Call, TailCall, AtStatement
  <2> QED
    BY <2>1, StepsSettle
<1>7. CASE ReturnInTry
  <2>1. mode = "exec" /\ (GoWild \/ UNCHANGED pendingUnwind)
    BY <1>7 DEF ReturnInTry, AtStatement
  <2> QED
    BY <2>1, StepsSettle
<1>8. ASSUME NEW hasCatch \in BOOLEAN, EnterTry(hasCatch)
      PROVE  mode = "exec" /\ Settles
  <2>1. mode = "exec" /\ (HardErrorUnder(runs) \/ UNCHANGED pendingUnwind)
    BY <1>8 DEF EnterTry, AtStatement
  <2> QED
    BY <2>1, StepsSettle
<1>9. CASE FallIntoFinally
  <2>1. mode = "exec" /\ (GoWild \/ UNCHANGED pendingUnwind)
    BY <1>9 DEF FallIntoFinally, AtStatement
  <2> QED
    BY <2>1, StepsSettle
<1>10. CASE EndFinally
  <2>1. mode = "exec" /\ (Raise \/ UNCHANGED pendingUnwind)
    BY <1>10 DEF EndFinally, AtStatement
  <2> QED
    BY <2>1, StepsSettle
<1>11. CASE Break \/ Continue
  <2>1. mode = "exec" /\ UNCHANGED pendingUnwind
    BY <1>11 DEF Break, Continue, LeaveInnerScopes, AtStatement
  <2> QED
    BY <2>1, StepsSettle
<1>12. CASE ForEachNoRoom \/ ForEachHit \/ ForEachNextCall
  <2>1. mode = "exec" /\ (HardErrorUnder(runs) \/ UNCHANGED pendingUnwind)
    BY <1>12 DEF ForEachNoRoom, ForEachHit, ForEachNextCall, AtLoopStart
  <2> QED
    BY <2>1, StepsSettle
<1>13. CASE ForEachExhausted
  BY <1>13 DEF ForEachExhausted, AtLoopStart, Settles
<1>14. CASE EqualityTest
  <2>1. mode = "exec" /\ (GoWild \/ UNCHANGED pendingUnwind)
    BY <1>14 DEF EqualityTest, AtStatement
  <2> QED
    BY <2>1, StepsSettle
<1>15. ASSUME NEW kind \in Calls, NestedCall(kind)
       PROVE  mode = "exec" /\ Settles
  <2>1. PICK rs : mode = "exec" /\ (HardErrorUnder(rs) \/ UNCHANGED pendingUnwind)
    BY <1>15 DEF NestedCall, AtStatement
  <2> QED
    BY <2>1, StepsSettle
<1> QED
  BY <1>1, <1>2, <1>3, <1>4, <1>5, <1>6, <1>7, <1>8, <1>9, <1>10, <1>11, <1>12, <1>13,
     <1>14, <1>15 DEF Statement

\* An exception in flight stays in flight until it lands, except where a type pattern
\* or the making of a text takes it for an answer: for every program, with every
\* statement form and every caller of run(), no other step lets a statement begin
\* with an unwind pending.
THEOREM PendingStaysWhereSwallowed == Spec => OnlySwallowedUnwindsStay
<1> DEFINE Allowed == pendingUnwind' /\ mode' # "unwind" =>
               \/ mode # "unwind" /\ pendingUnwind
               \/ mode = "unwind" /\ Last(runs).kind \in Swallows
<1>1. ASSUME [Next]_vars PROVE Allowed \/ UNCHANGED vars
  <2>1. CASE Interpret
    <3>1. mode = "idle" /\ (GoWild \/ UNCHANGED pendingUnwind)
      BY <2>1 DEF Interpret
    <3> QED
      BY <3>1, StepsSettle DEF Settles
  <2>2. CASE Statement
    BY <2>2, StatementSettles DEF Settles
  <2>3. CASE Land
    BY <2>3 DEF Land, GoWild
  <2>4. CASE Propagate
    BY <2>4 DEF Propagate, ModeAfterUnwind
  <2>5. CASE ErrorReturn \/ CallbackAgain \/ NativeFinish \/ NativeFail
    <3>1. /\ mode \in {"error", "native"}
          /\ \/ GoWild \/ UNCHANGED pendingUnwind \/ HardErrorUnder(Front(runs))
             \/ mode' = "unwind"
      BY <2>5 DEF ErrorReturn, CallbackAgain, NativeFinish, NativeFail
    <3> QED
      BY <3>1, StepsSettle DEF Settles
  <2> QED
    BY <1>1, <2>1, <2>2, <2>3, <2>4, <2>5 DEF Next, InC
<1>2. [Next]_vars => [Allowed]_vars
  BY <1>1
<1> QED
  BY <1>2, PTL DEF Spec, OnlySwallowedUnwindsStay
=============================================================================
