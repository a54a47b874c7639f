------------------------ MODULE UnwindRefinementProofs ------------------------
(***************************************************************************)
(* Unwind implements StructuredControl, and skips no finally and no catch  *)
(* block: proofs for stacks of every size and every program of the safe    *)
(* statement forms.                                                        *)
(*                                                                         *)
(* The text of a call stack is what StructuredControl sees of it.  The     *)
(* argument rests on the invariant of UnwindHandlers: the handler on top   *)
(* is the one of the innermost construct that takes an exception, so that  *)
(* what the C code finds by popping a stack is what the abstract program   *)
(* finds by reading the text (HandlerFollowsText).  An exception in flight *)
(* is shown where it will land, which is decided when it is thrown: the    *)
(* steps of unwinding change nothing (LandMaps, PropagateMaps).            *)
(*                                                                         *)
(* The parts: texts of contexts and of stacks; who takes an exception; one *)
(* lemma <Action>Maps per action of Unwind; the refinement; and, with one  *)
(* lemma <Action>Keeps per action, that no block of a try is left out.     *)
(***************************************************************************)
EXTENDS UnwindRefinement, UnwindHandlers

-----------------------------------------------------------------------------
(* The text of contexts and of call stacks.                                *)

\* A construct without its local count.
TextOf(c) == [kind |-> c.kind, catch |-> c.catch, phase |-> c.phase, tag |-> c.tag]

Written == {TextOf(c) : c \in Construct}

\* Its fields.
LEMMA TextFields ==
    ASSUME NEW c \in Construct
    PROVE  /\ TextOf(c) \in Written
           /\ TextOf(c).kind = c.kind /\ TextOf(c).catch = c.catch
           /\ TextOf(c).phase = c.phase /\ TextOf(c).tag = c.tag
           /\ TextOf(c).kind \in {"try", "loop", "foreach"}
BY DEF TextOf, Written, Construct

\* Element by element.
LEMMA TextIs ==
    ASSUME NEW ctx \in Seq(Construct)
    PROVE  /\ Text(ctx) \in Seq(Written) /\ Len(Text(ctx)) = Len(ctx)
           /\ \A j \in 1 .. Len(ctx) : Text(ctx)[j] = TextOf(ctx[j])
<1> DEFINE t == Text(ctx)
<1>1. Len(ctx) \in Nat /\ \A j \in 1 .. Len(ctx) : ctx[j] \in Construct
  OBVIOUS
<1>2. t = [j \in 1 .. Len(ctx) |-> TextOf(ctx[j])]
  BY DEF Text, TextOf
<1>3. t \in [1 .. Len(ctx) -> Written]
  BY <1>1, <1>2, TextFields
<1>4. \A j \in 1 .. Len(ctx) : t[j] = TextOf(ctx[j])
  BY <1>2
<1> HIDE DEF t
<1>5. t \in Seq(Written) /\ Len(t) = Len(ctx)
  BY <1>1, <1>3
<1> QED
  BY <1>4, <1>5 DEF t

\* A construct more.
LEMMA TextMore ==
    ASSUME NEW ctx \in Seq(Construct), NEW c \in Construct
    PROVE  Text(Append(ctx, c)) = Append(Text(ctx), TextOf(c))
<1> DEFINE more == Append(ctx, c)
           t == Text(ctx)
           u == Text(more)
           v == Append(t, TextOf(c))
           n == Len(ctx)
<1>1. /\ more \in Seq(Construct) /\ n \in Nat /\ Len(more) = n + 1 /\ more[n + 1] = c
      /\ \A k \in 1 .. n : more[k] = ctx[k]
  BY Appended
<1>2. t \in Seq(Written) /\ Len(t) = n /\ \A j \in 1 .. n : t[j] = TextOf(ctx[j])
  BY TextIs
<1> HIDE DEF more
<1>3. u \in Seq(Written) /\ Len(u) = n + 1 /\ \A j \in 1 .. n + 1 : u[j] = TextOf(more[j])
  BY <1>1, TextIs
<1> HIDE DEF t, u
<1>4. /\ v \in Seq(Written) /\ Len(v) = Len(t) + 1 /\ v[Len(t) + 1] = TextOf(c)
      /\ \A j \in 1 .. Len(t) : v[j] = t[j]
  BY <1>2, TextFields, Appended
<1> HIDE DEF v, n
<1>5. ASSUME NEW j \in 1 .. n + 1 PROVE u[j] = v[j]
  <2>1. CASE j = n + 1
    BY <1>1, <1>2, <1>3, <1>4, <2>1
  <2>2. CASE j # n + 1
    <3>1. j \in 1 .. n
      BY <1>1, <2>2
    <3> QED
      BY <1>1, <1>2, <1>3, <1>4, <3>1
  <2> QED
    BY <2>1, <2>2
<1>6. u = v
  <2>1. Len(u) = Len(v) /\ \A j \in 1 .. Len(u) : u[j] = v[j]
    BY <1>2, <1>3, <1>4, <1>5
  <2> QED
    BY <1>3, <1>4, <2>1, SeqEqual
<1> QED
  BY <1>6 DEF more, t, u, v

\* The constructs around a point.
LEMMA TextPrefix ==
    ASSUME NEW ctx \in Seq(Construct), NEW m \in 0 .. Len(ctx)
    PROVE  Text(SubSeq(ctx, 1, m)) = SubSeq(Text(ctx), 1, m)
<1> DEFINE p == SubSeq(ctx, 1, m)
           t == Text(ctx)
           u == Text(p)
           v == SubSeq(t, 1, m)
<1>1. /\ p \in Seq(Construct) /\ Len(p) = m /\ m \in Nat /\ Len(ctx) \in Nat /\ m <= Len(ctx)
      /\ \A k \in 1 .. m : p[k] = ctx[k]
  OBVIOUS
<1>2. t \in Seq(Written) /\ Len(t) = Len(ctx) /\ \A j \in 1 .. Len(ctx) : t[j] = TextOf(ctx[j])
  BY TextIs
<1> HIDE DEF p
<1>3. u \in Seq(Written) /\ Len(u) = m /\ \A j \in 1 .. m : u[j] = TextOf(p[j])
  BY <1>1, TextIs
<1> HIDE DEF t, u
<1>4. v \in Seq(Written) /\ Len(v) = m /\ Agree(v, t, m)
  BY <1>2, Pieces
<1> HIDE DEF v
<1>5. \A j \in 1 .. m : u[j] = v[j]
  BY <1>1, <1>2, <1>3, <1>4 DEF Agree
<1>6. u = v
  BY <1>3, <1>4, <1>5, SeqEqual
<1> QED
  BY <1>6 DEF p, t, u, v

\* The innermost construct.
LEMMA TextTop ==
    ASSUME NEW ctx \in Seq(Construct), ctx # <<>>
    PROVE  /\ Text(ctx) # <<>> /\ Last(Text(ctx)) = TextOf(Last(ctx))
           /\ Front(Text(ctx)) = Text(Front(ctx))
           /\ Front(ctx) \in Seq(Construct) /\ Last(ctx) \in Construct
<1>1. /\ Front(ctx) \in Seq(Construct) /\ Last(ctx) \in Construct
      /\ Len(ctx) \in Nat /\ Len(ctx) > 0 /\ Last(ctx) = ctx[Len(ctx)]
      /\ Front(ctx) = SubSeq(ctx, 1, Len(ctx) - 1)
  BY FrontLast DEF Front
<1> DEFINE t == Text(ctx)
           m == Len(ctx) - 1
<1>2. t \in Seq(Written) /\ Len(t) = Len(ctx) /\ \A j \in 1 .. Len(ctx) : t[j] = TextOf(ctx[j])
  BY TextIs
<1>3. m \in 0 .. Len(ctx) /\ Len(ctx) \in 1 .. Len(ctx)
  BY <1>1
<1>4. Text(SubSeq(ctx, 1, m)) = SubSeq(t, 1, m)
  <2> HIDE DEF m
  <2> QED
    BY <1>3, TextPrefix
<1> HIDE DEF t
<1>5. t # <<>> /\ Last(t) = TextOf(Last(ctx))
  <2>1. Last(t) = t[Len(t)]
    BY DEF Last
  <2> QED
    BY <1>1, <1>2, <1>3, <2>1, EmptyLen
<1>6. Front(t) = Text(Front(ctx))
  BY <1>1, <1>2, <1>4 DEF Front
<1> QED
  BY <1>1, <1>5, <1>6 DEF t

\* The text of a call stack, frame by frame.
LEMMA TextsAre ==
    ASSUME NEW fs \in Seq(Frame)
    PROVE  /\ Texts(fs) \in Seq(Seq(Written)) /\ Len(Texts(fs)) = Len(fs)
           /\ \A i \in 1 .. Len(fs) : Texts(fs)[i] = Text(fs[i].ctx)
<1> DEFINE t == Texts(fs)
<1>1. Len(fs) \in Nat /\ \A i \in 1 .. Len(fs) : fs[i].ctx \in Seq(Construct)
  BY FrameFields
<1>2. \A i \in 1 .. Len(fs) : Text(fs[i].ctx) \in Seq(Written)
  BY <1>1, TextIs
<1>3. \A i \in 1 .. Len(fs) : t[i] = Text(fs[i].ctx)
  BY DEF Texts
<1>4. t \in [1 .. Len(fs) -> Seq(Written)]
  BY <1>2 DEF Texts
<1> HIDE DEF t
<1>5. t \in Seq(Seq(Written)) /\ Len(t) = Len(fs)
  BY <1>1, <1>4
<1> QED
  BY <1>3, <1>5 DEF t

\* A frame more.
LEMMA TextsMore ==
    ASSUME NEW fs \in Seq(Frame), NEW f \in Frame
    PROVE  Texts(Append(fs, f)) = Append(Texts(fs), Text(f.ctx))
<1> DEFINE more == Append(fs, f)
           t == Texts(fs)
           u == Texts(more)
           v == Append(t, Text(f.ctx))
           n == Len(fs)
<1>1. /\ more \in Seq(Frame) /\ n \in Nat /\ Len(more) = n + 1 /\ more[n + 1] = f
      /\ \A k \in 1 .. n : more[k] = fs[k]
  BY Appended
<1>2. t \in Seq(Seq(Written)) /\ Len(t) = n /\ \A i \in 1 .. n : t[i] = Text(fs[i].ctx)
  BY TextsAre
<1> HIDE DEF more
<1>3. /\ u \in Seq(Seq(Written)) /\ Len(u) = n + 1
      /\ \A i \in 1 .. n + 1 : u[i] = Text(more[i].ctx)
  BY <1>1, TextsAre
<1> HIDE DEF t, u
<1>4. Text(f.ctx) \in Seq(Written)
  BY HeightType, TextIs
<1>5. /\ v \in Seq(Seq(Written)) /\ Len(v) = Len(t) + 1 /\ v[Len(t) + 1] = Text(f.ctx)
      /\ \A i \in 1 .. Len(t) : v[i] = t[i]
  BY <1>2, <1>4, Appended
<1> HIDE DEF v, n
<1>6. ASSUME NEW i \in 1 .. n + 1 PROVE u[i] = v[i]
  <2>1. CASE i = n + 1
    BY <1>1, <1>2, <1>3, <1>5, <2>1
  <2>2. CASE i # n + 1
    <3>1. i \in 1 .. n
      BY <1>1, <2>2
    <3>2. u[i] = Text(more[i].ctx) /\ more[i] = fs[i]
      BY <1>1, <1>3, <3>1
    <3>3. v[i] = Text(fs[i].ctx)
      BY <1>2, <1>5, <3>1
    <3> QED
      BY <3>2, <3>3
  <2> QED
    BY <2>1, <2>2
<1>7. u = v
  <2>1. Len(u) = Len(v) /\ \A i \in 1 .. Len(u) : u[i] = v[i]
    BY <1>2, <1>3, <1>5, <1>6
  <2> QED
    BY <1>3, <1>5, <2>1, SeqEqual
<1> QED
  BY <1>7 DEF more, t, u, v

\* The frames below a point.
LEMMA TextsPrefix ==
    ASSUME NEW fs \in Seq(Frame), NEW m \in 0 .. Len(fs)
    PROVE  Texts(SubSeq(fs, 1, m)) = SubSeq(Texts(fs), 1, m)
<1> DEFINE p == SubSeq(fs, 1, m)
           t == Texts(fs)
           u == Texts(p)
           v == SubSeq(t, 1, m)
<1>1. /\ p \in Seq(Frame) /\ Len(p) = m /\ m \in Nat /\ Len(fs) \in Nat /\ m <= Len(fs)
      /\ \A k \in 1 .. m : p[k] = fs[k]
  OBVIOUS
<1>2. /\ t \in Seq(Seq(Written)) /\ Len(t) = Len(fs)
      /\ \A i \in 1 .. Len(fs) : t[i] = Text(fs[i].ctx)
  BY TextsAre
<1> HIDE DEF p
<1>3. u \in Seq(Seq(Written)) /\ Len(u) = m /\ \A i \in 1 .. m : u[i] = Text(p[i].ctx)
  BY <1>1, TextsAre
<1> HIDE DEF t, u
<1>4. v \in Seq(Seq(Written)) /\ Len(v) = m /\ Agree(v, t, m)
  BY <1>2, Pieces
<1> HIDE DEF v
<1>5. ASSUME NEW i \in 1 .. m PROVE u[i] = v[i]
  <2>1. i \in 1 .. Len(fs) /\ p[i] = fs[i]
    BY <1>1
  <2>2. u[i] = Text(fs[i].ctx)
    BY <1>3, <2>1
  <2>3. v[i] = Text(fs[i].ctx)
    BY <1>2, <1>4, <2>1 DEF Agree
  <2> QED
    BY <2>2, <2>3
<1>6. u = v
  BY <1>3, <1>4, <1>5, SeqEqual
<1> QED
  BY <1>6 DEF p, t, u, v

\* The frame on top.
LEMMA TextsTop ==
    ASSUME NEW fs \in Seq(Frame), fs # <<>>
    PROVE  /\ Texts(fs) # <<>> /\ Last(Texts(fs)) = Text(Last(fs).ctx)
           /\ Front(Texts(fs)) = Texts(Front(fs))
           /\ Front(fs) \in Seq(Frame) /\ Last(fs) \in Frame
           /\ Last(fs).ctx \in Seq(Construct)
<1>1. /\ Front(fs) \in Seq(Frame) /\ Last(fs) \in Frame
      /\ Len(fs) \in Nat /\ Len(fs) > 0 /\ Last(fs) = fs[Len(fs)]
      /\ Front(fs) = SubSeq(fs, 1, Len(fs) - 1)
  BY FrontLast DEF Front
<1> DEFINE t == Texts(fs)
           m == Len(fs) - 1
<1>2. /\ t \in Seq(Seq(Written)) /\ Len(t) = Len(fs)
      /\ \A i \in 1 .. Len(fs) : t[i] = Text(fs[i].ctx)
  BY TextsAre
<1>3. m \in 0 .. Len(fs) /\ Len(fs) \in 1 .. Len(fs)
  BY <1>1
<1>4. Texts(SubSeq(fs, 1, m)) = SubSeq(t, 1, m)
  <2> HIDE DEF m
  <2> QED
    BY <1>3, TextsPrefix
<1> HIDE DEF t
<1>5. t # <<>> /\ Last(t) = Text(Last(fs).ctx)
  <2>1. Last(t) = t[Len(t)]
    BY DEF Last
  <2>2. Len(t) # 0
    BY <1>1, <1>2
  <2>3. t # <<>>
    BY <1>2, <2>2, EmptyLen
  <2> QED
    BY <1>1, <1>2, <1>3, <2>1, <2>3
<1>6. Front(t) = Texts(Front(fs))
  BY <1>1, <1>2, <1>4 DEF Front
<1>7. Last(fs).ctx \in Seq(Construct)
  BY <1>1, HeightType
<1> QED
  BY <1>1, <1>5, <1>6, <1>7 DEF t

\* The text of no frames.
LEMMA TextsEmpty == Texts(<<>>) = <<>> /\ Text(<<>>) = <<>>
BY DEF Texts, Text

-----------------------------------------------------------------------------
(* Who takes an exception.                                                 *)

\* The constructs that take exceptions are those that own a handler.
LEMMA TakesOwns ==
    ASSUME NEW fc, NEW slots, NEW outer, NEW c \in Construct
    PROVE  Program!Takes(TextOf(c)) <=> Owned(fc, slots, outer, c) # <<>>
<1>1. Program!Takes(TextOf(c)) <=> (IsTry(c) /\ c.phase # "finally") \/ c.phase = "next"
  BY TextFields DEF Program!Takes, IsTry
<1>2. CASE Owned(fc, slots, outer, c) # <<>>
  <2>1. (IsTry(c) /\ c.phase # "finally") \/ c.phase = "next"
    BY <1>2, Owners
  <2> QED
    BY <1>1, <1>2, <2>1
<1>3. CASE Owned(fc, slots, outer, c) = <<>>
  <2>1. ~(IsTry(c) /\ c.phase = "body" /\ c.catch)
    <3> SUFFICES ASSUME IsTry(c), c.phase = "body", c.catch PROVE FALSE
      OBVIOUS
    <3>1. \E f, g : Owned(fc, slots, outer, c) = << f, g >>
      BY OwnedCases
    <3> QED
      BY <1>3, <3>1
  <2>2. ~(IsTry(c) /\ c.phase = "body" /\ ~c.catch)
    <3> SUFFICES ASSUME IsTry(c), c.phase = "body", ~c.catch PROVE FALSE
      OBVIOUS
    <3>1. \E f : Owned(fc, slots, outer, c) = << f >>
      BY OwnedCases
    <3> QED
      BY <1>3, <3>1
  <2>3. ~(IsTry(c) /\ c.phase = "catch")
    <3> SUFFICES ASSUME IsTry(c), c.phase = "catch" PROVE FALSE
      OBVIOUS
    <3>1. \E f : Owned(fc, slots, outer, c) = << f >>
      BY OwnedCases
    <3> QED
      BY <1>3, <3>1
  <2>4. c.phase # "next"
    <3> SUFFICES ASSUME c.phase = "next" PROVE FALSE
      OBVIOUS
    <3>1. \E f : Owned(fc, slots, outer, c) = << f >>
      BY OwnedCases
    <3> QED
      BY <1>3, <3>1
  <2>5. IsTry(c) => c.phase \in {"body", "catch", "finally"}
    BY OwnedCases
  <2> QED
    BY <1>1, <1>3, <2>1, <2>2, <2>3, <2>4, <2>5
<1> QED
  BY <1>2, <1>3

\* A sequence that ends in something is not empty.
LEMMA EndsInSome ==
    ASSUME NEW a \in Seq(Handler), NEW b \in Seq(Handler), b # <<>>
    PROVE  a \o b # <<>>
<1>1. Len(a) \in Nat /\ Len(b) \in Nat /\ Len(b) # 0
  BY EmptyLen
<1>2. Len(a \o b) = Len(a) + Len(b) /\ a \o b \in Seq(Handler)
  OBVIOUS
<1> HIDE DEF Handler
<1>3. Len(a \o b) # 0
  BY <1>1, <1>2
<1> QED
  BY <1>2, <1>3, EmptyLen

\* A frame that has no handler has no construct that owns one.
LEMMA CtxOwnsNone ==
    ASSUME NEW fc \in Nat, NEW slots \in Int, NEW ctx \in Seq(Construct),
           CtxHandlers(fc, slots, ctx) = <<>>, NEW j \in 1 .. Len(ctx)
    PROVE  Owned(fc, slots, Around(ctx, j), ctx[j]) = <<>>
<1> DEFINE S == {k \in 1 .. Len(ctx) : Owned(fc, slots, Around(ctx, k), ctx[k]) # <<>>}
           m == Innermost(S)
<1> SUFFICES ASSUME j \in S PROVE FALSE
  OBVIOUS
<1>1. Len(ctx) \in Nat /\ S \in SUBSET (1 .. Len(ctx)) /\ S # {}
  OBVIOUS
<1> HIDE DEF S
<1>2. m \in S /\ \A k \in S : k <= m
  BY <1>1, InnermostIn
<1> HIDE DEF m
<1>3. m \in 1 .. Len(ctx) /\ Owned(fc, slots, Around(ctx, m), ctx[m]) # <<>>
  BY <1>2 DEF S
<1>4. \A k \in m + 1 .. Len(ctx) : Owned(fc, slots, Around(ctx, k), ctx[k]) = <<>>
  <2> SUFFICES ASSUME NEW k \in m + 1 .. Len(ctx),
                      Owned(fc, slots, Around(ctx, k), ctx[k]) # <<>>
               PROVE  FALSE
    OBVIOUS
  <2>1. k \in 1 .. Len(ctx) /\ ~(k <= m)
    BY <1>1, <1>3
  <2>2. k \in S
    BY <2>1 DEF S
  <2> QED
    BY <1>2, <2>1, <2>2
<1> DEFINE B == CtxHandlers(fc, slots, Around(ctx, m))
           O == Owned(fc, slots, Around(ctx, m), ctx[m])
<1>5. <<>> = B \o O
  BY <1>3, <1>4, CtxUpTo
<1>6. ctx[m] \in Construct /\ Around(ctx, m) \in Seq(Construct)
  BY <1>3, AroundType
<1>7. B \in Seq(Handler) /\ O \in Seq(Handler)
  BY <1>6, PiecesOf, OwnedType
<1> HIDE DEF B
<1>8. O # <<>>
  BY <1>3
<1> HIDE DEF O
<1> QED
  BY <1>5, <1>7, <1>8, EndsInSome

\* A call stack that has no handler has no frame that owns one.
LEMMA AllOwnNone ==
    ASSUME NEW fs \in Seq(Frame), AllHandlers(fs) = <<>>, NEW i \in 1 .. Len(fs)
    PROVE  CtxHandlers(i, fs[i].slots, fs[i].ctx) = <<>>
<1> DEFINE S == {k \in 1 .. Len(fs) : CtxHandlers(k, fs[k].slots, fs[k].ctx) # <<>>}
           m == Innermost(S)
<1> SUFFICES ASSUME i \in S PROVE FALSE
  OBVIOUS
<1>1. Len(fs) \in Nat /\ S \in SUBSET (1 .. Len(fs)) /\ S # {}
  OBVIOUS
<1> HIDE DEF S
<1>2. m \in S /\ \A k \in S : k <= m
  BY <1>1, InnermostIn
<1> HIDE DEF m
<1>3. m \in 1 .. Len(fs) /\ CtxHandlers(m, fs[m].slots, fs[m].ctx) # <<>>
  BY <1>2 DEF S
<1>4. \A k \in m + 1 .. Len(fs) : CtxHandlers(k, fs[k].slots, fs[k].ctx) = <<>>
  <2> SUFFICES ASSUME NEW k \in m + 1 .. Len(fs), CtxHandlers(k, fs[k].slots, fs[k].ctx) # <<>>
               PROVE  FALSE
    OBVIOUS
  <2>1. k \in 1 .. Len(fs) /\ ~(k <= m)
    BY <1>1, <1>3
  <2>2. k \in S
    BY <2>1 DEF S
  <2> QED
    BY <1>2, <2>1, <2>2
<1> DEFINE A == AllHandlers(SubSeq(fs, 1, m - 1))
           B == CtxHandlers(m, fs[m].slots, fs[m].ctx)
<1>5. <<>> = A \o B
  BY <1>3, <1>4, AllUpTo
<1>6. A \in Seq(Handler) /\ B \in Seq(Handler)
  <2>1. SubSeq(fs, 1, m - 1) \in Seq(Frame)
    BY <1>3
  <2>2. A \in Seq(Handler)
    BY <2>1, FramesOwned
  <2>3. fs[m].slots \in Int /\ fs[m].ctx \in Seq(Construct) /\ m \in Nat
    BY <1>3, FrameFields
  <2> QED
    BY <2>2, <2>3, PiecesOf
<1> HIDE DEF A
<1>7. B # <<>>
  BY <1>3
<1> HIDE DEF B
<1> QED
  BY <1>5, <1>6, <1>7, EndsInSome

\* The takers of a call stack, one by one.
LEMMA TakersAre ==
    ASSUME NEW s
    PROVE  \A q : q \in Program!Takers(s) <=>
               \E i \in 1 .. Len(s) : \E j \in 1 .. Len(s[i]) :
                   q = <<i, j>> /\ Program!Takes(s[i][j])
BY DEF Program!Takers

\* Construct j of frame i takes exceptions if and only if it owns a handler.
LEMMA TextTakes ==
    ASSUME NEW fs \in Seq(Frame), NEW i \in 1 .. Len(fs), NEW j \in 1 .. Len(fs[i].ctx)
    PROVE  /\ i \in 1 .. Len(Texts(fs)) /\ j \in 1 .. Len(Texts(fs)[i])
           /\ Program!Takes(Texts(fs)[i][j]) <=>
                  Owned(i, fs[i].slots, Around(fs[i].ctx, j), fs[i].ctx[j]) # <<>>
<1>1. fs[i].ctx \in Seq(Construct)
  BY FrameFields
<1>2. fs[i].ctx[j] \in Construct
  BY <1>1
<1>3. Len(Texts(fs)) = Len(fs) /\ Texts(fs)[i] = Text(fs[i].ctx)
  BY TextsAre
<1>4. Len(Text(fs[i].ctx)) = Len(fs[i].ctx) /\ Text(fs[i].ctx)[j] = TextOf(fs[i].ctx[j])
  BY <1>1, TextIs
<1> QED
  BY <1>2, <1>3, <1>4, TakesOwns

\* Without a handler nothing takes an exception.
LEMMA NoTakers ==
    ASSUME NEW fs \in Seq(Frame), AllHandlers(fs) = <<>>
    PROVE  Program!Takers(Texts(fs)) = {}
<1> SUFFICES ASSUME NEW q \in Program!Takers(Texts(fs)) PROVE FALSE
  OBVIOUS
<1>1. PICK i \in 1 .. Len(Texts(fs)) : \E j \in 1 .. Len(Texts(fs)[i]) :
          Program!Takes(Texts(fs)[i][j])
  BY TakersAre
<1>2. i \in 1 .. Len(fs) /\ Texts(fs)[i] = Text(fs[i].ctx)
  BY TextsAre
<1>3. fs[i].ctx \in Seq(Construct) /\ fs[i].slots \in Int /\ i \in Nat
  BY <1>2, FrameFields
<1>4. Len(Texts(fs)[i]) = Len(fs[i].ctx)
  BY <1>2, <1>3, TextIs
<1>5. PICK j \in 1 .. Len(fs[i].ctx) : Program!Takes(Texts(fs)[i][j])
  BY <1>1, <1>4
<1>6. Owned(i, fs[i].slots, Around(fs[i].ctx, j), fs[i].ctx[j]) # <<>>
  BY <1>2, <1>5, TextTakes
<1>7. CtxHandlers(i, fs[i].slots, fs[i].ctx) = <<>>
  BY <1>2, AllOwnNone
<1> QED
  BY <1>3, <1>6, <1>7, CtxOwnsNone

\* No construct inside the j-th one of frame i takes an exception, nor any frame above.
NoTakerAbove(s, i, j) ==
    /\ \A k \in j + 1 .. Len(s[i]) : ~Program!Takes(s[i][k])
    /\ \A k \in i + 1 .. Len(s) : \A m \in 1 .. Len(s[k]) : ~Program!Takes(s[k][m])

\* The innermost taker.
LEMMA InnermostTakerIs ==
    ASSUME NEW s, NEW i \in 1 .. Len(s), NEW j \in 1 .. Len(s[i]), Len(s) \in Nat,
           \A k \in 1 .. Len(s) : Len(s[k]) \in Nat,
           Program!Takes(s[i][j]), NoTakerAbove(s, i, j)
    PROVE  Program!InnermostTaker(s) = <<i, j>> /\ Program!Takers(s) # {}
<1> DEFINE T == Program!Takers(s)
           Below(p, q) == q[1] < p[1] \/ (q[1] = p[1] /\ q[2] <= p[2])
<1>1. <<i, j>> \in T
  BY TakersAre
<1>2. ASSUME NEW q \in T
      PROVE  q = <<q[1], q[2]>> /\ q[1] \in Nat /\ q[2] \in Nat /\ Below(<<i, j>>, q)
  <2>1. PICK a \in 1 .. Len(s) : \E b \in 1 .. Len(s[a]) :
            q = <<a, b>> /\ Program!Takes(s[a][b])
    BY TakersAre
  <2>2. PICK b \in 1 .. Len(s[a]) : q = <<a, b>> /\ Program!Takes(s[a][b])
    BY <2>1
  <2>3. ~(a \in i + 1 .. Len(s))
    BY <2>2 DEF NoTakerAbove
  <2>4. a = i => ~(b \in j + 1 .. Len(s[i]))
    BY <2>2 DEF NoTakerAbove
  <2>5. a \in Nat /\ b \in Nat /\ i \in Nat /\ j \in Nat /\ Len(s[a]) \in Nat
    OBVIOUS
  <2>6. a <= i
    BY <2>3, <2>5
  <2>7. a = i => b <= j
    BY <2>4, <2>5
  <2> QED
    BY <2>2, <2>5, <2>6, <2>7
<1>3. Program!InnermostTaker(s) = CHOOSE p \in T : \A q \in T : Below(p, q)
  BY DEF Program!InnermostTaker
<1> HIDE DEF T
<1>4. ASSUME NEW p \in T, \A q \in T : Below(p, q) PROVE p = <<i, j>>
  <2>1. Below(p, <<i, j>>) /\ Below(<<i, j>>, p)
    BY <1>1, <1>2, <1>4
  <2>2. p = <<p[1], p[2]>> /\ p[1] \in Nat /\ p[2] \in Nat /\ i \in Nat /\ j \in Nat
    BY <1>2
  <2>3. <<i, j>>[1] = i /\ <<i, j>>[2] = j
    OBVIOUS
  <2>4. p[1] = i /\ p[2] = j
    BY <2>1, <2>2, <2>3
  <2> QED
    BY <2>2, <2>4
<1>5. \A q \in T : Below(<<i, j>>, q)
  BY <1>2
<1> HIDE DEF Below
<1>6. (CHOOSE p \in T : \A q \in T : Below(p, q)) = <<i, j>>
  BY <1>1, <1>4, <1>5
<1> QED
  BY <1>1, <1>3, <1>6 DEF T

\* A construct of the program text that moves to a finally block.
LEMMA TextInFinally ==
    ASSUME NEW t \in Written, NEW tag
    PROVE  [t EXCEPT !.phase = "finally", !.tag = tag] =
               [kind |-> t.kind, catch |-> t.catch, phase |-> "finally", tag |-> tag]
<1>1. t = [kind |-> t.kind, catch |-> t.catch, phase |-> t.phase, tag |-> t.tag]
  BY DEF Written, TextOf
<1>2. DOMAIN t = {"kind", "catch", "phase", "tag"}
  BY <1>1
<1> DEFINE u == [t EXCEPT !.phase = "finally", !.tag = tag]
<1>3. u = [x \in DOMAIN t |-> IF x = "tag" THEN tag ELSE IF x = "phase" THEN "finally" ELSE t[x]]
  OBVIOUS
<1> QED
  BY <1>2, <1>3

\* What a construct looks like after it moves.
LEMMA TextsMove ==
    ASSUME NEW c \in Construct
    PROVE  /\ \A tag : [TextOf(c) EXCEPT !.phase = "finally", !.tag = tag] = TextOf(InFinally(c, tag))
           /\ \A phase : [TextOf(c) EXCEPT !.phase = phase] = TextOf(InPhase(c, phase))
           /\ TextOf(InFinally(Entered(c), "exception")) = TextOf(InFinally(c, "exception"))
           /\ IsTry(c) /\ c.phase = "body" =>
                  [TextOf(c) EXCEPT !.phase = "catch"] = TextOf(InPhase(Entered(c), "catch"))
<1>1. ASSUME NEW tag
      PROVE  [TextOf(c) EXCEPT !.phase = "finally", !.tag = tag] = TextOf(InFinally(c, tag))
  <2> DEFINE t == TextOf(c)
  <2>1. t \in Written /\ t.kind = c.kind /\ t.catch = c.catch
    BY TextFields
  <2>2. TextOf(InFinally(c, tag)) =
            [kind |-> c.kind, catch |-> c.catch, phase |-> "finally", tag |-> tag]
    BY DEF TextOf, InFinally, Construct
  <2> HIDE DEF t
  <2>3. [t EXCEPT !.phase = "finally", !.tag = tag] =
            [kind |-> t.kind, catch |-> t.catch, phase |-> "finally", tag |-> tag]
    BY <2>1, TextInFinally
  <2> QED
    BY <2>1, <2>2, <2>3 DEF t
<1>2. ASSUME NEW phase
      PROVE  [TextOf(c) EXCEPT !.phase = phase] = TextOf(InPhase(c, phase))
  BY DEF TextOf, InPhase, Construct
<1>3. TextOf(InFinally(Entered(c), "exception")) = TextOf(InFinally(c, "exception"))
  BY DEF TextOf, InFinally, Entered, Construct
<1>4. IsTry(c) /\ c.phase = "body" =>
          [TextOf(c) EXCEPT !.phase = "catch"] = TextOf(InPhase(Entered(c), "catch"))
  BY DEF TextOf, InPhase, Entered, Construct, IsTry
<1> QED
  BY <1>1, <1>2, <1>3, <1>4

\* Where an exception goes on, in the text.
LEMMA TextLands ==
    ASSUME NEW outer \in Seq(Construct), NEW c \in Construct,
           NEW fc, NEW slots, Owned(fc, slots, outer, c) # <<>>
    PROVE  Program!AfterException(Text(outer), TextOf(c)) = Text(LandingCtx(outer, c))
<1> DEFINE d == InPhase(Entered(c), "catch")
           f == InFinally(Entered(c), "exception")
           t == TextOf(c)
           to == Text(outer)
<1>1. /\ t.kind = c.kind /\ t.catch = c.catch /\ t.phase = c.phase
      /\ t.kind \in {"try", "loop", "foreach"}
  BY TextFields
<1>2. Entered(c) \in Construct /\ d \in Construct /\ f \in Construct
  <2>1. Entered(c) \in Construct
    BY DEF Entered, Construct
  <2> QED
    BY <2>1, ConstructTypes
<1>3. Text(Append(outer, d)) = Append(to, TextOf(d)) /\ Text(Append(outer, f)) = Append(to, TextOf(f))
  BY <1>2, TextMore
<1>4. /\ [t EXCEPT !.phase = "finally", !.tag = "exception"] = TextOf(f)
      /\ IsTry(c) /\ c.phase = "body" => [t EXCEPT !.phase = "catch"] = TextOf(d)
  BY TextsMove
<1> HIDE DEF d, f, t, to
<1>5. CASE ~IsTry(c)
  <2>1. t.kind = "foreach"
    BY <1>1, <1>5, Owners DEF IsTry
  <2>2. Program!AfterException(to, t) = to
    BY <2>1, Zenon DEF Program!AfterException
  <2> QED
    BY <1>5, <2>2 DEF LandingCtx, t, to
<1>6. CASE IsTry(c) /\ c.phase = "body" /\ c.catch
  <2>1. t.kind = "try" /\ t.catch /\ t.phase = "body" /\ t.kind # "foreach"
    BY <1>1, <1>6 DEF IsTry
  <2>2. Program!AfterException(to, t) = Append(to, [t EXCEPT !.phase = "catch"])
    BY <2>1, Zenon DEF Program!AfterException
  <2>3. LandingCtx(outer, c) = Append(outer, d)
    BY <1>6 DEF LandingCtx, d
  <2> QED
    BY <1>3, <1>4, <1>6, <2>2, <2>3 DEF t, to
<1>7. CASE IsTry(c) /\ ~(c.phase = "body" /\ c.catch)
  <2>1. t.kind # "foreach" /\ ~(t.catch /\ t.phase = "body")
    BY <1>1, <1>7 DEF IsTry
  <2>2. Program!AfterException(to, t) =
            Append(to, [t EXCEPT !.phase = "finally", !.tag = "exception"])
    BY <2>1, Zenon DEF Program!AfterException
  <2>3. LandingCtx(outer, c) = Append(outer, f)
    BY <1>7 DEF LandingCtx, f
  <2> QED
    BY <1>3, <1>4, <2>2, <2>3 DEF t, to
<1> QED
  BY <1>5, <1>6, <1>7

\* The text goes to the code that the handler on top points at.
LEMMA HandlerFollowsText ==
    ASSUME NEW fs \in Seq(Frame), NEW bases, NEW natives, FramesOK(fs, bases, natives),
           AllHandlers(fs) # <<>>
    PROVE  LET h == Last(AllHandlers(fs))
           IN  /\ Program!Takers(Texts(fs)) # {}
               /\ Program!Unwound(Texts(fs)) =
                      Append(Texts(SubSeq(fs, 1, h.frameCount - 1)), Text(h.ctx))
<1> DEFINE h == Last(AllHandlers(fs))
           s == Texts(fs)
<1>1. PICK i \in 1 .. Len(fs) : \E j \in 1 .. Len(fs[i].ctx) :
          LandsAt(fs, i, j, h, Front(AllHandlers(fs)))
  BY HandlerOnTop
<1>2. PICK j \in 1 .. Len(fs[i].ctx) : LandsAt(fs, i, j, h, Front(AllHandlers(fs)))
  BY <1>1
<1> DEFINE ctx == fs[i].ctx
           p == Around(ctx, j)
           c == ctx[j]
<1>3. /\ h.frameCount = i /\ h.ctx = LandingCtx(p, c)
      /\ Owned(i, fs[i].slots, p, c) # <<>> /\ OwnNothingAbove(fs, i, j)
  BY <1>2 DEF LandsAt
<1>4. /\ ctx \in Seq(Construct) /\ i \in Nat /\ Len(fs) \in Nat /\ Len(ctx) \in Nat
      /\ \A k \in 1 .. Len(fs) : fs[k].ctx \in Seq(Construct)
  BY FrameFields
<1>5. p \in Seq(Construct) /\ c \in Construct
  BY <1>4, AroundType
<1>6. /\ Len(s) = Len(fs) /\ \A k \in 1 .. Len(fs) : s[k] = Text(fs[k].ctx)
  BY TextsAre
<1>7. \A k \in 1 .. Len(fs) : Len(s[k]) = Len(fs[k].ctx) /\ Len(s[k]) \in Nat
  BY <1>4, <1>6, TextIs
<1>8. Program!Takes(s[i][j])
  BY <1>3, TextTakes
<1>9. NoTakerAbove(s, i, j)
  <2>1. ASSUME NEW k \in j + 1 .. Len(s[i]) PROVE ~Program!Takes(s[i][k])
    <3>1. k \in j + 1 .. Len(fs[i].ctx)
      BY <1>7
    <3>2. k \in 1 .. Len(fs[i].ctx)
      BY <1>4, <3>1
    <3>3. Owned(i, fs[i].slots, Around(fs[i].ctx, k), fs[i].ctx[k]) = <<>>
      BY <1>3, <3>1 DEF OwnNothingAbove
    <3> QED
      BY <3>2, <3>3, TextTakes
  <2>2. ASSUME NEW k \in i + 1 .. Len(s), NEW m \in 1 .. Len(s[k]) PROVE ~Program!Takes(s[k][m])
    <3>1. k \in i + 1 .. Len(fs)
      BY <1>6
    <3>2. k \in 1 .. Len(fs)
      BY <1>4, <3>1
    <3>3. m \in 1 .. Len(fs[k].ctx)
      BY <1>7, <3>2
    <3>4. CtxHandlers(k, fs[k].slots, fs[k].ctx) = <<>>
      BY <1>3, <3>1 DEF OwnNothingAbove
    <3>5. k \in Nat /\ fs[k].slots \in Int /\ fs[k].ctx \in Seq(Construct)
      BY <3>2, FrameFields
    <3>6. Owned(k, fs[k].slots, Around(fs[k].ctx, m), fs[k].ctx[m]) = <<>>
      BY <3>3, <3>4, <3>5, CtxOwnsNone
    <3> QED
      BY <3>2, <3>3, <3>6, TextTakes
  <2> QED
    BY <2>1, <2>2 DEF NoTakerAbove
<1>10. i \in 1 .. Len(s) /\ j \in 1 .. Len(s[i]) /\ Len(s) \in Nat
  BY <1>4, <1>6, <1>7
<1>11. Program!InnermostTaker(s) = <<i, j>> /\ Program!Takers(s) # {}
  <2> HIDE DEF s
  <2>1. \A k \in 1 .. Len(s) : Len(s[k]) \in Nat
    BY <1>6, <1>7
  <2> QED
    BY <1>8, <1>9, <1>10, <2>1, InnermostTakerIs
<1>12. Program!AfterException(SubSeq(s[i], 1, j - 1), s[i][j]) = Text(h.ctx)
  <2>1. s[i] = Text(ctx) /\ s[i][j] = TextOf(c)
    BY <1>4, <1>6, TextIs
  <2>2. SubSeq(Text(ctx), 1, j - 1) = Text(p)
    <3> DEFINE m == j - 1
    <3>1. m \in 0 .. Len(ctx)
      BY <1>4
    <3> HIDE DEF m, ctx
    <3>2. Text(SubSeq(ctx, 1, m)) = SubSeq(Text(ctx), 1, m)
      BY <1>4, <3>1, TextPrefix
    <3> QED
      BY <3>2 DEF m, Around
  <2> HIDE DEF p, c
  <2>3. Program!AfterException(Text(p), TextOf(c)) = Text(LandingCtx(p, c))
    BY <1>3, <1>5, TextLands
  <2> QED
    BY <1>3, <2>1, <2>2, <2>3
<1>13. SubSeq(s, 1, i - 1) = Texts(SubSeq(fs, 1, i - 1))
  <2> DEFINE m == i - 1
  <2>1. m \in 0 .. Len(fs)
    BY <1>4
  <2> HIDE DEF m
  <2>2. Texts(SubSeq(fs, 1, m)) = SubSeq(Texts(fs), 1, m)
    BY <2>1, TextsPrefix
  <2> QED
    BY <2>2 DEF m
<1> HIDE DEF s, h
<1>14. Program!Unwound(s) = Append(SubSeq(s, 1, i - 1),
                               Program!AfterException(SubSeq(s[i], 1, j - 1), s[i][j]))
  BY <1>11 DEF Program!Unwound
<1> QED
  BY <1>3, <1>11, <1>12, <1>13, <1>14 DEF s, h

-----------------------------------------------------------------------------
(* The mapping, mode by mode.                                              *)

\* What the abstract state is before a step ...
LEMMA Before ==
    /\ mode \in {"exec", "native"} => ProgramState = "running" /\ ProgramStack = Texts(frames)
    /\ mode = "unwind" =>
          /\ ProgramState = "running"
          /\ ProgramStack = Append(Texts(SubSeq(frames, 1, Last(handlers).frameCount - 1)),
                                   Text(Last(handlers).ctx))
    /\ mode = "error" => ProgramState = "failed" /\ ProgramStack = Texts(frames)
    /\ mode = "idle" => ProgramState = "idle" /\ ProgramStack = Texts(frames)
<1>1. CASE mode = "unwind"
  BY <1>1, Zenon DEF ProgramStack, ProgramState
<1>2. CASE mode \in {"exec", "native"}
  BY <1>2, Zenon DEF ProgramStack, ProgramState
<1>3. CASE mode = "error"
  BY <1>3, Zenon DEF ProgramStack, ProgramState
<1>4. CASE mode = "idle"
  BY <1>4, Zenon DEF ProgramStack, ProgramState
<1> QED
  BY <1>1, <1>2, <1>3, <1>4

\* ... and after it.
LEMMA After ==
    /\ mode' \in {"exec", "native"} => ProgramState' = "running" /\ ProgramStack' = Texts(frames')
    /\ mode' = "unwind" =>
          /\ ProgramState' = "running"
          /\ ProgramStack' = Append(Texts(SubSeq(frames', 1, Last(handlers').frameCount - 1)),
                                    Text(Last(handlers').ctx))
    /\ mode' = "error" => ProgramState' = "failed" /\ ProgramStack' = Texts(frames')
    /\ mode' \in {"idle", "exited"} => ProgramState' = mode' /\ ProgramStack' = Texts(frames')
<1>1. CASE mode' = "unwind"
  BY <1>1, Zenon DEF ProgramStack, ProgramState
<1>2. CASE mode' \in {"exec", "native"}
  BY <1>2, Zenon DEF ProgramStack, ProgramState
<1>3. CASE mode' = "error"
  BY <1>3, Zenon DEF ProgramStack, ProgramState
<1>4. CASE mode' \in {"idle", "exited"}
  BY <1>4, Zenon DEF ProgramStack, ProgramState
<1> QED
  BY <1>1, <1>2, <1>3, <1>4

\* Both specifications take the sequence operators from the same module.
LEMMA SameOperators ==
    ASSUME NEW s
    PROVE  Program!Front(s) = Front(s) /\ Program!Last(s) = Last(s)
BY DEF Program!Front, Front, Program!Last, Last

\* A step of the abstract program, or none.
Step == Program!Next \/ UNCHANGED <<ProgramStack, ProgramState>>

\* A sequence is its front and its last element.
LEMMA Rejoined ==
    ASSUME NEW S, NEW s \in Seq(S), s # <<>>
    PROVE  s = Append(Front(s), Last(s))
<1>1. /\ Front(s) \in Seq(S) /\ Len(s) \in Nat /\ Len(s) > 0
      /\ Len(Front(s)) = Len(s) - 1 /\ Last(s) = s[Len(s)] /\ Last(s) \in S
      /\ \A i \in 1 .. Len(s) - 1 : Front(s)[i] = s[i]
  BY FrontLast
<1> DEFINE f == Front(s)
           e == Last(s)
           r == Append(f, e)
<1> HIDE DEF f, e
<1>2. /\ r \in Seq(S) /\ Len(r) = Len(f) + 1 /\ r[Len(f) + 1] = e
      /\ \A i \in 1 .. Len(f) : r[i] = f[i]
  BY <1>1, Appended DEF f, e
<1> HIDE DEF r
<1>3. Len(r) = Len(s) /\ Len(f) = Len(s) - 1
  BY <1>1, <1>2 DEF f
<1>4. ASSUME NEW i \in 1 .. Len(s) PROVE s[i] = r[i]
  <2>1. CASE i = Len(s)
    BY <1>1, <1>2, <1>3, <2>1 DEF e
  <2>2. CASE i # Len(s)
    <3>1. i \in 1 .. Len(s) - 1 /\ i \in 1 .. Len(f)
      BY <1>1, <1>3, <2>2
    <3> QED
      BY <1>1, <1>2, <3>1 DEF f
  <2> QED
    BY <2>1, <2>2
<1>5. s = r
  BY <1>2, <1>3, <1>4, SeqEqual
<1> QED
  BY <1>5 DEF r, f, e

\* The point the program is at.
LEMMA HereIs ==
    ASSUME Inv, SafeInv, mode = "exec"
    PROVE  /\ ProgramState = "running" /\ ProgramStack = Texts(frames)
           /\ frames \in Seq(Frame) /\ frames # <<>> /\ Front(frames) \in Seq(Frame)
           /\ Ctx \in Seq(Construct)
           /\ Len(ProgramStack) = Len(frames)
           /\ Front(ProgramStack) = Texts(Front(frames))
           /\ Program!Ctx = Text(Ctx)
           /\ ProgramStack = Append(Texts(Front(frames)), Text(Ctx))
           /\ Program!OutsideTry <=> ~InTry
<1>1. frames \in Seq(Frame) /\ frames # <<>> /\ Ctx \in Seq(Construct)
  BY OnTop
<1>2. ProgramState = "running" /\ ProgramStack = Texts(frames)
  BY Before
<1>3. /\ Texts(frames) # <<>> /\ Last(Texts(frames)) = Text(Ctx)
      /\ Front(Texts(frames)) = Texts(Front(frames)) /\ Front(frames) \in Seq(Frame)
  BY <1>1, TextsTop DEF Ctx, Top
<1>4. Texts(frames) \in Seq(Seq(Written)) /\ Len(Texts(frames)) = Len(frames)
  BY <1>1, TextsAre
<1>5. Texts(frames) = Append(Front(Texts(frames)), Last(Texts(frames)))
  BY <1>3, <1>4, Rejoined
<1>6. Program!Ctx = Text(Ctx)
  BY <1>2, <1>3, SameOperators DEF Program!Ctx
<1>7. Program!OutsideTry <=> ~InTry
  <2>1. Len(Text(Ctx)) = Len(Ctx) /\ \A j \in 1 .. Len(Ctx) : Text(Ctx)[j] = TextOf(Ctx[j])
    BY <1>1, TextIs
  <2>2. \A j \in 1 .. Len(Ctx) : Text(Ctx)[j].kind = Ctx[j].kind
    BY <1>1, <2>1, TextFields
  <2>3. Program!OutsideTry <=> \A j \in 1 .. Len(Ctx) : ~IsTry(Ctx[j])
    BY <1>6, <2>1, <2>2 DEF Program!OutsideTry, IsTry
  <2>4. InTry <=> \E j \in 1 .. Len(Ctx) : IsTry(Ctx[j])
    BY DEF InTry, TryPositions
  <2> QED
    BY <2>3, <2>4
<1> QED
  BY <1>1, <1>2, <1>3, <1>4, <1>5, <1>6, <1>7

\* The construct the program is in.
LEMMA InnermostIs ==
    ASSUME Inv, SafeInv, mode = "exec", Ctx # <<>>
    PROVE  /\ Program!Ctx # <<>> /\ Front(Program!Ctx) = Text(Front(Ctx))
           /\ Program!Here = TextOf(Last(Ctx))
           /\ Front(Ctx) \in Seq(Construct) /\ Last(Ctx) \in Construct
           /\ Ctx = Append(Front(Ctx), Last(Ctx))
           /\ Program!Here.kind = Last(Ctx).kind /\ Program!Here.phase = Last(Ctx).phase
           /\ Program!Here.tag = Last(Ctx).tag
<1>1. Ctx \in Seq(Construct) /\ Program!Ctx = Text(Ctx)
  BY HereIs
<1>2. /\ Text(Ctx) # <<>> /\ Last(Text(Ctx)) = TextOf(Last(Ctx))
      /\ Front(Text(Ctx)) = Text(Front(Ctx))
      /\ Front(Ctx) \in Seq(Construct) /\ Last(Ctx) \in Construct
  BY <1>1, TextTop
<1>3. Ctx = Append(Front(Ctx), Last(Ctx))
  BY <1>1, Rejoined
<1>4. Program!Here = TextOf(Last(Ctx))
  BY <1>1, <1>2, SameOperators DEF Program!Here
<1> QED
  BY <1>1, <1>2, <1>3, <1>4, TextFields

\* A step inside the frame on top.
LEMMA Rewrites ==
    ASSUME Inv, SafeInv, mode = "exec", NEW n \in Nat, NEW ctx \in Seq(Construct),
           frames' = TopAt(n, ctx), mode' = mode
    PROVE  /\ Program!Rewrite(Text(ctx)) /\ ProgramState' = ProgramState
           /\ ProgramStack' = Append(Texts(Front(frames)), Text(ctx))
<1> DEFINE f == [slots |-> Top.slots, locals |-> n, ctx |-> ctx]
<1>1. f \in Frame /\ f.ctx = ctx
  <2>1. Top.slots \in Int
    BY OnTop
  <2> QED
    BY <2>1 DEF Frame
<1>2. frames' = Append(Front(frames), f)
  BY DEF TopAt, WithTop
<1> HIDE DEF f
<1>3. /\ ProgramState = "running" /\ Front(frames) \in Seq(Frame)
      /\ Front(ProgramStack) = Texts(Front(frames))
  BY HereIs
<1>4. Texts(frames') = Append(Texts(Front(frames)), Text(ctx))
  BY <1>1, <1>2, <1>3, TextsMore
<1>5. ProgramState' = "running" /\ ProgramStack' = Texts(frames')
  BY After
<1> QED
  BY <1>3, <1>4, <1>5, SameOperators DEF Program!Rewrite

\* A frame more.
LEMMA CallsInText ==
    ASSUME frames \in Seq(Frame), mode \in {"exec", "native"}, mode' = "exec",
           NEW slots \in Int, NEW n \in Nat, frames' = Append(frames, NewFrame(slots, n))
    PROVE  Step
<1>1. NewFrame(slots, n) \in Frame
  BY NewFrameType
<1>2. NewFrame(slots, n).ctx = <<>>
  BY DEF NewFrame
<1>3. Texts(frames') = Append(Texts(frames), <<>>)
  BY <1>1, <1>2, TextsMore, TextsEmpty
<1>4. ProgramState = "running" /\ ProgramStack = Texts(frames)
  BY Before
<1>5. ProgramState' = "running" /\ ProgramStack' = Texts(frames')
  BY After
<1>6. Program!Call
  BY <1>3, <1>4, <1>5 DEF Program!Call
<1> QED
  BY <1>6 DEF Step, Program!Next

\* An error that nothing catches.
LEMMA Fails ==
    ASSUME mode \in {"exec", "native"}, NEW rs, HardErrorUnder(rs)
    PROVE  Step
<1>1. ProgramState = "running"
  BY Before
<1>2. mode' = "error" /\ frames' = <<>>
  BY DEF HardErrorUnder, ResetStack
<1>3. ProgramState' = "failed" /\ ProgramStack' = <<>>
  BY <1>2, After, TextsEmpty
<1>4. Program!Fail
  BY <1>1, <1>3 DEF Program!Fail
<1> QED
  BY <1>4 DEF Step, Program!Next

\* An exception goes where the text of the program says.
LEMMA Throws ==
    ASSUME mode \in {"exec", "native"}, frames \in Seq(Frame), handlers = AllHandlers(frames),
           FramesOK(frames, Bases(runs), NativeBases(runs)),
           handlers # <<>>, mode' = "unwind", frames' = frames, handlers' = handlers
    PROVE  Program!Raise
<1> DEFINE h == Last(AllHandlers(frames))
<1>1. /\ Program!Takers(Texts(frames)) # {}
      /\ Program!Unwound(Texts(frames)) =
             Append(Texts(SubSeq(frames, 1, h.frameCount - 1)), Text(h.ctx))
  BY HandlerFollowsText
<1>2. ProgramState = "running" /\ ProgramStack = Texts(frames)
  BY Before
<1>3. /\ ProgramState' = "running"
      /\ ProgramStack' = Append(Texts(SubSeq(frames, 1, h.frameCount - 1)), Text(h.ctx))
  BY After
<1> QED
  BY <1>1, <1>2, <1>3 DEF Program!Raise

LEMMA Raises ==
    ASSUME Inv, SafeInv, mode = "exec", Raise
    PROVE  Program!Raise
<1>1. /\ frames \in Seq(Frame) /\ handlers = AllHandlers(frames)
      /\ FramesOK(frames, Bases(runs), NativeBases(runs))
  BY OnTop
<1>2. CASE handlers = <<>>
  <2>1. mode' = "error" /\ frames' = <<>>
    BY <1>2 DEF Raise, HardErrorUnder, ResetStack
  <2>2. ProgramStack = Texts(frames)
    BY HereIs
  <2>3. Program!Takers(ProgramStack) = {}
    BY <1>1, <1>2, <2>2, NoTakers
  <2>4. ProgramState' = "failed" /\ ProgramStack' = <<>>
    BY <2>1, After, TextsEmpty
  <2> QED
    BY <2>3, <2>4 DEF Program!Raise
<1>3. CASE handlers # <<>>
  <2>1. mode' = "unwind" /\ frames' = frames /\ handlers' = handlers
    BY <1>3 DEF Raise
  <2> QED
    BY <1>1, <1>3, <2>1, Throws
<1> QED
  BY <1>2, <1>3

-----------------------------------------------------------------------------
(* Returns.                                                                *)

\* A frame that waits for nothing goes on where it was.
LEMMA GoesOn ==
    ASSUME NEW fs \in Seq(Frame), fs # <<>>, ~Waiting(Last(fs).ctx)
    PROVE  Program!Resumed(Texts(fs)) = Texts(fs)
<1> DEFINE ctx == Last(fs).ctx
           s == Texts(fs)
<1>1. Last(s) = Text(ctx) /\ ctx \in Seq(Construct)
  BY TextsTop
<1> HIDE DEF ctx, s
<1>2. ~(Last(s) # <<>> /\ Last(Last(s)).phase = "next")
  <2>1. CASE ctx = <<>>
    BY <1>1, <2>1, TextsEmpty
  <2>2. CASE ctx # <<>>
    <3>1. Last(Text(ctx)) = TextOf(Last(ctx)) /\ Last(ctx) \in Construct
      BY <1>1, <2>2, TextTop
    <3>2. Last(ctx).phase # "next"
      BY <2>2 DEF Waiting, ctx
    <3> QED
      BY <1>1, <3>1, <3>2, TextFields
  <2> QED
    BY <2>1, <2>2
<1> QED
  BY <1>2, SameOperators DEF Program!Resumed, s

\* A for-each that waited for __next__ runs its body.
LEMMA GoesOnInBody ==
    ASSUME NEW fs \in Seq(Frame), fs # <<>>, Waiting(Last(fs).ctx)
    PROVE  LET ctx == Last(fs).ctx
           IN  Program!Resumed(Texts(fs)) =
                   Append(Texts(Front(fs)), Text(Append(Front(ctx), InPhase(Last(ctx), "body"))))
<1> DEFINE ctx == Last(fs).ctx
           c == Last(ctx)
           d == InPhase(c, "body")
           s == Texts(fs)
<1>1. Last(s) = Text(ctx) /\ Front(s) = Texts(Front(fs)) /\ ctx \in Seq(Construct)
  BY TextsTop
<1>2. ctx # <<>> /\ c.phase = "next"
  BY DEF Waiting
<1> HIDE DEF ctx, s
<1>3. /\ Text(ctx) # <<>> /\ Last(Text(ctx)) = TextOf(c) /\ Front(Text(ctx)) = Text(Front(ctx))
      /\ Front(ctx) \in Seq(Construct) /\ c \in Construct
  BY <1>1, <1>2, TextTop
<1>4. d \in Construct
  <2> HIDE DEF c
  <2>1. c.kind = "foreach"
    BY <1>2, <1>3 DEF Construct
  <2> QED
    BY <1>3, <2>1, ConstructTypes
<1>5. Text(Append(Front(ctx), d)) = Append(Text(Front(ctx)), TextOf(d))
  BY <1>3, <1>4, TextMore
<1>6. [TextOf(c) EXCEPT !.phase = "body"] = TextOf(d)
  BY <1>3, TextsMove
<1>7. TextOf(c).phase = "next"
  BY <1>2, <1>3, TextFields
<1> HIDE DEF c, d
<1>8. Program!Resumed(s) =
          Append(Front(s), Append(Front(Text(ctx)), [TextOf(c) EXCEPT !.phase = "body"]))
  BY <1>1, <1>3, <1>7, SameOperators DEF Program!Resumed
<1> QED
  BY <1>1, <1>3, <1>5, <1>6, <1>8 DEF s, c, d, ctx

\* The base frame of a run() returns.
LEMMA LeavesRun ==
    ASSUME Inv, SafeInv, mode = "exec", NEW top, Len(frames) - 1 = Base,
           ReturnFromRun(Front(frames), top)
    PROVE  Program!LeaveFrame
<1> DEFINE fs == Front(frames)
<1>1. /\ fs \in Seq(Frame) /\ Len(fs) = Base /\ Len(frames) = Base + 1
      /\ FramesOK(fs, Bases(runs), NativeBases(runs))
  <2>1. /\ frames \in Seq(Frame) /\ frames # <<>> /\ Base \in Nat /\ Len(frames) \in Nat
        /\ FramesOK(frames, Bases(runs), NativeBases(runs))
    BY OnTop
  <2>2. /\ fs \in Seq(Frame) /\ Len(fs) = Len(frames) - 1 /\ Len(frames) \in Nat \ {0}
        /\ fs = SubSeq(frames, 1, Len(frames) - 1)
    BY <2>1, TopHandlers
  <2>3. FramesOK(fs, Bases(runs), NativeBases(runs))
    <3> DEFINE m == Len(frames) - 1
    <3>1. m \in 0 .. Len(frames)
      BY <2>2
    <3> HIDE DEF m
    <3>2. FramesOK(SubSeq(frames, 1, m), Bases(runs), NativeBases(runs))
      BY <2>1, <3>1, FramesBelow
    <3> QED
      BY <2>2, <3>2 DEF m
  <2> QED
    BY <2>1, <2>2, <2>3
<1>2. Base \in Nat /\ Base \in Bases(runs)
  BY OnTop
<1>3. RunStack(runs) /\ runs # <<>>
  BY Running
<1>4. /\ Last(runs).kind # "interpret" => Base \in Nat \ {0}
      /\ Last(runs).kind = "interpret" => Base = 0
  BY <1>3, BaseAboveZero DEF Base
<1>5. /\ ProgramState = "running" /\ Len(ProgramStack) = Len(frames)
      /\ Front(ProgramStack) = Texts(fs)
  BY HereIs
<1>6. frames' = fs
  BY DEF ReturnFromRun
<1> HIDE DEF fs
<1>7. CASE Last(runs).kind = "interpret"
  <2>1. mode' \in {"idle", "exited"}
    BY <1>7 DEF ReturnFromRun, AfterProgram, Swallows
  <2>2. fs = <<>>
    BY <1>1, <1>4, <1>7, EmptyLen
  <2>3. ProgramState' \in {"idle", "exited"} /\ ProgramStack' = <<>>
    BY <1>6, <2>1, <2>2, After, TextsEmpty
  <2>4. Len(ProgramStack) = 1
    BY <1>1, <1>4, <1>5, <1>7
  <2> QED
    BY <2>3, <2>4 DEF Program!LeaveFrame
<1>8. CASE Last(runs).kind # "interpret"
  <2>1. mode' \in {"exec", "native"}
    BY <1>8 DEF ReturnFromRun
  <2>2. Base \in 1 .. Len(fs) /\ Last(fs) = fs[Base] /\ fs # <<>>
    <3>1. Base \in Nat \ {0}
      BY <1>4, <1>8
    <3> QED
      BY <1>1, <3>1, EmptyLen DEF Last
  <2>3. ~Waiting(Last(fs).ctx)
    BY <1>1, <1>2, <2>2 DEF FramesOK, FrameOK
  <2>4. Program!Resumed(Texts(fs)) = Texts(fs)
    BY <1>1, <2>2, <2>3, GoesOn
  <2>5. ProgramState' = "running" /\ ProgramStack' = Texts(fs)
    BY <1>6, <2>1, After
  <2>6. Len(ProgramStack) # 1
    BY <1>1, <1>4, <1>5, <1>8
  <2> QED
    BY <1>5, <2>4, <2>5, <2>6, SameOperators DEF Program!LeaveFrame
<1> QED
  BY <1>7, <1>8

\* A call inside one run() returns.
LEMMA LeavesCall ==
    ASSUME Inv, SafeInv, mode = "exec", NEW top, Len(frames) - 1 # Base,
           ResumeCaller(Front(frames), top), mode' = mode
    PROVE  Program!LeaveFrame
<1> DEFINE fs == Front(frames)
           caller == Last(fs)
           ctx == caller.ctx
           f == [ slots  |-> caller.slots, locals |-> caller.locals + 1,
                  ctx    |-> Append(Front(ctx), InPhase(Last(ctx), "body")) ]
<1>1. /\ fs \in Seq(Frame) /\ Len(fs) = Len(frames) - 1
  <2>1. frames \in Seq(Frame) /\ frames # <<>>
    BY OnTop
  <2> QED
    BY <2>1, TopHandlers
<1>2. Base \in Nat /\ Len(frames) \in Nat /\ Len(frames) > Base
  BY OnTop
<1>3. Len(fs) # 0 /\ Len(frames) # 1
  <2> HIDE DEF fs
  <2> QED
    BY <1>1, <1>2
<1>4. fs # <<>>
  BY <1>1, <1>3, EmptyLen
<1>5. /\ ProgramState = "running" /\ Len(ProgramStack) = Len(frames)
      /\ Front(ProgramStack) = Texts(fs)
  BY HereIs
<1>6. ProgramState' = "running" /\ ProgramStack' = Texts(frames')
  BY After
<1> HIDE DEF fs
<1>7. Texts(frames') = Program!Resumed(Texts(fs))
  <2>1. CASE Waiting(ctx)
    <3>1. frames' = Append(Front(fs), f)
      BY <2>1 DEF ResumeCaller, Waiting, fs
    <3>2. /\ Front(fs) \in Seq(Frame) /\ caller \in Frame /\ ctx \in Seq(Construct)
          /\ caller.slots \in Int /\ caller.locals \in Nat
      BY <1>1, <1>4, TextsTop, HeightType
    <3>3. InPhase(Last(ctx), "body") \in Construct /\ Front(ctx) \in Seq(Construct)
      <4>1. ctx # <<>> /\ Last(ctx).phase = "next"
        BY <2>1 DEF Waiting
      <4> HIDE DEF ctx
      <4>2. Last(ctx) \in Construct /\ Front(ctx) \in Seq(Construct)
        BY <3>2, <4>1, TextTop
      <4>3. Last(ctx).kind = "foreach"
        BY <4>1, <4>2 DEF Construct
      <4> QED
        BY <4>2, <4>3, ConstructTypes
    <3> HIDE DEF caller, ctx
    <3>4. Append(Front(ctx), InPhase(Last(ctx), "body")) \in Seq(Construct)
      BY <3>3, Appended
    <3>5. f \in Frame /\ f.ctx = Append(Front(ctx), InPhase(Last(ctx), "body"))
      BY <3>2, <3>4 DEF Frame
    <3> HIDE DEF f
    <3>6. Texts(frames') = Append(Texts(Front(fs)), Text(f.ctx))
      BY <3>1, <3>2, <3>5, TextsMore
    <3>7. Program!Resumed(Texts(fs)) =
              Append(Texts(Front(fs)), Text(Append(Front(ctx), InPhase(Last(ctx), "body"))))
      BY <1>1, <1>4, <2>1, GoesOnInBody DEF ctx, caller
    <3> QED
      BY <3>5, <3>6, <3>7
  <2>2. CASE ~Waiting(ctx)
    <3>1. frames' = fs
      BY <2>2 DEF ResumeCaller, Waiting, fs
    <3> QED
      BY <1>1, <1>4, <2>2, <3>1, GoesOn
  <2> QED
    BY <2>1, <2>2
<1> QED
  BY <1>3, <1>5, <1>6, <1>7, SameOperators DEF Program!LeaveFrame

\* A return.
LEMMA ReturnMaps ==
    ASSUME Inv, SafeInv, Return
    PROVE  Step
<1>1. /\ AtStatement /\ ~InTry
      /\ \/ Len(frames) - 1 = Base /\ ReturnFromRun(Front(frames), Top.slots)
         \/ Len(frames) - 1 # Base /\ ResumeCaller(Front(frames), Top.slots) /\ mode' = mode
  BY DEF Return
<1>2. mode = "exec"
  BY <1>1, AtRest
<1>3. ProgramState = "running" /\ Program!OutsideTry
  BY <1>1, <1>2, HereIs
<1>4. Program!LeaveFrame
  BY <1>1, <1>2, LeavesRun, LeavesCall
<1>5. Program!Return
  BY <1>3, <1>4 DEF Program!Return
<1> QED
  BY <1>5 DEF Step, Program!Next

\* A return inside a try.
LEMMA ReturnInTryMaps ==
    ASSUME Inv, SafeInv, ReturnInTry, mode' # "wild"
    PROVE  Step
<1> DEFINE j == Innermost(TryPositions(Ctx))
           c == Ctx[j]
           d == InFinally(c, "return")
           p == SubSeq(Ctx, 1, j - 1)
<1>1. /\ AtStatement /\ InTry /\ c.phase # "finally" /\ mode' = mode
      /\ frames' = TopAt(c.at, Append(p, d))
  BY DEF ReturnInTry, GoWild
<1>2. mode = "exec"
  BY <1>1, AtRest
<1>3. /\ Ctx \in Seq(Construct) /\ Program!Ctx = Text(Ctx) /\ ProgramState = "running"
  BY <1>2, HereIs
<1>4. /\ Len(Ctx) \in Nat /\ TryPositions(Ctx) \in SUBSET (1 .. Len(Ctx)) /\ TryPositions(Ctx) # {}
  BY <1>1, <1>3 DEF InTry, TryPositions
<1>5. j \in TryPositions(Ctx) /\ \A i \in TryPositions(Ctx) : i <= j
  BY <1>4, InnermostIn
<1> HIDE DEF j
<1>6. j \in 1 .. Len(Ctx) /\ IsTry(c) /\ c \in Construct /\ p \in Seq(Construct)
  BY <1>3, <1>5 DEF TryPositions
<1>7. d \in Construct /\ c.at \in Nat
  <2> HIDE DEF c
  <2> QED
    BY <1>6, ConstructTypes, LoopLocals
<1>8. Append(p, d) \in Seq(Construct)
  BY <1>6, <1>7, Appended
<1>9. Program!Rewrite(Text(Append(p, d))) /\ ProgramState' = ProgramState
  <2> HIDE DEF c, d, p
  <2> QED
    BY <1>1, <1>2, <1>7, <1>8, Rewrites
<1>10. Text(Append(p, d)) = Append(Text(p), TextOf(d))
  BY <1>6, <1>7, TextMore
<1>11. Text(p) = SubSeq(Text(Ctx), 1, j - 1)
  <2> DEFINE m == j - 1
  <2>1. m \in 0 .. Len(Ctx)
    BY <1>4, <1>6
  <2> HIDE DEF m
  <2>2. Text(SubSeq(Ctx, 1, m)) = SubSeq(Text(Ctx), 1, m)
    BY <1>3, <2>1, TextPrefix
  <2> QED
    BY <2>2 DEF m
<1>12. /\ Len(Text(Ctx)) = Len(Ctx) /\ \A k \in 1 .. Len(Ctx) : Text(Ctx)[k] = TextOf(Ctx[k])
       /\ \A k \in 1 .. Len(Ctx) : Text(Ctx)[k].kind = Ctx[k].kind
       /\ \A k \in 1 .. Len(Ctx) : Text(Ctx)[k].phase = Ctx[k].phase
  <2>1. Len(Text(Ctx)) = Len(Ctx) /\ \A k \in 1 .. Len(Ctx) : Text(Ctx)[k] = TextOf(Ctx[k])
    BY <1>3, TextIs
  <2>2. \A k \in 1 .. Len(Ctx) : Ctx[k] \in Construct
    BY <1>3
  <2> QED
    BY <2>1, <2>2, TextFields
<1>13. [TextOf(c) EXCEPT !.phase = "finally", !.tag = "return"] = TextOf(d)
  <2> HIDE DEF c
  <2> QED
    BY <1>6, TextsMove
<1> DEFINE s == Text(Ctx)
<1>14. /\ j \in 1 .. Len(s) /\ s[j].kind = "try" /\ s[j].phase # "finally"
       /\ s[j] = TextOf(c)
  BY <1>1, <1>6, <1>12 DEF IsTry
<1>15. \A k \in j + 1 .. Len(s) : s[k].kind # "try"
  <2> SUFFICES ASSUME NEW k \in j + 1 .. Len(s), s[k].kind = "try" PROVE FALSE
    OBVIOUS
  <2>1. k \in 1 .. Len(Ctx) /\ ~(k <= j)
    BY <1>4, <1>6, <1>12
  <2>2. k \in TryPositions(Ctx)
    BY <1>12, <2>1 DEF TryPositions, IsTry
  <2> QED
    BY <1>5, <2>1, <2>2
<1> HIDE DEF s, c, d, p
<1>16. Program!Rewrite(Append(SubSeq(s, 1, j - 1), [s[j] EXCEPT !.phase = "finally", !.tag = "return"]))
  BY <1>9, <1>10, <1>11, <1>13, <1>14 DEF s
<1>17. Program!Ctx = s
  BY <1>3 DEF s
<1>18. Program!ReturnThrough
  BY <1>3, <1>9, <1>14, <1>15, <1>16, <1>17 DEF Program!ReturnThrough
<1> QED
  BY <1>18 DEF Step, Program!Next

-----------------------------------------------------------------------------
(* The other statements.                                                   *)

\* A statement that stays inside the frame on top and opens construct c.
LEMMA Opens ==
    ASSUME Inv, SafeInv, mode = "exec", NEW n \in Nat, NEW c \in Construct,
           TextOf(c) \in Program!Constructs,
           frames' = TopAt(n, Append(Ctx, c)), mode' = mode
    PROVE  Step
<1>1. Ctx \in Seq(Construct) /\ Program!Ctx = Text(Ctx) /\ ProgramState = "running"
  BY HereIs
<1>2. Append(Ctx, c) \in Seq(Construct)
  BY <1>1, Appended
<1>3. Program!Rewrite(Text(Append(Ctx, c))) /\ ProgramState' = ProgramState
  <2> DEFINE more == Append(Ctx, c)
  <2> HIDE DEF more
  <2> QED
    BY <1>2, Rewrites DEF more
<1>4. Text(Append(Ctx, c)) = Append(Text(Ctx), TextOf(c))
  BY <1>1, TextMore
<1>5. Program!Enter(TextOf(c))
  BY <1>1, <1>3, <1>4 DEF Program!Enter
<1>6. \E t \in Program!Constructs : Program!Enter(t)
  BY <1>5
<1> QED
  BY <1>6 DEF Step, Program!Next

\* The construct the program is in moves to another block ...
LEMMA Moves ==
    ASSUME Inv, SafeInv, mode = "exec", Ctx # <<>>, NEW n \in Nat, NEW d \in Construct,
           frames' = TopAt(n, Append(Front(Ctx), d)), mode' = mode
    PROVE  /\ ProgramState = "running" /\ ProgramState' = ProgramState
           /\ Program!Ctx # <<>>
           /\ Program!Rewrite(Append(Front(Program!Ctx), TextOf(d)))
<1>1. Front(Ctx) \in Seq(Construct) /\ Program!Ctx # <<>> /\ Front(Program!Ctx) = Text(Front(Ctx))
  BY InnermostIs
<1>2. ProgramState = "running"
  BY HereIs
<1> DEFINE more == Append(Front(Ctx), d)
<1>3. more \in Seq(Construct)
  BY <1>1, Appended
<1>4. Text(more) = Append(Text(Front(Ctx)), TextOf(d))
  BY <1>1, TextMore
<1> HIDE DEF more
<1>5. Program!Rewrite(Text(more)) /\ ProgramState' = ProgramState
  BY <1>3, Rewrites DEF more
<1> QED
  BY <1>1, <1>2, <1>4, <1>5

\* ... or is left.
LEMMA Leaves ==
    ASSUME Inv, SafeInv, mode = "exec", Ctx # <<>>, NEW n \in Nat,
           frames' = TopAt(n, Front(Ctx)), mode' = mode
    PROVE  /\ ProgramState = "running" /\ ProgramState' = ProgramState
           /\ Program!Ctx # <<>>
           /\ Program!Rewrite(Front(Program!Ctx))
<1>1. Front(Ctx) \in Seq(Construct) /\ Program!Ctx # <<>> /\ Front(Program!Ctx) = Text(Front(Ctx))
  BY InnermostIs
<1>2. ProgramState = "running"
  BY HereIs
<1>3. Program!Rewrite(Text(Front(Ctx))) /\ ProgramState' = ProgramState
  BY <1>1, Rewrites
<1> QED
  BY <1>1, <1>2, <1>3

\* A declaration is not part of the text.
LEMMA DeclareMaps ==
    ASSUME Inv, SafeInv, Declare
    PROVE  Step
<1>1. AtStatement /\ frames' = TopAt(Top.locals + 1, Ctx) /\ mode' = mode
  BY DEF Declare
<1>2. mode = "exec"
  BY <1>1, AtRest
<1>3. Top.locals + 1 \in Nat /\ Ctx \in Seq(Construct)
  BY <1>2, OnTop
<1> DEFINE n == Top.locals + 1
<1> HIDE DEF n
<1>4. ProgramState' = ProgramState /\ ProgramStack' = Append(Texts(Front(frames)), Text(Ctx))
  BY <1>1, <1>2, <1>3, Rewrites DEF n
<1>5. ProgramStack = Append(Texts(Front(frames)), Text(Ctx))
  BY <1>2, HereIs
<1> QED
  BY <1>4, <1>5 DEF Step

\* The process ends on a full stack.
LEMMA StackOverflowMaps ==
    ASSUME StackOverflow
    PROVE  Step
<1>1. mode = "exec" /\ mode' = "exited" /\ frames' = <<>>
  BY DEF StackOverflow, ResetStack
<1>2. ProgramState = "running"
  BY <1>1, Before
<1>3. ProgramState' = "exited" /\ ProgramStack' = <<>>
  BY <1>1, After, TextsEmpty
<1>4. Program!Exhaust
  BY <1>2, <1>3 DEF Program!Exhaust
<1> QED
  BY <1>4 DEF Step, Program!Next

\* Exceptions.
LEMMA ThrowMaps ==
    ASSUME Inv, SafeInv, Throw
    PROVE  Step
<1>1. mode = "exec" /\ Raise
  BY AtRest DEF Throw
<1>2. Program!Raise
  BY <1>1, Raises
<1>3. ProgramState = "running"
  BY <1>1, HereIs
<1>4. Program!Throw
  BY <1>2, <1>3 DEF Program!Throw
<1> QED
  BY <1>4 DEF Step, Program!Next

\* Calls.
LEMMA CallMaps ==
    ASSUME Inv, SafeInv, NEW n \in 0 .. 1, Call(n)
    PROVE  Step
<1>1. AtStatement
  BY DEF Call
<1>2. mode = "exec"
  BY <1>1, AtRest
<1>3. CASE Len(frames) = FRAMES_MAX
  BY <1>2, <1>3, Fails DEF Call
<1>4. CASE Len(frames) # FRAMES_MAX
  <2>1. frames' = Append(frames, NewFrame(stackTop, n)) /\ mode' = mode
    BY <1>4 DEF Call
  <2>2. frames \in Seq(Frame) /\ stackTop \in Int /\ n \in Nat
    BY <1>2, Running
  <2> QED
    BY <1>2, <2>1, <2>2, CallsInText
<1> QED
  BY <1>3, <1>4

LEMMA NestedCallMaps ==
    ASSUME Inv, SafeInv, NEW kind \in Calls, NestedCall(kind)
    PROVE  Step
<1> DEFINE saved == stackTop + CellsBelow(kind)
           n == Arguments(kind)
<1>1. AtStatement
  BY DEF NestedCall
<1>2. mode = "exec"
  BY <1>1, AtRest
<1>3. CASE Len(frames) = FRAMES_MAX
  <2>1. \E rs : HardErrorUnder(rs)
    BY <1>3 DEF NestedCall
  <2> QED
    BY <1>2, <2>1, Fails
<1>4. CASE Len(frames) # FRAMES_MAX
  <2>1. frames' = Append(frames, NewFrame(saved, n)) /\ mode' = mode
    BY <1>4 DEF NestedCall
  <2>2. frames \in Seq(Frame) /\ stackTop \in Int
    BY <1>2, Running
  <2>3. saved \in Int /\ n \in Nat
    BY <2>2 DEF CellsBelow, NativeArgs, NativeTemps, Arguments
  <2> HIDE DEF saved, n
  <2> QED
    BY <1>2, <2>1, <2>2, <2>3, CallsInText
<1> QED
  BY <1>3, <1>4

LEMMA TailCallMaps ==
    ASSUME Inv, SafeInv, NEW n \in 0 .. 1, TailCall(n)
    PROVE  Step
<1>1. /\ AtStatement /\ ~InTry /\ mode' = mode
      /\ frames' = Append(Front(frames), NewFrame(Top.slots, n))
  BY DEF TailCall, WithTop
<1>2. mode = "exec"
  BY <1>1, AtRest
<1>3. /\ ProgramState = "running" /\ Program!OutsideTry
      /\ Front(frames) \in Seq(Frame) /\ Front(ProgramStack) = Texts(Front(frames))
  BY <1>1, <1>2, HereIs
<1>4. Top.slots \in Int /\ n \in Nat
  BY <1>2, Running
<1> DEFINE f == NewFrame(Top.slots, n)
<1>5. f \in Frame /\ f.ctx = <<>>
  BY <1>4, NewFrameType DEF NewFrame
<1> HIDE DEF f
<1>6. Texts(frames') = Append(Texts(Front(frames)), <<>>)
  BY <1>1, <1>3, <1>5, TextsMore, TextsEmpty DEF f
<1>7. ProgramState' = "running" /\ ProgramStack' = Texts(frames')
  BY <1>1, <1>2, After
<1>8. Program!TailCall
  BY <1>3, <1>6, <1>7, SameOperators DEF Program!TailCall, Program!Rewrite
<1> QED
  BY <1>8 DEF Step, Program!Next

\* A try.
LEMMA EnterTryMaps ==
    ASSUME Inv, SafeInv, NEW hasCatch \in BOOLEAN, EnterTry(hasCatch)
    PROVE  Step
<1> DEFINE c == TryAt(hasCatch, Top.locals)
<1>1. AtStatement
  BY DEF EnterTry
<1>2. mode = "exec"
  BY <1>1, AtRest
<1>3. \/ HardErrorUnder(runs)
      \/ frames' = TopAt(Top.locals, Append(Ctx, c)) /\ mode' = mode
  BY DEF EnterTry
<1>4. CASE HardErrorUnder(runs)
  BY <1>2, <1>4, Fails
<1>5. CASE frames' = TopAt(Top.locals, Append(Ctx, c)) /\ mode' = mode
  <2>1. Top.locals \in Nat
    BY <1>2, OnTop
  <2>2. c \in Construct
    BY <2>1, ConstructTypes
  <2>3. TextOf(c) \in Program!Constructs
    BY DEF TextOf, TryAt, Program!Constructs
  <2> HIDE DEF c
  <2> QED
    BY <1>2, <1>5, <2>1, <2>2, <2>3, Opens
<1> QED
  BY <1>3, <1>4, <1>5

LEMMA FallIntoFinallyMaps ==
    ASSUME Inv, SafeInv, FallIntoFinally, mode' # "wild"
    PROVE  Step
<1> DEFINE c == Last(Ctx)
           d == InFinally(c, "normal")
<1>1. /\ AtStatement /\ Ctx # <<>> /\ IsTry(c) /\ c.phase \in {"body", "catch"}
      /\ mode' = mode /\ frames' = TopAt(c.at, Append(Front(Ctx), d))
  BY DEF FallIntoFinally, GoWild
<1>2. mode = "exec"
  BY <1>1, AtRest
<1>3. /\ c \in Construct /\ Program!Here = TextOf(c)
      /\ Program!Here.kind = c.kind /\ Program!Here.phase = c.phase
  BY <1>1, <1>2, InnermostIs
<1> HIDE DEF c
<1>4. d \in Construct /\ c.at \in Nat
  BY <1>3, ConstructTypes, LoopLocals
<1>5. [TextOf(c) EXCEPT !.phase = "finally", !.tag = "normal"] = TextOf(d)
  BY <1>3, TextsMove
<1> DEFINE n == c.at
<1> HIDE DEF d, n
<1>6. /\ ProgramState = "running" /\ ProgramState' = ProgramState /\ Program!Ctx # <<>>
      /\ Program!Rewrite(Append(Front(Program!Ctx), TextOf(d)))
  BY <1>1, <1>2, <1>4, Moves DEF n
<1>7. Program!Complete
  BY <1>1, <1>3, <1>5, <1>6, SameOperators DEF Program!Complete, IsTry
<1> QED
  BY <1>7 DEF Step, Program!Next

LEMMA EndFinallyMaps ==
    ASSUME Inv, SafeInv, EndFinally
    PROVE  Step
<1> DEFINE c == Last(Ctx)
<1>1. /\ AtStatement /\ Ctx # <<>> /\ c.phase = "finally"
      /\ \/ c.tag = "normal" /\ frames' = TopAt(c.at, Front(Ctx)) /\ mode' = mode
         \/ c.tag = "exception" /\ Raise
         \/ /\ c.tag = "return"
            /\ \/ Len(frames) - 1 = Base /\ \E top : ReturnFromRun(Front(frames), top)
               \/ Len(frames) - 1 # Base /\ ResumeCaller(Front(frames), Top.slots) /\ mode' = mode
  BY DEF EndFinally
<1>2. mode = "exec"
  BY <1>1, AtRest
<1>3. /\ c \in Construct /\ Program!Ctx # <<>>
      /\ Program!Here.phase = c.phase /\ Program!Here.tag = c.tag
  BY <1>1, <1>2, InnermostIs
<1>4. ProgramState = "running"
  BY <1>2, HereIs
<1> HIDE DEF c
<1>5. CASE c.tag = "normal" /\ frames' = TopAt(c.at, Front(Ctx)) /\ mode' = mode
  <2>1. c.at \in Nat
    BY <1>3, LoopLocals
  <2> DEFINE n == c.at
  <2> HIDE DEF n
  <2>2. ProgramState' = ProgramState /\ Program!Rewrite(Front(Program!Ctx))
    BY <1>1, <1>2, <1>5, <2>1, Leaves DEF n
  <2> QED
    BY <1>1, <1>3, <1>4, <1>5, <2>2, SameOperators DEF Program!EndFinally, Step, Program!Next
<1>6. CASE c.tag = "exception" /\ Raise
  <2>1. Program!Raise
    BY <1>2, <1>6, Raises
  <2>2. Program!EndFinally
    BY <1>1, <1>3, <1>4, <1>6, <2>1 DEF Program!EndFinally
  <2> QED
    BY <2>2 DEF Step, Program!Next
<1>7. CASE /\ c.tag = "return"
           /\ \/ Len(frames) - 1 = Base /\ \E top : ReturnFromRun(Front(frames), top)
              \/ Len(frames) - 1 # Base /\ ResumeCaller(Front(frames), Top.slots) /\ mode' = mode
  <2>1. Program!LeaveFrame
    BY <1>2, <1>7, LeavesRun, LeavesCall
  <2>2. Program!EndFinally
    BY <1>1, <1>3, <1>4, <1>7, <2>1 DEF Program!EndFinally
  <2> QED
    BY <2>2 DEF Step, Program!Next
<1> QED
  BY <1>1, <1>5, <1>6, <1>7

\* Loops.
LEMMA EnterLoopMaps ==
    ASSUME Inv, SafeInv, EnterLoop
    PROVE  Step
<1> DEFINE c == LoopAt(Top.locals)
<1>1. AtStatement /\ frames' = TopAt(Top.locals, Append(Ctx, c)) /\ mode' = mode
  BY DEF EnterLoop
<1>2. mode = "exec"
  BY <1>1, AtRest
<1>3. Top.locals \in Nat
  BY <1>2, OnTop
<1>4. c \in Construct
  BY <1>3, ConstructTypes
<1>5. TextOf(c) \in Program!Constructs
  BY DEF TextOf, LoopAt, Program!Constructs
<1> HIDE DEF c
<1> QED
  BY <1>1, <1>2, <1>3, <1>4, <1>5, Opens

LEMMA EnterForEachMaps ==
    ASSUME Inv, SafeInv, EnterForEach
    PROVE  Step
<1> DEFINE n == Top.locals + 1
           c == ForEachAt(n)
<1>1. AtStatement /\ frames' = TopAt(n, Append(Ctx, c)) /\ mode' = mode
  BY DEF EnterForEach
<1>2. mode = "exec"
  BY <1>1, AtRest
<1>3. Top.locals \in Nat
  BY <1>2, OnTop
<1>4. c \in Construct
  BY <1>3, ConstructTypes
<1>5. TextOf(c) \in Program!Constructs
  BY DEF TextOf, ForEachAt, Program!Constructs
<1>6. n \in Nat
  BY <1>3
<1> HIDE DEF c, n
<1> QED
  BY <1>1, <1>2, <1>4, <1>5, <1>6, Opens

\* A loop is left.
LEMMA LoopLeft ==
    ASSUME Inv, SafeInv, mode = "exec", Ctx # <<>>, ~IsTry(Last(Ctx)), NEW n \in Nat,
           frames' = TopAt(n, Front(Ctx)), mode' = mode
    PROVE  Step
<1>1. Program!Here.kind = Last(Ctx).kind
  BY InnermostIs
<1>2. /\ ProgramState = "running" /\ ProgramState' = ProgramState /\ Program!Ctx # <<>>
      /\ Program!Rewrite(Front(Program!Ctx))
  BY Leaves
<1>3. Program!LeaveLoop
  BY <1>1, <1>2, SameOperators DEF Program!LeaveLoop, IsTry
<1> QED
  BY <1>3 DEF Step, Program!Next

LEMMA BreakMaps ==
    ASSUME Inv, SafeInv, Break, "breakTry" \notin Forms
    PROVE  Step
<1> DEFINE l == Innermost(LoopPositions(Ctx))
           n == LocalsAfter(Ctx[l])
<1>1. /\ AtStatement /\ LoopPositions(Ctx) # {}
      /\ \A i \in TryPositions(Ctx) : ~(i > l)
      /\ mode' = mode
      /\ frames' = TopAt(n, SubSeq(Ctx, 1, l - 1))
  BY DEF Break, LeaveInnerScopes
<1>2. /\ Ctx # <<>> /\ l = Len(Ctx)
      /\ Last(Ctx) \in Construct /\ ~IsTry(Last(Ctx))
      /\ Ctx[l] = Last(Ctx)
  BY <1>1, LoopIsInnermost
<1>3. mode = "exec"
  BY <1>1, AtRest
<1>4. Front(Ctx) = SubSeq(Ctx, 1, Len(Ctx) - 1)
  BY DEF Front
<1>5. n \in Nat
  BY <1>2, LoopLocals
<1>6. frames' = TopAt(n, Front(Ctx))
  BY <1>1, <1>2, <1>4
<1> HIDE DEF n
<1> QED
  BY <1>1, <1>2, <1>3, <1>5, <1>6, LoopLeft

\* The next round of a loop is in the text only for a for-each.
LEMMA ContinueMaps ==
    ASSUME Inv, SafeInv, Continue, "breakTry" \notin Forms
    PROVE  Step
<1> DEFINE l == Innermost(LoopPositions(Ctx))
           c == Last(Ctx)
           d == InPhase(c, "start")
           e == IF c.kind = "foreach" THEN d ELSE c
           p == Front(Ctx)
<1>1. /\ AtStatement /\ LoopPositions(Ctx) # {}
      /\ \A i \in TryPositions(Ctx) : ~(i > l)
      /\ mode' = mode
  BY DEF Continue, LeaveInnerScopes
<1>2. /\ Ctx # <<>> /\ l = Len(Ctx)
      /\ c \in Construct /\ ~IsTry(c) /\ c.phase = "body"
      /\ Ctx[l] = c
  BY <1>1, LoopIsInnermost
<1>3. mode = "exec"
  BY <1>1, AtRest
<1>4. frames' = TopAt(e.at, Append(p, e))
  <2>1. frames' = TopAt((IF Ctx[l].kind = "foreach" THEN InPhase(Ctx[l], "start") ELSE Ctx[l]).at,
                        Append(SubSeq(Ctx, 1, l - 1),
                               IF Ctx[l].kind = "foreach" THEN InPhase(Ctx[l], "start") ELSE Ctx[l]))
    BY DEF Continue
  <2>2. p = SubSeq(Ctx, 1, Len(Ctx) - 1)
    BY DEF Front
  <2> QED
    BY <1>2, <2>1, <2>2
<1>5. /\ Program!Here = TextOf(c) /\ Program!Here.kind = c.kind /\ Program!Here.phase = c.phase
      /\ Ctx = Append(p, c)
  BY <1>2, <1>3, InnermostIs
<1>6. ProgramState = "running" /\ ProgramStack = Append(Texts(Front(frames)), Text(Ctx))
  BY <1>3, HereIs
<1> HIDE DEF c, p
<1>7. e \in Construct /\ e.at \in Nat
  <2>1. e \in Construct
    BY <1>2, ConstructTypes
  <2> HIDE DEF e
  <2> QED
    BY <2>1, LoopLocals
<1>8. CASE c.kind = "foreach"
  <2>1. e = d
    BY <1>8
  <2>2. [TextOf(c) EXCEPT !.phase = "start"] = TextOf(d)
    BY <1>2, TextsMove
  <2> DEFINE n == e.at
  <2> HIDE DEF d, e, n
  <2>3. /\ ProgramState' = ProgramState /\ Program!Ctx # <<>>
        /\ Program!Rewrite(Append(Front(Program!Ctx), TextOf(e)))
    BY <1>1, <1>2, <1>3, <1>4, <1>7, Moves DEF n, p
  <2>4. Program!Iterate
    BY <1>2, <1>5, <1>6, <1>8, <2>1, <2>2, <2>3, SameOperators DEF Program!Iterate
  <2> QED
    BY <2>4 DEF Step, Program!Next
<1>9. CASE c.kind # "foreach"
  <2>1. Append(p, e) = Ctx
    BY <1>5, <1>9
  <2>2. Ctx \in Seq(Construct)
    BY <1>3, OnTop
  <2> DEFINE n == e.at
  <2> HIDE DEF e, n
  <2>3. ProgramState' = ProgramState /\ ProgramStack' = Append(Texts(Front(frames)), Text(Ctx))
    BY <1>1, <1>3, <1>4, <1>7, <2>1, <2>2, Rewrites DEF n
  <2> QED
    BY <1>6, <2>3 DEF Step
<1> QED
  BY <1>8, <1>9

\* A for-each binds the next value of a built-in iterator, finds none, or calls
\* __next__.
LEMMA ForEachHitMaps ==
    ASSUME Inv, SafeInv, ForEachHit
    PROVE  Step
<1> DEFINE c == Last(Ctx)
           d == InPhase(c, "body")
           n == Top.locals + 1
<1>1. AtLoopStart /\ frames' = TopAt(n, Append(Front(Ctx), d)) /\ mode' = mode
  BY DEF ForEachHit
<1>2. /\ mode = "exec" /\ Ctx # <<>> /\ c \in Construct /\ c.kind = "foreach" /\ c.phase = "start"
      /\ Top.locals \in Nat
  BY <1>1, AtRoundStart
<1>3. Program!Here = TextOf(c) /\ Program!Here.kind = c.kind /\ Program!Here.phase = c.phase
  BY <1>2, InnermostIs
<1> HIDE DEF c
<1>4. d \in Construct /\ n \in Nat
  BY <1>2, ConstructTypes
<1>5. [TextOf(c) EXCEPT !.phase = "body"] = TextOf(d)
  BY <1>2, TextsMove
<1> HIDE DEF d, n
<1>6. /\ ProgramState = "running" /\ ProgramState' = ProgramState /\ Program!Ctx # <<>>
      /\ Program!Rewrite(Append(Front(Program!Ctx), TextOf(d)))
  BY <1>1, <1>2, <1>4, Moves
<1>7. Program!Iterate
  BY <1>2, <1>3, <1>5, <1>6, SameOperators DEF Program!Iterate
<1> QED
  BY <1>7 DEF Step, Program!Next

LEMMA ForEachExhaustedMaps ==
    ASSUME Inv, SafeInv, ForEachExhausted
    PROVE  Step
<1> DEFINE n == LocalsAfter(Last(Ctx))
<1>1. AtLoopStart /\ frames' = TopAt(n, Front(Ctx)) /\ mode' = mode
  BY DEF ForEachExhausted
<1>2. /\ mode = "exec" /\ Ctx # <<>> /\ Last(Ctx) \in Construct /\ ~IsTry(Last(Ctx))
  BY <1>1, AtRoundStart
<1>3. n \in Nat
  BY <1>2, LoopLocals
<1> HIDE DEF n
<1> QED
  BY <1>1, <1>2, <1>3, LoopLeft

LEMMA ForEachNextCallMaps ==
    ASSUME Inv, SafeInv, ForEachNextCall
    PROVE  Step
<1> DEFINE c == Last(Ctx)
           d == InPhase(c, "next")
           moved == TopAt(Top.locals, Append(Front(Ctx), d))
<1>1. AtLoopStart
  BY DEF ForEachNextCall
<1>2. /\ mode = "exec" /\ Ctx # <<>> /\ c \in Construct /\ c.kind = "foreach" /\ c.phase = "start"
      /\ Top.locals \in Nat /\ Top.slots \in Int
  BY <1>1, AtRoundStart
<1>3. CASE Len(frames) = FRAMES_MAX
  BY <1>2, <1>3, Fails DEF ForEachNextCall
<1>4. CASE Len(frames) # FRAMES_MAX
  <2>1. frames' = Append(moved, NewFrame(stackTop, 0)) /\ mode' = mode
    BY <1>4 DEF ForEachNextCall
  <2>2. /\ Program!Here = TextOf(c) /\ Program!Here.kind = c.kind /\ Program!Here.phase = c.phase
        /\ Program!Ctx # <<>> /\ Front(Program!Ctx) = Text(Front(Ctx)) /\ Front(Ctx) \in Seq(Construct)
    BY <1>2, InnermostIs
  <2>3. /\ ProgramState = "running" /\ Front(frames) \in Seq(Frame)
        /\ Front(ProgramStack) = Texts(Front(frames))
    BY <1>2, HereIs
  <2>4. stackTop \in Int /\ frames \in Seq(Frame) /\ frames # <<>>
    BY <1>2, Running
  <2> HIDE DEF c
  <2>5. d \in Construct
    BY <1>2, ConstructTypes
  <2>6. [TextOf(c) EXCEPT !.phase = "next"] = TextOf(d)
    BY <1>2, TextsMove
  <2> HIDE DEF d
  <2>7. /\ Append(Front(Ctx), d) \in Seq(Construct)
        /\ Text(Append(Front(Ctx), d)) = Append(Text(Front(Ctx)), TextOf(d))
    BY <2>2, <2>5, Appended, TextMore
  <2> DEFINE ctx == Append(Front(Ctx), d)
             f == [slots |-> Top.slots, locals |-> Top.locals, ctx |-> ctx]
             g == NewFrame(stackTop, 0)
  <2> HIDE DEF ctx
  <2>8. f \in Frame /\ f.ctx = ctx
    BY <1>2, <2>7 DEF Frame, ctx
  <2>9. moved = Append(Front(frames), f)
    BY DEF TopAt, WithTop, ctx
  <2>10. g \in Frame /\ g.ctx = <<>>
    BY <2>4, NewFrameType DEF NewFrame
  <2> HIDE DEF f, g, moved
  <2>11. moved \in Seq(Frame) /\ Texts(moved) = Append(Texts(Front(frames)), Text(ctx))
    BY <2>3, <2>8, <2>9, Appended, TextsMore
  <2>12. Texts(frames') = Append(Texts(moved), <<>>)
    BY <2>1, <2>10, <2>11, TextsMore, TextsEmpty DEF g
  <2>13. ProgramState' = "running" /\ ProgramStack' = Texts(frames')
    BY <1>2, <2>1, After
  <2>14. ProgramStack' = Append(Append(Front(ProgramStack),
             Append(Front(Program!Ctx), [Program!Here EXCEPT !.phase = "next"])), <<>>)
    BY <2>2, <2>3, <2>6, <2>7, <2>11, <2>12, <2>13 DEF ctx
  <2>15. Program!Iterate
    BY <1>2, <2>2, <2>3, <2>13, <2>14, SameOperators DEF Program!Iterate
  <2> QED
    BY <2>15 DEF Step, Program!Next
<1> QED
  BY <1>3, <1>4

\* Every statement is one of the text.
LEMMA StatementMaps ==
    ASSUME Inv, PendInv, SafeInv, Statement, mode' # "wild", PlainPrograms
    PROVE  Step
<1>0. Forms = {} /\ "breakTry" \notin Forms
  BY DEF PlainPrograms
<1>1. CASE Declare
  BY <1>1, DeclareMaps
<1>2. CASE StackOverflow
  BY <1>2, StackOverflowMaps
<1>3. CASE StackUnderflow
  BY <1>3 DEF StackUnderflow, GoWild
<1>4. CASE HardError
  BY <1>4, Fails DEF HardError, AtStatement
<1>5. CASE Throw
  BY <1>5, ThrowMaps
<1>6. CASE \E n \in 0 .. 1 : Call(n) \/ TailCall(n)
  BY <1>6, CallMaps, TailCallMaps
<1>7. CASE Return
  BY <1>7, ReturnMaps
<1>8. CASE ReturnInTry
  BY <1>8, ReturnInTryMaps
<1>9. CASE \E hasCatch \in BOOLEAN : EnterTry(hasCatch)
  BY <1>9, EnterTryMaps
<1>10. CASE FallIntoFinally
  BY <1>10, FallIntoFinallyMaps
<1>11. CASE EndFinally
  BY <1>11, EndFinallyMaps
<1>12. CASE EnterLoop
  BY <1>12, EnterLoopMaps
<1>13. CASE EnterForEach
  BY <1>13, EnterForEachMaps
<1>14. CASE Break
  BY <1>0, <1>14, BreakMaps
<1>15. CASE Continue
  BY <1>0, <1>15, ContinueMaps
<1>16. CASE ForEachNoRoom
  BY <1>16, Fails DEF ForEachNoRoom, AtLoopStart
<1>17. CASE ForEachHit
  BY <1>17, ForEachHitMaps
<1>18. CASE ForEachExhausted
  BY <1>18, ForEachExhaustedMaps
<1>19. CASE ForEachNextCall
  BY <1>19, ForEachNextCallMaps
<1>20. CASE EqualityTest
  <2>1. mode = "exec" /\ pendingUnwind
    BY <1>20 DEF EqualityTest, AtStatement
  <2> QED
    BY <2>1 DEF PendInv, PendingOnlyWhileUnwinding
<1>21. CASE \E kind \in Calls : NestedCall(kind)
  BY <1>21, NestedCallMaps
<1> QED
  BY <1>1, <1>2, <1>3, <1>4, <1>5, <1>6, <1>7, <1>8, <1>9, <1>10, <1>11, <1>12, <1>13,
     <1>14, <1>15, <1>16, <1>17, <1>18, <1>19, <1>20, <1>21 DEF Statement

-----------------------------------------------------------------------------
(* C code between statements.                                              *)

\* The handler an exception goes to.
LEMMA HandlerInFlight ==
    ASSUME Inv, SafeInv, mode = "unwind"
    PROVE  /\ handlers # <<>> /\ Last(handlers) \in Handler
           /\ Last(handlers).frameCount \in 1 .. Len(frames)
           /\ Last(handlers).locals \in Nat /\ Last(handlers).ctx \in Seq(Construct)
<1>1. handlers # <<>>
  BY DEF Inv, RunNesting
<1>2. /\ frames \in Seq(Frame) /\ handlers = AllHandlers(frames)
      /\ FramesOK(frames, Bases(runs), NativeBases(runs))
  BY OnTop
<1> DEFINE h == Last(AllHandlers(frames))
<1>3. PICK i \in 1 .. Len(frames) : \E j \in 1 .. Len(frames[i].ctx) :
          LandsAt(frames, i, j, h, Front(AllHandlers(frames)))
  BY <1>1, <1>2, HandlerOnTop
<1>4. h \in Handler /\ h.frameCount = i /\ h.locals \in Nat /\ h.ctx \in Seq(Construct)
  BY <1>3 DEF LandsAt
<1> QED
  BY <1>1, <1>2, <1>4

\* Landing was decided when the exception was thrown ...
LEMMA LandMaps ==
    ASSUME Inv, SafeInv, Land, mode' # "wild"
    PROVE  Step
<1> DEFINE h == Last(handlers)
           below == SubSeq(frames, 1, h.frameCount - 1)
           f == [slots |-> frames[h.frameCount].slots, locals |-> h.locals, ctx |-> h.ctx]
<1>1. mode = "unwind" /\ mode' = "exec" /\ frames' = Append(below, f)
  BY DEF Land, GoWild
<1>2. h.frameCount \in 1 .. Len(frames) /\ h.locals \in Nat /\ h.ctx \in Seq(Construct)
  BY <1>1, HandlerInFlight
<1>3. frames \in Seq(Frame)
  BY <1>1, OnTop
<1> DEFINE i == h.frameCount
<1>4. frames[i].slots \in Int /\ below \in Seq(Frame)
  BY <1>2, <1>3, FrameFields
<1>5. f \in Frame /\ f.ctx = h.ctx
  BY <1>2, <1>4 DEF Frame
<1> HIDE DEF f, below
<1>6. Texts(frames') = Append(Texts(below), Text(h.ctx))
  BY <1>1, <1>4, <1>5, TextsMore
<1>7. ProgramState = "running" /\ ProgramStack = Append(Texts(below), Text(h.ctx))
  BY <1>1, Before DEF below
<1>8. ProgramState' = "running" /\ ProgramStack' = Texts(frames')
  BY <1>1, After
<1> QED
  BY <1>6, <1>7, <1>8 DEF Step

\* ... however many run() invocations lie between.
LEMMA PropagateMaps ==
    ASSUME Inv, PendInv, SafeInv, Propagate, PlainPrograms
    PROVE  Step
<1> DEFINE h == Last(handlers)
           b == Last(runs).base
           m == h.frameCount - 1
<1>1. /\ mode = "unwind" /\ ~(h.frameCount > b)
      /\ frames' = SubSeq(frames, 1, b) /\ handlers' = handlers
      /\ mode' = ModeAfterUnwind(Last(runs).kind)
  BY DEF Propagate, OwnedByThisRun, Base
<1>2. RunStack(runs) /\ runs # <<>> /\ Base \in Nat /\ frames \in Seq(Frame)
      /\ Len(frames) \in Nat /\ Len(frames) > Base
  BY <1>1, Running
<1>3. Last(runs).kind \notin Swallows
  <2>1. runs \in Seq(Run) /\ Last(runs).kind \in Calls
    BY <1>2, CallersOfFront DEF Propagate, PendInv, RunStack
  <2> QED
    BY <2>1 DEF PlainPrograms
<1>4. mode' = "unwind"
  BY <1>1, <1>3 DEF ModeAfterUnwind
<1>5. h.frameCount \in 1 .. Len(frames)
  BY <1>1, HandlerInFlight
<1>6. b \in Nat /\ b <= Len(frames) /\ m \in Nat /\ m <= b
  BY <1>1, <1>2, <1>5 DEF Base
<1> HIDE DEF b, m
<1>7. SubSeq(SubSeq(frames, 1, b), 1, m) = SubSeq(frames, 1, m)
  <2> DEFINE u == SubSeq(frames, 1, b)
             v == SubSeq(u, 1, m)
             w == SubSeq(frames, 1, m)
  <2>1. u \in Seq(Frame) /\ Len(u) = b /\ \A k \in 1 .. b : u[k] = frames[k]
    BY <1>2, <1>6
  <2>2. w \in Seq(Frame) /\ Len(w) = m /\ \A k \in 1 .. m : w[k] = frames[k]
    BY <1>2, <1>6
  <2> HIDE DEF u, w
  <2>3. v \in Seq(Frame) /\ Len(v) = m /\ \A k \in 1 .. m : v[k] = u[k]
    BY <1>6, <2>1
  <2> HIDE DEF v
  <2>4. \A k \in 1 .. m : v[k] = w[k]
    BY <1>6, <2>1, <2>2, <2>3
  <2>5. v = w
    BY <2>2, <2>3, <2>4, SeqEqual
  <2> QED
    BY <2>5 DEF u, v, w
<1>8. /\ ProgramState = "running"
      /\ ProgramStack = Append(Texts(SubSeq(frames, 1, m)), Text(h.ctx))
  BY <1>1, Before DEF m
<1>9. /\ ProgramState' = "running"
      /\ ProgramStack' = Append(Texts(SubSeq(SubSeq(frames, 1, b), 1, m)), Text(h.ctx))
  BY <1>1, <1>4, After DEF m, b
<1> QED
  BY <1>7, <1>8, <1>9 DEF Step

\* The C callers return after an error; interpret() returns to the REPL, or the
\* process ends.
LEMMA ErrorReturnMaps ==
    ASSUME ErrorReturn, mode' # "wild"
    PROVE  Step
<1>1. /\ mode = "error" /\ frames' = frames
      /\ mode' \in {"error", "idle", "exited"}
  BY DEF ErrorReturn, GoWild, AfterProgram
<1>2. ProgramState = "failed" /\ ProgramStack = Texts(frames)
  BY <1>1, Before
<1>3. CASE mode' = "error"
  <2>1. ProgramState' = "failed" /\ ProgramStack' = Texts(frames')
    BY <1>3, After
  <2> QED
    BY <1>1, <1>2, <2>1 DEF Step
<1>4. CASE mode' \in {"idle", "exited"}
  <2>1. ProgramState' \in {"idle", "exited"} /\ ProgramStack' = Texts(frames')
    BY <1>4, After
  <2>2. Program!Recover
    BY <1>1, <1>2, <2>1 DEF Program!Recover
  <2> QED
    BY <2>2 DEF Step, Program!Next
<1> QED
  BY <1>1, <1>3, <1>4

\* A native calls back, returns, or raises.
LEMMA CallbackAgainMaps ==
    ASSUME Inv, SafeInv, CallbackAgain, mode' # "wild"
    PROVE  Step
<1>1. mode = "native" /\ mode' = "exec" /\ frames' = Append(frames, NewFrame(stackTop, 1))
  BY DEF CallbackAgain, GoWild
<1>2. frames \in Seq(Frame) /\ stackTop \in Int
  BY <1>1, NativeOnTop
<1> QED
  BY <1>1, <1>2, CallsInText

LEMMA NativeFinishMaps ==
    ASSUME NativeFinish
    PROVE  Step
<1>1. mode = "native" /\ mode' = "exec" /\ frames' = frames
  BY DEF NativeFinish
<1>2. ProgramState = "running" /\ ProgramStack = Texts(frames)
  BY <1>1, Before
<1>3. ProgramState' = "running" /\ ProgramStack' = Texts(frames')
  BY <1>1, After
<1> QED
  BY <1>1, <1>2, <1>3 DEF Step

LEMMA NativeFailMaps ==
    ASSUME Inv, SafeInv, NativeFail
    PROVE  Step
<1>1. mode = "native"
  BY DEF NativeFail
<1>2. CASE handlers = <<>>
  <2>1. HardErrorUnder(Front(runs))
    BY <1>2 DEF NativeFail
  <2> QED
    BY <1>1, <2>1, Fails
<1>3. CASE handlers # <<>>
  <2>1. mode' = "unwind" /\ frames' = frames /\ handlers' = handlers
    BY <1>3 DEF NativeFail
  <2>2. /\ frames \in Seq(Frame) /\ handlers = AllHandlers(frames)
        /\ FramesOK(frames, Bases(runs), NativeBases(runs))
    BY <1>1, NativeOnTop
  <2>3. Program!Raise
    BY <1>1, <1>3, <2>1, <2>2, Throws
  <2>4. ProgramState = "running"
    BY <1>1, Before
  <2>5. Program!Throw
    BY <2>3, <2>4 DEF Program!Throw
  <2> QED
    BY <2>5 DEF Step, Program!Next
<1> QED
  BY <1>2, <1>3

LEMMA InterpretMaps ==
    ASSUME Inv, SafeInv, Interpret, mode' # "wild"
    PROVE  Step
<1>1. /\ mode = "idle" /\ mode' = "exec"
      /\ frames' = << NewFrame(stackTop, 0) >>
  BY DEF Interpret, GoWild
<1>2. stackTop \in Int /\ <<>> \in Seq(Frame)
  BY EmptyStacks DEF Inv, TypeOK
<1> DEFINE f == NewFrame(stackTop, 0)
<1>3. f \in Frame /\ f.ctx = <<>>
  BY <1>2, NewFrameType DEF NewFrame
<1> HIDE DEF f
<1>4. frames' = Append(<<>>, f)
  BY <1>1 DEF f
<1>5. Texts(frames') = Append(<<>>, <<>>)
  BY <1>2, <1>3, <1>4, TextsMore, TextsEmpty
<1>6. ProgramState = "idle"
  BY <1>1, Before
<1>7. ProgramState' = "running" /\ ProgramStack' = Texts(frames')
  BY <1>1, After
<1>8. ProgramStack' = << <<>> >>
  BY <1>5, <1>7
<1>9. Program!Start
  BY <1>6, <1>7, <1>8 DEF Program!Start
<1> QED
  BY <1>9 DEF Step, Program!Next

\* Every step of the machine is a step of the program text, or none.
LEMMA NextMaps ==
    ASSUME PlainPrograms, AllInv, AllInv', [Next]_vars
    PROVE  Step
<1>1. Inv /\ PendInv /\ SafeInv
  BY DEF AllInv
<1>2. mode' # "wild"
  BY DEF AllInv, TameInv
<1>3. CASE Interpret
  BY <1>1, <1>2, <1>3, InterpretMaps
<1>4. CASE Statement
  BY <1>1, <1>2, <1>4, StatementMaps
<1>5. CASE InC
  <2>1. CASE Land
    BY <1>1, <1>2, <2>1, LandMaps
  <2>2. CASE Propagate
    BY <1>1, <2>2, PropagateMaps
  <2>3. CASE ErrorReturn
    BY <1>2, <2>3, ErrorReturnMaps
  <2>4. CASE CallbackAgain
    BY <1>1, <1>2, <2>4, CallbackAgainMaps
  <2>5. CASE NativeFinish
    BY <2>5, NativeFinishMaps
  <2>6. CASE NativeFail
    BY <1>1, <2>6, NativeFailMaps
  <2> QED
    BY <1>5, <2>1, <2>2, <2>3, <2>4, <2>5, <2>6 DEF InC
<1>6. CASE UNCHANGED vars
  BY <1>6 DEF vars, Step, ProgramStack, ProgramState
<1> QED
  BY <1>3, <1>4, <1>5, <1>6 DEF Next

\* Every exception, return and loop exit goes where the text of the program says, for
\* every program of the plain forms and every size of the stacks: a throw lands on the
\* innermost construct that takes it, whatever calls, natives and run() invocations lie
\* between, a return runs the finally block around it and nothing else, and the end of
\* a finally block resumes what it interrupted.
THEOREM FollowsTheText ==
    ASSUME PlainPrograms
    PROVE  Spec => ImplementsStructuredControl
<1>1. Init => Program!Init
  <2> SUFFICES ASSUME Init PROVE Program!Init
    OBVIOUS
  <2>1. mode = "idle" /\ frames = <<>>
    BY DEF Init
  <2>2. ProgramState = "idle" /\ ProgramStack = <<>>
    BY <2>1, Before, TextsEmpty
  <2> QED
    BY <2>2 DEF Program!Init
<1>2. AllInv /\ AllInv' /\ [Next]_vars => [Program!Next]_(Program!sVars)
  <2> SUFFICES ASSUME AllInv, AllInv', [Next]_vars PROVE [Program!Next]_(Program!sVars)
    OBVIOUS
  <2>1. Step
    BY NextMaps
  <2> QED
    BY <2>1 DEF Step, Program!sVars
<1>3. Spec => []AllInv
  BY AlwaysSafe
<1> QED
  BY <1>1, <1>2, <1>3, PTL DEF Spec, ImplementsStructuredControl, Program!Spec

-----------------------------------------------------------------------------
(* No block of a try statement is left out.                                *)

\* What is open in the old context and has its finally block to come is open in the
\* new one.
TriesKept(old, new) ==
    \A j \in 1 .. Len(old) :
        IsTry(old[j]) /\ old[j].phase # "finally" =>
            /\ j <= Len(new)
            /\ IsTry(new[j])
            /\ new[j].at = old[j].at

\* The same for the frames of a call stack.
NothingSkipped(fs, gs) ==
    \A i \in 1 .. Len(fs) : \A j \in 1 .. Len(fs[i].ctx) :
        IsTry(fs[i].ctx[j]) /\ fs[i].ctx[j].phase # "finally" =>
            /\ i <= Len(gs)
            /\ j <= Len(gs[i].ctx)
            /\ IsTry(gs[i].ctx[j])
            /\ gs[i].ctx[j].at = fs[i].ctx[j].at

\* No try of the context has its finally block to come.
Settled(ctx) == \A j \in 1 .. Len(ctx) : IsTry(ctx[j]) => ctx[j].phase = "finally"

LEMMA KeptAsItIs ==
    ASSUME NEW ctx
    PROVE  TriesKept(ctx, ctx)
BY DEF TriesKept

\* The innermost construct is closed, or replaced by d.
LEMMA KeptOutside ==
    ASSUME NEW ctx \in Seq(Construct), NEW j \in 1 .. Len(ctx),
           \A k \in j + 1 .. Len(ctx) : IsTry(ctx[k]) => ctx[k].phase = "finally"
    PROVE  /\ (IsTry(ctx[j]) => ctx[j].phase = "finally") => TriesKept(ctx, SubSeq(ctx, 1, j - 1))
           /\ \A d \in Construct :
                 (IsTry(ctx[j]) => IsTry(d) /\ d.at = ctx[j].at)
                     => TriesKept(ctx, Append(SubSeq(ctx, 1, j - 1), d))
<1> DEFINE p == SubSeq(ctx, 1, j - 1)
<1>1. /\ p \in Seq(Construct) /\ Len(p) = j - 1 /\ \A k \in 1 .. j - 1 : p[k] = ctx[k]
      /\ Len(ctx) \in Nat /\ j \in Nat
  OBVIOUS
<1> HIDE DEF p
<1>2. ASSUME IsTry(ctx[j]) => ctx[j].phase = "finally" PROVE TriesKept(ctx, p)
  <2> SUFFICES ASSUME NEW k \in 1 .. Len(ctx), IsTry(ctx[k]), ctx[k].phase # "finally"
               PROVE  k <= Len(p) /\ p[k] = ctx[k]
    BY DEF TriesKept
  <2>1. ~(k \in j + 1 .. Len(ctx)) /\ k # j
    BY <1>2
  <2>2. k \in 1 .. j - 1
    BY <1>1, <2>1
  <2> QED
    BY <1>1, <2>2
<1>3. ASSUME NEW d \in Construct, IsTry(ctx[j]) => IsTry(d) /\ d.at = ctx[j].at
      PROVE  TriesKept(ctx, Append(p, d))
  <2> DEFINE q == Append(p, d)
  <2>1. Len(q) = j /\ q[j] = d /\ \A k \in 1 .. j - 1 : q[k] = ctx[k]
    BY <1>1
  <2> HIDE DEF q
  <2> SUFFICES ASSUME NEW k \in 1 .. Len(ctx), IsTry(ctx[k]), ctx[k].phase # "finally"
               PROVE  k <= Len(q) /\ IsTry(q[k]) /\ q[k].at = ctx[k].at
    BY DEF TriesKept, q
  <2>2. ~(k \in j + 1 .. Len(ctx))
    OBVIOUS
  <2>3. k \in 1 .. j - 1 \/ k = j
    BY <1>1, <2>2
  <2>4. CASE k \in 1 .. j - 1
    BY <1>1, <2>1, <2>4
  <2>5. CASE k = j
    BY <1>1, <1>3, <2>1, <2>5
  <2> QED
    BY <2>3, <2>4, <2>5
<1> QED
  BY <1>2, <1>3 DEF p

\* A construct is opened.
LEMMA KeptInside ==
    ASSUME NEW ctx \in Seq(Construct), NEW d \in Construct
    PROVE  TriesKept(ctx, Append(ctx, d))
<1> DEFINE q == Append(ctx, d)
<1>1. Len(ctx) \in Nat /\ Len(q) = Len(ctx) + 1 /\ \A k \in 1 .. Len(ctx) : q[k] = ctx[k]
  OBVIOUS
<1> HIDE DEF q
<1>2. \A k \in 1 .. Len(ctx) : k <= Len(q) /\ q[k] = ctx[k]
  BY <1>1
<1>3. TriesKept(ctx, q)
  BY <1>2 DEF TriesKept
<1> QED
  BY <1>3 DEF q

\* Frame by frame; those that go have nothing to come.
LEMMA FramesKept ==
    ASSUME NEW fs \in Seq(Frame), NEW gs \in Seq(Frame), NEW n \in Nat, n <= Len(fs), n <= Len(gs),
           \A i \in 1 .. n : TriesKept(fs[i].ctx, gs[i].ctx),
           \A i \in n + 1 .. Len(fs) : Settled(fs[i].ctx)
    PROVE  NothingSkipped(fs, gs)
<1> SUFFICES ASSUME NEW i \in 1 .. Len(fs), NEW j \in 1 .. Len(fs[i].ctx),
                    IsTry(fs[i].ctx[j]), fs[i].ctx[j].phase # "finally"
             PROVE  /\ i <= Len(gs) /\ j <= Len(gs[i].ctx) /\ IsTry(gs[i].ctx[j])
                    /\ gs[i].ctx[j].at = fs[i].ctx[j].at
  BY DEF NothingSkipped
<1>1. ~Settled(fs[i].ctx)
  BY DEF Settled
<1>2. ~(i \in n + 1 .. Len(fs))
  BY <1>1
<1>3. i \in 1 .. n /\ i <= Len(gs)
  BY <1>2
<1>4. TriesKept(fs[i].ctx, gs[i].ctx)
  BY <1>3
<1> QED
  BY <1>3, <1>4 DEF TriesKept

\* A frame more, above.
LEMMA CallKeeps ==
    ASSUME NEW fs, NEW gs \in Seq(Frame), NEW f \in Frame, NothingSkipped(fs, gs)
    PROVE  NothingSkipped(fs, Append(gs, f))
<1> DEFINE hs == Append(gs, f)
<1>1. Len(gs) \in Nat /\ Len(hs) = Len(gs) + 1 /\ \A i \in 1 .. Len(gs) : hs[i] = gs[i]
  OBVIOUS
<1> HIDE DEF hs
<1> SUFFICES ASSUME NEW i \in 1 .. Len(fs), NEW j \in 1 .. Len(fs[i].ctx),
                    IsTry(fs[i].ctx[j]), fs[i].ctx[j].phase # "finally"
             PROVE  /\ i <= Len(hs) /\ j <= Len(hs[i].ctx) /\ IsTry(hs[i].ctx[j])
                    /\ hs[i].ctx[j].at = fs[i].ctx[j].at
  BY DEF NothingSkipped, hs
<1>2. /\ i <= Len(gs) /\ j <= Len(gs[i].ctx) /\ IsTry(gs[i].ctx[j])
      /\ gs[i].ctx[j].at = fs[i].ctx[j].at
  BY DEF NothingSkipped
<1>3. i \in 1 .. Len(gs) /\ i <= Len(hs)
  <2>1. i \in Nat /\ i >= 1
    OBVIOUS
  <2> QED
    BY <1>1, <1>2, <2>1
<1>4. hs[i] = gs[i]
  BY <1>1, <1>3
<1> QED
  BY <1>2, <1>3, <1>4

\* The frames above the m-th have nothing to come and are dropped.
LEMMA DropKeeps ==
    ASSUME NEW fs \in Seq(Frame), NEW m \in 0 .. Len(fs),
           \A i \in m + 1 .. Len(fs) : Settled(fs[i].ctx)
    PROVE  NothingSkipped(fs, SubSeq(fs, 1, m))
<1> DEFINE gs == SubSeq(fs, 1, m)
<1>1. /\ gs \in Seq(Frame) /\ Len(gs) = m /\ \A i \in 1 .. m : gs[i] = fs[i]
      /\ m \in Nat /\ m <= Len(fs)
  OBVIOUS
<1> HIDE DEF gs
<1>2. \A i \in 1 .. m : TriesKept(fs[i].ctx, gs[i].ctx)
  BY <1>1, KeptAsItIs
<1>3. NothingSkipped(fs, gs)
  BY <1>1, <1>2, FramesKept
<1> QED
  BY <1>3 DEF gs

\* Frame m goes on at another point, and those above it are dropped.
LEMMA MoveKeeps ==
    ASSUME NEW fs \in Seq(Frame), NEW m \in 1 .. Len(fs), NEW f \in Frame,
           TriesKept(fs[m].ctx, f.ctx), \A i \in m + 1 .. Len(fs) : Settled(fs[i].ctx)
    PROVE  NothingSkipped(fs, Append(SubSeq(fs, 1, m - 1), f))
<1> DEFINE below == SubSeq(fs, 1, m - 1)
           gs == Append(below, f)
<1>1. /\ below \in Seq(Frame) /\ Len(below) = m - 1 /\ \A i \in 1 .. m - 1 : below[i] = fs[i]
      /\ m \in Nat /\ m <= Len(fs) /\ Len(fs) \in Nat
  OBVIOUS
<1> HIDE DEF below
<1>2. gs \in Seq(Frame) /\ Len(gs) = m /\ gs[m] = f /\ \A i \in 1 .. m - 1 : gs[i] = fs[i]
  BY <1>1
<1> HIDE DEF gs
<1>3. ASSUME NEW i \in 1 .. m PROVE TriesKept(fs[i].ctx, gs[i].ctx)
  <2>1. CASE i = m
    BY <1>2, <2>1
  <2>2. CASE i # m
    <3>1. i \in 1 .. m - 1
      BY <1>1, <2>2
    <3>2. gs[i] = fs[i]
      BY <1>2, <3>1
    <3> QED
      BY <3>2, KeptAsItIs
  <2> QED
    BY <2>1, <2>2
<1>4. NothingSkipped(fs, gs)
  BY <1>1, <1>2, <1>3, FramesKept
<1> QED
  BY <1>4 DEF gs, below

\* The frame on top, as a frame of the stack.
LEMMA TopIs ==
    ASSUME Inv, SafeInv, mode = "exec"
    PROVE  /\ frames \in Seq(Frame) /\ frames # <<>> /\ Len(frames) \in Nat
           /\ Len(frames) \in 1 .. Len(frames) /\ frames[Len(frames)].ctx = Ctx
           /\ Front(frames) = SubSeq(frames, 1, Len(frames) - 1)
           /\ Top.slots \in Int /\ Ctx \in Seq(Construct)
           /\ \A i \in Len(frames) + 1 .. Len(frames) : Settled(frames[i].ctx)
<1>1. /\ frames \in Seq(Frame) /\ frames # <<>> /\ Len(frames) \in Nat \ {0}
      /\ Top = frames[Len(frames)] /\ Top.slots \in Int /\ Ctx \in Seq(Construct)
  BY OnTop
<1>2. Front(frames) = SubSeq(frames, 1, Len(frames) - 1)
  BY DEF Front
<1> QED
  BY <1>1, <1>2 DEF Ctx

\* A statement that stays in its frame.
LEMMA StaysInFrame ==
    ASSUME Inv, SafeInv, mode = "exec", NEW n \in Nat, NEW ctx \in Seq(Construct),
           TriesKept(Ctx, ctx)
    PROVE  NothingSkipped(frames, TopAt(n, ctx))
<1> DEFINE f == [slots |-> Top.slots, locals |-> n, ctx |-> ctx]
           m == Len(frames)
<1>1. /\ frames \in Seq(Frame) /\ m \in 1 .. Len(frames) /\ frames[m].ctx = Ctx
      /\ Front(frames) = SubSeq(frames, 1, m - 1) /\ Top.slots \in Int
      /\ \A i \in m + 1 .. Len(frames) : Settled(frames[i].ctx)
  BY TopIs
<1>2. f \in Frame /\ f.ctx = ctx
  BY <1>1 DEF Frame
<1>3. TopAt(n, ctx) = Append(SubSeq(frames, 1, m - 1), f)
  BY <1>1 DEF TopAt, WithTop
<1> HIDE DEF f, m
<1>4. NothingSkipped(frames, Append(SubSeq(frames, 1, m - 1), f))
  BY <1>1, <1>2, MoveKeeps
<1> QED
  BY <1>3, <1>4

\* A call is over.
LEMMA FrameLeft ==
    ASSUME Inv, SafeInv, mode = "exec", Settled(Ctx)
    PROVE  NothingSkipped(frames, Front(frames))
<1> DEFINE m == Len(frames) - 1
<1>1. /\ frames \in Seq(Frame) /\ Len(frames) \in Nat /\ Len(frames) \in 1 .. Len(frames)
      /\ frames[Len(frames)].ctx = Ctx /\ Front(frames) = SubSeq(frames, 1, m)
  BY TopIs
<1>2. m \in 0 .. Len(frames) /\ \A i \in m + 1 .. Len(frames) : i = Len(frames)
  BY <1>1
<1> HIDE DEF m
<1>3. \A i \in m + 1 .. Len(frames) : Settled(frames[i].ctx)
  BY <1>1, <1>2
<1>4. NothingSkipped(frames, SubSeq(frames, 1, m))
  BY <1>1, <1>2, <1>3, DropKeeps
<1> QED
  BY <1>1, <1>4

\* Its caller goes on, in the body of a for-each if the call was one of __next__.
LEMMA CallerKeeps ==
    ASSUME Inv, SafeInv, mode = "exec", Settled(Ctx), Len(frames) - 1 # Base, NEW top,
           ResumeCaller(Front(frames), top)
    PROVE  NothingSkipped(frames, frames')
<1> DEFINE fs == Front(frames)
           m == Len(frames) - 1
           g == frames[m]
           c == Last(g.ctx)
           d == InPhase(c, "body")
           f == [slots |-> g.slots, locals |-> g.locals + 1, ctx |-> Append(Front(g.ctx), d)]
<1>1. /\ frames \in Seq(Frame) /\ Len(frames) \in Nat /\ frames[Len(frames)].ctx = Ctx
      /\ fs = SubSeq(frames, 1, m) /\ frames # <<>>
  BY TopIs
<1>2. Base \in Nat /\ Len(frames) > Base
  BY OnTop
<1>3. m \in 1 .. Len(frames) /\ \A i \in m + 1 .. Len(frames) : i = Len(frames)
  BY <1>1, <1>2
<1>4. \A i \in m + 1 .. Len(frames) : Settled(frames[i].ctx)
  BY <1>1, <1>3
<1>5. fs \in Seq(Frame) /\ fs # <<>> /\ Len(fs) = m /\ fs[m] = frames[m]
  <2> HIDE DEF fs, m
  <2>1. m \in Nat /\ m > 0 /\ m <= Len(frames)
    BY <1>1, <1>3
  <2>2. fs \in Seq(Frame) /\ Len(fs) = m /\ fs[m] = frames[m]
    BY <1>1, <2>1
  <2> QED
    BY <2>1, <2>2
<1>6. Last(fs) = g /\ Front(fs) = SubSeq(frames, 1, m - 1)
  <2>1. Last(fs) = fs[m] /\ Front(fs) = SubSeq(fs, 1, m - 1)
    BY <1>5 DEF Last, Front
  <2>2. SubSeq(SubSeq(frames, 1, m), 1, m - 1) = SubSeq(frames, 1, m - 1)
    BY <1>1, <1>3
  <2> QED
    BY <1>1, <1>5, <2>1, <2>2
<1>7. g.slots \in Int /\ g.locals \in Nat /\ g.ctx \in Seq(Construct)
  BY <1>1, <1>3, FrameFields
<1>0. \/ frames' = fs
      \/ Last(fs).ctx # <<>> /\ Last(Last(fs).ctx).phase = "next" /\
         frames' = Append(Front(fs),
                     [ slots  |-> Last(fs).slots,
                       locals |-> Last(fs).locals + 1,
                       ctx    |-> Append(Front(Last(fs).ctx), InPhase(Last(Last(fs).ctx), "body")) ])
  BY Zenon DEF ResumeCaller
<1> HIDE DEF fs, m
<1>8. CASE frames' = fs
  BY <1>8, FrameLeft DEF fs
<1>9. CASE g.ctx # <<>> /\ c.phase = "next" /\ frames' = Append(Front(fs), f)
  <2> DEFINE x == g.ctx
             k == Len(x)
  <2>1. /\ Len(x) \in Nat /\ k \in 1 .. Len(x) /\ c = x[k] /\ c \in Construct
        /\ Front(x) = SubSeq(x, 1, k - 1) /\ Front(x) \in Seq(Construct)
    <3>1. /\ Front(x) \in Seq(Construct) /\ Len(x) \in Nat /\ Len(x) > 0 /\ Last(x) = x[Len(x)]
          /\ Last(x) \in Construct
      BY <1>7, <1>9, FrontLast
    <3> QED
      BY <3>1 DEF Front
  <2>2. c.kind = "foreach" /\ ~IsTry(c)
    BY <1>9, <2>1 DEF Construct, IsTry
  <2> HIDE DEF c, k
  <2>3. d \in Construct
    BY <2>1, <2>2, ConstructTypes
  <2>4. \A i \in k + 1 .. Len(x) : FALSE
    BY <2>1 DEF k
  <2> HIDE DEF d
  <2>5. TriesKept(x, Append(SubSeq(x, 1, k - 1), d))
    <3>1. ~IsTry(x[k])
      BY <2>1, <2>2
    <3> QED
      BY <1>7, <2>1, <2>3, <2>4, <3>1, KeptOutside
  <2>6. f \in Frame /\ f.ctx = Append(Front(x), d)
    BY <1>7, <2>1, <2>3, Appended DEF Frame
  <2> HIDE DEF f
  <2>7. NothingSkipped(frames, Append(SubSeq(frames, 1, m - 1), f))
    BY <1>1, <1>3, <1>4, <2>1, <2>5, <2>6, MoveKeeps
  <2> QED
    BY <1>6, <1>9, <2>7
<1> QED
  BY <1>0, <1>6, <1>8, <1>9

\* Nothing happens to the frames.
LEMMA SameKeeps ==
    ASSUME NEW fs \in Seq(Frame)
    PROVE  NothingSkipped(fs, fs)
<1>1. Len(fs) \in Nat /\ \A i \in Len(fs) + 1 .. Len(fs) : FALSE
  OBVIOUS
<1> QED
  BY <1>1, KeptAsItIs, FramesKept

\* The innermost construct is left, or goes on as d.
LEMMA InnermostKeeps ==
    ASSUME Inv, SafeInv, mode = "exec", Ctx # <<>>, NEW n \in Nat
    PROVE  /\ (IsTry(Last(Ctx)) => Last(Ctx).phase = "finally")
                  => NothingSkipped(frames, TopAt(n, Front(Ctx)))
           /\ \A d \in Construct :
                  (IsTry(Last(Ctx)) => IsTry(d) /\ d.at = Last(Ctx).at)
                      => NothingSkipped(frames, TopAt(n, Append(Front(Ctx), d)))
<1> DEFINE x == Ctx
           k == Len(x)
<1>1. x \in Seq(Construct)
  BY TopIs
<1>2. /\ Front(x) \in Seq(Construct) /\ Len(x) \in Nat /\ Len(x) > 0 /\ Last(x) = x[Len(x)]
  BY <1>1, FrontLast
<1>3. k \in 1 .. Len(x) /\ Last(x) = x[k] /\ Front(x) = SubSeq(x, 1, k - 1)
      /\ \A i \in k + 1 .. Len(x) : FALSE
  BY <1>2 DEF Front
<1> HIDE DEF x, k
<1>4. ASSUME IsTry(Last(x)) => Last(x).phase = "finally"
      PROVE  NothingSkipped(frames, TopAt(n, Front(x)))
  <2>1. TriesKept(x, SubSeq(x, 1, k - 1))
    BY <1>1, <1>3, <1>4, KeptOutside
  <2>2. TriesKept(Ctx, Front(x))
    BY <1>3, <2>1 DEF x
  <2> QED
    BY <1>2, <2>2, StaysInFrame
<1>5. ASSUME NEW d \in Construct, IsTry(Last(x)) => IsTry(d) /\ d.at = Last(x).at
      PROVE  NothingSkipped(frames, TopAt(n, Append(Front(x), d)))
  <2>1. TriesKept(x, Append(SubSeq(x, 1, k - 1), d))
    BY <1>1, <1>3, <1>5, KeptOutside
  <2> DEFINE y == Append(Front(x), d)
  <2>2. TriesKept(Ctx, y)
    BY <1>3, <2>1 DEF x
  <2>3. y \in Seq(Construct)
    BY <1>2, Appended
  <2> HIDE DEF y
  <2>4. NothingSkipped(frames, TopAt(n, y))
    BY <2>2, <2>3, StaysInFrame
  <2> QED
    BY <2>4 DEF y
<1> QED
  BY <1>4, <1>5 DEF x

\* A call of any kind.
LEMMA CallsKeep ==
    ASSUME NEW fs \in Seq(Frame), NEW slots \in Int, NEW n \in Nat
    PROVE  NothingSkipped(fs, Append(fs, NewFrame(slots, n)))
BY SameKeeps, CallKeeps, NewFrameType

\* A throw moves nothing yet.
LEMMA RaiseKeeps ==
    ASSUME Inv, Raise, mode' # "error"
    PROVE  NothingSkipped(frames, frames')
<1>1. frames' = frames
  BY DEF Raise, HardErrorUnder
<1>2. frames \in Seq(Frame)
  BY DEF Inv, TypeOK
<1> QED
  BY <1>1, <1>2, SameKeeps

\* Outside every try.
LEMMA OutsideIsSettled ==
    ASSUME ~InTry
    PROVE  Settled(Ctx)
BY DEF InTry, TryPositions, Settled

LEMMA TailCallKeeps ==
    ASSUME Inv, SafeInv, NEW n \in 0 .. 1, TailCall(n)
    PROVE  NothingSkipped(frames, frames')
<1> DEFINE f == NewFrame(Top.slots, n)
           m == Len(frames)
<1>1. AtStatement /\ ~InTry /\ frames' = Append(Front(frames), f)
  BY DEF TailCall, WithTop
<1>2. mode = "exec"
  BY <1>1, AtRest
<1>3. /\ frames \in Seq(Frame) /\ m \in 1 .. Len(frames) /\ frames[m].ctx = Ctx
      /\ Front(frames) = SubSeq(frames, 1, m - 1) /\ Top.slots \in Int
      /\ \A i \in m + 1 .. Len(frames) : Settled(frames[i].ctx)
  BY <1>2, TopIs
<1>4. f \in Frame
  BY <1>3, NewFrameType
<1>5. TriesKept(Ctx, f.ctx)
  BY <1>1 DEF InTry, TryPositions, TriesKept
<1> HIDE DEF f, m
<1>6. NothingSkipped(frames, Append(SubSeq(frames, 1, m - 1), f))
  BY <1>3, <1>4, <1>5, MoveKeeps
<1> QED
  BY <1>1, <1>3, <1>6

LEMMA ReturnKeeps ==
    ASSUME Inv, SafeInv, Return
    PROVE  NothingSkipped(frames, frames')
<1>1. /\ AtStatement /\ ~InTry
      /\ \/ ReturnFromRun(Front(frames), Top.slots)
         \/ Len(frames) - 1 # Base /\ ResumeCaller(Front(frames), Top.slots)
  BY DEF Return
<1>2. mode = "exec" /\ Settled(Ctx)
  BY <1>1, AtRest, OutsideIsSettled
<1>3. CASE ReturnFromRun(Front(frames), Top.slots)
  BY <1>2, <1>3, FrameLeft DEF ReturnFromRun
<1>4. CASE Len(frames) - 1 # Base /\ ResumeCaller(Front(frames), Top.slots)
  BY <1>2, <1>4, CallerKeeps
<1> QED
  BY <1>1, <1>3, <1>4

\* A return goes to the innermost finally block there is.
LEMMA ReturnInTryKeeps ==
    ASSUME Inv, SafeInv, ReturnInTry, mode' # "wild"
    PROVE  NothingSkipped(frames, frames')
<1> DEFINE j == Innermost(TryPositions(Ctx))
           c == Ctx[j]
           d == InFinally(c, "return")
           p == SubSeq(Ctx, 1, j - 1)
<1>1. /\ AtStatement /\ InTry /\ frames' = TopAt(c.at, Append(p, d))
  BY DEF ReturnInTry, GoWild
<1>2. mode = "exec"
  BY <1>1, AtRest
<1>3. Ctx \in Seq(Construct)
  BY <1>2, TopIs
<1>4. /\ Len(Ctx) \in Nat /\ TryPositions(Ctx) \in SUBSET (1 .. Len(Ctx)) /\ TryPositions(Ctx) # {}
  BY <1>1, <1>3 DEF InTry, TryPositions
<1>5. j \in TryPositions(Ctx) /\ \A i \in TryPositions(Ctx) : i <= j
  BY <1>4, InnermostIn
<1> HIDE DEF j
<1>6. j \in 1 .. Len(Ctx) /\ IsTry(c) /\ c \in Construct /\ p \in Seq(Construct)
  BY <1>3, <1>5 DEF TryPositions
<1>7. \A k \in j + 1 .. Len(Ctx) : ~IsTry(Ctx[k])
  <2> SUFFICES ASSUME NEW k \in j + 1 .. Len(Ctx), IsTry(Ctx[k]) PROVE FALSE
    OBVIOUS
  <2>1. k \in 1 .. Len(Ctx) /\ ~(k <= j)
    BY <1>4, <1>6
  <2> QED
    BY <1>5, <2>1 DEF TryPositions
<1>8. d \in Construct /\ c.at \in Nat /\ IsTry(d) /\ d.at = c.at
  <2> HIDE DEF c
  <2>1. d \in Construct /\ c.at \in Nat
    BY <1>6, ConstructTypes, LoopLocals
  <2>2. d.kind = c.kind /\ d.at = c.at
    BY <1>6 DEF InFinally, Construct
  <2> QED
    BY <1>6, <2>1, <2>2 DEF IsTry
<1> HIDE DEF d
<1>9. TriesKept(Ctx, Append(SubSeq(Ctx, 1, j - 1), d))
  BY <1>3, <1>6, <1>7, <1>8, KeptOutside
<1> DEFINE n == c.at
           ctx == Append(p, d)
<1>10. n \in Nat /\ ctx \in Seq(Construct) /\ TriesKept(Ctx, ctx)
  BY <1>6, <1>8, <1>9, Appended
<1>11. frames' = TopAt(n, ctx)
  BY <1>1
<1> HIDE DEF n, ctx
<1> QED
  BY <1>2, <1>10, <1>11, StaysInFrame

\* The other statements.
LEMMA EnterKeeps ==
    ASSUME Inv, SafeInv, mode = "exec", NEW n \in Nat, NEW c \in Construct
    PROVE  NothingSkipped(frames, TopAt(n, Append(Ctx, c)))
<1> DEFINE ctx == Append(Ctx, c)
<1>1. Ctx \in Seq(Construct)
  BY TopIs
<1>2. ctx \in Seq(Construct) /\ TriesKept(Ctx, ctx)
  BY <1>1, Appended, KeptInside
<1> HIDE DEF ctx
<1>3. NothingSkipped(frames, TopAt(n, ctx))
  BY <1>2, StaysInFrame
<1> QED
  BY <1>3 DEF ctx

LEMMA FallIntoFinallyKeeps ==
    ASSUME Inv, SafeInv, FallIntoFinally, mode' # "wild"
    PROVE  NothingSkipped(frames, frames')
<1> DEFINE c == Last(Ctx)
           d == InFinally(c, "normal")
           n == c.at
<1>1. AtStatement /\ Ctx # <<>> /\ frames' = TopAt(n, Append(Front(Ctx), d))
  BY DEF FallIntoFinally, GoWild
<1>2. mode = "exec"
  BY <1>1, AtRest
<1>3. c \in Construct
  BY <1>1, <1>2, InnermostIs
<1> HIDE DEF c
<1>4. d \in Construct /\ n \in Nat
  BY <1>3, ConstructTypes, LoopLocals
<1>5. d.kind = c.kind /\ d.at = c.at
  BY <1>3 DEF InFinally, Construct
<1> HIDE DEF d, n
<1>6. IsTry(Last(Ctx)) => IsTry(d) /\ d.at = Last(Ctx).at
  BY <1>5 DEF IsTry, c
<1>7. NothingSkipped(frames, TopAt(n, Append(Front(Ctx), d)))
  BY <1>1, <1>2, <1>4, <1>6, InnermostKeeps
<1> QED
  BY <1>1, <1>7

LEMMA EndFinallyKeeps ==
    ASSUME Inv, SafeInv, EndFinally, mode' # "error"
    PROVE  NothingSkipped(frames, frames')
<1> DEFINE c == Last(Ctx)
<1>1. /\ AtStatement /\ Ctx # <<>> /\ c.phase = "finally"
      /\ \/ frames' = TopAt(c.at, Front(Ctx))
         \/ Raise
         \/ /\ c.tag = "return"
            /\ \/ \E top : ReturnFromRun(Front(frames), top)
               \/ Len(frames) - 1 # Base /\ ResumeCaller(Front(frames), Top.slots)
  BY DEF EndFinally
<1>2. mode = "exec"
  BY <1>1, AtRest
<1>3. c \in Construct
  BY <1>1, <1>2, InnermostIs
<1> HIDE DEF c
<1>4. CASE frames' = TopAt(c.at, Front(Ctx))
  <2> DEFINE n == c.at
  <2>1. n \in Nat
    BY <1>3, LoopLocals
  <2> HIDE DEF n
  <2>2. NothingSkipped(frames, TopAt(n, Front(Ctx)))
    BY <1>1, <1>2, <2>1, InnermostKeeps DEF c
  <2> QED
    BY <1>4, <2>2 DEF n
<1>5. CASE Raise
  BY <1>5, RaiseKeeps
<1>6. CASE /\ c.tag = "return"
           /\ \/ \E top : ReturnFromRun(Front(frames), top)
              \/ Len(frames) - 1 # Base /\ ResumeCaller(Front(frames), Top.slots)
  <2>1. Ctx \in Seq(Construct) /\ WellFormed(Ctx)
    BY <1>2, OnTop
  <2>2. Len(Ctx) \in 1 .. Len(Ctx) /\ c = Ctx[Len(Ctx)]
    <3>1. Len(Ctx) \in Nat /\ Len(Ctx) > 0 /\ c = Ctx[Len(Ctx)]
      BY <1>1, <2>1, FrontLast DEF c
    <3> QED
      BY <3>1
  <2>3. ReturnsAt(Ctx, Len(Ctx))
    BY <1>1, <1>6, <2>2 DEF ReturnsAt
  <2>4. Settled(Ctx)
    <3> SUFFICES ASSUME NEW i \in 1 .. Len(Ctx), IsTry(Ctx[i]) PROVE Ctx[i].phase = "finally"
      BY DEF Settled
    <3>1. CASE i = Len(Ctx)
      BY <1>1, <2>2, <3>1
    <3>2. CASE i # Len(Ctx)
      <4>1. i < Len(Ctx)
        BY <2>2, <3>2
      <4> QED
        BY <2>1, <2>2, <2>3, <4>1 DEF WellFormed
    <3> QED
      BY <3>1, <3>2
  <2>5. CASE \E top : ReturnFromRun(Front(frames), top)
    BY <1>2, <2>4, <2>5, FrameLeft DEF ReturnFromRun
  <2>6. CASE Len(frames) - 1 # Base /\ ResumeCaller(Front(frames), Top.slots)
    BY <1>2, <2>4, <2>6, CallerKeeps
  <2> QED
    BY <1>6, <2>5, <2>6
<1> QED
  BY <1>1, <1>4, <1>5, <1>6

\* A loop is left or goes on inside the tries around it.
LEMMA BreakKeeps ==
    ASSUME Inv, SafeInv, Break, "breakTry" \notin Forms
    PROVE  NothingSkipped(frames, frames')
<1> DEFINE l == Innermost(LoopPositions(Ctx))
           n == LocalsAfter(Ctx[l])
<1>1. /\ AtStatement /\ LoopPositions(Ctx) # {}
      /\ \A i \in TryPositions(Ctx) : ~(i > l)
      /\ frames' = TopAt(n, SubSeq(Ctx, 1, l - 1))
  BY DEF Break, LeaveInnerScopes
<1>2. /\ Ctx # <<>> /\ l = Len(Ctx)
      /\ Last(Ctx) \in Construct /\ ~IsTry(Last(Ctx))
      /\ Ctx[l] = Last(Ctx)
  BY <1>1, LoopIsInnermost
<1>3. mode = "exec"
  BY <1>1, AtRest
<1>4. Front(Ctx) = SubSeq(Ctx, 1, Len(Ctx) - 1)
  BY DEF Front
<1>5. n \in Nat
  BY <1>2, LoopLocals
<1>6. frames' = TopAt(n, Front(Ctx))
  BY <1>1, <1>2, <1>4
<1> HIDE DEF n
<1> QED
  BY <1>2, <1>3, <1>5, <1>6, InnermostKeeps

LEMMA ContinueKeeps ==
    ASSUME Inv, SafeInv, Continue, "breakTry" \notin Forms
    PROVE  NothingSkipped(frames, frames')
<1> DEFINE l == Innermost(LoopPositions(Ctx))
           c == Last(Ctx)
           e == IF c.kind = "foreach" THEN InPhase(c, "start") ELSE c
           n == e.at
<1>1. /\ AtStatement /\ LoopPositions(Ctx) # {}
      /\ \A i \in TryPositions(Ctx) : ~(i > l)
  BY DEF Continue, LeaveInnerScopes
<1>2. /\ Ctx # <<>> /\ l = Len(Ctx) /\ c \in Construct /\ ~IsTry(c) /\ Ctx[l] = c
  BY <1>1, LoopIsInnermost
<1>3. mode = "exec"
  BY <1>1, AtRest
<1>4. frames' = TopAt(n, Append(Front(Ctx), e))
  <2>1. frames' = TopAt((IF Ctx[l].kind = "foreach" THEN InPhase(Ctx[l], "start") ELSE Ctx[l]).at,
                        Append(SubSeq(Ctx, 1, l - 1),
                               IF Ctx[l].kind = "foreach" THEN InPhase(Ctx[l], "start") ELSE Ctx[l]))
    BY DEF Continue
  <2>2. Front(Ctx) = SubSeq(Ctx, 1, Len(Ctx) - 1)
    BY DEF Front
  <2> QED
    BY <1>2, <2>1, <2>2
<1>5. e \in Construct
  <2> HIDE DEF c
  <2> QED
    BY <1>2, ConstructTypes
<1> HIDE DEF e
<1>6. n \in Nat
  BY <1>5, LoopLocals
<1> HIDE DEF n
<1>7. NothingSkipped(frames, TopAt(n, Append(Front(Ctx), e)))
  BY <1>2, <1>3, <1>5, <1>6, InnermostKeeps
<1> QED
  BY <1>4, <1>7

\* A for-each, likewise.
LEMMA ForEachHitKeeps ==
    ASSUME Inv, SafeInv, ForEachHit
    PROVE  NothingSkipped(frames, frames')
<1> DEFINE c == Last(Ctx)
           d == InPhase(c, "body")
           n == Top.locals + 1
<1>1. AtLoopStart /\ frames' = TopAt(n, Append(Front(Ctx), d))
  BY DEF ForEachHit
<1>2. /\ mode = "exec" /\ Ctx # <<>> /\ c \in Construct /\ c.kind = "foreach" /\ ~IsTry(c)
      /\ Top.locals \in Nat
  BY <1>1, AtRoundStart
<1> HIDE DEF c
<1>3. d \in Construct /\ n \in Nat
  BY <1>2, ConstructTypes
<1> HIDE DEF d, n
<1>4. NothingSkipped(frames, TopAt(n, Append(Front(Ctx), d)))
  BY <1>2, <1>3, InnermostKeeps DEF c
<1> QED
  BY <1>1, <1>4

LEMMA ForEachExhaustedKeeps ==
    ASSUME Inv, SafeInv, ForEachExhausted
    PROVE  NothingSkipped(frames, frames')
<1> DEFINE n == LocalsAfter(Last(Ctx))
<1>1. AtLoopStart /\ frames' = TopAt(n, Front(Ctx))
  BY DEF ForEachExhausted
<1>2. /\ mode = "exec" /\ Ctx # <<>> /\ Last(Ctx) \in Construct /\ ~IsTry(Last(Ctx))
  BY <1>1, AtRoundStart
<1>3. n \in Nat
  BY <1>2, LoopLocals
<1> HIDE DEF n
<1> QED
  BY <1>1, <1>2, <1>3, InnermostKeeps

LEMMA ForEachNextCallKeeps ==
    ASSUME Inv, SafeInv, ForEachNextCall, mode' # "error"
    PROVE  NothingSkipped(frames, frames')
<1> DEFINE c == Last(Ctx)
           d == InPhase(c, "next")
           n == Top.locals
           moved == TopAt(n, Append(Front(Ctx), d))
<1>1. AtLoopStart /\ frames' = Append(moved, NewFrame(stackTop, 0))
  BY DEF ForEachNextCall, HardErrorUnder
<1>2. /\ mode = "exec" /\ Ctx # <<>> /\ c \in Construct /\ c.kind = "foreach" /\ ~IsTry(c)
      /\ n \in Nat /\ Front(Ctx) \in Seq(Construct)
  BY <1>1, AtRoundStart
<1>3. stackTop \in Int /\ frames \in Seq(Frame) /\ frames # <<>>
  BY <1>2, Running
<1> HIDE DEF c
<1>4. d \in Construct
  BY <1>2, ConstructTypes
<1> HIDE DEF d, n
<1>5. NothingSkipped(frames, moved)
  BY <1>2, <1>4, InnermostKeeps DEF c
<1> DEFINE ctx == Append(Front(Ctx), d)
<1>6. ctx \in Seq(Construct)
  BY <1>2, <1>4, Appended
<1> HIDE DEF ctx
<1>7. TopAt(n, ctx) \in Seq(Frame)
  BY <1>2, <1>3, <1>6, TopAtType
<1>8. moved \in Seq(Frame)
  BY <1>7 DEF ctx
<1>9. NewFrame(stackTop, 0) \in Frame
  BY <1>3, NewFrameType
<1> HIDE DEF moved
<1> QED
  BY <1>1, <1>5, <1>8, <1>9, CallKeeps

\* A construct that takes no exception is no try with its finally block to come.
LEMMA OwnsNoTry ==
    ASSUME NEW fc, NEW slots, NEW outer, NEW c \in Construct, Owned(fc, slots, outer, c) = <<>>
    PROVE  IsTry(c) => c.phase = "finally"
<1>1. ~Program!Takes(TextOf(c))
  BY TakesOwns
<1>2. Program!Takes(TextOf(c)) <=> (IsTry(c) /\ c.phase # "finally") \/ c.phase = "next"
  BY TextFields DEF Program!Takes, IsTry
<1> QED
  BY <1>1, <1>2

LEMMA OwnsNoneSettled ==
    ASSUME NEW fs \in Seq(Frame), NEW i \in 1 .. Len(fs),
           CtxHandlers(i, fs[i].slots, fs[i].ctx) = <<>>
    PROVE  Settled(fs[i].ctx)
<1>1. fs[i].slots \in Int /\ fs[i].ctx \in Seq(Construct) /\ i \in Nat
  BY FrameFields
<1> SUFFICES ASSUME NEW j \in 1 .. Len(fs[i].ctx), IsTry(fs[i].ctx[j])
             PROVE  fs[i].ctx[j].phase = "finally"
  BY DEF Settled
<1>2. Owned(i, fs[i].slots, Around(fs[i].ctx, j), fs[i].ctx[j]) = <<>>
  BY <1>1, CtxOwnsNone
<1>3. fs[i].ctx[j] \in Construct
  BY <1>1
<1> QED
  BY <1>2, <1>3, OwnsNoTry

\* An exception lands on construct j of frame i, and nothing it passes has a block to
\* come.
LandsOn(i, j, f) ==
    LET x == frames[i].ctx
    IN  /\ f \in Frame /\ f.ctx = LandingCtx(Around(x, j), x[j])
        /\ \A k \in j + 1 .. Len(x) : IsTry(x[k]) => x[k].phase = "finally"
        /\ \A k \in i + 1 .. Len(frames) : Settled(frames[k].ctx)

LEMMA Destination ==
    ASSUME Inv, SafeInv, mode = "unwind"
    PROVE  \E i \in 1 .. Len(frames) : \E j \in 1 .. Len(frames[i].ctx) :
               /\ Last(handlers).frameCount = i
               /\ LandsOn(i, j, [slots |-> frames[i].slots, locals |-> Last(handlers).locals,
                                 ctx |-> Last(handlers).ctx])
<1>1. /\ frames \in Seq(Frame) /\ handlers = AllHandlers(frames)
      /\ FramesOK(frames, Bases(runs), NativeBases(runs))
  BY OnTop
<1>2. handlers # <<>>
  BY DEF Inv, RunNesting
<1> DEFINE h == Last(AllHandlers(frames))
<1>3. PICK i \in 1 .. Len(frames) : \E j \in 1 .. Len(frames[i].ctx) :
          LandsAt(frames, i, j, h, Front(AllHandlers(frames)))
  BY <1>1, <1>2, HandlerOnTop
<1>4. PICK j \in 1 .. Len(frames[i].ctx) :
          LandsAt(frames, i, j, h, Front(AllHandlers(frames)))
  BY <1>3
<1> HIDE DEF h
<1> DEFINE x == frames[i].ctx
           f == [slots |-> frames[i].slots, locals |-> h.locals, ctx |-> h.ctx]
<1>5. /\ h.frameCount = i /\ h.locals \in Nat /\ h.ctx \in Seq(Construct)
      /\ h.ctx = LandingCtx(Around(x, j), x[j]) /\ OwnNothingAbove(frames, i, j)
  BY <1>4 DEF LandsAt
<1>6. frames[i].slots \in Int /\ x \in Seq(Construct)
  BY <1>1, FrameFields
<1>7. f \in Frame /\ f.ctx = h.ctx
  BY <1>5, <1>6 DEF Frame
<1>8. \A k \in j + 1 .. Len(x) : IsTry(x[k]) => x[k].phase = "finally"
  <2> SUFFICES ASSUME NEW k \in j + 1 .. Len(x) PROVE IsTry(x[k]) => x[k].phase = "finally"
    OBVIOUS
  <2>1. Owned(i, frames[i].slots, Around(x, k), x[k]) = <<>>
    BY <1>5 DEF OwnNothingAbove
  <2>2. k \in 1 .. Len(x)
    OBVIOUS
  <2>3. x[k] \in Construct
    BY <1>6, <2>2
  <2> QED
    BY <2>1, <2>3, OwnsNoTry
<1>9. \A k \in i + 1 .. Len(frames) : Settled(frames[k].ctx)
  <2> SUFFICES ASSUME NEW k \in i + 1 .. Len(frames) PROVE Settled(frames[k].ctx)
    OBVIOUS
  <2>1. CtxHandlers(k, frames[k].slots, frames[k].ctx) = <<>>
    BY <1>5 DEF OwnNothingAbove
  <2>2. k \in 1 .. Len(frames)
    BY <1>1
  <2> QED
    BY <1>1, <2>1, <2>2, OwnsNoneSettled
<1> HIDE DEF f
<1>10. LandsOn(i, j, f)
  BY <1>5, <1>7, <1>8, <1>9 DEF LandsOn
<1> QED
  BY <1>1, <1>5, <1>10 DEF f, h

\* Landing is such a move of the frames.
LEMMA LandMoves ==
    ASSUME Inv, SafeInv, Land, mode' # "wild"
    PROVE  \E i \in 1 .. Len(frames) : \E j \in 1 .. Len(frames[i].ctx) : \E f \in Frame :
               frames' = Append(SubSeq(frames, 1, i - 1), f) /\ LandsOn(i, j, f)
<1> DEFINE h == Last(handlers)
           F(i) == [slots |-> frames[i].slots, locals |-> h.locals, ctx |-> h.ctx]
<1>1. mode = "unwind" /\ frames' = Append(SubSeq(frames, 1, h.frameCount - 1), F(h.frameCount))
  BY DEF Land, GoWild
<1>2. PICK i \in 1 .. Len(frames) : \E j \in 1 .. Len(frames[i].ctx) :
          h.frameCount = i /\ LandsOn(i, j, F(i))
  BY <1>1, Destination
<1>3. PICK j \in 1 .. Len(frames[i].ctx) : h.frameCount = i /\ LandsOn(i, j, F(i))
  BY <1>2
<1>4. F(i) \in Frame
  BY <1>3 DEF LandsOn
<1>5. frames' = Append(SubSeq(frames, 1, i - 1), F(i))
  BY <1>1, <1>3
<1> HIDE DEF F
<1> QED
  BY <1>3, <1>4, <1>5

\* Where it lands, by the construct.
LEMMA LandingCases ==
    ASSUME NEW ctx \in Seq(Construct), NEW j \in 1 .. Len(ctx)
    PROVE  LET p == SubSeq(ctx, 1, j - 1)
               c == ctx[j]
           IN  \/ ~IsTry(c) /\ LandingCtx(Around(ctx, j), c) = p
               \/ /\ IsTry(c)
                  /\ \E d \in Construct :
                        /\ LandingCtx(Around(ctx, j), c) = Append(p, d)
                        /\ IsTry(d) /\ d.at = c.at
                        /\ c.phase = "body" /\ c.catch => d.phase = "catch"
<1> DEFINE p == SubSeq(ctx, 1, j - 1)
           c == ctx[j]
           d == InPhase(Entered(c), "catch")
           e == InFinally(Entered(c), "exception")
<1>1. c \in Construct /\ Around(ctx, j) = p
  BY DEF Around
<1> HIDE DEF c, p
<1>2. CASE ~IsTry(c)
  BY <1>1, <1>2 DEF LandingCtx, c, p
<1>3. CASE IsTry(c) /\ c.phase = "body" /\ c.catch
  <2>1. LandingCtx(Around(ctx, j), c) = Append(p, d)
    BY <1>1, <1>3 DEF LandingCtx
  <2>2. d \in Construct /\ d.kind = c.kind /\ d.at = c.at /\ d.phase = "catch"
    BY <1>1, <1>3 DEF InPhase, Entered, Construct, IsTry
  <2> QED
    BY <1>3, <2>1, <2>2 DEF IsTry, c, p
<1>4. CASE IsTry(c) /\ ~(c.phase = "body" /\ c.catch)
  <2>1. LandingCtx(Around(ctx, j), c) = Append(p, e)
    BY <1>1, <1>4 DEF LandingCtx
  <2>2. e \in Construct /\ e.kind = c.kind /\ e.at = c.at
    BY <1>1, <1>4 DEF InFinally, Entered, Construct, IsTry
  <2> QED
    BY <1>4, <2>1, <2>2 DEF IsTry, c, p
<1> QED
  BY <1>2, <1>3, <1>4

LEMMA LandKeeps ==
    ASSUME Inv, SafeInv, Land, mode' # "wild"
    PROVE  NothingSkipped(frames, frames')
<1>1. PICK i \in 1 .. Len(frames) : \E j \in 1 .. Len(frames[i].ctx) : \E f \in Frame :
          frames' = Append(SubSeq(frames, 1, i - 1), f) /\ LandsOn(i, j, f)
  BY LandMoves
<1>2. PICK j \in 1 .. Len(frames[i].ctx) : \E f \in Frame :
          frames' = Append(SubSeq(frames, 1, i - 1), f) /\ LandsOn(i, j, f)
  BY <1>1
<1>3. PICK f \in Frame :
          frames' = Append(SubSeq(frames, 1, i - 1), f) /\ LandsOn(i, j, f)
  BY <1>2
<1>4. frames \in Seq(Frame)
  BY DEF Inv, TypeOK
<1> DEFINE x == frames[i].ctx
<1>5. x \in Seq(Construct)
  BY <1>4, FrameFields
<1>6. /\ f.ctx = LandingCtx(Around(x, j), x[j])
      /\ \A k \in j + 1 .. Len(x) : IsTry(x[k]) => x[k].phase = "finally"
      /\ \A k \in i + 1 .. Len(frames) : Settled(frames[k].ctx)
  BY <1>3 DEF LandsOn
<1>7. TriesKept(x, f.ctx)
  <2> HIDE DEF x
  <2>0. j \in 1 .. Len(x)
    BY DEF x
  <2>1. CASE ~IsTry(x[j]) /\ f.ctx = SubSeq(x, 1, j - 1)
    BY <1>5, <1>6, <2>0, <2>1, KeptOutside
  <2>2. CASE IsTry(x[j]) /\ \E d \in Construct :
                 f.ctx = Append(SubSeq(x, 1, j - 1), d) /\ IsTry(d) /\ d.at = x[j].at
    <3>1. PICK d \in Construct :
              f.ctx = Append(SubSeq(x, 1, j - 1), d) /\ IsTry(d) /\ d.at = x[j].at
      BY <2>2
    <3>2. TriesKept(x, Append(SubSeq(x, 1, j - 1), d))
      BY <1>5, <1>6, <2>0, <3>1, KeptOutside
    <3> QED
      BY <3>1, <3>2
  <2> QED
    BY <1>5, <1>6, <2>0, <2>1, <2>2, LandingCases
<1> QED
  BY <1>3, <1>4, <1>6, <1>7, MoveKeeps

\* A run() that is left has nothing in it to come.
LEMMA PropagateKeeps ==
    ASSUME Inv, SafeInv, Propagate
    PROVE  NothingSkipped(frames, frames')
<1> DEFINE b == Last(runs).base
<1>1. mode = "unwind" /\ ~(Last(handlers).frameCount > b) /\ frames' = SubSeq(frames, 1, b)
  BY DEF Propagate, OwnedByThisRun, Base
<1>2. Base \in Nat /\ frames \in Seq(Frame) /\ Len(frames) \in Nat /\ Len(frames) > Base
  BY <1>1, Running
<1>3. PICK i \in 1 .. Len(frames) :
          Last(handlers).frameCount = i /\ \A k \in i + 1 .. Len(frames) : Settled(frames[k].ctx)
  BY <1>1, Destination DEF LandsOn
<1>4. b \in 0 .. Len(frames) /\ i <= b
  BY <1>1, <1>2, <1>3 DEF Base
<1> HIDE DEF b
<1>5. \A k \in b + 1 .. Len(frames) : Settled(frames[k].ctx)
  BY <1>2, <1>3, <1>4
<1> QED
  BY <1>1, <1>2, <1>4, <1>5, DropKeeps

LEMMA StatementKeeps ==
    ASSUME Inv, SafeInv, Statement, Forms = {}, mode' \notin {"error", "wild"},
           ~StackOverflow
    PROVE  NothingSkipped(frames, frames')
<1>0. /\ Forms = {} /\ "breakTry" \notin Forms /\ mode' # "wild" /\ mode' # "error"
      /\ frames \in Seq(Frame) /\ stackTop \in Int
  BY DEF Inv, TypeOK
<1>1. CASE Declare
  <2> DEFINE n == Top.locals + 1
  <2>1. AtStatement /\ frames' = TopAt(n, Ctx)
    BY <1>1 DEF Declare
  <2>2. mode = "exec"
    BY <2>1, AtRest
  <2>3. n \in Nat /\ Ctx \in Seq(Construct)
    BY <2>2, OnTop
  <2> HIDE DEF n
  <2>4. NothingSkipped(frames, TopAt(n, Ctx))
    BY <2>2, <2>3, KeptAsItIs, StaysInFrame
  <2> QED
    BY <2>1, <2>4
<1>3. CASE StackUnderflow
  BY <1>0, <1>3 DEF StackUnderflow, GoWild
<1>4. CASE HardError
  BY <1>0, <1>4 DEF HardError, HardErrorUnder
<1>5. CASE Throw
  BY <1>0, <1>5, RaiseKeeps DEF Throw
<1>6. CASE \E n \in 0 .. 1 : Call(n) \/ TailCall(n)
  <2>1. ASSUME NEW n \in 0 .. 1, Call(n) PROVE NothingSkipped(frames, frames')
    <3>1. frames' = Append(frames, NewFrame(stackTop, n)) /\ n \in Nat
      BY <1>0, <2>1 DEF Call, HardErrorUnder
    <3> QED
      BY <1>0, <3>1, CallsKeep
  <2> QED
    BY <1>6, <2>1, TailCallKeeps
<1>7. CASE Return
  BY <1>7, ReturnKeeps
<1>8. CASE ReturnInTry
  BY <1>0, <1>8, ReturnInTryKeeps
<1>9. CASE \E hasCatch \in BOOLEAN : EnterTry(hasCatch)
  <2> SUFFICES ASSUME NEW hasCatch \in BOOLEAN, EnterTry(hasCatch)
               PROVE  NothingSkipped(frames, frames')
    BY <1>9
  <2> DEFINE n == Top.locals
             c == TryAt(hasCatch, n)
  <2>1. AtStatement /\ frames' = TopAt(n, Append(Ctx, c))
    BY <1>0 DEF EnterTry, HardErrorUnder
  <2>2. mode = "exec"
    BY <2>1, AtRest
  <2>3. n \in Nat /\ c \in Construct
    BY <2>2, OnTop, ConstructTypes
  <2> HIDE DEF n, c
  <2>4. NothingSkipped(frames, TopAt(n, Append(Ctx, c)))
    BY <2>2, <2>3, EnterKeeps
  <2> QED
    BY <2>1, <2>4
<1>10. CASE FallIntoFinally
  BY <1>0, <1>10, FallIntoFinallyKeeps
<1>11. CASE EndFinally
  BY <1>0, <1>11, EndFinallyKeeps
<1>12. CASE EnterLoop
  <2> DEFINE n == Top.locals
             c == LoopAt(n)
  <2>1. AtStatement /\ frames' = TopAt(n, Append(Ctx, c))
    BY <1>12 DEF EnterLoop
  <2>2. mode = "exec"
    BY <2>1, AtRest
  <2>3. n \in Nat /\ c \in Construct
    BY <2>2, OnTop, ConstructTypes
  <2> HIDE DEF n, c
  <2>4. NothingSkipped(frames, TopAt(n, Append(Ctx, c)))
    BY <2>2, <2>3, EnterKeeps
  <2> QED
    BY <2>1, <2>4
<1>13. CASE EnterForEach
  <2> DEFINE n == Top.locals + 1
             c == ForEachAt(n)
  <2>1. AtStatement /\ frames' = TopAt(n, Append(Ctx, c))
    BY <1>13 DEF EnterForEach
  <2>2. mode = "exec"
    BY <2>1, AtRest
  <2>3. n \in Nat /\ c \in Construct
    BY <2>2, OnTop, ConstructTypes
  <2> HIDE DEF n, c
  <2>4. NothingSkipped(frames, TopAt(n, Append(Ctx, c)))
    BY <2>2, <2>3, EnterKeeps
  <2> QED
    BY <2>1, <2>4
<1>14. CASE Break
  BY <1>0, <1>14, BreakKeeps
<1>15. CASE Continue
  BY <1>0, <1>15, ContinueKeeps
<1>16. CASE ForEachNoRoom
  BY <1>0, <1>16 DEF ForEachNoRoom, HardErrorUnder
<1>17. CASE ForEachHit
  BY <1>17, ForEachHitKeeps
<1>18. CASE ForEachExhausted
  BY <1>18, ForEachExhaustedKeeps
<1>19. CASE ForEachNextCall
  BY <1>0, <1>19, ForEachNextCallKeeps
<1>20. CASE EqualityTest
  <2>1. frames' = frames
    BY <1>0, <1>20 DEF EqualityTest, GoWild
  <2> QED
    BY <1>0, <2>1, SameKeeps
<1>21. CASE \E kind \in Calls : NestedCall(kind)
  <2> SUFFICES ASSUME NEW kind \in Calls, NestedCall(kind) PROVE NothingSkipped(frames, frames')
    BY <1>21
  <2> DEFINE saved == stackTop + CellsBelow(kind)
             n == Arguments(kind)
  <2>1. frames' = Append(frames, NewFrame(saved, n))
    BY <1>0 DEF NestedCall, HardErrorUnder
  <2>2. saved \in Int /\ n \in Nat
    BY <1>0 DEF CellsBelow, NativeArgs, NativeTemps, Arguments
  <2> HIDE DEF saved, n
  <2> QED
    BY <1>0, <2>1, <2>2, CallsKeep
<1> QED
  BY <1>1, <1>3, <1>4, <1>5, <1>6, <1>7, <1>8, <1>9, <1>10, <1>11, <1>12, <1>13,
     <1>14, <1>15, <1>16, <1>17, <1>18, <1>19, <1>20, <1>21 DEF Statement

LEMMA NextKeeps ==
    ASSUME Forms = {}, SoundInv, Next, mode' \notin {"error", "wild"}, ~StackOverflow
    PROVE  NothingSkipped(frames, frames')
<1>1. /\ Inv /\ SafeInv /\ mode' # "wild" /\ mode' # "error"
      /\ frames \in Seq(Frame) /\ stackTop \in Int
  BY DEF SoundInv, Inv, TypeOK
<1>2. ASSUME frames = <<>> PROVE NothingSkipped(frames, frames')
  BY <1>2 DEF NothingSkipped
<1>3. CASE Interpret
  <2>1. mode = "idle"
    BY <1>3 DEF Interpret
  <2>2. frames = <<>>
    BY <1>1, <2>1 DEF Inv, RunNesting
  <2> QED
    BY <1>2, <2>2
<1>4. CASE Statement
  BY <1>1, <1>4, StatementKeeps
<1>5. CASE Land
  BY <1>1, <1>5, LandKeeps
<1>6. CASE Propagate
  BY <1>1, <1>6, PropagateKeeps
<1>7. CASE ErrorReturn
  <2>1. mode = "error"
    BY <1>7 DEF ErrorReturn
  <2>2. frames = <<>>
    BY <1>1, <2>1 DEF Inv, RunNesting
  <2> QED
    BY <1>2, <2>2
<1>8. CASE CallbackAgain
  <2>1. frames' = Append(frames, NewFrame(stackTop, 1))
    BY <1>1, <1>8 DEF CallbackAgain, GoWild
  <2> QED
    BY <1>1, <2>1, CallsKeep
<1>9. CASE NativeFinish
  BY <1>1, <1>9, SameKeeps DEF NativeFinish
<1>10. CASE NativeFail
  <2>1. frames' = frames
    BY <1>1, <1>10 DEF NativeFail, HardErrorUnder
  <2> QED
    BY <1>1, <2>1, SameKeeps
<1> QED
  BY <1>3, <1>4, <1>5, <1>6, <1>7, <1>8, <1>9, <1>10 DEF Next, InC

\* No statement, return or landing leaves a try statement otherwise than through its
\* finally block, whatever run() invocations and natives lie above it: the block of a
\* frame further down is still to come until an exception or a return has come to it.
\* Only an error that stops the program skips it, and a full value stack.
THEOREM EveryFinallyRuns ==
    ASSUME Forms = {}
    PROVE  Spec => FinallyNotSkipped
<1> DEFINE Goes == mode' \notin {"error", "wild"} /\ ~StackOverflow =>
                       NothingSkipped(frames, frames')
<1>1. SoundInv /\ [Next]_vars => [Goes]_vars
  BY NextKeeps
<1>2. Goes =>
        ( mode' \notin {"error", "wild"} /\ ~StackOverflow =>
          \A i \in 1 .. Len(frames) : \A j \in 1 .. Len(frames[i].ctx) :
            LET c == frames[i].ctx[j]
            IN  IsTry(c) /\ c.phase # "finally" =>
                    /\ i <= Len(frames')
                    /\ j <= Len(frames'[i].ctx)
                    /\ IsTry(frames'[i].ctx[j])
                    /\ frames'[i].ctx[j].at = c.at )
  BY DEF NothingSkipped
<1> HIDE DEF Goes
<1> QED
  BY <1>1, <1>2, AlwaysSound, PTL DEF Spec, FinallyNotSkipped

\* While an exception is on its way, no try with a catch goes from its body to its
\* finally block.
LEMMA CatchFirst ==
    ASSUME SoundInv, SoundInv', Next, mode = "unwind",
           NEW i \in 1 .. Len(frames), NEW j \in 1 .. Len(frames[i].ctx),
           IsTry(frames[i].ctx[j]), frames[i].ctx[j].catch, frames[i].ctx[j].phase = "body",
           i <= Len(frames'), j <= Len(frames'[i].ctx)
    PROVE  frames'[i].ctx[j].phase # "finally"
<1>1. Inv /\ SafeInv
  BY DEF SoundInv
<1>2. frames \in Seq(Frame) /\ Len(frames) \in Nat /\ i \in Nat
  BY <1>1 DEF Inv, TypeOK
<1> DEFINE x == frames[i].ctx
<1>3. x \in Seq(Construct) /\ j \in Nat
  BY <1>2, FrameFields
<1>4. Land \/ Propagate
  BY DEF Next, Interpret, Statement, InC, Declare, StackOverflow, StackUnderflow, HardError,
         Throw, Call, TailCall, Return, ReturnInTry, EnterTry, FallIntoFinally, EndFinally,
         EnterLoop, EnterForEach, Break, Continue, ForEachNoRoom, ForEachHit,
         ForEachExhausted, ForEachNextCall, EqualityTest, NestedCall, AtStatement,
         AtLoopStart, ErrorReturn, CallbackAgain, NativeFinish, NativeFail
<1>5. CASE Propagate
  <2> DEFINE b == Last(runs).base
  <2>1. frames' = SubSeq(frames, 1, b)
    BY <1>5 DEF Propagate
  <2>2. b \in Nat /\ b <= Len(frames)
    BY <1>1, Running DEF Base
  <2> HIDE DEF b
  <2>3. Len(frames') = b /\ \A k \in 1 .. b : frames'[k] = frames[k]
    BY <1>2, <2>1, <2>2
  <2>4. frames'[i] = frames[i]
    BY <1>2, <2>2, <2>3
  <2> QED
    BY <2>4
<1>6. CASE Land
  <2>1. PICK m \in 1 .. Len(frames) : \E n \in 1 .. Len(frames[m].ctx) : \E f \in Frame :
            frames' = Append(SubSeq(frames, 1, m - 1), f) /\ LandsOn(m, n, f)
    BY <1>1, <1>6, LandMoves, LandSafe DEF SafeStep
  <2>2. PICK n \in 1 .. Len(frames[m].ctx) : \E f \in Frame :
            frames' = Append(SubSeq(frames, 1, m - 1), f) /\ LandsOn(m, n, f)
    BY <2>1
  <2>3. PICK f \in Frame :
            frames' = Append(SubSeq(frames, 1, m - 1), f) /\ LandsOn(m, n, f)
    BY <2>2
  <2> DEFINE below == SubSeq(frames, 1, m - 1)
  <2>4. /\ below \in Seq(Frame) /\ Len(below) = m - 1 /\ \A k \in 1 .. m - 1 : below[k] = frames[k]
        /\ m \in Nat
    BY <1>2
  <2> HIDE DEF below
  <2>5. /\ Len(frames') = m /\ frames'[m] = f /\ \A k \in 1 .. m - 1 : frames'[k] = frames[k]
    BY <2>3, <2>4 DEF below
  <2>6. CASE i # m
    <3>1. i \in 1 .. m - 1
      BY <1>2, <2>4, <2>5, <2>6
    <3>2. frames'[i] = frames[i]
      BY <2>5, <3>1
    <3> QED
      BY <3>2
  <2>7. CASE i = m
    <3>1. n \in 1 .. Len(x) /\ f.ctx = LandingCtx(Around(x, n), x[n]) /\ frames'[i].ctx = f.ctx
      BY <2>3, <2>5, <2>7 DEF LandsOn
    <3> DEFINE p == SubSeq(x, 1, n - 1)
               y == f.ctx
    <3>2. p \in Seq(Construct) /\ Len(p) = n - 1 /\ n \in Nat /\ \A k \in 1 .. n - 1 : p[k] = x[k]
      BY <1>3, <3>1
    <3>3. \/ ~IsTry(x[n]) /\ y = p
          \/ /\ IsTry(x[n])
             /\ \E d \in Construct :
                   /\ y = Append(p, d)
                   /\ x[n].phase = "body" /\ x[n].catch => d.phase = "catch"
      <4> HIDE DEF x
      <4> QED
        BY <1>3, <3>1, LandingCases
    <3>4. j \in 1 .. Len(x) /\ j >= 1 /\ j <= Len(y) /\ x[j].phase = "body" /\ x[j].catch
      BY <1>3, <3>1
    <3> HIDE DEF x, p, y
    <3>5. CASE y = p
      <4>1. j \in 1 .. n - 1
        BY <1>3, <3>2, <3>4, <3>5
      <4>2. y[j] = x[j]
        BY <3>2, <3>5, <4>1
      <4> QED
        BY <3>1, <3>4, <4>2 DEF y
    <3>6. CASE \E d \in Construct :
                   /\ y = Append(p, d)
                   /\ x[n].phase = "body" /\ x[n].catch => d.phase = "catch"
      <4>1. PICK d \in Construct :
                   /\ y = Append(p, d)
                   /\ x[n].phase = "body" /\ x[n].catch => d.phase = "catch"
        BY <3>6
      <4>2. Len(y) = n /\ y[n] = d /\ \A k \in 1 .. n - 1 : y[k] = p[k]
        BY <3>2, <4>1
      <4>3. CASE j = n
        <5>1. y[j].phase = "catch"
          BY <3>4, <4>1, <4>2, <4>3
        <5> QED
          BY <3>1, <5>1 DEF y
      <4>4. CASE j # n
        <5>1. j \in 1 .. n - 1
          BY <1>3, <3>2, <3>4, <4>2, <4>4
        <5>2. y[j] = x[j]
          BY <3>2, <4>2, <5>1
        <5> QED
          BY <3>1, <3>4, <5>2 DEF y
      <4> QED
        BY <4>3, <4>4
    <3> QED
      BY <3>3, <3>5, <3>6
  <2> QED
    BY <2>6, <2>7
<1> QED
  BY <1>4, <1>5, <1>6

\* An exception that leaves the body of a try with a catch clause is offered to that
\* clause before the finally block, in whatever frame and run() the try is.
THEOREM CatchComesFirst ==
    ASSUME Forms = {}
    PROVE  Spec => CatchNotSkipped
<1>1. SoundInv /\ SoundInv' /\ [Next]_vars =>
        [ mode = "unwind" =>
          \A i \in 1 .. Len(frames) : \A j \in 1 .. Len(frames[i].ctx) :
            LET c == frames[i].ctx[j]
            IN  IsTry(c) /\ c.catch /\ c.phase = "body" =>
                    ~ (/\ i <= Len(frames')
                       /\ j <= Len(frames'[i].ctx)
                       /\ frames'[i].ctx[j].phase = "finally") ]_vars
  BY CatchFirst
<1> QED
  BY <1>1, AlwaysSound, PTL DEF Spec, CatchNotSkipped
=============================================================================
