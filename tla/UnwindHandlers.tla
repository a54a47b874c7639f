---------------------------- MODULE UnwindHandlers ----------------------------
(***************************************************************************)
(* The handler stack and the value stack belong to the frames: proofs      *)
(* about Unwind for stacks of every size and every program that keeps to   *)
(* the safe statement forms (Forms = {}).                                  *)
(*                                                                         *)
(* The inductive invariant is SafeInv.  While the program runs, the        *)
(* handler stack is the concatenation, over the frames and in each frame   *)
(* over the constructs it is in, of the handlers each construct owns in    *)
(* its phase (AllHandlers), and every frame starts at the height where the *)
(* one below it stops (FramesOK).  Neither is inductive alone: a return    *)
(* that passes through a finally block needs to know that its frame was    *)
(* not called through C and that no other try is around it, a frame that   *)
(* waits for __next__ that it has no run() of its own, and between two     *)
(* rounds of a for-each there are no locals but the iterator.              *)
(*                                                                         *)
(* The module has four parts: flattened sequences; the handlers of a       *)
(* context and of a call stack, and what entering or leaving a construct   *)
(* does to them; one lemma <Action>Safe per action of Unwind; and the      *)
(* theorems.                                                               *)
(***************************************************************************)
EXTENDS UnwindProofs, LeastNumbers, SequenceTheorems

-----------------------------------------------------------------------------
(* Flattened sequences.                                                    *)

\* Two sequences agree on their first n elements.
Agree(s, t, n) == \A i \in 1 .. n : s[i] = t[i]

\* The function FlattenSeq is defined by, on the first n pieces.
Flattens(ss, n, f) == f = [i \in 1 .. n |-> IF i = 1 THEN ss[i] ELSE f[i - 1] \o ss[i]]

\* Point by point.
LEMMA FlattensAt ==
    ASSUME NEW ss, NEW n, NEW f, Flattens(ss, n, f)
    PROVE  \A i \in 1 .. n : f[i] = IF i = 1 THEN ss[i] ELSE f[i - 1] \o ss[i]
BY DEF Flattens

\* There is one.
LEMMA FlatteningExists ==
    ASSUME NEW ss, NEW n \in Nat
    PROVE  \E f : Flattens(ss, n, f)
<1> DEFINE Good == {k \in Nat : \E f : Flattens(ss, k, f)}
<1>1. 0 \in Good
  <2> DEFINE f == [i \in 1 .. 0 |-> ss[i]]
  <2>1. f = [i \in 1 .. 0 |-> IF i = 1 THEN ss[i] ELSE f[i - 1] \o ss[i]]
    OBVIOUS
  <2> HIDE DEF f
  <2>2. Flattens(ss, 0, f)
    BY <2>1 DEF Flattens
  <2> QED
    BY <2>2
<1>2. ASSUME NEW k \in Nat, k \in Good PROVE k + 1 \in Good
  <2>1. PICK g : Flattens(ss, k, g)
    BY <1>2
  <2>2. \A i \in 1 .. k : g[i] = IF i = 1 THEN ss[i] ELSE g[i - 1] \o ss[i]
    BY <2>1, FlattensAt
  <2> DEFINE last == IF k = 0 THEN ss[1] ELSE g[k] \o ss[k + 1]
             f == [i \in 1 .. k + 1 |-> IF i = k + 1 THEN last ELSE g[i]]
  <2> HIDE DEF last
  <2>3. \A i \in 1 .. k : f[i] = g[i]
    OBVIOUS
  <2>4. f[k + 1] = last
    OBVIOUS
  <2>5. f = [i \in 1 .. k + 1 |-> f[i]]
    OBVIOUS
  <2> HIDE DEF f
  <2>6. ASSUME NEW i \in 1 .. k + 1
        PROVE  f[i] = IF i = 1 THEN ss[i] ELSE f[i - 1] \o ss[i]
    <3>1. CASE i = k + 1
      <4>1. CASE k = 0
        BY <3>1, <4>1, <2>4 DEF last
      <4>2. CASE k # 0
        <5>1. i - 1 = k /\ k \in 1 .. k /\ i # 1
          BY <3>1, <4>2
        <5>2. f[i - 1] = g[k]
          BY <5>1, <2>3
        <5> QED
          BY <3>1, <4>2, <5>1, <5>2, <2>4 DEF last
      <4> QED
        BY <4>1, <4>2
    <3>2. CASE i # k + 1
      <4>1. i \in 1 .. k /\ (i # 1 => i - 1 \in 1 .. k)
        BY <3>2
      <4>2. f[i] = g[i] /\ (i # 1 => f[i - 1] = g[i - 1])
        BY <4>1, <2>3
      <4> QED
        BY <4>1, <4>2, <2>2
    <3> QED
      BY <3>1, <3>2
  <2>7. f = [i \in 1 .. k + 1 |-> IF i = 1 THEN ss[i] ELSE f[i - 1] \o ss[i]]
    BY <2>5, <2>6
  <2>8. Flattens(ss, k + 1, f)
    BY <2>7 DEF Flattens
  <2> QED
    BY <2>8
<1>3. n \in Good
  <2> HIDE DEF Good
  <2> QED
    BY <1>1, <1>2, EveryNumber
<1> QED
  BY <1>3

\* It depends only on what it flattens.
LEMMA FlatteningUnique ==
    ASSUME NEW ss, NEW tt, NEW n \in Nat, NEW k \in Nat, NEW f, NEW g,
           Flattens(ss, n, f), Flattens(tt, k, g),
           NEW m \in Nat, m <= n, m <= k, Agree(ss, tt, m)
    PROVE  Agree(f, g, m)
<1> USE DEF Agree
<1> DEFINE Good == {x \in Nat : x \in 1 .. m => f[x] = g[x]}
<1>1. /\ \A i \in 1 .. m : f[i] = IF i = 1 THEN ss[i] ELSE f[i - 1] \o ss[i]
      /\ \A i \in 1 .. m : g[i] = IF i = 1 THEN tt[i] ELSE g[i - 1] \o tt[i]
  BY FlattensAt
<1>2. 0 \in Good
  OBVIOUS
<1>3. \A x \in Nat : x \in Good => x + 1 \in Good
  <2> SUFFICES ASSUME NEW x \in Nat, x \in Good, x + 1 \in 1 .. m
               PROVE  f[x + 1] = g[x + 1]
    OBVIOUS
  <2>1. CASE x = 0
    BY <1>1, <2>1
  <2>2. CASE x # 0
    <3>1. x \in 1 .. m /\ (x + 1) - 1 = x /\ x + 1 # 1
      BY <2>2
    <3>2. f[x] = g[x]
      BY <3>1
    <3> QED
      BY <1>1, <3>1, <3>2
  <2> QED
    BY <2>1, <2>2
<1>4. Nat \subseteq Good
  <2> HIDE DEF Good
  <2> QED
    BY <1>2, <1>3, EveryNumber
<1> QED
  BY <1>4

\* FlattenSeq is the last value of such a function.
LEMMA FlattenIs ==
    ASSUME NEW ss, Len(ss) \in Nat, Len(ss) # 0
    PROVE  \E f : Flattens(ss, Len(ss), f) /\ FlattenSeq(ss) = f[Len(ss)]
<1> DEFINE flatten == CHOOSE f : Flattens(ss, Len(ss), f)
<1>1. Flattens(ss, Len(ss), flatten)
  BY FlatteningExists
<1>2. FlattenSeq(ss) = flatten[Len(ss)]
  BY DEF FlattenSeq, Flattens
<1> HIDE DEF flatten
<1> QED
  BY <1>1, <1>2

\* Nothing flattens to nothing.
LEMMA FlattenEmpty == FlattenSeq(<<>>) = <<>>
BY DEF FlattenSeq

\* The last piece comes last.
LEMMA FlattenMore ==
    ASSUME NEW S, NEW ss \in Seq(Seq(S)), NEW tt \in Seq(Seq(S)),
           Len(ss) = Len(tt) + 1, Agree(ss, tt, Len(tt))
    PROVE  FlattenSeq(ss) = FlattenSeq(tt) \o ss[Len(ss)]
<1> DEFINE n == Len(tt)
<1>1. n \in Nat /\ Len(ss) = n + 1 /\ ss[n + 1] \in Seq(S)
  OBVIOUS
<1>2. PICK f : Flattens(ss, n + 1, f) /\ FlattenSeq(ss) = f[n + 1]
  BY <1>1, FlattenIs
<1>3. f[n + 1] = IF n + 1 = 1 THEN ss[n + 1] ELSE f[(n + 1) - 1] \o ss[n + 1]
  BY <1>1, <1>2, FlattensAt
<1>4. CASE n = 0
  <2>1. tt = <<>>
    BY <1>1, <1>4, EmptyLen
  <2>2. FlattenSeq(tt) = <<>>
    BY <2>1, FlattenEmpty
  <2>3. <<>> \o ss[n + 1] = ss[n + 1]
    BY <1>1
  <2> QED
    BY <1>1, <1>2, <1>3, <1>4, <2>2, <2>3
<1>5. CASE n # 0
  <2>1. PICK g : Flattens(tt, n, g) /\ FlattenSeq(tt) = g[n]
    BY <1>1, <1>5, FlattenIs
  <2>2. Agree(f, g, n)
    <3>1. n \in Nat /\ n + 1 \in Nat /\ n <= n + 1 /\ n <= n /\ Agree(ss, tt, n)
      BY <1>1
    <3>2. Flattens(ss, n + 1, f) /\ Flattens(tt, n, g)
      BY <1>2, <2>1
    <3> HIDE DEF n
    <3> QED
      BY <3>1, <3>2, FlatteningUnique
  <2>3. f[n] = g[n] /\ (n + 1) - 1 = n /\ n + 1 # 1
    BY <1>1, <1>5, <2>2 DEF Agree
  <2> QED
    BY <1>1, <1>2, <1>3, <2>1, <2>3
<1> QED
  BY <1>4, <1>5

\* The pieces before a position.
LEMMA Pieces ==
    ASSUME NEW S, NEW ss \in Seq(S), NEW m \in 0 .. Len(ss)
    PROVE  /\ SubSeq(ss, 1, m) \in Seq(S) /\ Len(SubSeq(ss, 1, m)) = m
           /\ Agree(SubSeq(ss, 1, m), ss, m)
BY DEF Agree

\* Two prefixes of a sequence.
LEMMA OnePieceMore ==
    ASSUME NEW ss, NEW a, NEW b, NEW n \in Nat,
           Len(a) = n, Agree(a, ss, n), Len(b) = n + 1, Agree(b, ss, n + 1)
    PROVE  Len(b) = Len(a) + 1 /\ Agree(b, a, Len(a))
BY DEF Agree

\* Flattening adds no elements of other kinds.
LEMMA FlattenType ==
    ASSUME NEW S, NEW ss \in Seq(Seq(S))
    PROVE  FlattenSeq(ss) \in Seq(S)
<1> DEFINE Good == {n \in Nat : n <= Len(ss) => FlattenSeq(SubSeq(ss, 1, n)) \in Seq(S)}
<1>1. Len(ss) \in Nat
  OBVIOUS
<1>2. 0 \in Good
  <2>1. SubSeq(ss, 1, 0) = <<>>
    OBVIOUS
  <2>2. FlattenSeq(SubSeq(ss, 1, 0)) \in Seq(S)
    BY <2>1, FlattenEmpty, EmptySeq
  <2> QED
    BY <2>2
<1>3. \A n \in Nat : n \in Good => n + 1 \in Good
  <2> SUFFICES ASSUME NEW n \in Nat, n + 1 <= Len(ss), FlattenSeq(SubSeq(ss, 1, n)) \in Seq(S)
               PROVE  FlattenSeq(SubSeq(ss, 1, n + 1)) \in Seq(S)
    BY <1>1
  <2> DEFINE a == SubSeq(ss, 1, n)
             b == SubSeq(ss, 1, n + 1)
  <2>0. a \in Seq(Seq(S)) /\ b \in Seq(Seq(S))
    BY <1>1, Pieces
  <2>1. /\ Len(a) = n /\ Agree(a, ss, n)
        /\ Len(b) = n + 1 /\ Agree(b, ss, n + 1) /\ b[n + 1] = ss[n + 1]
    BY <1>1, Pieces
  <2>2. FlattenSeq(a) \in Seq(S) /\ ss[n + 1] \in Seq(S)
    BY <1>1
  <2> HIDE DEF a, b
  <2>3. FlattenSeq(b) = FlattenSeq(a) \o b[Len(b)]
    <3>1. Len(b) = Len(a) + 1 /\ Agree(b, a, Len(a))
      BY <2>1, OnePieceMore
    <3> QED
      BY <2>0, <3>1, FlattenMore
  <2>4. FlattenSeq(b) \in Seq(S)
    BY <2>0, <2>1, <2>2, <2>3, ConcatProperties
  <2> QED
    BY <2>4 DEF b
<1>4. Len(ss) \in Good
  <2> HIDE DEF Good
  <2> QED
    BY <1>1, <1>2, <1>3, EveryNumber
<1>5. SubSeq(ss, 1, Len(ss)) = ss
  BY SubSeqFull
<1>6. FlattenSeq(SubSeq(ss, 1, Len(ss))) \in Seq(S)
  BY <1>1, <1>4
<1> QED
  BY <1>5, <1>6

\* Empty pieces at the end do not count.
LEMMA FlattenPrefix ==
    ASSUME NEW S, NEW ss \in Seq(Seq(S)), NEW m \in 0 .. Len(ss),
           \A i \in m + 1 .. Len(ss) : ss[i] = <<>>
    PROVE  FlattenSeq(ss) = FlattenSeq(SubSeq(ss, 1, m))
<1> DEFINE Good == {n \in Nat : m + n <= Len(ss) =>
                        FlattenSeq(SubSeq(ss, 1, m + n)) = FlattenSeq(SubSeq(ss, 1, m))}
<1>1. Len(ss) \in Nat
  OBVIOUS
<1>2. 0 \in Good
  OBVIOUS
<1>3. \A n \in Nat : n \in Good => n + 1 \in Good
  <2> SUFFICES ASSUME NEW n \in Nat, m + (n + 1) <= Len(ss),
                      FlattenSeq(SubSeq(ss, 1, m + n)) = FlattenSeq(SubSeq(ss, 1, m))
               PROVE  FlattenSeq(SubSeq(ss, 1, m + (n + 1))) = FlattenSeq(SubSeq(ss, 1, m))
    BY <1>1
  <2> DEFINE a == SubSeq(ss, 1, m + n)
             b == SubSeq(ss, 1, m + (n + 1))
  <2>0. a \in Seq(Seq(S)) /\ b \in Seq(Seq(S))
    BY <1>1, Pieces
  <2>1. /\ m + n \in Nat /\ m + (n + 1) = (m + n) + 1
        /\ Len(a) = m + n /\ Agree(a, ss, m + n)
        /\ Len(b) = m + (n + 1) /\ Agree(b, ss, m + (n + 1)) /\ b[m + (n + 1)] = ss[m + (n + 1)]
    BY <1>1, Pieces
  <2>2. ss[m + (n + 1)] = <<>>
    BY <1>1
  <2>3. FlattenSeq(a) = FlattenSeq(SubSeq(ss, 1, m))
    OBVIOUS
  <2> HIDE DEF a, b
  <2>4. FlattenSeq(b) = FlattenSeq(a) \o b[Len(b)]
    <3>1. Len(b) = Len(a) + 1 /\ Agree(b, a, Len(a))
      BY <2>1, OnePieceMore
    <3> QED
      BY <2>0, <3>1, FlattenMore
  <2>5. b[Len(b)] = <<>>
    BY <2>1, <2>2
  <2>6. FlattenSeq(a) \in Seq(S)
    BY <2>0, FlattenType
  <2>7. FlattenSeq(b) = FlattenSeq(a)
    BY <2>4, <2>5, <2>6, ConcatEmptySeq
  <2> QED
    BY <2>3, <2>7 DEF b
<1>4. Len(ss) - m \in Good
  <2> HIDE DEF Good
  <2>1. Nat \subseteq Good
    BY <1>2, <1>3, EveryNumber
  <2> QED
    BY <1>1, <2>1
<1>5. SubSeq(ss, 1, Len(ss)) = ss
  BY SubSeqFull
<1>6. m + (Len(ss) - m) = Len(ss)
  BY <1>1
<1>7. FlattenSeq(SubSeq(ss, 1, m + (Len(ss) - m))) = FlattenSeq(SubSeq(ss, 1, m))
  BY <1>1, <1>4, <1>6
<1> QED
  BY <1>5, <1>6, <1>7

\* What comes out last comes from the last piece that is not empty.
LEMMA LastPiece ==
    ASSUME NEW S, NEW ss \in Seq(Seq(S)), FlattenSeq(ss) # <<>>
    PROVE  \E p \in 1 .. Len(ss) : ss[p] # <<>> /\ \A i \in p + 1 .. Len(ss) : ss[i] = <<>>
<1> DEFINE P == {n \in Nat : \A i \in n + 1 .. Len(ss) : ss[i] = <<>>}
<1>1. Len(ss) \in Nat /\ Len(ss) \in P
  OBVIOUS
<1>2. PICK p \in P : \A d \in P : p <= d
  <2> HIDE DEF P
  <2>1. P \in SUBSET Nat
    BY DEF P
  <2> QED
    BY <1>1, <2>1, LeastNumber
<1>3. p # 0
  <2> SUFFICES ASSUME p = 0 PROVE FALSE
    OBVIOUS
  <2>1. \A i \in 0 + 1 .. Len(ss) : ss[i] = <<>>
    OBVIOUS
  <2>2. FlattenSeq(ss) = FlattenSeq(SubSeq(ss, 1, 0))
    BY <1>1, <2>1, FlattenPrefix
  <2>3. SubSeq(ss, 1, 0) = <<>>
    OBVIOUS
  <2> QED
    BY <2>2, <2>3, FlattenEmpty
<1>4. p <= Len(ss) /\ p - 1 \in Nat /\ p - 1 \notin P
  <2> HIDE DEF P
  <2>1. p \in Nat /\ ~(p <= p - 1)
    BY DEF P
  <2> QED
    BY <1>1, <1>2, <1>3, <2>1
<1>5. ss[p] # <<>>
  <2>1. PICK i \in (p - 1) + 1 .. Len(ss) : ss[i] # <<>>
    BY <1>4
  <2>2. i = p
    BY <1>2, <2>1
  <2> QED
    BY <2>1, <2>2
<1> QED
  BY <1>2, <1>3, <1>4, <1>5

-----------------------------------------------------------------------------
(* What constructs and frames own.                                         *)

\* The completions that lie on the stack for a context.
Finallys(ctx) == Cardinality({k \in 1 .. Len(ctx) : ctx[k].phase = "finally"})

\* A try statement as it was entered.
Entered(c) == [c EXCEPT !.phase = "body", !.tag = "none"]

\* The constructs around the one at a position.
Around(ctx, j) == SubSeq(ctx, 1, j - 1)

\* The height where a construct starts.
StartOf(slots, outer, c) == slots + c.at + 2 * Finallys(outer)

\* OwnHandlers for a construct in any frame.
Owned(fc, slots, outer, c) ==
    IF IsTry(c) /\ c.phase = "body"
    THEN TryHandlers(fc, StartOf(slots, outer, c), outer, Entered(c))
    ELSE IF IsTry(c) /\ c.phase = "catch"
    THEN << FinallyHandler(fc, StartOf(slots, outer, c), outer, Entered(c)) >>
    ELSE IF c.phase = "next"
    THEN << LoopHandler(fc, StartOf(slots, outer, c), outer, c) >>
    ELSE <<>>

OwnedIn(fc, slots, ctx) ==
    [j \in 1 .. Len(ctx) |-> Owned(fc, slots, Around(ctx, j), ctx[j])]

\* The handlers of a frame.
CtxHandlers(fc, slots, ctx) == FlattenSeq(OwnedIn(fc, slots, ctx))

OwnedBy(fs) == [i \in 1 .. Len(fs) |-> CtxHandlers(i, fs[i].slots, fs[i].ctx)]

\* The handlers of a call stack.
AllHandlers(fs) == FlattenSeq(OwnedBy(fs))

\* Completions of a context, one construct more.
LEMMA FinallysOf ==
    /\ Finallys(<<>>) = 0
    /\ \A ctx \in Seq(Construct) : Finallys(ctx) \in Nat
    /\ \A ctx \in Seq(Construct), c \in Construct :
          Finallys(Append(ctx, c)) = Finallys(ctx) + IF c.phase = "finally" THEN 1 ELSE 0
<1> DEFINE In(ctx) == {k \in 1 .. Len(ctx) : ctx[k].phase = "finally"}
<1>1. Finallys(<<>>) = 0
  <2>1. In(<<>>) = {}
    OBVIOUS
  <2> QED
    BY <2>1, FS_EmptySet DEF Finallys
<1>2. ASSUME NEW ctx \in Seq(Construct)
      PROVE  IsFiniteSet(In(ctx)) /\ Cardinality(In(ctx)) \in Nat
  <2>1. Len(ctx) \in Nat /\ In(ctx) \subseteq 1 .. Len(ctx)
    OBVIOUS
  <2> HIDE DEF In
  <2>2. IsFiniteSet(1 .. Len(ctx))
    BY <2>1, FS_Interval
  <2>3. IsFiniteSet(In(ctx))
    BY <2>1, <2>2, FS_Subset
  <2> QED
    BY <2>3, FS_CardinalityType
<1>3. ASSUME NEW ctx \in Seq(Construct), NEW c \in Construct
      PROVE  Finallys(Append(ctx, c)) = Finallys(ctx) + IF c.phase = "finally" THEN 1 ELSE 0
  <2> DEFINE n == Len(ctx)
             more == Append(ctx, c)
  <2>1. /\ n \in Nat /\ Len(more) = n + 1 /\ more[n + 1] = c
        /\ \A k \in 1 .. n : more[k] = ctx[k]
    BY Appended
  <2> HIDE DEF n, more
  <2>2. In(ctx) = {k \in 1 .. n : ctx[k].phase = "finally"} /\ n + 1 \notin In(ctx)
    BY <2>1 DEF n
  <2>3. In(more) = IF c.phase = "finally" THEN In(ctx) \cup {n + 1} ELSE In(ctx)
    BY <2>1, <2>2
  <2> HIDE DEF In
  <2>4. Cardinality(In(more)) = Cardinality(In(ctx)) + IF c.phase = "finally" THEN 1 ELSE 0
    <3>1. CASE c.phase = "finally"
      <4>1. In(more) = In(ctx) \cup {n + 1}
        BY <3>1, <2>3
      <4>2. Cardinality(In(ctx) \cup {n + 1}) = Cardinality(In(ctx)) + 1
        BY <1>2, <2>2, FS_AddElement
      <4> QED
        BY <3>1, <4>1, <4>2
    <3>2. CASE c.phase # "finally"
      BY <1>2, <2>3, <3>2
    <3> QED
      BY <3>1, <3>2
  <2> QED
    BY <2>4 DEF Finallys, In, more
<1> QED
  BY <1>1, <1>2, <1>3 DEF Finallys

\* Constructs that are not in their finally block do not count.
LEMMA FinallysOfPrefix ==
    ASSUME NEW ctx \in Seq(Construct), NEW m \in 0 .. Len(ctx),
           \A k \in m + 1 .. Len(ctx) : ctx[k].phase # "finally"
    PROVE  Finallys(SubSeq(ctx, 1, m)) = Finallys(ctx)
<1>1. /\ Len(ctx) \in Nat /\ Len(SubSeq(ctx, 1, m)) = m
      /\ \A k \in 1 .. m : SubSeq(ctx, 1, m)[k] = ctx[k]
  OBVIOUS
<1> DEFINE p == SubSeq(ctx, 1, m)
<1> HIDE DEF p
<1>2. {k \in 1 .. Len(ctx) : ctx[k].phase = "finally"} = {k \in 1 .. m : p[k].phase = "finally"}
  BY <1>1 DEF p
<1> QED
  BY <1>1, <1>2 DEF Finallys, p

\* Types.
LEMMA OwnedType ==
    ASSUME NEW fc \in Nat, NEW slots \in Int, NEW outer \in Seq(Construct), NEW c \in Construct
    PROVE  /\ StartOf(slots, outer, c) \in Int
           /\ Entered(c) \in Construct /\ Entered(c).at = c.at /\ Entered(c).kind = c.kind
           /\ Entered(c).catch = c.catch
           /\ Owned(fc, slots, outer, c) \in Seq(Handler)
<1>1. c.at \in Nat /\ Finallys(outer) \in Nat
  BY LoopLocals, FinallysOf
<1>2. StartOf(slots, outer, c) \in Int
  BY <1>1 DEF StartOf
<1>3. /\ Entered(c) \in Construct /\ Entered(c).at = c.at /\ Entered(c).kind = c.kind
      /\ Entered(c).catch = c.catch
  BY DEF Entered, Construct
<1>4. c.phase = "next" => c.kind = "foreach"
  BY DEF Construct
<1>5. /\ TryHandlers(fc, StartOf(slots, outer, c), outer, Entered(c)) \in Seq(Handler)
      /\ FinallyHandler(fc, StartOf(slots, outer, c), outer, Entered(c)) \in Handler
      /\ c.phase = "next" => LoopHandler(fc, StartOf(slots, outer, c), outer, c) \in Handler
  BY <1>2, <1>3, <1>4, HandlerTypes
<1>6. \A h \in Handler : <<h>> \in Seq(Handler)
  OBVIOUS
<1>7. <<>> \in Seq(Handler)
  BY EmptyStacks
<1> QED
  BY <1>2, <1>3, <1>5, <1>6, <1>7, Zenon DEF Owned

\* A prefix of a context.
LEMMA AroundType ==
    ASSUME NEW S, NEW ctx \in Seq(S), NEW j \in 1 .. Len(ctx)
    PROVE  Around(ctx, j) \in Seq(S) /\ Len(Around(ctx, j)) = j - 1 /\ ctx[j] \in S
BY DEF Around

\* The sequences that are flattened.
LEMMA PiecesOf ==
    ASSUME NEW fc \in Nat, NEW slots \in Int, NEW ctx \in Seq(Construct)
    PROVE  /\ OwnedIn(fc, slots, ctx) \in Seq(Seq(Handler))
           /\ Len(OwnedIn(fc, slots, ctx)) = Len(ctx)
           /\ \A j \in 1 .. Len(ctx) :
                 OwnedIn(fc, slots, ctx)[j] = Owned(fc, slots, Around(ctx, j), ctx[j])
           /\ CtxHandlers(fc, slots, ctx) \in Seq(Handler)
<1>1. Len(ctx) \in Nat
  OBVIOUS
<1>2. \A j \in 1 .. Len(ctx) : Owned(fc, slots, Around(ctx, j), ctx[j]) \in Seq(Handler)
  BY AroundType, OwnedType
<1> DEFINE own == OwnedIn(fc, slots, ctx)
<1>3. \A j \in 1 .. Len(ctx) : own[j] = Owned(fc, slots, Around(ctx, j), ctx[j])
  BY DEF OwnedIn
<1>4. own \in [1 .. Len(ctx) -> Seq(Handler)]
  BY <1>2 DEF OwnedIn
<1> HIDE DEF own
<1>5. own \in Seq(Seq(Handler)) /\ Len(own) = Len(ctx)
  BY <1>1, <1>4
<1> QED
  BY <1>3, <1>5, FlattenType DEF own, CtxHandlers

\* A context that is entered further.
LEMMA CtxMore ==
    ASSUME NEW fc \in Nat, NEW slots \in Int, NEW ctx \in Seq(Construct), NEW c \in Construct
    PROVE  CtxHandlers(fc, slots, Append(ctx, c)) =
               CtxHandlers(fc, slots, ctx) \o Owned(fc, slots, ctx, c)
<1> DEFINE more == Append(ctx, c)
           a == OwnedIn(fc, slots, ctx)
           b == OwnedIn(fc, slots, more)
           n == Len(ctx)
<1>1. /\ n \in Nat /\ more \in Seq(Construct) /\ Len(more) = n + 1 /\ more[n + 1] = c
      /\ \A k \in 1 .. n : more[k] = ctx[k]
  BY Appended
<1>2. \A j \in 1 .. n : Around(more, j) = Around(ctx, j)
  BY DEF Around
<1>3. Around(more, n + 1) = ctx
  BY DEF Around
<1> HIDE DEF more
<1>4. /\ a \in Seq(Seq(Handler)) /\ Len(a) = n
      /\ \A j \in 1 .. n : a[j] = Owned(fc, slots, Around(ctx, j), ctx[j])
  BY PiecesOf
<1>5. /\ b \in Seq(Seq(Handler)) /\ Len(b) = n + 1
      /\ \A j \in 1 .. n + 1 : b[j] = Owned(fc, slots, Around(more, j), more[j])
  BY <1>1, PiecesOf
<1> HIDE DEF a, b, n
<1>6. Len(b) = Len(a) + 1 /\ Agree(b, a, Len(a))
  BY <1>1, <1>2, <1>4, <1>5 DEF Agree
<1>7. b[Len(b)] = Owned(fc, slots, ctx, c)
  BY <1>1, <1>3, <1>5
<1>8. FlattenSeq(b) = FlattenSeq(a) \o b[Len(b)]
  BY <1>4, <1>5, <1>6, FlattenMore
<1> QED
  BY <1>7, <1>8 DEF CtxHandlers, a, b, more

\* No construct, no handler.
LEMMA CtxEmpty ==
    ASSUME NEW fc, NEW slots
    PROVE  CtxHandlers(fc, slots, <<>>) = <<>>
<1>1. OwnedIn(fc, slots, <<>>) = <<>>
  BY DEF OwnedIn
<1> QED
  BY <1>1, FlattenEmpty DEF CtxHandlers

\* Constructs that own nothing do not count.
LEMMA CtxPrefix ==
    ASSUME NEW fc \in Nat, NEW slots \in Int, NEW ctx \in Seq(Construct),
           NEW m \in 0 .. Len(ctx),
           \A j \in m + 1 .. Len(ctx) : Owned(fc, slots, Around(ctx, j), ctx[j]) = <<>>
    PROVE  CtxHandlers(fc, slots, ctx) = CtxHandlers(fc, slots, SubSeq(ctx, 1, m))
<1> DEFINE p == SubSeq(ctx, 1, m)
           a == OwnedIn(fc, slots, ctx)
           b == OwnedIn(fc, slots, p)
           t == SubSeq(a, 1, m)
<1>1. /\ Len(ctx) \in Nat /\ m \in Nat /\ m <= Len(ctx) /\ p \in Seq(Construct) /\ Len(p) = m
      /\ \A k \in 1 .. m : p[k] = ctx[k]
  OBVIOUS
<1>2. \A j \in 1 .. m : Around(p, j) = Around(ctx, j)
  BY DEF Around
<1> HIDE DEF p
<1>3. /\ a \in Seq(Seq(Handler)) /\ Len(a) = Len(ctx)
      /\ \A j \in 1 .. Len(ctx) : a[j] = Owned(fc, slots, Around(ctx, j), ctx[j])
  BY PiecesOf
<1>4. /\ b \in Seq(Seq(Handler)) /\ Len(b) = m
      /\ \A j \in 1 .. m : b[j] = Owned(fc, slots, Around(p, j), p[j])
  BY <1>1, PiecesOf
<1>5. \A j \in m + 1 .. Len(a) : a[j] = <<>>
  BY <1>1, <1>3
<1> HIDE DEF a, b
<1>6. m \in 0 .. Len(a)
  BY <1>1, <1>3
<1>7. FlattenSeq(a) = FlattenSeq(t)
  BY <1>3, <1>5, <1>6, FlattenPrefix
<1>8. t \in Seq(Seq(Handler)) /\ Len(t) = m /\ Agree(t, a, m)
  BY <1>3, <1>6, Pieces
<1> HIDE DEF t
<1>9. ASSUME NEW j \in 1 .. m PROVE t[j] = b[j]
  <2>1. t[j] = a[j] /\ j \in 1 .. Len(ctx)
    BY <1>1, <1>8 DEF Agree
  <2>2. a[j] = Owned(fc, slots, Around(ctx, j), ctx[j])
    BY <1>3, <2>1
  <2>3. b[j] = Owned(fc, slots, Around(p, j), p[j])
    BY <1>4
  <2> QED
    BY <1>1, <1>2, <2>1, <2>2, <2>3
<1>10. t = b
  BY <1>4, <1>8, <1>9, SeqEqual
<1> QED
  BY <1>7, <1>10 DEF CtxHandlers, a, b, p

\* The innermost construct that owns a handler.
LEMMA CtxOwner ==
    ASSUME NEW fc \in Nat, NEW slots \in Int, NEW ctx \in Seq(Construct),
           CtxHandlers(fc, slots, ctx) # <<>>
    PROVE  \E j \in 1 .. Len(ctx) :
               /\ Owned(fc, slots, Around(ctx, j), ctx[j]) # <<>>
               /\ \A k \in j + 1 .. Len(ctx) : Owned(fc, slots, Around(ctx, k), ctx[k]) = <<>>
<1> DEFINE a == OwnedIn(fc, slots, ctx)
<1>1. /\ a \in Seq(Seq(Handler)) /\ Len(a) = Len(ctx)
      /\ \A j \in 1 .. Len(ctx) : a[j] = Owned(fc, slots, Around(ctx, j), ctx[j])
      /\ FlattenSeq(a) # <<>>
  BY PiecesOf DEF CtxHandlers
<1> HIDE DEF a
<1>2. PICK p \in 1 .. Len(a) : a[p] # <<>> /\ \A i \in p + 1 .. Len(a) : a[i] = <<>>
  BY <1>1, LastPiece
<1>3. \A k \in p + 1 .. Len(ctx) : Owned(fc, slots, Around(ctx, k), ctx[k]) = <<>>
  BY <1>1, <1>2
<1> QED
  BY <1>1, <1>2, <1>3

\* What is inside its constructs and then the one at j.
LEMMA CtxUpTo ==
    ASSUME NEW fc \in Nat, NEW slots \in Int, NEW ctx \in Seq(Construct),
           NEW j \in 1 .. Len(ctx),
           \A k \in j + 1 .. Len(ctx) : Owned(fc, slots, Around(ctx, k), ctx[k]) = <<>>
    PROVE  CtxHandlers(fc, slots, ctx) =
               CtxHandlers(fc, slots, Around(ctx, j)) \o Owned(fc, slots, Around(ctx, j), ctx[j])
<1>1. /\ j \in 0 .. Len(ctx) /\ ctx[j] \in Construct /\ Around(ctx, j) \in Seq(Construct)
  BY AroundType
<1>2. SubSeq(ctx, 1, j) = Append(Around(ctx, j), ctx[j])
  BY DEF Around
<1>3. CtxHandlers(fc, slots, ctx) = CtxHandlers(fc, slots, SubSeq(ctx, 1, j))
  BY <1>1, CtxPrefix
<1> QED
  BY <1>1, <1>2, <1>3, CtxMore

\* The fields of a frame.
LEMMA FrameFields ==
    ASSUME NEW fs \in Seq(Frame), NEW i \in 1 .. Len(fs)
    PROVE  /\ fs[i] \in Frame /\ fs[i].slots \in Int /\ fs[i].locals \in Nat
           /\ fs[i].ctx \in Seq(Construct) /\ i \in Nat
<1>1. fs[i] \in Frame /\ i \in Nat
  OBVIOUS
<1>2. \A f \in Frame : f.slots \in Int /\ f.locals \in Nat /\ f.ctx \in Seq(Construct)
  BY DEF Frame
<1> QED
  BY <1>1, <1>2

\* The handlers of the frames.
LEMMA FramesOwned ==
    ASSUME NEW fs \in Seq(Frame)
    PROVE  /\ OwnedBy(fs) \in Seq(Seq(Handler)) /\ Len(OwnedBy(fs)) = Len(fs)
           /\ \A i \in 1 .. Len(fs) : OwnedBy(fs)[i] = CtxHandlers(i, fs[i].slots, fs[i].ctx)
           /\ AllHandlers(fs) \in Seq(Handler)
<1>1. Len(fs) \in Nat
  OBVIOUS
<1>2. \A i \in 1 .. Len(fs) : CtxHandlers(i, fs[i].slots, fs[i].ctx) \in Seq(Handler)
  BY FrameFields, PiecesOf
<1> DEFINE own == OwnedBy(fs)
<1>3. \A i \in 1 .. Len(fs) : own[i] = CtxHandlers(i, fs[i].slots, fs[i].ctx)
  BY DEF OwnedBy
<1>4. own \in [1 .. Len(fs) -> Seq(Handler)]
  BY <1>2 DEF OwnedBy
<1> HIDE DEF own
<1>5. own \in Seq(Seq(Handler)) /\ Len(own) = Len(fs)
  BY <1>1, <1>4
<1> QED
  BY <1>3, <1>5, FlattenType DEF own, AllHandlers

\* One frame more.
LEMMA AllMore ==
    ASSUME NEW fs \in Seq(Frame), NEW f \in Frame
    PROVE  AllHandlers(Append(fs, f)) =
               AllHandlers(fs) \o CtxHandlers(Len(fs) + 1, f.slots, f.ctx)
<1> DEFINE more == Append(fs, f)
           a == OwnedBy(fs)
           b == OwnedBy(more)
           n == Len(fs)
<1>1. /\ n \in Nat /\ more \in Seq(Frame) /\ Len(more) = n + 1 /\ more[n + 1] = f
      /\ \A k \in 1 .. n : more[k] = fs[k]
  BY Appended
<1> HIDE DEF more
<1>2. /\ a \in Seq(Seq(Handler)) /\ Len(a) = n
      /\ \A i \in 1 .. n : a[i] = CtxHandlers(i, fs[i].slots, fs[i].ctx)
  BY FramesOwned
<1>3. /\ b \in Seq(Seq(Handler)) /\ Len(b) = n + 1
      /\ \A i \in 1 .. n + 1 : b[i] = CtxHandlers(i, more[i].slots, more[i].ctx)
  BY <1>1, FramesOwned
<1> HIDE DEF a, b, n
<1>4. Len(b) = Len(a) + 1 /\ Agree(b, a, Len(a))
  <2>1. ASSUME NEW i \in 1 .. n PROVE b[i] = a[i]
    <3>1. i \in 1 .. n + 1 /\ more[i] = fs[i]
      BY <1>1
    <3>2. a[i] = CtxHandlers(i, fs[i].slots, fs[i].ctx)
      BY <1>2
    <3>3. b[i] = CtxHandlers(i, more[i].slots, more[i].ctx)
      BY <1>3, <3>1
    <3> QED
      BY <3>1, <3>2, <3>3
  <2> QED
    BY <1>2, <1>3, <2>1 DEF Agree
<1>5. b[Len(b)] = CtxHandlers(n + 1, f.slots, f.ctx)
  BY <1>1, <1>3
<1>6. FlattenSeq(b) = FlattenSeq(a) \o b[Len(b)]
  BY <1>2, <1>3, <1>4, FlattenMore
<1> QED
  BY <1>5, <1>6 DEF AllHandlers, a, b, more, n

\* No frame, no handler.
LEMMA AllEmpty == AllHandlers(<<>>) = <<>>
<1>1. OwnedBy(<<>>) = <<>>
  BY DEF OwnedBy
<1> QED
  BY <1>1, FlattenEmpty DEF AllHandlers

\* Frames that own nothing do not count.
LEMMA AllPrefix ==
    ASSUME NEW fs \in Seq(Frame), NEW m \in 0 .. Len(fs),
           \A i \in m + 1 .. Len(fs) : CtxHandlers(i, fs[i].slots, fs[i].ctx) = <<>>
    PROVE  AllHandlers(fs) = AllHandlers(SubSeq(fs, 1, m))
<1> DEFINE p == SubSeq(fs, 1, m)
           a == OwnedBy(fs)
           b == OwnedBy(p)
           t == SubSeq(a, 1, m)
<1>1. /\ Len(fs) \in Nat /\ m \in Nat /\ m <= Len(fs) /\ p \in Seq(Frame) /\ Len(p) = m
      /\ \A k \in 1 .. m : p[k] = fs[k]
  OBVIOUS
<1> HIDE DEF p
<1>2. /\ a \in Seq(Seq(Handler)) /\ Len(a) = Len(fs)
      /\ \A i \in 1 .. Len(fs) : a[i] = CtxHandlers(i, fs[i].slots, fs[i].ctx)
  BY FramesOwned
<1>3. /\ b \in Seq(Seq(Handler)) /\ Len(b) = m
      /\ \A i \in 1 .. m : b[i] = CtxHandlers(i, p[i].slots, p[i].ctx)
  BY <1>1, FramesOwned
<1>4. \A i \in m + 1 .. Len(a) : a[i] = <<>>
  BY <1>1, <1>2
<1> HIDE DEF a, b
<1>5. m \in 0 .. Len(a)
  BY <1>1, <1>2
<1>6. FlattenSeq(a) = FlattenSeq(t)
  BY <1>2, <1>4, <1>5, FlattenPrefix
<1>7. t \in Seq(Seq(Handler)) /\ Len(t) = m /\ Agree(t, a, m)
  BY <1>2, <1>5, Pieces
<1> HIDE DEF t
<1>8. ASSUME NEW i \in 1 .. m PROVE t[i] = b[i]
  <2>1. t[i] = a[i] /\ i \in 1 .. Len(fs)
    BY <1>1, <1>7 DEF Agree
  <2>2. a[i] = CtxHandlers(i, fs[i].slots, fs[i].ctx)
    BY <1>2, <2>1
  <2>3. b[i] = CtxHandlers(i, p[i].slots, p[i].ctx)
    BY <1>3
  <2> QED
    BY <1>1, <2>1, <2>2, <2>3
<1>9. t = b
  BY <1>3, <1>7, <1>8, SeqEqual
<1> QED
  BY <1>6, <1>9 DEF AllHandlers, a, b, p

\* The innermost frame that owns a handler.
LEMMA AllOwner ==
    ASSUME NEW fs \in Seq(Frame), AllHandlers(fs) # <<>>
    PROVE  \E i \in 1 .. Len(fs) :
               /\ CtxHandlers(i, fs[i].slots, fs[i].ctx) # <<>>
               /\ \A k \in i + 1 .. Len(fs) : CtxHandlers(k, fs[k].slots, fs[k].ctx) = <<>>
<1> DEFINE a == OwnedBy(fs)
<1>1. /\ a \in Seq(Seq(Handler)) /\ Len(a) = Len(fs)
      /\ \A i \in 1 .. Len(fs) : a[i] = CtxHandlers(i, fs[i].slots, fs[i].ctx)
      /\ FlattenSeq(a) # <<>>
  BY FramesOwned DEF AllHandlers
<1> HIDE DEF a
<1>2. PICK p \in 1 .. Len(a) : a[p] # <<>> /\ \A i \in p + 1 .. Len(a) : a[i] = <<>>
  BY <1>1, LastPiece
<1>3. \A k \in p + 1 .. Len(fs) : CtxHandlers(k, fs[k].slots, fs[k].ctx) = <<>>
  BY <1>1, <1>2
<1> QED
  BY <1>1, <1>2, <1>3

\* What is below a frame and then that frame.
LEMMA AllUpTo ==
    ASSUME NEW fs \in Seq(Frame), NEW i \in 1 .. Len(fs),
           \A k \in i + 1 .. Len(fs) : CtxHandlers(k, fs[k].slots, fs[k].ctx) = <<>>
    PROVE  AllHandlers(fs) =
               AllHandlers(SubSeq(fs, 1, i - 1)) \o CtxHandlers(i, fs[i].slots, fs[i].ctx)
<1>1. /\ i \in 0 .. Len(fs) /\ fs[i] \in Frame /\ SubSeq(fs, 1, i - 1) \in Seq(Frame)
      /\ Len(SubSeq(fs, 1, i - 1)) + 1 = i
      /\ SubSeq(fs, 1, i) = Append(SubSeq(fs, 1, i - 1), fs[i])
  OBVIOUS
<1>2. AllHandlers(fs) = AllHandlers(SubSeq(fs, 1, i))
  BY <1>1, AllPrefix
<1>3. AllHandlers(Append(SubSeq(fs, 1, i - 1), fs[i])) =
          AllHandlers(SubSeq(fs, 1, i - 1)) \o
          CtxHandlers(Len(SubSeq(fs, 1, i - 1)) + 1, fs[i].slots, fs[i].ctx)
  BY <1>1, AllMore
<1> QED
  BY <1>1, <1>2, <1>3

-----------------------------------------------------------------------------
(* The invariant.                                                          *)

\* A frame waits for __next__.
Waiting(ctx) == ctx # <<>> /\ Last(ctx).phase = "next"

\* A return is on its way through a finally block.
ReturnsAt(ctx, j) == ctx[j].phase = "finally" /\ ctx[j].tag = "return"

Returning(ctx) == \E j \in 1 .. Len(ctx) : ReturnsAt(ctx, j)

\* A for-each between two rounds has no locals but its iterator.
RoundStart(ctx, n) == ctx # <<>> /\ Last(ctx).phase = "start" => n = Last(ctx).at

\* A for-each is between two rounds only as the innermost construct, loops have no
\* catch or finally block, and a return on its way has no try to go through but the
\* one it is in.
WellFormed(ctx) ==
    /\ \A j \in 1 .. Len(ctx) - 1 : ctx[j].phase \notin {"start", "next"}
    /\ \A j \in 1 .. Len(ctx) : ctx[j].phase \in {"catch", "finally"} => IsTry(ctx[j])
    /\ \A i, j \in 1 .. Len(ctx) :
          i < j /\ ReturnsAt(ctx, j) /\ IsTry(ctx[i]) => ctx[i].phase = "finally"

Bases(rs) == {rs[k].base : k \in 1 .. Len(rs)}

\* The frames that called a native.
NativeBases(rs) == {rs[k].base : k \in {n \in 1 .. Len(rs) : rs[n].kind = "native"}}

Height(f) == f.locals + 2 * Finallys(f.ctx)

\* What a native keeps above the frame that called it.
Gap(i, natives) == IF i \in natives THEN NativeArgs + NativeTemps ELSE 0

\* Where frame i of fs stops.
EndOf(fs, i, natives) ==
    IF i = 0 THEN 0 ELSE fs[i].slots + Height(fs[i]) + Gap(i, natives)

\* Frame i, where the run() invocations have the given bases: a frame that waits for
\* __next__ has not called through C, one that returns through a finally block was
\* not called through C.
FrameOK(fs, i, bases, natives) ==
    /\ WellFormed(fs[i].ctx)
    /\ RoundStart(fs[i].ctx, fs[i].locals)
    /\ Waiting(fs[i].ctx) => i \notin bases
    /\ Returning(fs[i].ctx) => i - 1 \notin bases
    /\ fs[i].slots >= 0
    /\ fs[i].slots = EndOf(fs, i - 1, natives)

FramesOK(fs, bases, natives) == \A i \in 1 .. Len(fs) : FrameOK(fs, i, bases, natives)

\* Every run() will give the stack back where the frame that called it stops.
SavedOK(fs, rs) ==
    \A k \in 1 .. Len(rs) : rs[k].savedTop = EndOf(fs, rs[k].base, NativeBases(rs))

\* While the program runs.
LiveInv ==
    /\ FramesOK(frames, Bases(runs), NativeBases(runs))
    /\ SavedOK(frames, runs)
    /\ ~Waiting(Ctx)
    /\ handlers = AllHandlers(frames)
    /\ mode # "unwind" => stackTop = EndOf(frames, Len(frames), NativeBases(runs))

\* While it does not.
RestInv ==
    /\ mode \in {"idle", "error"} => handlers = <<>> /\ stackTop <= 0
    /\ mode = "error" => ~pendingUnwind

SafeInv ==
    /\ mode \in {"exec", "unwind", "native"} => LiveInv
    /\ RestInv

\* What nearly every step does: it keeps the invariant, is defined, and leaves an
\* empty stack when it ends the program.
SafeStep ==
    /\ SafeInv'
    /\ mode' # "wild"
    /\ mode' \in {"idle", "error"} => stackTop' = 0

-----------------------------------------------------------------------------
(* Heights and layouts of call stacks.                                     *)

\* Heights are numbers.
LEMMA HeightType ==
    ASSUME NEW f \in Frame
    PROVE  /\ f.slots \in Int /\ f.locals \in Nat /\ f.ctx \in Seq(Construct)
           /\ Finallys(f.ctx) \in Nat
           /\ Height(f) \in Nat /\ Height(f) = f.locals + 2 * Finallys(f.ctx)
<1>1. f.slots \in Int /\ f.locals \in Nat /\ f.ctx \in Seq(Construct)
  BY DEF Frame
<1>2. Finallys(f.ctx) \in Nat
  BY <1>1, FinallysOf
<1> QED
  BY <1>1, <1>2 DEF Height

\* So are gaps.
LEMMA GapType ==
    ASSUME NEW i, NEW natives
    PROVE  /\ Gap(i, natives) \in Nat
           /\ i \in natives => Gap(i, natives) = 4
           /\ i \notin natives => Gap(i, natives) = 0
BY DEF Gap, NativeArgs, NativeTemps

\* And where frames end.
LEMMA EndType ==
    ASSUME NEW fs \in Seq(Frame), NEW bases, NEW natives, FramesOK(fs, bases, natives),
           NEW i \in 0 .. Len(fs)
    PROVE  EndOf(fs, i, natives) \in Nat
<1>1. CASE i = 0
  BY <1>1 DEF EndOf
<1>2. CASE i # 0
  <2>1. i \in 1 .. Len(fs) /\ fs[i] \in Frame /\ fs[i].slots \in Int
    <3>1. i \in 1 .. Len(fs)
      BY <1>2
    <3> QED
      BY <3>1, FrameFields
  <2>2. fs[i].slots >= 0
    BY <2>1 DEF FramesOK, FrameOK
  <2>3. Height(fs[i]) \in Nat /\ Gap(i, natives) \in Nat
    BY <2>1, HeightType, GapType
  <2> QED
    BY <1>2, <2>1, <2>2, <2>3 DEF EndOf
<1> QED
  BY <1>1, <1>2

\* A call stack is laid out as long as the frames stay, the natives below the frame on
\* top stay, and no frame on top that waits becomes a base.
LEMMA OtherRuns ==
    ASSUME NEW fs \in Seq(Frame), NEW bases, NEW natives, FramesOK(fs, bases, natives),
           NEW others, NEW rest,
           fs # <<>> => ~Waiting(Last(fs).ctx) \/ Len(fs) \notin others,
           \A i \in 0 .. Len(fs) - 1 : i \in others => i \in bases,
           \A i \in 1 .. Len(fs) - 1 : i \in rest <=> i \in natives
    PROVE  FramesOK(fs, others, rest)
<1> SUFFICES ASSUME NEW i \in 1 .. Len(fs) PROVE FrameOK(fs, i, others, rest)
  BY DEF FramesOK
<1>1. FrameOK(fs, i, bases, natives) /\ Len(fs) \in Nat /\ fs # <<>>
  BY DEF FramesOK
<1>2. Waiting(fs[i].ctx) => i \notin others
  <2>1. CASE i = Len(fs)
    BY <1>1, <2>1 DEF Last
  <2>2. CASE i # Len(fs)
    BY <1>1, <2>2 DEF FrameOK
  <2> QED
    BY <2>1, <2>2
<1>3. Returning(fs[i].ctx) => i - 1 \notin others
  BY <1>1 DEF FrameOK
<1>4. EndOf(fs, i - 1, rest) = EndOf(fs, i - 1, natives)
  <2>1. CASE i = 1
    BY <2>1 DEF EndOf
  <2>2. CASE i # 1
    <3>1. i - 1 \in 1 .. Len(fs) - 1
      BY <1>1, <2>2
    <3>2. Gap(i - 1, rest) = Gap(i - 1, natives)
      BY <3>1 DEF Gap
    <3> QED
      BY <3>2 DEF EndOf
  <2> QED
    BY <2>1, <2>2
<1> QED
  BY <1>1, <1>2, <1>3, <1>4 DEF FrameOK

\* The frames below one.
LEMMA FramesBelow ==
    ASSUME NEW fs \in Seq(Frame), NEW bases, NEW natives, FramesOK(fs, bases, natives),
           NEW m \in 0 .. Len(fs)
    PROVE  /\ SubSeq(fs, 1, m) \in Seq(Frame) /\ Len(SubSeq(fs, 1, m)) = m
           /\ FramesOK(SubSeq(fs, 1, m), bases, natives)
           /\ \A i \in 0 .. m : EndOf(SubSeq(fs, 1, m), i, natives) = EndOf(fs, i, natives)
<1> DEFINE p == SubSeq(fs, 1, m)
<1>1. /\ p \in Seq(Frame) /\ Len(p) = m /\ Len(fs) \in Nat /\ m \in Nat /\ m <= Len(fs)
      /\ \A k \in 1 .. m : p[k] = fs[k]
  OBVIOUS
<1> HIDE DEF p
<1>2. ASSUME NEW i \in 0 .. m PROVE EndOf(p, i, natives) = EndOf(fs, i, natives)
  <2>1. i # 0 => p[i] = fs[i]
    BY <1>1
  <2> QED
    BY <2>1 DEF EndOf
<1>3. ASSUME NEW i \in 1 .. m PROVE FrameOK(p, i, bases, natives)
  <2>1. p[i] = fs[i] /\ i \in 1 .. Len(fs) /\ i - 1 \in 0 .. m
    BY <1>1
  <2>2. FrameOK(fs, i, bases, natives)
    BY <2>1 DEF FramesOK
  <2>3. EndOf(p, i - 1, natives) = EndOf(fs, i - 1, natives)
    BY <1>2, <2>1
  <2> QED
    BY <2>1, <2>2, <2>3 DEF FrameOK
<1>4. FramesOK(p, bases, natives)
  BY <1>1, <1>3 DEF FramesOK
<1> QED
  BY <1>1, <1>2, <1>4 DEF p

\* A frame more.
LEMMA FrameMore ==
    ASSUME NEW fs \in Seq(Frame), NEW bases, NEW natives, FramesOK(fs, bases, natives),
           NEW f \in Frame, WellFormed(f.ctx), RoundStart(f.ctx, f.locals),
           f.slots = EndOf(fs, Len(fs), natives),
           Waiting(f.ctx) => Len(fs) + 1 \notin bases,
           Returning(f.ctx) => Len(fs) \notin bases
    PROVE  /\ Append(fs, f) \in Seq(Frame) /\ Len(Append(fs, f)) = Len(fs) + 1
           /\ Append(fs, f) # <<>> /\ Last(Append(fs, f)) = f
           /\ FramesOK(Append(fs, f), bases, natives)
           /\ EndOf(Append(fs, f), Len(fs) + 1, natives) =
                  f.slots + Height(f) + Gap(Len(fs) + 1, natives)
<1> DEFINE more == Append(fs, f)
           n == Len(fs)
<1>1. /\ n \in Nat /\ more \in Seq(Frame) /\ Len(more) = n + 1 /\ more[n + 1] = f
      /\ more # <<>> /\ Last(more) = f
      /\ \A k \in 1 .. n : more[k] = fs[k]
  BY Appended
<1>2. f.slots >= 0
  BY <1>1, EndType
<1> HIDE DEF more
<1>3. ASSUME NEW i \in 0 .. n PROVE EndOf(more, i, natives) = EndOf(fs, i, natives)
  <2>1. i # 0 => more[i] = fs[i]
    BY <1>1
  <2> QED
    BY <2>1 DEF EndOf
<1>4. ASSUME NEW i \in 1 .. n + 1 PROVE FrameOK(more, i, bases, natives)
  <2>1. CASE i = n + 1
    <3>1. i - 1 = n /\ n \in 0 .. n /\ more[i] = f
      BY <1>1, <2>1
    <3>2. EndOf(more, i - 1, natives) = EndOf(fs, n, natives)
      BY <1>3, <3>1
    <3> QED
      BY <1>2, <2>1, <3>1, <3>2 DEF FrameOK
  <2>2. CASE i # n + 1
    <3>1. i \in 1 .. n /\ i - 1 \in 0 .. n /\ more[i] = fs[i]
      BY <1>1, <2>2
    <3>2. FrameOK(fs, i, bases, natives)
      BY <3>1 DEF FramesOK
    <3>3. EndOf(more, i - 1, natives) = EndOf(fs, i - 1, natives)
      BY <1>3, <3>1
    <3> QED
      BY <3>1, <3>2, <3>3 DEF FrameOK
  <2> QED
    BY <2>1, <2>2
<1>5. FramesOK(more, bases, natives)
  BY <1>1, <1>4 DEF FramesOK
<1>6. EndOf(more, n + 1, natives) = f.slots + Height(f) + Gap(n + 1, natives)
  BY <1>1 DEF EndOf
<1> QED
  BY <1>1, <1>5, <1>6 DEF more

\* The handlers of the frame on top come last.
LEMMA TopHandlers ==
    ASSUME NEW fs \in Seq(Frame), fs # <<>>
    PROVE  /\ Front(fs) \in Seq(Frame) /\ Len(Front(fs)) = Len(fs) - 1
           /\ Len(fs) \in Nat \ {0} /\ Last(fs) = fs[Len(fs)] /\ Last(fs) \in Frame
           /\ Front(fs) = SubSeq(fs, 1, Len(fs) - 1)
           /\ AllHandlers(fs) =
                  AllHandlers(Front(fs)) \o CtxHandlers(Len(fs), Last(fs).slots, Last(fs).ctx)
<1>1. /\ Front(fs) \in Seq(Frame) /\ Len(Front(fs)) = Len(fs) - 1
      /\ Len(fs) \in Nat \ {0} /\ Last(fs) = fs[Len(fs)] /\ Last(fs) \in Frame
      /\ Front(fs) = SubSeq(fs, 1, Len(fs) - 1)
  BY FrontLast DEF Front
<1> DEFINE n == Len(fs)
<1>2. n \in 1 .. Len(fs) /\ \A k \in n + 1 .. Len(fs) : CtxHandlers(k, fs[k].slots, fs[k].ctx) = <<>>
  BY <1>1
<1> HIDE DEF n
<1>3. AllHandlers(fs) = AllHandlers(SubSeq(fs, 1, n - 1)) \o CtxHandlers(n, fs[n].slots, fs[n].ctx)
  BY <1>2, AllUpTo
<1> QED
  BY <1>1, <1>3 DEF n

\* The frame on top moves on.
LEMMA Replaced ==
    ASSUME NEW fs \in Seq(Frame), fs # <<>>,
           NEW bases, NEW natives, FramesOK(fs, bases, natives),
           NEW f \in Frame, f.slots = Last(fs).slots, WellFormed(f.ctx), RoundStart(f.ctx, f.locals),
           Waiting(f.ctx) => Len(fs) \notin bases,
           Returning(f.ctx) => Len(fs) - 1 \notin bases
    PROVE  LET moved == Append(Front(fs), f)
           IN  /\ moved \in Seq(Frame) /\ Len(moved) = Len(fs)
               /\ moved # <<>> /\ Last(moved) = f
               /\ FramesOK(moved, bases, natives)
               /\ EndOf(moved, Len(fs), natives) = f.slots + Height(f) + Gap(Len(fs), natives)
               /\ AllHandlers(moved) =
                      AllHandlers(Front(fs)) \o CtxHandlers(Len(fs), f.slots, f.ctx)
<1> DEFINE p == Front(fs)
           n == Len(fs)
<1>1. /\ p \in Seq(Frame) /\ Len(p) = n - 1 /\ n \in Nat \ {0}
      /\ Last(fs) = fs[n] /\ p = SubSeq(fs, 1, n - 1)
  BY TopHandlers
<1>2. FramesOK(p, bases, natives) /\ EndOf(p, n - 1, natives) = EndOf(fs, n - 1, natives)
  <2>1. n - 1 \in 0 .. Len(fs) /\ n - 1 \in 0 .. n - 1
    BY <1>1
  <2> HIDE DEF n
  <2>2. /\ FramesOK(SubSeq(fs, 1, n - 1), bases, natives)
        /\ \A i \in 0 .. n - 1 :
              EndOf(SubSeq(fs, 1, n - 1), i, natives) = EndOf(fs, i, natives)
    BY <2>1, FramesBelow
  <2> QED
    BY <1>1, <2>1, <2>2
<1>3. f.slots = EndOf(p, Len(p), natives)
  <2>1. n \in 1 .. Len(fs)
    BY <1>1
  <2>2. fs[n].slots = EndOf(fs, n - 1, natives)
    BY <2>1 DEF FramesOK, FrameOK
  <2> QED
    BY <1>1, <1>2, <2>2
<1>4. /\ Len(p) + 1 = n /\ Len(p) = n - 1
      /\ Waiting(f.ctx) => Len(p) + 1 \notin bases
      /\ Returning(f.ctx) => Len(p) \notin bases
  BY <1>1
<1> HIDE DEF p
<1>5. /\ Append(p, f) \in Seq(Frame) /\ Len(Append(p, f)) = Len(p) + 1
      /\ Append(p, f) # <<>> /\ Last(Append(p, f)) = f
      /\ FramesOK(Append(p, f), bases, natives)
      /\ EndOf(Append(p, f), Len(p) + 1, natives) = f.slots + Height(f) + Gap(Len(p) + 1, natives)
  BY <1>1, <1>2, <1>3, <1>4, FrameMore
<1>6. AllHandlers(Append(p, f)) = AllHandlers(p) \o CtxHandlers(Len(p) + 1, f.slots, f.ctx)
  BY <1>1, AllMore
<1> QED
  BY <1>4, <1>5, <1>6 DEF p

-----------------------------------------------------------------------------
(* Entering and leaving constructs.                                        *)

\* A construct that is not between two rounds.
Still(ctx) == ctx # <<>> => Last(ctx).phase \notin {"start", "next"}

\* What each construct owns in its phase.
LEMMA OwnedCases ==
    ASSUME NEW fc, NEW slots, NEW outer, NEW c \in Construct
    PROVE  LET top == StartOf(slots, outer, c)
           IN  /\ IsTry(c) => c.phase \in {"body", "catch", "finally"}
               /\ IsTry(c) /\ c.phase = "body" /\ c.catch =>
                      Owned(fc, slots, outer, c) =
                          << FinallyHandler(fc, top, outer, Entered(c)),
                             CatchHandler(fc, top, outer, Entered(c)) >>
               /\ IsTry(c) /\ c.phase = "body" /\ ~c.catch =>
                      Owned(fc, slots, outer, c) = << FinallyHandler(fc, top, outer, Entered(c)) >>
               /\ IsTry(c) /\ c.phase = "catch" =>
                      Owned(fc, slots, outer, c) = << FinallyHandler(fc, top, outer, Entered(c)) >>
               /\ c.phase = "next" =>
                      Owned(fc, slots, outer, c) = << LoopHandler(fc, top, outer, c) >>
               /\ c.phase = "finally" => Owned(fc, slots, outer, c) = <<>>
               /\ ~IsTry(c) /\ c.phase # "next" => Owned(fc, slots, outer, c) = <<>>
<1>1. /\ IsTry(c) => c.phase \in {"body", "catch", "finally"}
      /\ c.phase = "next" => ~IsTry(c)
  BY DEF Construct, IsTry
<1>2. Entered(c).catch = c.catch
  BY DEF Entered, Construct
<1> QED
  BY <1>1, <1>2 DEF Owned, TryHandlers

\* A construct that starts, or moves to another block.
LEMMA EntersWell ==
    ASSUME NEW ctx \in Seq(Construct), NEW c \in Construct,
           WellFormed(ctx), Still(ctx),
           c.phase \in {"catch", "finally"} => IsTry(c),
           c.phase = "finally" /\ c.tag = "return" =>
               \A i \in 1 .. Len(ctx) : IsTry(ctx[i]) => ctx[i].phase = "finally"
    PROVE  WellFormed(Append(ctx, c))
<1> DEFINE more == Append(ctx, c)
           n == Len(ctx)
<1>1. /\ n \in Nat /\ Len(more) = n + 1 /\ more[n + 1] = c
      /\ \A k \in 1 .. n : more[k] = ctx[k]
  BY Appended
<1>2. n # 0 => ctx[n].phase \notin {"start", "next"}
  BY EmptyLen DEF Still, Last
<1> HIDE DEF more, n
<1>3. \A j \in 1 .. n : ctx[j].phase \notin {"start", "next"}
  <2> SUFFICES ASSUME NEW j \in 1 .. n PROVE ctx[j].phase \notin {"start", "next"}
    OBVIOUS
  <2>1. CASE j = n
    BY <1>1, <1>2, <2>1
  <2>2. CASE j # n
    <3>1. j \in 1 .. Len(ctx) - 1
      BY <1>1, <2>2 DEF n
    <3> QED
      BY <3>1 DEF WellFormed
  <2> QED
    BY <2>1, <2>2
<1>4. \A j \in 1 .. Len(more) - 1 : more[j].phase \notin {"start", "next"}
  BY <1>1, <1>3
<1>5. \A j \in 1 .. Len(more) : more[j].phase \in {"catch", "finally"} => IsTry(more[j])
  <2> SUFFICES ASSUME NEW j \in 1 .. n + 1, more[j].phase \in {"catch", "finally"}
               PROVE  IsTry(more[j])
    BY <1>1
  <2>1. CASE j = n + 1
    BY <1>1, <2>1
  <2>2. CASE j # n + 1
    <3>1. j \in 1 .. Len(ctx) /\ more[j] = ctx[j]
      BY <1>1, <2>2 DEF n
    <3> QED
      BY <3>1 DEF WellFormed
  <2> QED
    BY <2>1, <2>2
<1>6. ASSUME NEW i \in 1 .. Len(more), NEW j \in 1 .. Len(more),
             i < j, ReturnsAt(more, j), IsTry(more[i])
      PROVE  more[i].phase = "finally"
  <2>1. i \in 1 .. Len(ctx) /\ more[i] = ctx[i]
    BY <1>1, <1>6 DEF n
  <2>2. CASE j = n + 1
    BY <1>1, <1>6, <2>1, <2>2 DEF ReturnsAt
  <2>3. CASE j # n + 1
    <3>1. j \in 1 .. Len(ctx) /\ more[j] = ctx[j]
      BY <1>1, <2>3 DEF n
    <3>2. ReturnsAt(ctx, j)
      BY <1>6, <3>1 DEF ReturnsAt
    <3> QED
      BY <1>6, <2>1, <3>1, <3>2 DEF WellFormed
  <2> QED
    BY <2>2, <2>3
<1>7. WellFormed(more)
  BY <1>4, <1>5, <1>6 DEF WellFormed
<1> QED
  BY <1>7 DEF more

\* A context left down to one of its points.
LEMMA LeavesWell ==
    ASSUME NEW ctx \in Seq(Construct), WellFormed(ctx), NEW m \in 0 .. Len(ctx) - 1
    PROVE  /\ SubSeq(ctx, 1, m) \in Seq(Construct)
           /\ WellFormed(SubSeq(ctx, 1, m)) /\ Still(SubSeq(ctx, 1, m))
           /\ Returning(SubSeq(ctx, 1, m)) => Returning(ctx)
<1> DEFINE p == SubSeq(ctx, 1, m)
<1>1. /\ p \in Seq(Construct) /\ Len(p) = m /\ Len(ctx) \in Nat /\ m \in Nat /\ m < Len(ctx)
      /\ \A k \in 1 .. m : p[k] = ctx[k]
  OBVIOUS
<1> HIDE DEF p
<1>2. ASSUME NEW j \in 1 .. m PROVE p[j].phase \notin {"start", "next"}
  <2>1. j \in 1 .. Len(ctx) - 1 /\ p[j] = ctx[j]
    BY <1>1
  <2> QED
    BY <2>1 DEF WellFormed
<1>3. ASSUME NEW j \in 1 .. m, p[j].phase \in {"catch", "finally"} PROVE IsTry(p[j])
  <2>1. j \in 1 .. Len(ctx) /\ p[j] = ctx[j]
    BY <1>1
  <2> QED
    BY <1>3, <2>1 DEF WellFormed
<1>4. ASSUME NEW i \in 1 .. m, NEW j \in 1 .. m, i < j, ReturnsAt(p, j), IsTry(p[i])
      PROVE  p[i].phase = "finally"
  <2>1. i \in 1 .. Len(ctx) /\ j \in 1 .. Len(ctx) /\ p[i] = ctx[i] /\ p[j] = ctx[j]
    BY <1>1
  <2>2. ReturnsAt(ctx, j)
    BY <1>4, <2>1 DEF ReturnsAt
  <2> QED
    BY <1>4, <2>1, <2>2 DEF WellFormed
<1>5. WellFormed(p)
  BY <1>1, <1>2, <1>3, <1>4 DEF WellFormed
<1>6. Still(p)
  <2> SUFFICES ASSUME p # <<>> PROVE Last(p).phase \notin {"start", "next"}
    BY DEF Still
  <2>1. m \in 1 .. m /\ Last(p) = p[m]
    BY <1>1, EmptyLen DEF Last
  <2> QED
    BY <1>2, <2>1
<1>7. ASSUME Returning(p) PROVE Returning(ctx)
  <2>1. PICK j \in 1 .. m : ReturnsAt(p, j)
    BY <1>1, <1>7 DEF Returning
  <2>2. j \in 1 .. Len(ctx) /\ p[j] = ctx[j]
    BY <1>1
  <2> QED
    BY <2>1, <2>2 DEF Returning, ReturnsAt
<1> QED
  BY <1>1, <1>5, <1>6, <1>7 DEF p

\* Returns on their way in a context with one construct more.
LEMMA ReturningMore ==
    ASSUME NEW ctx \in Seq(Construct), NEW c \in Construct, Returning(Append(ctx, c))
    PROVE  Returning(ctx) \/ (c.phase = "finally" /\ c.tag = "return")
<1> DEFINE more == Append(ctx, c)
           n == Len(ctx)
<1>1. /\ n \in Nat /\ Len(more) = n + 1 /\ more[n + 1] = c
      /\ \A k \in 1 .. n : more[k] = ctx[k]
  BY Appended
<1>2. PICK j \in 1 .. Len(more) : ReturnsAt(more, j)
  BY DEF Returning
<1> HIDE DEF more, n
<1>3. CASE j = n + 1
  BY <1>1, <1>2, <1>3 DEF ReturnsAt
<1>4. CASE j # n + 1
  <2>1. j \in 1 .. Len(ctx) /\ more[j] = ctx[j]
    BY <1>1, <1>4 DEF n
  <2> QED
    BY <1>2, <2>1 DEF Returning, ReturnsAt
<1> QED
  BY <1>3, <1>4

\* The innermost construct of a context.
LEMMA InnermostConstruct ==
    ASSUME NEW fc \in Nat, NEW slots \in Int, NEW ctx \in Seq(Construct), ctx # <<>>
    PROVE  /\ Front(ctx) \in Seq(Construct) /\ Last(ctx) \in Construct
           /\ Len(ctx) \in Nat \ {0} /\ Last(ctx) = ctx[Len(ctx)]
           /\ Front(ctx) = SubSeq(ctx, 1, Len(ctx) - 1)
           /\ ctx = Append(Front(ctx), Last(ctx))
           /\ Finallys(ctx) = Finallys(Front(ctx)) + IF Last(ctx).phase = "finally" THEN 1 ELSE 0
           /\ Finallys(Front(ctx)) \in Nat
           /\ CtxHandlers(fc, slots, ctx) =
                  CtxHandlers(fc, slots, Front(ctx)) \o Owned(fc, slots, Front(ctx), Last(ctx))
<1>1. /\ Front(ctx) \in Seq(Construct) /\ Last(ctx) \in Construct
      /\ Len(ctx) \in Nat \ {0} /\ Last(ctx) = ctx[Len(ctx)]
      /\ Front(ctx) = SubSeq(ctx, 1, Len(ctx) - 1)
  BY FrontLast DEF Front
<1>2. ctx = Append(Front(ctx), Last(ctx))
  BY <1>1
<1> DEFINE p == Front(ctx)
           c == Last(ctx)
<1> HIDE DEF p, c
<1>3. p \in Seq(Construct) /\ c \in Construct
  BY <1>1 DEF p, c
<1>4. /\ Finallys(Append(p, c)) = Finallys(p) + IF c.phase = "finally" THEN 1 ELSE 0
      /\ Finallys(p) \in Nat
  BY <1>3, FinallysOf
<1>5. CtxHandlers(fc, slots, Append(p, c)) = CtxHandlers(fc, slots, p) \o Owned(fc, slots, p, c)
  BY <1>3, CtxMore
<1> QED
  BY <1>1, <1>2, <1>4, <1>5 DEF p, c

\* A frame whose tries have all come to their finally blocks owns nothing.
LEMMA OwnsNothing ==
    ASSUME NEW fc \in Nat, NEW slots \in Int, NEW ctx \in Seq(Construct),
           WellFormed(ctx), ~Waiting(ctx),
           \A j \in 1 .. Len(ctx) : IsTry(ctx[j]) => ctx[j].phase = "finally"
    PROVE  CtxHandlers(fc, slots, ctx) = <<>>
<1>1. ASSUME NEW j \in 1 .. Len(ctx)
      PROVE  Owned(fc, slots, Around(ctx, j), ctx[j]) = <<>>
  <2>1. ctx[j] \in Construct /\ Len(ctx) \in Nat /\ ctx # <<>>
    OBVIOUS
  <2>2. ctx[j].phase # "next"
    <3>1. CASE j = Len(ctx)
      BY <2>1, <3>1 DEF Waiting, Last
    <3>2. CASE j # Len(ctx)
      <4>1. j \in 1 .. Len(ctx) - 1
        BY <2>1, <3>2
      <4> QED
        BY <4>1 DEF WellFormed
    <3> QED
      BY <3>1, <3>2
  <2>3. ~IsTry(ctx[j]) \/ ctx[j].phase = "finally"
    OBVIOUS
  <2> QED
    BY <2>1, <2>2, <2>3, OwnedCases
<1>2. 0 \in 0 .. Len(ctx) /\ SubSeq(ctx, 1, 0) = <<>>
  OBVIOUS
<1>3. \A j \in 0 + 1 .. Len(ctx) : Owned(fc, slots, Around(ctx, j), ctx[j]) = <<>>
  BY <1>1
<1>4. CtxHandlers(fc, slots, ctx) = CtxHandlers(fc, slots, SubSeq(ctx, 1, 0))
  BY <1>2, <1>3, CtxPrefix
<1> QED
  BY <1>2, <1>4, CtxEmpty

-----------------------------------------------------------------------------
(* The frames that called through C.                                       *)

\* The base of the innermost run() is the last one.
LEMMA LastBase ==
    ASSUME NEW rs, RunStack(rs), rs # <<>>
    PROVE  /\ Last(rs).base \in Bases(rs)
           /\ \A b \in Bases(rs) : b \in Nat /\ b <= Last(rs).base
           /\ NativeBases(rs) \subseteq Bases(rs)
           /\ Last(rs).kind = "native" => Last(rs).base \in NativeBases(rs)
<1>1. /\ rs \in Seq(Run) /\ Len(rs) \in Nat /\ Len(rs) > 0 /\ Last(rs) = rs[Len(rs)]
  BY FrontLast DEF RunStack
<1>2. Len(rs) \in 1 .. Len(rs)
  BY <1>1
<1>3. ASSUME NEW k \in 1 .. Len(rs) PROVE rs[k].base \in Nat /\ rs[k].base <= rs[Len(rs)].base
  <2>1. rs[k] \in Run /\ rs[Len(rs)] \in Run
    BY <1>1, <1>2
  <2>2. rs[k].base \in Nat /\ rs[Len(rs)].base \in Nat
    BY <2>1 DEF Run
  <2>3. CASE k = Len(rs)
    BY <2>2, <2>3
  <2>4. CASE k # Len(rs)
    <3>1. k < Len(rs)
      BY <1>1, <2>4
    <3>2. rs[k].base < rs[Len(rs)].base
      BY <1>2, <3>1 DEF RunStack
    <3> QED
      BY <2>2, <3>2
  <2> QED
    BY <2>3, <2>4
<1> QED
  BY <1>1, <1>2, <1>3 DEF Bases, NativeBases

\* A run() that starts.
LEMMA BasesPushed ==
    ASSUME NEW rs \in Seq(Run), NEW r \in Run
    PROVE  /\ Bases(Append(rs, r)) = Bases(rs) \cup {r.base}
           /\ NativeBases(Append(rs, r)) =
                  NativeBases(rs) \cup IF r.kind = "native" THEN {r.base} ELSE {}
<1> DEFINE more == Append(rs, r)
           n == Len(rs)
<1>1. /\ n \in Nat /\ Len(more) = n + 1 /\ more[n + 1] = r
      /\ \A k \in 1 .. n : more[k] = rs[k]
  BY Appended
<1> HIDE DEF more
<1>2. \A k \in 1 .. n + 1 : k = n + 1 \/ k \in 1 .. n
  BY <1>1
<1>3. \A k \in 1 .. n : k \in 1 .. n + 1
  BY <1>1
<1>4. n + 1 \in 1 .. n + 1
  BY <1>1
<1> HIDE DEF n
<1>5. Bases(more) = {rs[k].base : k \in 1 .. n} \cup {r.base}
  BY <1>1, <1>2, <1>3, <1>4 DEF Bases
<1>6. NativeBases(more) = NativeBases(rs) \cup IF r.kind = "native" THEN {r.base} ELSE {}
  BY <1>1, <1>2, <1>3, <1>4 DEF NativeBases, n
<1> QED
  BY <1>5, <1>6 DEF more, n, Bases

\* A run() that is over.
LEMMA BasesPopped ==
    ASSUME NEW rs, RunStack(rs), rs # <<>>
    PROVE  /\ Bases(Front(rs)) \subseteq Bases(rs)
           /\ NativeBases(Front(rs)) \subseteq NativeBases(rs)
           /\ Last(rs).base \notin Bases(Front(rs))
           /\ Last(rs).base \notin NativeBases(Front(rs))
           /\ \A i : i # Last(rs).base => (i \in NativeBases(Front(rs)) <=> i \in NativeBases(rs))
           /\ Last(rs).kind # "native" => NativeBases(Front(rs)) = NativeBases(rs)
<1> DEFINE p == Front(rs)
           n == Len(rs)
<1>1. /\ rs \in Seq(Run) /\ n \in Nat /\ n > 0 /\ Last(rs) = rs[n]
      /\ Len(p) = n - 1 /\ \A k \in 1 .. n - 1 : p[k] = rs[k]
  BY FrontLast DEF RunStack
<1> HIDE DEF p
<1>2. /\ \A k \in 1 .. n : k = n \/ k \in 1 .. n - 1
      /\ \A k \in 1 .. n - 1 : k \in 1 .. n
      /\ n \in 1 .. n
  BY <1>1
<1>3. ASSUME NEW k \in 1 .. n - 1 PROVE rs[k].base # rs[n].base
  <2>1. rs[k] \in Run /\ rs[n] \in Run /\ k < n /\ k \in 1 .. Len(rs) /\ n \in 1 .. Len(rs)
    BY <1>1, <1>2
  <2>2. rs[k].base \in Nat /\ rs[n].base \in Nat
    BY <2>1 DEF Run
  <2>3. rs[k].base < rs[n].base
    BY <2>1 DEF RunStack
  <2> QED
    BY <2>2, <2>3
<1>4. Bases(p) = {rs[k].base : k \in 1 .. n - 1}
  BY <1>1 DEF Bases
<1>5. NativeBases(p) = {rs[k].base : k \in {m \in 1 .. n - 1 : rs[m].kind = "native"}}
  BY <1>1 DEF NativeBases
<1> HIDE DEF n
<1>6. Bases(rs) = {rs[k].base : k \in 1 .. n}
  BY DEF Bases, n
<1>7. NativeBases(rs) = {rs[k].base : k \in {m \in 1 .. n : rs[m].kind = "native"}}
  BY DEF NativeBases, n
<1>8. Bases(p) \subseteq Bases(rs) /\ NativeBases(p) \subseteq NativeBases(rs)
  BY <1>2, <1>4, <1>5, <1>6, <1>7
<1>9. rs[n].base \notin Bases(p) /\ rs[n].base \notin NativeBases(p)
  BY <1>3, <1>4, <1>5
<1>10. \A i : i \in NativeBases(rs) =>
              i \in NativeBases(p) \/ (i = rs[n].base /\ rs[n].kind = "native")
  BY <1>2, <1>5, <1>7
<1> QED
  BY <1>1, <1>8, <1>9, <1>10 DEF p

\* A run() gives the stack back to a frame that stays as it was.
LEMMA SavedBelow ==
    ASSUME NEW fs, NEW gs, NEW rs, SavedOK(fs, rs),
           \A b \in Bases(rs) : b = 0 \/ gs[b] = fs[b]
    PROVE  SavedOK(gs, rs)
<1> SUFFICES ASSUME NEW k \in 1 .. Len(rs)
             PROVE  rs[k].savedTop = EndOf(gs, rs[k].base, NativeBases(rs))
  BY DEF SavedOK
<1> DEFINE b == rs[k].base
<1>1. b \in Bases(rs) /\ rs[k].savedTop = EndOf(fs, b, NativeBases(rs))
  BY DEF Bases, SavedOK
<1> HIDE DEF b
<1>2. EndOf(gs, b, NativeBases(rs)) = EndOf(fs, b, NativeBases(rs))
  BY <1>1 DEF EndOf
<1> QED
  BY <1>1, <1>2 DEF b

\* Above the last base, frames come, go and move.
LEMMA SavedAbove ==
    ASSUME NEW fs, NEW gs, NEW rs, SavedOK(fs, rs), NEW m \in Nat,
           \A b \in Bases(rs) : b \in Nat /\ b <= m,
           \A i \in 1 .. m : gs[i] = fs[i]
    PROVE  SavedOK(gs, rs)
<1>1. \A b \in Bases(rs) : b = 0 \/ b \in 1 .. m
  OBVIOUS
<1> QED
  BY <1>1, SavedBelow

\* A run() that is over.
LEMMA SavedPopped ==
    ASSUME NEW fs, NEW rs, RunStack(rs), rs # <<>>, SavedOK(fs, rs)
    PROVE  /\ SavedOK(fs, Front(rs))
           /\ Last(rs).savedTop = EndOf(fs, Last(rs).base, NativeBases(rs))
<1> DEFINE p == Front(rs)
           n == Len(rs)
<1>1. /\ n \in Nat /\ n > 0 /\ Last(rs) = rs[n]
      /\ Len(p) = n - 1 /\ \A k \in 1 .. n - 1 : p[k] = rs[k]
  BY FrontLast DEF RunStack
<1>2. Last(rs).base \notin Bases(p)
      /\ \A i : i # Last(rs).base => (i \in NativeBases(p) <=> i \in NativeBases(rs))
  BY BasesPopped
<1> HIDE DEF p
<1>3. Last(rs).savedTop = EndOf(fs, Last(rs).base, NativeBases(rs))
  <2>1. n \in 1 .. n
    BY <1>1
  <2> QED
    BY <1>1, <2>1 DEF SavedOK
<1>4. ASSUME NEW k \in 1 .. Len(p) PROVE p[k].savedTop = EndOf(fs, p[k].base, NativeBases(p))
  <2> DEFINE b == p[k].base
  <2>1. p[k] = rs[k] /\ k \in 1 .. n
    BY <1>1
  <2>2. p[k].savedTop = EndOf(fs, b, NativeBases(rs))
    BY <2>1 DEF SavedOK
  <2>3. b \in Bases(p)
    BY DEF Bases
  <2> HIDE DEF b
  <2>4. Gap(b, NativeBases(p)) = Gap(b, NativeBases(rs))
    BY <1>2, <2>3 DEF Gap
  <2>5. EndOf(fs, b, NativeBases(p)) = EndOf(fs, b, NativeBases(rs))
    BY <2>4 DEF EndOf
  <2> QED
    BY <2>2, <2>5 DEF b
<1> QED
  BY <1>3, <1>4 DEF SavedOK, p

\* A run() that starts.
LEMMA SavedPushed ==
    ASSUME NEW fs, NEW rs \in Seq(Run), NEW r \in Run, SavedOK(fs, rs), r.base \notin Bases(rs),
           r.savedTop = EndOf(fs, r.base, NativeBases(Append(rs, r)))
    PROVE  SavedOK(fs, Append(rs, r))
<1> DEFINE q == Append(rs, r)
           n == Len(rs)
<1>1. /\ n \in Nat /\ Len(q) = n + 1 /\ q[n + 1] = r
      /\ \A k \in 1 .. n : q[k] = rs[k]
  BY Appended
<1>2. NativeBases(q) = NativeBases(rs) \cup IF r.kind = "native" THEN {r.base} ELSE {}
  BY BasesPushed
<1>3. r.savedTop = EndOf(fs, r.base, NativeBases(q))
  OBVIOUS
<1> HIDE DEF q
<1>4. ASSUME NEW k \in 1 .. n PROVE q[k].savedTop = EndOf(fs, q[k].base, NativeBases(q))
  <2> DEFINE b == rs[k].base
  <2>1. q[k] = rs[k] /\ q[k].savedTop = EndOf(fs, b, NativeBases(rs))
    BY <1>1 DEF SavedOK
  <2>2. b \in Bases(rs)
    BY DEF Bases
  <2>3. b # r.base
    BY <2>2
  <2> HIDE DEF b
  <2>4. Gap(b, NativeBases(q)) = Gap(b, NativeBases(rs))
    BY <1>2, <2>3 DEF Gap
  <2>5. EndOf(fs, b, NativeBases(q)) = EndOf(fs, b, NativeBases(rs))
    BY <2>4 DEF EndOf
  <2> QED
    BY <2>1, <2>5 DEF b
<1>5. \A k \in 1 .. n + 1 : k \in 1 .. n \/ k = n + 1
  BY <1>1
<1> QED
  BY <1>1, <1>3, <1>4, <1>5 DEF SavedOK, q

-----------------------------------------------------------------------------
(* Steps that several actions share.                                       *)

\* A state in which the stacks fit together.
LEMMA StepDone ==
    ASSUME NEW fs, NEW rs, frames' = fs, runs' = rs,
           FramesOK(fs, Bases(rs), NativeBases(rs)), SavedOK(fs, rs),
           ~Waiting(Last(fs).ctx),
           handlers' = AllHandlers(fs),
           mode' \in {"exec", "unwind", "native"},
           mode' # "unwind" => stackTop' = EndOf(fs, Len(fs), NativeBases(rs))
    PROVE  SafeStep
<1>1. LiveInv'
  BY DEF LiveInv, Ctx, Top
<1>2. RestInv'
  BY DEF RestInv
<1> QED
  BY <1>1, <1>2 DEF SafeInv, SafeStep

\* A program that is over, or about to be.
LEMMA Stopped ==
    ASSUME mode' \in {"idle", "error", "exited"}, handlers' = <<>>, stackTop' = 0,
           mode' = "error" => ~pendingUnwind'
    PROVE  SafeStep
<1>1. RestInv'
  BY DEF RestInv
<1> QED
  BY <1>1 DEF SafeInv, SafeStep

\* An error no handler can catch.
LEMMA ErrorDone ==
    ASSUME NEW rs, HardErrorUnder(rs)
    PROVE  SafeStep
<1>1. mode' = "error" /\ handlers' = <<>> /\ stackTop' = 0 /\ ~pendingUnwind'
  BY DEF HardErrorUnder, ResetStack
<1> QED
  BY <1>1, Stopped

\* What the invariant says of the frame on top while a run() executes or unwinds.
LEMMA OnTop ==
    ASSUME Inv, SafeInv, mode \in {"exec", "unwind"}
    PROVE  /\ FramesOK(frames, Bases(runs), NativeBases(runs))
           /\ Base \in Nat /\ Base \in Bases(runs)
           /\ \A b \in Bases(runs) : b \in Nat /\ b <= Base
           /\ NativeBases(runs) \subseteq Bases(runs)
           /\ Len(frames) \in Nat \ {0} /\ Len(frames) > Base
           /\ Len(frames) \notin Bases(runs) /\ Gap(Len(frames), NativeBases(runs)) = 0
           /\ frames \in Seq(Frame) /\ frames # <<>>
           /\ Top \in Frame /\ Top = frames[Len(frames)] /\ Top.slots \in Nat /\ Top.locals \in Nat
           /\ Len(frames) \in Nat /\ Top.slots \in Int
           /\ Top.slots = EndOf(frames, Len(frames) - 1, NativeBases(runs))
           /\ Ctx \in Seq(Construct) /\ WellFormed(Ctx) /\ RoundStart(Ctx, Top.locals) /\ ~Waiting(Ctx)
           /\ Returning(Ctx) => Len(frames) - 1 # Base
           /\ Finallys(Ctx) \in Nat
           /\ handlers = AllHandlers(frames)
           /\ handlers = AllHandlers(Front(frames)) \o CtxHandlers(Len(frames), Top.slots, Ctx)
           /\ AllHandlers(Front(frames)) \in Seq(Handler)
           /\ mode = "exec" => stackTop = Top.slots + Top.locals + 2 * Finallys(Ctx)
           /\ SavedOK(frames, runs)
<1>1. /\ RunStack(runs) /\ runs # <<>> /\ Base \in Nat /\ Len(frames) \in Nat /\ Len(frames) > Base
      /\ frames \in Seq(Frame) /\ frames # <<>>
      /\ Top \in Frame /\ Ctx \in Seq(Construct)
      /\ Top.slots \in Int /\ Top.locals \in Nat
  BY Running
<1>2. /\ FramesOK(frames, Bases(runs), NativeBases(runs)) /\ ~Waiting(Ctx)
      /\ handlers = AllHandlers(frames) /\ SavedOK(frames, runs)
      /\ mode = "exec" => stackTop = EndOf(frames, Len(frames), NativeBases(runs))
  BY DEF SafeInv, LiveInv
<1>3. /\ Base \in Bases(runs) /\ \A b \in Bases(runs) : b \in Nat /\ b <= Base
      /\ NativeBases(runs) \subseteq Bases(runs)
  BY <1>1, LastBase DEF Base
<1>4. Len(frames) \notin Bases(runs) /\ Len(frames) \notin NativeBases(runs)
  BY <1>1, <1>3
<1>5. Gap(Len(frames), NativeBases(runs)) = 0
  BY <1>4, GapType
<1>6. Top = frames[Len(frames)] /\ Len(frames) \in 1 .. Len(frames)
  BY <1>1, FrontLast DEF Top
<1>7. FrameOK(frames, Len(frames), Bases(runs), NativeBases(runs))
  BY <1>2, <1>6 DEF FramesOK
<1>8. /\ WellFormed(Ctx) /\ RoundStart(Ctx, Top.locals) /\ (Returning(Ctx) => Len(frames) - 1 \notin Bases(runs))
      /\ Top.slots >= 0 /\ Top.slots = EndOf(frames, Len(frames) - 1, NativeBases(runs))
  BY <1>6, <1>7 DEF FrameOK, Ctx
<1>9. Finallys(Ctx) \in Nat /\ Height(Top) = Top.locals + 2 * Finallys(Ctx)
  BY <1>1, HeightType DEF Ctx
<1>10. mode = "exec" => stackTop = Top.slots + Top.locals + 2 * Finallys(Ctx)
  <2>1. EndOf(frames, Len(frames), NativeBases(runs)) = Top.slots + Height(Top) + 0
    BY <1>1, <1>5, <1>6 DEF EndOf
  <2> QED
    BY <1>1, <1>2, <1>9, <2>1
<1>11. /\ handlers = AllHandlers(Front(frames)) \o CtxHandlers(Len(frames), Top.slots, Ctx)
       /\ AllHandlers(Front(frames)) \in Seq(Handler)
  <2>1. /\ Front(frames) \in Seq(Frame)
        /\ AllHandlers(frames) =
               AllHandlers(Front(frames)) \o CtxHandlers(Len(frames), Last(frames).slots, Last(frames).ctx)
    BY <1>1, TopHandlers
  <2>2. AllHandlers(Front(frames)) \in Seq(Handler)
    BY <2>1, FramesOwned
  <2> QED
    BY <1>2, <2>1, <2>2 DEF Top, Ctx
<1>12. Top.slots \in Nat /\ Len(frames) \in Nat \ {0}
  BY <1>1, <1>8
<1>13. Returning(Ctx) => Len(frames) - 1 # Base
  BY <1>3, <1>8
<1> QED
  BY <1>1, <1>2, <1>3, <1>4, <1>5, <1>6, <1>8, <1>9, <1>10, <1>11, <1>12, <1>13

\* The frame on top goes on at another point of its function.
LEMMA Moved ==
    ASSUME Inv, SafeInv, mode = "exec", NEW n \in Nat, NEW ctx \in Seq(Construct),
           frames' = TopAt(n, ctx), UNCHANGED <<runs, mode>>,
           WellFormed(ctx), RoundStart(ctx, n), ~Waiting(ctx),
           Returning(ctx) => Len(frames) - 1 # Base,
           stackTop' = Top.slots + n + 2 * Finallys(ctx),
           handlers' = AllHandlers(Front(frames)) \o CtxHandlers(Len(frames), Top.slots, ctx)
    PROVE  SafeStep
<1> DEFINE f == [slots |-> Top.slots, locals |-> n, ctx |-> ctx]
           moved == Append(Front(frames), f)
<1>1. /\ FramesOK(frames, Bases(runs), NativeBases(runs))
      /\ Base \in Nat /\ \A b \in Bases(runs) : b \in Nat /\ b <= Base
      /\ Len(frames) \in Nat \ {0} /\ Len(frames) > Base
      /\ Len(frames) \notin Bases(runs) /\ Gap(Len(frames), NativeBases(runs)) = 0
      /\ frames \in Seq(Frame) /\ frames # <<>> /\ Top.slots \in Nat
      /\ SavedOK(frames, runs)
  BY OnTop
<1>2. /\ f \in Frame /\ f.slots = Top.slots /\ f.locals = n /\ f.ctx = ctx
  BY <1>1 DEF Frame
<1>3. frames' = moved
  BY DEF TopAt, WithTop
<1> HIDE DEF f
<1>4. Height(f) = n + 2 * Finallys(ctx) /\ Finallys(ctx) \in Nat
  BY <1>2, HeightType
<1>5. /\ f.slots = Last(frames).slots /\ WellFormed(f.ctx) /\ RoundStart(f.ctx, f.locals)
      /\ Waiting(f.ctx) => Len(frames) \notin Bases(runs)
      /\ Returning(f.ctx) => Len(frames) - 1 \notin Bases(runs)
  <2>1. f.slots = Last(frames).slots
    BY <1>2 DEF Top
  <2>2. Len(frames) - 1 # Base => Len(frames) - 1 \notin Bases(runs)
    BY <1>1
  <2> QED
    BY <1>1, <1>2, <2>1, <2>2
<1>6. /\ moved \in Seq(Frame) /\ Len(moved) = Len(frames)
      /\ Last(moved) = f
      /\ FramesOK(moved, Bases(runs), NativeBases(runs))
      /\ EndOf(moved, Len(frames), NativeBases(runs)) =
             f.slots + Height(f) + Gap(Len(frames), NativeBases(runs))
      /\ AllHandlers(moved) = AllHandlers(Front(frames)) \o CtxHandlers(Len(frames), f.slots, f.ctx)
  BY <1>1, <1>2, <1>5, Replaced
<1>10. SavedOK(moved, runs)
  <2>1. /\ Front(frames) \in Seq(Frame) /\ Len(Front(frames)) = Len(frames) - 1
        /\ \A i \in 1 .. Len(frames) - 1 : Front(frames)[i] = frames[i]
    BY <1>1, FrontLast
  <2>2. \A i \in 1 .. Len(frames) - 1 : moved[i] = frames[i]
    BY <1>2, <2>1, Appended
  <2> DEFINE m == Len(frames) - 1
  <2>3. m \in Nat /\ \A b \in Bases(runs) : b \in Nat /\ b <= m
    BY <1>1
  <2>4. \A i \in 1 .. m : moved[i] = frames[i]
    BY <2>2
  <2> HIDE DEF moved, m
  <2> QED
    BY <1>1, <2>3, <2>4, SavedAbove
<1> HIDE DEF moved
<1>7. stackTop' = EndOf(moved, Len(moved), NativeBases(runs))
  BY <1>1, <1>2, <1>4, <1>6
<1>8. handlers' = AllHandlers(moved)
  BY <1>2, <1>6
<1>9. ~Waiting(Last(moved).ctx) /\ runs' = runs /\ mode' \in {"exec", "unwind", "native"}
  BY <1>2, <1>6
<1> QED
  BY <1>1, <1>3, <1>6, <1>7, <1>8, <1>9, <1>10, StepDone

-----------------------------------------------------------------------------
(* Statements that stay in their frame.                                    *)

\* Between two statements no for-each is between two rounds.
LEMMA AtRest ==
    ASSUME Inv, SafeInv, AtStatement
    PROVE  mode = "exec" /\ Still(Ctx)
<1>1. mode = "exec" /\ (Ctx # <<>> => Last(Ctx).phase # "start")
  BY DEF AtStatement
<1>2. ~Waiting(Ctx)
  BY <1>1, OnTop
<1> QED
  BY <1>1, <1>2 DEF Still, Waiting

\* A context that rests waits for nothing.
LEMMA StillWaitsNot ==
    ASSUME NEW ctx, Still(ctx)
    PROVE  ~Waiting(ctx) /\ \A n : RoundStart(ctx, n)
BY DEF Still, Waiting, RoundStart

\* A declaration.
LEMMA DeclareSafe ==
    ASSUME Inv, SafeInv, Declare
    PROVE  SafeStep
<1>1. /\ AtStatement /\ frames' = TopAt(Top.locals + 1, Ctx) /\ stackTop' = stackTop + 1
      /\ UNCHANGED <<runs, mode>> /\ UNCHANGED handlers
  BY DEF Declare
<1>2. mode = "exec"
  BY <1>1, AtRest
<1>3. /\ Top.slots \in Nat /\ Top.locals \in Nat /\ Ctx \in Seq(Construct)
      /\ WellFormed(Ctx) /\ ~Waiting(Ctx) /\ (Returning(Ctx) => Len(frames) - 1 # Base)
      /\ Finallys(Ctx) \in Nat
      /\ handlers = AllHandlers(Front(frames)) \o CtxHandlers(Len(frames), Top.slots, Ctx)
      /\ stackTop = Top.slots + Top.locals + 2 * Finallys(Ctx)
  BY <1>2, OnTop
<1>4. stackTop' = Top.slots + (Top.locals + 1) + 2 * Finallys(Ctx) /\ Top.locals + 1 \in Nat
  <2>1. /\ Top.slots \in Nat /\ Top.locals \in Nat /\ Finallys(Ctx) \in Nat
        /\ stackTop = Top.slots + Top.locals + 2 * Finallys(Ctx) /\ stackTop' = stackTop + 1
    BY <1>1, <1>3
  <2> QED
    BY <2>1
<1>5. handlers' = AllHandlers(Front(frames)) \o CtxHandlers(Len(frames), Top.slots, Ctx)
  BY <1>1, <1>3
<1>6. RoundStart(Ctx, Top.locals + 1)
  BY <1>1, AtRest, StillWaitsNot
<1> QED
  BY <1>1, <1>2, <1>3, <1>4, <1>5, <1>6, Moved

\* The empty context.
LEMMA NoConstruct ==
    /\ <<>> \in Seq(Construct) /\ WellFormed(<<>>) /\ ~Waiting(<<>>) /\ ~Returning(<<>>)
    /\ Still(<<>>) /\ Finallys(<<>>) = 0 /\ \A n : RoundStart(<<>>, n)
<1>1. <<>> \in Seq(Construct) /\ Len(<<>>) = 0 /\ \A n : RoundStart(<<>>, n)
  BY DEF RoundStart
<1>2. WellFormed(<<>>) /\ ~Waiting(<<>>) /\ ~Returning(<<>>) /\ Still(<<>>)
  BY <1>1 DEF WellFormed, Waiting, Returning, Still
<1> QED
  BY <1>1, <1>2, FinallysOf

\* A frame outside every try owns nothing.
LEMMA OutsideTries ==
    ASSUME Inv, SafeInv, mode = "exec", ~InTry
    PROVE  /\ CtxHandlers(Len(frames), Top.slots, Ctx) = <<>>
           /\ handlers = AllHandlers(Front(frames))
<1>1. /\ Len(frames) \in Nat /\ Top.slots \in Int /\ Ctx \in Seq(Construct)
      /\ WellFormed(Ctx) /\ ~Waiting(Ctx) /\ AllHandlers(Front(frames)) \in Seq(Handler)
      /\ handlers = AllHandlers(Front(frames)) \o CtxHandlers(Len(frames), Top.slots, Ctx)
  BY OnTop
<1>2. \A j \in 1 .. Len(Ctx) : IsTry(Ctx[j]) => Ctx[j].phase = "finally"
  BY DEF InTry, TryPositions
<1>3. CtxHandlers(Len(frames), Top.slots, Ctx) = <<>>
  BY <1>1, <1>2, OwnsNothing
<1> QED
  BY <1>1, <1>3, ConcatEmptySeq

\* A tail call.
LEMMA TailCallSafe ==
    ASSUME Inv, SafeInv, NEW n \in 0 .. 1, TailCall(n)
    PROVE  SafeStep
<1>1. /\ AtStatement /\ ~InTry /\ frames' = WithTop(NewFrame(Top.slots, n))
      /\ stackTop' = Top.slots + n + 1 /\ UNCHANGED <<runs, mode>> /\ UNCHANGED handlers
  BY DEF TailCall
<1>2. mode = "exec"
  BY <1>1, AtRest
<1>3. /\ Top.slots \in Nat /\ Len(frames) \in Nat /\ AllHandlers(Front(frames)) \in Seq(Handler)
  BY <1>2, OnTop
<1>4. handlers = AllHandlers(Front(frames))
  BY <1>1, <1>2, OutsideTries
<1>5. frames' = TopAt(n + 1, <<>>) /\ n + 1 \in Nat
  BY <1>1 DEF NewFrame, TopAt
<1>6. stackTop' = Top.slots + (n + 1) + 2 * Finallys(<<>>)
  BY <1>1, <1>3, NoConstruct
<1>7. handlers' = AllHandlers(Front(frames)) \o CtxHandlers(Len(frames), Top.slots, <<>>)
  BY <1>1, <1>3, <1>4, CtxEmpty, ConcatEmptySeq
<1> QED
  BY <1>1, <1>2, <1>5, <1>6, <1>7, NoConstruct, Moved

\* A statement enters a construct without handlers.
LEMMA EnterSafe ==
    ASSUME Inv, SafeInv, AtStatement, NEW n \in Nat, NEW c \in Construct,
           ~IsTry(c), c.phase \in {"body", "start"}, c.at = n,
           frames' = TopAt(n, Append(Ctx, c)), UNCHANGED <<runs, mode>>, UNCHANGED handlers,
           stackTop' = stackTop + (n - Top.locals)
    PROVE  SafeStep
<1>1. mode = "exec" /\ Still(Ctx)
  BY AtRest
<1>2. /\ Top.slots \in Int /\ Top.locals \in Nat /\ Ctx \in Seq(Construct) /\ Len(frames) \in Nat
      /\ WellFormed(Ctx) /\ (Returning(Ctx) => Len(frames) - 1 # Base)
      /\ Finallys(Ctx) \in Nat
      /\ handlers = AllHandlers(Front(frames)) \o CtxHandlers(Len(frames), Top.slots, Ctx)
      /\ stackTop = Top.slots + Top.locals + 2 * Finallys(Ctx)
  BY <1>1, OnTop
<1> DEFINE more == Append(Ctx, c)
<1>3. /\ more \in Seq(Construct) /\ Last(more) = c
      /\ Finallys(more) = Finallys(Ctx)
  <2>1. more \in Seq(Construct) /\ Last(more) = c
    BY <1>2, Appended
  <2>2. /\ Finallys(more) = Finallys(Ctx) + IF c.phase = "finally" THEN 1 ELSE 0
        /\ Finallys(Ctx) \in Nat
    BY <1>2, FinallysOf
  <2> HIDE DEF more
  <2>3. Finallys(more) = Finallys(Ctx)
    BY <2>2
  <2> QED
    BY <2>1, <2>3
<1>4. WellFormed(more)
  BY <1>1, <1>2, EntersWell
<1>5. ~Waiting(more) /\ (Returning(more) => Len(frames) - 1 # Base) /\ RoundStart(more, n)
  BY <1>2, <1>3, ReturningMore DEF Waiting, RoundStart
<1>6. CtxHandlers(Len(frames), Top.slots, more) = CtxHandlers(Len(frames), Top.slots, Ctx)
  <2>1. Owned(Len(frames), Top.slots, Ctx, c) = <<>>
    BY OwnedCases
  <2>2. CtxHandlers(Len(frames), Top.slots, more) =
            CtxHandlers(Len(frames), Top.slots, Ctx) \o Owned(Len(frames), Top.slots, Ctx, c)
    BY <1>2, CtxMore
  <2>3. CtxHandlers(Len(frames), Top.slots, Ctx) \in Seq(Handler)
    BY <1>2, PiecesOf
  <2> QED
    BY <2>1, <2>2, <2>3, ConcatEmptySeq
<1>7. handlers' = AllHandlers(Front(frames)) \o CtxHandlers(Len(frames), Top.slots, more)
  BY <1>2, <1>6
<1> HIDE DEF more
<1>8. stackTop' = Top.slots + n + 2 * Finallys(more)
  <2>1. /\ Top.slots \in Int /\ Top.locals \in Nat /\ Finallys(Ctx) \in Nat
        /\ stackTop = Top.slots + Top.locals + 2 * Finallys(Ctx)
        /\ Finallys(more) = Finallys(Ctx)
    BY <1>2, <1>3
  <2> QED
    BY <2>1
<1>9. frames' = TopAt(n, more)
  BY DEF more
<1> QED
  BY <1>1, <1>3, <1>4, <1>5, <1>7, <1>8, <1>9, Moved

\* A loop.
LEMMA EnterLoopSafe ==
    ASSUME Inv, SafeInv, EnterLoop
    PROVE  SafeStep
<1>1. /\ AtStatement /\ frames' = TopAt(Top.locals, Append(Ctx, LoopAt(Top.locals)))
      /\ UNCHANGED stackTop /\ UNCHANGED handlers /\ UNCHANGED <<runs, mode>>
  BY DEF EnterLoop
<1>2. mode = "exec"
  BY <1>1, AtRest
<1>3. Top.locals \in Nat /\ stackTop \in Int
  BY <1>2, Running
<1>4. LoopAt(Top.locals) \in Construct
  BY <1>3, ConstructTypes
<1>5. /\ ~IsTry(LoopAt(Top.locals)) /\ LoopAt(Top.locals).phase = "body"
      /\ LoopAt(Top.locals).at = Top.locals
  BY DEF LoopAt, IsTry
<1>6. stackTop' = stackTop + (Top.locals - Top.locals)
  BY <1>1, <1>3
<1> QED
  BY <1>1, <1>3, <1>4, <1>5, <1>6, EnterSafe

\* A for-each, with its hidden iterator.
LEMMA EnterForEachSafe ==
    ASSUME Inv, SafeInv, EnterForEach
    PROVE  SafeStep
<1>1. /\ AtStatement /\ frames' = TopAt(Top.locals + 1, Append(Ctx, ForEachAt(Top.locals + 1)))
      /\ stackTop' = stackTop + 1 /\ UNCHANGED handlers /\ UNCHANGED <<runs, mode>>
  BY DEF EnterForEach
<1>2. mode = "exec"
  BY <1>1, AtRest
<1>3. Top.locals \in Nat /\ stackTop \in Int /\ Top.locals + 1 \in Nat
  BY <1>2, Running
<1>4. ForEachAt(Top.locals + 1) \in Construct
  BY <1>3, ConstructTypes
<1>5. /\ ~IsTry(ForEachAt(Top.locals + 1)) /\ ForEachAt(Top.locals + 1).phase = "start"
      /\ ForEachAt(Top.locals + 1).at = Top.locals + 1
  BY DEF ForEachAt, IsTry
<1>6. stackTop' = stackTop + ((Top.locals + 1) - Top.locals)
  BY <1>1, <1>3
<1> QED
  BY <1>1, <1>3, <1>4, <1>5, <1>6, EnterSafe

\* A try statement pushes what it owns.
LEMMA EnterTrySafe ==
    ASSUME Inv, SafeInv, NEW hasCatch \in BOOLEAN, EnterTry(hasCatch)
    PROVE  SafeStep
<1> DEFINE c  == TryAt(hasCatch, Top.locals)
           hs == TryHandlers(Len(frames), stackTop, Ctx, c)
           more == Append(Ctx, c)
<1>0. AtStatement
  BY DEF EnterTry
<1>1. mode = "exec" /\ Still(Ctx)
  BY <1>0, AtRest
<1>2. /\ Top.slots \in Int /\ Top.locals \in Nat /\ Ctx \in Seq(Construct) /\ Len(frames) \in Nat
      /\ WellFormed(Ctx) /\ (Returning(Ctx) => Len(frames) - 1 # Base)
      /\ Finallys(Ctx) \in Nat /\ AllHandlers(Front(frames)) \in Seq(Handler)
      /\ handlers = AllHandlers(Front(frames)) \o CtxHandlers(Len(frames), Top.slots, Ctx)
      /\ stackTop = Top.slots + Top.locals + 2 * Finallys(Ctx)
  BY <1>1, OnTop
<1>3. CASE HardErrorUnder(runs)
  BY <1>2, <1>3, ErrorDone
<1>4. CASE ~HardErrorUnder(runs)
  <2>1. /\ handlers' = handlers \o hs /\ frames' = TopAt(Top.locals, more)
        /\ UNCHANGED stackTop /\ UNCHANGED <<runs, mode>>
    BY <1>4 DEF EnterTry
  <2>2. /\ c \in Construct /\ IsTry(c) /\ c.phase = "body" /\ c.at = Top.locals
        /\ Entered(c) = c
    <3>1. c \in Construct
      BY <1>2, ConstructTypes
    <3>2. IsTry(c) /\ c.phase = "body" /\ c.tag = "none" /\ c.at = Top.locals
      BY DEF TryAt, IsTry
    <3> HIDE DEF c
    <3>3. Entered(c) = c
      BY <3>1, <3>2 DEF Construct, Entered
    <3> QED
      BY <3>1, <3>2, <3>3
  <2>3. StartOf(Top.slots, Ctx, c) = stackTop
    BY <1>2, <2>2 DEF StartOf
  <2> HIDE DEF c
  <2>4. Owned(Len(frames), Top.slots, Ctx, c) = hs
    BY <2>2, <2>3 DEF Owned
  <2>5. /\ more \in Seq(Construct) /\ Last(more) = c
        /\ Finallys(more) = Finallys(Ctx)
    <3>1. more \in Seq(Construct) /\ Last(more) = c
      BY <1>2, <2>2, Appended
    <3>2. Finallys(more) = Finallys(Ctx) + IF c.phase = "finally" THEN 1 ELSE 0
      BY <1>2, <2>2, FinallysOf
    <3> QED
      BY <1>2, <2>2, <3>1, <3>2
  <2>6. WellFormed(more)
    BY <1>1, <1>2, <2>2, EntersWell
  <2>7. /\ ~Waiting(more) /\ (Returning(more) => Len(frames) - 1 # Base)
        /\ RoundStart(more, Top.locals)
    BY <1>2, <2>2, <2>5, ReturningMore DEF Waiting, RoundStart
  <2>8. handlers' = AllHandlers(Front(frames)) \o CtxHandlers(Len(frames), Top.slots, more)
    <3> DEFINE A == AllHandlers(Front(frames))
               B == CtxHandlers(Len(frames), Top.slots, Ctx)
    <3>1. A \in Seq(Handler) /\ B \in Seq(Handler) /\ hs \in Seq(Handler)
      <4>1. Owned(Len(frames), Top.slots, Ctx, c) \in Seq(Handler)
        BY <1>2, <2>2, OwnedType
      <4> QED
        BY <1>2, <2>4, <4>1, PiecesOf
    <3>2. CtxHandlers(Len(frames), Top.slots, more) = B \o Owned(Len(frames), Top.slots, Ctx, c)
      BY <1>2, <2>2, CtxMore
    <3>3. handlers' = (A \o B) \o hs
      BY <1>2, <2>1
    <3> HIDE DEF A, B, hs
    <3>4. (A \o B) \o hs = A \o (B \o hs)
      BY <3>1, ConcatAssociative
    <3> QED
      BY <2>4, <3>2, <3>3, <3>4 DEF A
  <2>9. stackTop' = Top.slots + Top.locals + 2 * Finallys(more)
    BY <1>2, <2>1, <2>5
  <2> HIDE DEF more
  <2> QED
    BY <1>1, <1>2, <2>1, <2>5, <2>6, <2>7, <2>8, <2>9, Moved
<1> QED
  BY <1>3, <1>4

\* What the invariant says of the innermost construct of the frame on top.
LEMMA Inside ==
    ASSUME Inv, SafeInv, mode = "exec", Ctx # <<>>
    PROVE  LET p   == Front(Ctx)
               c   == Last(Ctx)
               own == Owned(Len(frames), Top.slots, p, c)
           IN  /\ p \in Seq(Construct) /\ c \in Construct /\ c.at \in Nat
               /\ Ctx = Append(p, c) /\ c = Ctx[Len(Ctx)] /\ Len(Ctx) \in Nat \ {0}
               /\ p = SubSeq(Ctx, 1, Len(Ctx) - 1)
               /\ WellFormed(p) /\ Still(p) /\ (Returning(p) => Len(frames) - 1 # Base)
               /\ c.phase \in {"catch", "finally"} => IsTry(c)
               /\ c.phase # "next" /\ (c.phase = "start" => Top.locals = c.at)
               /\ Finallys(p) \in Nat
               /\ c.phase = "finally" => stackTop = Top.slots + Top.locals + 2 * (Finallys(p) + 1)
               /\ c.phase # "finally" => stackTop = Top.slots + Top.locals + 2 * Finallys(p)
               /\ Top.slots \in Int /\ Top.locals \in Nat /\ Len(frames) \in Nat
               /\ AllHandlers(Front(frames)) \in Seq(Handler)
               /\ CtxHandlers(Len(frames), Top.slots, p) \in Seq(Handler)
               /\ own \in Seq(Handler)
               /\ handlers = AllHandlers(Front(frames)) \o
                                 (CtxHandlers(Len(frames), Top.slots, p) \o own)
<1> DEFINE p == Front(Ctx)
           c == Last(Ctx)
<1>1. /\ Top.slots \in Int /\ Top.locals \in Nat /\ Ctx \in Seq(Construct) /\ Len(frames) \in Nat
      /\ WellFormed(Ctx) /\ ~Waiting(Ctx) /\ (Returning(Ctx) => Len(frames) - 1 # Base)
      /\ RoundStart(Ctx, Top.locals) /\ AllHandlers(Front(frames)) \in Seq(Handler)
      /\ handlers = AllHandlers(Front(frames)) \o CtxHandlers(Len(frames), Top.slots, Ctx)
      /\ stackTop = Top.slots + Top.locals + 2 * Finallys(Ctx)
  BY OnTop
<1>2. /\ p \in Seq(Construct) /\ c \in Construct
      /\ Len(Ctx) \in Nat \ {0} /\ c = Ctx[Len(Ctx)]
      /\ p = SubSeq(Ctx, 1, Len(Ctx) - 1)
      /\ Ctx = Append(p, c)
      /\ Finallys(Ctx) = Finallys(p) + IF c.phase = "finally" THEN 1 ELSE 0
      /\ Finallys(p) \in Nat
      /\ CtxHandlers(Len(frames), Top.slots, Ctx) =
             CtxHandlers(Len(frames), Top.slots, p) \o Owned(Len(frames), Top.slots, p, c)
  BY <1>1, InnermostConstruct
<1>3. Len(Ctx) - 1 \in 0 .. Len(Ctx) - 1 /\ Len(Ctx) \in 1 .. Len(Ctx)
  BY <1>2
<1>4. /\ c.phase # "next" /\ (c.phase \in {"catch", "finally"} => IsTry(c))
      /\ c.phase = "start" => Top.locals = c.at
  BY <1>1, <1>2, <1>3 DEF Waiting, WellFormed, RoundStart
<1> HIDE DEF c
<1>5. WellFormed(p) /\ Still(p) /\ (Returning(p) => Returning(Ctx))
  BY <1>1, <1>2, <1>3, LeavesWell
<1> HIDE DEF p
<1>6. c.at \in Nat
  BY <1>2, LoopLocals
<1>7. /\ c.phase = "finally" => stackTop = Top.slots + Top.locals + 2 * (Finallys(p) + 1)
      /\ c.phase # "finally" => stackTop = Top.slots + Top.locals + 2 * Finallys(p)
  <2>1. /\ Finallys(Ctx) = Finallys(p) + IF c.phase = "finally" THEN 1 ELSE 0
        /\ stackTop = Top.slots + Top.locals + 2 * Finallys(Ctx) /\ Finallys(p) \in Nat
    BY <1>1, <1>2
  <2> QED
    BY <2>1
<1>8. /\ CtxHandlers(Len(frames), Top.slots, p) \in Seq(Handler)
      /\ Owned(Len(frames), Top.slots, p, c) \in Seq(Handler)
  BY <1>1, <1>2, PiecesOf, OwnedType
<1> QED
  BY <1>1, <1>2, <1>4, <1>5, <1>6, <1>7, <1>8 DEF p, c

\* The innermost construct goes on in another block.
LEMMA InnermostMoves ==
    ASSUME Inv, SafeInv, mode = "exec", Ctx # <<>>, NEW n \in Nat, NEW c \in Construct,
           frames' = TopAt(n, Append(Front(Ctx), c)), UNCHANGED <<runs, mode>>,
           c.phase # "next", c.phase \in {"catch", "finally"} => IsTry(c),
           c.tag # "return" \/ c.phase # "finally", c.phase = "start" => n = c.at,
           stackTop' = Top.slots + n +
               2 * (Finallys(Front(Ctx)) + IF c.phase = "finally" THEN 1 ELSE 0),
           handlers' = AllHandlers(Front(frames)) \o
                           (CtxHandlers(Len(frames), Top.slots, Front(Ctx)) \o
                                Owned(Len(frames), Top.slots, Front(Ctx), c))
    PROVE  SafeStep
<1> DEFINE p    == Front(Ctx)
           more == Append(p, c)
<1>1. /\ p \in Seq(Construct)
      /\ WellFormed(p) /\ Still(p) /\ (Returning(p) => Len(frames) - 1 # Base)
      /\ Finallys(p) \in Nat /\ Top.slots \in Int /\ Len(frames) \in Nat
  BY Inside
<1> HIDE DEF p
<1>2. /\ more \in Seq(Construct) /\ more # <<>> /\ Last(more) = c
      /\ Finallys(more) = Finallys(p) + IF c.phase = "finally" THEN 1 ELSE 0
      /\ CtxHandlers(Len(frames), Top.slots, more) =
             CtxHandlers(Len(frames), Top.slots, p) \o Owned(Len(frames), Top.slots, p, c)
  <2>1. more \in Seq(Construct) /\ more # <<>> /\ Last(more) = c
    BY <1>1, Appended
  <2>2. Finallys(more) = Finallys(p) + IF c.phase = "finally" THEN 1 ELSE 0
    BY <1>1, FinallysOf
  <2>3. CtxHandlers(Len(frames), Top.slots, more) =
             CtxHandlers(Len(frames), Top.slots, p) \o Owned(Len(frames), Top.slots, p, c)
    BY <1>1, CtxMore
  <2> QED
    BY <2>1, <2>2, <2>3
<1>3. WellFormed(more)
  BY <1>1, EntersWell
<1>4. Returning(more) => Len(frames) - 1 # Base
  BY <1>1, ReturningMore
<1> HIDE DEF more
<1>5. ~Waiting(more) /\ RoundStart(more, n)
  BY <1>2 DEF Waiting, RoundStart
<1>6. /\ frames' = TopAt(n, more)
      /\ stackTop' = Top.slots + n + 2 * Finallys(more)
      /\ handlers' = AllHandlers(Front(frames)) \o CtxHandlers(Len(frames), Top.slots, more)
  BY <1>2 DEF p, more
<1> QED
  BY <1>2, <1>3, <1>4, <1>5, <1>6, Moved

\* The innermost construct is left.
LEMMA InnermostLeft ==
    ASSUME Inv, SafeInv, mode = "exec", Ctx # <<>>, NEW n \in Nat,
           frames' = TopAt(n, Front(Ctx)), UNCHANGED <<runs, mode>>, UNCHANGED handlers,
           Owned(Len(frames), Top.slots, Front(Ctx), Last(Ctx)) = <<>>,
           stackTop' = Top.slots + n + 2 * Finallys(Front(Ctx))
    PROVE  SafeStep
<1> DEFINE p == Front(Ctx)
           A == AllHandlers(Front(frames))
           B == CtxHandlers(Len(frames), Top.slots, p)
<1>1. /\ p \in Seq(Construct)
      /\ WellFormed(p) /\ Still(p) /\ (Returning(p) => Len(frames) - 1 # Base)
      /\ A \in Seq(Handler) /\ B \in Seq(Handler)
      /\ handlers = A \o (B \o Owned(Len(frames), Top.slots, p, Last(Ctx)))
  BY Inside
<1>2. handlers' = A \o B
  <2>1. handlers = A \o (B \o <<>>)
    BY <1>1
  <2> HIDE DEF A, B
  <2>2. B \o <<>> = B
    BY <1>1, ConcatEmptySeq
  <2> QED
    BY <2>1, <2>2
<1>3. ~Waiting(p) /\ RoundStart(p, n)
  BY <1>1, StillWaitsNot
<1> HIDE DEF p
<1>4. /\ frames' = TopAt(n, p) /\ stackTop' = Top.slots + n + 2 * Finallys(p)
  BY DEF p
<1> QED
  BY <1>1, <1>2, <1>3, <1>4, Moved

\* The handlers a try has pushed are on top: two of them in a body with a catch, one
\* in a body without and in a catch block.
LEMMA DroppedHandlers ==
    ASSUME NEW fc \in Nat, NEW slots \in Int, NEW outer \in Seq(Construct), NEW c \in Construct,
           IsTry(c), c.phase \in {"body", "catch"}
    PROVE  /\ Owned(fc, slots, outer, c) \in Seq(Handler)
           /\ Len(Owned(fc, slots, outer, c)) = HandlersDropped(c)
           /\ HandlersDropped(c) \in Nat
<1>1. Owned(fc, slots, outer, c) \in Seq(Handler)
  BY OwnedType
<1> DEFINE top == StartOf(slots, outer, c)
<1>2. CASE c.phase = "body" /\ c.catch
  <2>1. Owned(fc, slots, outer, c) =
            << FinallyHandler(fc, top, outer, Entered(c)), CatchHandler(fc, top, outer, Entered(c)) >>
    BY <1>2, OwnedCases
  <2>2. Len(Owned(fc, slots, outer, c)) = 2
    BY <2>1
  <2> QED
    BY <1>1, <1>2, <2>2 DEF HandlersDropped
<1>3. CASE ~(c.phase = "body" /\ c.catch)
  <2>1. Owned(fc, slots, outer, c) = << FinallyHandler(fc, top, outer, Entered(c)) >>
    BY <1>3, OwnedCases
  <2>2. Len(Owned(fc, slots, outer, c)) = 1
    BY <2>1
  <2> QED
    BY <1>1, <1>3, <2>2 DEF HandlersDropped
<1> QED
  BY <1>2, <1>3

\* Dropping the end of a sequence.
LEMMA EndDropped ==
    ASSUME NEW S, NEW a \in Seq(S), NEW b \in Seq(S), NEW c \in Seq(S)
    PROVE  /\ SubSeq(a \o (b \o c), 1, Len(a \o (b \o c)) - Len(c)) = a \o b
           /\ Len(a \o (b \o c)) \in Nat /\ Len(c) \in Nat
           /\ Len(a \o (b \o c)) >= Len(c)
<1> DEFINE ab == a \o b
<1>1. a \o (b \o c) = ab \o c
  BY ConcatAssociative
<1>2. ab \in Seq(S)
  BY ConcatProperties
<1> HIDE DEF ab
<1>3. Len(ab \o c) = Len(ab) + Len(c) /\ Len(ab) \in Nat /\ Len(c) \in Nat
  BY <1>2, ConcatProperties, EmptyLen
<1>4. SubSeq(ab \o c, 1, Len(ab)) = ab
  <2>1. Len(ab) \in 0 .. Len(ab)
    BY <1>3
  <2>2. SubSeq(ab \o c, 1, Len(ab)) = SubSeq(ab, 1, Len(ab))
    BY <1>2, <1>3, SubSeqOfConcat1
  <2> QED
    BY <1>2, <2>2, SubSeqFull
<1>5. Len(ab \o c) - Len(c) = Len(ab) /\ Len(ab \o c) >= Len(c) /\ Len(ab \o c) \in Nat
  BY <1>3
<1> QED
  BY <1>1, <1>3, <1>4, <1>5 DEF ab

\* A block ends and its finally block starts.
LEMMA FallIntoFinallySafe ==
    ASSUME Inv, SafeInv, FallIntoFinally
    PROVE  SafeStep
<1> DEFINE p == Front(Ctx)
           c == Last(Ctx)
           k == HandlersDropped(c)
           d == InFinally(c, "normal")
           A == AllHandlers(Front(frames))
           B == CtxHandlers(Len(frames), Top.slots, p)
           own == Owned(Len(frames), Top.slots, p, c)
<1>1. /\ AtStatement /\ Ctx # <<>> /\ IsTry(c) /\ c.phase \in {"body", "catch"}
      /\ ~(Len(handlers) < k) => /\ handlers' = SubSeq(handlers, 1, Len(handlers) - k)
                                 /\ stackTop' = stackTop - (Top.locals - c.at) + 2
                                 /\ frames' = TopAt(c.at, Append(p, d))
                                 /\ UNCHANGED <<runs, mode>>
  BY DEF FallIntoFinally
<1>2. mode = "exec"
  BY <1>1, AtRest
<1>3. /\ p \in Seq(Construct) /\ c \in Construct /\ c.at \in Nat
      /\ Finallys(p) \in Nat
      /\ c.phase # "finally" => stackTop = Top.slots + Top.locals + 2 * Finallys(p)
      /\ Top.slots \in Int /\ Top.locals \in Nat /\ Len(frames) \in Nat
      /\ A \in Seq(Handler) /\ B \in Seq(Handler) /\ own \in Seq(Handler)
      /\ handlers = A \o (B \o own)
  BY <1>1, <1>2, Inside
<1>4. Len(own) = k /\ k \in Nat
  BY <1>1, <1>3, DroppedHandlers
<1>5. ~(Len(handlers) < k) /\ SubSeq(handlers, 1, Len(handlers) - k) = A \o B
  <2> HIDE DEF A, B, own, k
  <2>1. /\ SubSeq(handlers, 1, Len(handlers) - Len(own)) = A \o B
        /\ Len(handlers) \in Nat /\ Len(own) \in Nat /\ Len(handlers) >= Len(own)
    BY <1>3, EndDropped
  <2> QED
    BY <1>4, <2>1
<1>6. /\ handlers' = A \o B
      /\ stackTop' = stackTop - (Top.locals - c.at) + 2
      /\ frames' = TopAt(c.at, Append(p, d))
      /\ UNCHANGED <<runs, mode>>
  <2> HIDE DEF A, B, own, k, d
  <2> QED
    BY <1>1, <1>5
<1>7. /\ d \in Construct /\ d.phase = "finally" /\ d.tag = "normal" /\ IsTry(d)
  <2>1. d \in Construct
    BY <1>3, ConstructTypes
  <2> HIDE DEF c
  <2>2. d.phase = "finally" /\ d.tag = "normal" /\ d.kind = c.kind
    BY <1>3 DEF InFinally, Construct
  <2> QED
    BY <1>1, <2>1, <2>2 DEF IsTry
<1>8. Owned(Len(frames), Top.slots, p, d) = <<>>
  <2> HIDE DEF d, p
  <2> QED
    BY <1>7, OwnedCases
<1>9. handlers' = A \o (B \o Owned(Len(frames), Top.slots, p, d))
  <2> HIDE DEF A, B, d
  <2> QED
    BY <1>3, <1>6, <1>8, ConcatEmptySeq
<1>10. stackTop' = Top.slots + c.at + 2 * (Finallys(p) + IF d.phase = "finally" THEN 1 ELSE 0)
  <2>1. c.phase # "finally"
    BY <1>1
  <2> HIDE DEF c, p, d
  <2>2. /\ stackTop = Top.slots + Top.locals + 2 * Finallys(p)
        /\ Top.slots \in Int /\ Top.locals \in Nat /\ c.at \in Nat /\ Finallys(p) \in Nat
        /\ stackTop' = stackTop - (Top.locals - c.at) + 2
        /\ d.phase = "finally"
    BY <1>3, <1>6, <1>7, <2>1
  <2> QED
    BY <2>2
<1> HIDE DEF d
<1> QED
  BY <1>1, <1>2, <1>3, <1>6, <1>7, <1>9, <1>10, InnermostMoves

\* A finally block ends as its try would have.
LEMMA EndNormally ==
    ASSUME Inv, SafeInv, mode = "exec", Ctx # <<>>, Last(Ctx).phase = "finally",
           frames' = TopAt(Last(Ctx).at, Front(Ctx)),
           stackTop' = stackTop - (Top.locals - Last(Ctx).at) - 2,
           UNCHANGED <<runs, mode>>, UNCHANGED handlers
    PROVE  SafeStep
<1> DEFINE p == Front(Ctx)
           c == Last(Ctx)
<1>1. /\ p \in Seq(Construct) /\ c \in Construct /\ c.at \in Nat /\ Finallys(p) \in Nat
      /\ stackTop = Top.slots + Top.locals + 2 * (Finallys(p) + 1)
      /\ Top.slots \in Int /\ Top.locals \in Nat
  BY Inside
<1>2. c.phase = "finally" /\ stackTop' = stackTop - (Top.locals - c.at) - 2
  OBVIOUS
<1> HIDE DEF p, c
<1>3. stackTop' = Top.slots + c.at + 2 * Finallys(p)
  <2>1. /\ stackTop = Top.slots + Top.locals + 2 * (Finallys(p) + 1)
        /\ Top.slots \in Int /\ Top.locals \in Nat /\ c.at \in Nat /\ Finallys(p) \in Nat
        /\ stackTop' = stackTop - (Top.locals - c.at) - 2
    BY <1>1, <1>2
  <2> QED
    BY <2>1
<1>4. Owned(Len(frames), Top.slots, p, c) = <<>>
  BY <1>1, <1>2, OwnedCases
<1> QED
  BY <1>1, <1>3, <1>4, InnermostLeft DEF p, c

\* Without a break or continue out of a try, the loop they leave is the innermost
\* construct, and executing its body.
LEMMA LoopIsInnermost ==
    ASSUME Inv, SafeInv, AtStatement, LoopPositions(Ctx) # {},
           \A i \in TryPositions(Ctx) : ~(i > Innermost(LoopPositions(Ctx)))
    PROVE  /\ Ctx # <<>> /\ Innermost(LoopPositions(Ctx)) = Len(Ctx)
           /\ Last(Ctx) \in Construct /\ ~IsTry(Last(Ctx)) /\ Last(Ctx).phase = "body"
           /\ Ctx[Len(Ctx)] = Last(Ctx)
<1> DEFINE l == Innermost(LoopPositions(Ctx))
<1>1. mode = "exec" /\ Still(Ctx)
  BY AtRest
<1>2. Ctx \in Seq(Construct)
  BY <1>1, OnTop
<1>3. Len(Ctx) \in Nat /\ LoopPositions(Ctx) \in SUBSET (1 .. Len(Ctx))
  BY <1>2 DEF LoopPositions
<1>4. l \in LoopPositions(Ctx) /\ \A j \in LoopPositions(Ctx) : j <= l
  BY <1>3, InnermostIn
<1>5. \A i \in TryPositions(Ctx) : ~(i > l)
  OBVIOUS
<1> HIDE DEF l
<1>6. l \in 1 .. Len(Ctx) /\ Len(Ctx) \in 1 .. Len(Ctx) /\ IsLoop(Ctx[l])
  BY <1>3, <1>4 DEF LoopPositions
<1>7. Ctx # <<>>
  BY <1>2, <1>6, EmptyLen
<1>8. /\ Last(Ctx) \in Construct /\ Last(Ctx) = Ctx[Len(Ctx)]
      /\ Last(Ctx).phase \in {"catch", "finally"} => IsTry(Last(Ctx))
  BY <1>1, <1>7, Inside
<1>9. l = Len(Ctx)
  <2> SUFFICES ASSUME l # Len(Ctx) PROVE FALSE
    OBVIOUS
  <2>1. Len(Ctx) > l
    BY <1>3, <1>6
  <2>2. CASE IsTry(Ctx[Len(Ctx)])
    BY <1>5, <1>6, <2>1, <2>2 DEF TryPositions
  <2>3. CASE ~IsTry(Ctx[Len(Ctx)])
    <3>1. IsLoop(Ctx[Len(Ctx)])
      BY <1>8, <2>3 DEF Construct, IsTry, IsLoop
    <3>2. Len(Ctx) <= l
      BY <1>4, <1>6, <3>1 DEF LoopPositions
    <3> QED
      BY <1>3, <1>6, <2>1, <3>2
  <2> QED
    BY <2>2, <2>3
<1>10. ~IsTry(Last(Ctx))
  BY <1>6, <1>8, <1>9 DEF IsLoop, IsTry
<1>11. Last(Ctx).phase = "body"
  <2>1. Last(Ctx).phase \in {"body", "catch", "finally", "start", "next"}
    BY <1>8 DEF Construct
  <2>2. Last(Ctx).phase \notin {"start", "next"}
    BY <1>1, <1>7 DEF Still
  <2> QED
    BY <1>8, <1>10, <2>1, <2>2
<1> QED
  BY <1>7, <1>8, <1>9, <1>10, <1>11 DEF l

\* A break.
LEMMA BreakSafe ==
    ASSUME Inv, SafeInv, Break, "breakTry" \notin Forms
    PROVE  SafeStep
<1> DEFINE l == Innermost(LoopPositions(Ctx))
           n == LocalsAfter(Ctx[l])
           p == Front(Ctx)
           c == Last(Ctx)
<1>1. /\ AtStatement /\ LoopPositions(Ctx) # {}
      /\ \A i \in TryPositions(Ctx) : ~(i > l)
      /\ stackTop' = stackTop - (Top.locals - n)
      /\ UNCHANGED handlers /\ UNCHANGED <<runs, mode>>
      /\ frames' = TopAt(n, SubSeq(Ctx, 1, l - 1))
  BY DEF Break, LeaveInnerScopes
<1>2. /\ Ctx # <<>> /\ l = Len(Ctx)
      /\ c \in Construct /\ ~IsTry(c) /\ c.phase = "body"
      /\ Ctx[l] = c
  BY <1>1, LoopIsInnermost
<1>3. mode = "exec"
  BY <1>1, AtRest
<1>4. /\ p = SubSeq(Ctx, 1, Len(Ctx) - 1) /\ Finallys(p) \in Nat
      /\ stackTop = Top.slots + Top.locals + 2 * Finallys(p)
      /\ Top.slots \in Int /\ Top.locals \in Nat
  <2>1. c.phase # "finally"
    BY <1>2
  <2> QED
    BY <1>2, <1>3, <2>1, Inside
<1>5. n = LocalsAfter(c) /\ n \in Nat
  BY <1>2, LoopLocals
<1>6. frames' = TopAt(n, p)
  BY <1>1, <1>2, <1>4
<1> HIDE DEF n, l, p
<1>7. stackTop' = Top.slots + n + 2 * Finallys(p)
  BY <1>1, <1>4, <1>5
<1>8. Owned(Len(frames), Top.slots, p, c) = <<>>
  <2> HIDE DEF c
  <2> QED
    BY <1>2, OwnedCases
<1> QED
  BY <1>1, <1>2, <1>3, <1>5, <1>6, <1>7, <1>8, InnermostLeft DEF p

\* A continue.
LEMMA ContinueSafe ==
    ASSUME Inv, SafeInv, Continue, "breakTry" \notin Forms
    PROVE  SafeStep
<1> DEFINE l == Innermost(LoopPositions(Ctx))
           d == IF Ctx[l].kind = "foreach" THEN InPhase(Ctx[l], "start") ELSE Ctx[l]
           p == Front(Ctx)
           c == Last(Ctx)
<1>1. /\ AtStatement /\ LoopPositions(Ctx) # {}
      /\ \A i \in TryPositions(Ctx) : ~(i > l)
      /\ stackTop' = stackTop - (Top.locals - d.at)
      /\ UNCHANGED handlers /\ UNCHANGED <<runs, mode>>
      /\ frames' = TopAt(d.at, Append(SubSeq(Ctx, 1, l - 1), d))
  BY DEF Continue, LeaveInnerScopes
<1>2. /\ Ctx # <<>> /\ l = Len(Ctx)
      /\ c \in Construct /\ ~IsTry(c) /\ c.phase = "body"
      /\ Ctx[l] = c
  BY <1>1, LoopIsInnermost
<1>3. mode = "exec"
  BY <1>1, AtRest
<1>4. /\ p = SubSeq(Ctx, 1, Len(Ctx) - 1) /\ Finallys(p) \in Nat
      /\ stackTop = Top.slots + Top.locals + 2 * Finallys(p)
      /\ Top.slots \in Int /\ Top.locals \in Nat
      /\ CtxHandlers(Len(frames), Top.slots, p) \in Seq(Handler)
      /\ handlers = AllHandlers(Front(frames)) \o
                       (CtxHandlers(Len(frames), Top.slots, p) \o Owned(Len(frames), Top.slots, p, c))
  <2>1. c.phase # "finally"
    BY <1>2
  <2> QED
    BY <1>2, <1>3, <2>1, Inside
<1>5. d = IF c.kind = "foreach" THEN InPhase(c, "start") ELSE c
  BY <1>2
<1>6. frames' = TopAt(d.at, Append(p, d))
  BY <1>1, <1>2, <1>4
<1> HIDE DEF l, p, d, c
<1>7. /\ d \in Construct /\ ~IsTry(d) /\ d.phase \in {"body", "start"} /\ d.at \in Nat
  <2>1. d \in Construct
    BY <1>2, <1>5, ConstructTypes
  <2>2. d.kind = c.kind /\ d.phase \in {"body", "start"}
    BY <1>2, <1>5 DEF InPhase, Construct
  <2>3. d.at \in Nat
    BY <2>1, LoopLocals
  <2> QED
    BY <1>2, <2>1, <2>2, <2>3 DEF IsTry
<1>8. stackTop' = Top.slots + d.at + 2 * (Finallys(p) + IF d.phase = "finally" THEN 1 ELSE 0)
  <2>1. d.phase # "finally"
    BY <1>7
  <2>2. /\ stackTop' = stackTop - (Top.locals - d.at)
        /\ stackTop = Top.slots + Top.locals + 2 * Finallys(p) /\ Finallys(p) \in Nat
        /\ Top.slots \in Int /\ Top.locals \in Nat /\ d.at \in Nat
    BY <1>1, <1>4, <1>7
  <2> QED
    BY <2>1, <2>2
<1>9. Owned(Len(frames), Top.slots, p, c) = <<>> /\ Owned(Len(frames), Top.slots, p, d) = <<>>
  BY <1>2, <1>7, OwnedCases
<1>10. handlers' = AllHandlers(Front(frames)) \o
                       (CtxHandlers(Len(frames), Top.slots, p) \o Owned(Len(frames), Top.slots, p, d))
  BY <1>1, <1>4, <1>9
<1> QED
  BY <1>1, <1>2, <1>3, <1>6, <1>7, <1>8, <1>10, InnermostMoves DEF p

\* A for-each between two rounds.
LEMMA AtRoundStart ==
    ASSUME Inv, SafeInv, AtLoopStart
    PROVE  LET p == Front(Ctx)
               c == Last(Ctx)
           IN  /\ mode = "exec" /\ Ctx # <<>>
               /\ c \in Construct /\ c.kind = "foreach" /\ c.phase = "start" /\ ~IsTry(c)
               /\ c.at \in Nat /\ Top.locals = c.at
               /\ p \in Seq(Construct) /\ Finallys(p) \in Nat
               /\ stackTop = Top.slots + c.at + 2 * Finallys(p)
               /\ Top.slots \in Int /\ Top.locals \in Nat
               /\ Owned(Len(frames), Top.slots, p, c) = <<>>
               /\ handlers = AllHandlers(Front(frames)) \o CtxHandlers(Len(frames), Top.slots, p)
<1> DEFINE p == Front(Ctx)
           c == Last(Ctx)
           A == AllHandlers(Front(frames))
           B == CtxHandlers(Len(frames), Top.slots, p)
<1>1. mode = "exec" /\ Ctx # <<>> /\ c.phase = "start"
  BY DEF AtLoopStart
<1>2. /\ p \in Seq(Construct) /\ c \in Construct /\ c.at \in Nat
      /\ c.phase = "start" => Top.locals = c.at
      /\ Finallys(p) \in Nat
      /\ c.phase # "finally" => stackTop = Top.slots + Top.locals + 2 * Finallys(p)
      /\ Top.slots \in Int /\ Top.locals \in Nat
      /\ A \in Seq(Handler) /\ B \in Seq(Handler)
      /\ handlers = A \o (B \o Owned(Len(frames), Top.slots, p, c))
  BY <1>1, Inside
<1> HIDE DEF p, c, A, B
<1>3. c.kind = "foreach" /\ ~IsTry(c) /\ c.phase # "next" /\ c.phase # "finally"
  BY <1>1, <1>2 DEF Construct, IsTry
<1>4. Owned(Len(frames), Top.slots, p, c) = <<>>
  BY <1>2, <1>3, OwnedCases
<1>5. handlers = A \o B
  BY <1>2, <1>4, ConcatEmptySeq
<1> QED
  BY <1>1, <1>2, <1>3, <1>4, <1>5 DEF p, c, A, B

\* A round of a built-in iterator.
LEMMA ForEachHitSafe ==
    ASSUME Inv, SafeInv, ForEachHit
    PROVE  SafeStep
<1> DEFINE p == Front(Ctx)
           c == Last(Ctx)
           d == InPhase(c, "body")
           B == CtxHandlers(Len(frames), Top.slots, p)
<1>1. /\ AtLoopStart /\ frames' = TopAt(Top.locals + 1, Append(p, d))
      /\ stackTop' = stackTop + 1 /\ UNCHANGED handlers /\ UNCHANGED <<runs, mode>>
  BY DEF ForEachHit
<1>2. /\ mode = "exec" /\ Ctx # <<>>
      /\ c \in Construct /\ ~IsTry(c) /\ c.kind = "foreach" /\ Top.locals = c.at
      /\ p \in Seq(Construct) /\ Finallys(p) \in Nat
      /\ stackTop = Top.slots + c.at + 2 * Finallys(p)
      /\ Top.slots \in Int /\ Top.locals \in Nat
      /\ handlers = AllHandlers(Front(frames)) \o B
  BY <1>1, AtRoundStart
<1>3. B \in Seq(Handler)
  BY <1>2, Inside
<1> HIDE DEF p, c
<1>4. d \in Construct /\ ~IsTry(d) /\ d.phase = "body"
  <2>1. d \in Construct
    BY <1>2, ConstructTypes
  <2>2. d.kind = c.kind /\ d.phase = "body"
    BY <1>2 DEF InPhase, Construct
  <2> QED
    BY <1>2, <2>1, <2>2 DEF IsTry
<1> HIDE DEF d
<1>5. Owned(Len(frames), Top.slots, p, d) = <<>>
  BY <1>4, OwnedCases
<1>6. handlers' = AllHandlers(Front(frames)) \o (B \o Owned(Len(frames), Top.slots, p, d))
  <2> HIDE DEF B
  <2> QED
    BY <1>1, <1>2, <1>3, <1>5, ConcatEmptySeq
<1>7. stackTop' = Top.slots + (Top.locals + 1) +
                      2 * (Finallys(p) + IF d.phase = "finally" THEN 1 ELSE 0)
  <2>1. /\ d.phase # "finally" /\ stackTop' = stackTop + 1
        /\ stackTop = Top.slots + Top.locals + 2 * Finallys(p) /\ Finallys(p) \in Nat
        /\ Top.slots \in Int /\ Top.locals \in Nat
    BY <1>1, <1>2, <1>4
  <2> QED
    BY <2>1
<1>8. Top.locals + 1 \in Nat
  BY <1>2
<1> QED
  BY <1>1, <1>2, <1>4, <1>6, <1>7, <1>8, InnermostMoves DEF p

\* The end of a built-in iterator.
LEMMA ForEachExhaustedSafe ==
    ASSUME Inv, SafeInv, ForEachExhausted
    PROVE  SafeStep
<1> DEFINE p == Front(Ctx)
           c == Last(Ctx)
           n == LocalsAfter(c)
<1>1. /\ AtLoopStart /\ frames' = TopAt(n, p)
      /\ stackTop' = stackTop - 1 /\ UNCHANGED handlers /\ UNCHANGED <<runs, mode>>
  BY DEF ForEachExhausted
<1>2. /\ mode = "exec" /\ Ctx # <<>>
      /\ c \in Construct /\ c.kind = "foreach" /\ c.at \in Nat /\ Top.locals = c.at
      /\ p \in Seq(Construct) /\ Finallys(p) \in Nat
      /\ stackTop = Top.slots + c.at + 2 * Finallys(p)
      /\ Top.slots \in Int
      /\ Owned(Len(frames), Top.slots, p, c) = <<>>
  BY <1>1, AtRoundStart
<1> HIDE DEF p, c
<1>3. n = c.at - 1 /\ n \in Nat
  BY <1>2, LoopLocals DEF LocalsAfter
<1> HIDE DEF n
<1>4. stackTop' = Top.slots + n + 2 * Finallys(p)
  <2>1. /\ stackTop = Top.slots + c.at + 2 * Finallys(p) /\ stackTop' = stackTop - 1
        /\ Top.slots \in Int /\ c.at \in Nat /\ Finallys(p) \in Nat /\ n = c.at - 1
    BY <1>1, <1>2, <1>3
  <2> QED
    BY <2>1
<1> QED
  BY <1>1, <1>2, <1>3, <1>4, InnermostLeft DEF p, c

\* The last element of the last of three sequences.
LEMMA LastOfThree ==
    ASSUME NEW S, NEW a \in Seq(S), NEW b \in Seq(S), NEW e \in S
    PROVE  /\ a \o (b \o << e >>) # <<>>
           /\ Front(a \o (b \o << e >>)) = a \o b
           /\ Last(a \o (b \o << e >>)) = e
<1> DEFINE ab == a \o b
           abe == a \o (b \o << e >>)
<1>0. <<e>> \in Seq(S)
  OBVIOUS
<1>1. abe = ab \o << e >> /\ ab \in Seq(S)
  BY <1>0, ConcatAssociative, ConcatProperties
<1>2. abe = Append(ab, e)
  <2> HIDE DEF ab, abe
  <2> QED
    BY <1>1
<1> HIDE DEF ab, abe
<1>3. abe # <<>> /\ Front(abe) = ab /\ Last(abe) = e
  BY <1>1, <1>2 DEF Front, Last
<1> QED
  BY <1>3 DEF ab, abe

\* The same for handlers.
LEMMA HandlerLast ==
    ASSUME NEW a \in Seq(Handler), NEW b \in Seq(Handler), NEW e \in Handler
    PROVE  /\ a \o (b \o << e >>) # <<>>
           /\ Front(a \o (b \o << e >>)) = a \o b
           /\ Last(a \o (b \o << e >>)) = e
BY LastOfThree, SMTT(30)

\* A return that goes through the finally block of its try.
LEMMA ReturnInTrySafe ==
    ASSUME Inv, SafeInv, ReturnInTry, Forms = {}
    PROVE  SafeStep
<1> DEFINE j == Innermost(TryPositions(Ctx))
           h == Last(handlers)
           c == Ctx[j]
           p == Around(Ctx, j)
           d == InFinally(c, "return")
           A == AllHandlers(Front(frames))
           B == CtxHandlers(Len(frames), Top.slots, p)
           s == StartOf(Top.slots, p, c)
           f == FinallyHandler(Len(frames), s, p, Entered(c))
<1>1. /\ AtStatement /\ InTry /\ c.phase # "finally"
      /\ ~(c.phase = "body" /\ c.catch)
      /\ \A i \in TryPositions(Ctx) : i < j => Ctx[i].phase = "finally"
      /\ Len(frames) - 1 # Base
      /\ handlers # <<>> => /\ handlers' = Front(handlers)
                            /\ stackTop' = h.stackTop + 2
                            /\ frames' = TopAt(c.at, Append(p, d))
                            /\ UNCHANGED <<runs, mode>>
  BY DEF ReturnInTry, Around
<1>2. mode = "exec" /\ Still(Ctx)
  BY <1>1, AtRest
<1>3. /\ Ctx \in Seq(Construct) /\ WellFormed(Ctx) /\ ~Waiting(Ctx)
      /\ Top.slots \in Int /\ Len(frames) \in Nat
      /\ A \in Seq(Handler)
      /\ handlers = A \o CtxHandlers(Len(frames), Top.slots, Ctx)
  BY <1>2, OnTop
<1>4. /\ Len(Ctx) \in Nat /\ TryPositions(Ctx) \in SUBSET (1 .. Len(Ctx)) /\ TryPositions(Ctx) # {}
  BY <1>1, <1>3 DEF InTry, TryPositions
<1>5. j \in TryPositions(Ctx) /\ \A i \in TryPositions(Ctx) : i <= j
  BY <1>4, InnermostIn
<1> HIDE DEF j
<1>6. j \in 1 .. Len(Ctx) /\ IsTry(c)
  BY <1>4, <1>5 DEF TryPositions
<1>7. c \in Construct /\ p \in Seq(Construct) /\ Len(p) = j - 1
  BY <1>3, <1>6, AroundType
<1>8. /\ WellFormed(p) /\ Still(p)
  <2>1. j - 1 \in 0 .. Len(Ctx) - 1
    BY <1>4, <1>6
  <2> QED
    BY <1>3, <2>1, LeavesWell DEF Around
<1>9. ASSUME NEW k \in j + 1 .. Len(Ctx)
      PROVE  Owned(Len(frames), Top.slots, Around(Ctx, k), Ctx[k]) = <<>>
  <2>1. k \in 1 .. Len(Ctx) /\ k > j /\ Ctx[k] \in Construct
    BY <1>3, <1>4, <1>6
  <2>2. ~IsTry(Ctx[k])
    BY <1>5, <1>6, <2>1 DEF TryPositions
  <2>3. Ctx[k].phase # "next"
    <3>1. CASE k = Len(Ctx)
      BY <1>2, <1>3, <2>1, <3>1, EmptyLen DEF Still, Last
    <3>2. CASE k # Len(Ctx)
      <4>1. k \in 1 .. Len(Ctx) - 1
        BY <1>4, <2>1, <3>2
      <4> QED
        BY <1>3, <4>1 DEF WellFormed
    <3> QED
      BY <3>1, <3>2
  <2> QED
    BY <2>1, <2>2, <2>3, OwnedCases
<1>10. CtxHandlers(Len(frames), Top.slots, Ctx) = B \o Owned(Len(frames), Top.slots, p, c)
  BY <1>3, <1>6, <1>9, CtxUpTo
<1> HIDE DEF p, c
<1>11. Owned(Len(frames), Top.slots, p, c) = << f >>
  <2>1. c.phase \in {"body", "catch"}
    BY <1>1, <1>6, <1>7, OwnedCases
  <2> QED
    BY <1>1, <1>6, <1>7, <2>1, OwnedCases
<1>12. f \in Handler /\ f.stackTop = s /\ c.at \in Nat
  <2>1. Entered(c) \in Construct /\ c.at \in Nat
    BY <1>7, LoopLocals DEF Entered, Construct
  <2>2. s \in Int
    BY <1>3, <1>7, <2>1, FinallysOf DEF StartOf
  <2>3. f \in Handler
    BY <1>3, <1>7, <2>1, <2>2, HandlerTypes
  <2> QED
    BY <2>1, <2>3 DEF FinallyHandler
<1> HIDE DEF f
<1>13. B \in Seq(Handler)
  BY <1>3, <1>7, PiecesOf
<1> HIDE DEF A, B, s
<1>14. handlers # <<>> /\ Front(handlers) = A \o B /\ Last(handlers) = f
  <2>1. handlers = A \o (B \o << f >>)
    BY <1>3, <1>10, <1>11
  <2> QED
    BY <1>3, <1>12, <1>13, <2>1, LastOfThree
<1>15. /\ handlers' = A \o B /\ stackTop' = s + 2
       /\ frames' = TopAt(c.at, Append(p, d)) /\ UNCHANGED <<runs, mode>>
  BY <1>1, <1>12, <1>14
<1>16. /\ d \in Construct /\ d.phase = "finally" /\ IsTry(d)
  <2>1. d \in Construct
    BY <1>7, ConstructTypes
  <2>2. d.phase = "finally" /\ d.kind = c.kind
    BY <1>7 DEF InFinally, Construct
  <2> QED
    BY <1>6, <2>1, <2>2 DEF IsTry
<1> DEFINE more == Append(p, d)
<1> HIDE DEF d
<1>17. /\ more \in Seq(Construct) /\ more # <<>> /\ Last(more) = d
       /\ Finallys(more) = Finallys(p) + 1 /\ Finallys(p) \in Nat
       /\ CtxHandlers(Len(frames), Top.slots, more) = B
  <2>1. more \in Seq(Construct) /\ more # <<>> /\ Last(more) = d
    BY <1>7, <1>16, Appended
  <2>2. Finallys(more) = Finallys(p) + 1 /\ Finallys(p) \in Nat
    <3>1. Finallys(more) = Finallys(p) + IF d.phase = "finally" THEN 1 ELSE 0
      BY <1>7, <1>16, FinallysOf
    <3> QED
      BY <1>7, <1>16, <3>1, FinallysOf
  <2>3. CtxHandlers(Len(frames), Top.slots, more) = B \o Owned(Len(frames), Top.slots, p, d)
    BY <1>3, <1>7, <1>16, CtxMore DEF B
  <2>4. Owned(Len(frames), Top.slots, p, d) = <<>>
    BY <1>16, OwnedCases
  <2>5. B \o <<>> = B
    BY <1>13, ConcatEmptySeq
  <2> QED
    BY <2>1, <2>2, <2>3, <2>4, <2>5
<1>18. \A i \in 1 .. Len(p) : IsTry(p[i]) => p[i].phase = "finally"
  <2> SUFFICES ASSUME NEW i \in 1 .. Len(p), IsTry(p[i]) PROVE p[i].phase = "finally"
    OBVIOUS
  <2>1. i \in 1 .. Len(Ctx) /\ i < j
    BY <1>4, <1>6, <1>7
  <2>2. p[i] = Ctx[i]
    BY <1>3, <1>6, <2>1 DEF p, Around
  <2> QED
    BY <1>1, <2>1, <2>2 DEF TryPositions
<1>19. WellFormed(more)
  BY <1>7, <1>8, <1>16, <1>18, EntersWell
<1> HIDE DEF more
<1>20. ~Waiting(more) /\ RoundStart(more, c.at)
  BY <1>16, <1>17 DEF Waiting, RoundStart
<1>21. stackTop' = Top.slots + c.at + 2 * Finallys(more)
  BY <1>3, <1>12, <1>15, <1>17 DEF s, StartOf
<1>22. handlers' = A \o CtxHandlers(Len(frames), Top.slots, more)
  BY <1>15, <1>17
<1>23. frames' = TopAt(c.at, more)
  BY <1>15 DEF more
<1> QED
  BY <1>1, <1>2, <1>12, <1>15, <1>17, <1>19, <1>20, <1>21, <1>22, <1>23, Moved DEF A

-----------------------------------------------------------------------------
(* Calls.                                                                  *)

\* A frame is pushed.
LEMMA Called ==
    ASSUME NEW fs \in Seq(Frame), NEW rs, NEW n \in Nat,
           FramesOK(fs, Bases(rs), NativeBases(rs)), SavedOK(fs, rs),
           \A b \in Bases(rs) : b \in Nat /\ b <= Len(fs),
           NEW top, top = EndOf(fs, Len(fs), NativeBases(rs)),
           Len(fs) + 1 \notin NativeBases(rs),
           frames' = Append(fs, NewFrame(top, n)), runs' = rs, mode' = "exec",
           stackTop' = top + (n + 1), handlers' = AllHandlers(fs)
    PROVE  SafeStep
<1> DEFINE f == NewFrame(top, n)
           more == Append(fs, f)
<1>1. Len(fs) \in Nat /\ top \in Nat
  <2>1. Len(fs) \in Nat /\ Len(fs) \in 0 .. Len(fs)
    OBVIOUS
  <2> QED
    BY <2>1, EndType
<1>2. f \in Frame /\ f.slots = top /\ f.locals = n + 1 /\ f.ctx = <<>>
  <2>1. f \in Frame
    BY <1>1, NewFrameType
  <2> QED
    BY <2>1 DEF NewFrame
<1>3. /\ WellFormed(f.ctx) /\ RoundStart(f.ctx, f.locals) /\ ~Waiting(f.ctx) /\ ~Returning(f.ctx)
      /\ Finallys(f.ctx) = 0
  BY <1>2, NoConstruct
<1> HIDE DEF f
<1>4. /\ more \in Seq(Frame) /\ Len(more) = Len(fs) + 1 /\ Last(more) = f
      /\ FramesOK(more, Bases(rs), NativeBases(rs))
      /\ EndOf(more, Len(fs) + 1, NativeBases(rs)) =
             f.slots + Height(f) + Gap(Len(fs) + 1, NativeBases(rs))
  BY <1>2, <1>3, FrameMore
<1>5. Gap(Len(fs) + 1, NativeBases(rs)) = 0 /\ Height(f) = n + 1
  BY <1>2, <1>3, GapType, HeightType
<1>6. AllHandlers(more) = AllHandlers(fs)
  <2>1. AllHandlers(more) = AllHandlers(fs) \o CtxHandlers(Len(fs) + 1, f.slots, f.ctx)
    BY <1>2, AllMore
  <2>2. CtxHandlers(Len(fs) + 1, f.slots, f.ctx) = <<>>
    BY <1>2, CtxEmpty
  <2>3. AllHandlers(fs) \in Seq(Handler)
    BY FramesOwned
  <2> QED
    BY <2>1, <2>2, <2>3, ConcatEmptySeq
<1>7. frames' = more
  BY DEF f
<1> HIDE DEF more
<1>8. stackTop' = EndOf(more, Len(more), NativeBases(rs))
  BY <1>1, <1>2, <1>4, <1>5
<1>9. ~Waiting(Last(more).ctx) /\ mode' \in {"exec", "unwind", "native"}
  BY <1>3, <1>4
<1>10. SavedOK(more, rs)
  <2>1. \A i \in 1 .. Len(fs) : more[i] = fs[i]
    BY <1>2, Appended DEF more
  <2> QED
    BY <1>1, <2>1, SavedAbove
<1> QED
  BY <1>4, <1>6, <1>7, <1>8, <1>9, <1>10, StepDone

\* Where the value stack ends while a run() executes.
LEMMA TopEnd ==
    ASSUME Inv, SafeInv, mode = "exec"
    PROVE  stackTop = EndOf(frames, Len(frames), NativeBases(runs))
BY DEF SafeInv, LiveInv

\* A call.
LEMMA CallSafe ==
    ASSUME Inv, SafeInv, NEW n \in 0 .. 1, Call(n)
    PROVE  SafeStep
<1>1. AtStatement /\ mode = "exec"
  BY DEF Call, AtStatement
<1>2. /\ FramesOK(frames, Bases(runs), NativeBases(runs)) /\ frames \in Seq(Frame)
      /\ Base \in Nat /\ \A b \in Bases(runs) : b \in Nat /\ b <= Base
      /\ NativeBases(runs) \subseteq Bases(runs)
      /\ Len(frames) \in Nat /\ Len(frames) > Base
      /\ handlers = AllHandlers(frames)
  BY <1>1, OnTop
<1>3. CASE HardErrorUnder(runs)
  BY <1>2, <1>3, ErrorDone
<1>4. CASE ~HardErrorUnder(runs)
  <2>1. /\ frames' = Append(frames, NewFrame(stackTop, n)) /\ stackTop' = stackTop + n + 1
        /\ UNCHANGED handlers /\ UNCHANGED <<runs, mode>>
    BY <1>4 DEF Call
  <2>2. stackTop = EndOf(frames, Len(frames), NativeBases(runs))
    BY <1>1, TopEnd
  <2>3. Len(frames) + 1 \notin NativeBases(runs)
    BY <1>2
  <2>4. stackTop' = stackTop + (n + 1) /\ n \in Nat
    <3>1. stackTop \in Int /\ stackTop' = stackTop + n + 1
      BY <1>1, <2>1, Running
    <3> QED
      BY <3>1
  <2>5. runs' = runs /\ mode' = "exec" /\ handlers' = AllHandlers(frames)
    BY <1>1, <1>2, <2>1
  <2>6. SavedOK(frames, runs) /\ \A b \in Bases(runs) : b \in Nat /\ b <= Len(frames)
    BY <1>1, <1>2, OnTop
  <2> QED
    BY <1>2, <2>1, <2>2, <2>3, <2>4, <2>5, <2>6, Called
<1> QED
  BY <1>3, <1>4

\* __next__ is called.
LEMMA ForEachNextCallSafe ==
    ASSUME Inv, SafeInv, ForEachNextCall
    PROVE  SafeStep
<1> DEFINE p == Front(Ctx)
           b == Last(Ctx)
           c == InPhase(b, "next")
           h == LoopHandler(Len(frames), stackTop, p, c)
           A == AllHandlers(Front(frames))
           B == CtxHandlers(Len(frames), Top.slots, p)
           more == Append(p, c)
           f == [slots |-> Top.slots, locals |-> Top.locals, ctx |-> more]
           fs == Append(Front(frames), f)
<1>1. AtLoopStart
  BY DEF ForEachNextCall
<1>2. /\ mode = "exec" /\ Ctx # <<>>
      /\ b \in Construct /\ b.kind = "foreach" /\ b.at \in Nat /\ Top.locals = b.at
      /\ p \in Seq(Construct) /\ Finallys(p) \in Nat
      /\ stackTop = Top.slots + b.at + 2 * Finallys(p)
      /\ Top.slots \in Int /\ Top.locals \in Nat
      /\ handlers = A \o B
  BY <1>1, AtRoundStart
<1>3. /\ FramesOK(frames, Bases(runs), NativeBases(runs)) /\ frames \in Seq(Frame) /\ frames # <<>>
      /\ Base \in Nat /\ \A i \in Bases(runs) : i \in Nat /\ i <= Base
      /\ NativeBases(runs) \subseteq Bases(runs)
      /\ Len(frames) \in Nat /\ Len(frames) > Base
      /\ Len(frames) \notin Bases(runs) /\ Gap(Len(frames), NativeBases(runs)) = 0
      /\ A \in Seq(Handler)
  BY <1>2, OnTop
<1>4. CASE HardErrorUnder(runs)
  BY <1>3, <1>4, ErrorDone
<1>5. CASE ~HardErrorUnder(runs)
  <2>1. /\ handlers' = Append(handlers, h)
        /\ frames' = Append(fs, NewFrame(stackTop, 0))
        /\ stackTop' = stackTop + 1
        /\ UNCHANGED <<runs, mode>>
    BY <1>5 DEF ForEachNextCall, TopAt, WithTop
  <2>2. /\ WellFormed(p) /\ Still(p) /\ (Returning(p) => Len(frames) - 1 # Base)
        /\ B \in Seq(Handler)
    BY <1>2, Inside
  <2> HIDE DEF p, b
  <2>3. /\ c \in Construct /\ c.phase = "next" /\ c.at = b.at
    <3>1. c \in Construct
      BY <1>2, ConstructTypes
    <3> QED
      BY <1>2, <3>1 DEF InPhase, Construct
  <2> HIDE DEF c
  <2>4. /\ more \in Seq(Construct) /\ more # <<>> /\ Last(more) = c
        /\ Finallys(more) = Finallys(p)
    <3>1. more \in Seq(Construct) /\ more # <<>> /\ Last(more) = c
      BY <1>2, <2>3, Appended
    <3>2. Finallys(more) = Finallys(p) + IF c.phase = "finally" THEN 1 ELSE 0
      BY <1>2, <2>3, FinallysOf
    <3> QED
      BY <1>2, <2>3, <3>1, <3>2
  <2>5. WellFormed(more)
    BY <1>2, <2>2, <2>3, EntersWell
  <2>6. Returning(more) => Len(frames) - 1 # Base
    BY <1>2, <2>2, <2>3, ReturningMore
  <2>7. CtxHandlers(Len(frames), Top.slots, more) = B \o << h >>
    <3>1. CtxHandlers(Len(frames), Top.slots, more) = B \o Owned(Len(frames), Top.slots, p, c)
      BY <1>2, <1>3, <2>3, CtxMore
    <3>2. Owned(Len(frames), Top.slots, p, c) =
              << LoopHandler(Len(frames), StartOf(Top.slots, p, c), p, c) >>
      BY <2>3, OwnedCases
    <3>3. StartOf(Top.slots, p, c) = stackTop
      BY <1>2, <2>3 DEF StartOf
    <3> QED
      BY <3>1, <3>2, <3>3
  <2> HIDE DEF more
  <2>8. /\ f \in Frame /\ f.slots = Top.slots /\ f.locals = Top.locals /\ f.ctx = more
    BY <1>2, <2>4 DEF Frame
  <2> HIDE DEF f
  <2>9. /\ f.slots = Last(frames).slots /\ WellFormed(f.ctx) /\ RoundStart(f.ctx, f.locals)
        /\ Waiting(f.ctx) => Len(frames) \notin Bases(runs)
        /\ Returning(f.ctx) => Len(frames) - 1 \notin Bases(runs)
    <3>1. f.slots = Last(frames).slots
      BY <2>8 DEF Top
    <3>2. Len(frames) - 1 # Base => Len(frames) - 1 \notin Bases(runs)
      BY <1>3
    <3>3. RoundStart(f.ctx, f.locals)
      BY <2>3, <2>4, <2>8 DEF RoundStart
    <3> QED
      BY <1>3, <2>5, <2>6, <2>8, <3>1, <3>2, <3>3
  <2>10. /\ fs \in Seq(Frame) /\ Len(fs) = Len(frames)
         /\ FramesOK(fs, Bases(runs), NativeBases(runs))
         /\ EndOf(fs, Len(frames), NativeBases(runs)) =
                f.slots + Height(f) + Gap(Len(frames), NativeBases(runs))
         /\ AllHandlers(fs) = A \o CtxHandlers(Len(frames), f.slots, f.ctx)
    BY <1>3, <2>8, <2>9, Replaced
  <2>17. SavedOK(fs, runs)
    <3>1. SavedOK(frames, runs)
      BY <1>2, OnTop
    <3>2. /\ Front(frames) \in Seq(Frame) /\ Len(Front(frames)) = Len(frames) - 1
          /\ \A i \in 1 .. Len(frames) - 1 : Front(frames)[i] = frames[i]
      BY <1>3, FrontLast
    <3>3. \A i \in 1 .. Len(frames) - 1 : fs[i] = frames[i]
      BY <2>8, <3>2, Appended
    <3> DEFINE m == Len(frames) - 1
    <3>4. m \in Nat /\ \A i \in Bases(runs) : i \in Nat /\ i <= m
      BY <1>3
    <3>5. \A i \in 1 .. m : fs[i] = frames[i]
      BY <3>3
    <3> HIDE DEF fs, m
    <3> QED
      BY <3>1, <3>4, <3>5, SavedAbove
  <2> HIDE DEF fs
  <2>11. Height(f) = Top.locals + 2 * Finallys(p)
    BY <2>4, <2>8, HeightType
  <2>12. stackTop = EndOf(fs, Len(fs), NativeBases(runs))
    BY <1>2, <1>3, <2>8, <2>10, <2>11
  <2>13. handlers' = AllHandlers(fs)
    <3>1. AllHandlers(fs) = A \o (B \o << h >>)
      BY <2>7, <2>8, <2>10
    <3>2. h \in Handler
      <4>1. stackTop \in Int /\ c.kind = "foreach"
        BY <1>2, <2>3 DEF Construct
      <4> QED
        BY <1>2, <1>3, <2>3, <4>1, HandlerTypes
    <3> HIDE DEF A, B, h
    <3>3. << h >> \in Seq(Handler)
      BY <3>2
    <3>4. A \o (B \o << h >>) = (A \o B) \o << h >>
      BY <1>3, <2>2, <3>3, ConcatAssociative
    <3>5. Append(A \o B, h) = (A \o B) \o << h >>
      <4>1. A \o B \in Seq(Handler)
        BY <1>3, <2>2, ConcatProperties
      <4> QED
        BY <3>2, <4>1
    <3> QED
      BY <1>2, <2>1, <3>1, <3>4, <3>5
  <2>14. Len(fs) + 1 \notin NativeBases(runs)
    BY <1>3, <2>10
  <2>15. /\ stackTop' = stackTop + (0 + 1) /\ runs' = runs /\ mode' = "exec"
         /\ frames' = Append(fs, NewFrame(stackTop, 0))
    BY <1>2, <2>1
  <2>16. /\ fs \in Seq(Frame) /\ FramesOK(fs, Bases(runs), NativeBases(runs)) /\ 0 \in Nat
    BY <1>3, <2>10
  <2>18. \A i \in Bases(runs) : i \in Nat /\ i <= Len(fs)
    BY <1>3, <2>10
  <2> QED
    BY <2>12, <2>13, <2>14, <2>15, <2>16, <2>17, <2>18, Called
<1> QED
  BY <1>4, <1>5

\* A call through C.
LEMMA NestedCallSafe ==
    ASSUME Inv, SafeInv, NEW kind \in Calls, NestedCall(kind)
    PROVE  SafeStep
<1> DEFINE r == [kind |-> kind, base |-> Len(frames), savedTop |-> stackTop + CellsBelow(kind)]
           rs == Append(runs, r)
<1>1. mode = "exec"
  BY DEF NestedCall, AtStatement
<1>2. /\ FramesOK(frames, Bases(runs), NativeBases(runs)) /\ frames \in Seq(Frame)
      /\ frames # <<>>
      /\ Base \in Nat /\ \A b \in Bases(runs) : b \in Nat /\ b <= Base
      /\ NativeBases(runs) \subseteq Bases(runs)
      /\ Len(frames) \in Nat \ {0} /\ Len(frames) > Base
      /\ Len(frames) \notin Bases(runs) /\ ~Waiting(Ctx)
      /\ handlers = AllHandlers(frames)
  BY <1>1, OnTop
<1>3. runs \in Seq(Run) /\ stackTop \in Int
  BY <1>1, Running DEF RunStack
<1>4. r \in Run /\ r.base = Len(frames) /\ r.kind = kind /\ r.savedTop = stackTop + CellsBelow(kind)
      /\ CellsBelow(kind) = (IF kind = "native" THEN 4 ELSE 0)
  <2>1. kind \in AllCalls /\ stackTop + CellsBelow(kind) \in Int
    BY <1>3, ConstantsAssumption DEF CellsBelow, NativeArgs, NativeTemps
  <2> QED
    BY <1>2, <2>1 DEF Run, CellsBelow, NativeArgs, NativeTemps
<1>5. \/ HardErrorUnder(rs)
      \/ /\ runs' = rs /\ frames' = Append(frames, NewFrame(r.savedTop, Arguments(kind)))
         /\ stackTop' = r.savedTop + Arguments(kind) + 1 /\ UNCHANGED handlers /\ UNCHANGED mode
  BY DEF NestedCall
<1> HIDE DEF r
<1>6. /\ Bases(rs) = Bases(runs) \cup {Len(frames)}
      /\ NativeBases(rs) = NativeBases(runs) \cup IF kind = "native" THEN {Len(frames)} ELSE {}
  <2>1. /\ Bases(rs) = Bases(runs) \cup {r.base}
        /\ NativeBases(rs) = NativeBases(runs) \cup IF r.kind = "native" THEN {r.base} ELSE {}
    BY <1>3, <1>4, BasesPushed
  <2> QED
    BY <1>4, <2>1
<1>7. runs \in Seq(Run) /\ rs = Append(runs, r) /\ r.base \notin Bases(runs)
  BY <1>2, <1>3, <1>4
<1> HIDE DEF rs
<1>8. CASE HardErrorUnder(rs)
  BY <1>8, ErrorDone
<1>9. CASE ~HardErrorUnder(rs)
  <2>1. FramesOK(frames, Bases(rs), NativeBases(rs))
    <3>1. ~Waiting(Last(frames).ctx)
      BY <1>2 DEF Ctx, Top
    <3>2. \A i \in 0 .. Len(frames) - 1 : i \in Bases(rs) => i \in Bases(runs)
      BY <1>2, <1>6
    <3>3. \A i \in 1 .. Len(frames) - 1 : i \in NativeBases(rs) <=> i \in NativeBases(runs)
      BY <1>2, <1>6
    <3> QED
      BY <1>2, <3>1, <3>2, <3>3, OtherRuns
  <2>2. r.savedTop = EndOf(frames, Len(frames), NativeBases(rs))
    <3> DEFINE e == frames[Len(frames)].slots + Height(frames[Len(frames)])
    <3>1. /\ EndOf(frames, Len(frames), NativeBases(rs)) = e + Gap(Len(frames), NativeBases(rs))
          /\ EndOf(frames, Len(frames), NativeBases(runs)) = e + Gap(Len(frames), NativeBases(runs))
      BY <1>2 DEF EndOf
    <3>2. e \in Int
      <4>1. Len(frames) \in 1 .. Len(frames)
        BY <1>2
      <4>2. frames[Len(frames)] \in Frame /\ frames[Len(frames)].slots \in Int
        BY <1>2, <4>1, FrameFields
      <4> QED
        BY <4>2, HeightType
    <3> HIDE DEF e
    <3>3. Gap(Len(frames), NativeBases(runs)) = 0
      BY <1>2, GapType
    <3>4. Gap(Len(frames), NativeBases(rs)) = IF kind = "native" THEN 4 ELSE 0
      <4>1. Len(frames) \in NativeBases(rs) <=> kind = "native"
        BY <1>2, <1>6
      <4> QED
        BY <4>1, GapType
    <3>5. stackTop = EndOf(frames, Len(frames), NativeBases(runs))
      BY <1>1, TopEnd
    <3> QED
      BY <1>3, <1>4, <3>1, <3>2, <3>3, <3>4, <3>5
  <2>3. Len(frames) + 1 \notin NativeBases(rs)
    BY <1>2, <1>6
  <2>4. /\ frames' = Append(frames, NewFrame(r.savedTop, Arguments(kind))) /\ runs' = rs
        /\ mode' = "exec" /\ handlers' = AllHandlers(frames)
        /\ stackTop' = r.savedTop + Arguments(kind) + 1
    BY <1>1, <1>2, <1>5, <1>9
  <2>5. Arguments(kind) \in Nat /\ stackTop' = r.savedTop + (Arguments(kind) + 1)
    <3>1. r.savedTop \in Int /\ Arguments(kind) \in Nat
      BY <1>4 DEF Run, Arguments
    <3>2. \A m, n \in Int : m + n + 1 = m + (n + 1)
      OBVIOUS
    <3>3. stackTop' = r.savedTop + Arguments(kind) + 1
      BY <2>4
    <3> HIDE DEF r
    <3> QED
      BY <3>1, <3>2, <3>3
  <2>6. SavedOK(frames, rs)
    <3>1. SavedOK(frames, runs)
      BY <1>1, OnTop
    <3>2. r.savedTop = EndOf(frames, r.base, NativeBases(Append(runs, r)))
      BY <1>4, <1>7, <2>2
    <3> QED
      BY <1>4, <1>7, <3>1, <3>2, SavedPushed
  <2>7. \A b \in Bases(rs) : b \in Nat /\ b <= Len(frames)
    BY <1>2, <1>6
  <2> HIDE DEF r
  <2> DEFINE n == Arguments(kind)
  <2>8. /\ n \in Nat /\ frames' = Append(frames, NewFrame(r.savedTop, n))
        /\ stackTop' = r.savedTop + (n + 1)
    BY <2>4, <2>5
  <2> HIDE DEF n
  <2> QED
    BY <1>2, <2>1, <2>2, <2>3, <2>4, <2>6, <2>7, <2>8, Called
<1> QED
  BY <1>8, <1>9

\* interpret() starts on an empty stack, or below one.
LEMMA InterpretSafe ==
    ASSUME Inv, SafeInv, Interpret
    PROVE  SafeInv' /\ (mode' = "wild" => stackTop < 0) /\ mode' \in {"exec", "wild"}
<1> DEFINE r == [kind |-> "interpret", base |-> 0, savedTop |-> 0]
           rs == << r >>
<1>1. mode = "idle" /\ stackTop <= 0 /\ stackTop \in Int /\ handlers = <<>> /\ frames = <<>>
  BY DEF Interpret, SafeInv, RestInv, Inv, RunNesting, TypeOK
<1>2. CASE stackTop < 0
  <2>1. mode' = "wild"
    BY <1>2 DEF Interpret, GoWild
  <2> QED
    BY <1>2, <2>1 DEF SafeInv, RestInv
<1>3. CASE stackTop = 0
  <2>1. /\ frames' = << NewFrame(0, 0) >> /\ stackTop' = 1 /\ runs' = rs /\ mode' = "exec"
        /\ UNCHANGED handlers
    BY <1>1, <1>3 DEF Interpret
  <2>2. Bases(rs) = {0} /\ NativeBases(rs) = {}
    <3>1. Len(rs) = 1 /\ rs[1].kind = "interpret" /\ rs[1].base = 0
      OBVIOUS
    <3> HIDE DEF rs
    <3> QED
      BY <3>1 DEF NativeBases, Bases
  <2> DEFINE none == <<>>
  <2>3. /\ none \in Seq(Frame) /\ Len(none) = 0
        /\ FramesOK(none, Bases(rs), NativeBases(rs))
        /\ 0 = EndOf(none, Len(none), NativeBases(rs))
        /\ \A b \in Bases(rs) : b \in Nat /\ b <= Len(none)
    BY <2>2, EmptyStacks DEF FramesOK, EndOf
  <2>4. SavedOK(none, rs)
    <3>1. \A k \in 1 .. Len(rs) : rs[k].savedTop = 0 /\ rs[k].base = 0
      OBVIOUS
    <3> HIDE DEF rs
    <3> QED
      BY <3>1 DEF SavedOK, EndOf
  <2>5. /\ frames' = Append(none, NewFrame(0, 0)) /\ stackTop' = 0 + (0 + 1)
        /\ handlers' = AllHandlers(none) /\ runs' = rs
    <3>1. Append(none, NewFrame(0, 0)) = << NewFrame(0, 0) >>
      OBVIOUS
    <3> QED
      BY <1>1, <2>1, <3>1, AllEmpty
  <2>6. Len(none) + 1 \notin NativeBases(rs) /\ 0 \in Nat
    BY <2>2
  <2> HIDE DEF none, rs
  <2>7. SafeStep
    BY <2>1, <2>3, <2>4, <2>5, <2>6, Called
  <2> QED
    BY <2>1, <2>7 DEF SafeStep
<1> QED
  BY <1>1, <1>2, <1>3

-----------------------------------------------------------------------------
(* Returns.                                                                *)

\* A frame that has returned: what is left below it.
LEMMA BelowTop ==
    ASSUME Inv, SafeInv, mode = "exec", CtxHandlers(Len(frames), Top.slots, Ctx) = <<>>
    PROVE  LET fs == Front(frames)
           IN  /\ fs \in Seq(Frame) /\ Len(fs) = Len(frames) - 1
               /\ FramesOK(fs, Bases(runs), NativeBases(runs))
               /\ handlers = AllHandlers(fs)
               /\ Top.slots = EndOf(fs, Len(fs), NativeBases(runs))
<1> DEFINE fs == Front(frames)
           n == Len(frames)
<1>1. /\ frames \in Seq(Frame) /\ frames # <<>> /\ n \in Nat \ {0}
      /\ FramesOK(frames, Bases(runs), NativeBases(runs))
      /\ Top.slots = EndOf(frames, n - 1, NativeBases(runs))
      /\ AllHandlers(fs) \in Seq(Handler)
      /\ handlers = AllHandlers(fs) \o CtxHandlers(n, Top.slots, Ctx)
  BY OnTop
<1>2. fs = SubSeq(frames, 1, n - 1) /\ n - 1 \in 0 .. n /\ n - 1 \in 0 .. n - 1
  BY <1>1, TopHandlers
<1>3. /\ SubSeq(frames, 1, n - 1) \in Seq(Frame) /\ Len(SubSeq(frames, 1, n - 1)) = n - 1
      /\ FramesOK(SubSeq(frames, 1, n - 1), Bases(runs), NativeBases(runs))
      /\ \A i \in 0 .. n - 1 : EndOf(SubSeq(frames, 1, n - 1), i, NativeBases(runs)) =
                                   EndOf(frames, i, NativeBases(runs))
  BY <1>1, <1>2, FramesBelow
<1>4. handlers = AllHandlers(fs)
  BY <1>1, ConcatEmptySeq
<1> HIDE DEF n, fs
<1>5. /\ fs \in Seq(Frame) /\ Len(fs) = n - 1 /\ FramesOK(fs, Bases(runs), NativeBases(runs))
      /\ EndOf(fs, n - 1, NativeBases(runs)) = EndOf(frames, n - 1, NativeBases(runs))
  BY <1>2, <1>3
<1> QED
  BY <1>1, <1>4, <1>5 DEF fs, n

\* A call returns into a frame of the same run().
LEMMA ResumedSafe ==
    ASSUME Inv, SafeInv, mode = "exec", CtxHandlers(Len(frames), Top.slots, Ctx) = <<>>,
           Len(frames) - 1 # Base, ResumeCaller(Front(frames), Top.slots),
           UNCHANGED <<runs, mode>>
    PROVE  SafeStep
<1> DEFINE fs == Front(frames)
           caller == Last(fs)
           m == Len(fs)
           N == NativeBases(runs)
<1>1. /\ fs \in Seq(Frame) /\ m = Len(frames) - 1
      /\ FramesOK(fs, Bases(runs), N)
      /\ handlers = AllHandlers(fs)
      /\ Top.slots = EndOf(fs, m, N)
  BY BelowTop
<1>2. /\ Base \in Nat /\ \A b \in Bases(runs) : b \in Nat /\ b <= Base
      /\ Len(frames) \in Nat /\ Len(frames) > Base
      /\ SavedOK(frames, runs) /\ frames \in Seq(Frame) /\ frames # <<>>
  BY OnTop
<1>10. SavedOK(fs, runs)
  <2>1. \A i \in 1 .. Len(frames) - 1 : fs[i] = frames[i]
    BY <1>2, FrontLast
  <2>2. \A i \in 1 .. Base : fs[i] = frames[i]
    BY <1>2, <2>1
  <2> QED
    BY <1>2, <2>2, SavedAbove
<1> HIDE DEF fs
<1>3. m \in Nat \ {0} /\ m \notin Bases(runs) /\ fs # <<>> /\ m \in 1 .. m
  <2>1. m \in Nat /\ m > Base
    BY <1>1, <1>2
  <2> QED
    BY <1>1, <1>2, <2>1, EmptyLen
<1>4. /\ Front(fs) \in Seq(Frame) /\ caller = fs[m] /\ caller \in Frame
      /\ handlers = AllHandlers(Front(fs)) \o CtxHandlers(m, caller.slots, caller.ctx)
  BY <1>1, <1>3, TopHandlers
<1>5. /\ caller.slots \in Int /\ caller.locals \in Nat /\ caller.ctx \in Seq(Construct)
      /\ Finallys(caller.ctx) \in Nat /\ Height(caller) = caller.locals + 2 * Finallys(caller.ctx)
  BY <1>4, HeightType
<1>6. /\ WellFormed(caller.ctx) /\ (Returning(caller.ctx) => m - 1 \notin Bases(runs))
  BY <1>1, <1>3, <1>4 DEF FramesOK, FrameOK
<1>7. Top.slots = caller.slots + caller.locals + 2 * Finallys(caller.ctx) + Gap(m, N)
  <2>1. Top.slots = caller.slots + Height(caller) + Gap(m, N)
    BY <1>1, <1>3, <1>4 DEF EndOf
  <2> HIDE DEF caller, m, N
  <2>2. Gap(m, N) \in Nat
    BY GapType
  <2> QED
    BY <1>5, <2>1, <2>2
<1>8. CASE Waiting(caller.ctx)
  <2> DEFINE ctx == caller.ctx
             p == Front(ctx)
             c == Last(ctx)
             d == InPhase(c, "body")
             more == Append(p, d)
             f == [slots |-> caller.slots, locals |-> caller.locals + 1, ctx |-> more]
             moved == Append(Front(fs), f)
             A == AllHandlers(Front(fs))
             B == CtxHandlers(m, caller.slots, p)
             h == LoopHandler(m, StartOf(caller.slots, p, c), p, c)
  <2>1. /\ frames' = moved /\ handlers' = Front(handlers) /\ stackTop' = Top.slots + 1
    BY <1>8 DEF ResumeCaller, Waiting, fs
  <2>2. ctx # <<>> /\ c.phase = "next"
    BY <1>8 DEF Waiting
  <2> HIDE DEF caller, m, N
  <2>3. /\ p \in Seq(Construct) /\ c \in Construct /\ Len(ctx) \in Nat \ {0}
        /\ p = SubSeq(ctx, 1, Len(ctx) - 1)
        /\ Finallys(ctx) = Finallys(p) + IF c.phase = "finally" THEN 1 ELSE 0
        /\ Finallys(p) \in Nat
        /\ CtxHandlers(m, caller.slots, ctx) = B \o Owned(m, caller.slots, p, c)
    BY <1>3, <1>5, <2>2, InnermostConstruct
  <2>4. /\ WellFormed(p) /\ Still(p) /\ (Returning(p) => Returning(ctx))
    <3>1. Len(ctx) - 1 \in 0 .. Len(ctx) - 1
      BY <2>3
    <3> HIDE DEF p, ctx
    <3> QED
      BY <1>5, <1>6, <2>3, <3>1, LeavesWell DEF ctx
  <2> HIDE DEF p, c, ctx
  <2>5. /\ d \in Construct /\ d.phase = "body" /\ c.kind = "foreach" /\ ~IsTry(d)
    <3>1. c.kind = "foreach"
      BY <2>2, <2>3 DEF Construct
    <3>2. d \in Construct
      BY <2>3, <3>1, ConstructTypes
    <3>3. d.phase = "body" /\ d.kind = c.kind
      BY <2>3 DEF Construct, InPhase
    <3> QED
      BY <3>1, <3>2, <3>3 DEF IsTry
  <2> HIDE DEF d
  <2>6. /\ more \in Seq(Construct) /\ more # <<>> /\ Last(more) = d
        /\ Finallys(more) = Finallys(ctx)
        /\ CtxHandlers(m, caller.slots, more) = B \o <<>>
    <3>1. more \in Seq(Construct) /\ more # <<>> /\ Last(more) = d
      <4>1. p \in Seq(Construct) /\ d \in Construct
        BY <2>3, <2>5
      <4> QED
        BY <4>1, Appended
    <3>2. Finallys(more) = Finallys(p) + IF d.phase = "finally" THEN 1 ELSE 0
      BY <2>3, <2>5, FinallysOf
    <3>3. CtxHandlers(m, caller.slots, more) = B \o Owned(m, caller.slots, p, d)
      BY <1>3, <1>5, <2>3, <2>5, CtxMore
    <3>4. Owned(m, caller.slots, p, d) = <<>>
      BY <2>5, OwnedCases
    <3>5. Finallys(more) = Finallys(ctx)
      BY <2>2, <2>3, <2>5, <3>2
    <3> QED
      BY <3>1, <3>3, <3>4, <3>5
  <2>7. WellFormed(more) /\ (Returning(more) => Returning(ctx))
    <3>1. WellFormed(more)
      BY <2>3, <2>4, <2>5, EntersWell
    <3> QED
      BY <2>3, <2>4, <2>5, <3>1, ReturningMore
  <2> HIDE DEF more
  <2>8. /\ f \in Frame /\ f.slots = caller.slots /\ f.locals = caller.locals + 1 /\ f.ctx = more
    BY <1>5, <2>6 DEF Frame
  <2> HIDE DEF f
  <2>9. /\ f.slots = Last(fs).slots /\ WellFormed(f.ctx) /\ RoundStart(f.ctx, f.locals)
        /\ ~Waiting(f.ctx)
        /\ Returning(f.ctx) => m - 1 \notin Bases(runs)
    BY <1>6, <2>5, <2>6, <2>7, <2>8 DEF RoundStart, Waiting, caller, ctx
  <2>10. /\ Len(moved) = m /\ Last(moved) = f
         /\ FramesOK(moved, Bases(runs), N)
         /\ EndOf(moved, m, N) = f.slots + Height(f) + Gap(m, N)
         /\ AllHandlers(moved) = A \o CtxHandlers(m, f.slots, f.ctx)
    BY <1>1, <1>3, <2>8, <2>9, Replaced DEF m
  <2>16. SavedOK(moved, runs)
    <3>1. /\ \A i \in 1 .. m - 1 : Front(fs)[i] = fs[i]
          /\ Len(Front(fs)) = m - 1
      BY <1>1, <1>3, FrontLast DEF m
    <3>2. \A i \in 1 .. m - 1 : moved[i] = fs[i]
      <4>1. \A i \in 1 .. Len(Front(fs)) : moved[i] = Front(fs)[i]
        BY <1>4, <2>8, Appended
      <4> HIDE DEF moved
      <4> QED
        BY <3>1, <4>1
    <3> DEFINE k == m - 1
    <3>3. k \in Nat /\ \A b \in Bases(runs) : b \in Nat /\ b <= k
      BY <1>1, <1>2, <1>3
    <3>4. \A i \in 1 .. k : moved[i] = fs[i]
      BY <3>2
    <3> HIDE DEF moved, k
    <3> QED
      BY <1>10, <3>3, <3>4, SavedAbove
  <2> HIDE DEF moved
  <2>11. stackTop' = EndOf(moved, Len(moved), N)
    <3>1. Height(f) = (caller.locals + 1) + 2 * Finallys(ctx)
      BY <2>6, <2>8, HeightType
    <3>2. /\ EndOf(moved, Len(moved), N) = caller.slots + Height(f) + Gap(m, N)
          /\ Top.slots = caller.slots + caller.locals + 2 * Finallys(ctx) + Gap(m, N)
          /\ stackTop' = Top.slots + 1
          /\ caller.slots \in Int /\ caller.locals \in Nat /\ Finallys(ctx) \in Nat
      BY <1>5, <1>7, <2>1, <2>8, <2>10 DEF ctx
    <3>3. Gap(m, N) \in Nat
      BY GapType
    <3> QED
      BY <3>1, <3>2, <3>3
  <2>12. handlers' = AllHandlers(moved)
    <3>1. c.phase = "next" => Owned(m, caller.slots, p, c) = << h >>
      BY <2>3, OwnedCases
    <3>2. handlers = A \o (B \o << h >>)
      BY <1>4, <2>2, <2>3, <3>1 DEF ctx
    <3>3. A \in Seq(Handler) /\ B \in Seq(Handler)
      BY <1>3, <1>4, <1>5, <2>3, FramesOwned, PiecesOf
    <3>4. h \in Handler
      <4>1. c.at \in Nat
        BY <2>3, LoopLocals
      <4>2. StartOf(caller.slots, p, c) \in Int
        <5>1. caller.slots \in Int /\ Finallys(p) \in Nat
          BY <1>5, <2>3
        <5> QED
          BY <4>1, <5>1 DEF StartOf
      <4> QED
        BY <1>3, <2>3, <2>5, <4>2, HandlerTypes
    <3> HIDE DEF A, B, h
    <3>5. Front(A \o (B \o << h >>)) = A \o B
      BY <3>3, <3>4, LastOfThree
    <3>6. AllHandlers(moved) = A \o B
      BY <2>6, <2>8, <2>10, <3>3, ConcatEmptySeq
    <3> QED
      BY <2>1, <3>2, <3>5, <3>6
  <2>13. ~Waiting(Last(moved).ctx) /\ runs' = runs /\ mode' \in {"exec", "unwind", "native"}
    BY <2>9, <2>10
  <2>14. frames' = moved
    BY <1>2, <2>1 DEF N
  <2>15. /\ FramesOK(moved, Bases(runs), NativeBases(runs))
         /\ stackTop' = EndOf(moved, Len(moved), NativeBases(runs))
    BY <2>10, <2>11 DEF N
  <2> QED
    BY <2>12, <2>13, <2>14, <2>15, <2>16, StepDone
<1>9. CASE ~Waiting(caller.ctx)
  <2>1. frames' = fs /\ stackTop' = Top.slots /\ UNCHANGED handlers
    BY <1>9 DEF ResumeCaller, Waiting, fs
  <2>2. /\ runs' = runs /\ mode' \in {"exec", "unwind", "native"}
        /\ stackTop' = EndOf(fs, Len(fs), NativeBases(runs))
        /\ FramesOK(fs, Bases(runs), NativeBases(runs)) /\ handlers' = AllHandlers(fs)
    BY <1>1, <1>2, <2>1
  <2> QED
    BY <1>9, <1>10, <2>1, <2>2, StepDone
<1> QED
  BY <1>8, <1>9

\* interpret()'s run() is the only one that starts from no frame.
LEMMA BaseAboveZero ==
    ASSUME NEW rs, RunStack(rs), rs # <<>>
    PROVE  /\ Last(rs).kind # "interpret" => Last(rs).base \in Nat \ {0}
           /\ Last(rs).kind = "interpret" => Last(rs).base = 0
<1>1. /\ rs \in Seq(Run) /\ Len(rs) \in Nat /\ Len(rs) > 0 /\ Last(rs) = rs[Len(rs)]
      /\ Last(rs) \in Run
  BY FrontLast DEF RunStack
<1>2. Len(rs) \in 1 .. Len(rs)
  BY <1>1
<1>3. ASSUME Last(rs).kind = "interpret" PROVE Last(rs).base = 0
  <2>1. Len(rs) = 1
    BY <1>1, <1>2, <1>3 DEF RunStack
  <2> QED
    BY <1>1, <2>1 DEF RunStack
<1>4. ASSUME Last(rs).kind # "interpret" PROVE Last(rs).base \in Nat \ {0}
  <2>1. Last(Front(rs)) \in Run /\ Last(Front(rs)).base < Last(rs).base
    BY <1>4, RunPopped
  <2>2. Last(Front(rs)).base \in Nat /\ Last(rs).base \in Nat
    BY <1>1, <2>1 DEF Run
  <2> QED
    BY <2>1, <2>2
<1> QED
  BY <1>3, <1>4

\* The base frame of a run() returns.
LEMMA LeftRunSafe ==
    ASSUME Inv, SafeInv, mode = "exec", CtxHandlers(Len(frames), Top.slots, Ctx) = <<>>,
           Len(frames) - 1 = Base, ReturnFromRun(Front(frames), Top.slots)
    PROVE  SafeStep
<1> DEFINE fs == Front(frames)
           N == NativeBases(runs)
<1>1. /\ fs \in Seq(Frame) /\ Len(fs) = Base
      /\ FramesOK(fs, Bases(runs), N)
      /\ handlers = AllHandlers(fs)
      /\ Top.slots = EndOf(fs, Base, N)
  BY BelowTop
<1>2. /\ Base \in Nat /\ Base \in Bases(runs)
      /\ \A b \in Bases(runs) : b \in Nat /\ b <= Base
      /\ SavedOK(frames, runs) /\ frames \in Seq(Frame) /\ frames # <<>>
      /\ Len(frames) \in Nat /\ Len(frames) > Base
  BY OnTop
<1>11. SavedOK(fs, runs)
  <2>1. \A i \in 1 .. Len(frames) - 1 : fs[i] = frames[i]
    BY <1>2, FrontLast
  <2>2. \A i \in 1 .. Base : fs[i] = frames[i]
    BY <1>2, <2>1
  <2> QED
    BY <1>2, <2>2, SavedAbove
<1>3. frames' = fs /\ stackTop' = Top.slots /\ UNCHANGED handlers
  BY DEF ReturnFromRun
<1>4. RunStack(runs) /\ runs # <<>> /\ Last(runs) \in Run
  BY Running
<1>5. /\ Bases(Front(runs)) \subseteq Bases(runs)
      /\ NativeBases(Front(runs)) \subseteq N
      /\ Last(runs).kind # "native" => NativeBases(Front(runs)) = N
  BY <1>4, BasesPopped
<1>6. /\ Last(runs).kind # "interpret" => Base \in Nat \ {0}
      /\ Last(runs).kind = "interpret" => Base = 0
  BY <1>4, BaseAboveZero DEF Base
<1> HIDE DEF fs, N
<1>7. ASSUME Last(runs).kind # "interpret" PROVE ~Waiting(Last(fs).ctx)
  <2>1. Base \in 1 .. Len(fs) /\ Last(fs) = fs[Base]
    BY <1>1, <1>6, <1>7 DEF Last
  <2>2. FrameOK(fs, Base, Bases(runs), N)
    BY <1>1, <2>1 DEF FramesOK
  <2> QED
    BY <1>2, <2>1, <2>2 DEF FrameOK
<1>8. CASE Last(runs).kind = "interpret"
  <2>1. mode' = AfterProgram /\ runs' = Front(runs)
    BY <1>8 DEF ReturnFromRun, Swallows
  <2>2. fs = <<>> /\ Base = 0
    BY <1>1, <1>6, <1>8, EmptyLen
  <2>3. handlers' = <<>> /\ stackTop' = 0
    BY <1>1, <1>3, <2>2, AllEmpty DEF EndOf
  <2>4. mode' \in {"idle", "error", "exited"} /\ mode' # "error"
    BY <2>1 DEF AfterProgram
  <2> QED
    BY <2>3, <2>4, Stopped
<1>9. CASE Last(runs).kind = "native"
  <2>1. mode' = "native" /\ runs' = runs
    BY <1>9 DEF ReturnFromRun, Swallows
  <2>2. ~Waiting(Last(fs).ctx)
    BY <1>7, <1>9
  <2>3. /\ FramesOK(fs, Bases(runs), NativeBases(runs))
        /\ stackTop' = EndOf(fs, Len(fs), NativeBases(runs)) /\ handlers' = AllHandlers(fs)
    BY <1>1, <1>2, <1>3 DEF N
  <2> QED
    BY <1>3, <1>11, <2>1, <2>2, <2>3, StepDone
<1>10. CASE Last(runs).kind \in {"magic"} \cup Swallows
  <2>1. mode' = "exec" /\ runs' = Front(runs)
    BY <1>10 DEF ReturnFromRun, Swallows
  <2>2. ~Waiting(Last(fs).ctx)
    BY <1>7, <1>10 DEF Swallows
  <2>3. NativeBases(Front(runs)) = N
    BY <1>5, <1>10 DEF Swallows
  <2>4. FramesOK(fs, Bases(Front(runs)), N)
    <3>1. \A i \in 0 .. Len(fs) - 1 : i \in Bases(Front(runs)) => i \in Bases(runs)
      BY <1>5
    <3> QED
      BY <1>1, <2>2, <3>1, OtherRuns
  <2>5. /\ FramesOK(fs, Bases(Front(runs)), NativeBases(Front(runs)))
        /\ stackTop' = EndOf(fs, Len(fs), NativeBases(Front(runs))) /\ handlers' = AllHandlers(fs)
    BY <1>1, <1>2, <1>3, <2>3, <2>4
  <2>6. SavedOK(fs, Front(runs))
    BY <1>4, <1>11, SavedPopped
  <2> QED
    BY <1>3, <2>1, <2>2, <2>5, <2>6, StepDone
<1> QED
  BY <1>4, <1>8, <1>9, <1>10 DEF Run, AllCalls, Swallows

\* A return outside every try.
LEMMA ReturnSafe ==
    ASSUME Inv, SafeInv, Return
    PROVE  SafeStep
<1>1. mode = "exec" /\ ~InTry
  BY DEF Return, AtStatement
<1>2. CtxHandlers(Len(frames), Top.slots, Ctx) = <<>>
  BY <1>1, OutsideTries
<1>3. CASE Len(frames) - 1 = Base
  BY <1>1, <1>2, <1>3, LeftRunSafe DEF Return
<1>4. CASE Len(frames) - 1 # Base
  BY <1>1, <1>2, <1>4, ResumedSafe DEF Return
<1> QED
  BY <1>3, <1>4

\* An exception is thrown.
LEMMA RaiseSafe ==
    ASSUME Inv, SafeInv, mode = "exec", Raise
    PROVE  SafeStep
<1>1. /\ FramesOK(frames, Bases(runs), NativeBases(runs)) /\ ~Waiting(Ctx)
      /\ handlers = AllHandlers(frames) /\ SavedOK(frames, runs)
  BY OnTop
<1>2. CASE handlers = <<>>
  BY <1>2, ErrorDone DEF Raise
<1>3. CASE handlers # <<>>
  <2>1. mode' = "unwind" /\ UNCHANGED <<frames, stackTop, handlers, runs>>
    BY <1>3 DEF Raise
  <2>2. ~Waiting(Last(frames).ctx)
    BY <1>1 DEF Ctx, Top
  <2> QED
    BY <1>1, <2>1, <2>2, StepDone
<1> QED
  BY <1>2, <1>3

\* The end of a finally block.
LEMMA EndFinallySafe ==
    ASSUME Inv, SafeInv, EndFinally
    PROVE  SafeStep
<1> DEFINE c == Last(Ctx)
           top == stackTop - (Top.locals - c.at) - 2
<1>1. /\ mode = "exec" /\ Ctx # <<>> /\ c.phase = "finally"
  BY DEF EndFinally, AtStatement
<1>2. \/ /\ c.tag = "normal" /\ stackTop' = top /\ frames' = TopAt(c.at, Front(Ctx))
         /\ UNCHANGED <<handlers, runs, mode, pendingUnwind>>
      \/ c.tag = "exception" /\ Raise
      \/ /\ c.tag = "return"
         /\ IF Len(frames) - 1 = Base
            THEN ReturnFromRun(Front(frames), top - 2)
            ELSE ResumeCaller(Front(frames), Top.slots) /\ UNCHANGED <<runs, mode>>
  BY DEF EndFinally
<1>3. CASE /\ c.tag = "normal" /\ stackTop' = top /\ frames' = TopAt(c.at, Front(Ctx))
           /\ UNCHANGED <<handlers, runs, mode, pendingUnwind>>
  BY <1>1, <1>3, EndNormally
<1>4. CASE c.tag = "exception" /\ Raise
  BY <1>1, <1>4, RaiseSafe
<1>5. CASE /\ c.tag = "return"
           /\ IF Len(frames) - 1 = Base
              THEN ReturnFromRun(Front(frames), top - 2)
              ELSE ResumeCaller(Front(frames), Top.slots) /\ UNCHANGED <<runs, mode>>
  <2>1. /\ Ctx \in Seq(Construct) /\ WellFormed(Ctx) /\ ~Waiting(Ctx)
        /\ Returning(Ctx) => Len(frames) - 1 # Base
        /\ Len(frames) \in Nat /\ Top.slots \in Int
    BY <1>1, OnTop
  <2>2. Len(Ctx) \in 1 .. Len(Ctx) /\ c = Ctx[Len(Ctx)]
    <3>1. Len(Ctx) \in Nat /\ Len(Ctx) > 0 /\ c = Ctx[Len(Ctx)]
      BY <1>1, <2>1, FrontLast
    <3> QED
      BY <3>1
  <2> HIDE DEF top
  <2>3. ReturnsAt(Ctx, Len(Ctx))
    BY <1>1, <1>5, <2>2 DEF ReturnsAt
  <2>4. Len(frames) - 1 # Base
    BY <2>1, <2>2, <2>3 DEF Returning
  <2>5. \A i \in 1 .. Len(Ctx) : IsTry(Ctx[i]) => Ctx[i].phase = "finally"
    <3> SUFFICES ASSUME NEW i \in 1 .. Len(Ctx), IsTry(Ctx[i]) PROVE Ctx[i].phase = "finally"
      OBVIOUS
    <3>1. CASE i = Len(Ctx)
      BY <1>1, <2>2, <3>1
    <3>2. CASE i # Len(Ctx)
      <4>1. i < Len(Ctx)
        BY <2>2, <3>2
      <4> QED
        BY <2>1, <2>2, <2>3, <4>1 DEF WellFormed
    <3> QED
      BY <3>1, <3>2
  <2>6. CtxHandlers(Len(frames), Top.slots, Ctx) = <<>>
    BY <2>1, <2>5, OwnsNothing
  <2>7. ResumeCaller(Front(frames), Top.slots) /\ UNCHANGED <<runs, mode>>
    BY <1>5, <2>4
  <2> QED
    BY <1>1, <2>4, <2>6, <2>7, ResumedSafe
<1> QED
  BY <1>2, <1>3, <1>4, <1>5

-----------------------------------------------------------------------------
(* Landing.                                                                *)

\* No construct inside the j-th one of frame i owns a handler, nor any frame above.
OwnNothingAbove(fs, i, j) ==
    /\ \A k \in j + 1 .. Len(fs[i].ctx) :
          Owned(i, fs[i].slots, Around(fs[i].ctx, k), fs[i].ctx[k]) = <<>>
    /\ \A k \in i + 1 .. Len(fs) : CtxHandlers(k, fs[k].slots, fs[k].ctx) = <<>>

\* The handler on top: the last one of the innermost construct that owns any.
LEMMA OwnerOnTop ==
    ASSUME NEW fs \in Seq(Frame), AllHandlers(fs) # <<>>
    PROVE  \E i \in 1 .. Len(fs) : \E j \in 1 .. Len(fs[i].ctx) :
               LET p   == Around(fs[i].ctx, j)
                   own == Owned(i, fs[i].slots, p, fs[i].ctx[j])
               IN  /\ own # <<>>
                   /\ AllHandlers(fs) = AllHandlers(SubSeq(fs, 1, i - 1)) \o
                                            (CtxHandlers(i, fs[i].slots, p) \o own)
                   /\ OwnNothingAbove(fs, i, j)
<1>1. PICK i \in 1 .. Len(fs) :
          /\ CtxHandlers(i, fs[i].slots, fs[i].ctx) # <<>>
          /\ \A k \in i + 1 .. Len(fs) : CtxHandlers(k, fs[k].slots, fs[k].ctx) = <<>>
  BY AllOwner
<1>2. fs[i].slots \in Int /\ fs[i].ctx \in Seq(Construct) /\ i \in Nat
  BY FrameFields
<1>3. PICK j \in 1 .. Len(fs[i].ctx) :
          /\ Owned(i, fs[i].slots, Around(fs[i].ctx, j), fs[i].ctx[j]) # <<>>
          /\ \A k \in j + 1 .. Len(fs[i].ctx) :
                Owned(i, fs[i].slots, Around(fs[i].ctx, k), fs[i].ctx[k]) = <<>>
  BY <1>1, <1>2, CtxOwner
<1>4. AllHandlers(fs) = AllHandlers(SubSeq(fs, 1, i - 1)) \o CtxHandlers(i, fs[i].slots, fs[i].ctx)
  BY <1>1, AllUpTo
<1>5. CtxHandlers(i, fs[i].slots, fs[i].ctx) =
          CtxHandlers(i, fs[i].slots, Around(fs[i].ctx, j)) \o
              Owned(i, fs[i].slots, Around(fs[i].ctx, j), fs[i].ctx[j])
  BY <1>2, <1>3, CtxUpTo
<1> QED
  BY <1>1, <1>3, <1>4, <1>5 DEF OwnNothingAbove

\* What a construct that owns a handler may be.
LEMMA Owners ==
    ASSUME NEW fc, NEW slots, NEW outer, NEW c \in Construct, Owned(fc, slots, outer, c) # <<>>
    PROVE  \/ IsTry(c) /\ c.phase = "body" /\ c.catch
           \/ IsTry(c) /\ c.phase = "body" /\ ~c.catch
           \/ IsTry(c) /\ c.phase = "catch"
           \/ c.kind = "foreach" /\ c.phase = "next"
BY OwnedCases DEF Construct

\* A catch block takes over the finally handler of its try.
LEMMA CatchLands ==
    ASSUME NEW fc \in Nat, NEW slots \in Int, NEW outer \in Seq(Construct), NEW c \in Construct,
           IsTry(c), c.phase = "body", c.catch
    PROVE  LET top == StartOf(slots, outer, c)
               d   == InPhase(Entered(c), "catch")
           IN  /\ d \in Construct /\ IsTry(d) /\ d.phase = "catch" /\ d.at = c.at
               /\ Owned(fc, slots, outer, d) = << FinallyHandler(fc, top, outer, Entered(c)) >>
<1> DEFINE e == Entered(c)
           d == InPhase(e, "catch")
<1>1. /\ e \in Construct /\ e.kind = c.kind /\ e.at = c.at /\ e.catch = c.catch
      /\ e.phase = "body" /\ e.tag = "none"
  BY DEF Entered, Construct
<1> HIDE DEF e
<1>2. d \in Construct
  BY <1>1, ConstructTypes
<1>3. /\ d.kind = e.kind /\ d.phase = "catch" /\ d.at = e.at /\ d.catch = e.catch /\ d.tag = "none"
  BY <1>1 DEF InPhase, Construct
<1>4. Entered(d) = e
  BY <1>1, <1>2, <1>3 DEF Entered, InPhase, Construct
<1> HIDE DEF d
<1>5. Owned(fc, slots, outer, d) = << FinallyHandler(fc, StartOf(slots, outer, d), outer, Entered(d)) >>
  <2>1. IsTry(d)
    BY <1>1, <1>3 DEF IsTry
  <2> QED
    BY <1>2, <1>3, <2>1, OwnedCases
<1>6. StartOf(slots, outer, d) = StartOf(slots, outer, c)
  BY <1>1, <1>3 DEF StartOf
<1> QED
  BY <1>1, <1>2, <1>3, <1>4, <1>5, <1>6 DEF IsTry, d, e

\* A context that a handler enters: the outer one and a catch or finally block.
LEMMA BlockEntered ==
    ASSUME NEW fc \in Nat, NEW slots \in Int, NEW outer \in Seq(Construct), NEW d \in Construct,
           WellFormed(outer), Still(outer), IsTry(d), d.phase \in {"catch", "finally"},
           d.phase = "finally" => d.tag # "return", NEW n
    PROVE  LET more == Append(outer, d)
           IN  /\ more \in Seq(Construct) /\ WellFormed(more) /\ ~Waiting(more)
               /\ RoundStart(more, n)
               /\ Returning(more) => Returning(outer)
               /\ Finallys(more) = Finallys(outer) + IF d.phase = "finally" THEN 1 ELSE 0
               /\ Finallys(outer) \in Nat
               /\ CtxHandlers(fc, slots, more) =
                      CtxHandlers(fc, slots, outer) \o Owned(fc, slots, outer, d)
<1> DEFINE more == Append(outer, d)
<1>1. more \in Seq(Construct) /\ more # <<>> /\ Last(more) = d
  BY Appended
<1>2. WellFormed(more)
  BY EntersWell
<1>3. Returning(more) => Returning(outer)
  BY ReturningMore
<1>4. /\ Finallys(more) = Finallys(outer) + IF d.phase = "finally" THEN 1 ELSE 0
      /\ Finallys(outer) \in Nat
  BY FinallysOf
<1>5. CtxHandlers(fc, slots, more) = CtxHandlers(fc, slots, outer) \o Owned(fc, slots, outer, d)
  BY CtxMore
<1> HIDE DEF more
<1>6. ~Waiting(more) /\ RoundStart(more, n)
  BY <1>1 DEF Waiting, RoundStart
<1> QED
  BY <1>1, <1>2, <1>3, <1>4, <1>5, <1>6 DEF more

\* Two handlers.
LEMMA TwoHandlers ==
    ASSUME NEW f \in Handler, NEW g \in Handler
    PROVE  << f, g >> = << f >> \o << g >>
<1> DEFINE a == << f >>
           both == << f, g >>
           joined == a \o << g >>
<1>0. a \in Seq(Handler)
  OBVIOUS
<1>1. Len(a) = 1 /\ a[1] = f
  OBVIOUS
<1>2. both \in Seq(Handler) /\ Len(both) = 2 /\ both[1] = f /\ both[2] = g
  OBVIOUS
<1> HIDE DEF a, both
<1>3. joined = Append(a, g)
  BY <1>0, AppendIsConcat
<1> HIDE DEF joined
<1>4. joined \in Seq(Handler) /\ Len(joined) = 2 /\ joined[1] = f /\ joined[2] = g
  <2>1. /\ Append(a, g) \in Seq(Handler) /\ Len(Append(a, g)) = Len(a) + 1
        /\ Append(a, g)[Len(a) + 1] = g
        /\ \A i \in 1 .. Len(a) : Append(a, g)[i] = a[i]
    BY <1>0, Appended
  <2>2. 1 \in 1 .. Len(a) /\ Len(a) + 1 = 2
    BY <1>1
  <2> QED
    BY <1>1, <1>3, <2>1, <2>2
<1>5. \A i \in 1 .. 2 : both[i] = joined[i]
  <2>1. \A i \in 1 .. 2 : i = 1 \/ i = 2
    OBVIOUS
  <2> QED
    BY <1>2, <1>4, <2>1
<1>6. both = joined
  BY <1>2, <1>4, <1>5
<1> QED
  BY <1>6 DEF a, both, joined

\* Where an exception goes on that construct c, inside outer, takes.
LandingCtx(outer, c) ==
    IF ~IsTry(c) THEN outer
    ELSE IF c.phase = "body" /\ c.catch THEN Append(outer, InPhase(Entered(c), "catch"))
    ELSE Append(outer, InFinally(Entered(c), "exception"))

\* Where an exception goes on fits the frame it lands in, and the handlers that stay
\* are those the frame owns there.
LEMMA Lands ==
    ASSUME NEW fc \in Nat, NEW slots \in Int, NEW outer \in Seq(Construct), NEW c \in Construct,
           WellFormed(outer), Still(outer), Owned(fc, slots, outer, c) # <<>>
    PROVE  \E h \in Handler, rest \in Seq(Handler) :
               /\ Owned(fc, slots, outer, c) = rest \o << h >>
               /\ h.frameCount = fc /\ h.locals \in Nat
               /\ h.ctx \in Seq(Construct) /\ WellFormed(h.ctx) /\ ~Waiting(h.ctx)
               /\ RoundStart(h.ctx, h.locals)
               /\ Returning(h.ctx) => Returning(outer)
               /\ LandingTop(h) = slots + h.locals + 2 * Finallys(h.ctx)
               /\ CtxHandlers(fc, slots, h.ctx) = CtxHandlers(fc, slots, outer) \o rest
               /\ h.ctx = LandingCtx(outer, c)
<1> DEFINE top == StartOf(slots, outer, c)
           e == Entered(c)
           B == CtxHandlers(fc, slots, outer)
           F == FinallyHandler(fc, top, outer, e)
           C == CatchHandler(fc, top, outer, e)
           L == LoopHandler(fc, top, outer, c)
<1>1. /\ e \in Construct /\ e.kind = c.kind /\ e.at = c.at /\ c.at \in Nat
  BY LoopLocals DEF Entered, Construct
<1>2. top = slots + c.at + 2 * Finallys(outer) /\ Finallys(outer) \in Nat /\ top \in Int
  BY <1>1, FinallysOf DEF StartOf
<1>3. B \in Seq(Handler) /\ B \o <<>> = B /\ <<>> \in Seq(Handler)
  <2>1. B \in Seq(Handler)
    BY PiecesOf
  <2> QED
    BY <2>1, EmptyStacks, ConcatEmptySeq
<1>4. F \in Handler /\ C \in Handler /\ (c.kind = "foreach" => L \in Handler)
  <2> HIDE DEF top, e
  <2> QED
    BY <1>1, <1>2, HandlerTypes
<1>5. ASSUME IsTry(c), Owned(fc, slots, outer, c) = << F >>, ~(c.phase = "body" /\ c.catch)
      PROVE  \E h \in Handler, rest \in Seq(Handler) :
               /\ Owned(fc, slots, outer, c) = rest \o << h >>
               /\ h.frameCount = fc /\ h.locals \in Nat
               /\ h.ctx \in Seq(Construct) /\ WellFormed(h.ctx) /\ ~Waiting(h.ctx)
               /\ RoundStart(h.ctx, h.locals)
               /\ Returning(h.ctx) => Returning(outer)
               /\ LandingTop(h) = slots + h.locals + 2 * Finallys(h.ctx)
               /\ CtxHandlers(fc, slots, h.ctx) = CtxHandlers(fc, slots, outer) \o rest
               /\ h.ctx = LandingCtx(outer, c)
  <2> DEFINE d == InFinally(e, "exception")
             more == Append(outer, d)
  <2>1. /\ F.site = "finally" /\ F.frameCount = fc /\ F.stackTop = top /\ F.ctx = more
        /\ F.locals = c.at
    BY <1>1 DEF FinallyHandler
  <2>0. F.ctx = LandingCtx(outer, c)
    BY <1>5, <2>1 DEF LandingCtx
  <2> HIDE DEF e
  <2>2. /\ d \in Construct /\ d.phase = "finally" /\ d.tag = "exception" /\ IsTry(d)
    <3>1. d \in Construct
      BY <1>1, ConstructTypes
    <3>2. d.phase = "finally" /\ d.tag = "exception" /\ d.kind = e.kind
      BY <1>1 DEF InFinally, Construct
    <3> QED
      BY <1>1, <1>5, <3>1, <3>2 DEF IsTry
  <2> HIDE DEF d, F, top
  <2>3. /\ more \in Seq(Construct) /\ WellFormed(more) /\ ~Waiting(more)
        /\ RoundStart(more, c.at)
        /\ Returning(more) => Returning(outer)
        /\ Finallys(more) = Finallys(outer) + 1
        /\ CtxHandlers(fc, slots, more) = B \o Owned(fc, slots, outer, d)
    BY <2>2, BlockEntered
  <2>4. Owned(fc, slots, outer, d) = <<>>
    BY <2>2, OwnedCases
  <2> HIDE DEF more, B
  <2>5. CtxHandlers(fc, slots, more) = B \o <<>>
    BY <2>3, <2>4
  <2>6. LandingTop(F) = slots + c.at + 2 * Finallys(more)
    <3>1. LandingTop(F) = top + 2
      BY <2>1 DEF LandingTop
    <3>2. Finallys(more) = Finallys(outer) + 1
      BY <2>3
    <3> DEFINE at == c.at
               waiting == Finallys(outer)
    <3>3. at \in Nat /\ waiting \in Nat /\ top = slots + at + 2 * waiting
      BY <1>1, <1>2
    <3> HIDE DEF at, waiting
    <3>4. top + 2 = slots + at + 2 * (waiting + 1)
      BY <3>3
    <3> QED
      BY <3>1, <3>2, <3>4 DEF at, waiting
  <2>7. Owned(fc, slots, outer, c) = <<>> \o << F >>
    <3>1. << F >> \in Seq(Handler)
      BY <1>4
    <3> QED
      BY <1>5, <3>1, ConcatEmptySeq
  <2>8. /\ F.frameCount = fc /\ F.locals \in Nat
        /\ F.ctx \in Seq(Construct) /\ WellFormed(F.ctx) /\ ~Waiting(F.ctx)
        /\ RoundStart(F.ctx, F.locals)
        /\ Returning(F.ctx) => Returning(outer)
        /\ LandingTop(F) = slots + F.locals + 2 * Finallys(F.ctx)
        /\ CtxHandlers(fc, slots, F.ctx) = B \o <<>>
    BY <1>1, <2>1, <2>3, <2>5, <2>6
  <2> QED
    BY <1>3, <1>4, <2>0, <2>7, <2>8 DEF B
<1>6. CASE IsTry(c) /\ c.phase = "body" /\ c.catch
  <2> DEFINE d == InPhase(e, "catch")
             more == Append(outer, d)
  <2>1. /\ C.site = "catch" /\ C.frameCount = fc /\ C.stackTop = top /\ C.ctx = more
        /\ C.locals = c.at + 1
    BY <1>1 DEF CatchHandler
  <2>0. C.ctx = LandingCtx(outer, c)
    BY <1>6, <2>1 DEF LandingCtx
  <2>2. /\ d \in Construct /\ IsTry(d) /\ d.phase = "catch"
        /\ Owned(fc, slots, outer, d) = << F >>
    BY <1>6, CatchLands
  <2>3. Owned(fc, slots, outer, c) = << F, C >>
    BY <1>6, OwnedCases
  <2> HIDE DEF d, C, F, top, e
  <2>4. /\ more \in Seq(Construct) /\ WellFormed(more) /\ ~Waiting(more)
        /\ RoundStart(more, c.at + 1)
        /\ Returning(more) => Returning(outer)
        /\ Finallys(more) = Finallys(outer) + IF d.phase = "finally" THEN 1 ELSE 0
        /\ CtxHandlers(fc, slots, more) = B \o Owned(fc, slots, outer, d)
    <3>1. d.phase \in {"catch", "finally"} /\ (d.phase = "finally" => d.tag # "return")
      BY <2>2
    <3> DEFINE n == c.at + 1
    <3> HIDE DEF n
    <3>2. /\ more \in Seq(Construct) /\ WellFormed(more) /\ ~Waiting(more)
          /\ RoundStart(more, n)
          /\ Returning(more) => Returning(outer)
          /\ Finallys(more) = Finallys(outer) + IF d.phase = "finally" THEN 1 ELSE 0
          /\ CtxHandlers(fc, slots, more) = B \o Owned(fc, slots, outer, d)
      BY <2>2, <3>1, BlockEntered
    <3> QED
      BY <3>2 DEF n
  <2> HIDE DEF more, B
  <2>5. CtxHandlers(fc, slots, more) = B \o << F >>
    BY <2>2, <2>4
  <2>6. LandingTop(C) = slots + (c.at + 1) + 2 * Finallys(more)
    <3>1. LandingTop(C) = top + 1
      BY <2>1 DEF LandingTop
    <3>2. Finallys(more) = Finallys(outer)
      BY <1>2, <2>2, <2>4
    <3> QED
      BY <1>1, <1>2, <3>1, <3>2
  <2>7. Owned(fc, slots, outer, c) = << F >> \o << C >> /\ << F >> \in Seq(Handler)
    <3>1. F \in Handler /\ C \in Handler
      BY <1>4
    <3>2. << F, C >> = << F >> \o << C >>
      BY <3>1, TwoHandlers
    <3>3. << F >> \in Seq(Handler)
      BY <3>1
    <3> QED
      BY <2>3, <3>2, <3>3
  <2>8. /\ C.frameCount = fc /\ C.locals \in Nat
        /\ C.ctx \in Seq(Construct) /\ WellFormed(C.ctx) /\ ~Waiting(C.ctx)
        /\ RoundStart(C.ctx, C.locals)
        /\ Returning(C.ctx) => Returning(outer)
        /\ LandingTop(C) = slots + C.locals + 2 * Finallys(C.ctx)
        /\ CtxHandlers(fc, slots, C.ctx) = B \o << F >>
    BY <1>1, <2>1, <2>4, <2>5, <2>6
  <2> QED
    BY <1>4, <2>0, <2>7, <2>8 DEF B
<1>7. CASE IsTry(c) /\ c.phase = "body" /\ ~c.catch
  <2>1. Owned(fc, slots, outer, c) = << F >> /\ ~(c.phase = "body" /\ c.catch)
    BY <1>7, OwnedCases
  <2> QED
    BY <1>5, <1>7, <2>1
<1>8. CASE IsTry(c) /\ c.phase = "catch"
  <2>1. Owned(fc, slots, outer, c) = << F >> /\ ~(c.phase = "body" /\ c.catch)
    BY <1>8, OwnedCases
  <2> QED
    BY <1>5, <1>8, <2>1
<1>9. CASE c.kind = "foreach" /\ c.phase = "next"
  <2>1. /\ L.site = "exitLoop" /\ L.frameCount = fc /\ L.stackTop = top /\ L.ctx = outer
        /\ L.locals = c.at - 1
    BY DEF LoopHandler
  <2>0. L.ctx = LandingCtx(outer, c)
    BY <1>9, <2>1 DEF LandingCtx, IsTry
  <2>2. Owned(fc, slots, outer, c) = << L >>
    BY <1>9, OwnedCases
  <2>3. c.at - 1 \in Nat
    BY <1>9, LoopLocals
  <2> HIDE DEF L, top, B
  <2>4. L \in Handler
    BY <1>4, <1>9
  <2>5. Owned(fc, slots, outer, c) = <<>> \o << L >>
    <3>1. << L >> \in Seq(Handler)
      BY <2>4
    <3> QED
      BY <2>2, <3>1, ConcatEmptySeq
  <2>6. ~Waiting(outer) /\ RoundStart(outer, c.at - 1)
    BY StillWaitsNot
  <2>7. LandingTop(L) = slots + (c.at - 1) + 2 * Finallys(outer)
    <3>1. LandingTop(L) = top + (-1)
      BY <2>1 DEF LandingTop
    <3> QED
      BY <1>1, <1>2, <3>1
  <2>8. /\ L.frameCount = fc /\ L.locals \in Nat
        /\ L.ctx \in Seq(Construct) /\ WellFormed(L.ctx) /\ ~Waiting(L.ctx)
        /\ RoundStart(L.ctx, L.locals)
        /\ Returning(L.ctx) => Returning(outer)
        /\ LandingTop(L) = slots + L.locals + 2 * Finallys(L.ctx)
        /\ CtxHandlers(fc, slots, L.ctx) = B \o <<>>
    BY <1>3, <2>1, <2>3, <2>6, <2>7 DEF B
  <2> QED
    BY <1>3, <2>0, <2>4, <2>5, <2>8 DEF B
<1> QED
  BY <1>6, <1>7, <1>8, <1>9, Owners

\* Handler h takes an exception to construct j of frame i of fs, and the handlers in
\* rest stay.
LandsAt(fs, i, j, h, rest) ==
    /\ h \in Handler /\ h.frameCount = i /\ h.locals \in Nat
    /\ h.ctx \in Seq(Construct) /\ WellFormed(h.ctx) /\ ~Waiting(h.ctx)
    /\ RoundStart(h.ctx, h.locals)
    /\ Returning(h.ctx) => Returning(fs[i].ctx)
    /\ LandingTop(h) = fs[i].slots + h.locals + 2 * Finallys(h.ctx)
    /\ rest = AllHandlers(SubSeq(fs, 1, i - 1)) \o CtxHandlers(i, fs[i].slots, h.ctx)
    /\ h.ctx = LandingCtx(Around(fs[i].ctx, j), fs[i].ctx[j])
    /\ Owned(i, fs[i].slots, Around(fs[i].ctx, j), fs[i].ctx[j]) # <<>>
    /\ OwnNothingAbove(fs, i, j)

\* The handler on top of a well-formed call stack.
LEMMA HandlerOnTop ==
    ASSUME NEW fs \in Seq(Frame), NEW bases, NEW natives, FramesOK(fs, bases, natives),
           AllHandlers(fs) # <<>>
    PROVE  \E i \in 1 .. Len(fs) : \E j \in 1 .. Len(fs[i].ctx) :
               LandsAt(fs, i, j, Last(AllHandlers(fs)), Front(AllHandlers(fs)))
<1>1. PICK i \in 1 .. Len(fs) : \E j \in 1 .. Len(fs[i].ctx) :
               LET p   == Around(fs[i].ctx, j)
                   own == Owned(i, fs[i].slots, p, fs[i].ctx[j])
               IN  /\ own # <<>>
                   /\ AllHandlers(fs) = AllHandlers(SubSeq(fs, 1, i - 1)) \o
                                            (CtxHandlers(i, fs[i].slots, p) \o own)
                   /\ OwnNothingAbove(fs, i, j)
  BY OwnerOnTop
<1> DEFINE slots == fs[i].slots
           ctx == fs[i].ctx
<1>2. slots \in Int /\ ctx \in Seq(Construct) /\ i \in Nat /\ Len(fs) \in Nat
  BY FrameFields
<1>3. WellFormed(ctx)
  BY DEF FramesOK, FrameOK
<1>4. PICK j \in 1 .. Len(ctx) :
          /\ Owned(i, slots, Around(ctx, j), ctx[j]) # <<>>
          /\ AllHandlers(fs) = AllHandlers(SubSeq(fs, 1, i - 1)) \o
                 (CtxHandlers(i, slots, Around(ctx, j)) \o Owned(i, slots, Around(ctx, j), ctx[j]))
          /\ OwnNothingAbove(fs, i, j)
  BY <1>1
<1> DEFINE p == Around(ctx, j)
           c == ctx[j]
           below == SubSeq(fs, 1, i - 1)
           A == AllHandlers(below)
           B == CtxHandlers(i, slots, p)
<1> HIDE DEF ctx
<1>5. /\ p \in Seq(Construct) /\ WellFormed(p) /\ Still(p) /\ (Returning(p) => Returning(ctx))
      /\ c \in Construct
  <2>1. Len(ctx) \in Nat /\ j \in Nat /\ j >= 1 /\ j <= Len(ctx)
    BY <1>2
  <2> DEFINE m == j - 1
  <2>2. m \in 0 .. Len(ctx) - 1
    BY <2>1
  <2> HIDE DEF m
  <2>3. /\ SubSeq(ctx, 1, m) \in Seq(Construct)
        /\ WellFormed(SubSeq(ctx, 1, m)) /\ Still(SubSeq(ctx, 1, m))
        /\ Returning(SubSeq(ctx, 1, m)) => Returning(ctx)
    BY <1>2, <1>3, <2>2, LeavesWell
  <2>4. c \in Construct
    BY <1>2
  <2> QED
    BY <2>3, <2>4 DEF m, Around
<1> HIDE DEF p, c, slots
<1>6. PICK h \in Handler, kept \in Seq(Handler) :
               /\ Owned(i, slots, p, c) = kept \o << h >>
               /\ h.frameCount = i /\ h.locals \in Nat
               /\ h.ctx \in Seq(Construct) /\ WellFormed(h.ctx) /\ ~Waiting(h.ctx)
               /\ RoundStart(h.ctx, h.locals)
               /\ Returning(h.ctx) => Returning(p)
               /\ LandingTop(h) = slots + h.locals + 2 * Finallys(h.ctx)
               /\ CtxHandlers(i, slots, h.ctx) = CtxHandlers(i, slots, p) \o kept
               /\ h.ctx = LandingCtx(p, c)
  <2>1. Owned(i, slots, p, c) # <<>>
    BY <1>4 DEF p, c
  <2> QED
    BY <1>2, <1>5, <2>1, Lands
<1>7. below \in Seq(Frame) /\ A \in Seq(Handler) /\ B \in Seq(Handler)
  <2>1. below \in Seq(Frame)
    BY <1>2
  <2> HIDE DEF below
  <2> QED
    BY <1>2, <1>5, <2>1, FramesOwned, PiecesOf
<1>8. AllHandlers(fs) = A \o (B \o (kept \o << h >>))
  BY <1>4, <1>6 DEF p, c
<1> HIDE DEF A, B
<1>9. AllHandlers(fs) = A \o ((B \o kept) \o << h >>) /\ B \o kept \in Seq(Handler)
  <2>1. << h >> \in Seq(Handler)
    OBVIOUS
  <2>2. B \o (kept \o << h >>) = (B \o kept) \o << h >> /\ B \o kept \in Seq(Handler)
    BY <1>7, <2>1, ConcatAssociative, ConcatProperties
  <2> QED
    BY <1>8, <2>2
<1> DEFINE stay == B \o kept
<1> HIDE DEF stay
<1>10. Front(AllHandlers(fs)) = A \o stay /\ Last(AllHandlers(fs)) = h
  <2>1. AllHandlers(fs) = A \o (stay \o << h >>)
    BY <1>9 DEF stay
  <2>2. A \in Seq(Handler) /\ stay \in Seq(Handler) /\ h \in Handler
    BY <1>7, <1>9 DEF stay
  <2> HIDE DEF below
  <2>3. /\ A \o (stay \o << h >>) # <<>>
        /\ Front(A \o (stay \o << h >>)) = A \o stay
        /\ Last(A \o (stay \o << h >>)) = h
    BY <2>2, HandlerLast
  <2> QED
    BY <2>1, <2>3
<1>11. stay = CtxHandlers(i, slots, h.ctx)
  BY <1>6 DEF stay, B
<1>12. Returning(h.ctx) => Returning(ctx)
  BY <1>5, <1>6
<1>13. LandsAt(fs, i, j, h, A \o stay)
  BY <1>4, <1>6, <1>11, <1>12 DEF LandsAt, slots, ctx, A, below, p, c
<1> QED
  BY <1>10, <1>13 DEF ctx

\* An exception lands.
LEMMA LandSafe ==
    ASSUME Inv, SafeInv, Land
    PROVE  SafeStep
<1> DEFINE h == Last(handlers)
           N == NativeBases(runs)
<1>1. mode = "unwind" /\ handlers # <<>>
  BY DEF Land, Inv, RunNesting
<1>2. /\ FramesOK(frames, Bases(runs), N)
      /\ Base \in Nat /\ \A b \in Bases(runs) : b \in Nat /\ b <= Base
      /\ N \subseteq Bases(runs)
      /\ frames \in Seq(Frame) /\ Len(frames) \in Nat
      /\ handlers = AllHandlers(frames) /\ SavedOK(frames, runs)
  BY <1>1, OnTop
<1>3. PICK i \in 1 .. Len(frames) : \E j \in 1 .. Len(frames[i].ctx) :
          LandsAt(frames, i, j, h, Front(handlers))
  BY <1>1, <1>2, HandlerOnTop
<1> DEFINE below == SubSeq(frames, 1, i - 1)
           f == [slots |-> frames[i].slots, locals |-> h.locals, ctx |-> h.ctx]
           fs == Append(below, f)
<1> HIDE DEF h
<1>4. h.frameCount = i /\ h.locals \in Nat /\ h.ctx \in Seq(Construct)
  BY <1>3 DEF LandsAt
<1>5. /\ handlers' = Front(handlers) /\ frames' = fs /\ stackTop' = LandingTop(h)
      /\ mode' = "exec" /\ runs' = runs /\ i > Base
  <2>1. ~(h.frameCount > Len(frames))
    BY <1>4
  <2> QED
    BY <1>4, <2>1 DEF Land, OwnedByThisRun, h
<1>6. /\ i \in Nat /\ i - 1 \in 0 .. Len(frames) /\ frames[i].slots \in Int
      /\ i \notin Bases(runs) /\ i \notin N
  BY <1>2, <1>5, FrameFields
<1>7. /\ f \in Frame /\ f.slots = frames[i].slots /\ f.locals = h.locals /\ f.ctx = h.ctx
  BY <1>4, <1>6 DEF Frame
<1> HIDE DEF f, N
<1>8. /\ below \in Seq(Frame) /\ Len(below) = i - 1 /\ FramesOK(below, Bases(runs), N)
      /\ EndOf(below, i - 1, N) = EndOf(frames, i - 1, N)
  <2> DEFINE m == i - 1
  <2>1. m \in 0 .. Len(frames) /\ m \in 0 .. m
    BY <1>6
  <2> HIDE DEF m
  <2>2. /\ SubSeq(frames, 1, m) \in Seq(Frame) /\ Len(SubSeq(frames, 1, m)) = m
        /\ FramesOK(SubSeq(frames, 1, m), Bases(runs), N)
        /\ \A k \in 0 .. m : EndOf(SubSeq(frames, 1, m), k, N) = EndOf(frames, k, N)
    BY <1>2, <2>1, FramesBelow
  <2> QED
    BY <2>1, <2>2 DEF m
<1>9. /\ frames[i].slots = EndOf(frames, i - 1, N)
      /\ Returning(frames[i].ctx) => i - 1 \notin Bases(runs)
  BY <1>2 DEF FramesOK, FrameOK
<1>10. /\ WellFormed(f.ctx) /\ RoundStart(f.ctx, f.locals) /\ ~Waiting(f.ctx)
       /\ Returning(f.ctx) => i - 1 \notin Bases(runs)
       /\ LandingTop(h) = f.slots + f.locals + 2 * Finallys(f.ctx)
       /\ Front(handlers) = AllHandlers(below) \o CtxHandlers(i, f.slots, f.ctx)
  BY <1>3, <1>7, <1>9 DEF LandsAt
<1> HIDE DEF below
<1>11. /\ f.slots = EndOf(below, Len(below), N)
       /\ Waiting(f.ctx) => Len(below) + 1 \notin Bases(runs)
       /\ Returning(f.ctx) => Len(below) \notin Bases(runs)
       /\ Len(below) + 1 = i
  BY <1>6, <1>7, <1>8, <1>9, <1>10
<1>12. /\ fs \in Seq(Frame) /\ Len(fs) = Len(below) + 1 /\ Last(fs) = f
       /\ FramesOK(fs, Bases(runs), N)
       /\ EndOf(fs, Len(below) + 1, N) = f.slots + Height(f) + Gap(Len(below) + 1, N)
  BY <1>7, <1>8, <1>10, <1>11, FrameMore
<1>13. AllHandlers(fs) = AllHandlers(below) \o CtxHandlers(Len(below) + 1, f.slots, f.ctx)
  BY <1>7, <1>8, AllMore
<1>16. SavedOK(fs, runs)
  <2>1. \A k \in 1 .. i - 1 : below[k] = frames[k]
    BY <1>2, <1>6, Prefix DEF below
  <2>2. \A k \in 1 .. i - 1 : fs[k] = frames[k]
    BY <1>7, <1>8, <2>1, Appended
  <2> DEFINE m == i - 1
  <2>3. m \in Nat /\ \A b \in Bases(runs) : b \in Nat /\ b <= m
    BY <1>2, <1>5, <1>6
  <2>4. \A k \in 1 .. m : fs[k] = frames[k]
    BY <2>2
  <2> HIDE DEF fs, m
  <2> QED
    BY <1>2, <2>3, <2>4, SavedAbove
<1> HIDE DEF fs
<1>14. stackTop' = EndOf(fs, Len(fs), N)
  <2>1. Gap(i, N) = 0 /\ Height(f) = f.locals + 2 * Finallys(f.ctx) /\ Height(f) \in Nat
    BY <1>6, <1>7, GapType, HeightType
  <2>2. EndOf(fs, Len(fs), N) = f.slots + Height(f) + 0
    BY <1>11, <1>12, <2>1
  <2>3. f.slots \in Int /\ f.locals \in Nat /\ Finallys(f.ctx) \in Nat
    BY <1>7, HeightType
  <2> QED
    BY <1>5, <1>10, <2>1, <2>2, <2>3
<1>15. /\ handlers' = AllHandlers(fs) /\ ~Waiting(Last(fs).ctx) /\ frames' = fs
       /\ mode' \in {"exec", "unwind", "native"}
  BY <1>5, <1>10, <1>11, <1>12, <1>13
<1> QED
  BY <1>2, <1>5, <1>12, <1>14, <1>15, <1>16, StepDone DEF N

\* The frame a run() was called from, when that run() is over.
LEMMA CallerKept ==
    ASSUME NEW fs \in Seq(Frame), NEW rs, RunStack(rs), rs # <<>>, Last(rs).kind # "interpret",
           Len(fs) = Last(rs).base, FramesOK(fs, Bases(rs), NativeBases(rs))
    PROVE  /\ ~Waiting(Last(fs).ctx)
           /\ FramesOK(fs, Bases(Front(rs)), NativeBases(Front(rs)))
<1> DEFINE b == Last(rs).base
<1>1. b \in Nat \ {0} /\ Len(fs) = b
  BY BaseAboveZero
<1>2. b \in Bases(rs)
  BY LastBase
<1>3. /\ Bases(Front(rs)) \subseteq Bases(rs)
      /\ \A i : i # b => (i \in NativeBases(Front(rs)) <=> i \in NativeBases(rs))
  BY BasesPopped
<1> HIDE DEF b
<1>4. ~Waiting(Last(fs).ctx)
  <2>1. b \in 1 .. Len(fs) /\ Last(fs) = fs[b]
    BY <1>1 DEF Last
  <2>2. FrameOK(fs, b, Bases(rs), NativeBases(rs))
    BY <2>1 DEF FramesOK
  <2> QED
    BY <1>2, <2>1, <2>2 DEF FrameOK
<1>5. /\ \A i \in 0 .. Len(fs) - 1 : i \in Bases(Front(rs)) => i \in Bases(rs)
      /\ \A i \in 1 .. Len(fs) - 1 : i \in NativeBases(Front(rs)) <=> i \in NativeBases(rs)
  <2>1. \A i \in 1 .. Len(fs) - 1 : i # b
    BY <1>1
  <2> QED
    BY <1>3, <2>1
<1>6. FramesOK(fs, Bases(Front(rs)), NativeBases(Front(rs)))
  BY <1>4, <1>5, OtherRuns
<1> QED
  BY <1>4, <1>6

\* An exception leaves a run(): the caller unwinds further, or goes on where it was.
LEMMA PropagateSafe ==
    ASSUME Inv, SafeInv, Propagate
    PROVE  SafeStep
<1> DEFINE N == NativeBases(runs)
           fs == SubSeq(frames, 1, Base)
<1>1. mode = "unwind" /\ handlers # <<>> /\ Last(runs).kind # "interpret"
  BY DEF Propagate, Inv, RunNesting
<1>2. /\ FramesOK(frames, Bases(runs), N)
      /\ Base \in Nat /\ frames \in Seq(Frame) /\ Len(frames) \in Nat /\ Len(frames) > Base
      /\ \A b \in Bases(runs) : b \in Nat /\ b <= Base
      /\ handlers = AllHandlers(frames) /\ SavedOK(frames, runs)
  BY <1>1, OnTop
<1>3. RunStack(runs) /\ runs # <<>>
  BY <1>1, Running
<1>4. ~(Last(handlers).frameCount > Base)
  BY DEF Propagate, Base, OwnedByThisRun
<1>5. /\ frames' = fs /\ runs' = Front(runs) /\ handlers' = handlers
      /\ mode' = (IF Last(runs).kind \in Swallows THEN "exec" ELSE "unwind")
      /\ Last(runs).kind # "native" => stackTop' = Last(runs).savedTop
  BY DEF Propagate, ModeAfterUnwind, Base
<1>6. fs \in Seq(Frame) /\ Len(fs) = Base /\ FramesOK(fs, Bases(runs), N)
  <2>1. Base \in 0 .. Len(frames)
    BY <1>2
  <2> QED
    BY <1>2, <2>1, FramesBelow
<1>7. AllHandlers(frames) = AllHandlers(fs)
  <2>1. PICK i \in 1 .. Len(frames) : \E j \in 1 .. Len(frames[i].ctx) :
            LandsAt(frames, i, j, Last(handlers), Front(handlers))
    BY <1>1, <1>2, HandlerOnTop
  <2>2. i \in Nat /\ i <= Base
    <3>1. Last(handlers).frameCount = i /\ i \in Nat
      BY <2>1 DEF LandsAt
    <3> QED
      BY <1>2, <1>4, <3>1
  <2>3. \A k \in Base + 1 .. Len(frames) : k \in i + 1 .. Len(frames)
    BY <1>2, <2>2
  <2>4. \A k \in i + 1 .. Len(frames) : CtxHandlers(k, frames[k].slots, frames[k].ctx) = <<>>
    BY <2>1 DEF LandsAt, OwnNothingAbove
  <2>5. Base \in 0 .. Len(frames)
    BY <1>2
  <2>6. \A k \in Base + 1 .. Len(frames) : CtxHandlers(k, frames[k].slots, frames[k].ctx) = <<>>
    BY <2>3, <2>4
  <2> HIDE DEF fs
  <2>7. AllHandlers(frames) = AllHandlers(SubSeq(frames, 1, Base))
    BY <1>2, <2>5, <2>6, AllPrefix
  <2> QED
    BY <2>7 DEF fs
<1>9. SavedOK(fs, runs)
  <2>1. \A k \in 1 .. Base : fs[k] = frames[k]
    BY <1>2, Prefix
  <2> HIDE DEF fs
  <2> QED
    BY <1>2, <2>1, SavedAbove
<1> HIDE DEF fs
<1>8. /\ ~Waiting(Last(fs).ctx)
      /\ FramesOK(fs, Bases(Front(runs)), NativeBases(Front(runs)))
  BY <1>1, <1>3, <1>6, CallerKept DEF Base
<1>10. handlers' = AllHandlers(fs)
  BY <1>2, <1>5, <1>7
<1>11. SavedOK(fs, Front(runs)) /\ Last(runs).savedTop = EndOf(fs, Base, N)
  BY <1>3, <1>9, SavedPopped DEF Base
<1>12. mode' # "unwind" => stackTop' = EndOf(fs, Len(fs), NativeBases(Front(runs)))
  <2> SUFFICES ASSUME mode' # "unwind" PROVE stackTop' = EndOf(fs, Len(fs), NativeBases(Front(runs)))
    OBVIOUS
  <2>1. Last(runs).kind \in Swallows /\ Last(runs).kind # "native"
    BY <1>5 DEF Swallows
  <2>2. NativeBases(Front(runs)) = N
    BY <1>3, <2>1, BasesPopped
  <2> QED
    BY <1>5, <1>6, <1>11, <2>1, <2>2
<1>13. mode' \in {"exec", "unwind", "native"}
  BY <1>5
<1> QED
  BY <1>5, <1>8, <1>10, <1>11, <1>12, <1>13, StepDone

-----------------------------------------------------------------------------
(* Natives, and errors no handler can catch.                               *)

\* The C callers return after an error, unless one takes it for an answer.
LEMMA ErrorReturnSafe ==
    ASSUME Inv, SafeInv, ErrorReturn
    PROVE  /\ SafeInv'
           /\ mode' = "wild" => Last(runs).kind \in Swallows
           /\ mode' # "wild" => ~pendingUnwind'
           /\ Last(runs).kind # "native" => stackTop' \in {0, stackTop}
<1>1. mode = "error" /\ handlers = <<>> /\ stackTop \in Int /\ stackTop <= 0 /\ ~pendingUnwind
  BY DEF ErrorReturn, Inv, TypeOK, SafeInv, RestInv
<1>2. CASE Last(runs).kind \in Swallows
  <2>1. mode' = "wild" /\ stackTop' = 0
    BY <1>2 DEF ErrorReturn, GoWild
  <2> QED
    BY <1>2, <2>1 DEF SafeInv, RestInv
<1>3. CASE Last(runs).kind \notin Swallows
  <2>1. /\ UNCHANGED handlers /\ UNCHANGED pendingUnwind
        /\ mode' = (IF Last(runs).kind = "interpret" THEN AfterProgram ELSE "error")
        /\ stackTop' = (IF Last(runs).kind = "native" THEN stackTop - NativeTemps ELSE stackTop)
    BY <1>3 DEF ErrorReturn
  <2>2. stackTop' <= 0
    BY <1>1, <2>1 DEF NativeTemps
  <2>3. mode' \in {"idle", "error", "exited"}
    BY <2>1 DEF AfterProgram
  <2> QED
    BY <1>1, <1>3, <2>1, <2>2, <2>3 DEF SafeInv, RestInv
<1> QED
  BY <1>2, <1>3

\* What the invariant says while a native runs.
LEMMA NativeOnTop ==
    ASSUME Inv, SafeInv, mode = "native"
    PROVE  /\ RunStack(runs) /\ runs # <<>> /\ Last(runs).kind = "native"
           /\ frames \in Seq(Frame) /\ Len(frames) \in Nat \ {0} /\ Len(frames) = Last(runs).base
           /\ FramesOK(frames, Bases(runs), NativeBases(runs))
           /\ \A b \in Bases(runs) : b \in Nat /\ b <= Len(frames)
           /\ NativeBases(runs) \subseteq Bases(runs)
           /\ Len(frames) \in NativeBases(runs)
           /\ handlers = AllHandlers(frames)
           /\ stackTop = EndOf(frames, Len(frames), NativeBases(runs))
           /\ stackTop \in Nat /\ SavedOK(frames, runs)
<1>1. /\ RunStack(runs) /\ runs # <<>> /\ Last(runs).kind = "native"
      /\ frames \in Seq(Frame) /\ Len(frames) = Last(runs).base
  BY InNative
<1>2. /\ FramesOK(frames, Bases(runs), NativeBases(runs))
      /\ handlers = AllHandlers(frames)
      /\ stackTop = EndOf(frames, Len(frames), NativeBases(runs)) /\ SavedOK(frames, runs)
  BY DEF SafeInv, LiveInv
<1>3. /\ \A b \in Bases(runs) : b \in Nat /\ b <= Last(runs).base
      /\ NativeBases(runs) \subseteq Bases(runs)
      /\ Last(runs).base \in NativeBases(runs)
  BY <1>1, LastBase
<1>4. Last(runs).base \in Nat \ {0}
  BY <1>1, BaseAboveZero
<1>5. stackTop \in Nat
  <2>1. Len(frames) \in 0 .. Len(frames)
    BY <1>1, <1>4
  <2> QED
    BY <1>1, <1>2, <2>1, EndType
<1> QED
  BY <1>1, <1>2, <1>3, <1>4, <1>5

\* The native calls its callback again.
LEMMA CallbackAgainSafe ==
    ASSUME Inv, SafeInv, CallbackAgain
    PROVE  SafeStep
<1>1. mode = "native"
  BY DEF CallbackAgain
<1>2. /\ frames \in Seq(Frame) /\ Len(frames) \in Nat \ {0}
      /\ FramesOK(frames, Bases(runs), NativeBases(runs))
      /\ \A b \in Bases(runs) : b \in Nat /\ b <= Len(frames)
      /\ NativeBases(runs) \subseteq Bases(runs)
      /\ handlers = AllHandlers(frames)
      /\ stackTop = EndOf(frames, Len(frames), NativeBases(runs))
      /\ stackTop \in Nat /\ SavedOK(frames, runs)
  BY <1>1, NativeOnTop
<1>3. /\ frames' = Append(frames, NewFrame(stackTop, 1)) /\ stackTop' = stackTop + 2
      /\ mode' = "exec" /\ UNCHANGED <<handlers, runs>>
  <2>1. ~(stackTop < 0)
    BY <1>2
  <2> QED
    BY <2>1 DEF CallbackAgain
<1>4. Len(frames) + 1 \notin NativeBases(runs)
  BY <1>2
<1>5. stackTop' = stackTop + (1 + 1) /\ handlers' = AllHandlers(frames) /\ runs' = runs
  BY <1>2, <1>3
<1> QED
  BY <1>2, <1>3, <1>4, <1>5, Called

\* What is left when a native is done.
LEMMA NativeLeft ==
    ASSUME Inv, SafeInv, mode = "native"
    PROVE  /\ ~Waiting(Last(frames).ctx)
           /\ FramesOK(frames, Bases(Front(runs)), NativeBases(Front(runs)))
           /\ stackTop - NativeTemps - NativeArgs =
                  EndOf(frames, Len(frames), NativeBases(Front(runs)))
           /\ SavedOK(frames, Front(runs))
<1>1. /\ RunStack(runs) /\ runs # <<>> /\ Last(runs).kind = "native"
      /\ frames \in Seq(Frame) /\ Len(frames) \in Nat \ {0} /\ Len(frames) = Last(runs).base
      /\ FramesOK(frames, Bases(runs), NativeBases(runs))
      /\ Len(frames) \in NativeBases(runs)
      /\ stackTop = EndOf(frames, Len(frames), NativeBases(runs))
      /\ stackTop \in Nat /\ SavedOK(frames, runs)
  BY NativeOnTop
<1>8. SavedOK(frames, Front(runs))
  BY <1>1, SavedPopped
<1>2. /\ ~Waiting(Last(frames).ctx)
      /\ FramesOK(frames, Bases(Front(runs)), NativeBases(Front(runs)))
  BY <1>1, CallerKept
<1>3. /\ NativeBases(Front(runs)) \subseteq NativeBases(runs)
      /\ Len(frames) \notin NativeBases(Front(runs))
  BY <1>1, BasesPopped
<1> DEFINE e == frames[Len(frames)].slots + Height(frames[Len(frames)])
<1>4. /\ EndOf(frames, Len(frames), NativeBases(runs)) = e + Gap(Len(frames), NativeBases(runs))
      /\ EndOf(frames, Len(frames), NativeBases(Front(runs))) =
             e + Gap(Len(frames), NativeBases(Front(runs)))
  BY <1>1 DEF EndOf
<1>5. e \in Int
  <2>1. Len(frames) \in 1 .. Len(frames)
    BY <1>1
  <2>2. frames[Len(frames)] \in Frame /\ frames[Len(frames)].slots \in Int
    BY <1>1, <2>1, FrameFields
  <2> QED
    BY <2>2, HeightType
<1> HIDE DEF e
<1>6. /\ Gap(Len(frames), NativeBases(runs)) = 4
      /\ Gap(Len(frames), NativeBases(Front(runs))) = 0
  BY <1>1, <1>3, GapType
<1>7. stackTop - NativeTemps - NativeArgs = EndOf(frames, Len(frames), NativeBases(Front(runs)))
  <2>1. /\ stackTop = e + 4
        /\ EndOf(frames, Len(frames), NativeBases(Front(runs))) = e + 0
    BY <1>1, <1>4, <1>6
  <2> QED
    BY <1>5, <2>1 DEF NativeTemps, NativeArgs
<1> QED
  BY <1>1, <1>2, <1>3, <1>7, <1>8

\* The native returns.
LEMMA NativeFinishSafe ==
    ASSUME Inv, SafeInv, NativeFinish
    PROVE  SafeStep
<1>1. mode = "native"
  BY DEF NativeFinish
<1>2. /\ stackTop' = stackTop - NativeTemps - NativeArgs /\ runs' = Front(runs)
      /\ mode' = "exec" /\ frames' = frames /\ handlers' = handlers
  BY DEF NativeFinish
<1>3. handlers = AllHandlers(frames)
  BY <1>1, NativeOnTop
<1>4. /\ ~Waiting(Last(frames).ctx)
      /\ FramesOK(frames, Bases(Front(runs)), NativeBases(Front(runs)))
      /\ stackTop' = EndOf(frames, Len(frames), NativeBases(Front(runs)))
      /\ SavedOK(frames, Front(runs))
  BY <1>1, <1>2, NativeLeft
<1>5. mode' \in {"exec", "unwind", "native"} /\ handlers' = AllHandlers(frames)
  BY <1>2, <1>3
<1> QED
  BY <1>2, <1>4, <1>5, StepDone

\* The native raises.
LEMMA NativeFailSafe ==
    ASSUME Inv, SafeInv, NativeFail
    PROVE  SafeStep
<1>1. mode = "native"
  BY DEF NativeFail
<1>2. handlers = AllHandlers(frames)
  BY <1>1, NativeOnTop
<1>3. /\ ~Waiting(Last(frames).ctx)
      /\ FramesOK(frames, Bases(Front(runs)), NativeBases(Front(runs)))
      /\ SavedOK(frames, Front(runs))
  BY <1>1, NativeLeft
<1>4. CASE handlers = <<>>
  <2>1. HardErrorUnder(Front(runs))
    BY <1>4 DEF NativeFail
  <2> QED
    BY <1>3, <2>1, ErrorDone
<1>5. CASE handlers # <<>>
  <2>1. runs' = Front(runs) /\ mode' = "unwind" /\ frames' = frames /\ handlers' = handlers
    BY <1>5 DEF NativeFail
  <2>2. mode' \in {"exec", "unwind", "native"} /\ handlers' = AllHandlers(frames)
    BY <1>2, <2>1
  <2> QED
    BY <1>3, <2>1, <2>2, StepDone
<1> QED
  BY <1>4, <1>5

-----------------------------------------------------------------------------
(* The invariant holds in every state.                                     *)

\* The stack of values never ends below its first cell.
LEMMA NeverUnderflows ==
    ASSUME Inv, SafeInv, mode = "exec"
    PROVE  stackTop >= 0
<1>1. /\ Top.slots \in Nat /\ Top.locals \in Nat /\ Finallys(Ctx) \in Nat
      /\ stackTop = Top.slots + Top.locals + 2 * Finallys(Ctx)
  BY OnTop
<1> QED
  BY <1>1

\* The process ends on a full stack.
LEMMA StackOverflowSafe ==
    ASSUME StackOverflow
    PROVE  SafeStep
<1>1. runs' = <<>> /\ mode' = "exited" /\ handlers' = <<>> /\ stackTop' = 0
  BY DEF StackOverflow, ResetStack
<1> QED
  BY <1>1, Stopped

\* A comparison finds an unwind pending.
LEMMA EqualityTestSafe ==
    ASSUME Inv, SafeInv, EqualityTest
    PROVE  SafeInv' /\ mode' \in {"unwind", "wild"}
<1>1. mode = "exec"
  BY DEF EqualityTest, AtStatement
<1>2. /\ FramesOK(frames, Bases(runs), NativeBases(runs)) /\ ~Waiting(Ctx)
      /\ handlers = AllHandlers(frames) /\ SavedOK(frames, runs)
  BY <1>1, OnTop
<1>3. CASE GoWild
  BY <1>3 DEF GoWild, SafeInv, RestInv
<1>4. CASE ~GoWild
  <2>1. mode' = "unwind" /\ UNCHANGED <<frames, handlers, runs>>
    BY <1>4 DEF EqualityTest
  <2>2. ~Waiting(Last(frames).ctx)
    BY <1>2 DEF Ctx, Top
  <2> QED
    BY <1>2, <2>1, <2>2, StepDone DEF SafeStep
<1> QED
  BY <1>3, <1>4

\* Statements keep it.
LEMMA StatementSafe ==
    ASSUME Inv, SafeInv, Statement, Forms = {}
    PROVE  SafeStep \/ (EqualityTest /\ SafeInv' /\ mode' \in {"unwind", "wild"})
<1>0. "breakTry" \notin Forms
  OBVIOUS
<1>1. CASE Declare
  BY <1>1, DeclareSafe
<1>2. CASE StackOverflow
  BY <1>2, StackOverflowSafe
<1>3. CASE StackUnderflow
  <2>1. mode = "exec" /\ stackTop < 0
    BY <1>3 DEF StackUnderflow
  <2>2. stackTop \in Int
    BY <2>1, Running
  <2> QED
    BY <2>1, <2>2, NeverUnderflows
<1>4. CASE HardError
  BY <1>4, ErrorDone DEF HardError
<1>5. CASE Throw
  BY <1>5, RaiseSafe DEF Throw, AtStatement
<1>6. CASE \E n \in 0 .. 1 : Call(n) \/ TailCall(n)
  BY <1>6, CallSafe, TailCallSafe
<1>7. CASE Return
  BY <1>7, ReturnSafe
<1>8. CASE ReturnInTry
  BY <1>0, <1>8, ReturnInTrySafe
<1>9. CASE \E hasCatch \in BOOLEAN : EnterTry(hasCatch)
  BY <1>9, EnterTrySafe
<1>10. CASE FallIntoFinally
  BY <1>10, FallIntoFinallySafe
<1>11. CASE EndFinally
  BY <1>11, EndFinallySafe
<1>12. CASE EnterLoop
  BY <1>12, EnterLoopSafe
<1>13. CASE EnterForEach
  BY <1>13, EnterForEachSafe
<1>14. CASE Break
  BY <1>0, <1>14, BreakSafe
<1>15. CASE Continue
  BY <1>0, <1>15, ContinueSafe
<1>16. CASE ForEachNoRoom
  BY <1>16, ErrorDone DEF ForEachNoRoom
<1>17. CASE ForEachHit
  BY <1>17, ForEachHitSafe
<1>18. CASE ForEachExhausted
  BY <1>18, ForEachExhaustedSafe
<1>19. CASE ForEachNextCall
  BY <1>19, ForEachNextCallSafe
<1>20. CASE EqualityTest
  BY <1>20, EqualityTestSafe
<1>21. CASE \E kind \in Calls : NestedCall(kind)
  BY <1>21, NestedCallSafe
<1> QED
  BY <1>1, <1>2, <1>3, <1>4, <1>5, <1>6, <1>7, <1>8, <1>9, <1>10, <1>11, <1>12, <1>13,
     <1>14, <1>15, <1>16, <1>17, <1>18, <1>19, <1>20, <1>21 DEF Statement

\* A statement is executed by a run().
LEMMA StatementsExecute == Statement => mode = "exec"
BY DEF Statement, Declare, StackOverflow, StackUnderflow, HardError, Throw, Call, TailCall,
       Return, ReturnInTry, EnterTry, FallIntoFinally, EndFinally, EnterLoop, EnterForEach,
       Break, Continue, ForEachNoRoom, ForEachHit, ForEachExhausted, ForEachNextCall,
       EqualityTest, NestedCall, AtStatement, AtLoopStart

\* So does the C code between statements.
LEMMA InCSafe ==
    ASSUME Inv, SafeInv, InC
    PROVE  SafeStep \/ (ErrorReturn /\ SafeInv')
<1>1. CASE Land
  BY <1>1, LandSafe
<1>2. CASE Propagate
  BY <1>2, PropagateSafe
<1>3. CASE ErrorReturn
  BY <1>3, ErrorReturnSafe
<1>4. CASE CallbackAgain
  BY <1>4, CallbackAgainSafe
<1>5. CASE NativeFinish
  BY <1>5, NativeFinishSafe
<1>6. CASE NativeFail
  BY <1>6, NativeFailSafe
<1> QED
  BY <1>1, <1>2, <1>3, <1>4, <1>5, <1>6 DEF InC

\* What holds of every program that keeps to the safe statement forms, whatever it
\* calls through C.
SoundInv == Inv /\ SafeInv

LEMMA SoundNext ==
    ASSUME Forms = {}
    PROVE  SoundInv /\ [Next]_vars => SoundInv'
<1> SUFFICES ASSUME Inv, SafeInv, [Next]_vars PROVE SoundInv'
  BY DEF SoundInv
<1>0. Inv'
  BY NextInv
<1>1. CASE Interpret
  BY <1>0, <1>1, InterpretSafe DEF SoundInv
<1>2. CASE Statement
  BY <1>0, <1>2, StatementSafe DEF SoundInv, SafeStep
<1>3. CASE InC
  BY <1>0, <1>3, InCSafe DEF SoundInv, SafeStep
<1>4. CASE UNCHANGED vars
  <2>1. SafeInv'
    BY <1>4 DEF vars, SafeInv, LiveInv, RestInv, SavedOK, Ctx, Top
  <2> QED
    BY <1>0, <2>1 DEF SoundInv
<1> QED
  BY <1>1, <1>2, <1>3, <1>4 DEF Next

LEMMA AlwaysSound ==
    ASSUME Forms = {}
    PROVE  Spec => []SoundInv
<1>1. Init => SoundInv
  <2> SUFFICES ASSUME Init PROVE SoundInv
    OBVIOUS
  <2>1. SafeInv
    BY DEF Init, SafeInv, RestInv
  <2> QED
    BY <2>1, InitInv DEF SoundInv
<1> QED
  BY <1>1, SoundNext, PTL DEF Spec

-----------------------------------------------------------------------------
(* Programs that stay defined.                                             *)

\* The programs of which more holds: none uses a statement form that takes too few
\* handlers with it, none runs a method whose exception is taken for an answer, and
\* none calls back from a native where a hard error does not end the process.
PlainPrograms ==
    /\ Forms = {}
    /\ Calls \cap Swallows = {}
    /\ REPL => "native" \notin Calls

\* An error on its way to a REPL passes no native that drops its temporaries.
TameInv ==
    /\ mode # "wild"
    /\ mode = "idle" \/ (REPL /\ mode = "error") => stackTop = 0

\* All invariants together.
AllInv == Inv /\ PendInv /\ SafeInv /\ TameInv

LEMMA TameNext ==
    ASSUME PlainPrograms, Inv, PendInv, SafeInv, TameInv, Next
    PROVE  TameInv'
<1>0. /\ Forms = {} /\ Calls \cap Swallows = {} /\ (REPL => "native" \notin Calls)
      /\ CallersAllowed(runs) /\ (pendingUnwind => mode = "unwind")
  BY DEF PlainPrograms, PendInv, PendingOnlyWhileUnwinding
<1>1. CASE SafeStep
  BY <1>1 DEF SafeStep, TameInv
<1>2. CASE Interpret
  <2>1. mode = "idle" /\ stackTop = 0
    BY <1>2 DEF Interpret, TameInv
  <2>2. mode' = "exec"
    BY <1>2, <2>1, InterpretSafe
  <2> QED
    BY <2>2 DEF TameInv
<1>3. CASE EqualityTest
  BY <1>0, <1>3 DEF EqualityTest, AtStatement
<1>4. CASE ErrorReturn
  <2>1. mode = "error" /\ runs \in Seq(Run) /\ runs # <<>>
    BY <1>4 DEF ErrorReturn, Inv, TypeOK, RunNesting
  <2>2. Last(runs).kind \in {"interpret"} \cup Calls
    BY <1>0, <2>1, CallersOfFront
  <2>3. mode' = (IF Last(runs).kind = "interpret" THEN AfterProgram ELSE "error")
    BY <1>0, <1>4, <2>2 DEF ErrorReturn, Swallows
  <2>4. CASE REPL
    <3>1. Last(runs).kind # "native"
      BY <1>0, <2>2, <2>4
    <3>2. stackTop' = 0
      BY <1>4, <2>1, <2>4, <3>1, ErrorReturnSafe DEF TameInv
    <3> QED
      BY <2>3, <3>2 DEF AfterProgram, TameInv
  <2>5. CASE ~REPL
    BY <2>3, <2>5 DEF AfterProgram, TameInv
  <2> QED
    BY <2>4, <2>5
<1> QED
  BY <1>0, <1>1, <1>2, <1>3, <1>4, StatementSafe, InCSafe DEF Next

LEMMA AlwaysSafe ==
    ASSUME PlainPrograms
    PROVE  Spec => []AllInv
<1>1. Init => AllInv
  <2> SUFFICES ASSUME Init PROVE AllInv
    OBVIOUS
  <2>1. PendInv
    BY DEF Init, PendInv, PendingOnlyWhileUnwinding, CallersAllowed
  <2>2. SafeInv /\ TameInv
    BY DEF Init, SafeInv, RestInv, TameInv
  <2> QED
    BY <2>1, <2>2, InitInv DEF AllInv
<1>2. AllInv /\ [Next]_vars => AllInv'
  <2> SUFFICES ASSUME Inv, PendInv, SafeInv, TameInv, [Next]_vars PROVE AllInv'
    BY DEF AllInv
  <2>1. Forms = {} /\ Calls \cap Swallows = {}
    BY DEF PlainPrograms
  <2>2. CASE Next
    BY <2>1, <2>2, NextInv, PendNext, SoundNext, TameNext DEF AllInv, SoundInv
  <2>3. CASE UNCHANGED vars
    <3>1. TameInv'
      BY <2>3 DEF TameInv, vars
    <3> QED
      BY <2>1, <3>1, NextInv, PendNext, SoundNext DEF AllInv, SoundInv
  <2> QED
    BY <2>2, <2>3
<1> QED
  BY <1>1, <1>2, PTL DEF Spec

-----------------------------------------------------------------------------
(* What follows.                                                           *)

\* OwnHandlers, by cases.
LEMMA OwnedHere ==
    ASSUME NEW i, NEW j, frames[i].ctx[j] \in Construct
    PROVE  OwnHandlers(i, j) =
               Owned(i, frames[i].slots, Around(frames[i].ctx, j), frames[i].ctx[j])
<1> DEFINE c == frames[i].ctx[j]
           outer == Around(frames[i].ctx, j)
           top == StartOf(frames[i].slots, outer, c)
<1>1. c.phase = "next" => ~IsTry(c)
  BY DEF Construct, IsTry
<1>2. CASE IsTry(c) /\ c.phase = "body"
  <2>1. OwnHandlers(i, j) = TryHandlers(i, top, outer, Entered(c))
    BY <1>2, Zenon DEF OwnHandlers, Around, StartOf, Finallys, Entered
  <2> QED
    BY <1>2, <2>1 DEF Owned
<1>3. CASE IsTry(c) /\ c.phase = "catch"
  <2>1. OwnHandlers(i, j) = << FinallyHandler(i, top, outer, Entered(c)) >>
    BY <1>3, Zenon DEF OwnHandlers, Around, StartOf, Finallys, Entered
  <2> QED
    BY <1>3, <2>1 DEF Owned
<1>4. CASE c.phase = "next"
  <2>1. OwnHandlers(i, j) = << LoopHandler(i, top, outer, c) >>
    BY <1>1, <1>4, Zenon DEF OwnHandlers, Around, StartOf, Finallys
  <2> QED
    BY <1>1, <1>4, <2>1 DEF Owned
<1>5. CASE ~(IsTry(c) /\ c.phase \in {"body", "catch"}) /\ c.phase # "next"
  <2>1. OwnHandlers(i, j) = <<>>
    BY <1>5, Zenon DEF OwnHandlers
  <2> QED
    BY <1>5, <2>1 DEF Owned
<1> QED
  BY <1>2, <1>3, <1>4, <1>5

\* What a native keeps, in the words of StackLayout.
LEMMA GapIs ==
    ASSUME NEW i
    PROVE  Gap(i, NativeBases(runs)) = CellsBelow(
               IF \E k \in 1 .. Len(runs) : runs[k].base = i /\ runs[k].kind = "native"
               THEN "native" ELSE "magic")
<1>1. i \in NativeBases(runs) <=>
          \E k \in 1 .. Len(runs) : runs[k].base = i /\ runs[k].kind = "native"
  BY DEF NativeBases
<1> QED
  BY <1>1 DEF Gap, CellsBelow

\* The value stack ends where the frame on top says and every frame starts where the
\* one below it stops, for every size of the stacks and every program: no statement,
\* no landing of an exception, no early return and no callback of a native leaves a
\* cell too many or too few.
THEOREM FramesFit ==
    ASSUME Forms = {}
    PROVE  Spec => []StackLayout
<1>1. SoundInv => StackLayout
  <2> SUFFICES ASSUME SoundInv, mode \in {"exec", "native"} PROVE StackLayout
    BY DEF StackLayout
  <2> DEFINE N == NativeBases(runs)
             Below(i) == CellsBelow(
                 IF \E k \in 1 .. Len(runs) : runs[k].base = i /\ runs[k].kind = "native"
                 THEN "native" ELSE "magic")
             End(i) == IF i = 0 THEN 0
                       ELSE frames[i].slots + FrameHeight(frames[i]) + Below(i)
  <2>1. FramesOK(frames, Bases(runs), N) /\ stackTop = EndOf(frames, Len(frames), N)
    BY DEF SoundInv, SafeInv, LiveInv
  <2>2. \A i : End(i) = EndOf(frames, i, N)
    <3> TAKE i
    <3>1. Below(i) = Gap(i, N)
      BY GapIs
    <3>2. FrameHeight(frames[i]) = Height(frames[i])
      BY DEF FrameHeight, Height, Finallys
    <3> HIDE DEF Below
    <3> QED
      BY <3>1, <3>2 DEF EndOf
  <2> HIDE DEF End, N
  <2>3. \A i \in 1 .. Len(frames) : frames[i].slots = End(i - 1)
    BY <2>1, <2>2 DEF FramesOK, FrameOK
  <2>4. stackTop = End(Len(frames))
    BY <2>1, <2>2
  <2> QED
    BY <2>3, <2>4 DEF StackLayout, End
<1> QED
  BY <1>1, AlwaysSound, PTL

\* The handler stack is what the try statements and for-each loops of the live frames
\* own, in that order: an exception finds the innermost try around the statement that
\* threw it, whichever calls, callbacks, returns and earlier exceptions came before.
THEOREM HandlersAreTries ==
    ASSUME Forms = {}
    PROVE  Spec => []HandlersMatchTries
<1>1. SoundInv => HandlersMatchTries
  <2> SUFFICES ASSUME SoundInv, mode \in {"exec", "unwind", "native"} PROVE HandlersMatchTries
    BY DEF HandlersMatchTries
  <2>1. handlers = AllHandlers(frames) /\ frames \in Seq(Frame)
    BY DEF SoundInv, SafeInv, LiveInv, Inv, TypeOK
  <2>2. ASSUME NEW i \in 1 .. Len(frames)
        PROVE  CtxHandlers(i, frames[i].slots, frames[i].ctx) =
                   FlattenSeq([j \in 1 .. Len(frames[i].ctx) |-> OwnHandlers(i, j)])
    <3>1. \A j \in 1 .. Len(frames[i].ctx) : frames[i].ctx[j] \in Construct
      BY <2>1, FrameFields
    <3>2. \A j \in 1 .. Len(frames[i].ctx) :
              OwnHandlers(i, j) =
                  Owned(i, frames[i].slots, Around(frames[i].ctx, j), frames[i].ctx[j])
      BY <3>1, OwnedHere
    <3>3. [j \in 1 .. Len(frames[i].ctx) |-> OwnHandlers(i, j)] =
              OwnedIn(i, frames[i].slots, frames[i].ctx)
      BY <3>2 DEF OwnedIn
    <3> QED
      BY <3>3 DEF CtxHandlers
  <2>3. OwnedBy(frames) =
            [i \in 1 .. Len(frames) |->
                FlattenSeq([j \in 1 .. Len(frames[i].ctx) |-> OwnHandlers(i, j)])]
    BY <2>2 DEF OwnedBy
  <2> QED
    BY <2>1, <2>3 DEF HandlersMatchTries, AllHandlers
<1> QED
  BY <1>1, AlwaysSound, PTL

\* No program makes the C code index an empty handler stack, follow a jump that was
\* never patched, land in a frame that is gone or push below the stack.
THEOREM AlwaysDefined ==
    ASSUME PlainPrograms
    PROVE  Spec => []StaysDefined
<1>1. AllInv => StaysDefined
  BY DEF AllInv, TameInv, StaysDefined
<1> QED
  BY <1>1, AlwaysSafe, PTL

\* Whatever way a line of the REPL ends, by its last statement or by an error under any
\* depth of calls through C, it leaves no frame, no handler and no value for the next
\* one.  Programs may call back from natives and have exceptions taken for answers: what
\* may be left is the end of the stack below its start, where an error passed natives,
\* and a pending unwind, where no error did.
THEOREM EveryLineEndsClean ==
    ASSUME Forms = {}
    PROVE  Spec => LinesEndClean
<1> DEFINE Ends == mode # "idle" /\ mode' = "idle" =>
                       /\ frames' = <<>>
                       /\ handlers' = <<>>
                       /\ IF mode = "error" THEN stackTop' <= 0 /\ ~pendingUnwind' ELSE stackTop' = 0
<1>1. SoundInv /\ SoundInv' /\ [Next]_vars => [Ends]_vars
  <2> SUFFICES ASSUME Inv, SafeInv, Inv', SafeInv', Next, mode # "idle", mode' = "idle"
               PROVE  Ends
    BY DEF SoundInv, vars
  <2>1. frames' = <<>> /\ handlers' = <<>> /\ stackTop' <= 0
    BY DEF Inv, RunNesting, SafeInv, RestInv
  <2>2. CASE Interpret
    BY <2>2 DEF Interpret
  <2>3. CASE Statement
    <3>1. mode = "exec"
      BY <2>3, StatementsExecute
    <3>2. stackTop' = 0
      BY <2>3, StatementSafe DEF SafeStep
    <3> QED
      BY <2>1, <3>1, <3>2
  <2>4. CASE ErrorReturn
    <3>1. mode = "error" /\ ~pendingUnwind'
      BY <2>4, ErrorReturnSafe DEF ErrorReturn
    <3> QED
      BY <2>1, <3>1
  <2>5. CASE InC /\ ~ErrorReturn
    <3>1. mode # "error"
      BY <2>5 DEF InC, Land, Propagate, CallbackAgain, NativeFinish, NativeFail
    <3>2. stackTop' = 0
      BY <2>5, InCSafe DEF SafeStep
    <3> QED
      BY <2>1, <3>1, <3>2
  <2> QED
    BY <2>2, <2>3, <2>4, <2>5 DEF Next
<1> QED
  BY <1>1, AlwaysSound, PTL DEF Spec, LinesEndClean
=============================================================================
