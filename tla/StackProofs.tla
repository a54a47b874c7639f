------------------------------ MODULE StackProofs ------------------------------
(***************************************************************************)
(* The upvalues of vm.c for every sequence of instructions that keeps to   *)
(* StackSpec, and the binding of arguments for every function and call.    *)
(*                                                                         *)
(* The walk of the open list stops at the first slot that is low enough,   *)
(* which finds the right place because the list is in order (Listed), and  *)
(* keeps it in order.                                                      *)
(***************************************************************************)
EXTENDS Stack, LeastNumbers, TLAPS

\* The upvalues and the open list: in order, no slot twice, none above the stack.
Listed(upvalues, open, top) ==
    /\ \E V : upvalues \in Seq([slot : Nat, closed : V])
    /\ open \in Seq(DOMAIN upvalues)
    /\ \A i, j \in DOMAIN open : i < j => upvalues[open[i]].slot > upvalues[open[j]].slot
    /\ \A i \in DOMAIN open : upvalues[open[i]].slot \in 1 .. top

\* The inductive invariant.
Inv ==
    /\ vm.top \in Nat /\ 1 .. vm.top \subseteq DOMAIN vm.stack
    /\ Listed(vm.upvalues, vm.open, vm.top)

-----------------------------------------------------------------------------
(* The walk of the list.                                                   *)

\* A sequence of upvalues.
LEMMA UpvaluesTyped ==
    ASSUME NEW V, NEW upvalues \in Seq([slot : Nat, closed : V])
    PROVE  /\ Len(upvalues) \in Nat /\ DOMAIN upvalues = 1 .. Len(upvalues)
           /\ \A u \in DOMAIN upvalues : /\ upvalues[u] \in [slot : Nat, closed : V]
                                         /\ upvalues[u].slot \in Nat
<1> DEFINE R == [slot : Nat, closed : V]
<1>1. /\ Len(upvalues) \in Nat /\ DOMAIN upvalues = 1 .. Len(upvalues)
      /\ \A u \in DOMAIN upvalues : upvalues[u] \in R
  <2>1. upvalues \in Seq(R)
    OBVIOUS
  <2> HIDE DEF R
  <2> QED
    BY <2>1
<1>2. \A r \in R : r.slot \in Nat
  OBVIOUS
<1> QED
  BY <1>1, <1>2

\* What Listed says of one place of the list.
LEMMA ListedTypes ==
    ASSUME NEW upvalues, NEW open, NEW top \in Nat, Listed(upvalues, open, top)
    PROVE  /\ Len(upvalues) \in Nat /\ DOMAIN upvalues = 1 .. Len(upvalues)
           /\ \A u \in DOMAIN upvalues : upvalues[u].slot \in Nat
           /\ Len(open) \in Nat /\ DOMAIN open = 1 .. Len(open)
           /\ \A i \in 1 .. Len(open) : /\ open[i] \in DOMAIN upvalues
                                        /\ upvalues[open[i]].slot \in Nat
                                        /\ 1 <= upvalues[open[i]].slot
                                        /\ upvalues[open[i]].slot <= top
<1>1. PICK V : upvalues \in Seq([slot : Nat, closed : V])
  BY DEF Listed
<1>2. /\ Len(upvalues) \in Nat /\ DOMAIN upvalues = 1 .. Len(upvalues)
      /\ \A u \in DOMAIN upvalues : upvalues[u].slot \in Nat
  BY <1>1, UpvaluesTyped
<1>3. open \in Seq(DOMAIN upvalues)
  BY DEF Listed
<1> DEFINE D == DOMAIN upvalues
<1>4. \A i \in DOMAIN open : upvalues[open[i]].slot \in 1 .. top
  BY DEF Listed
<1>5. Len(open) \in Nat /\ DOMAIN open = 1 .. Len(open) /\ \A i \in 1 .. Len(open) : open[i] \in D
  <2> HIDE DEF D
  <2>1. open \in Seq(D)
    BY <1>3 DEF D
  <2> QED
    BY <2>1
<1> QED
  BY <1>2, <1>4, <1>5

\* The walk ends where the slots below `from` begin.
LEMMA WalkEnds ==
    ASSUME NEW m, NEW top \in Nat, Listed(m.upvalues, m.open, top), NEW from \in Int
    PROVE  /\ FirstBelow(m, from) \in 1 .. Len(m.open) + 1
           /\ \A i \in 1 .. Len(m.open) : SlotOf(m, i) < from <=> i >= FirstBelow(m, from)
<1> DEFINE n == Len(m.open)
           s(i) == m.upvalues[m.open[i]].slot
           below == {i \in DOMAIN m.open : SlotOf(m, i) < from}
           k == FirstBelow(m, from)
<1>1. n \in Nat /\ DOMAIN m.open = 1 .. n /\ \A i \in 1 .. n : s(i) \in Nat
  BY ListedTypes
<1>2. \A i, j \in 1 .. n : i < j => s(i) > s(j)
  BY <1>1 DEF Listed
<1>3. \A i : SlotOf(m, i) = s(i)
  BY DEF SlotOf
<1>4. below = {i \in 1 .. n : s(i) < from}
  BY <1>1, <1>3
<1>5. k = IF below = {} THEN n + 1 ELSE Min(below)
  BY DEF FirstBelow
<1> HIDE DEF n, s, k, below
<1>6. CASE below = {}
  BY <1>1, <1>3, <1>4, <1>5, <1>6 DEF n, k
<1>7. CASE below # {}
  <2>1. below \in SUBSET (0 .. n)
    BY <1>4
  <2>2. k \in below /\ \A d \in below : k <= d
    BY <1>1, <1>5, <1>7, <2>1, MinOf
  <2>3. k \in 1 .. n /\ s(k) < from
    BY <1>4, <2>2
  <2>4. ASSUME NEW i \in 1 .. n PROVE s(i) < from <=> i >= k
    <3>1. i \in Nat /\ k \in Nat /\ s(i) \in Nat /\ s(k) \in Nat
      BY <1>1, <2>3
    <3>2. s(i) < from => k <= i
      BY <1>4, <2>2
    <3>3. i > k => s(k) > s(i)
      BY <1>2, <2>3, <3>1
    <3>4. i >= k => i = k \/ i > k
      BY <3>1
    <3> QED
      BY <2>3, <3>1, <3>2, <3>3, <3>4
  <2> QED
    BY <1>1, <1>3, <2>3, <2>4 DEF n, k
<1> QED
  BY <1>6, <1>7

\* A function on 1 .. n is a sequence of its values.
LEMMA SequenceOf ==
    ASSUME NEW n \in Nat, NEW S, NEW f, f = [i \in 1 .. n |-> f[i]], \A i \in 1 .. n : f[i] \in S
    PROVE  f \in Seq(S) /\ Len(f) = n
OBVIOUS

\* closeUpvalues: the upvalues of the slots from `from` on hold the values of these
\* slots, the others stay open, in order.
LEMMA Closes ==
    ASSUME NEW m, NEW top \in Nat, Listed(m.upvalues, m.open, top),
           NEW from \in Nat, NEW low \in Nat, from <= low + 1
    PROVE  /\ Listed(WithClosed(m, from), StillOpen(m, from), low)
           /\ DOMAIN WithClosed(m, from) = DOMAIN m.upvalues
           /\ \A i \in 1 .. Len(m.open) :
                 SlotOf(m, i) >= from =>
                     WithClosed(m, from)[m.open[i]] = [slot |-> 0, closed |-> m.stack[SlotOf(m, i)]]
           /\ \A u \in DOMAIN m.upvalues :
                 (\A i \in 1 .. Len(m.open) : m.open[i] = u => SlotOf(m, i) < from) =>
                     WithClosed(m, from)[u] = m.upvalues[u]
           /\ \A i \in 1 .. Len(StillOpen(m, from)) :
                 \E j \in 1 .. Len(m.open) : StillOpen(m, from)[i] = m.open[j] /\ SlotOf(m, j) < from
<1> DEFINE n == Len(m.open)
           k == FirstBelow(m, from)
           closing == {m.open[i] : i \in 1 .. k - 1}
           c == WithClosed(m, from)
           o == StillOpen(m, from)
           D == DOMAIN m.upvalues
           s(i) == m.upvalues[m.open[i]].slot
<1>1. /\ Len(m.upvalues) \in Nat /\ D = 1 .. Len(m.upvalues)
      /\ \A u \in D : m.upvalues[u].slot \in Nat
      /\ n \in Nat /\ DOMAIN m.open = 1 .. n
      /\ \A i \in 1 .. n : m.open[i] \in D /\ s(i) \in Nat /\ 1 <= s(i) /\ s(i) <= top
  BY ListedTypes
<1>2. k \in 1 .. n + 1 /\ \A i \in 1 .. n : s(i) < from <=> i >= k
  <2>1. from \in Int
    OBVIOUS
  <2> QED
    BY <2>1, WalkEnds DEF SlotOf
<1>3. \A i, j \in 1 .. n : i < j => s(i) > s(j)
  BY <1>1 DEF Listed
<1>4. \A i : SlotOf(m, i) = s(i)
  BY DEF SlotOf
<1>5. c = [u \in D |-> IF u \in closing THEN [slot |-> 0, closed |-> m.stack[m.upvalues[u].slot]]
                                         ELSE m.upvalues[u]]
  BY DEF WithClosed
<1>6. m.open \in Seq(D) /\ o = SubSeq(m.open, k, n)
  BY DEF Listed, StillOpen
<1>7. PICK V : m.upvalues \in Seq([slot : Nat, closed : V])
  BY DEF Listed
<1> HIDE DEF n, k, closing, c, o, D
<1>8. /\ o \in Seq(D) /\ Len(o) = n - k + 1 /\ DOMAIN o = 1 .. n - k + 1
      /\ \A i \in 1 .. n - k + 1 : o[i] = m.open[k + i - 1]
  <2>1. Len(m.open) = n
    BY DEF n
  <2>2. k \in Int /\ 1 <= k /\ k <= n + 1
    BY <1>1, <1>2
  <2>3. m.open \in Seq(D)
    BY <1>6
  <2>4. SubSeq(m.open, k, n) \in Seq(D)
    BY <1>1, <2>1, <2>2, <2>3
  <2>5. Len(SubSeq(m.open, k, n)) = n - k + 1
    BY <1>1, <2>1, <2>2, <2>3
  <2>6. \A i \in 1 .. n - k + 1 : SubSeq(m.open, k, n)[i] = m.open[k + i - 1]
    BY <1>1, <2>1, <2>2, <2>3
  <2> QED
    BY <1>6, <2>4, <2>5, <2>6
<1>9. \A i, j \in 1 .. n : m.open[i] = m.open[j] => i = j
  <2> SUFFICES ASSUME NEW i \in 1 .. n, NEW j \in 1 .. n, m.open[i] = m.open[j], i # j
               PROVE  FALSE
    OBVIOUS
  <2>1. s(i) = s(j) /\ s(i) \in Nat /\ s(j) \in Nat
    BY <1>1
  <2>2. i < j \/ j < i
    OBVIOUS
  <2> QED
    BY <1>3, <2>1, <2>2
<1>10. \A i \in 1 .. n : m.open[i] \in closing <=> i < k
  <2>1. ASSUME NEW i \in 1 .. n, i < k PROVE m.open[i] \in closing
    BY <1>2, <2>1 DEF closing
  <2>2. ASSUME NEW i \in 1 .. n, m.open[i] \in closing PROVE i < k
    <3>1. PICK j \in 1 .. k - 1 : m.open[i] = m.open[j]
      BY <2>2 DEF closing
    <3>2. j \in 1 .. n /\ j < k
      BY <1>1, <1>2
    <3> QED
      BY <1>9, <3>1, <3>2
  <2> QED
    BY <2>1, <2>2
<1>11. closing \subseteq D
  BY <1>1, <1>2 DEF closing
<1>12. DOMAIN c = D
  BY <1>5
<1>13. ASSUME NEW i \in 1 .. n, s(i) >= from
       PROVE  c[m.open[i]] = [slot |-> 0, closed |-> m.stack[s(i)]]
  <2>1. i < k
    BY <1>1, <1>2, <1>13
  <2>2. m.open[i] \in closing /\ m.open[i] \in D
    BY <1>1, <1>10, <2>1
  <2> QED
    BY <1>5, <2>2
<1>14. ASSUME NEW u \in D, \A i \in 1 .. n : m.open[i] = u => s(i) < from
       PROVE  c[u] = m.upvalues[u]
  <2>1. u \notin closing
    <3> SUFFICES ASSUME u \in closing PROVE FALSE
      OBVIOUS
    <3>1. PICK j \in 1 .. k - 1 : u = m.open[j]
      BY DEF closing
    <3>2. j \in 1 .. n /\ ~(j >= k)
      BY <1>1, <1>2
    <3> QED
      BY <1>2, <1>14, <3>1, <3>2
  <2> QED
    BY <1>5, <2>1
<1>15. ASSUME NEW i \in 1 .. n - k + 1
       PROVE  /\ k + i - 1 \in 1 .. n /\ o[i] = m.open[k + i - 1] /\ s(k + i - 1) < from
              /\ c[o[i]] = m.upvalues[o[i]] /\ c[o[i]].slot = s(k + i - 1)
  <2> DEFINE j == k + i - 1
  <2>1. j \in 1 .. n /\ j >= k /\ ~(j < k)
    BY <1>1, <1>2
  <2>2. o[i] = m.open[j]
    BY <1>8
  <2> HIDE DEF j
  <2>3. s(j) < from
    BY <1>2, <2>1
  <2>4. m.open[j] \notin closing /\ m.open[j] \in D
    BY <1>1, <1>10, <2>1
  <2>5. c[m.open[j]] = m.upvalues[m.open[j]]
    BY <1>5, <2>4
  <2> QED
    BY <2>1, <2>2, <2>3, <2>5 DEF j
<1>16. \E W : c \in Seq([slot : Nat, closed : W])
  <2> DEFINE W == V \cup {m.stack[m.upvalues[u].slot] : u \in D}
             R == [slot : Nat, closed : W]
  <2>1. ASSUME NEW u \in D PROVE c[u] \in R
    <3>1. CASE u \in closing
      BY <1>5, <3>1
    <3>2. CASE u \notin closing
      <4>1. m.upvalues[u] \in [slot : Nat, closed : V]
        BY <1>7, UpvaluesTyped DEF D
      <4> QED
        BY <1>5, <3>2, <4>1
    <3> QED
      BY <3>1, <3>2
  <2> HIDE DEF W
  <2>2. c = [u \in D |-> c[u]]
    BY <1>5
  <2>3. c \in Seq(R)
    <3> HIDE DEF R
    <3> QED
      BY <1>1, <2>1, <2>2, SequenceOf
  <2> QED
    BY <2>3
<1>17. Listed(c, o, low)
  <2>1. o \in Seq(DOMAIN c)
    BY <1>8, <1>12
  <2>2. ASSUME NEW i \in DOMAIN o, NEW j \in DOMAIN o, i < j
        PROVE  c[o[i]].slot > c[o[j]].slot
    <3>1. i \in 1 .. n - k + 1 /\ j \in 1 .. n - k + 1
      BY <1>8
    <3>2. c[o[i]].slot = s(k + i - 1) /\ c[o[j]].slot = s(k + j - 1)
      BY <1>15, <3>1
    <3>3. k + i - 1 \in 1 .. n /\ k + j - 1 \in 1 .. n /\ k + i - 1 < k + j - 1
      BY <1>1, <1>2, <2>2, <3>1
    <3> DEFINE p == k + i - 1
               q == k + j - 1
    <3>4. p \in 1 .. n /\ q \in 1 .. n /\ p < q /\ c[o[i]].slot = s(p) /\ c[o[j]].slot = s(q)
      BY <3>2, <3>3
    <3> HIDE DEF p, q
    <3> QED
      BY <1>3, <3>4
  <2>3. ASSUME NEW i \in DOMAIN o PROVE c[o[i]].slot \in 1 .. low
    <3>1. i \in 1 .. n - k + 1
      BY <1>8
    <3> DEFINE p == k + i - 1
    <3>2. p \in 1 .. n /\ c[o[i]].slot = s(p) /\ s(p) < from
      BY <1>15, <3>1
    <3> HIDE DEF p
    <3>3. s(p) \in Nat /\ 1 <= s(p)
      BY <1>1, <3>2
    <3> QED
      BY <3>2, <3>3
  <2> QED
    BY <1>16, <2>1, <2>2, <2>3 DEF Listed
<1>18. ASSUME NEW i \in 1 .. Len(o)
       PROVE  \E j \in 1 .. n : o[i] = m.open[j] /\ s(j) < from
  BY <1>8, <1>15
<1> QED
  BY <1>4, <1>12, <1>13, <1>14, <1>17, <1>18 DEF c, o, D, n

\* InsertAt, place by place.
LEMMA Inserted ==
    ASSUME NEW S, NEW s \in Seq(S), NEW at \in 1 .. Len(s) + 1, NEW e \in S
    PROVE  /\ InsertAt(s, at, e) \in Seq(S) /\ Len(InsertAt(s, at, e)) = Len(s) + 1
           /\ \A i \in 1 .. Len(s) + 1 :
                 InsertAt(s, at, e)[i] = IF i < at THEN s[i] ELSE IF i = at THEN e ELSE s[i - 1]
<1> DEFINE n == Len(s)
           x == SubSeq(s, 1, at - 1)
           y == SubSeq(s, at, Len(s))
<1>1. n \in Nat /\ at \in Int /\ 1 <= at /\ at <= n + 1
  OBVIOUS
<1>2. x \in Seq(S) /\ Len(x) = at - 1 /\ \A i \in 1 .. at - 1 : x[i] = s[i]
  BY <1>1
<1>3. y \in Seq(S) /\ Len(y) = n - at + 1 /\ \A i \in 1 .. n - at + 1 : y[i] = s[at + i - 1]
  BY <1>1
<1>4. InsertAt(s, at, e) = x \o <<e>> \o y
  BY DEF InsertAt
<1> DEFINE z == x \o <<e>>
<1> HIDE DEF n, x, y
<1>5. z \in Seq(S) /\ Len(z) = at /\ \A i \in 1 .. at : z[i] = IF i < at THEN x[i] ELSE e
  BY <1>1, <1>2
<1> HIDE DEF z
<1>6. /\ z \o y \in Seq(S) /\ Len(z \o y) = n + 1
      /\ \A i \in 1 .. n + 1 : (z \o y)[i] = IF i <= at THEN z[i] ELSE y[i - at]
  BY <1>1, <1>3, <1>5
<1>7. ASSUME NEW i \in 1 .. n + 1
      PROVE  (z \o y)[i] = IF i < at THEN s[i] ELSE IF i = at THEN e ELSE s[i - 1]
  <2>1. CASE i < at
    BY <1>1, <1>2, <1>5, <1>6, <2>1
  <2>2. CASE i = at
    BY <1>1, <1>5, <1>6, <2>2
  <2>3. CASE i > at
    <3> DEFINE q == i - at
    <3>1. q \in 1 .. n - at + 1 /\ at + q - 1 = i - 1 /\ ~(i <= at) /\ ~(i < at) /\ i # at
      BY <1>1, <2>3
    <3>2. (z \o y)[i] = y[q]
      BY <1>6, <3>1
    <3> HIDE DEF q
    <3> QED
      BY <1>3, <3>1, <3>2
  <2>4. i < at \/ i = at \/ i > at
    BY <1>1
  <2> QED
    BY <2>1, <2>2, <2>3, <2>4
<1> QED
  BY <1>4, <1>6, <1>7 DEF n, z

\* captureUpvalue: the list stays in order, what was in it stays, and the result is
\* the upvalue of the slot.
LEMMA Captures ==
    ASSUME NEW m, NEW top \in Nat, {"upvalues", "open"} \subseteq DOMAIN m,
           Listed(m.upvalues, m.open, top), NEW slot \in 1 .. top
    PROVE  LET c == Capture(m, slot) IN
           /\ DOMAIN c.m = DOMAIN m
           /\ Listed(c.m.upvalues, c.m.open, top)
           /\ DOMAIN m.upvalues \subseteq DOMAIN c.m.upvalues
           /\ \A u \in DOMAIN m.upvalues : c.m.upvalues[u] = m.upvalues[u]
           /\ c.u \in DOMAIN c.m.upvalues /\ c.m.upvalues[c.u].slot = slot
           /\ \E i \in DOMAIN c.m.open : c.m.open[i] = c.u
           /\ \A i \in DOMAIN m.open : \E j \in DOMAIN c.m.open : c.m.open[j] = m.open[i]
           /\ \A i \in DOMAIN m.open : SlotOf(m, i) = slot => c.m = m /\ c.u = m.open[i]
<1> DEFINE n == Len(m.open)
           at == FirstBelow(m, slot + 1)
           new == Len(m.upvalues) + 1
           record == [slot |-> slot, closed |-> Nil]
           more == Append(m.upvalues, record)
           list == InsertAt(m.open, at, new)
           D == DOMAIN m.upvalues
           s(i) == m.upvalues[m.open[i]].slot
           c == Capture(m, slot)
<1>1. /\ Len(m.upvalues) \in Nat /\ D = 1 .. Len(m.upvalues)
      /\ \A u \in D : m.upvalues[u].slot \in Nat
      /\ n \in Nat /\ DOMAIN m.open = 1 .. n
      /\ \A i \in 1 .. n : m.open[i] \in D /\ s(i) \in Nat /\ 1 <= s(i) /\ s(i) <= top
  BY ListedTypes
<1>2. at \in 1 .. n + 1 /\ \A i \in 1 .. n : s(i) < slot + 1 <=> i >= at
  <2>1. slot + 1 \in Int
    OBVIOUS
  <2> QED
    BY <2>1, WalkEnds DEF SlotOf
<1>3. \A i, j \in 1 .. n : i < j => s(i) > s(j)
  BY <1>1 DEF Listed
<1>4. \A i : SlotOf(m, i) = s(i)
  BY DEF SlotOf
<1>5. m.open \in Seq(D)
  BY DEF Listed
<1>6. PICK V : m.upvalues \in Seq([slot : Nat, closed : V])
  BY DEF Listed
<1>7. c = IF at <= n /\ s(at) = slot THEN [m |-> m, u |-> m.open[at]]
          ELSE [m |-> [m EXCEPT !.upvalues = more, !.open = list], u |-> new]
  BY DEF Capture, SlotOf
<1> HIDE DEF n, at, new, record, more, list, D, c
<1>8. slot \in Nat /\ 1 <= slot /\ slot <= top
  OBVIOUS
<1>9. ASSUME NEW i \in 1 .. n, s(i) = slot PROVE at <= n /\ s(at) = slot /\ at = i
  <2>1. i >= at
    BY <1>1, <1>2, <1>8, <1>9
  <2>2. at \in 1 .. n
    BY <1>1, <1>2, <2>1
  <2>3. s(at) < slot + 1 /\ s(at) \in Nat
    BY <1>1, <1>2, <2>2
  <2>4. at < i => s(at) > s(i)
    BY <1>3, <2>2
  <2> QED
    BY <1>8, <1>9, <2>1, <2>2, <2>3, <2>4
<1>10. CASE at <= n /\ s(at) = slot
  <2>1. c.m = m /\ c.u = m.open[at]
    BY <1>7, <1>10
  <2>2. at \in 1 .. n /\ m.open[at] \in D
    BY <1>1, <1>2, <1>10
  <2>3. \A i \in DOMAIN m.open : SlotOf(m, i) = slot => c.u = m.open[i]
    BY <1>1, <1>4, <1>9, <2>1
  <2>4. /\ DOMAIN c.m = DOMAIN m
        /\ Listed(c.m.upvalues, c.m.open, top)
        /\ c.u \in DOMAIN c.m.upvalues /\ c.m.upvalues[c.u].slot = slot
    BY <1>10, <2>1, <2>2 DEF D
  <2>5. at \in DOMAIN c.m.open /\ c.m.open[at] = c.u
    BY <1>1, <2>1, <2>2
  <2> QED
    BY <2>1, <2>3, <2>4, <2>5 DEF c
<1>11. CASE ~(at <= n /\ s(at) = slot)
  <2>1. c.m = [m EXCEPT !.upvalues = more, !.open = list] /\ c.u = new
    BY <1>7, <1>11
  <2>2. DOMAIN c.m = DOMAIN m /\ c.m.upvalues = more /\ c.m.open = list
    BY <2>1
  <2> DEFINE W == V \cup {Nil}
             R == [slot : Nat, closed : W]
  <2>3. record \in R /\ record.slot = slot
    BY <1>8 DEF record
  <2>4. m.upvalues \in Seq(R)
    <3>1. \A u \in D : m.upvalues[u] \in R
      BY <1>6, UpvaluesTyped DEF D
    <3>2. m.upvalues = [i \in 1 .. Len(m.upvalues) |-> m.upvalues[i]]
      BY <1>6
    <3> HIDE DEF R
    <3> QED
      BY <1>1, <3>1, <3>2, SequenceOf
  <2>5. /\ more \in Seq(R) /\ DOMAIN more = 1 .. new /\ new \notin D /\ new \in Nat
        /\ D \subseteq DOMAIN more
        /\ \A u \in D : more[u] = m.upvalues[u]
        /\ more[new] = record /\ new \in DOMAIN more
    <3> DEFINE ups == m.upvalues
    <3>1. ups \in Seq(R) /\ record \in R /\ D = 1 .. Len(ups) /\ new = Len(ups) + 1 /\ more = Append(ups, record)
      BY <1>1, <2>3, <2>4 DEF new, more
    <3> HIDE DEF R, ups
    <3>2. /\ more \in Seq(R) /\ Len(more) = new
          /\ \A u \in 1 .. Len(ups) : more[u] = ups[u]
          /\ more[new] = record
      BY <3>1
    <3>3. DOMAIN more = 1 .. new
      BY <3>2
    <3> QED
      BY <3>1, <3>2, <3>3 DEF ups
  <2>6. /\ list \in Seq(DOMAIN more) /\ Len(list) = n + 1 /\ DOMAIN list = 1 .. n + 1
        /\ \A i \in 1 .. n + 1 :
              list[i] = IF i < at THEN m.open[i] ELSE IF i = at THEN new ELSE m.open[i - 1]
    <3> DEFINE E == DOMAIN more
    <3>1. m.open \in Seq(E)
      <4>1. \A i \in 1 .. n : m.open[i] \in E
        BY <1>1, <2>5
      <4>2. m.open = [i \in 1 .. n |-> m.open[i]]
        BY <1>1, <1>5
      <4> HIDE DEF E
      <4> QED
        BY <1>1, <4>1, <4>2, SequenceOf
    <3>2. new \in E
      BY <2>5
    <3> DEFINE open == m.open
    <3>a. list = InsertAt(open, at, new) /\ Len(open) = n
      BY DEF list, n
    <3>c. open \in Seq(E) /\ at \in 1 .. Len(open) + 1
      BY <1>2, <3>1 DEF n
    <3> HIDE DEF E, open
    <3>b. /\ InsertAt(open, at, new) \in Seq(E) /\ Len(InsertAt(open, at, new)) = Len(open) + 1
          /\ \A i \in 1 .. Len(open) + 1 :
                InsertAt(open, at, new)[i] =
                    IF i < at THEN open[i] ELSE IF i = at THEN new ELSE open[i - 1]
      BY <3>c, <3>2, Inserted
    <3>3. /\ list \in Seq(E) /\ Len(list) = n + 1
          /\ \A i \in 1 .. n + 1 :
                list[i] = IF i < at THEN m.open[i] ELSE IF i = at THEN new ELSE m.open[i - 1]
      BY <3>a, <3>b, Zenon DEF open
    <3>4. DOMAIN list = 1 .. n + 1
      BY <3>3
    <3> QED
      BY <3>3, <3>4 DEF E
  <2> DEFINE t(i) == more[list[i]].slot
  <2>7. at \in Int /\ 1 <= at /\ at <= n + 1
    BY <1>1, <1>2
  <2>8. \A i \in 1 .. n : i < at => t(i) = s(i) /\ s(i) > slot
    <3> SUFFICES ASSUME NEW i \in 1 .. n, i < at PROVE t(i) = s(i) /\ s(i) > slot
      OBVIOUS
    <3>1. i \in 1 .. n + 1 /\ m.open[i] \in D /\ s(i) \in Nat /\ ~(i >= at)
      BY <1>1, <2>7
    <3>2. list[i] = m.open[i]
      BY <2>6, <3>1
    <3>3. ~(s(i) < slot + 1)
      BY <1>2, <3>1
    <3>4. s(i) > slot
      BY <1>8, <3>1, <3>3
    <3> QED
      BY <2>5, <3>1, <3>2, <3>4
  <2>9. t(at) = slot
    <3>1. list[at] = new
      BY <1>2, <2>6, <2>7
    <3> QED
      BY <2>3, <2>5, <3>1
  <2>10. \A i \in 2 .. n + 1 : i > at => t(i) = s(i - 1) /\ s(i - 1) < slot
    <3> SUFFICES ASSUME NEW i \in 2 .. n + 1, i > at PROVE t(i) = s(i - 1) /\ s(i - 1) < slot
      OBVIOUS
    <3> DEFINE j == i - 1
    <3>1. j \in 1 .. n /\ j >= at /\ i \in 1 .. n + 1 /\ ~(i < at) /\ i # at
      BY <1>1, <2>7
    <3>2. list[i] = m.open[j]
      BY <2>6, <3>1
    <3> HIDE DEF j
    <3>3. s(j) < slot + 1 /\ s(j) \in Nat /\ m.open[j] \in D
      BY <1>1, <1>2, <3>1
    <3>4. s(j) # slot
      BY <1>9, <1>11, <3>1
    <3>5. s(j) < slot
      BY <1>8, <3>3, <3>4
    <3>6. t(i) = s(j)
      BY <2>5, <3>2, <3>3
    <3> QED
      BY <3>5, <3>6 DEF j
  <2> HIDE DEF t, R, W
  <2>11. ASSUME NEW i \in 1 .. n + 1, NEW j \in 1 .. n + 1, i < j PROVE t(i) > t(j)
    <3>1. CASE j < at
      <4>1. i \in 1 .. n /\ j \in 1 .. n /\ i < at
        BY <1>1, <2>7, <2>11, <3>1
      <4> QED
        BY <1>3, <2>8, <2>11, <3>1, <4>1
    <3>2. CASE j = at
      <4>1. i \in 1 .. n /\ i < at
        BY <1>1, <2>7, <2>11, <3>2
      <4> QED
        BY <2>8, <2>9, <3>2, <4>1
    <3>3. CASE j > at /\ i < at
      <4>1. i \in 1 .. n /\ j \in 2 .. n + 1 /\ j - 1 \in 1 .. n
        BY <1>1, <2>7, <2>11, <3>3
      <4>2. t(i) = s(i) /\ s(i) > slot /\ t(j) = s(j - 1) /\ s(j - 1) < slot
        BY <2>8, <2>10, <3>3, <4>1
      <4>3. t(i) \in Nat /\ t(j) \in Nat
        BY <1>1, <4>1, <4>2
      <4> QED
        BY <1>8, <4>2, <4>3
    <3>4. CASE i = at
      <4>1. j \in 2 .. n + 1 /\ j > at
        BY <1>1, <2>7, <2>11, <3>4
      <4> QED
        BY <2>9, <2>10, <3>4, <4>1
    <3>5. CASE i > at
      <4>1. /\ i \in 2 .. n + 1 /\ j \in 2 .. n + 1 /\ j > at
            /\ i - 1 \in 1 .. n /\ j - 1 \in 1 .. n /\ i - 1 < j - 1
        BY <1>1, <2>7, <2>11, <3>5
      <4> DEFINE p == i - 1
                 q == j - 1
      <4>2. p \in 1 .. n /\ q \in 1 .. n /\ p < q /\ t(i) = s(p) /\ t(j) = s(q)
        BY <2>10, <3>5, <4>1
      <4> HIDE DEF p, q
      <4> QED
        BY <1>3, <4>2
    <3>6. j < at \/ j = at \/ (j > at /\ i < at) \/ i = at \/ i > at
      BY <2>7
    <3> QED
      BY <3>1, <3>2, <3>3, <3>4, <3>5, <3>6
  <2>12. ASSUME NEW i \in 1 .. n + 1 PROVE t(i) \in 1 .. top
    <3>1. CASE i < at
      <4>1. i \in 1 .. n
        BY <1>1, <2>7, <3>1
      <4> QED
        BY <1>1, <2>8, <3>1, <4>1
    <3>2. CASE i = at
      BY <1>8, <2>9, <3>2
    <3>3. CASE i > at
      <4>1. i \in 2 .. n + 1 /\ i - 1 \in 1 .. n
        BY <1>1, <2>7, <3>3
      <4> DEFINE p == i - 1
      <4>2. p \in 1 .. n /\ t(i) = s(p)
        BY <2>10, <3>3, <4>1
      <4> HIDE DEF p
      <4> QED
        BY <1>1, <4>2
    <3> QED
      BY <2>7, <3>1, <3>2, <3>3
  <2>13. Listed(more, list, top)
    <3>1. \E X : more \in Seq([slot : Nat, closed : X])
      BY <2>5 DEF R
    <3> QED
      BY <2>6, <2>11, <2>12, <3>1 DEF Listed, t
  <2>14. at \in DOMAIN list /\ list[at] = new
    BY <1>2, <2>6, <2>7
  <2>15. ASSUME NEW i \in DOMAIN m.open PROVE \E j \in DOMAIN list : list[j] = m.open[i]
    <3>1. i \in 1 .. n
      BY <1>1
    <3>2. CASE i < at
      <4>1. i \in 1 .. n + 1
        BY <1>1, <3>1
      <4> QED
        BY <2>6, <3>2, <4>1
    <3>3. CASE i >= at
      <4> DEFINE q == i + 1
      <4>1. q \in 1 .. n + 1 /\ ~(q < at) /\ q # at /\ q - 1 = i
        BY <1>1, <2>7, <3>1, <3>3
      <4> HIDE DEF q
      <4>2. list[q] = m.open[i]
        BY <2>6, <4>1
      <4> QED
        BY <2>6, <4>1, <4>2
    <3> QED
      BY <2>7, <3>1, <3>2, <3>3
  <2>16. \A i \in DOMAIN m.open : SlotOf(m, i) # slot
    BY <1>1, <1>4, <1>9, <1>11
  <2>17. new \in DOMAIN more /\ more[new].slot = slot
    BY <2>3, <2>5
  <2> HIDE DEF c
  <2>18. /\ DOMAIN m.upvalues \subseteq DOMAIN c.m.upvalues
         /\ \A u \in DOMAIN m.upvalues : c.m.upvalues[u] = m.upvalues[u]
    BY <2>2, <2>5 DEF D
  <2>19. /\ Listed(c.m.upvalues, c.m.open, top)
         /\ c.u \in DOMAIN c.m.upvalues /\ c.m.upvalues[c.u].slot = slot
         /\ \E i \in DOMAIN c.m.open : c.m.open[i] = c.u
         /\ \A i \in DOMAIN m.open : \E j \in DOMAIN c.m.open : c.m.open[j] = m.open[i]
    BY <2>1, <2>2, <2>13, <2>14, <2>15, <2>17
  <2> QED
    BY <2>2, <2>16, <2>18, <2>19 DEF c
<1> QED
  BY <1>10, <1>11

-----------------------------------------------------------------------------
(* A closure captures one slot after the other.                            *)

\* The recursive function of Captured, as far as place n.
CapturesEach(slots, n, f) ==
    f = [i \in 0 .. n |-> IF i = 0 THEN [upvalues |-> vm.upvalues, open |-> vm.open]
                          ELSE Capture(f[i - 1], slots[i]).m]

\* There is such a function.
LEMMA CapturingExists ==
    ASSUME NEW slots, NEW n \in Nat
    PROVE  \E f : CapturesEach(slots, n, f)
<1> DEFINE Good == {k \in Nat : \E f : CapturesEach(slots, k, f)}
           first == [upvalues |-> vm.upvalues, open |-> vm.open]
           next(r, i) == Capture(r, slots[i]).m
<1> HIDE DEF first, next
<1>0. \A k : \A f : CapturesEach(slots, k, f) <=>
                       f = [i \in 0 .. k |-> IF i = 0 THEN first ELSE next(f[i - 1], i)]
  BY DEF CapturesEach, first, next
<1>1. 0 \in Good
  <2> DEFINE f == [i \in 0 .. 0 |-> first]
  <2>1. f = [i \in 0 .. 0 |-> IF i = 0 THEN first ELSE next(f[i - 1], i)]
    OBVIOUS
  <2> HIDE DEF f
  <2> QED
    BY <1>0, <2>1
<1>2. ASSUME NEW k \in Nat, k \in Good PROVE k + 1 \in Good
  <2>1. PICK g : g = [i \in 0 .. k |-> IF i = 0 THEN first ELSE next(g[i - 1], i)]
    BY <1>0, <1>2
  <2>2. \A i \in 0 .. k : g[i] = IF i = 0 THEN first ELSE next(g[i - 1], i)
    BY <2>1
  <2> DEFINE last == next(g[k], k + 1)
             f == [i \in 0 .. k + 1 |-> IF i = k + 1 THEN last ELSE g[i]]
  <2> HIDE DEF last
  <2>3. \A i \in 0 .. k : f[i] = g[i]
    OBVIOUS
  <2>4. f[k + 1] = last
    OBVIOUS
  <2>5. f = [i \in 0 .. k + 1 |-> f[i]]
    OBVIOUS
  <2> HIDE DEF f
  <2>6. ASSUME NEW i \in 0 .. k + 1
        PROVE  f[i] = IF i = 0 THEN first ELSE next(f[i - 1], i)
    <3>1. CASE i = k + 1
      <4>1. i - 1 = k /\ k \in 0 .. k /\ i # 0
        BY <3>1
      <4>2. f[i - 1] = g[k]
        BY <4>1, <2>3
      <4> QED
        BY <3>1, <4>1, <4>2, <2>4 DEF last
    <3>2. CASE i # k + 1
      <4>1. i \in 0 .. k /\ (i # 0 => i - 1 \in 0 .. k)
        BY <3>2
      <4>2. f[i] = g[i] /\ (i # 0 => f[i - 1] = g[i - 1])
        BY <4>1, <2>3
      <4> QED
        BY <4>1, <4>2, <2>2
    <3> QED
      BY <3>1, <3>2
  <2>7. f = [i \in 0 .. k + 1 |-> IF i = 0 THEN first ELSE next(f[i - 1], i)]
    BY <2>5, <2>6
  <2> QED
    BY <1>0, <2>7
<1>3. n \in Good
  <2> HIDE DEF Good
  <2> QED
    BY <1>1, <1>2, EveryNumber
<1> QED
  BY <1>3

\* What a closure captures leaves the list in order and the older upvalues as they
\* are.
LEMMA CapturedListed ==
    ASSUME NEW slots, Len(slots) \in Nat, NEW top \in Nat,
           Listed(vm.upvalues, vm.open, top), \A i \in 1 .. Len(slots) : slots[i] \in 1 .. top
    PROVE  LET r == Captured(slots) IN
           /\ Listed(r.upvalues, r.open, top)
           /\ \A u \in DOMAIN vm.upvalues : u \in DOMAIN r.upvalues /\ r.upvalues[u] = vm.upvalues[u]
<1> DEFINE n == Len(slots)
           Kept(r) == /\ {"upvalues", "open"} \subseteq DOMAIN r
                      /\ Listed(r.upvalues, r.open, top)
                      /\ \A u \in DOMAIN vm.upvalues :
                            u \in DOMAIN r.upvalues /\ r.upvalues[u] = vm.upvalues[u]
<1>1. PICK f : CapturesEach(slots, n, f) /\ Captured(slots) = f[n]
  <2> DEFINE each == CHOOSE f : CapturesEach(slots, n, f)
  <2>1. CapturesEach(slots, n, each)
    BY CapturingExists
  <2>2. Captured(slots) = each[n]
    BY DEF Captured, CapturesEach
  <2> HIDE DEF each
  <2> QED
    BY <2>1, <2>2
<1>2. \A i \in 0 .. n : f[i] = IF i = 0 THEN [upvalues |-> vm.upvalues, open |-> vm.open]
                               ELSE Capture(f[i - 1], slots[i]).m
  <2> DEFINE first == [upvalues |-> vm.upvalues, open |-> vm.open]
             next(r, i) == Capture(r, slots[i]).m
  <2> HIDE DEF first, next
  <2>1. f = [i \in 0 .. n |-> IF i = 0 THEN first ELSE next(f[i - 1], i)]
    BY <1>1 DEF CapturesEach, first, next
  <2>2. \A i \in 0 .. n : f[i] = IF i = 0 THEN first ELSE next(f[i - 1], i)
    BY <2>1
  <2> QED
    BY <2>2 DEF first, next
<1>3. n \in Nat
  OBVIOUS
<1> HIDE DEF n
<1>4. Kept(f[0])
  <2>1. f[0] = [upvalues |-> vm.upvalues, open |-> vm.open]
    BY <1>2, <1>3
  <2>2. {"upvalues", "open"} \subseteq DOMAIN f[0] /\ f[0].upvalues = vm.upvalues /\ f[0].open = vm.open
    BY <2>1
  <2> QED
    BY <2>2
<1>5. ASSUME NEW k \in Nat, k < n, Kept(f[k]) PROVE Kept(f[k + 1])
  <2> DEFINE r == f[k]
             i == k + 1
  <2>1. i \in 1 .. n /\ i \in 0 .. n /\ i # 0 /\ i - 1 = k
    BY <1>3, <1>5
  <2> HIDE DEF i
  <2>2. f[i] = Capture(f[k], slots[i]).m
    BY <1>2, <2>1
  <2>3. slots[i] \in 1 .. top
    BY <2>1 DEF n
  <2>4. {"upvalues", "open"} \subseteq DOMAIN r /\ Listed(r.upvalues, r.open, top)
    BY <1>5
  <2>5. f[i] = Capture(r, slots[i]).m
    BY <2>2
  <2> HIDE DEF r
  <2>6. /\ DOMAIN f[i] = DOMAIN r
        /\ Listed(f[i].upvalues, f[i].open, top)
        /\ DOMAIN r.upvalues \subseteq DOMAIN f[i].upvalues
        /\ \A u \in DOMAIN r.upvalues : f[i].upvalues[u] = r.upvalues[u]
    BY <2>3, <2>4, <2>5, Captures
  <2>7. \A u \in DOMAIN vm.upvalues : u \in DOMAIN r.upvalues /\ r.upvalues[u] = vm.upvalues[u]
    BY <1>5 DEF r
  <2>8. Kept(f[i])
    BY <2>4, <2>6, <2>7
  <2> QED
    BY <2>8 DEF i
<1>6. Kept(f[n])
  <2> DEFINE Good == {k \in Nat : k <= n => Kept(f[k])}
  <2> HIDE DEF Kept
  <2>1. 0 \in Good
    BY <1>4
  <2>2. ASSUME NEW k \in Nat, k \in Good PROVE k + 1 \in Good
    <3>1. k + 1 <= n => k < n /\ k <= n
      BY <1>3
    <3> QED
      BY <1>5, <2>2, <3>1
  <2>3. n \in Good
    <3> HIDE DEF Good
    <3> QED
      BY <1>3, <2>1, <2>2, EveryNumber
  <2> QED
    BY <1>3, <2>3
<1> QED
  BY <1>1, <1>6

-----------------------------------------------------------------------------
(* The steps.                                                              *)

\* The list is in order for any stack that is high enough, and as it is empty.
LEMMA ListedBelow ==
    ASSUME NEW upvalues, NEW open, NEW top \in Nat, Listed(upvalues, open, top), NEW low \in Nat
    PROVE  /\ (\A i \in DOMAIN open : upvalues[open[i]].slot <= low) => Listed(upvalues, open, low)
           /\ Listed(upvalues, <<>>, low)
<1>1. /\ DOMAIN open = 1 .. Len(open)
      /\ \A i \in 1 .. Len(open) : upvalues[open[i]].slot \in Nat /\ 1 <= upvalues[open[i]].slot
  BY ListedTypes
<1>2. ASSUME \A i \in DOMAIN open : upvalues[open[i]].slot <= low PROVE Listed(upvalues, open, low)
  <2>1. \A i \in DOMAIN open : upvalues[open[i]].slot \in 1 .. low
    BY <1>1, <1>2
  <2> QED
    BY <2>1 DEF Listed
<1>3. Listed(upvalues, <<>>, low)
  <2>1. <<>> \in Seq(DOMAIN upvalues) /\ DOMAIN <<>> = {}
    OBVIOUS
  <2>2. \E V : upvalues \in Seq([slot : Nat, closed : V])
    BY DEF Listed
  <2> QED
    BY <2>1, <2>2 DEF Listed
<1> QED
  BY <1>2, <1>3

\* The slot of a live upvalue that is not closed is one of the open slots, and no
\* other live upvalue has it.
LEMMA LiveOpen ==
    ASSUME Inv
    PROVE  /\ \A u \in Live(vm) : /\ u \in DOMAIN vm.upvalues
                                  /\ vm.upvalues[u].slot # 0 =>
                                        \E i \in 1 .. Len(vm.open) :
                                            vm.open[i] = u /\ SlotOf(vm, i) = vm.upvalues[u].slot
           /\ \A s \in OpenSlots(vm) : s \in 1 .. vm.top
           /\ \A i \in 1 .. Len(vm.open) : SlotOf(vm, i) \in OpenSlots(vm)
           /\ \A i, j \in 1 .. Len(vm.open) : SlotOf(vm, i) = SlotOf(vm, j) => i = j
<1> DEFINE n == Len(vm.open)
           s(i) == vm.upvalues[vm.open[i]].slot
<1>1. vm.top \in Nat /\ Listed(vm.upvalues, vm.open, vm.top)
  BY DEF Inv
<1>2. /\ n \in Nat /\ DOMAIN vm.open = 1 .. n
      /\ \A i \in 1 .. n : s(i) \in Nat /\ 1 <= s(i) /\ s(i) <= vm.top
  BY <1>1, ListedTypes
<1>3. \A i : SlotOf(vm, i) = s(i)
  BY DEF SlotOf
<1>4. \A i, j \in 1 .. n : i < j => s(i) > s(j)
  BY <1>1, <1>2 DEF Listed
<1> HIDE DEF n
<1>5. \A u \in Live(vm) : /\ u \in DOMAIN vm.upvalues
                          /\ vm.upvalues[u].slot # 0 =>
                                \E i \in 1 .. n : vm.open[i] = u /\ SlotOf(vm, i) = vm.upvalues[u].slot
  BY <1>2, <1>3 DEF Live
<1>6. \A i \in 1 .. n : SlotOf(vm, i) \in OpenSlots(vm)
  BY <1>2 DEF OpenSlots
<1>7. ASSUME NEW x \in OpenSlots(vm) PROVE x \in 1 .. vm.top
  <2>1. PICK i \in 1 .. n : x = s(i)
    BY <1>2, <1>3 DEF OpenSlots
  <2> QED
    BY <1>1, <1>2, <2>1
<1>8. ASSUME NEW i \in 1 .. n, NEW j \in 1 .. n, SlotOf(vm, i) = SlotOf(vm, j) PROVE i = j
  <2>1. s(i) = s(j) /\ s(i) \in Nat /\ s(j) \in Nat
    BY <1>2, <1>3, <1>8
  <2>2. i < j \/ j < i \/ i = j
    BY <1>2
  <2> QED
    BY <1>4, <2>1, <2>2
<1> QED
  BY <1>5, <1>6, <1>7, <1>8 DEF n

\* A live upvalue that a step leaves as it is, with the slot it points to, keeps its
\* value.
LEMMA SameValue ==
    ASSUME NEW u, vm'.upvalues[u] = vm.upvalues[u],
           vm.upvalues[u].slot # 0 => vm'.stack[vm.upvalues[u].slot] = vm.stack[vm.upvalues[u].slot]
    PROVE  UpvalueValue(vm', u) = UpvalueValue(vm, u)
BY DEF UpvalueValue

\* A step in which no captured variable changes.
LEMMA NothingChanged ==
    ASSUME \A u \in DOMAIN vm.upvalues :
              /\ u \in DOMAIN vm'.upvalues
              /\ vm.upvalues[u].slot = 0 => vm'.upvalues[u].slot = 0,
           \A u \in Live(vm) \cap Live(vm') : UpvalueValue(vm', u) = UpvalueValue(vm, u)
    PROVE  StepKeepsVariables
<1>1. Changed = {}
  BY DEF Changed
<1> QED
  BY <1>1 DEF StepKeepsVariables

\* The stack is high enough for what points into it.
NewTop == vm'.top \in Nat /\ 1 .. vm'.top \subseteq DOMAIN vm'.stack

\* Most instructions.
LEMMA MoveStep ==
    ASSUME Inv, NewTop, Move
    PROVE  Inv' /\ StepKeepsVariables
<1>1. vm'.upvalues = vm.upvalues /\ vm'.open = vm.open
  BY DEF Move
<1>2. vm.top \in Nat /\ Listed(vm.upvalues, vm.open, vm.top) /\ vm'.top \in Nat
  BY DEF Inv, NewTop
<1>3. \A i \in DOMAIN vm.open : vm.upvalues[vm.open[i]].slot <= vm'.top
  BY DEF Move, OpenSlots, SlotOf
<1>4. Listed(vm.upvalues, vm.open, vm'.top)
  BY <1>2, <1>3, ListedBelow
<1>5. Inv'
  BY <1>1, <1>4 DEF Inv, NewTop
<1>6. ASSUME NEW u \in Live(vm) PROVE UpvalueValue(vm', u) = UpvalueValue(vm, u)
  <2>1. ASSUME vm.upvalues[u].slot # 0
        PROVE  vm'.stack[vm.upvalues[u].slot] = vm.stack[vm.upvalues[u].slot]
    <3> DEFINE s == vm.upvalues[u].slot
    <3>1. s \in OpenSlots(vm)
      BY <2>1, LiveOpen
    <3>2. s \in 1 .. vm.top
      BY <3>1, LiveOpen
    <3> HIDE DEF s
    <3>3. s < vm.top + 1
      BY <1>2, <3>2
    <3>4. vm'.stack[s] = vm.stack[s]
      BY <3>1, <3>3 DEF Move, Untouched
    <3> QED
      BY <3>4 DEF s
  <2> QED
    BY <1>1, <2>1, SameValue
<1>7. StepKeepsVariables
  BY <1>1, <1>6, NothingChanged
<1> QED
  BY <1>5, <1>7

\* An assignment to a slot changes the variable that has it, if it is captured.
LEMMA AssignSlotStep ==
    ASSUME Inv, NewTop, AssignSlot
    PROVE  Inv' /\ StepKeepsVariables
<1>1. vm'.top = vm.top /\ vm'.upvalues = vm.upvalues /\ vm'.open = vm.open
  BY DEF AssignSlot
<1>2. PICK s \in DOMAIN vm.stack : vm'.stack = [vm.stack EXCEPT ![s] = vm'.stack[s]]
  BY DEF AssignSlot
<1>3. Inv'
  BY <1>1 DEF Inv, NewTop
<1>4. 1 .. vm.top \subseteq DOMAIN vm.stack
  BY DEF Inv
<1>5. \A x \in DOMAIN vm.stack : x # s => vm'.stack[x] = vm.stack[x]
  <2> DEFINE e == vm'.stack[s]
  <2>1. vm'.stack = [vm.stack EXCEPT ![s] = e]
    BY <1>2
  <2> HIDE DEF e
  <2> QED
    BY <2>1
<1>6. ASSUME NEW u \in Live(vm), UpvalueValue(vm', u) # UpvalueValue(vm, u)
      PROVE  \E i \in 1 .. Len(vm.open) : vm.open[i] = u /\ SlotOf(vm, i) = s
  <2> DEFINE x == vm.upvalues[u].slot
  <2>1. x # 0 /\ vm'.stack[x] # vm.stack[x]
    BY <1>1, <1>6, SameValue
  <2>2. PICK i \in 1 .. Len(vm.open) : vm.open[i] = u /\ SlotOf(vm, i) = x
    BY <2>1, LiveOpen
  <2>3. x \in DOMAIN vm.stack
    BY <1>4, <2>2, LiveOpen
  <2> HIDE DEF x
  <2>4. x = s
    BY <1>5, <2>1, <2>3
  <2> QED
    BY <2>2, <2>4
<1>7. ASSUME NEW u \in Changed, NEW w \in Changed PROVE u = w
  <2>1. PICK i \in 1 .. Len(vm.open) : vm.open[i] = u /\ SlotOf(vm, i) = s
    BY <1>6 DEF Changed
  <2>2. PICK j \in 1 .. Len(vm.open) : vm.open[j] = w /\ SlotOf(vm, j) = s
    BY <1>6 DEF Changed
  <2>3. i = j
    BY <2>1, <2>2, LiveOpen
  <2> QED
    BY <2>1, <2>2, <2>3
<1>8. StepKeepsVariables
  BY <1>1, <1>7 DEF StepKeepsVariables
<1> QED
  BY <1>3, <1>8

\* An assignment to a closed upvalue changes no other.
LEMMA AssignClosedStep ==
    ASSUME Inv, NewTop, AssignClosed
    PROVE  Inv' /\ StepKeepsVariables
<1>1. vm'.stack = vm.stack /\ vm'.top = vm.top /\ vm'.open = vm.open
  BY DEF AssignClosed
<1>2. PICK x \in DOMAIN vm.upvalues :
          /\ vm.upvalues[x].slot = 0
          /\ vm'.upvalues = [vm.upvalues EXCEPT ![x].closed = vm'.upvalues[x].closed]
  BY DEF AssignClosed
<1> DEFINE ups == vm.upvalues
           new == vm'.upvalues
           e == vm'.upvalues[x].closed
           r == [ups[x] EXCEPT !.closed = e]
           n == Len(ups)
<1>3. new = [ups EXCEPT ![x] = r]
  BY <1>2
<1>4. PICK V : ups \in Seq([slot : Nat, closed : V])
  BY DEF Inv, Listed
<1>5. n \in Nat /\ DOMAIN ups = 1 .. n /\ \A u \in 1 .. n : ups[u] \in [slot : Nat, closed : V]
  BY <1>4, UpvaluesTyped
<1> DEFINE W == V \cup {e}
           R == [slot : Nat, closed : W]
<1>6. r \in R /\ r.slot = ups[x].slot
  <2> HIDE DEF e, ups, n
  <2>1. x \in 1 .. n
    BY <1>2, <1>5 DEF ups
  <2>2. ups[x] \in [slot : Nat, closed : V]
    BY <1>5, <2>1
  <2> QED
    BY <2>2
<1>7. \A u \in 1 .. n : ups[u] \in R
  BY <1>5
<1> HIDE DEF ups, new, r, n, R, W, e
<1>8. /\ DOMAIN new = 1 .. n
      /\ \A u \in 1 .. n : u # x => new[u] = ups[u]
      /\ x \in 1 .. n => new[x] = r
  BY <1>3, <1>5
<1>9. \A u \in 1 .. n : new[u].slot = ups[u].slot /\ new[u] \in R
  BY <1>6, <1>7, <1>8
<1>10. new \in Seq(R)
  <2>1. new = [u \in 1 .. n |-> new[u]]
    BY <1>3, <1>5
  <2> QED
    BY <1>5, <1>9, <2>1, SequenceOf
<1>11. Listed(new, vm.open, vm.top)
  <2>1. vm.top \in Nat /\ Listed(ups, vm.open, vm.top)
    BY DEF Inv, ups
  <2> DEFINE open == vm.open
             k == Len(open)
  <2>2. DOMAIN open = 1 .. k /\ \A i \in 1 .. k : open[i] \in DOMAIN ups
    BY <2>1, ListedTypes
  <2>3. \A i \in DOMAIN open : new[open[i]].slot = ups[open[i]].slot
    BY <1>5, <1>9, <2>2
  <2>4. DOMAIN new = DOMAIN ups
    BY <1>5, <1>8
  <2>5. \E X : new \in Seq([slot : Nat, closed : X])
    BY <1>10 DEF R
  <2> QED
    BY <2>1, <2>3, <2>4, <2>5 DEF Listed
<1>12. Inv'
  BY <1>1, <1>11 DEF Inv, NewTop, new
<1>13. ASSUME NEW u \in Live(vm), u # x PROVE UpvalueValue(vm', u) = UpvalueValue(vm, u)
  <2>1. u \in 1 .. n
    BY <1>5 DEF Live, ups
  <2>2. vm'.upvalues[u] = vm.upvalues[u]
    BY <1>8, <1>13, <2>1 DEF new, ups
  <2> QED
    BY <1>1, <2>2, SameValue
<1>14. \A u \in Changed : u = x
  BY <1>13 DEF Changed
<1>15. \A u \in DOMAIN vm.upvalues :
          u \in DOMAIN vm'.upvalues /\ (vm.upvalues[u].slot = 0 => vm'.upvalues[u].slot = 0)
  BY <1>5, <1>8, <1>9 DEF new, ups
<1>16. StepKeepsVariables
  BY <1>1, <1>14, <1>15 DEF StepKeepsVariables
<1> QED
  BY <1>12, <1>16

\* Closing: what is closed takes its value along.
LEMMA ClosingKeeps ==
    ASSUME Inv, NEW from \in 1 .. vm.top + 1, vm'.upvalues = WithClosed(vm, from)
    PROVE  /\ \A u \in DOMAIN vm.upvalues :
                 /\ u \in DOMAIN vm'.upvalues
                 /\ vm.upvalues[u].slot = 0 => vm'.upvalues[u] = vm.upvalues[u]
           /\ \A i \in 1 .. Len(vm.open) :
                 /\ SlotOf(vm, i) >= from =>
                       UpvalueValue(vm', vm.open[i]) = UpvalueValue(vm, vm.open[i])
                 /\ SlotOf(vm, i) < from => vm'.upvalues[vm.open[i]] = vm.upvalues[vm.open[i]]
<1> DEFINE n == Len(vm.open)
           c == WithClosed(vm, from)
           D == DOMAIN vm.upvalues
<1>1. vm.top \in Nat /\ Listed(vm.upvalues, vm.open, vm.top)
  BY DEF Inv
<1>2. from \in Nat /\ from <= vm.top + 1
  BY <1>1
<1>3. /\ DOMAIN c = D
      /\ \A i \in 1 .. n :
            SlotOf(vm, i) >= from =>
                c[vm.open[i]] = [slot |-> 0, closed |-> vm.stack[SlotOf(vm, i)]]
      /\ \A u \in D : (\A i \in 1 .. n : vm.open[i] = u => SlotOf(vm, i) < from) =>
                          c[u] = vm.upvalues[u]
  BY <1>1, <1>2, Closes
<1>4. /\ n \in Nat
      /\ \A i \in 1 .. n : /\ vm.open[i] \in D /\ SlotOf(vm, i) \in Nat /\ 1 <= SlotOf(vm, i)
                           /\ SlotOf(vm, i) = vm.upvalues[vm.open[i]].slot
  BY <1>1, ListedTypes DEF SlotOf
<1>5. \A i, j \in 1 .. n : SlotOf(vm, i) = SlotOf(vm, j) => i = j
  BY LiveOpen
<1> HIDE DEF n, c, D
<1>6. ASSUME NEW u \in D, vm.upvalues[u].slot = 0 PROVE c[u] = vm.upvalues[u]
  <2>1. \A i \in 1 .. n : vm.open[i] # u
    BY <1>4, <1>6
  <2> QED
    BY <1>3, <2>1
<1>7. ASSUME NEW i \in 1 .. n, SlotOf(vm, i) >= from
      PROVE  UpvalueValue(vm', vm.open[i]) = UpvalueValue(vm, vm.open[i])
  <2> DEFINE u == vm.open[i]
             v == vm.stack[SlotOf(vm, i)]
  <2>1. UpvalueValue(vm, u) = v
    BY <1>4 DEF UpvalueValue
  <2>2. vm'.upvalues[u] = [slot |-> 0, closed |-> v]
    BY <1>3, <1>7 DEF c
  <2> HIDE DEF u, v
  <2>3. vm'.upvalues[u].slot = 0 /\ vm'.upvalues[u].closed = v
    BY <2>2
  <2>4. UpvalueValue(vm', u) = v
    BY <2>3 DEF UpvalueValue
  <2> QED
    BY <2>1, <2>4 DEF u
<1>8. ASSUME NEW i \in 1 .. n, SlotOf(vm, i) < from PROVE c[vm.open[i]] = vm.upvalues[vm.open[i]]
  <2>1. \A j \in 1 .. n : vm.open[j] = vm.open[i] => SlotOf(vm, j) < from
    BY <1>4, <1>8
  <2> QED
    BY <1>3, <1>4, <2>1
<1> QED
  BY <1>3, <1>6, <1>7, <1>8 DEF n, c, D

\* The end of a scope, of a call or of a try.
LEMMA CloseStep ==
    ASSUME Inv, NewTop, Close
    PROVE  Inv' /\ StepKeepsVariables
<1>1. PICK from \in 1 .. vm.top + 1 :
          /\ from - 1 <= vm'.top
          /\ vm'.upvalues = WithClosed(vm, from) /\ vm'.open = StillOpen(vm, from)
          /\ Untouched(from)
  BY DEF Close
<1>2. vm.top \in Nat /\ Listed(vm.upvalues, vm.open, vm.top) /\ vm'.top \in Nat
  BY DEF Inv, NewTop
<1>3. from \in Nat /\ from <= vm'.top + 1
  BY <1>1, <1>2
<1>4. Listed(WithClosed(vm, from), StillOpen(vm, from), vm'.top)
  BY <1>2, <1>3, Closes
<1>5. Inv'
  BY <1>1, <1>4 DEF Inv, NewTop
<1>6. ASSUME NEW u \in Live(vm) PROVE UpvalueValue(vm', u) = UpvalueValue(vm, u)
  <2>1. CASE vm.upvalues[u].slot = 0
    <3>1. vm'.upvalues[u] = vm.upvalues[u]
      BY <1>1, <2>1, ClosingKeeps, LiveOpen
    <3> QED
      BY <2>1, <3>1, SameValue
  <2>2. CASE vm.upvalues[u].slot # 0
    <3>1. PICK i \in 1 .. Len(vm.open) : vm.open[i] = u /\ SlotOf(vm, i) = vm.upvalues[u].slot
      BY <2>2, LiveOpen
    <3>2. SlotOf(vm, i) \in 1 .. vm.top /\ SlotOf(vm, i) \in OpenSlots(vm)
      BY <3>1, LiveOpen
    <3>3. CASE SlotOf(vm, i) >= from
      BY <1>1, <3>1, <3>3, ClosingKeeps
    <3>4. CASE SlotOf(vm, i) < from
      <4>1. vm'.upvalues[u] = vm.upvalues[u]
        BY <1>1, <3>1, <3>4, ClosingKeeps
      <4>2. vm'.stack[vm.upvalues[u].slot] = vm.stack[vm.upvalues[u].slot]
        BY <1>1, <3>1, <3>2, <3>4 DEF Untouched
      <4> QED
        BY <4>1, <4>2, SameValue
    <3>5. SlotOf(vm, i) >= from \/ SlotOf(vm, i) < from
      BY <1>2, <1>3, <3>2
    <3> QED
      BY <3>3, <3>4, <3>5
  <2> QED
    BY <2>1, <2>2
<1>7. \A u \in DOMAIN vm.upvalues :
          u \in DOMAIN vm'.upvalues /\ (vm.upvalues[u].slot = 0 => vm'.upvalues[u].slot = 0)
  BY <1>1, ClosingKeeps
<1>8. StepKeepsVariables
  BY <1>6, <1>7, NothingChanged
<1> QED
  BY <1>5, <1>8

\* A new closure.
LEMMA CaptureStep ==
    ASSUME Inv, NewTop, CaptureSlots
    PROVE  Inv' /\ StepKeepsVariables
<1> DEFINE slots == NewSlots
<1>1. vm.top \in Nat /\ vm'.top \in Nat /\ vm.top <= vm'.top /\ Listed(vm.upvalues, vm.open, vm.top)
  BY DEF Inv, NewTop, CaptureSlots
<1>2. vm'.upvalues = Captured(slots).upvalues /\ vm'.open = Captured(slots).open
  BY DEF CaptureSlots
<1>3. slots \in Seq(1 .. vm'.top)
  BY DEF CaptureSlots
<1>4. Listed(vm.upvalues, vm.open, vm'.top)
  <2>1. \A i \in DOMAIN vm.open : vm.upvalues[vm.open[i]].slot <= vm'.top
    <3>1. DOMAIN vm.open = 1 .. Len(vm.open)
      BY <1>1, ListedTypes
    <3>2. \A i \in 1 .. Len(vm.open) : vm.upvalues[vm.open[i]].slot \in Nat
                                       /\ vm.upvalues[vm.open[i]].slot <= vm.top
      BY <1>1, ListedTypes
    <3> QED
      BY <1>1, <3>1, <3>2
  <2> QED
    BY <1>1, <2>1, ListedBelow
<1> HIDE DEF slots
<1>5. Len(slots) \in Nat /\ \A i \in 1 .. Len(slots) : slots[i] \in 1 .. vm'.top
  <2> DEFINE D == 1 .. vm'.top
  <2>1. slots \in Seq(D)
    BY <1>3
  <2> HIDE DEF D
  <2>2. Len(slots) \in Nat /\ \A i \in 1 .. Len(slots) : slots[i] \in D
    BY <2>1
  <2> QED
    BY <2>2 DEF D
<1>6. /\ Listed(vm'.upvalues, vm'.open, vm'.top)
      /\ \A u \in DOMAIN vm.upvalues :
            u \in DOMAIN vm'.upvalues /\ vm'.upvalues[u] = vm.upvalues[u]
  BY <1>1, <1>2, <1>4, <1>5, CapturedListed
<1>7. Inv'
  BY <1>6 DEF Inv, NewTop
<1>8. ASSUME NEW u \in Live(vm) PROVE UpvalueValue(vm', u) = UpvalueValue(vm, u)
  <2>1. ASSUME vm.upvalues[u].slot # 0
        PROVE  vm'.stack[vm.upvalues[u].slot] = vm.stack[vm.upvalues[u].slot]
    <3> DEFINE s == vm.upvalues[u].slot
    <3>1. s \in OpenSlots(vm)
      BY <2>1, LiveOpen
    <3>2. s \in 1 .. vm.top
      BY <3>1, LiveOpen
    <3> HIDE DEF s
    <3>3. s < vm.top + 1
      BY <1>1, <3>2
    <3>4. vm'.stack[s] = vm.stack[s]
      BY <3>1, <3>3 DEF CaptureSlots, Untouched
    <3> QED
      BY <3>4 DEF s
  <2>2. vm'.upvalues[u] = vm.upvalues[u]
    BY <1>6, LiveOpen
  <2> QED
    BY <2>1, <2>2, SameValue
<1>9. StepKeepsVariables
  BY <1>6, <1>8, NothingChanged
<1> QED
  BY <1>7, <1>9

\* resetStack: the upvalues stay as they are.
LEMMA ResetStep ==
    ASSUME Inv, NewTop, Reset
    PROVE  Inv' /\ StepKeepsVariables
<1>1. vm'.open = <<>> /\ vm'.upvalues = vm.upvalues
  BY DEF Reset
<1>2. vm.top \in Nat /\ vm'.top \in Nat /\ Listed(vm.upvalues, vm.open, vm.top)
  BY DEF Inv, NewTop
<1>3. Listed(vm'.upvalues, vm'.open, vm'.top)
  BY <1>1, <1>2, ListedBelow
<1>4. Inv'
  BY <1>3 DEF Inv, NewTop
<1>5. \A u \in Live(vm') : vm'.upvalues[u].slot = 0
  <2>1. DOMAIN vm'.open = {}
    BY <1>1
  <2> QED
    BY <2>1 DEF Live
<1>6. \A u \in Live(vm) \cap Live(vm') : UpvalueValue(vm', u) = UpvalueValue(vm, u)
  BY <1>1, <1>5, SameValue
<1>7. StepKeepsVariables
  BY <1>1, <1>6, NothingChanged
<1> QED
  BY <1>4, <1>7

-----------------------------------------------------------------------------
(* The theorems about upvalues.                                            *)

\* An empty stack without upvalues.
LEMMA StackInitInv == StackInit => Inv
<1> SUFFICES ASSUME StackInit PROVE Inv
  OBVIOUS
<1>1. vm.stack = <<>> /\ vm.top = 0 /\ vm.upvalues = <<>> /\ vm.open = <<>>
  BY DEF StackInit
<1>2. <<>> \in Seq([slot : Nat, closed : {}]) /\ <<>> \in Seq(DOMAIN <<>>) /\ DOMAIN <<>> = {}
  OBVIOUS
<1>3. Listed(<<>>, <<>>, 0)
  <2>1. \E V : <<>> \in Seq([slot : Nat, closed : V])
    BY <1>2
  <2> QED
    BY <1>2, <2>1 DEF Listed
<1>4. 1 .. 0 = {}
  OBVIOUS
<1> QED
  BY <1>1, <1>3, <1>4 DEF Inv

\* Every step keeps the list in order and the values of the captured variables.
LEMMA StackStep == Inv /\ [StackNext]_cells => Inv' /\ [StepKeepsVariables]_cells
<1> SUFFICES ASSUME Inv, [StackNext]_cells PROVE Inv' /\ [StepKeepsVariables]_cells
  OBVIOUS
<1>1. CASE StackNext
  <2>1. NewTop /\ (Move \/ AssignSlot \/ AssignClosed \/ Close \/ CaptureSlots \/ Reset)
    BY <1>1 DEF StackNext, NewTop
  <2> QED
    BY <2>1, MoveStep, AssignSlotStep, AssignClosedStep, CloseStep, CaptureStep, ResetStep
<1>2. CASE UNCHANGED cells
  BY <1>2 DEF cells, Inv, Listed
<1> QED
  BY <1>1, <1>2

\* The invariant holds throughout.
THEOREM ListInvariant == StackSpec => []Inv
BY StackInitInv, StackStep, PTL DEF StackSpec

\* The list of open upvalues stays in order, one for each slot, below stackTop: the
\* walks of captureUpvalue and closeUpvalues rely on it and preserve it, whatever is
\* captured and closed in whatever order.
THEOREM UpvaluesInOrder == StackSpec => []UpvaluesOrdered
<1>1. Inv => UpvaluesOrdered
  <2> SUFFICES ASSUME Inv PROVE UpvaluesOrdered
    OBVIOUS
  <2> DEFINE n == Len(vm.open)
             s(i) == vm.upvalues[vm.open[i]].slot
  <2>1. vm.top \in Nat /\ Listed(vm.upvalues, vm.open, vm.top)
    BY DEF Inv
  <2>2. n \in Nat /\ DOMAIN vm.open = 1 .. n
    BY <2>1, ListedTypes
  <2>3. \A i, j \in 1 .. n : i < j => s(i) > s(j)
    BY <2>1, <2>2 DEF Listed
  <2>4. \A i \in 1 .. n : s(i) \in 1 .. vm.top
    BY <2>1, <2>2 DEF Listed
  <2>5. vm.open # <<>> => n # 0
    <3>1. vm.open \in Seq(DOMAIN vm.upvalues)
      BY <2>1 DEF Listed
    <3> DEFINE D == DOMAIN vm.upvalues
    <3> HIDE DEF D
    <3>2. vm.open \in Seq(D)
      BY <3>1 DEF D
    <3> QED
      BY <3>2
  <2> HIDE DEF n
  <2>6. \A i \in 1 .. n - 1 : s(i) > s(i + 1)
    <3> SUFFICES ASSUME NEW i \in 1 .. n - 1 PROVE s(i) > s(i + 1)
      OBVIOUS
    <3> DEFINE j == i + 1
    <3>1. i \in 1 .. n /\ j \in 1 .. n /\ i < j
      BY <2>2
    <3> HIDE DEF j
    <3>2. s(i) > s(j)
      BY <2>3, <3>1
    <3> QED
      BY <3>2 DEF j
  <2>7. vm.open # <<>> => s(1) \in 1 .. vm.top
    <3>1. n # 0 => 1 \in 1 .. n
      BY <2>2
    <3> QED
      BY <2>4, <2>5, <3>1
  <2> QED
    BY <2>6, <2>7 DEF UpvaluesOrdered, n
<1> QED
  BY <1>1, ListInvariant, PTL

\* No instruction changes a captured variable but an assignment to it, and that one
\* alone; in particular a variable that leaves the stack keeps its value for every
\* closure that shares it, and an upvalue that is closed is never opened again.
THEOREM OnlyAssignmentChanges == StackSpec => VariablesKept
BY ListInvariant, StackStep, PTL DEF StackSpec, VariablesKept

\* captureUpvalue gives every closure that captures a slot the same upvalue: while
\* one is open for the slot, that one is found, and nothing changes.
THEOREM ClosuresShare ==
    ASSUME Inv, {"upvalues", "open"} \subseteq DOMAIN vm, NEW slot \in 1 .. vm.top
    PROVE  LET first == Capture(vm, slot)
               second == Capture(first.m, slot)
           IN /\ first.m.upvalues[first.u].slot = slot
              /\ second.m = first.m /\ second.u = first.u
<1> DEFINE c == Capture(vm, slot)
<1>1. vm.top \in Nat /\ Listed(vm.upvalues, vm.open, vm.top)
  BY DEF Inv
<1>2. /\ DOMAIN c.m = DOMAIN vm
      /\ Listed(c.m.upvalues, c.m.open, vm.top)
      /\ c.m.upvalues[c.u].slot = slot
      /\ \E i \in DOMAIN c.m.open : c.m.open[i] = c.u
  BY <1>1, Captures
<1> DEFINE m == c.m
<1>3. PICK i \in DOMAIN m.open : m.open[i] = c.u
  BY <1>2
<1>4. SlotOf(m, i) = slot
  BY <1>2, <1>3 DEF SlotOf
<1>5. {"upvalues", "open"} \subseteq DOMAIN m /\ Listed(m.upvalues, m.open, vm.top)
  BY <1>2
<1> HIDE DEF m
<1>6. Capture(m, slot).m = m /\ Capture(m, slot).u = m.open[i]
  BY <1>1, <1>3, <1>4, <1>5, Captures
<1> QED
  BY <1>2, <1>3, <1>6 DEF m

-----------------------------------------------------------------------------
(* Binding the arguments of a call.                                        *)

\* A machine with a stack of values.
StackOK(m, V) ==
    /\ {"stack", "top", "heap", "status", "depth", "open", "handlers", "runs", "out"} \subseteq DOMAIN m
    /\ m.stack \in Seq(V) /\ m.top \in Nat /\ m.top <= Len(m.stack)

\* Push writes the place above the top and nothing else.
LEMMA Pushed ==
    ASSUME NEW V, NEW m, StackOK(m, V), NEW v \in V
    PROVE  /\ DOMAIN Push(m, v) = DOMAIN m /\ Push(m, v).status = m.status
           /\ Push(m, v).top = m.top + 1
           /\ Push(m, v).stack[m.top + 1] = v
           /\ \A i \in 1 .. m.top : Push(m, v).stack[i] = m.stack[i]
<1> DEFINE t == m.top
           s == m.stack
           new == IF t < Len(s) THEN [s EXCEPT ![t + 1] = v] ELSE Append(s, v)
           p == Push(m, v)
<1>1. p = [m EXCEPT !.top = t + 1, !.stack = new]
  BY DEF Push
<1>2. {"stack", "top", "status"} \subseteq DOMAIN m /\ s \in Seq(V) /\ t \in Nat /\ t <= Len(s)
  BY DEF StackOK
<1> HIDE DEF t, s, new, p
<1>3. DOMAIN p = DOMAIN m /\ p.status = m.status /\ p.top = t + 1 /\ p.stack = new
  BY <1>1, <1>2
<1>4. CASE t < Len(s)
  <2>1. new = [s EXCEPT ![t + 1] = v] /\ t + 1 \in 1 .. Len(s)
    BY <1>2, <1>4 DEF new
  <2>2. new[t + 1] = v /\ \A i \in 1 .. t : new[i] = s[i]
    BY <1>2, <2>1
  <2> QED
    BY <1>3, <2>2 DEF p, t, s
<1>5. CASE ~(t < Len(s))
  <2>1. new = Append(s, v) /\ t = Len(s)
    BY <1>2, <1>5 DEF new
  <2>2. new[t + 1] = v /\ \A i \in 1 .. t : new[i] = s[i]
    BY <1>2, <2>1
  <2> QED
    BY <1>3, <2>2 DEF p, t, s
<1> QED
  BY <1>4, <1>5

\* PushAll writes the places above the top.
LEMMA PushedAll ==
    ASSUME NEW V, NEW m, StackOK(m, V), NEW vs \in Seq(V)
    PROVE  /\ PushAll(m, vs).status = m.status /\ PushAll(m, vs).top = m.top + Len(vs)
           /\ \A i \in 1 .. m.top : PushAll(m, vs).stack[i] = m.stack[i]
           /\ \A i \in 1 .. Len(vs) : PushAll(m, vs).stack[m.top + i] = vs[i]
<1> DEFINE t == m.top
           s == m.stack
           k == Len(vs)
           low == SubSeq(s, 1, t)
           high == SubSeq(s, t + k + 1, Len(s))
           new == low \o vs \o high
           p == PushAll(m, vs)
<1>1. p = [m EXCEPT !.top = t + k, !.stack = new]
  BY DEF PushAll
<1>2. {"stack", "top", "status"} \subseteq DOMAIN m /\ s \in Seq(V) /\ t \in Nat /\ t <= Len(s)
  BY DEF StackOK
<1>3. vs \in Seq(V) /\ k \in Nat
  OBVIOUS
<1> HIDE DEF t, s, new, p
<1>4. p.status = m.status /\ p.top = t + k /\ p.stack = new
  BY <1>1, <1>2
<1>5. low \in Seq(V) /\ Len(low) = t /\ \A i \in 1 .. t : low[i] = s[i]
  BY <1>2
<1>6. high \in Seq(V)
  BY <1>2, <1>3
<1> DEFINE both == low \o vs
<1> HIDE DEF low, high
<1>7. /\ both \in Seq(V) /\ Len(both) = t + k
      /\ \A i \in 1 .. t + k : both[i] = IF i <= t THEN low[i] ELSE vs[i - t]
  BY <1>2, <1>3, <1>5
<1>8. new = both \o high
  BY DEF new
<1> HIDE DEF both, k
<1>9. \A i \in 1 .. t + k : new[i] = both[i]
  BY <1>2, <1>3, <1>6, <1>7, <1>8
<1>10. ASSUME NEW i \in 1 .. t PROVE new[i] = s[i]
  <2>1. i \in 1 .. t + k /\ i <= t
    BY <1>2, <1>3
  <2> QED
    BY <1>5, <1>7, <1>9, <2>1
<1>11. ASSUME NEW i \in 1 .. k PROVE new[t + i] = vs[i]
  <2> DEFINE j == t + i
  <2>1. j \in 1 .. t + k /\ ~(j <= t) /\ j - t = i
    BY <1>2, <1>3
  <2> HIDE DEF j
  <2>2. new[j] = vs[i]
    BY <1>7, <1>9, <2>1
  <2> QED
    BY <2>2 DEF j
<1> QED
  BY <1>4, <1>10, <1>11 DEF p, t, s, k

\* After runtimeError no code runs.
LEMMA ErrorStops ==
    ASSUME NEW V, NEW m, StackOK(m, V)
    PROVE  RuntimeError(m).status # "run"
<1> DEFINE r == ResetStack(m)
<1>1. DOMAIN r = DOMAIN m
  BY DEF ResetStack
<1>2. "status" \in DOMAIN r
  BY <1>1 DEF StackOK
<1> DEFINE reports == SelectSeq(m.runs, LAMBDA q : q.why = "REPORT")
           lines == Reverse([i \in DOMAIN reports |-> "!" \o reports[i].text])
           next == IF \E i \in DOMAIN m.runs : m.runs[i].why \in {"PRINT", "STRINGIFY"}
                   THEN "wild" ELSE "idle"
<1>3. RuntimeError(m) = [r EXCEPT !.out = Append(@, "!error") \o lines, !.status = next]
  BY DEF RuntimeError, Fail
<1>4. next # "run"
  OBVIOUS
<1> HIDE DEF r, lines, next
<1> QED
  BY <1>2, <1>3, <1>4

\* bindCallArgs ("On success the stack holds exactly `arity` argument slots above
\* the callee") for every function and every number n of arguments on the stack: a
\* call goes on exactly with a number of arguments the function allows; callee and
\* arguments stay where they are, except those that go into the rest parameter; and
\* there are as many slots as parameters, unless a function with a rest parameter
\* was called without one of its optional arguments.
THEOREM ArgumentSlots ==
    ASSUME NEW V, NEW m, StackOK(m, V), m.status = "run",
           Missing \in V, \A o \in Nat : Ref(o) \in V, Len(m.heap) \in Nat,
           NEW f, f.arity \in Nat, f.minArity \in 0 .. f.arity, f.rest \in BOOLEAN,
           f.rest => f.arity # 0,
           NEW n \in Nat, n < m.top
    PROVE  LET bound == BindCallArgs(m, f, n)
               callee == m.top - n
               fixed == IF f.rest THEN f.arity - 1 ELSE f.arity
           IN /\ bound.status = "run" <=> n >= f.minArity /\ (n <= f.arity \/ f.rest)
              /\ bound.status = "run" =>
                    /\ \A i \in 1 .. callee : bound.stack[i] = m.stack[i]
                    /\ \A i \in 1 .. n : i <= fixed => bound.stack[callee + i] = m.stack[callee + i]
                    /\ \A i \in n + 1 .. f.arity : ~f.rest => bound.stack[callee + i] = Missing
                    /\ bound.top - callee = f.arity <=> ~(f.rest /\ n + 1 < f.arity)
<1> DEFINE bound == BindCallArgs(m, f, n)
           callee == m.top - n
           start == f.arity - 1
           extra == IF n > start THEN n - start ELSE 0
           array == ArrayOf(SubSeq(TopValues(m, n), start + 1, n))
           missing == [i \in 1 .. f.arity - n |-> Missing]
           rest == PushNew(Drop(m, extra), array)
           padded == PushAll(m, missing)
           fixed == IF f.rest THEN f.arity - 1 ELSE f.arity
<1>1. bound = CASE f.rest /\ n >= f.minArity -> rest
                [] ~f.rest /\ n \in f.minArity .. f.arity -> padded
                [] OTHER -> RuntimeError(m)
  BY DEF BindCallArgs
<1>2. callee \in Nat /\ callee >= 1 /\ m.top = callee + n /\ m.top \in Nat
  BY DEF StackOK
<1>3. f.arity \in Nat /\ f.minArity \in Nat /\ f.minArity <= f.arity
  OBVIOUS
<1>4. RuntimeError(m).status # "run"
  BY ErrorStops
<1> HIDE DEF bound, callee, start, extra, array, missing, rest, padded, fixed
<1>5. CASE f.rest /\ n >= f.minArity
  <2>1. bound = rest
    BY <1>1, <1>5
  <2>2. start \in Nat /\ extra \in Nat /\ extra <= n /\ n - extra = IF n > start THEN start ELSE n
    BY <1>3, <1>5 DEF start, extra
  <2> DEFINE d == Drop(m, extra)
             h == [d EXCEPT !.heap = Append(@, array)]
             v == Ref(Len(d.heap) + 1)
  <2>3. rest = Push(h, v)
    BY DEF rest, PushNew
  <2>4. /\ DOMAIN d = DOMAIN m /\ d.top = m.top - extra /\ d.stack = m.stack /\ d.status = m.status
        /\ d.heap = m.heap
    BY DEF Drop, StackOK
  <2>14. v \in V
    <3> HIDE DEF d
    <3> QED
      BY <2>4
  <2> HIDE DEF d, v
  <2>5. DOMAIN h = DOMAIN m /\ h.top = m.top - extra /\ h.stack = m.stack /\ h.status = m.status
    BY <2>4 DEF StackOK
  <2> HIDE DEF h
  <2>6. StackOK(h, V)
    <3>1. h.top \in Nat /\ h.top <= m.top
      BY <1>2, <2>2, <2>5
    <3>2. m.stack \in Seq(V) /\ m.top <= Len(m.stack) /\ Len(m.stack) \in Nat
      BY DEF StackOK
    <3>3. h.top <= Len(m.stack)
      BY <1>2, <3>1, <3>2
    <3> QED
      BY <2>5, <3>1, <3>2, <3>3 DEF StackOK
  <2>7. /\ rest.status = m.status /\ rest.top = h.top + 1
        /\ \A i \in 1 .. h.top : rest.stack[i] = m.stack[i]
    BY <2>3, <2>14, <2>5, <2>6, Pushed
  <2>8. h.top = callee + (n - extra)
    BY <1>2, <2>2, <2>5
  <2>9. \A i \in 1 .. callee : bound.stack[i] = m.stack[i]
    <3>1. \A i \in 1 .. callee : i \in 1 .. h.top
      BY <1>2, <2>2, <2>8
    <3> QED
      BY <2>1, <2>7, <3>1
  <2>10. ASSUME NEW i \in 1 .. n, i <= fixed PROVE bound.stack[callee + i] = m.stack[callee + i]
    <3>1. fixed = start
      BY <1>5 DEF fixed, start
    <3>2. callee + i \in 1 .. h.top
      BY <1>2, <2>2, <2>8, <2>10, <3>1
    <3> QED
      BY <2>1, <2>7, <3>2
  <2>11. bound.top - callee = f.arity <=> ~(n + 1 < f.arity)
    <3>1. bound.top - callee = (n - extra) + 1
      BY <1>2, <2>1, <2>2, <2>7, <2>8
    <3>2. start = f.arity - 1
      BY DEF start
    <3> QED
      BY <1>3, <2>2, <3>1, <3>2
  <2>12. bound.status = "run"
    BY <2>1, <2>7
  <2>13. n >= f.minArity /\ (n <= f.arity \/ f.rest)
    BY <1>5
  <2> QED
    BY <1>5, <2>9, <2>10, <2>11, <2>12, <2>13 DEF bound, callee, fixed
<1>6. CASE ~f.rest /\ n \in f.minArity .. f.arity
  <2>1. bound = padded
    BY <1>1, <1>6
  <2> DEFINE k == f.arity - n
  <2>2. k \in Nat /\ n >= f.minArity /\ n <= f.arity
    BY <1>3, <1>6
  <2>3. missing \in Seq(V) /\ Len(missing) = k /\ \A i \in 1 .. k : missing[i] = Missing
    <3>1. missing = [i \in 1 .. k |-> Missing]
      BY DEF missing
    <3> HIDE DEF k
    <3> QED
      BY <2>2, <3>1
  <2> HIDE DEF k
  <2>4. /\ padded.status = m.status /\ padded.top = m.top + k
        /\ \A i \in 1 .. m.top : padded.stack[i] = m.stack[i]
        /\ \A i \in 1 .. k : padded.stack[m.top + i] = Missing
    <3>1. missing \in Seq(V)
      BY <2>3
    <3>2. /\ padded.status = m.status /\ padded.top = m.top + Len(missing)
          /\ \A i \in 1 .. m.top : padded.stack[i] = m.stack[i]
          /\ \A i \in 1 .. Len(missing) : padded.stack[m.top + i] = missing[i]
      BY <3>1, PushedAll DEF padded
    <3> QED
      BY <2>3, <3>2
  <2>5. \A i \in 1 .. callee : bound.stack[i] = m.stack[i]
    <3>1. \A i \in 1 .. callee : i \in 1 .. m.top
      BY <1>2
    <3> QED
      BY <2>1, <2>4, <3>1
  <2>6. ASSUME NEW i \in 1 .. n PROVE bound.stack[callee + i] = m.stack[callee + i]
    <3>1. callee + i \in 1 .. m.top
      BY <1>2
    <3> QED
      BY <2>1, <2>4, <3>1
  <2>7. ASSUME NEW i \in n + 1 .. f.arity PROVE bound.stack[callee + i] = Missing
    <3> DEFINE j == i - n
    <3>1. j \in 1 .. k /\ callee + i = m.top + j
      BY <1>2, <1>3 DEF k
    <3> HIDE DEF j
    <3> QED
      BY <2>1, <2>4, <3>1
  <2>8. bound.top - callee = f.arity
    BY <1>2, <1>3, <2>1, <2>2, <2>4 DEF k
  <2>9. bound.status = "run"
    BY <2>1, <2>4
  <2> QED
    BY <1>6, <2>2, <2>5, <2>6, <2>7, <2>8, <2>9 DEF bound, callee
<1>7. CASE ~(f.rest /\ n >= f.minArity) /\ ~(~f.rest /\ n \in f.minArity .. f.arity)
  <2>1. bound = RuntimeError(m)
    BY <1>1, <1>7, Zenon
  <2>2. ~(n >= f.minArity /\ (n <= f.arity \/ f.rest))
    BY <1>3, <1>7
  <2> QED
    BY <1>4, <2>1, <2>2 DEF bound
<1> QED
  BY <1>5, <1>6, <1>7
=============================================================================
