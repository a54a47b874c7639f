--------------------------- MODULE RegexSearchProofs ---------------------------
(***************************************************************************)
(* The loops that search a text, for every text and every matcher that     *)
(* keeps to the text (StaysInText): they go forward, what findAll returns  *)
(* is in order, and what replace and replaceAll leave alone comes out as   *)
(* it was.                                                                 *)
(*                                                                         *)
(* Between two rounds of replaceAll what has been written is what stands   *)
(* before `copied`, and that is where the next search starts, except that  *)
(* `pos` goes one place beyond the end of the text (WrittenInv).           *)
(***************************************************************************)
EXTENDS RegexSearch, TLAPS

-----------------------------------------------------------------------------
(* Parts of the text.                                                      *)

\* The text is a sequence.
TextOK == search \in Searches

LEMMA TextType ==
    ASSUME TextOK
    PROVE  text \in Seq(Characters) /\ Len(text) \in Nat
<1>1. text \in Seq(Characters)
  BY SearchesAssumption DEF TextOK, text
<1> QED
  BY <1>1

\* A part is as long as its borders say, and its characters are those of the text.
LEMMA SliceType ==
    ASSUME TextOK, NEW a \in Nat, NEW b \in a .. Len(text)
    PROVE  /\ Slice(a, b) \in Seq(Characters)
           /\ Len(Slice(a, b)) = b - a
           /\ \A i \in 1 .. b - a : Slice(a, b)[i] = text[a + i]
<1> DEFINE t == text
<1>1. t \in Seq(Characters) /\ Len(t) \in Nat
  BY TextType
<1>2. Slice(a, b) = SubSeq(t, a + 1, b)
  BY DEF Slice
<1>3. b \in Nat /\ a <= b /\ b <= Len(t)
  BY <1>1
<1> HIDE DEF t
<1>4. /\ SubSeq(t, a + 1, b) \in Seq(Characters)
      /\ Len(SubSeq(t, a + 1, b)) = b - a
      /\ \A i \in 1 .. b - a : SubSeq(t, a + 1, b)[i] = t[a + i]
  BY <1>1, <1>3
<1> QED
  BY <1>2, <1>4 DEF t

\* Sequences of one length with the same elements are equal.
LEMMA SameElements ==
    ASSUME NEW S, NEW s \in Seq(S), NEW u \in Seq(S), Len(s) = Len(u),
           \A i \in 1 .. Len(s) : s[i] = u[i]
    PROVE  s = u
OBVIOUS

\* Two parts that meet make one.
LEMMA SliceJoin ==
    ASSUME TextOK, NEW a \in Nat, NEW b \in a .. Len(text), NEW c \in b .. Len(text)
    PROVE  Slice(a, b) \o Slice(b, c) = Slice(a, c)
<1> DEFINE x == Slice(a, b)
           y == Slice(b, c)
           z == Slice(a, c)
<1>1. Len(text) \in Nat /\ a <= b /\ b <= c /\ b \in Nat /\ c \in Nat /\ c \in a .. Len(text)
  BY TextType
<1>2. /\ x \in Seq(Characters) /\ Len(x) = b - a
      /\ \A i \in 1 .. b - a : x[i] = text[a + i]
  BY SliceType
<1>3. /\ y \in Seq(Characters) /\ Len(y) = c - b
      /\ \A i \in 1 .. c - b : y[i] = text[b + i]
  BY <1>1, SliceType
<1>4. /\ z \in Seq(Characters) /\ Len(z) = c - a
      /\ \A i \in 1 .. c - a : z[i] = text[a + i]
  BY <1>1, SliceType
<1> HIDE DEF x, y, z
<1>5. /\ x \o y \in Seq(Characters) /\ Len(x \o y) = c - a
      /\ \A i \in 1 .. c - a : (x \o y)[i] = IF i <= b - a THEN x[i] ELSE y[i - (b - a)]
  BY <1>1, <1>2, <1>3
<1>6. ASSUME NEW i \in 1 .. c - a PROVE (x \o y)[i] = z[i]
  <2>0. i \in Int /\ b - a \in Int /\ c - a \in Int
    BY <1>1
  <2>1. CASE i <= b - a
    <3>1. i \in 1 .. b - a
      BY <2>0, <2>1
    <3>2. x[i] = text[a + i]
      BY <1>2, <3>1
    <3>3. (x \o y)[i] = x[i]
      BY <1>5, <2>1
    <3>4. z[i] = text[a + i]
      BY <1>4
    <3> QED
      BY <3>2, <3>3, <3>4
  <2>2. CASE i > b - a
    <3> DEFINE k == i - (b - a)
    <3>1. k \in 1 .. c - b /\ b + k = a + i /\ ~(i <= b - a)
      BY <1>1, <2>2
    <3> HIDE DEF k
    <3>2. y[k] = text[b + k]
      BY <1>3, <3>1
    <3>3. (x \o y)[i] = y[k]
      BY <1>5, <3>1 DEF k
    <3> QED
      BY <1>4, <3>1, <3>2, <3>3
  <2>3. i <= b - a \/ i > b - a
    BY <2>0
  <2> QED
    BY <2>1, <2>2, <2>3
<1>7. x \o y = z
  BY <1>4, <1>5, <1>6, SameElements
<1> QED
  BY <1>7 DEF x, y, z

\* The whole text is a part of itself, and nothing is one too.
LEMMA SliceEnds ==
    ASSUME TextOK
    PROVE  Slice(0, Len(text)) = text /\ \A a \in 0 .. Len(text) : Slice(a, a) = <<>>
<1>1. text \in Seq(Characters) /\ Len(text) \in Nat
  BY TextType
<1>2. Slice(0, Len(text)) = text
  <2>1. /\ Slice(0, Len(text)) \in Seq(Characters)
        /\ Len(Slice(0, Len(text))) = Len(text) - 0
        /\ \A i \in 1 .. Len(text) - 0 : Slice(0, Len(text))[i] = text[0 + i]
    <3>1. 0 \in Nat /\ Len(text) \in 0 .. Len(text)
      BY <1>1
    <3> QED
      BY <3>1, SliceType
  <2>2. \A i \in 1 .. Len(Slice(0, Len(text))) : Slice(0, Len(text))[i] = text[i]
    BY <1>1, <2>1
  <2> QED
    BY <1>1, <2>1, <2>2, SameElements
<1>3. ASSUME NEW a \in 0 .. Len(text) PROVE Slice(a, a) = <<>>
  <2>1. Slice(a, a) \in Seq(Characters) /\ Len(Slice(a, a)) = a - a
    BY <1>1, SliceType
  <2> QED
    BY <1>1, <2>1
<1> QED
  BY <1>2, <1>3

\* A sequence of one piece flattens to the piece.
LEMMA FlattenOne ==
    ASSUME NEW x
    PROVE  FlattenSeq(<<x>>) = x
<1> DEFINE ss == <<x>>
           Flattens(f) == f = [i \in 1 .. Len(ss) |-> IF i = 1 THEN ss[i] ELSE f[i - 1] \o ss[i]]
           flatten == CHOOSE f : Flattens(f)
           one == [i \in 1 .. 1 |-> x]
<1>1. Len(ss) = 1 /\ ss[1] = x
  OBVIOUS
<1>2. FlattenSeq(ss) = flatten[Len(ss)]
  BY <1>1 DEF FlattenSeq
<1>3. Flattens(one)
  <2>1. \A i \in 1 .. 1 : i = 1
    OBVIOUS
  <2>2. one = [i \in 1 .. 1 |-> IF i = 1 THEN ss[i] ELSE one[i - 1] \o ss[i]]
    BY <1>1, <2>1
  <2> QED
    BY <1>1, <2>2
<1>4. Flattens(flatten)
  BY <1>3
<1>5. flatten[1] = ss[1]
  <2>1. 1 \in 1 .. Len(ss)
    BY <1>1
  <2> HIDE DEF flatten, ss
  <2> QED
    BY <1>4, <2>1
<1> QED
  BY <1>1, <1>2, <1>5

\* The template $0 is replaced by the match.
LEMMA ExpandedItself ==
    ASSUME search.template = <<"$0">>, NEW m
    PROVE  Expanded(m) = Slice(m.start, m.end)
<1> DEFINE s == Slice(m.start, m.end)
<1>0. Expansion(m, "$0") = s
  <2> HIDE DEF s
  <2>1. "$0" # "$1" /\ "$0" # "$2" /\ "$0" # "$<n>" /\ "$0" # "$$"
    OBVIOUS
  <2> QED
    BY <2>1, Zenon DEF Expansion, s
<1>1. DOMAIN search.template = 1 .. 1 /\ search.template[1] = "$0"
  OBVIOUS
<1>2. Expanded(m) = FlattenSeq([i \in 1 .. 1 |-> s])
  <2> DEFINE e(i) == Expansion(m, search.template[i])
  <2> HIDE DEF s
  <2>1. ASSUME NEW i \in 1 .. 1 PROVE e(i) = s
    <3>1. i = 1
      OBVIOUS
    <3> QED
      BY <1>0, <1>1, <3>1
  <2>2. Expanded(m) = FlattenSeq([i \in 1 .. 1 |-> e(i)])
    BY <1>1 DEF Expanded
  <2> HIDE DEF e
  <2>3. [i \in 1 .. 1 |-> e(i)] = [i \in 1 .. 1 |-> s]
    BY <2>1
  <2> QED
    BY <2>2, <2>3
<1>3. [i \in 1 .. 1 |-> s] = <<s>>
  <2> HIDE DEF s
  <2> QED
    OBVIOUS
<1> QED
  BY <1>2, <1>3, FlattenOne

\* A sequence of any elements grows by any element.
LEMMA Grows ==
    ASSUME NEW S, NEW s \in Seq(S), NEW e
    PROVE  /\ Append(s, e) \in Seq(S \cup {e})
           /\ Len(s) \in Nat /\ DOMAIN s = 1 .. Len(s)
           /\ Len(Append(s, e)) = Len(s) + 1 /\ DOMAIN Append(s, e) = 1 .. Len(s) + 1
           /\ Append(s, e)[Len(s) + 1] = e
           /\ \A i \in 1 .. Len(s) : Append(s, e)[i] = s[i]
<1>1. s \in Seq(S \cup {e}) /\ e \in S \cup {e}
  OBVIOUS
<1> DEFINE T == S \cup {e}
<1> HIDE DEF T
<1>2. s \in Seq(T) /\ e \in T
  BY <1>1 DEF T
<1> QED
  BY <1>2 DEF T

-----------------------------------------------------------------------------
(* The inductive invariant.                                                *)

\* Where a search stands in the text; find and replace search once.
PlaceInv ==
    /\ search \in Searches
    /\ at \in {"compile", "search", "end", "done"}
    /\ pos \in 0 .. Len(text) + 1
    /\ copied \in 0 .. Len(text)
    /\ at = "compile" => pos = 0 /\ copied = 0 /\ out = <<>>
    /\ search.op \in {"find", "replace"} => pos = 0 /\ at # "end"

\* What replacing matches by themselves has written.
WrittenInv ==
    search.template = <<"$0">> =>
        /\ search.op = "replaceAll" /\ at \in {"search", "end"} => out = Slice(0, copied)
        /\ search.op = "replaceAll" /\ at = "search" =>
              copied = IF pos <= Len(text) THEN pos ELSE Len(text)
        /\ search.op \in {"replace", "replaceAll"} /\ at = "done" /\ compiled # None => out = text

\* What findAll has found: fewer matches than it has passed places, all before pos.
OrderInv ==
    search.op = "findAll" =>
        /\ \E S : out \in Seq(S)
        /\ Len(out) <= pos
        /\ \A i \in DOMAIN out : IsPart(out[i].start, out[i].end) /\ out[i].end <= pos
        /\ \A i, j \in DOMAIN out : i < j => out[i].end <= out[j].start

Inv == PlaceInv /\ WrittenInv /\ OrderInv

\* What is known of a match, in numbers.
LEMMA MatchBorders ==
    ASSUME TextOK, pos \in Nat, NEW m, m # None, InText(m, pos)
    PROVE  /\ m.start \in Nat /\ m.end \in Nat /\ Len(text) \in Nat
           /\ pos <= m.start /\ m.start <= m.end /\ m.end <= Len(text)
<1>1. Len(text) \in Nat
  BY TextType
<1> DEFINE n == Len(text)
<1>2. pos <= m.start /\ m.start \in 0 .. n /\ m.end \in m.start .. n
  BY DEF InText, IsPart
<1> HIDE DEF n
<1>3. n \in Nat
  BY <1>1 DEF n
<1> QED
  BY <1>2, <1>3 DEF n

\* Where a search starts.
LEMMA InitInv == Init => Inv
<1> SUFFICES ASSUME Init PROVE Inv
  OBVIOUS
<1>1. search \in Searches /\ compiled = None /\ at = "compile" /\ pos = 0 /\ copied = 0 /\ out = <<>>
  BY DEF Init
<1>2. Len(text) \in Nat
  BY <1>1, TextType DEF TextOK
<1>3. PlaceInv
  BY <1>1, <1>2 DEF PlaceInv
<1>4. WrittenInv
  BY <1>1 DEF WrittenInv
<1>5. OrderInv
  <2>1. <<>> \in Seq({}) /\ Len(<<>>) = 0 /\ DOMAIN <<>> = {}
    OBVIOUS
  <2> QED
    BY <1>1, <2>1 DEF OrderInv
<1> QED
  BY <1>3, <1>4, <1>5 DEF Inv

-----------------------------------------------------------------------------
(* The steps.                                                              *)

\* What the places are before a search, as numbers.
LEMMA Places ==
    ASSUME PlaceInv
    PROVE  TextOK /\ Len(text) \in Nat /\ pos \in Nat /\ pos <= Len(text) + 1
           /\ copied \in Nat /\ copied <= Len(text)
<1>1. TextOK
  BY DEF PlaceInv, TextOK
<1>2. Len(text) \in Nat
  BY <1>1, TextType
<1> QED
  BY <1>1, <1>2 DEF PlaceInv

\* Compiling: nothing is searched yet.
LEMMA CompileStep ==
    ASSUME Inv, NEW c, Compile(c)
    PROVE  Inv'
<1>1. /\ search' = search /\ pos' = 0 /\ copied' = 0 /\ out' = <<>> /\ compiled' = c
      /\ at' = IF c = None THEN "done" ELSE "search"
  BY DEF Compile, Inv, PlaceInv
<1>2. TextOK /\ Len(text) \in Nat
  BY Places DEF Inv
<1>3. text' = text
  BY <1>1 DEF text
<1>4. PlaceInv'
  BY <1>1, <1>2, <1>3 DEF PlaceInv, TextOK
<1>5. WrittenInv'
  <2>1. Slice(0, 0) = <<>> /\ Slice(0, 0)' = Slice(0, 0)
    BY <1>2, <1>3, SliceEnds DEF Slice
  <2>2. at' = "done" => compiled' = None
    BY <1>1
  <2> QED
    BY <1>1, <1>2, <1>3, <2>1, <2>2 DEF WrittenInv, Slice
<1>6. OrderInv'
  <2>1. <<>> \in Seq({}) /\ Len(<<>>) = 0 /\ DOMAIN <<>> = {}
    OBVIOUS
  <2> QED
    BY <1>1, <2>1 DEF OrderInv
<1> QED
  BY <1>4, <1>5, <1>6 DEF Inv

\* find: one search.
LEMMA FindStep ==
    ASSUME Inv, NEW m, Find(m)
    PROVE  Inv'
<1>1. /\ search' = search /\ pos' = pos /\ copied' = copied /\ at' = "done"
      /\ search.op = "find"
  BY DEF Find, Searching
<1>2. text' = text
  BY <1>1 DEF text
<1>3. PlaceInv'
  BY <1>1, <1>2 DEF Inv, PlaceInv
<1>4. WrittenInv' /\ OrderInv'
  BY <1>1 DEF WrittenInv, OrderInv
<1> QED
  BY <1>3, <1>4 DEF Inv

\* replace: what stands before the match, what replaces it, what follows.
LEMMA ReplaceStep ==
    ASSUME Inv, NEW m, Replace(m), InText(m, pos)
    PROVE  Inv'
<1>1. /\ search' = search /\ pos' = pos /\ copied' = copied /\ at' = "done"
      /\ search.op = "replace"
      /\ out' = IF m = None THEN text
                ELSE Slice(0, m.start) \o Expanded(m) \o Slice(m.end, Len(text))
  BY DEF Replace, Searching
<1>2. text' = text
  BY <1>1 DEF text
<1>3. PlaceInv'
  BY <1>1, <1>2 DEF Inv, PlaceInv
<1>4. TextOK /\ Len(text) \in Nat /\ pos \in Nat
  BY Places DEF Inv
<1>5. ASSUME search.template = <<"$0">>, m # None PROVE out' = text
  <2> DEFINE a == m.start
             b == m.end
             n == Len(text)
  <2>1. a \in Nat /\ b \in Nat /\ a <= b /\ b <= n
    BY <1>4, <1>5, MatchBorders
  <2>2. Expanded(m) = Slice(a, b)
    BY <1>5, ExpandedItself
  <2>3. out' = Slice(0, a) \o Slice(a, b) \o Slice(b, n)
    BY <1>1, <1>5, <2>2
  <2> HIDE DEF a, b, n
  <2>4. n \in Nat
    BY <1>4 DEF n
  <2>5. 0 \in Nat /\ a \in 0 .. n /\ b \in a .. n /\ b \in 0 .. n /\ n \in b .. n
    BY <2>1, <2>4
  <2>6. Slice(0, a) \o Slice(a, b) = Slice(0, b)
    BY <1>4, <2>5, SliceJoin DEF n
  <2>7. Slice(0, b) \o Slice(b, n) = Slice(0, n)
    BY <1>4, <2>5, SliceJoin DEF n
  <2> QED
    BY <1>4, <2>3, <2>6, <2>7, SliceEnds DEF n
<1>6. WrittenInv'
  <2>1. search.template = <<"$0">> => out' = text
    BY <1>1, <1>5
  <2> QED
    BY <1>1, <1>2, <2>1 DEF WrittenInv
<1>7. OrderInv'
  BY <1>1 DEF OrderInv
<1> QED
  BY <1>3, <1>6, <1>7 DEF Inv

\* findAll: the match is behind the others, and the next search starts after it.
LEMMA FindAllStep ==
    ASSUME Inv, NEW m, FindAll(m), InText(m, pos)
    PROVE  Inv' /\ (at' = "search" => pos' > pos)
<1>1. /\ search' = search /\ copied' = copied /\ search.op = "findAll" /\ at = "search"
      /\ pos <= Len(text)
  BY DEF FindAll, Searching
<1>2. text' = text
  BY <1>1 DEF text
<1>3. TextOK /\ Len(text) \in Nat /\ pos \in Nat /\ copied \in Nat /\ copied <= Len(text)
  BY Places DEF Inv
<1>4. WrittenInv'
  BY <1>1 DEF WrittenInv
<1>5. CASE m = None
  <2>1. at' = "end" /\ pos' = pos /\ out' = out
    BY <1>5 DEF FindAll, EndLoop
  <2>2. PlaceInv'
    BY <1>1, <1>2, <2>1 DEF Inv, PlaceInv
  <2>3. OrderInv'
    BY <1>1, <1>2, <2>1 DEF Inv, OrderInv, IsPart
  <2> QED
    BY <1>4, <2>1, <2>2, <2>3 DEF Inv
<1>6. CASE m # None
  <2> DEFINE n == Len(text)
             k == Len(out)
  <2>1. /\ m.start \in Nat /\ m.end \in Nat /\ pos <= m.start /\ m.start <= m.end /\ m.end <= n
    BY <1>3, <1>6, MatchBorders
  <2>2. /\ out' = Append(out, m) /\ at' = at
        /\ pos' = IF m.end > pos THEN m.end ELSE pos + 1
    BY <1>6 DEF FindAll
  <2>3. IsPart(m.start, m.end)
    BY <1>6 DEF InText
  <2>4. PICK S : out \in Seq(S)
    BY <1>1 DEF Inv, OrderInv
  <2>5. /\ out' \in Seq(S \cup {m}) /\ k \in Nat /\ DOMAIN out = 1 .. k
        /\ Len(out') = k + 1 /\ DOMAIN out' = 1 .. k + 1 /\ out'[k + 1] = m
        /\ \A i \in 1 .. k : out'[i] = out[i]
    BY <2>2, <2>4, Grows
  <2>6. k <= pos /\ \A i \in 1 .. k : IsPart(out[i].start, out[i].end) /\ out[i].end <= pos
    BY <1>1, <2>5 DEF Inv, OrderInv
  <2>7. \A i, j \in 1 .. k : i < j => out[i].end <= out[j].start
    BY <1>1, <2>5 DEF Inv, OrderInv
  <2> HIDE DEF n, k
  <2>8. n \in Nat /\ pos <= n
    BY <1>1, <1>3 DEF n
  <2>9. pos' \in Nat /\ pos' > pos /\ pos' >= m.end /\ pos' <= n + 1
    BY <1>3, <2>1, <2>2, <2>8
  <2>10. PlaceInv'
    <3>1. pos' \in 0 .. n + 1 /\ copied' \in 0 .. n
      BY <1>1, <1>3, <2>8, <2>9 DEF n
    <3> QED
      BY <1>1, <1>2, <2>2, <3>1 DEF Inv, PlaceInv, n
  <2>11. \A i \in 1 .. k : out[i].end \in Nat
    BY <1>3, <2>6 DEF IsPart
  <2>12. ASSUME NEW i \in 1 .. k + 1
         PROVE  IsPart(out'[i].start, out'[i].end) /\ out'[i].end <= pos'
    <3>1. CASE i = k + 1
      BY <2>3, <2>5, <2>9, <3>1
    <3>2. CASE i # k + 1
      <4>1. i \in 1 .. k
        BY <2>5, <3>2
      <4>2. IsPart(out[i].start, out[i].end) /\ out[i].end <= pos /\ out[i].end \in Nat
        BY <2>6, <2>11, <4>1
      <4>3. out[i].end <= pos'
        BY <1>3, <2>9, <4>2
      <4> QED
        BY <2>5, <4>1, <4>2, <4>3
    <3> QED
      BY <3>1, <3>2
  <2>13. ASSUME NEW i \in 1 .. k + 1, NEW j \in 1 .. k + 1, i < j
         PROVE  out'[i].end <= out'[j].start
    <3>1. i \in 1 .. k
      BY <2>5, <2>13
    <3>2. out'[i] = out[i] /\ out[i].end <= pos /\ out[i].end \in Nat
      BY <2>5, <2>6, <2>11, <3>1
    <3>3. CASE j = k + 1
      <4>1. out[i].end <= m.start
        BY <1>3, <2>1, <3>2
      <4> QED
        BY <2>5, <3>2, <3>3, <4>1
    <3>4. CASE j # k + 1
      <4>1. j \in 1 .. k
        BY <2>5, <3>4
      <4> QED
        BY <2>5, <2>7, <2>13, <3>1, <4>1
    <3> QED
      BY <3>3, <3>4
  <2>14. k + 1 <= pos'
    BY <1>3, <2>5, <2>6, <2>9
  <2>15. OrderInv'
    <3>1. \A i \in DOMAIN out' : IsPart(out[i].start, out[i].end)' /\ out'[i].end <= pos'
      BY <1>2, <2>5, <2>12 DEF IsPart
    <3>2. \A i, j \in DOMAIN out' : i < j => out'[i].end <= out'[j].start
      BY <2>5, <2>13
    <3> QED
      BY <2>5, <2>14, <3>1, <3>2 DEF OrderInv
  <2> QED
    BY <1>4, <2>9, <2>10, <2>15 DEF Inv
<1> QED
  BY <1>5, <1>6

\* split: the same places as findAll; what it keeps is no part of the invariant.
LEMMA SplitStep ==
    ASSUME Inv, NEW m, Split(m), InText(m, pos)
    PROVE  Inv' /\ (at' = "search" => pos' > pos)
<1>1. /\ search' = search /\ copied' = copied /\ search.op = "split" /\ at = "search"
      /\ pos <= Len(text)
  BY DEF Split, Searching
<1>2. text' = text
  BY <1>1 DEF text
<1>3. TextOK /\ Len(text) \in Nat /\ pos \in Nat /\ copied \in Nat /\ copied <= Len(text)
  BY Places DEF Inv
<1>4. WrittenInv' /\ OrderInv'
  BY <1>1 DEF WrittenInv, OrderInv
<1>5. CASE m = None
  <2>1. at' = "end" /\ pos' = pos
    BY <1>5 DEF Split, EndLoop
  <2>2. PlaceInv'
    BY <1>1, <1>2, <2>1 DEF Inv, PlaceInv
  <2> QED
    BY <1>4, <2>1, <2>2 DEF Inv
<1>6. CASE m # None
  <2> DEFINE n == Len(text)
  <2>1. /\ m.start \in Nat /\ m.end \in Nat /\ pos <= m.start /\ m.start <= m.end /\ m.end <= n
    BY <1>3, <1>6, MatchBorders
  <2>2. at' = at /\ pos' = IF m.end > pos THEN m.end ELSE pos + 1
    BY <1>6 DEF Split
  <2> HIDE DEF n
  <2>3. n \in Nat /\ pos <= n
    BY <1>1, <1>3 DEF n
  <2>4. pos' \in 0 .. n + 1 /\ pos' > pos
    BY <1>3, <2>1, <2>2, <2>3
  <2>5. PlaceInv'
    BY <1>1, <1>2, <1>3, <2>2, <2>4 DEF Inv, PlaceInv, n
  <2> QED
    BY <1>4, <2>4, <2>5 DEF Inv
<1> QED
  BY <1>5, <1>6

\* replaceAll: what is written stays what stands before `copied`.
LEMMA ReplaceEachStep ==
    ASSUME Inv, NEW m, ReplaceEach(m), InText(m, pos)
    PROVE  Inv' /\ (at' = "search" => pos' > pos)
<1>1. /\ search' = search /\ search.op = "replaceAll" /\ at = "search" /\ pos <= Len(text)
  BY DEF ReplaceEach, Searching
<1>2. text' = text
  BY <1>1 DEF text
<1>3. TextOK /\ Len(text) \in Nat /\ pos \in Nat /\ copied \in Nat /\ copied <= Len(text)
  BY Places DEF Inv
<1>4. OrderInv'
  BY <1>1 DEF OrderInv
<1>5. CASE m = None
  <2>1. at' = "end" /\ pos' = pos /\ out' = out /\ copied' = copied
    BY <1>5 DEF ReplaceEach, EndLoop
  <2>2. PlaceInv'
    BY <1>1, <1>2, <2>1 DEF Inv, PlaceInv
  <2>3. WrittenInv'
    BY <1>1, <1>2, <2>1 DEF Inv, WrittenInv, Slice
  <2> QED
    BY <1>4, <2>1, <2>2, <2>3 DEF Inv
<1>6. CASE m # None
  <2> DEFINE n == Len(text)
             a == m.start
             b == m.end
             stepped == b = a /\ b < n
             more == IF stepped THEN Slice(b, b + 1) ELSE <<>>
  <2>1. /\ a \in Nat /\ b \in Nat /\ pos <= a /\ a <= b /\ b <= n
    BY <1>3, <1>6, MatchBorders
  <2>2. /\ out' = out \o Slice(copied, a) \o Expanded(m) \o more
        /\ copied' = IF stepped THEN b + 1 ELSE b
        /\ pos' = IF b > a THEN b ELSE b + 1
        /\ at' = at
    BY <1>6 DEF ReplaceEach
  <2>3. n \in Nat /\ pos <= n /\ copied <= n
    BY <1>1, <1>3
  <2>4. search.template = <<"$0">> => out = Slice(0, copied) /\ copied = pos
    BY <1>1, <2>3 DEF Inv, WrittenInv
  <2>5. search.template = <<"$0">> => Expanded(m) = Slice(a, b)
    BY ExpandedItself
  <2> HIDE DEF n, a, b
  <2>6. /\ pos' \in 0 .. n + 1 /\ pos' > pos /\ copied' \in 0 .. n
        /\ copied' = IF pos' <= n THEN pos' ELSE n
    BY <1>3, <2>1, <2>2, <2>3
  <2>7. PlaceInv'
    BY <1>1, <1>2, <2>2, <2>6 DEF Inv, PlaceInv, n
  <2>8. ASSUME search.template = <<"$0">> PROVE out' = Slice(0, copied')
    <3>1. out' = Slice(0, pos) \o Slice(pos, a) \o Slice(a, b) \o more
      BY <2>2, <2>4, <2>5, <2>8
    <3>2. pos \in 0 .. n /\ a \in pos .. n /\ a \in 0 .. n /\ b \in a .. n /\ b \in 0 .. n /\ 0 \in Nat
      BY <1>3, <2>1, <2>3
    <3>3. Slice(0, pos) \o Slice(pos, a) = Slice(0, a)
      BY <1>3, <3>2, SliceJoin DEF n
    <3>4. Slice(0, a) \o Slice(a, b) = Slice(0, b)
      BY <1>3, <3>2, SliceJoin DEF n
    <3>5. out' = Slice(0, b) \o more
      BY <3>1, <3>3, <3>4
    <3>6. CASE stepped
      <4>1. b + 1 \in b .. n /\ copied' = b + 1 /\ more = Slice(b, b + 1)
        BY <2>1, <2>2, <2>3, <3>6
      <4>2. Slice(0, b) \o Slice(b, b + 1) = Slice(0, b + 1)
        BY <1>3, <3>2, <4>1, SliceJoin DEF n
      <4> QED
        BY <3>5, <4>1, <4>2
    <3>7. CASE ~stepped
      <4>1. copied' = b /\ more = <<>>
        BY <2>2, <3>7
      <4>2. Slice(0, b) \in Seq(Characters)
        BY <1>3, <3>2, SliceType DEF n
      <4> HIDE DEF more
      <4>3. Slice(0, b) \o <<>> = Slice(0, b)
        BY <4>2
      <4> QED
        BY <3>5, <4>1, <4>3
    <3> QED
      BY <3>6, <3>7
  <2>9. WrittenInv'
    <3>1. Slice(0, copied)' = Slice(0, copied')
      BY <1>2 DEF Slice
    <3> QED
      BY <1>1, <1>2, <2>2, <2>6, <2>8, <3>1 DEF WrittenInv, n
  <2> QED
    BY <1>4, <2>6, <2>7, <2>9 DEF Inv
<1> QED
  BY <1>5, <1>6

\* After the loop: replaceAll adds the tail of the text.
LEMMA LeaveStep ==
    ASSUME Inv, Leave
    PROVE  Inv'
<1>1. /\ search' = search /\ compiled' = compiled /\ pos' = pos /\ copied' = copied
      /\ at' = "done" /\ at \in {"search", "end"} /\ (at = "search" => pos > Len(text))
      /\ out' = IF search.op = "replaceAll" THEN out \o Slice(copied, Len(text)) ELSE out
  BY DEF Leave
<1>2. text' = text
  BY <1>1 DEF text
<1>3. TextOK /\ Len(text) \in Nat /\ pos \in Nat /\ copied \in Nat /\ copied <= Len(text)
  BY Places DEF Inv
<1>4. search.op \notin {"find", "replace"}
  BY <1>1, <1>3 DEF Inv, PlaceInv
<1>5. PlaceInv'
  BY <1>1, <1>2, <1>4 DEF Inv, PlaceInv
<1>6. WrittenInv'
  <2>1. ASSUME search.template = <<"$0">>, search.op = "replaceAll" PROVE out' = text
    <3> DEFINE n == Len(text)
    <3>1. out = Slice(0, copied)
      BY <1>1, <2>1 DEF Inv, WrittenInv
    <3>2. n \in Nat /\ 0 \in Nat /\ copied \in 0 .. n /\ n \in copied .. n
      BY <1>3
    <3>3. Slice(0, copied) \o Slice(copied, n) = Slice(0, n)
      BY <1>3, <3>2, SliceJoin
    <3>4. Slice(0, n) = text
      BY <1>3, SliceEnds
    <3> QED
      BY <1>1, <2>1, <3>1, <3>3, <3>4
  <2> QED
    BY <1>1, <1>2, <1>4, <2>1 DEF WrittenInv
<1>7. OrderInv'
  BY <1>1, <1>2 DEF Inv, OrderInv, IsPart
<1> QED
  BY <1>5, <1>6, <1>7 DEF Inv

\* A step keeps the invariant, and a search that follows a search starts further on.
LEMMA SearchStep ==
    ASSUME Inv, [SearchNext]_vars
    PROVE  Inv' /\ (vars' # vars /\ at = "search" /\ at' = "search" => pos' > pos)
<1> DEFINE m == found'.match
<1>1. CASE Compile(compiled')
  BY <1>1, CompileStep DEF Compile
<1>2. CASE Searched(m) /\ InText(m, pos)
  <2> HIDE DEF m
  <2>1. CASE Find(m)
    BY <2>1, FindStep DEF Find
  <2>2. CASE Replace(m)
    BY <1>2, <2>2, ReplaceStep DEF Replace
  <2>3. CASE FindAll(m)
    BY <1>2, <2>3, FindAllStep
  <2>4. CASE ReplaceEach(m)
    BY <1>2, <2>4, ReplaceEachStep
  <2>5. CASE Split(m)
    BY <1>2, <2>5, SplitStep
  <2> QED
    BY <1>2, <2>1, <2>2, <2>3, <2>4, <2>5 DEF Searched
<1>3. CASE Leave
  BY <1>3, LeaveStep DEF Leave
<1>4. CASE UNCHANGED vars
  BY <1>4 DEF vars, Inv, PlaceInv, WrittenInv, OrderInv, text, Slice, IsPart
<1> QED
  BY <1>1, <1>2, <1>3, <1>4 DEF SearchNext, Finished

\* The invariant holds throughout.
THEOREM LoopInvariant == SearchSpec => []Inv
<1>1. Inv /\ [SearchNext]_vars => Inv'
  BY SearchStep
<1> QED
  BY <1>1, InitInv, PTL DEF SearchSpec

-----------------------------------------------------------------------------
(* What the natives promise.                                               *)

\* replace and replaceAll (regexReplaceNative, regexReplaceAllNative) neither drop
\* nor double a character around the matches: with $0 the text comes out as it was,
\* whatever the text, the pattern and the order in which a matcher tries its ways.
THEOREM ReplacingKeepsText == SearchSpec => []ReplacingByItself
<1>1. Inv => ReplacingByItself
  BY DEF Inv, WrittenInv, ReplacingByItself
<1> QED
  BY <1>1, LoopInvariant, PTL

\* findAll (regexMatchAllNative) returns its matches in the order of the text, none
\* overlapping the one before, one more than there are characters at most.
THEOREM FoundInOrder == SearchSpec => []MatchesInOrder
<1>1. Inv => MatchesInOrder
  <2> SUFFICES ASSUME Inv, search.op = "findAll"
               PROVE  MatchesInOrder
    BY DEF MatchesInOrder
  <2>1. Len(text) \in Nat /\ pos \in Nat /\ pos <= Len(text) + 1
    BY Places DEF Inv
  <2>2. PICK S : out \in Seq(S)
    BY DEF Inv, OrderInv
  <2>3. Len(out) \in Nat /\ Len(out) <= pos
    BY <2>2 DEF Inv, OrderInv
  <2>4. Len(out) <= Len(text) + 1
    BY <2>1, <2>3
  <2> QED
    BY <2>4 DEF Inv, OrderInv, MatchesInOrder
<1> QED
  BY <1>1, LoopInvariant, PTL

\* Each loop of the natives goes forward with every search, so that none of them
\* stays at a match without characters.
THEOREM SearchesMoveOn == SearchSpec => MovesOn
<1>1. Inv /\ [SearchNext]_vars => [at = "search" /\ at' = "search" => pos' > pos]_vars
  BY SearchStep
<1> QED
  BY <1>1, LoopInvariant, PTL DEF SearchSpec, MovesOn
=============================================================================
