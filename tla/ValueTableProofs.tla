--------------------------- MODULE ValueTableProofs ---------------------------
(***************************************************************************)
(* Proofs about ValueTable for every set of keys and values, every hash    *)
(* function and every capacity: probes end, no entry is hidden or doubled, *)
(* the counters are exact, and the table implements Dictionary.            *)
(*                                                                         *)
(* The last part is about TableIteration: without NaN keys a walk over a   *)
(* map or a set visits every entry that lasts exactly once and a native    *)
(* never reads past the array, whatever the program does to the table      *)
(* between two rounds.  An entry keeps its index as long as its array is   *)
(* not replaced, so the entries before the cursor of the walk have been    *)
(* handed out and those after it have not.                                 *)
(***************************************************************************)
EXTENDS ValueTableRefinement, TableIteration, LeastNumbers, FiniteSetTheorems, FunctionTheorems, TLAPS

-----------------------------------------------------------------------------
(* Probe sequences.                                                        *)

\* The home of a key is an index of the array.
LEMMA HomeInRange ==
    ASSUME NEW cap \in Nat, cap > 0, NEW k \in Keys
    PROVE  Hash[k] % cap \in 0 .. cap - 1
<1>1. Hash[k] \in Nat
  BY ConstantsAssumption
<1> QED
  BY <1>1

\* A probe looks at every index of the array exactly once.
LEMMA ProbeBijective ==
    ASSUME NEW cap \in Nat, cap > 0, NEW k \in Keys
    PROVE  /\ \A d \in 0 .. cap - 1 : Probe(cap, k, d) \in 0 .. cap - 1
           /\ \A d, e \in 0 .. cap - 1 : Probe(cap, k, d) = Probe(cap, k, e) => d = e
           /\ \A i \in 0 .. cap - 1 : \E d \in 0 .. cap - 1 : Probe(cap, k, d) = i
<1> DEFINE h == Hash[k] % cap
<1>1. h \in 0 .. cap - 1
  BY HomeInRange
<1>2. \A d \in 0 .. cap - 1 :
          Probe(cap, k, d) = IF h + d < cap THEN h + d ELSE h + d - cap
  BY <1>1 DEF Probe
<1> HIDE DEF h
<1>3. \A d \in 0 .. cap - 1 : Probe(cap, k, d) \in 0 .. cap - 1
  BY <1>1, <1>2
<1>4. \A d, e \in 0 .. cap - 1 : Probe(cap, k, d) = Probe(cap, k, e) => d = e
  BY <1>1, <1>2
<1>5. \A i \in 0 .. cap - 1 : \E d \in 0 .. cap - 1 : Probe(cap, k, d) = i
  <2> TAKE i \in 0 .. cap - 1
  <2>1. CASE h <= i
    <3>1. i - h \in 0 .. cap - 1
      BY <1>1, <2>1
    <3>2. Probe(cap, k, i - h) = i
      BY <1>1, <1>2, <2>1, <3>1
    <3> QED
      BY <3>1, <3>2
  <2>2. CASE i < h
    <3>1. i - h + cap \in 0 .. cap - 1
      BY <1>1, <2>2
    <3>2. Probe(cap, k, i - h + cap) = i
      BY <1>1, <1>2, <2>2, <3>1
    <3> QED
      BY <3>1, <3>2
  <2> QED
    BY <1>1, <2>1, <2>2
<1> QED
  BY <1>3, <1>4, <1>5

\* Equal keys have the same probe sequence: hashValue and valuesEqual agree.
LEMMA EqualKeysProbeAlike ==
    ASSUME NEW cap, NEW a \in Keys, NEW b \in Keys, Equal(a, b), NEW d
    PROVE  Probe(cap, a, d) = Probe(cap, b, d)
BY HashAssumption DEF Equal, Probe

-----------------------------------------------------------------------------
(* Arrays.                                                                 *)

Array(es, cap) ==
    /\ es \in [0 .. cap - 1 -> Entry]
    /\ \A i \in 0 .. cap - 1 : es[i].occupied => es[i].key \in Keys

\* No entry lies behind an empty one on the way from the home of its key.
Reachable(es, cap) ==
    \A i \in 0 .. cap - 1 : es[i].occupied =>
        \A d \in 0 .. cap - 1 : Probe(cap, es[i].key, d) = i =>
            \A e \in 0 .. d - 1 : ~IsEmpty(es[Probe(cap, es[i].key, e)])

NoTwoEqual(es, cap) ==
    \A i, j \in 0 .. cap - 1 :
        i # j /\ es[i].occupied /\ es[j].occupied => ~Equal(es[i].key, es[j].key)

Sound(es, cap) == Array(es, cap) /\ Reachable(es, cap) /\ NoTwoEqual(es, cap)

\* An array with fewer used entries than indices has an empty one.
LEMMA EmptyEntry ==
    ASSUME NEW cap \in Nat, NEW es, Array(es, cap), Cardinality(UsedIndices(es)) < cap
    PROVE  \E i \in 0 .. cap - 1 : IsEmpty(es[i])
<1> SUFFICES ASSUME \A i \in 0 .. cap - 1 : ~IsEmpty(es[i]) PROVE FALSE
  OBVIOUS
<1>1. UsedIndices(es) = 0 .. cap - 1
  BY DEF UsedIndices, Array
<1>2. Cardinality(0 .. cap - 1) = cap
  BY FS_Interval
<1> QED
  BY <1>1, <1>2

\* Then every probe stops.
LEMMA ProbeStops ==
    ASSUME NEW cap \in Nat, NEW es, Array(es, cap), NEW k \in Keys,
           Cardinality(UsedIndices(es)) < cap
    PROVE  Stops(es, cap, k) # {}
<1>1. PICK i \in 0 .. cap - 1 : IsEmpty(es[i])
  BY EmptyEntry
<1>2. cap > 0
  OBVIOUS
<1>3. PICK d \in 0 .. cap - 1 : Probe(cap, k, d) = i
  BY <1>2, ProbeBijective
<1> QED
  BY <1>1, <1>3 DEF Stops

\* What findEntry returns when it returns: the entry of the key, or one that is not
\* occupied, no further along the probe than the first empty entry; and it passes
\* no empty entry and no equal key on the way.
LEMMA FindEntryReturns ==
    ASSUME NEW cap \in Nat, cap > 0, NEW es, Array(es, cap), NEW k \in Keys,
           Stops(es, cap, k) # {}
    PROVE  LET i == FindEntry(es, cap, k)
           IN  /\ i \in 0 .. cap - 1
               /\ es[i].occupied => Equal(es[i].key, k)
               /\ \E n \in 0 .. cap - 1 : \E m \in 0 .. n :
                     /\ i = Probe(cap, k, m)
                     /\ es[i].occupied => m = n
                     /\ ~es[i].occupied => IsEmpty(es[Probe(cap, k, n)])
                     /\ \A d \in 0 .. n - 1 :
                           LET e == es[Probe(cap, k, d)]
                           IN  ~IsEmpty(e) /\ ~(e.occupied /\ Equal(e.key, k))
<1> DEFINE n == Min(Stops(es, cap, k))
           tombs == TombstonesBefore(es, cap, k, n)
           i == FindEntry(es, cap, k)
<1>1. Stops(es, cap, k) \in SUBSET (0 .. cap - 1)
  BY DEF Stops
<1>2. n \in Stops(es, cap, k) /\ \A d \in Stops(es, cap, k) : n <= d
  <2>1. cap - 1 \in Nat
    OBVIOUS
  <2> QED
    BY <1>1, <2>1, MinOf
<1>3. n \in 0 .. cap - 1
  BY <1>1, <1>2
<1> HIDE DEF n
<1>4. LET e == es[Probe(cap, k, n)] IN IsEmpty(e) \/ (e.occupied /\ Equal(e.key, k))
  BY <1>2 DEF Stops
<1>5. \A d \in 0 .. n - 1 : LET e == es[Probe(cap, k, d)]
                           IN  ~IsEmpty(e) /\ ~(e.occupied /\ Equal(e.key, k))
  <2> TAKE d \in 0 .. n - 1
  <2>1. d \in 0 .. cap - 1 /\ ~(n <= d)
    BY <1>3
  <2>2. d \notin Stops(es, cap, k)
    BY <1>2, <2>1
  <2> QED
    BY <2>1, <2>2 DEF Stops
<1>6. \A d \in 0 .. cap - 1 : Probe(cap, k, d) \in 0 .. cap - 1
  BY ProbeBijective
<1>7. CASE es[Probe(cap, k, n)].occupied \/ tombs = {}
  <2>1. i = Probe(cap, k, n)
    BY <1>7 DEF FindEntry, n
  <2>2. n \in 0 .. n
    BY <1>3
  <2>3. i \in 0 .. cap - 1
    BY <1>3, <1>6, <2>1
  <2>4. es[i].occupied => Equal(es[i].key, k)
    BY <1>4, <2>1 DEF IsEmpty
  <2>5. ~es[i].occupied => IsEmpty(es[Probe(cap, k, n)])
    BY <1>4, <2>1
  <2> QED
    BY <1>3, <1>5, <2>1, <2>2, <2>3, <2>4, <2>5
<1>8. CASE ~(es[Probe(cap, k, n)].occupied \/ tombs = {})
  <2> DEFINE m == Min(tombs)
  <2>1. tombs \in SUBSET (0 .. cap - 1)
    BY <1>3 DEF TombstonesBefore
  <2>2. m \in tombs
    <3>1. cap - 1 \in Nat
      OBVIOUS
    <3> HIDE DEF tombs
    <3> QED
      BY <1>8, <2>1, <3>1, MinOf
  <2>3. m \in 0 .. n /\ m \in 0 .. cap - 1 /\ IsTombstone(es[Probe(cap, k, m)])
    BY <1>3, <2>1, <2>2 DEF TombstonesBefore
  <2>4. i = Probe(cap, k, m)
    BY <1>8 DEF FindEntry, n
  <2>5. i \in 0 .. cap - 1 /\ ~es[i].occupied
    BY <1>6, <2>3, <2>4 DEF IsTombstone
  <2>6. IsEmpty(es[Probe(cap, k, n)])
    BY <1>4, <1>8
  <2> HIDE DEF m, i, tombs
  <2> QED
    BY <1>3, <1>5, <2>3, <2>4, <2>5, <2>6 DEF i
<1> QED
  BY <1>7, <1>8

\* findEntry finds a key that is there, and nothing occupied for one that is not.
LEMMA NotFound ==
    ASSUME NEW cap \in Nat, cap > 0, NEW es, Sound(es, cap), NEW k \in Keys,
           Stops(es, cap, k) # {}, ~es[FindEntry(es, cap, k)].occupied
    PROVE  \A j \in 0 .. cap - 1 : es[j].occupied => ~Equal(es[j].key, k)
<1> SUFFICES ASSUME NEW j \in 0 .. cap - 1, es[j].occupied, Equal(es[j].key, k)
             PROVE  FALSE
  OBVIOUS
<1>1. Array(es, cap) /\ Reachable(es, cap)
  BY DEF Sound
<1>2. PICK n \in 0 .. cap - 1 :
          /\ IsEmpty(es[Probe(cap, k, n)])
          /\ \A d \in 0 .. n - 1 :
                LET e == es[Probe(cap, k, d)]
                IN  ~IsEmpty(e) /\ ~(e.occupied /\ Equal(e.key, k))
  BY <1>1, FindEntryReturns
<1>3. es[j].key \in Keys
  BY <1>1 DEF Array
<1>4. \A d : Probe(cap, es[j].key, d) = Probe(cap, k, d)
  BY <1>3, EqualKeysProbeAlike
<1>5. PICK d \in 0 .. cap - 1 : Probe(cap, k, d) = j
  BY ProbeBijective
<1>6. \A e \in 0 .. d - 1 : ~IsEmpty(es[Probe(cap, k, e)])
  BY <1>1, <1>4, <1>5 DEF Reachable
<1>7. ~(n < d)
  BY <1>2, <1>6
<1>8. n # d
  BY <1>2, <1>5 DEF IsEmpty
<1>9. d \in 0 .. n - 1
  BY <1>7, <1>8
<1> QED
  BY <1>2, <1>5, <1>9

\* Entries under keys other than k.
Others(es, k) == {e \in EntriesOf(es) : ~Equal(e.key, k)}

\* The array after storing at the entry findEntry returns.
Stored(es, cap, k, v) == [es EXCEPT ![FindEntry(es, cap, k)] = Occupied(k, v)]

\* Storing keeps an array sound and changes the entries as a dictionary would.
LEMMA StoreSound ==
    ASSUME NEW cap \in Nat, cap > 0, NEW es, Sound(es, cap),
           NEW k \in Keys, NEW v \in Values \cup {True}, Stops(es, cap, k) # {}
    PROVE  LET i   == FindEntry(es, cap, k)
               new == Stored(es, cap, k, v)
           IN  /\ i \in 0 .. cap - 1
               /\ Sound(new, cap)
               /\ UsedIndices(new) = UsedIndices(es) \cup {i}
               /\ OccupiedIndices(new) = OccupiedIndices(es) \cup {i}
               /\ EntriesOf(new) = Others(es, k)
                                     \cup {[key |-> k, value |-> v]}
<1> DEFINE i == FindEntry(es, cap, k)
           new == Stored(es, cap, k, v)
<1>1. Array(es, cap) /\ Reachable(es, cap) /\ NoTwoEqual(es, cap)
  BY DEF Sound
<1>2. i \in 0 .. cap - 1 /\ (es[i].occupied => Equal(es[i].key, k))
  BY <1>1, FindEntryReturns
<1>3. \A j \in 0 .. cap - 1 : j # i /\ es[j].occupied => ~Equal(es[j].key, k)
  <2>1. CASE es[i].occupied
    BY <1>1, <1>2, <2>1 DEF NoTwoEqual, Equal
  <2>2. CASE ~es[i].occupied
    BY <2>2, NotFound
  <2> QED
    BY <2>1, <2>2
<1>4. PICK m \in 0 .. cap - 1 :
          /\ i = Probe(cap, k, m)
          /\ \A d \in 0 .. m - 1 : ~IsEmpty(es[Probe(cap, k, d)])
  <2>1. PICK n \in 0 .. cap - 1 : \E m \in 0 .. n :
            /\ i = Probe(cap, k, m)
            /\ \A d \in 0 .. n - 1 : ~IsEmpty(es[Probe(cap, k, d)])
    BY <1>1, FindEntryReturns
  <2>2. PICK m \in 0 .. n : i = Probe(cap, k, m)
    BY <2>1
  <2>3. m \in 0 .. cap - 1 /\ \A d \in 0 .. m - 1 : d \in 0 .. n - 1
    OBVIOUS
  <2> QED
    BY <2>1, <2>2, <2>3
<1>a. new = [es EXCEPT ![i] = Occupied(k, v)]
  BY DEF Stored
<1> HIDE DEF i, new
<1>5. Occupied(k, v) \in Entry /\ Occupied(k, v).occupied
      /\ Occupied(k, v).key = k /\ Occupied(k, v).value = v
  BY DEF Occupied, Entry
<1>6. /\ new \in [0 .. cap - 1 -> Entry]
      /\ new[i] = Occupied(k, v)
      /\ \A j \in 0 .. cap - 1 : j # i => new[j] = es[j]
  BY <1>1, <1>2, <1>5, <1>a DEF Array
<1>7. Array(new, cap)
  BY <1>1, <1>5, <1>6 DEF Array
<1>8. Reachable(new, cap)
  <2> SUFFICES ASSUME NEW j \in 0 .. cap - 1, new[j].occupied,
                      NEW d \in 0 .. cap - 1, Probe(cap, new[j].key, d) = j,
                      NEW e \in 0 .. d - 1
               PROVE  ~IsEmpty(new[Probe(cap, new[j].key, e)])
    BY DEF Reachable
  <2>1. new[j].key \in Keys
    BY <1>7 DEF Array
  <2>2. e \in 0 .. cap - 1
    OBVIOUS
  <2>3. Probe(cap, new[j].key, e) \in 0 .. cap - 1
    BY <2>1, <2>2, ProbeBijective
  <2>4. SUFFICES ~IsEmpty(es[Probe(cap, new[j].key, e)])
    BY <1>5, <1>6, <2>3 DEF IsEmpty
  <2>5. CASE j # i
    BY <1>1, <1>6, <2>5 DEF Reachable
  <2>6. CASE j = i
    <3>1. new[j].key = k
      BY <1>5, <1>6, <2>6
    <3>2. d = m
      BY <1>4, <2>6, <3>1, ProbeBijective
    <3> QED
      BY <1>4, <3>1, <3>2
  <2> QED
    BY <2>5, <2>6
<1>9. NoTwoEqual(new, cap)
  <2> SUFFICES ASSUME NEW a \in 0 .. cap - 1, NEW b \in 0 .. cap - 1, a # b,
                      new[a].occupied, new[b].occupied, Equal(new[a].key, new[b].key)
               PROVE  FALSE
    BY DEF NoTwoEqual
  <2>1. CASE a # i /\ b # i
    BY <1>1, <1>6, <2>1 DEF NoTwoEqual
  <2>2. CASE a = i
    BY <1>3, <1>5, <1>6, <2>2 DEF Equal
  <2>3. CASE b = i
    BY <1>3, <1>5, <1>6, <2>3
  <2> QED
    BY <2>1, <2>2, <2>3
<1>10. DOMAIN es = 0 .. cap - 1 /\ DOMAIN new = 0 .. cap - 1
  BY <1>1, <1>6 DEF Array
<1>11. UsedIndices(new) = UsedIndices(es) \cup {i}
  BY <1>2, <1>5, <1>6, <1>10 DEF UsedIndices, IsEmpty
<1>12. OccupiedIndices(new) = OccupiedIndices(es) \cup {i}
  BY <1>2, <1>5, <1>6, <1>10 DEF OccupiedIndices
<1>13. EntriesOf(new) = Others(es, k)
                         \cup {[key |-> k, value |-> v]}
  <2>1. ASSUME NEW j \in OccupiedIndices(new)
        PROVE  [key |-> new[j].key, value |-> new[j].value]
                  \in Others(es, k)
                        \cup {[key |-> k, value |-> v]}
    <3>1. CASE j = i
      BY <1>5, <1>6, <3>1
    <3>2. CASE j # i
      <4>1. j \in 0 .. cap - 1 /\ es[j].occupied /\ new[j] = es[j]
        BY <1>6, <1>10, <3>2 DEF OccupiedIndices
      <4>2. j \in OccupiedIndices(es)
        BY <1>10, <4>1 DEF OccupiedIndices
      <4>3. ~Equal(es[j].key, k)
        BY <1>3, <3>2, <4>1
      <4> QED
        BY <4>1, <4>2, <4>3 DEF EntriesOf, Others
    <3> QED
      BY <3>1, <3>2
  <2>2. ASSUME NEW j \in OccupiedIndices(es), ~Equal(es[j].key, k)
        PROVE  [key |-> es[j].key, value |-> es[j].value] \in EntriesOf(new)
    <3>1. j \in 0 .. cap - 1 /\ es[j].occupied
      BY <1>10 DEF OccupiedIndices
    <3>2. j # i
      BY <1>2, <2>2, <3>1
    <3>3. new[j] = es[j] /\ j \in OccupiedIndices(new)
      BY <1>6, <1>10, <3>1, <3>2 DEF OccupiedIndices
    <3> QED
      BY <3>3 DEF EntriesOf
  <2>3. [key |-> k, value |-> v] \in EntriesOf(new)
    <3>1. i \in OccupiedIndices(new)
      BY <1>12
    <3> QED
      BY <1>5, <1>6, <3>1 DEF EntriesOf
  <2> DEFINE R == Others(es, k) \cup {[key |-> k, value |-> v]}
  <2>4. EntriesOf(new) \subseteq R
    BY <2>1 DEF EntriesOf
  <2>5. ASSUME NEW e \in EntriesOf(es), ~Equal(e.key, k) PROVE e \in EntriesOf(new)
    <3>1. PICK j \in OccupiedIndices(es) : e = [key |-> es[j].key, value |-> es[j].value]
      BY DEF EntriesOf
    <3> QED
      BY <2>2, <2>5, <3>1
  <2> QED
    BY <2>3, <2>4, <2>5 DEF Others
<1> QED
  BY <1>2, <1>7, <1>8, <1>9, <1>11, <1>12, <1>13 DEF Sound, i, new

\* Leaving a tombstone at an occupied entry.
LEMMA DeleteSound ==
    ASSUME NEW cap \in Nat, cap > 0, NEW es, Sound(es, cap),
           NEW k \in Keys, Stops(es, cap, k) # {}, es[FindEntry(es, cap, k)].occupied
    PROVE  LET i   == FindEntry(es, cap, k)
               new == [es EXCEPT ![i] = Tombstone]
           IN  /\ i \in OccupiedIndices(es)
               /\ Equal(es[i].key, k)
               /\ Sound(new, cap)
               /\ UsedIndices(new) = UsedIndices(es)
               /\ OccupiedIndices(new) = OccupiedIndices(es) \ {i}
               /\ EntriesOf(new) = Others(es, k)
<1> DEFINE i == FindEntry(es, cap, k)
           new == [es EXCEPT ![i] = Tombstone]
<1>1. Array(es, cap) /\ Reachable(es, cap) /\ NoTwoEqual(es, cap)
  BY DEF Sound
<1>2. i \in 0 .. cap - 1 /\ es[i].occupied /\ Equal(es[i].key, k)
  BY <1>1, FindEntryReturns
<1> HIDE DEF i
<1>3. \A j \in 0 .. cap - 1 : j # i /\ es[j].occupied => ~Equal(es[j].key, k)
  BY <1>1, <1>2 DEF NoTwoEqual, Equal
<1>4. Tombstone \in Entry /\ ~Tombstone.occupied /\ Tombstone.value # Nil
  BY ConstantsAssumption DEF Tombstone, Entry
<1>5. /\ new \in [0 .. cap - 1 -> Entry]
      /\ new[i] = Tombstone
      /\ \A j \in 0 .. cap - 1 : j # i => new[j] = es[j]
  BY <1>1, <1>2, <1>4 DEF Array
<1> HIDE DEF new
<1>6. Array(new, cap)
  BY <1>1, <1>4, <1>5 DEF Array
<1>7. Reachable(new, cap)
  <2> SUFFICES ASSUME NEW j \in 0 .. cap - 1, new[j].occupied,
                      NEW d \in 0 .. cap - 1, Probe(cap, new[j].key, d) = j,
                      NEW e \in 0 .. d - 1
               PROVE  ~IsEmpty(new[Probe(cap, new[j].key, e)])
    BY DEF Reachable
  <2>1. j # i /\ new[j] = es[j]
    BY <1>4, <1>5
  <2>2. new[j].key \in Keys /\ e \in 0 .. cap - 1
    BY <1>6 DEF Array
  <2>3. Probe(cap, new[j].key, e) \in 0 .. cap - 1
    BY <2>2, ProbeBijective
  <2>4. ~IsEmpty(es[Probe(cap, new[j].key, e)])
    BY <1>1, <2>1 DEF Reachable
  <2> QED
    BY <1>4, <1>5, <2>3, <2>4 DEF IsEmpty
<1>8. NoTwoEqual(new, cap)
  BY <1>1, <1>4, <1>5 DEF NoTwoEqual
<1>9. DOMAIN es = 0 .. cap - 1 /\ DOMAIN new = 0 .. cap - 1
  BY <1>1, <1>5 DEF Array
<1>10. UsedIndices(new) = UsedIndices(es)
  BY <1>2, <1>4, <1>5, <1>9 DEF UsedIndices, IsEmpty
<1>11. OccupiedIndices(new) = OccupiedIndices(es) \ {i}
  BY <1>2, <1>4, <1>5, <1>9 DEF OccupiedIndices
<1>12. EntriesOf(new) = Others(es, k)
  <2>1. ASSUME NEW j \in OccupiedIndices(new)
        PROVE  [key |-> new[j].key, value |-> new[j].value]
                  \in Others(es, k)
    <3>1. j \in OccupiedIndices(es) /\ j # i /\ j \in 0 .. cap - 1
      BY <1>9, <1>11 DEF OccupiedIndices
    <3>2. new[j] = es[j] /\ es[j].occupied
      BY <1>5, <3>1 DEF OccupiedIndices
    <3>3. ~Equal(es[j].key, k)
      BY <1>3, <3>1, <3>2
    <3> QED
      BY <3>1, <3>2, <3>3 DEF EntriesOf, Others
  <2>2. ASSUME NEW j \in OccupiedIndices(es), ~Equal(es[j].key, k)
        PROVE  [key |-> es[j].key, value |-> es[j].value] \in EntriesOf(new)
    <3>1. j \in 0 .. cap - 1 /\ j # i
      BY <1>2, <1>9, <2>2 DEF OccupiedIndices
    <3>2. new[j] = es[j] /\ j \in OccupiedIndices(new)
      BY <1>5, <1>11, <3>1
    <3> QED
      BY <3>2 DEF EntriesOf
  <2>3. EntriesOf(new) \subseteq Others(es, k)
    BY <2>1 DEF EntriesOf
  <2>4. ASSUME NEW e \in EntriesOf(es), ~Equal(e.key, k) PROVE e \in EntriesOf(new)
    <3>1. PICK j \in OccupiedIndices(es) : e = [key |-> es[j].key, value |-> es[j].value]
      BY DEF EntriesOf
    <3> QED
      BY <2>2, <2>4, <3>1
  <2> QED
    BY <2>3, <2>4 DEF Others
<1>13. i \in OccupiedIndices(es)
  BY <1>2, <1>9 DEF OccupiedIndices
<1> QED
  BY <1>2, <1>6, <1>7, <1>8, <1>10, <1>11, <1>12, <1>13 DEF Sound, i, new

-----------------------------------------------------------------------------
(* The inductive invariant.                                                *)

\* Entries the loop of adjustCapacity has already moved.
Passed(n) == {i \in OccupiedIndices(entries) : i < n}

\* The array being filled holds exactly these, no tombstone, and cannot fill up.
RehashInv ==
    /\ Sound(fresh, GrowCapacity(capacity))
    /\ UsedIndices(fresh) = OccupiedIndices(fresh)
    /\ 4 * Cardinality(UsedIndices(entries)) <= 3 * capacity
    /\ count = Cardinality(Passed(next))
    /\ EntriesOf(fresh) =
          {[key |-> entries[i].key, value |-> entries[i].value] : i \in Passed(next)}

\* Reachability is what findEntry relies on, the counters are what keeps an empty
\* entry in every array.
IInv ==
    /\ TypeOK
    /\ CountsExact
    /\ ProbesEnd
    /\ capacity = 0 \/ capacity >= MIN_CAPACITY
    /\ Sound(entries, capacity)
    /\ pc = "store" => 4 * (count + 1) <= 3 * capacity
    /\ pc = "rehash" => RehashInv

\* The indices of an array are finitely many.
LEMMA FiniteIndices ==
    ASSUME NEW cap \in Nat, NEW es, DOMAIN es = 0 .. cap - 1
    PROVE  /\ IsFiniteSet(UsedIndices(es)) /\ Cardinality(UsedIndices(es)) \in Nat
           /\ IsFiniteSet(OccupiedIndices(es)) /\ Cardinality(OccupiedIndices(es)) \in Nat
           /\ Cardinality(OccupiedIndices(es)) <= Cardinality(UsedIndices(es))
<1>1. IsFiniteSet(0 .. cap - 1)
  BY FS_Interval
<1>2. UsedIndices(es) \subseteq 0 .. cap - 1
  BY DEF UsedIndices
<1>3. IsFiniteSet(UsedIndices(es))
  BY <1>1, <1>2, FS_Subset
<1>4. OccupiedIndices(es) \subseteq UsedIndices(es)
  BY DEF UsedIndices, OccupiedIndices, IsEmpty
<1>5. /\ IsFiniteSet(OccupiedIndices(es))
      /\ Cardinality(OccupiedIndices(es)) <= Cardinality(UsedIndices(es))
  BY <1>3, <1>4, FS_Subset
<1> QED
  BY <1>3, <1>5, FS_CardinalityType

\* The next capacity is larger.
LEMMA GrowCapacityGrows ==
    ASSUME NEW cap \in Nat, cap = 0 \/ cap >= MIN_CAPACITY
    PROVE  /\ GrowCapacity(cap) \in Nat
           /\ GrowCapacity(cap) >= MIN_CAPACITY
           /\ GrowCapacity(cap) > cap
           /\ \A n \in Nat : 4 * n <= 3 * cap => 4 * (n + 1) <= 3 * GrowCapacity(cap)
BY ConstantsAssumption DEF GrowCapacity

\* A call that probes the table returns.
LEMMA TableProbeStops ==
    ASSUME IInv, pc \in {"idle", "store"}, capacity > 0, NEW k \in Keys
    PROVE  Stops(entries, capacity, k) # {}
<1>1. capacity \in Nat /\ Array(entries, capacity)
  BY DEF IInv, TypeOK, Sound
<1>2. Cardinality(UsedIndices(entries)) < capacity
  BY <1>1 DEF IInv, TypeOK, CountsExact
<1> QED
  BY <1>1, <1>2, ProbeStops

\* So does a probe of the array being filled.
LEMMA FreshProbeStops ==
    ASSUME IInv, pc = "rehash", NEW k \in Keys
    PROVE  /\ GrowCapacity(capacity) \in Nat /\ GrowCapacity(capacity) > 0
           /\ IsFiniteSet(Passed(next))
           /\ 4 * count <= 3 * capacity
           /\ Stops(fresh, GrowCapacity(capacity), k) # {}
<1>1. capacity \in Nat /\ count \in Nat /\ DOMAIN entries = 0 .. capacity - 1
  BY DEF IInv, TypeOK
<1>2. RehashInv /\ (capacity = 0 \/ capacity >= MIN_CAPACITY)
      /\ count = Cardinality(UsedIndices(fresh))
  BY DEF IInv, CountsExact
<1>3. /\ IsFiniteSet(Passed(next))
      /\ Cardinality(Passed(next)) <= Cardinality(OccupiedIndices(entries))
  BY <1>1, FiniteIndices, FS_Subset DEF Passed
<1>4. 4 * count <= 3 * capacity
  BY <1>1, <1>2, <1>3, FiniteIndices DEF RehashInv
<1>5. /\ GrowCapacity(capacity) \in Nat /\ GrowCapacity(capacity) > capacity
  BY <1>1, <1>2, GrowCapacityGrows
<1>6. count < GrowCapacity(capacity)
  BY <1>1, <1>4, <1>5
<1>7. Stops(fresh, GrowCapacity(capacity), k) # {}
  BY <1>2, <1>5, <1>6, ProbeStops DEF RehashInv, Sound
<1> QED
  BY <1>1, <1>3, <1>4, <1>5, <1>7

\* initValueTable establishes the invariant.
LEMMA InitInv == Init => IInv
<1> SUFFICES ASSUME Init PROVE IInv
  OBVIOUS
<1>1. NoEntries \in [0 .. 0 - 1 -> Entry] /\ DOMAIN NoEntries = {}
  BY DEF NoEntries
<1>2. TypeOK
  <2>1. entries \in [0 .. capacity - 1 -> Entry]
    BY <1>1 DEF Init
  <2>2. reply \in [found : BOOLEAN, value : Values \cup {True}]
    BY ConstantsAssumption DEF Init, Answer
  <2>3. /\ capacity = 0 /\ count = 0 /\ liveCount = 0 /\ next = 0
        /\ pc = "idle" /\ fresh = NoEntries
    BY DEF Init
  <2> QED
    BY <2>1, <2>2, <2>3 DEF TypeOK
<1>3. UsedIndices(entries) = {} /\ OccupiedIndices(entries) = {}
  BY <1>1 DEF Init, UsedIndices, OccupiedIndices
<1>4. CountsExact
  BY <1>3, FS_EmptySet DEF Init, CountsExact
<1>5. Sound(entries, capacity)
  BY <1>1 DEF Init, Sound, Array, Reachable, NoTwoEqual
<1> QED
  BY <1>2, <1>4, <1>5 DEF Init, IInv, ProbesEnd

-----------------------------------------------------------------------------
(* One lemma per action.                                                   *)

Replies == [found : BOOLEAN, value : Values \cup {True}]

\* An answer has the type of reply.
LEMMA AnswerIsReply ==
    ASSUME NEW found \in BOOLEAN, NEW value \in Values \cup {True}
    PROVE  Answer(found, value) \in Replies
BY DEF Answer, Replies

\* Nil can be answered.
LEMMA NilIsValue == Nil \in Values \cup {True}
BY ConstantsAssumption

\* A step that only answers.
LEMMA OnlyAnswers ==
    ASSUME IInv, UNCHANGED <<table, rehash, pc>>, reply' \in Replies
    PROVE  IInv'
<1> USE DEF table, rehash
<1>1. TypeOK'
  BY DEF IInv, TypeOK, Replies
<1>2. CountsExact'
  BY DEF IInv, CountsExact
<1>3. Sound(entries, capacity)'
  BY DEF IInv
<1>4. pc' = "rehash" => RehashInv'
  BY DEF IInv, RehashInv, Passed
<1> QED
  BY <1>1, <1>2, <1>3, <1>4 DEF IInv, ProbesEnd

\* With an entry in the table, a lookup or a deletion stops.
LEMMA LookupStops ==
    ASSUME IInv, pc = "idle", count > 0, NEW k \in Keys
    PROVE  /\ capacity \in Nat /\ capacity > 0
           /\ Stops(entries, capacity, k) # {}
<1>1. capacity \in Nat /\ count \in Nat /\ 4 * count <= 3 * capacity
  BY DEF IInv, TypeOK, CountsExact
<1>2. capacity > 0
  BY <1>1
<1> QED
  BY <1>1, <1>2, TableProbeStops

\* valueTableGet keeps the invariant: its probe stops.
LEMMA GetKeeps ==
    ASSUME IInv, NEW k \in Keys, Get(k)
    PROVE  IInv'
<1> DEFINE e == IF count = 0 THEN Empty ELSE entries[FindEntry(entries, capacity, k)]
<1>1. pc = "idle" /\ count \in Nat
  BY DEF Get, IInv, TypeOK
<1>2. ~(count > 0 /\ Stops(entries, capacity, k) = {})
  BY <1>1, LookupStops
<1>3. /\ reply' = IF e.occupied THEN Answer(TRUE, e.value) ELSE Answer(FALSE, Nil)
      /\ UNCHANGED <<table, rehash, pc>>
  BY <1>2 DEF Get
<1>4. e.occupied => e.value \in Values \cup {True}
  <2>1. CASE count = 0
    BY <2>1 DEF Empty
  <2>2. CASE count # 0
    <3>1. count > 0
      BY <1>1, <2>2
    <3>2. /\ capacity \in Nat /\ capacity > 0 /\ Array(entries, capacity)
          /\ Stops(entries, capacity, k) # {}
      BY <1>1, <3>1, LookupStops DEF IInv, Sound
    <3>3. FindEntry(entries, capacity, k) \in 0 .. capacity - 1
      BY <3>2, FindEntryReturns
    <3> QED
      BY <2>2, <3>2, <3>3 DEF Array, Entry
  <2> QED
    BY <2>1, <2>2
<1> HIDE DEF e
<1>5. reply' \in Replies
  BY <1>3, <1>4, AnswerIsReply, NilIsValue
<1> QED
  BY <1>3, <1>5, OnlyAnswers

\* valueTableDelete keeps it: a tombstone still counts as used.
LEMMA DeleteKeeps ==
    ASSUME IInv, NEW k \in Keys, Delete(k)
    PROVE  IInv'
<1> DEFINE i == FindEntry(entries, capacity, k)
<1>1. pc = "idle" /\ count \in Nat /\ capacity \in Nat /\ liveCount \in Nat
  BY DEF Delete, IInv, TypeOK
<1>2. ~(count > 0 /\ Stops(entries, capacity, k) = {})
  BY <1>1, LookupStops
<1>3. /\ IF count > 0 /\ entries[i].occupied
         THEN /\ entries' = [entries EXCEPT ![i] = Tombstone]
              /\ liveCount' = liveCount - 1
              /\ reply' = Answer(TRUE, Nil)
         ELSE /\ reply' = Answer(FALSE, Nil)
              /\ UNCHANGED <<entries, liveCount>>
      /\ UNCHANGED <<capacity, count, rehash, pc>>
  BY <1>2 DEF Delete
<1>4. reply' \in Replies
  BY <1>3, AnswerIsReply, NilIsValue
<1>5. CASE ~(count > 0 /\ entries[i].occupied)
  <2>1. UNCHANGED <<table, rehash, pc>>
    BY <1>3, <1>5 DEF table
  <2> QED
    BY <1>4, <2>1, OnlyAnswers
<1>6. CASE count > 0 /\ entries[i].occupied
  <2>1. capacity > 0 /\ Stops(entries, capacity, k) # {} /\ Sound(entries, capacity)
    BY <1>1, <1>6, LookupStops DEF IInv
  <2>2. /\ i \in OccupiedIndices(entries)
        /\ Sound(entries', capacity')
        /\ UsedIndices(entries') = UsedIndices(entries)
        /\ OccupiedIndices(entries') = OccupiedIndices(entries) \ {i}
    BY <1>1, <1>3, <1>6, <2>1, DeleteSound
  <2> HIDE DEF i
  <2>3. /\ count = Cardinality(UsedIndices(entries))
        /\ liveCount = Cardinality(OccupiedIndices(entries))
        /\ 4 * count <= 3 * capacity
        /\ DOMAIN entries = 0 .. capacity - 1
    BY <1>1 DEF IInv, CountsExact, TypeOK
  <2>4. liveCount' = Cardinality(OccupiedIndices(entries'))
    <3>1. IsFiniteSet(OccupiedIndices(entries))
      BY <1>1, <2>3, FiniteIndices
    <3> QED
      BY <1>3, <1>6, <2>2, <2>3, <3>1, FS_RemoveElement
  <2>5. CountsExact'
    BY <1>1, <1>3, <2>2, <2>3, <2>4 DEF CountsExact, rehash
  <2>6. liveCount' \in Nat
    <3>1. Array(entries', capacity') /\ capacity' \in Nat
      BY <1>1, <1>3, <2>2 DEF Sound
    <3>2. DOMAIN entries' = 0 .. capacity' - 1
      BY <3>1 DEF Array
    <3> QED
      BY <2>4, <3>1, <3>2, FiniteIndices
  <2>7. TypeOK'
    <3>1. Array(entries', capacity')
      BY <2>2 DEF Sound
    <3> QED
      BY <1>1, <1>3, <1>4, <2>6, <3>1 DEF IInv, TypeOK, Array, Replies, rehash
  <2> QED
    BY <1>1, <1>3, <2>2, <2>5, <2>7 DEF IInv, ProbesEnd
<1> QED
  BY <1>5, <1>6

\* setClear keeps it: an array of no entries is sound.
LEMMA ClearKeeps ==
    ASSUME IInv, Clear
    PROVE  IInv'
<1>1. /\ pc = "idle" /\ pc' = "idle" /\ fresh' = NoEntries /\ next' = 0
      /\ entries' = NoEntries /\ capacity' = 0 /\ count' = 0 /\ liveCount' = 0
      /\ reply' = Answer(FALSE, Nil)
  BY DEF Clear, IInv, TypeOK, rehash
<1>2. NoEntries \in [0 .. 0 - 1 -> Entry] /\ DOMAIN NoEntries = {}
  BY DEF NoEntries
<1>3. reply' \in Replies
  BY <1>1, AnswerIsReply, NilIsValue
<1>4. TypeOK'
  <2>1. entries' \in [0 .. capacity' - 1 -> Entry]
    BY <1>1, <1>2
  <2>2. /\ capacity' = 0 /\ count' = 0 /\ liveCount' = 0 /\ next' = 0
        /\ pc' = "idle" /\ fresh' = NoEntries
    BY <1>1
  <2> QED
    BY <1>3, <2>1, <2>2 DEF TypeOK, Replies
<1>5. UsedIndices(entries') = {} /\ OccupiedIndices(entries') = {}
  BY <1>1, <1>2 DEF UsedIndices, OccupiedIndices
<1>6. CountsExact'
  BY <1>1, <1>5, FS_EmptySet DEF CountsExact
<1>7. Sound(entries', capacity')
  BY <1>1, <1>2 DEF Sound, Array, Reachable, NoTwoEqual
<1> QED
  BY <1>1, <1>4, <1>6, <1>7 DEF IInv, ProbesEnd

\* The test for room keeps it: either there is room, or the new array is empty.
LEMMA SetKeeps ==
    ASSUME IInv, NEW k \in Keys, NEW v \in Values, Set(k, v)
    PROVE  IInv'
<1>1. /\ pc = "idle" /\ next = 0 /\ capacity \in Nat /\ count \in Nat /\ liveCount \in Nat
      /\ DOMAIN entries = 0 .. capacity - 1
      /\ reply \in Replies /\ fresh = NoEntries
  BY DEF Set, IInv, TypeOK, Replies
<1>2. /\ UNCHANGED <<entries, capacity, next, reply>>
      /\ pending' \in [key : Keys, value : Values]
  BY DEF Set
<1>3. /\ count = Cardinality(UsedIndices(entries))
      /\ liveCount = Cardinality(OccupiedIndices(entries))
      /\ 4 * count <= 3 * capacity
      /\ Sound(entries, capacity)
      /\ capacity = 0 \/ capacity >= MIN_CAPACITY
  BY <1>1 DEF IInv, CountsExact
<1>4. CASE ~NeedsRoom
  <2>1. pc' = "store" /\ UNCHANGED <<fresh, count, liveCount>>
    BY <1>4 DEF Set
  <2>2. 4 * (count + 1) <= 3 * capacity
    BY <1>1, <1>4 DEF NeedsRoom
  <2>3. TypeOK'
    BY <1>1, <1>2, <2>1 DEF IInv, TypeOK
  <2>4. CountsExact'
    BY <1>2, <1>3, <2>1 DEF CountsExact
  <2> QED
    BY <1>2, <1>3, <2>1, <2>2, <2>3, <2>4 DEF IInv, ProbesEnd
<1>5. CASE NeedsRoom
  <2> DEFINE cap == GrowCapacity(capacity)
  <2>1. pc' = "rehash" /\ fresh' = AllEmpty(cap) /\ count' = 0 /\ liveCount' = 0
    BY <1>5 DEF Set
  <2>2. cap \in Nat /\ GrowCapacity(capacity)' = cap
    BY <1>1, <1>2, <1>3, GrowCapacityGrows DEF GrowCapacity
  <2> HIDE DEF cap
  <2>3. /\ Empty \in Entry /\ IsEmpty(Empty) /\ ~Empty.occupied
    BY ConstantsAssumption DEF Empty, Entry, IsEmpty
  <2>4. /\ fresh' \in [0 .. cap - 1 -> Entry]
        /\ \A i \in 0 .. cap - 1 : fresh'[i] = Empty
    BY <2>1, <2>3 DEF AllEmpty
  <2>5. DOMAIN fresh' = 0 .. cap - 1
    BY <2>4
  <2>6. UsedIndices(fresh') = {} /\ OccupiedIndices(fresh') = {}
    BY <2>3, <2>4, <2>5 DEF UsedIndices, OccupiedIndices
  <2>7. TypeOK'
    BY <1>1, <1>2, <2>1, <2>2, <2>3, <2>4, <2>5 DEF IInv, TypeOK, Replies
  <2>8. CountsExact'
    BY <2>1, <2>6, FS_EmptySet DEF CountsExact
  <2>9. Sound(fresh', cap)
    BY <2>3, <2>4 DEF Sound, Array, Reachable, NoTwoEqual
  <2>10. Passed(next)' = {}
    BY <1>1, <1>2 DEF Passed, OccupiedIndices
  <2>11. EntriesOf(fresh') = {}
    BY <2>6 DEF EntriesOf
  <2>12. RehashInv'
    <3>1. Sound(fresh', GrowCapacity(capacity)')
      BY <2>2, <2>9
    <3>2. 4 * Cardinality(UsedIndices(entries')) <= 3 * capacity'
      BY <1>2, <1>3
    <3>3. count' = Cardinality(Passed(next)')
      BY <2>1, <2>10, FS_EmptySet
    <3>4. EntriesOf(fresh') = {[key |-> entries'[i].key, value |-> entries'[i].value] :
                                 i \in Passed(next)'}
      BY <2>10, <2>11
    <3> QED
      BY <2>6, <3>1, <3>2, <3>3, <3>4 DEF RehashInv
  <2> QED
    BY <1>2, <1>3, <2>1, <2>7, <2>8, <2>12 DEF IInv, ProbesEnd
<1> QED
  BY <1>4, <1>5

\* A round of adjustCapacity keeps it: the entry moved was not there before.
LEMMA RehashKeeps ==
    ASSUME IInv, Rehash
    PROVE  IInv'
<1> DEFINE e   == entries[next]
           cap == GrowCapacity(capacity)
           i   == FindEntry(fresh, cap, e.key)
<1>1. /\ pc = "rehash" /\ next < capacity /\ next \in Nat /\ capacity \in Nat
      /\ count \in Nat /\ liveCount \in Nat
      /\ Array(entries, capacity) /\ DOMAIN entries = 0 .. capacity - 1
      /\ next \in 0 .. capacity - 1
      /\ reply \in Replies /\ pending \in [key : Keys, value : Values]
  BY DEF Rehash, IInv, TypeOK, Array, Replies
<1>2. /\ RehashInv
      /\ count = Cardinality(UsedIndices(fresh))
      /\ liveCount = Cardinality(OccupiedIndices(fresh))
      /\ Sound(entries, capacity)
      /\ capacity = 0 \/ capacity >= MIN_CAPACITY
      /\ fresh \in [0 .. cap - 1 -> Entry]
      /\ \A j \in DOMAIN fresh : fresh[j].occupied => fresh[j].key \in Keys
  BY <1>1 DEF IInv, CountsExact, TypeOK
<1>3. CASE ~Moves(e)
  <2>1. next' = next + 1 /\ UNCHANGED <<table, fresh, pending, pc, reply>>
    BY <1>3 DEF Rehash
  <2>2. UNCHANGED <<entries, capacity, count, liveCount>> /\ GrowCapacity(capacity)' = cap
    BY <2>1 DEF table, GrowCapacity
  <2>3. Passed(next)' = Passed(next)
    <3>1. next \notin OccupiedIndices(entries)
      BY <1>3 DEF Moves, OccupiedIndices
    <3>2. \A j \in OccupiedIndices(entries) : j < next + 1 <=> j < next
      BY <1>1, <3>1 DEF OccupiedIndices
    <3> QED
      BY <2>1, <2>2, <3>2 DEF Passed
  <2>4. RehashInv'
    BY <1>2, <2>1, <2>2, <2>3 DEF RehashInv
  <2>5. TypeOK'
    <3>1. next' \in 0 .. capacity'
      BY <1>1, <2>1, <2>2
    <3> QED
      BY <1>1, <1>2, <2>1, <2>2, <3>1 DEF IInv, TypeOK
  <2>6. CountsExact'
    BY <1>1, <1>2, <2>1, <2>2 DEF CountsExact
  <2> QED
    BY <1>1, <1>2, <2>1, <2>2, <2>4, <2>5, <2>6 DEF IInv, ProbesEnd
<1>4. CASE Moves(e)
  <2>1. e.occupied /\ e.key \in Keys /\ e.value \in Values \cup {True}
    BY <1>1, <1>4 DEF Moves, Array, Entry
  <2>2. /\ cap \in Nat /\ cap > 0 /\ Stops(fresh, cap, e.key) # {}
        /\ IsFiniteSet(Passed(next))
    BY <1>1, <2>1, FreshProbeStops
  <2>3. /\ fresh' = [fresh EXCEPT ![i] = Occupied(e.key, e.value)]
        /\ count' = count + 1
        /\ liveCount' = liveCount + 1
        /\ next' = next + 1
        /\ UNCHANGED <<entries, capacity, pending, pc, reply>>
    BY <1>4, <2>2 DEF Rehash
  <2>4. Sound(fresh, cap) /\ Array(fresh, cap)
    BY <1>2 DEF RehashInv, Sound
  <2>5. /\ i \in 0 .. cap - 1
        /\ Sound(fresh', cap)
        /\ UsedIndices(fresh') = UsedIndices(fresh) \cup {i}
        /\ OccupiedIndices(fresh') = OccupiedIndices(fresh) \cup {i}
        /\ EntriesOf(fresh') = Others(fresh, e.key)
                                 \cup {[key |-> e.key, value |-> e.value]}
    <3> DEFINE new == Stored(fresh, cap, e.key, e.value)
    <3> HIDE DEF e, cap
    <3>1. /\ i \in 0 .. cap - 1
          /\ Sound(new, cap)
          /\ UsedIndices(new) = UsedIndices(fresh) \cup {i}
          /\ OccupiedIndices(new) = OccupiedIndices(fresh) \cup {i}
          /\ EntriesOf(new) = Others(fresh, e.key)
                                \cup {[key |-> e.key, value |-> e.value]}
      BY <2>1, <2>2, <2>4, StoreSound
    <3>2. fresh' = new
      BY <2>3 DEF Stored
    <3> HIDE DEF new, i
    <3> QED
      BY <3>1, <3>2
  <2>6. \A x \in EntriesOf(fresh) : ~Equal(x.key, e.key)
    <3> TAKE x \in EntriesOf(fresh)
    <3>1. PICK j \in Passed(next) :
              x = [key |-> entries[j].key, value |-> entries[j].value]
      BY <1>2 DEF RehashInv
    <3>2. j \in 0 .. capacity - 1 /\ entries[j].occupied /\ j # next
      BY <1>1 DEF Passed, OccupiedIndices
    <3>3. ~Equal(entries[j].key, e.key)
      BY <1>1, <1>2, <2>1, <3>2 DEF Sound, NoTwoEqual
    <3> QED
      BY <3>1, <3>3
  <2>7. i \notin OccupiedIndices(fresh)
    <3> SUFFICES ASSUME i \in OccupiedIndices(fresh) PROVE FALSE
      OBVIOUS
    <3>1. Equal(fresh[i].key, e.key)
      BY <2>1, <2>2, <2>4, FindEntryReturns DEF OccupiedIndices
    <3>2. [key |-> fresh[i].key, value |-> fresh[i].value] \in EntriesOf(fresh)
      BY DEF EntriesOf
    <3> QED
      BY <2>6, <3>1, <3>2
  <2> HIDE DEF i
  <2>8. DOMAIN fresh = 0 .. cap - 1
    BY <1>2
  <2>9. /\ count' = Cardinality(UsedIndices(fresh'))
        /\ liveCount' = Cardinality(OccupiedIndices(fresh'))
    <3>1. UsedIndices(fresh) = OccupiedIndices(fresh)
      BY <1>2 DEF RehashInv
    <3>2. IsFiniteSet(OccupiedIndices(fresh))
      BY <2>2, <2>8, FiniteIndices
    <3>3. Cardinality(OccupiedIndices(fresh) \cup {i})
             = Cardinality(OccupiedIndices(fresh)) + 1
      BY <2>7, <3>2, FS_AddElement
    <3> QED
      BY <1>2, <2>3, <2>5, <3>1, <3>3
  <2>10. Passed(next)' = Passed(next) \cup {next} /\ next \notin Passed(next)
    <3>1. next \in OccupiedIndices(entries)
      BY <1>1, <2>1 DEF OccupiedIndices
    <3>2. \A j \in OccupiedIndices(entries) : j < next + 1 <=> j < next \/ j = next
      BY <1>1 DEF OccupiedIndices
    <3>3. ~(next < next)
      BY <1>1
    <3> QED
      BY <2>3, <3>1, <3>2, <3>3 DEF Passed
  <2>11. count' = Cardinality(Passed(next)')
    BY <1>2, <2>2, <2>3, <2>10, FS_AddElement DEF RehashInv
  <2>12. GrowCapacity(capacity)' = cap
    BY <2>3 DEF GrowCapacity
  <2>13. EntriesOf(fresh') = {[key |-> entries'[j].key, value |-> entries'[j].value] :
                                 j \in Passed(next)'}
    <3>1. EntriesOf(fresh') = EntriesOf(fresh) \cup {[key |-> e.key, value |-> e.value]}
      BY <2>5, <2>6 DEF Others
    <3>2. EntriesOf(fresh) =
             {[key |-> entries[j].key, value |-> entries[j].value] : j \in Passed(next)}
      BY <1>2 DEF RehashInv
    <3>3. entries' = entries
      BY <2>3
    <3> QED
      BY <2>10, <3>1, <3>2, <3>3
  <2>14. RehashInv'
    <3>1. Sound(fresh', GrowCapacity(capacity)')
      BY <2>5, <2>12
    <3>2. UsedIndices(fresh') = OccupiedIndices(fresh')
      BY <1>2, <2>5 DEF RehashInv
    <3>3. 4 * Cardinality(UsedIndices(entries')) <= 3 * capacity'
      BY <1>2, <2>3 DEF RehashInv
    <3> QED
      BY <2>11, <2>13, <3>1, <3>2, <3>3 DEF RehashInv
  <2>15. TypeOK'
    <3>1. next' \in 0 .. capacity' /\ count' \in Nat /\ liveCount' \in Nat
      BY <1>1, <2>3
    <3>2. Array(fresh', GrowCapacity(capacity)')
      BY <2>5, <2>12 DEF Sound
    <3>3. DOMAIN fresh' = 0 .. GrowCapacity(capacity)' - 1
      BY <3>2 DEF Array
    <3> QED
      BY <1>1, <2>3, <3>1, <3>2, <3>3 DEF IInv, TypeOK, Array
  <2>16. CountsExact'
    BY <1>1, <2>3, <2>9 DEF CountsExact
  <2>17. Sound(entries, capacity)' /\ (capacity' = 0 \/ capacity' >= MIN_CAPACITY)
    BY <1>2, <2>3
  <2> QED
    BY <1>1, <2>3, <2>14, <2>15, <2>16, <2>17 DEF IInv, ProbesEnd
<1> QED
  BY <1>3, <1>4

\* When the loop is over the new array holds what the old one held.
LEMMA AllMoved ==
    ASSUME IInv, pc = "rehash", next = capacity
    PROVE  EntriesOf(fresh) = EntriesOf(entries)
<1>1. capacity \in Nat /\ DOMAIN entries = 0 .. capacity - 1
  BY DEF IInv, TypeOK
<1>2. Passed(next) = OccupiedIndices(entries)
  BY <1>1 DEF Passed, OccupiedIndices
<1> QED
  BY <1>2 DEF IInv, RehashInv, EntriesOf

\* The end of adjustCapacity keeps it: the new array has room for one more.
LEMMA ReplaceKeeps ==
    ASSUME IInv, Replace
    PROVE  IInv'
<1> DEFINE cap == GrowCapacity(capacity)
<1>1. /\ pc = "rehash" /\ next = capacity /\ pc' = "store" /\ next' = 0
      /\ entries' = fresh /\ capacity' = cap /\ fresh' = NoEntries
      /\ UNCHANGED <<count, liveCount, pending, reply>>
  BY DEF Replace
<1>2. /\ capacity \in Nat /\ count \in Nat /\ liveCount \in Nat
      /\ reply \in Replies /\ pending \in [key : Keys, value : Values]
      /\ capacity = 0 \/ capacity >= MIN_CAPACITY
  BY <1>1 DEF IInv, TypeOK, Replies
<1>3. /\ cap \in Nat /\ cap >= MIN_CAPACITY
      /\ \A n \in Nat : 4 * n <= 3 * capacity => 4 * (n + 1) <= 3 * cap
  BY <1>2, GrowCapacityGrows
<1>4. Sound(fresh, cap)
  BY <1>1 DEF IInv, RehashInv
<1>5. /\ count = Cardinality(UsedIndices(fresh))
      /\ liveCount = Cardinality(OccupiedIndices(fresh))
  BY <1>1 DEF IInv, CountsExact
<1>6. 4 * count <= 3 * capacity
  <2>1. DOMAIN entries = 0 .. capacity - 1
    BY DEF IInv, TypeOK
  <2>2. Cardinality(Passed(next)) <= Cardinality(OccupiedIndices(entries))
    BY <1>2, <2>1, FiniteIndices, FS_Subset DEF Passed
  <2>3. /\ Cardinality(OccupiedIndices(entries)) <= Cardinality(UsedIndices(entries))
        /\ Cardinality(OccupiedIndices(entries)) \in Nat
        /\ Cardinality(UsedIndices(entries)) \in Nat
    BY <1>2, <2>1, FiniteIndices
  <2>4. /\ 4 * Cardinality(UsedIndices(entries)) <= 3 * capacity
        /\ count = Cardinality(Passed(next))
    BY <1>1 DEF IInv, RehashInv
  <2> QED
    BY <1>2, <2>2, <2>3, <2>4
<1> HIDE DEF cap
<1>7. 4 * (count + 1) <= 3 * cap
  BY <1>2, <1>3, <1>6
<1>8. TypeOK'
  <2>1. Array(entries', capacity')
    BY <1>1, <1>4 DEF Sound
  <2>2. next' \in 0 .. capacity' /\ capacity' \in Nat
    BY <1>1, <1>3
  <2> QED
    BY <1>1, <1>2, <2>1, <2>2 DEF TypeOK, Array, Replies
<1>9. CountsExact'
  <2>1. 4 * count <= 3 * cap
    BY <1>2, <1>3, <1>7
  <2> QED
    BY <1>1, <1>5, <2>1 DEF CountsExact
<1> QED
  BY <1>1, <1>3, <1>4, <1>7, <1>8, <1>9 DEF IInv, ProbesEnd

\* The end of valueTableSet keeps it: count grows only with the used entries.
LEMMA StoreKeeps ==
    ASSUME IInv, Store
    PROVE  IInv'
<1> DEFINE k == pending.key
           v == pending.value
           i == FindEntry(entries, capacity, k)
           e == entries[i]
<1>1. /\ pc = "store" /\ capacity \in Nat /\ count \in Nat /\ liveCount \in Nat
      /\ 4 * (count + 1) <= 3 * capacity
      /\ next = 0 /\ fresh = NoEntries
      /\ k \in Keys /\ v \in Values /\ v \in Values \cup {True}
      /\ DOMAIN entries = 0 .. capacity - 1
  BY DEF Store, IInv, TypeOK
<1>2. /\ count = Cardinality(UsedIndices(entries))
      /\ liveCount = Cardinality(OccupiedIndices(entries))
      /\ Sound(entries, capacity)
      /\ capacity = 0 \/ capacity >= MIN_CAPACITY
  BY <1>1 DEF IInv, CountsExact
<1>3. capacity > 0
  BY <1>1
<1>4. Stops(entries, capacity, k) # {}
  BY <1>1, <1>3, TableProbeStops
<1>5. /\ entries' = [entries EXCEPT ![i] = Occupied(k, v)]
      /\ count' = IF TakesRoom(e) THEN count + 1 ELSE count
      /\ liveCount' = IF IsNewKey(e) THEN liveCount + 1 ELSE liveCount
      /\ reply' = Answer(~IsNewKey(e), Nil)
      /\ pc' = "idle"
      /\ UNCHANGED <<capacity, fresh, next>>
  BY <1>4 DEF Store
<1>6. reply' \in Replies
  <2>1. ASSUME NEW b PROVE (~b) \in BOOLEAN
    OBVIOUS
  <2>2. (~IsNewKey(e)) \in BOOLEAN
    BY <2>1
  <2> QED
    BY <1>5, <2>2, AnswerIsReply, NilIsValue
<1> HIDE DEF k, v
<1>7. /\ i \in 0 .. capacity - 1
      /\ Sound(entries', capacity')
      /\ UsedIndices(entries') = UsedIndices(entries) \cup {i}
      /\ OccupiedIndices(entries') = OccupiedIndices(entries) \cup {i}
  <2> DEFINE new == Stored(entries, capacity, k, v)
  <2>1. /\ i \in 0 .. capacity - 1
        /\ Sound(new, capacity)
        /\ UsedIndices(new) = UsedIndices(entries) \cup {i}
        /\ OccupiedIndices(new) = OccupiedIndices(entries) \cup {i}
    BY <1>1, <1>2, <1>3, <1>4, StoreSound
  <2>2. entries' = new /\ capacity' = capacity
    BY <1>5 DEF Stored
  <2> HIDE DEF new, i
  <2> QED
    BY <2>1, <2>2
<1> HIDE DEF i
<1>8. /\ IsFiniteSet(UsedIndices(entries))
      /\ IsFiniteSet(OccupiedIndices(entries))
  BY <1>1, FiniteIndices
<1>9. count' = Cardinality(UsedIndices(entries'))
  <2>1. i \in UsedIndices(entries) <=> ~TakesRoom(e)
    BY <1>1, <1>7 DEF UsedIndices, TakesRoom, IsEmpty
  <2> QED
    BY <1>2, <1>5, <1>7, <1>8, <2>1, FS_AddElement
<1>10. liveCount' = Cardinality(OccupiedIndices(entries'))
  <2>1. i \in OccupiedIndices(entries) <=> ~IsNewKey(e)
    BY <1>1, <1>7 DEF OccupiedIndices, IsNewKey
  <2> QED
    BY <1>2, <1>5, <1>7, <1>8, <2>1, FS_AddElement
<1>11. count' \in Nat /\ liveCount' \in Nat /\ 4 * count' <= 3 * capacity'
  BY <1>1, <1>5
<1>12. TypeOK'
  <2>1. Array(entries', capacity')
    BY <1>7 DEF Sound
  <2> QED
    BY <1>1, <1>5, <1>6, <1>11, <2>1 DEF TypeOK, Array, Replies
<1>13. CountsExact'
  BY <1>5, <1>9, <1>10, <1>11 DEF CountsExact
<1>14. capacity' = 0 \/ capacity' >= MIN_CAPACITY
  BY <1>2, <1>5
<1> QED
  BY <1>5, <1>7, <1>12, <1>13, <1>14 DEF IInv, ProbesEnd

\* Every step keeps it.
LEMMA StepKeeps ==
    ASSUME IInv, [Next]_vars
    PROVE  IInv'
<1>1. CASE UNCHANGED vars
  <2>1. UNCHANGED <<table, rehash, pc>> /\ reply' \in Replies
    BY <1>1 DEF vars, table, rehash, IInv, TypeOK, Replies
  <2> QED
    BY <2>1, OnlyAnswers
<1>2. CASE Next
  BY <1>2, GetKeeps, DeleteKeeps, SetKeeps, ClearKeeps, RehashKeeps, ReplaceKeeps,
     StoreKeeps DEF Next
<1> QED
  BY <1>1, <1>2

\* The inductive invariant holds in every state of every program.
THEOREM InvariantHolds == Spec => []IInv
<1>1. Init => IInv
  BY InitInv
<1>2. IInv /\ [Next]_vars => IInv'
  BY StepKeeps
<1> QED
  BY <1>1, <1>2, PTL DEF Spec

-----------------------------------------------------------------------------
(* What follows from it.                                                   *)

\* A sound array with distinct keys hides no entry from findEntry.
LEMMA SoundFindable ==
    ASSUME NEW cap \in Nat, NEW es, Sound(es, cap),
           NEW i \in OccupiedIndices(es), es[i].key \notin NaNs
    PROVE  FindEntry(es, cap, es[i].key) = i
<1> DEFINE k == es[i].key
           j == FindEntry(es, cap, k)
<1>1. Array(es, cap) /\ Reachable(es, cap) /\ NoTwoEqual(es, cap)
  BY DEF Sound
<1>2. i \in 0 .. cap - 1 /\ es[i].occupied /\ k \in Keys
  BY <1>1 DEF Array, OccupiedIndices
<1>3. cap > 0
  BY <1>2
<1>4. Equal(es[i].key, k)
  BY DEF Equal
<1>5. PICK d \in 0 .. cap - 1 : Probe(cap, k, d) = i
  BY <1>2, <1>3, ProbeBijective
<1>6. Stops(es, cap, k) # {}
  BY <1>2, <1>4, <1>5 DEF Stops
<1>7. es[j].occupied
  BY <1>2, <1>3, <1>4, <1>6, NotFound
<1>8. j \in 0 .. cap - 1 /\ Equal(es[j].key, k)
  BY <1>1, <1>2, <1>3, <1>6, <1>7, FindEntryReturns
<1> QED
  BY <1>1, <1>2, <1>7, <1>8 DEF NoTwoEqual

\* The shapes of the table, for every set of keys and every bound.
THEOREM TableTypes == Spec => []TypeOK
<1>1. IInv => TypeOK
  BY DEF IInv
<1> QED
  BY <1>1, InvariantHolds, PTL

\* findEntry always returns: at every call the array has an empty entry.
THEOREM EveryProbeEnds == Spec => []ProbesEnd
<1>1. IInv => ProbesEnd
  BY DEF IInv
<1> QED
  BY <1>1, InvariantHolds, PTL

\* count and liveCount are exact and the load limit holds.
THEOREM CountersExact == Spec => []CountsExact
<1>1. IInv => CountsExact
  BY DEF IInv
<1> QED
  BY <1>1, InvariantHolds, PTL

\* No history of insertions, deletions and rehashes hides an entry.
THEOREM NoEntryHidden == Spec => []Findable
<1>1. IInv => Findable
  <2> SUFFICES ASSUME IInv, NEW i \in OccupiedIndices(entries), entries[i].key \notin NaNs
               PROVE  FindEntry(entries, capacity, entries[i].key) = i
    BY DEF Findable
  <2>1. capacity \in Nat /\ Sound(entries, capacity)
    BY DEF IInv, TypeOK
  <2> QED
    BY <2>1, SoundFindable
<1> QED
  BY <1>1, InvariantHolds, PTL

-----------------------------------------------------------------------------
(* The table implements the dictionary.                                    *)

\* The entry findEntry returns is all there is under its key.
LEMMA Lookup ==
    ASSUME NEW cap \in Nat, cap > 0, NEW es, Sound(es, cap), NEW k \in Keys,
           Stops(es, cap, k) # {}
    PROVE  LET e        == es[FindEntry(es, cap, k)]
               matching == {x \in EntriesOf(es) : Equal(x.key, k)}
           IN  matching = IF e.occupied THEN {[key |-> e.key, value |-> e.value]} ELSE {}
<1> DEFINE i == FindEntry(es, cap, k)
           matching == {x \in EntriesOf(es) : Equal(x.key, k)}
<1>1. Array(es, cap) /\ NoTwoEqual(es, cap) /\ DOMAIN es = 0 .. cap - 1
  BY DEF Sound, Array
<1>2. i \in 0 .. cap - 1 /\ (es[i].occupied => Equal(es[i].key, k))
  BY <1>1, FindEntryReturns
<1>3. \A x \in matching : \E j \in 0 .. cap - 1 :
          /\ es[j].occupied /\ Equal(es[j].key, k)
          /\ x = [key |-> es[j].key, value |-> es[j].value]
  BY <1>1 DEF EntriesOf, OccupiedIndices
<1>4. CASE ~es[i].occupied
  <2>1. matching = {}
    BY <1>3, <1>4, NotFound
  <2> QED
    BY <1>4, <2>1
<1>5. CASE es[i].occupied
  <2> HIDE DEF i
  <2>1. [key |-> es[i].key, value |-> es[i].value] \in matching
    BY <1>1, <1>2, <1>5 DEF EntriesOf, OccupiedIndices
  <2>2. ASSUME NEW x \in matching PROVE x = [key |-> es[i].key, value |-> es[i].value]
    <3>1. PICK j \in 0 .. cap - 1 :
              /\ es[j].occupied /\ Equal(es[j].key, k)
              /\ x = [key |-> es[j].key, value |-> es[j].value]
      BY <1>3
    <3>2. j = i
      BY <1>1, <1>2, <1>5, <3>1 DEF NoTwoEqual, Equal
    <3> QED
      BY <3>1, <3>2
  <2>3. matching = {[key |-> es[i].key, value |-> es[i].value]}
    <3> HIDE DEF matching
    <3> QED
      BY <2>1, <2>2
  <2> QED
    BY <1>5, <2>3 DEF i
<1> QED
  BY <1>4, <1>5

\* An empty table has no entries.
LEMMA NothingThere ==
    ASSUME IInv, pc = "idle", ~(count > 0)
    PROVE  Contents = {}
<1>1. count = 0 /\ count = Cardinality(UsedIndices(entries)) /\ capacity \in Nat
  BY DEF IInv, TypeOK, CountsExact
<1>2. IsFiniteSet(UsedIndices(entries)) /\ OccupiedIndices(entries) \subseteq UsedIndices(entries)
  <2>1. DOMAIN entries = 0 .. capacity - 1
    BY DEF IInv, TypeOK
  <2> QED
    BY <1>1, <2>1, FiniteIndices DEF UsedIndices, OccupiedIndices, IsEmpty
<1>3. UsedIndices(entries) = {}
  BY <1>1, <1>2, FS_EmptySet
<1> QED
  BY <1>2, <1>3 DEF Contents, EntriesOf

\* What the dictionary holds under a key, in terms of the array.
LEMMA MatchingIs ==
    ASSUME IInv, pc = "idle", NEW k \in Keys
    PROVE  LET e == entries[FindEntry(entries, capacity, k)]
           IN  Dict!Matching(k) = IF count > 0 /\ e.occupied
                                  THEN {[key |-> e.key, value |-> e.value]}
                                  ELSE {}
<1>1. CASE count > 0
  <2>1. /\ capacity \in Nat /\ capacity > 0 /\ Sound(entries, capacity)
        /\ Stops(entries, capacity, k) # {}
    BY <1>1, LookupStops DEF IInv
  <2> QED
    BY <1>1, <2>1, Lookup DEF Dict!Matching, Contents
<1>2. CASE ~(count > 0)
  BY <1>2, NothingThere DEF Dict!Matching
<1> QED
  BY <1>1, <1>2

\* valueTableGet answers as Dict!Get.
LEMMA GetMaps ==
    ASSUME IInv, NEW k \in Keys, Get(k)
    PROVE  Dict!Get(k)
<1> DEFINE e == entries[FindEntry(entries, capacity, k)]
<1>1. pc = "idle" /\ count \in Nat
  BY DEF Get, IInv, TypeOK
<1>2. ~(count > 0 /\ Stops(entries, capacity, k) = {})
  BY <1>1, LookupStops
<1>3. entries' = entries
  BY <1>2 DEF Get, table
<1>4. reply' = IF count > 0 /\ e.occupied THEN Answer(TRUE, e.value) ELSE Answer(FALSE, Nil)
  <2>1. CASE count = 0
    BY <1>1, <1>2, <2>1 DEF Get, Empty
  <2>2. CASE count # 0
    <3>1. count > 0
      BY <1>1, <2>2
    <3>2. reply' = IF e.occupied THEN Answer(TRUE, e.value) ELSE Answer(FALSE, Nil)
      BY <1>2, <2>2 DEF Get
    <3> QED
      BY <3>1, <3>2
  <2> QED
    BY <2>1, <2>2
<1>5. Dict!Matching(k) = IF count > 0 /\ e.occupied
                         THEN {[key |-> e.key, value |-> e.value]} ELSE {}
  BY <1>1, MatchingIs
<1>6. UNCHANGED Contents
  BY <1>3 DEF Contents
<1> HIDE DEF e
<1>7. CASE count > 0 /\ e.occupied
  <2> DEFINE entry == [key |-> e.key, value |-> e.value]
  <2>1. Dict!Matching(k) = {entry} /\ reply' = Answer(TRUE, e.value)
    BY <1>4, <1>5, <1>7
  <2>2. entry.value = e.value
    OBVIOUS
  <2> HIDE DEF entry
  <2>3. (CHOOSE x \in Dict!Matching(k) : TRUE) = entry /\ Dict!Matching(k) # {}
    BY <2>1
  <2> QED
    BY <1>6, <2>1, <2>2, <2>3 DEF Dict!Get, Dict!Answer, Answer
<1>8. CASE ~(count > 0 /\ e.occupied)
  BY <1>4, <1>5, <1>6, <1>8 DEF Dict!Get, Dict!Answer, Answer
<1> QED
  BY <1>7, <1>8

\* valueTableDelete removes as Dict!Remove.
LEMMA DeleteMaps ==
    ASSUME IInv, NEW k \in Keys, Delete(k)
    PROVE  Dict!Remove(k)
<1> DEFINE i == FindEntry(entries, capacity, k)
           e == entries[i]
<1>1. pc = "idle" /\ count \in Nat
  BY DEF Delete, IInv, TypeOK
<1>2. ~(count > 0 /\ Stops(entries, capacity, k) = {})
  BY <1>1, LookupStops
<1>3. IF count > 0 /\ e.occupied
      THEN entries' = [entries EXCEPT ![i] = Tombstone] /\ reply' = Answer(TRUE, Nil)
      ELSE reply' = Answer(FALSE, Nil) /\ UNCHANGED entries
  BY <1>2 DEF Delete
<1>4. Dict!Matching(k) = IF count > 0 /\ e.occupied
                         THEN {[key |-> e.key, value |-> e.value]} ELSE {}
  BY <1>1, MatchingIs
<1>5. CASE count > 0 /\ e.occupied
  <2>1. /\ capacity \in Nat /\ capacity > 0 /\ Sound(entries, capacity)
        /\ Stops(entries, capacity, k) # {}
    BY <1>1, <1>5, LookupStops DEF IInv
  <2>2. Contents' = Others(entries, k)
    BY <1>3, <1>5, <2>1, DeleteSound DEF Contents
  <2>3. Contents' = Contents \ Dict!Matching(k)
    BY <2>2 DEF Others, Contents, Dict!Matching
  <2>4. reply' = Answer(TRUE, Nil) /\ Dict!Matching(k) # {}
    BY <1>3, <1>4, <1>5
  <2> QED
    BY <2>3, <2>4 DEF Dict!Remove, Dict!Answer, Answer
<1>6. CASE ~(count > 0 /\ e.occupied)
  <2>1. reply' = Answer(FALSE, Nil) /\ Contents' = Contents /\ Dict!Matching(k) = {}
    BY <1>3, <1>4, <1>6 DEF Contents
  <2> QED
    BY <2>1 DEF Dict!Remove, Dict!Answer, Answer
<1> QED
  BY <1>5, <1>6

\* setClear empties as Dict!Clear.
LEMMA ClearMaps == Clear => Dict!Clear
BY DEF Clear, Dict!Clear, Dict!Answer, Answer, Contents, EntriesOf, OccupiedIndices,
       NoEntries

\* The end of valueTableSet is Dict!Put.
LEMMA StoreMaps ==
    ASSUME IInv, Store
    PROVE  \E k \in Keys : \E v \in Values : Dict!Put(k, v)
<1> DEFINE k == pending.key
           v == pending.value
           i == FindEntry(entries, capacity, k)
           e == entries[i]
<1>1. /\ pc = "store" /\ capacity \in Nat /\ count \in Nat
      /\ 4 * (count + 1) <= 3 * capacity
      /\ k \in Keys /\ v \in Values /\ v \in Values \cup {True}
      /\ Sound(entries, capacity)
  BY DEF Store, IInv, TypeOK
<1>2. capacity > 0
  BY <1>1
<1>3. Stops(entries, capacity, k) # {}
  BY <1>1, <1>2, TableProbeStops
<1>4. /\ entries' = Stored(entries, capacity, k, v)
      /\ reply' = Answer(~IsNewKey(e), Nil)
  BY <1>3 DEF Store, Stored
<1>5. Dict!Matching(k) = IF e.occupied THEN {[key |-> e.key, value |-> e.value]} ELSE {}
  BY <1>1, <1>2, <1>3, Lookup DEF Dict!Matching, Contents
<1> HIDE DEF k, v
<1>6. Contents' = Others(entries, k) \cup {[key |-> k, value |-> v]}
  BY <1>1, <1>2, <1>3, <1>4, StoreSound DEF Contents
<1>7. Contents' = (Contents \ Dict!Matching(k)) \cup {[key |-> k, value |-> v]}
  BY <1>6 DEF Others, Contents, Dict!Matching
<1> HIDE DEF e
<1>8. reply' = Answer(Dict!Matching(k) # {}, Nil)
  <2>1. CASE e.occupied
    <3>1. (~IsNewKey(e)) = TRUE /\ (Dict!Matching(k) # {}) = TRUE
      BY <1>5, <2>1 DEF IsNewKey
    <3> QED
      BY <1>4, <3>1
  <2>2. CASE ~e.occupied
    <3>1. (~IsNewKey(e)) = FALSE /\ (Dict!Matching(k) # {}) = FALSE
      BY <1>5, <2>2 DEF IsNewKey
    <3> QED
      BY <1>4, <3>1
  <2> QED
    BY <2>1, <2>2
<1>9. Dict!Put(k, v)
  BY <1>7, <1>8 DEF Dict!Put, Dict!Answer, Answer
<1> QED
  BY <1>1, <1>9

\* Steps of valueTableSet before it stores do not show.
LEMMA RehashingHidden ==
    ASSUME IInv, Rehash \/ Replace \/ \E k \in Keys, v \in Values : Set(k, v)
    PROVE  UNCHANGED Dict!vars
<1>1. CASE Rehash
  <2>1. UNCHANGED <<entries, reply>>
    BY <1>1 DEF Rehash, ProbeForever, table
  <2> QED
    BY <2>1 DEF Dict!vars, Contents
<1>2. CASE Replace
  <2>1. entries' = fresh /\ reply' = reply /\ EntriesOf(fresh) = EntriesOf(entries)
    BY <1>2, AllMoved DEF Replace
  <2> QED
    BY <2>1 DEF Dict!vars, Contents
<1>3. CASE \E k \in Keys, v \in Values : Set(k, v)
  <2>1. UNCHANGED <<entries, reply>>
    BY <1>3 DEF Set
  <2> QED
    BY <2>1 DEF Dict!vars, Contents
<1> QED
  BY <1>1, <1>2, <1>3

\* Whatever the keys, the hash function, the capacities and the history, NaN keys
\* included: a map or a set answers as the dictionary of its entries.
THEOREM TableIsDictionary == Spec => ImplementsDictionary
<1>1. Init => Dict!Init
  BY DEF Init, Dict!Init, Dict!Answer, Answer, Contents, EntriesOf, OccupiedIndices,
         NoEntries
<1>2. IInv /\ [Next]_vars => [Dict!Next]_Dict!vars
  <2> SUFFICES ASSUME IInv, [Next]_vars PROVE [Dict!Next]_Dict!vars
    OBVIOUS
  <2>1. CASE UNCHANGED vars
    BY <2>1 DEF vars, Dict!vars, Contents
  <2>2. ASSUME NEW k \in Keys, Get(k) PROVE Dict!Next
    BY <2>2, GetMaps DEF Dict!Next
  <2>3. ASSUME NEW k \in Keys, Delete(k) PROVE Dict!Next
    BY <2>3, DeleteMaps DEF Dict!Next
  <2>4. CASE Clear
    BY <2>4, ClearMaps DEF Dict!Next
  <2>5. CASE Store
    BY <2>5, StoreMaps DEF Dict!Next
  <2>6. CASE Rehash \/ Replace \/ \E k \in Keys, v \in Values : Set(k, v)
    BY <2>6, RehashingHidden
  <2> QED
    BY <2>1, <2>2, <2>3, <2>4, <2>5, <2>6 DEF Next
<1> QED
  BY <1>1, <1>2, InvariantHolds, PTL DEF Spec, ImplementsDictionary, Dict!Spec

\* liveCount, from which map.size and set.size come, is the number of entries of a
\* table without NaN.
THEOREM SizeIsExact == Spec => []SizeExact
<1>1. IInv => SizeExact
  <2> SUFFICES ASSUME IInv, pc = "idle", \A x \in Contents : x.key \notin NaNs
               PROVE  liveCount = Cardinality(Contents)
    BY DEF SizeExact
  <2> DEFINE f == [i \in OccupiedIndices(entries) |->
                      [key |-> entries[i].key, value |-> entries[i].value]]
  <2>1. /\ capacity \in Nat /\ DOMAIN entries = 0 .. capacity - 1
        /\ liveCount = Cardinality(OccupiedIndices(entries))
        /\ NoTwoEqual(entries, capacity)
    BY DEF IInv, TypeOK, CountsExact, Sound
  <2>2. \A i \in OccupiedIndices(entries) :
            f[i] \in Contents /\ f[i].key = entries[i].key
    BY DEF Contents, EntriesOf
  <2>3. \A i, j \in OccupiedIndices(entries) : f[i] = f[j] => i = j
    <3>1. \A i \in OccupiedIndices(entries) : entries[i].key \notin NaNs
      BY <2>2
    <3> QED
      BY <2>1, <2>2, <3>1 DEF OccupiedIndices, NoTwoEqual, Equal
  <2>4. \A x \in Contents : \E i \in OccupiedIndices(entries) : f[i] = x
    BY DEF Contents, EntriesOf
  <2>5. f \in [OccupiedIndices(entries) -> Contents]
    BY <2>2
  <2>6. f \in Bijection(OccupiedIndices(entries), Contents)
    <3> HIDE DEF f
    <3> QED
      BY <2>3, <2>4, <2>5, Fun_IsBij
  <2>7. IsFiniteSet(OccupiedIndices(entries))
    BY <2>1, FiniteIndices
  <2>8. Cardinality(OccupiedIndices(entries)) = Cardinality(Contents)
    <3>1. ExistsBijection(OccupiedIndices(entries), Contents)
      BY <2>6 DEF ExistsBijection
    <3> QED
      BY <2>7, <3>1, FS_Bijection
  <2> QED
    BY <2>1, <2>8
<1> QED
  BY <1>1, InvariantHolds, PTL

-----------------------------------------------------------------------------
(* Walks over a table.                                                     *)

\* The entries before it have been handed out.
Cursor == IF phase = "callback" THEN index + 1 ELSE index

ClassAt(i) == Class[entries[i].key]

\* The entries that last have been handed out once before the cursor, and not yet
\* after it.
VisitsInv ==
    \A i \in OccupiedIndices(entries) :
        ClassAt(i) \in lasting => visits[ClassAt(i)] = IF i < Cursor THEN 1 ELSE 0

\* The entry that was handed to a callback is where it was.
HandedInv ==
    phase = "callback" =>
        /\ handed \in Keys
        /\ Class[handed] \in lasting =>
              index \in OccupiedIndices(entries) /\ ClassAt(index) = Class[handed]

\* The array of a map never shrinks, so an index in it stays in it.
BoundsInv ==
    /\ phase \in {"none", "body", "scan", "callback", "done"}
    /\ index \in Nat
    /\ phase = "callback" /\ isMap => index < capacity

HistoryInv ==
    /\ visits \in [Classes -> Nat]
    /\ lasting \subseteq Present(entries)
    /\ phase = "none" => index = 0 /\ stored = {} /\ lasting = {} /\ visits = NoVisits
    /\ phase = "done" => Ahead = {}

WalkInv ==
    IInv /\ BoundsInv /\ HistoryInv /\ VisitsInv /\ HandedInv /\ StoredUnderItsKey

-----------------------------------------------------------------------------
(* The table under the walk.                                               *)

\* The occupied entries are at indices of the array, under keys, and no two of them
\* under equal keys.
LEMMA OccupiedEntries ==
    ASSUME IInv
    PROVE  /\ capacity \in Nat /\ OccupiedIndices(entries) \subseteq 0 .. capacity - 1
           /\ \A i \in OccupiedIndices(entries) : entries[i].key \in Keys /\ ClassAt(i) \in Classes
           /\ NaNs = {} => \A i, j \in OccupiedIndices(entries) : ClassAt(i) = ClassAt(j) => i = j
<1>1. /\ capacity \in Nat /\ DOMAIN entries = 0 .. capacity - 1
      /\ \A i \in 0 .. capacity - 1 : entries[i].occupied => entries[i].key \in Keys
      /\ NoTwoEqual(entries, capacity)
  BY DEF IInv, TypeOK, Sound
<1>2. OccupiedIndices(entries) \subseteq 0 .. capacity - 1
      /\ \A i \in OccupiedIndices(entries) : entries[i].occupied
  BY <1>1 DEF OccupiedIndices
<1>3. \A i \in OccupiedIndices(entries) : entries[i].key \in Keys /\ ClassAt(i) \in Classes
  BY <1>1, <1>2 DEF Classes, ClassAt
<1>4. NaNs = {} => \A i, j \in OccupiedIndices(entries) : ClassAt(i) = ClassAt(j) => i = j
  BY <1>1, <1>2, <1>3 DEF NoTwoEqual, Equal, ClassAt
<1> QED
  BY <1>1, <1>2, <1>3, <1>4

\* As long as the array is not replaced, a key that is in it before and after a step
\* is at the same index: findEntry finds an equal key that is there, and a rehash
\* takes a larger array.
LEMMA StaysInPlace ==
    ASSUME IInv, Next, capacity' = capacity, NaNs = {},
           NEW i \in OccupiedIndices(entries), NEW j \in OccupiedIndices(entries'),
           Class[entries[i].key] = Class[entries'[j].key]
    PROVE  i = j
<1>1. /\ capacity \in Nat /\ DOMAIN entries = 0 .. capacity - 1
      /\ capacity = 0 \/ capacity >= MIN_CAPACITY
      /\ OccupiedIndices(entries) \subseteq 0 .. capacity - 1
      /\ \A x, y \in OccupiedIndices(entries) : ClassAt(x) = ClassAt(y) => x = y
  BY OccupiedEntries DEF IInv, TypeOK
<1>2. capacity > 0
  BY <1>1
<1>3. CASE entries' = entries
  BY <1>1, <1>3 DEF ClassAt
<1>4. ASSUME NEW k \in Keys, Delete(k), entries' # entries PROVE i = j
  <2>1. PICK d : entries' = [entries EXCEPT ![d] = Tombstone]
    BY <1>4 DEF Delete, ProbeForever, table
  <2>2. j \in OccupiedIndices(entries) /\ entries'[j] = entries[j]
    BY <1>1, <2>1 DEF OccupiedIndices, Tombstone
  <2> QED
    BY <1>1, <2>2 DEF ClassAt
<1>5. CASE Store /\ entries' # entries
  <2> DEFINE k == pending.key
             f == FindEntry(entries, capacity, k)
  <2>1. k \in Keys /\ pc = "store"
    BY <1>5 DEF Store, IInv, TypeOK
  <2>2. entries' = [entries EXCEPT ![f] = Occupied(k, pending.value)]
        /\ Stops(entries, capacity, k) # {}
    BY <1>5 DEF Store, ProbeForever, table
  <2>3. Sound(entries, capacity) /\ Array(entries, capacity)
    BY DEF IInv, Sound
  <2>4. f \in 0 .. capacity - 1 /\ (entries[f].occupied => Equal(entries[f].key, k))
    BY <1>1, <1>2, <2>1, <2>2, <2>3, FindEntryReturns
  <2>5. ~entries[f].occupied =>
          \A x \in 0 .. capacity - 1 : entries[x].occupied => ~Equal(entries[x].key, k)
    BY <1>1, <1>2, <2>1, <2>2, <2>3, NotFound
  <2> HIDE DEF f
  <2>6. CASE j = f
    <3>1. entries'[j] = Occupied(k, pending.value)
      BY <1>1, <2>2, <2>4, <2>6
    <3>2. entries'[j].key = k
      BY <3>1 DEF Occupied
    <3>3. entries[i].occupied /\ Equal(entries[i].key, k)
      BY <3>2 DEF Equal, OccupiedIndices
    <3>4. entries[f].occupied /\ Class[entries[f].key] = Class[k]
      BY <1>1, <2>4, <2>5, <3>3 DEF Equal
    <3>5. f \in OccupiedIndices(entries) /\ ClassAt(i) = ClassAt(f)
      BY <1>1, <2>4, <3>2, <3>4 DEF OccupiedIndices, ClassAt
    <3> QED
      BY <1>1, <2>6, <3>5
  <2>7. CASE j # f
    <3>1. j \in OccupiedIndices(entries) /\ entries'[j] = entries[j]
      BY <1>1, <2>2, <2>7 DEF OccupiedIndices
    <3> QED
      BY <1>1, <3>1 DEF ClassAt
  <2> QED
    BY <2>6, <2>7
<1>6. ~Replace /\ ~Clear
  <2>1. GrowCapacity(capacity) > capacity /\ GrowCapacity(capacity) \in Nat
    BY <1>1, GrowCapacityGrows
  <2>2. Replace => capacity' = GrowCapacity(capacity)
    BY DEF Replace
  <2>3. Clear => capacity' = 0
    BY DEF Clear
  <2>4. capacity \in Nat /\ capacity' = capacity
    BY <1>1
  <2> QED
    BY <1>2, <2>1, <2>2, <2>3, <2>4
<1>7. Rehash => entries' = entries
  BY DEF Rehash, ProbeForever, table
<1>8. \A k \in Keys : (Get(k) \/ \E v \in Values : Set(k, v)) => entries' = entries
  BY DEF Get, Set, ProbeForever, table
<1> QED
  BY <1>3, <1>4, <1>5, <1>6, <1>7, <1>8 DEF Next

\* The array never shrinks, except when a set is cleared.
LEMMA GrowsUnlessCleared ==
    ASSUME IInv,
           Rehash \/ Replace \/ Store \/
           \E k \in Keys : Get(k) \/ Delete(k) \/ \E v \in Values : Set(k, v)
    PROVE  capacity' >= capacity
<1>1. capacity \in Nat /\ (capacity = 0 \/ capacity >= MIN_CAPACITY)
  BY DEF IInv, TypeOK
<1>2. GrowCapacity(capacity) > capacity /\ GrowCapacity(capacity) \in Nat
  BY <1>1, GrowCapacityGrows
<1>3. capacity' = capacity \/ capacity' = GrowCapacity(capacity)
  BY DEF Get, Delete, Set, Rehash, Replace, Store, ProbeForever, table
<1> QED
  BY <1>1, <1>2, <1>3

\* The table itself is used as in any other program.
LEMMA WalkSteps == WalkNext => [Next]_vars
BY DEF WalkNext, UseTable, StartForEach, StartNative, Start, Iterate, Scan, Resume, Leave, Next

-----------------------------------------------------------------------------
(* Steps of the walk.                                                      *)

\* The next entry ahead is the first one that has not been handed out.
LEMMA FirstAhead ==
    ASSUME IInv, BoundsInv, Ahead # {}
    PROVE  /\ Min(Ahead) \in OccupiedIndices(entries) /\ Min(Ahead) \in Nat /\ Min(Ahead) >= index
           /\ Min(Ahead) < capacity
           /\ \A i \in OccupiedIndices(entries) : i < Min(Ahead) => i < index
<1>1. capacity \in Nat /\ OccupiedIndices(entries) \subseteq 0 .. capacity - 1 /\ index \in Nat
  BY OccupiedEntries DEF BoundsInv
<1>2. Ahead \in SUBSET (0 .. capacity - 1) /\ capacity - 1 \in Nat
  BY <1>1 DEF Ahead
<1>3. Min(Ahead) \in Ahead /\ \A d \in Ahead : Min(Ahead) <= d
  BY <1>2, MinOf
<1> DEFINE m == Min(Ahead)
<1>4. m \in Ahead /\ \A d \in Ahead : m <= d
  BY <1>3
<1> HIDE DEF m
<1>5. m \in OccupiedIndices(entries) /\ m \in 0 .. capacity - 1 /\ m >= index
  BY <1>1, <1>4 DEF Ahead
<1>6. ASSUME NEW i \in OccupiedIndices(entries), i < m PROVE i < index
  <2>1. i \in 0 .. capacity - 1 /\ ~(m <= i)
    BY <1>1, <1>5, <1>6
  <2>2. i \notin Ahead
    BY <1>4, <2>1
  <2> QED
    BY <1>1, <2>1, <2>2 DEF Ahead
<1> QED
  BY <1>1, <1>5, <1>6 DEF m

\* Handing it out once keeps the count of visits.
LEMMA HandCounts ==
    ASSUME WalkInv, NaNs = {}, Cursor = index, Ahead # {}, Hand(Min(Ahead)),
           UNCHANGED <<entries, lasting>>, Cursor' = Min(Ahead) + 1
    PROVE  /\ handed' = entries[Min(Ahead)].key
           /\ visits' \in [Classes -> Nat] /\ VisitsInv'
<1> DEFINE m == Min(Ahead)
           c == ClassAt(m)
<1>1. /\ m \in OccupiedIndices(entries) /\ m \in Nat /\ m >= index
      /\ \A i \in OccupiedIndices(entries) : i < m => i < index
  BY FirstAhead DEF WalkInv
<1>2. /\ \A i \in OccupiedIndices(entries) : i \in Nat /\ ClassAt(i) \in Classes
      /\ \A i, j \in OccupiedIndices(entries) : ClassAt(i) = ClassAt(j) => i = j
  BY OccupiedEntries DEF WalkInv
<1>3. handed' = entries[m].key
      /\ visits' = IF c \in lasting THEN [visits EXCEPT ![c] = @ + 1] ELSE visits
  BY DEF Hand, ClassAt
<1>4. Cursor' = m + 1
  OBVIOUS
<1>5. visits \in [Classes -> Nat] /\ c \in Classes /\ index \in Nat
  BY <1>1, <1>2 DEF WalkInv, BoundsInv, HistoryInv
<1> HIDE DEF m
<1>6. visits' \in [Classes -> Nat]
  BY <1>3, <1>5
<1>7. ASSUME NEW i \in OccupiedIndices(entries), ClassAt(i) \in lasting
      PROVE  visits'[ClassAt(i)] = IF i < m + 1 THEN 1 ELSE 0
  <2>1. visits[ClassAt(i)] = IF i < index THEN 1 ELSE 0
    BY <1>7 DEF WalkInv, VisitsInv
  <2>2. CASE i = m
    <3>1. visits'[c] = visits[c] + 1
      BY <1>3, <1>5, <1>7, <2>2
    <3> QED
      BY <1>1, <1>5, <2>1, <2>2, <3>1
  <2>3. CASE i # m
    <3>1. ClassAt(i) # c
      BY <1>1, <1>2, <2>3
    <3>2. visits'[ClassAt(i)] = visits[ClassAt(i)]
      BY <1>2, <1>3, <1>5, <3>1
    <3>3. i < index <=> i < m + 1
      BY <1>1, <1>2, <1>5, <2>3
    <3> QED
      BY <2>1, <3>2, <3>3
  <2> QED
    BY <2>2, <2>3
<1>8. VisitsInv'
  BY <1>4, <1>7 DEF VisitsInv, ClassAt
<1> QED
  BY <1>3, <1>6, <1>8 DEF m

-----------------------------------------------------------------------------
(* Bounds.                                                                 *)

\* The table keeps its own invariant whatever the walk does.
LEMMA TableKept ==
    ASSUME IInv, [WalkNext]_allVars
    PROVE  IInv'
<1>1. [Next]_vars
  BY WalkSteps DEF allVars, vars
<1> QED
  BY <1>1, StepKeeps

\* An index in the array of a map stays in it.
LEMMA BoundsKept ==
    ASSUME IInv, BoundsInv, [WalkNext]_allVars
    PROVE  BoundsInv'
<1> USE DEF BoundsInv
<1>1. CASE UseTable
  <2>1. UNCHANGED <<isMap, phase, index>>
    BY <1>1 DEF UseTable
  <2>2. isMap => capacity' >= capacity
    <3>1. isMap => Rehash \/ Replace \/ Store \/
              \E k \in Keys : Get(k) \/ Delete(k) \/ \E v \in Values : Set(k, v)
      BY <1>1 DEF UseTable, CanClear
    <3> QED
      BY <3>1, GrowsUnlessCleared
  <2>3. capacity \in Nat /\ capacity' \in Nat
    BY TableKept DEF IInv, TypeOK
  <2> QED
    BY <2>1, <2>2, <2>3
<1>2. CASE StartForEach \/ StartNative
  BY <1>2 DEF StartForEach, StartNative, Start
<1>3. CASE Iterate
  <2>1. CASE Ahead = {}
    BY <1>3, <2>1 DEF Iterate
  <2>2. CASE Ahead # {}
    <3>1. Min(Ahead) \in Nat
      BY <2>2, FirstAhead
    <3>2. index' = Min(Ahead) + 1 /\ phase' = "body"
      BY <1>3, <2>2 DEF Iterate, IndexAfter
    <3> QED
      BY <3>1, <3>2
  <2> QED
    BY <2>1, <2>2
<1>4. CASE Scan
  <2>1. CASE Ahead = {}
    BY <1>4, <2>1 DEF Scan
  <2>2. CASE Ahead # {}
    <3>1. Min(Ahead) \in Nat /\ Min(Ahead) < capacity
      BY <2>2, FirstAhead
    <3>2. index' = Min(Ahead) /\ phase' = "callback" /\ capacity' = capacity
      BY <1>4, <2>2 DEF Scan, IndexDuring, vars
    <3> QED
      BY <3>1, <3>2
  <2> QED
    BY <2>1, <2>2
<1>5. CASE Resume(FALSE) \/ (isMap /\ Resume(TRUE))
  <2>1. capacity \in Nat
    BY DEF IInv, TypeOK
  <2> QED
    BY <1>5, <2>1 DEF Resume
<1>6. CASE Leave
  BY <1>6 DEF Leave
<1>7. CASE UNCHANGED allVars
  BY <1>7 DEF allVars
<1> QED
  BY <1>1, <1>2, <1>3, <1>4, <1>5, <1>6, <1>7 DEF WalkNext

-----------------------------------------------------------------------------
(* Visits.                                                                 *)

\* The program may use the table between two rounds as it likes.
LEMMA UseTableVisits ==
    ASSUME WalkInv, UseTable, NaNs = {}
    PROVE  HistoryInv' /\ VisitsInv' /\ HandedInv' /\ StoredUnderItsKey'
<1>1. /\ phase \in {"none", "body", "callback"}
      /\ lasting' = IF capacity' = capacity THEN lasting \cap Present(entries') ELSE {}
      /\ visits' = [c \in Classes |-> IF c \in lasting' THEN visits[c] ELSE 0]
      /\ UNCHANGED <<isMap, phase, index, handed, stored>>
  BY DEF UseTable
<1>2. Next
  BY DEF UseTable, Next
<1>3. /\ visits \in [Classes -> Nat] /\ lasting \subseteq Present(entries) /\ IInv
      /\ phase = "none" => index = 0 /\ stored = {} /\ lasting = {}
  BY DEF WalkInv, HistoryInv
<1>4. lasting' \subseteq lasting /\ lasting' \subseteq Present(entries')
  BY <1>1
<1>5. \A i \in OccupiedIndices(entries), j \in OccupiedIndices(entries') :
          Class[entries[i].key] = Class[entries'[j].key] /\ Class[entries'[j].key] \in lasting'
          => i = j
  BY <1>1, <1>2, <1>3, StaysInPlace
<1>6. \A j \in OccupiedIndices(entries') :
          Class[entries'[j].key] \in lasting' =>
              j \in OccupiedIndices(entries) /\ ClassAt(j) = Class[entries'[j].key]
  BY <1>3, <1>4, <1>5 DEF Present, ClassAt
<1>7. HistoryInv'
  <2>1. visits' \in [Classes -> Nat]
    BY <1>1, <1>3
  <2>2. phase = "none" => lasting' = {} /\ visits' = NoVisits
    BY <1>1, <1>3, <1>4 DEF NoVisits
  <2> QED
    BY <1>1, <1>3, <1>4, <2>1, <2>2 DEF HistoryInv
<1>8. VisitsInv'
  <2> SUFFICES ASSUME NEW j \in OccupiedIndices(entries'), Class[entries'[j].key] \in lasting'
               PROVE  visits'[Class[entries'[j].key]] = IF j < Cursor THEN 1 ELSE 0
    BY <1>1 DEF VisitsInv, ClassAt, Cursor
  <2> DEFINE c == Class[entries'[j].key]
  <2>1. j \in OccupiedIndices(entries) /\ ClassAt(j) = c /\ c \in lasting
    BY <1>4, <1>6
  <2>2. visits[c] = IF j < Cursor THEN 1 ELSE 0
    BY <2>1 DEF WalkInv, VisitsInv
  <2>3. c \in Classes
    BY <1>3, <2>1, OccupiedEntries
  <2> HIDE DEF c
  <2>4. c \in lasting'
    BY DEF c
  <2>5. visits'[c] = visits[c]
    BY <1>1, <2>3, <2>4
  <2> QED
    BY <2>2, <2>5 DEF c
<1>9. HandedInv'
  <2> SUFFICES ASSUME phase = "callback", Class[handed] \in lasting'
               PROVE  index \in OccupiedIndices(entries') /\ Class[entries'[index].key] = Class[handed]
    BY <1>1 DEF WalkInv, HandedInv, ClassAt
  <2>1. index \in OccupiedIndices(entries) /\ Class[entries[index].key] = Class[handed]
    BY <1>4 DEF WalkInv, HandedInv, ClassAt
  <2>2. PICK j \in OccupiedIndices(entries') : Class[entries'[j].key] = Class[handed]
    BY <1>4 DEF Present
  <2>3. index = j
    BY <1>5, <2>1, <2>2
  <2> QED
    BY <2>2, <2>3
<1>10. StoredUnderItsKey'
  BY <1>1 DEF StoredUnderItsKey
<1> QED
  BY <1>7, <1>8, <1>9, <1>10

\* A walk begins before every entry.
LEMMA StartVisits ==
    ASSUME WalkInv, StartForEach \/ StartNative
    PROVE  HistoryInv' /\ VisitsInv' /\ HandedInv' /\ StoredUnderItsKey'
<1>1. /\ phase' \in {"body", "scan"} /\ index' = 0 /\ lasting' = Present(entries)
      /\ phase = "none"
      /\ UNCHANGED <<entries, capacity, isMap, handed, stored, visits>>
  BY DEF StartForEach, StartNative, Start, vars
<1>2. stored = {} /\ visits = NoVisits /\ visits \in [Classes -> Nat]
  BY <1>1 DEF WalkInv, HistoryInv
<1>3. HistoryInv'
  BY <1>1, <1>2 DEF HistoryInv
<1>4. \A i \in OccupiedIndices(entries) : i \in Nat /\ visits[ClassAt(i)] = 0
  BY <1>2, OccupiedEntries DEF WalkInv, NoVisits
<1>5. VisitsInv'
  <2>1. Cursor' = 0
    BY <1>1 DEF Cursor
  <2>2. \A i \in OccupiedIndices(entries) : ~(i < 0)
    BY <1>4
  <2> QED
    BY <1>1, <1>4, <2>1, <2>2 DEF VisitsInv, ClassAt
<1>6. HandedInv'
  BY <1>1 DEF HandedInv
<1>7. StoredUnderItsKey'
  BY <1>1, <1>2 DEF StoredUnderItsKey
<1> QED
  BY <1>3, <1>5, <1>6, <1>7

\* A round of either walk hands out the next entry, or ends the walk.
LEMMA RoundVisits ==
    ASSUME WalkInv, Iterate \/ Scan, NaNs = {}
    PROVE  HistoryInv' /\ VisitsInv' /\ HandedInv' /\ StoredUnderItsKey'
<1>1. /\ UNCHANGED <<entries, capacity, isMap, stored, lasting>>
      /\ phase \in {"body", "scan"} /\ Cursor = index
  BY DEF Iterate, Scan, vars, Cursor
<1>2. /\ visits \in [Classes -> Nat] /\ lasting \subseteq Present(entries)
      /\ IInv /\ BoundsInv /\ index \in Nat
  BY DEF WalkInv, HistoryInv, BoundsInv
<1>3. CASE Ahead = {}
  <2>1. phase' = "done" /\ UNCHANGED <<index, handed, visits>>
    BY <1>3 DEF Iterate, Scan
  <2>2. HistoryInv'
    BY <1>1, <1>2, <1>3, <2>1 DEF HistoryInv, Ahead
  <2>3. Cursor' = Cursor
    BY <1>1, <2>1 DEF Cursor
  <2>4. VisitsInv'
    BY <1>1, <2>1, <2>3 DEF WalkInv, VisitsInv, ClassAt
  <2> QED
    BY <2>1, <2>2, <2>4 DEF HandedInv, StoredUnderItsKey
<1>4. CASE Ahead # {}
  <2> DEFINE m == Min(Ahead)
  <2>1. /\ Hand(m)
        /\ (phase' = "body" /\ index' = m + 1) \/ (phase' = "callback" /\ index' = m)
    BY <1>1, <1>4 DEF Iterate, Scan, IndexAfter, IndexDuring
  <2>2. Cursor' = m + 1
    BY <2>1 DEF Cursor
  <2>3. handed' = entries[m].key /\ visits' \in [Classes -> Nat] /\ VisitsInv'
    BY <1>1, <1>4, <2>1, <2>2, HandCounts
  <2>4. m \in OccupiedIndices(entries)
    BY <1>2, <1>4, FirstAhead
  <2>5. entries[m].key \in Keys
    BY <1>2, <2>4, OccupiedEntries
  <2> HIDE DEF m
  <2>6. HistoryInv'
    BY <1>1, <1>2, <2>1, <2>3 DEF HistoryInv
  <2>7. HandedInv'
    BY <1>1, <2>1, <2>3, <2>4, <2>5 DEF HandedInv, ClassAt
  <2>8. StoredUnderItsKey'
    BY <2>1 DEF StoredUnderItsKey
  <2> QED
    BY <2>3, <2>6, <2>7, <2>8
<1> QED
  BY <1>3, <1>4

\* A native that goes on after its callback stores under the key it handed out.
LEMMA ResumeVisits ==
    ASSUME WalkInv, Resume(FALSE) \/ (isMap /\ Resume(TRUE)), NaNs = {}
    PROVE  HistoryInv' /\ VisitsInv' /\ HandedInv' /\ StoredUnderItsKey'
<1>1. /\ phase = "callback" /\ UNCHANGED <<entries, capacity, isMap, handed, lasting, visits>>
  BY DEF Resume, vars
<1>2. capacity \in Nat /\ index \in Nat /\ (isMap => index < capacity)
  BY <1>1 DEF WalkInv, IInv, TypeOK, BoundsInv
<1>3. phase' = "scan" /\ index' = index + 1 /\ stored' \subseteq {entries[index].key}
  BY <1>2 DEF Resume
<1>4. HistoryInv'
  BY <1>1, <1>3 DEF WalkInv, HistoryInv
<1>5. Cursor' = Cursor
  BY <1>1, <1>3 DEF Cursor
<1>6. VisitsInv'
  BY <1>1, <1>5 DEF WalkInv, VisitsInv, ClassAt
<1>7. HandedInv'
  BY <1>3 DEF HandedInv
<1>8. StoredUnderItsKey'
  <2> SUFFICES ASSUME NEW k \in stored', Class[handed] \in lasting
               PROVE  k \in Keys /\ Equal(handed, k)
    BY <1>1 DEF StoredUnderItsKey
  <2>1. k = entries[index].key
    BY <1>3
  <2>2. index \in OccupiedIndices(entries) /\ ClassAt(index) = Class[handed]
    BY <1>1 DEF WalkInv, HandedInv
  <2>3. k \in Keys
    BY <2>1, <2>2, OccupiedEntries DEF WalkInv
  <2> QED
    BY <2>1, <2>2, <2>3 DEF Equal, ClassAt
<1> QED
  BY <1>4, <1>6, <1>7, <1>8

\* Every step of a program that walks over a table keeps the invariant.
LEMMA WalkKept ==
    ASSUME WalkInv, [WalkNext]_allVars, NaNs = {}
    PROVE  WalkInv'
<1>1. IInv' /\ BoundsInv'
  BY TableKept, BoundsKept DEF WalkInv
<1>2. CASE Leave
  <2>1. /\ phase' = "none" /\ index' = 0 /\ stored' = {} /\ lasting' = {} /\ visits' = NoVisits
    BY <1>2 DEF Leave
  <2>2. HistoryInv' /\ VisitsInv' /\ HandedInv' /\ StoredUnderItsKey'
    BY <2>1 DEF HistoryInv, VisitsInv, HandedInv, StoredUnderItsKey, NoVisits
  <2> QED
    BY <1>1, <2>2 DEF WalkInv
<1>3. CASE UNCHANGED allVars
  BY <1>3 DEF allVars, WalkInv, IInv, TypeOK, CountsExact, ProbesEnd, RehashInv, Passed,
     BoundsInv, HistoryInv, VisitsInv, HandedInv, StoredUnderItsKey, Ahead, Cursor, ClassAt
<1> QED
  BY <1>1, <1>2, <1>3, UseTableVisits, StartVisits, RoundVisits, ResumeVisits
     DEF WalkNext, WalkInv

-----------------------------------------------------------------------------
(* What follows.                                                           *)

\* No native reads past the array after its callback, whatever the callback did to
\* the table: only a set can be cleared, and no native that reads again walks a set.
THEOREM NativesReadInBounds == WalkSpec => []ReadsInBounds
<1>1. WalkInit => IInv /\ BoundsInv
  BY InitInv DEF WalkInit, BoundsInv
<1>2. IInv /\ BoundsInv /\ [WalkNext]_allVars => IInv' /\ BoundsInv'
  BY TableKept, BoundsKept
<1>3. BoundsInv => ReadsInBounds
  BY DEF BoundsInv, ReadsInBounds
<1> QED
  BY <1>1, <1>2, <1>3, PTL DEF WalkSpec

\* Where no key differs from itself, the invariant holds in every state.
LEMMA WalkInvariant ==
    ASSUME NaNs = {}
    PROVE  WalkSpec => []WalkInv
<1>1. WalkInit => WalkInv
  <2> SUFFICES ASSUME WalkInit PROVE WalkInv
    OBVIOUS
  <2>1. IInv /\ BoundsInv
    BY InitInv DEF WalkInit, BoundsInv
  <2>2. HistoryInv /\ VisitsInv /\ HandedInv /\ StoredUnderItsKey
    BY DEF WalkInit, HistoryInv, VisitsInv, HandedInv, StoredUnderItsKey, NoVisits
  <2> QED
    BY <2>1, <2>2 DEF WalkInv
<1>2. WalkInv /\ [WalkNext]_allVars => WalkInv'
  BY WalkKept
<1> QED
  BY <1>1, <1>2, PTL DEF WalkSpec

\* An entry that lasts is handed out exactly once by the end of the walk and never
\* twice.
THEOREM LastingEntriesHandedOnce ==
    ASSUME NaNs = {}
    PROVE  WalkSpec => []EachLastingEntryOnce
<1>1. WalkInv => EachLastingEntryOnce
  <2> SUFFICES ASSUME WalkInv, NEW c \in lasting
               PROVE  visits[c] <= 1 /\ (phase = "done" => visits[c] = 1)
    BY DEF EachLastingEntryOnce
  <2>1. PICK i \in OccupiedIndices(entries) : ClassAt(i) = c
    BY DEF WalkInv, HistoryInv, Present, ClassAt
  <2>2. visits[c] = IF i < Cursor THEN 1 ELSE 0
    BY <2>1 DEF WalkInv, VisitsInv
  <2>3. phase = "done" => i < Cursor
    <3>1. i \in Nat /\ index \in Nat
      BY OccupiedEntries DEF WalkInv, BoundsInv
    <3> QED
      BY <3>1 DEF WalkInv, HistoryInv, Ahead, Cursor
  <2> QED
    BY <2>2, <2>3
<1> QED
  BY <1>1, WalkInvariant, PTL

\* map() and filter() store the result for a key under that key.
THEOREM ResultsUnderTheirKeys ==
    ASSUME NaNs = {}
    PROVE  WalkSpec => []StoredUnderItsKey
<1>1. WalkInv => StoredUnderItsKey
  BY DEF WalkInv
<1> QED
  BY <1>1, WalkInvariant, PTL
=============================================================================
