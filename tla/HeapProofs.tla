----------------------------- MODULE HeapProofs -----------------------------
(***************************************************************************)
(* No collection frees what the program can still reach, for every heap,   *)
(* every type of container, every way of storing and every place a         *)
(* collection can take; only a value a routine has popped can be lost.     *)
(*                                                                         *)
(* While a collection marks, what is marked and not gray refers to marked  *)
(* objects only; while it sweeps, the objects that are marked or already   *)
(* swept (Alive) hold the roots and refer to one another only.             *)
(*                                                                         *)
(* The second half is about interning: for every hash function the table   *)
(* of strings (table.c) holds each string that is alive once, where        *)
(* tableFindString comes to it.  A collection leaves tombstones where it   *)
(* drops strings, so that probes go on; a string that is being interned is *)
(* on the stack and not in the table; while the entries move to a larger   *)
(* array, the new one holds the strings of the entries already passed.     *)
(***************************************************************************)
EXTENDS Heap, LeastNumbers, TLAPS

IsFunction(f) == f = [x \in DOMAIN f |-> f[x]]
Elements(s) == {s[i] : i \in DOMAIN s}
Valid(object) == object.type \in DOMAIN Fields /\ DOMAIN object.refs = Fields[object.type]
Kids(object) == UNION {object.refs[f] : f \in Fields[object.type]}
Strings(table) == {table[p] : p \in {q \in DOMAIN table : IsString(table[q])}}

Alive == IF gc = "sweep" THEN marked \cup (Allocated \ unswept) ELSE Allocated

TypeOK ==
    /\ container \in Containers
    /\ IsFunction(heap) /\ DOMAIN heap = Addr
    /\ \A o \in Addr : heap[o] = Free \/ Valid(heap[o])
    /\ stack \in Seq(Addr)
    /\ IsFunction(open) /\ DOMAIN open = 1 .. StackMax
    /\ \A i \in DOMAIN open : open[i] \in Addr \cup {None}
    /\ IsFunction(strings)
    /\ gc \in {"off", "trace", "sweep"}
    /\ marked \subseteq Allocated /\ gray \subseteq marked /\ unswept \subseteq Allocated

PhaseInv ==
    /\ gc = "off" => marked = {} /\ gray = {} /\ unswept = {}
    /\ gc = "trace" => Roots \subseteq marked
                       /\ \A o \in marked \ gray : Kids(heap[o]) \subseteq marked
    /\ gc = "sweep" => marked \subseteq unswept /\ gray = {}

AliveInv ==
    /\ Roots \subseteq Alive
    /\ \A o \in Alive : Kids(heap[o]) \subseteq Alive
    /\ Strings(strings) \subseteq Alive

RoutineInv ==
    /\ at \in {"intern", "rehash", "upvalue"} => stack # <<>>
    /\ at = "object" /\ container.made # None => stack # <<>>
    /\ at = "rehash" => /\ gc = "off" /\ collected
                        /\ IsFunction(local.fresh) /\ Strings(local.fresh) \subseteq Allocated
    /\ at = "write" => \/ local.how = "guarded" /\ Len(stack) > 1 /\ local.value = Top
                       \/ local.how = "popped" /\ stack # <<>>

IInv == TypeOK /\ PhaseInv /\ AliveInv /\ RoutineInv

-----------------------------------------------------------------------------
(* Objects, sequences and tables.                                          *)

\* blackenObject marks every field through which an object holds another.
LEMMA AllFieldsMarked == Blackened = Fields
  BY DEF Blackened, Fields

\* The types the routines make are types of objects.
LEMMA TypeNames ==
  /\ "free" \notin DOMAIN Fields
  /\ {"string", "upvalue", "closure"} \subseteq DOMAIN Fields
  BY DEF Fields

\* An object is not what is at a free address.
LEMMA ValidIsNotFree == \A x : Valid(x) => x # Free
  BY TypeNames DEF Valid, Free

\* A new object refers to nothing.
LEMMA NewIsValid ==
  ASSUME NEW t \in DOMAIN Fields, NEW x
  PROVE  Valid(New(t, x)) /\ Kids(New(t, x)) = {}
  BY DEF Valid, Kids, New

\* A field that is set adds what it is set to at most.
LEMMA HoldingIsValid ==
  ASSUME NEW x, Valid(x), NEW f, NEW r
  PROVE  Valid(Holding(x, f, r)) /\ Kids(Holding(x, f, r)) \subseteq Kids(x) \cup r
  BY DEF Valid, Kids, Holding

\* A value stored besides the others adds that value at most.
LEMMA AddingIsValid ==
  ASSUME NEW x, Valid(x), NEW f, NEW v
  PROVE  Valid(Adding(x, f, v)) /\ Kids(Adding(x, f, v)) \subseteq Kids(x) \cup {v}
  BY DEF Valid, Kids, Holding, Adding

\* The first n slots of the stack.
LEMMA Prefix ==
  ASSUME NEW s \in Seq(Addr), NEW n \in 0 .. Len(s)
  PROVE  /\ SubSeq(s, 1, n) \in Seq(Addr) /\ Len(SubSeq(s, 1, n)) = n
         /\ Elements(SubSeq(s, 1, n)) \subseteq Elements(s)
  <1>1. /\ SubSeq(s, 1, n) \in Seq(Addr) /\ Len(SubSeq(s, 1, n)) = n
        /\ \A i \in 1 .. n : SubSeq(s, 1, n)[i] = s[i]
    OBVIOUS
  <1> QED BY <1>1 DEF Elements

\* A slot is pushed.
LEMMA Pushed ==
  ASSUME NEW s \in Seq(Addr), NEW o \in Addr
  PROVE  /\ Append(s, o) \in Seq(Addr) /\ Append(s, o) # <<>>
         /\ Elements(Append(s, o)) \subseteq Elements(s) \cup {o}
         /\ Append(s, o)[Len(Append(s, o))] = o
  <1>1. /\ Append(s, o) \in Seq(Addr) /\ Len(Append(s, o)) = Len(s) + 1
        /\ \A i \in 1 .. Len(s) + 1 : Append(s, o)[i] = IF i <= Len(s) THEN s[i] ELSE o
    OBVIOUS
  <1> QED BY <1>1 DEF Elements

\* The top of the stack is on the stack.
LEMMA TopOnStack ==
  ASSUME NEW s \in Seq(Addr), s # <<>>
  PROVE  s[Len(s)] \in Elements(s) /\ s[Len(s)] \in Addr /\ Len(s) \in Nat \ {0}
  BY DEF Elements

\* An entry that is set adds one string at most.
LEMMA EntrySet ==
  ASSUME NEW table, IsFunction(table), NEW p, NEW s
  PROVE  /\ IsFunction([table EXCEPT ![p] = s])
         /\ Strings([table EXCEPT ![p] = s]) \subseteq Strings(table) \cup {s}
  BY DEF IsFunction, Strings

\* An address is free when a routine finds one.
LEMMA NewAddressIsFree ==
  ASSUME SomeFree
  PROVE  NewAddress \in Addr /\ NewAddress \notin Allocated
  <1>1. \E o \in Addr : o \notin Allocated
    BY DEF SomeFree, Allocated
  <1> QED BY <1>1 DEF NewAddress

-----------------------------------------------------------------------------
(* While no collection runs.                                               *)

OffInv ==
    /\ IsFunction(heap) /\ DOMAIN heap = Addr
    /\ \A o \in Addr : heap[o] = Free \/ Valid(heap[o])
    /\ stack \in Seq(Addr) /\ Elements(stack) \subseteq Allocated
    /\ IsFunction(open) /\ DOMAIN open = 1 .. StackMax
    /\ \A i \in DOMAIN open : open[i] \in Allocated \cup {None}
    /\ \A o \in Allocated : Kids(heap[o]) \subseteq Allocated
    /\ IsFunction(strings) /\ Strings(strings) \subseteq Allocated

\* What a routine may rely on when it goes on.
LEMMA RoutineMayAssume ==
  ASSUME IInv, gc = "off"
  PROVE  OffInv
  BY DEF IInv, TypeOK, AliveInv, OffInv, Alive, Roots, OnStack, Elements, OpenUpvalues

\* What a routine has to establish.
LEMMA RoutineMustKeep ==
  ASSUME IInv, gc = "off", CollectorIdle, OffInv', RoutineInv'
  PROVE  IInv'
  <1>1. TypeOK'
    BY ConstantsAssumption
       DEF IInv, TypeOK, PhaseInv, OffInv, CollectorIdle, Allocated
  <1>2. PhaseInv'
    BY DEF IInv, PhaseInv, CollectorIdle
  <1>3. AliveInv'
    <2>1. gc' = "off" /\ Alive' = Allocated'
      BY DEF CollectorIdle, Alive
    <2>2. Roots' \subseteq Allocated'
      BY DEF OffInv, Roots, OnStack, Elements, OpenUpvalues
    <2> QED BY <2>1, <2>2 DEF OffInv, AliveInv
  <1> QED BY <1>1, <1>2, <1>3 DEF IInv

\* One object is replaced by one that refers to what is allocated.
LEMMA ObjectReplaced ==
  ASSUME OffInv, NEW a \in Addr, NEW x, Valid(x),
         heap' = [heap EXCEPT ![a] = x], Kids(x) \subseteq Allocated \cup {a}
  PROVE  /\ Allocated' = Allocated \cup {a}
         /\ IsFunction(heap') /\ DOMAIN heap' = Addr
         /\ \A o \in Addr : heap'[o] = Free \/ Valid(heap'[o])
         /\ \A o \in Allocated' : Kids(heap'[o]) \subseteq Allocated'
  <1>1. /\ DOMAIN heap' = Addr /\ heap'[a] = x
        /\ \A o \in Addr \ {a} : heap'[o] = heap[o]
    BY DEF OffInv, IsFunction
  <1>2. IsFunction(heap')
    BY <1>1 DEF IsFunction
  <1>3. Allocated' = Allocated \cup {a}
    BY <1>1, ValidIsNotFree DEF Allocated
  <1>4. \A o \in Addr : heap'[o] = Free \/ Valid(heap'[o])
    BY <1>1 DEF OffInv
  <1>5. \A o \in Allocated' : Kids(heap'[o]) \subseteq Allocated'
    BY <1>1, <1>3 DEF OffInv, Allocated
  <1> QED BY <1>1, <1>2, <1>3, <1>4, <1>5

\* The same of an object there is.
LEMMA ObjectChanged ==
  ASSUME OffInv, NEW a \in Allocated, NEW x, Valid(x),
         heap' = [heap EXCEPT ![a] = x], Kids(x) \subseteq Allocated
  PROVE  /\ Allocated' = Allocated
         /\ IsFunction(heap') /\ DOMAIN heap' = Addr
         /\ \A o \in Addr : heap'[o] = Free \/ Valid(heap'[o])
         /\ \A o \in Allocated' : Kids(heap'[o]) \subseteq Allocated'
  <1>1. a \in Addr /\ Allocated \cup {a} = Allocated
    BY DEF Allocated
  <1> QED BY <1>1, ObjectReplaced

\* The top of the stack is allocated.
LEMMA TopAllocated ==
  ASSUME OffInv, stack # <<>>
  PROVE  Top \in Allocated /\ Top \in Addr /\ Valid(heap[Top])
  BY TopOnStack DEF OffInv, Top, Allocated

\* Removing the slots above the first n leaves allocated objects.
LEMMA StackCut ==
  ASSUME OffInv, NEW n \in 0 .. Len(stack)
  PROVE  SubSeq(stack, 1, n) \in Seq(Addr) /\ Elements(SubSeq(stack, 1, n)) \subseteq Allocated
  BY Prefix DEF OffInv

-----------------------------------------------------------------------------
(* The collector.                                                          *)

LEMMA CollectKeeps == IInv /\ Collect => IInv'
  <1> SUFFICES ASSUME IInv, Collect PROVE IInv'
    OBVIOUS
  <1>0. Allocated' = Allocated /\ Roots' = Roots /\ Roots \subseteq Allocated
        /\ marked = {} /\ gray = {} /\ unswept = {}
    BY DEF IInv, Collect, PhaseInv, AliveInv, Alive, Allocated, Roots, OnStack, OpenUpvalues
  <1>1. TypeOK'
    BY <1>0 DEF IInv, TypeOK, Collect
  <1>2. PhaseInv'
    BY <1>0 DEF PhaseInv, Collect
  <1>3. AliveInv'
    BY <1>0 DEF IInv, AliveInv, Collect, Alive
  <1>4. RoutineInv'
    BY DEF IInv, RoutineInv, Collect, Top
  <1> QED BY <1>1, <1>2, <1>3, <1>4 DEF IInv

\* A gray object is taken from the stack and all it refers to is marked.
LEMMA TraceKeeps == IInv /\ Trace => IInv'
  <1> SUFFICES ASSUME IInv, Trace PROVE IInv'
    OBVIOUS
  <1> DEFINE o == CHOOSE x \in gray : TRUE
  <1>1. o \in gray
    BY DEF Trace
  <1>2. /\ marked' = marked \cup Kids(heap[o])
        /\ gray' = (gray \ {o}) \cup (Kids(heap[o]) \ marked)
    BY AllFieldsMarked DEF Trace, Blacken, Kids
  <1> HIDE DEF o
  <1>3. /\ gc = "trace" /\ gc' = "trace" /\ heap' = heap /\ Allocated' = Allocated
        /\ Roots' = Roots /\ unswept' = unswept /\ strings' = strings
    BY DEF Trace, mutator, Allocated, Roots, OnStack, OpenUpvalues
  <1>4. o \in Allocated /\ Kids(heap[o]) \subseteq Allocated
    BY <1>1, <1>3 DEF IInv, TypeOK, AliveInv, Alive
  <1>5. TypeOK'
    <2>1. marked' \subseteq Allocated' /\ gray' \subseteq marked' /\ unswept' \subseteq Allocated'
      BY <1>1, <1>2, <1>3, <1>4 DEF IInv, TypeOK
    <2> QED BY <2>1, <1>3 DEF IInv, TypeOK, Trace, mutator
  <1>6. PhaseInv'
    <2>1. Roots' \subseteq marked'
      BY <1>2, <1>3 DEF IInv, PhaseInv
    <2>2. ASSUME NEW x \in marked' \ gray' PROVE Kids(heap'[x]) \subseteq marked'
      <3>1. CASE x = o
        BY <3>1, <1>2, <1>3
      <3>2. CASE x # o
        <4>1. x \in marked \ gray
          BY <3>2, <1>2
        <4> QED BY <4>1, <1>2, <1>3 DEF IInv, PhaseInv
      <3> QED BY <3>1, <3>2
    <2> QED BY <2>1, <2>2, <1>3 DEF PhaseInv
  <1>7. AliveInv'
    BY <1>3 DEF IInv, AliveInv, Alive
  <1>8. RoutineInv'
    BY <1>3 DEF IInv, RoutineInv, Trace, mutator, routine, Top
  <1> QED BY <1>5, <1>6, <1>7, <1>8 DEF IInv

\* What is marked when no object is gray is all the sweep will keep.
LEMMA StartSweepKeeps == IInv /\ StartSweep => IInv'
  <1> SUFFICES ASSUME IInv, StartSweep PROVE IInv'
    OBVIOUS
  <1>1. /\ gc = "trace" /\ gc' = "sweep" /\ heap' = heap /\ Allocated' = Allocated
        /\ Roots' = Roots /\ unswept' = Allocated /\ strings' = RemoveWhite
        /\ marked' = marked /\ gray = {} /\ gray' = {}
    BY DEF StartSweep, mutator, Allocated, Roots, OnStack, OpenUpvalues
  <1>2. Alive' = marked
    BY <1>1 DEF Alive
  <1>3. IsFunction(strings') /\ Strings(strings') \subseteq marked
    BY <1>1 DEF IsFunction, Strings, RemoveWhite, IsString
  <1>4. TypeOK'
    BY <1>1, <1>3 DEF IInv, TypeOK, StartSweep, mutator
  <1>5. PhaseInv'
    BY <1>1 DEF IInv, TypeOK, PhaseInv
  <1>6. AliveInv'
    BY <1>1, <1>2, <1>3 DEF IInv, PhaseInv, AliveInv
  <1>7. RoutineInv'
    BY <1>1 DEF IInv, RoutineInv, StartSweep, mutator, routine, Top
  <1> QED BY <1>4, <1>5, <1>6, <1>7 DEF IInv

\* An object that is swept is freed when it is not marked, and kept otherwise.
LEMMA SweepKeeps == IInv /\ Sweep => IInv'
  <1> SUFFICES ASSUME IInv, Sweep PROVE IInv'
    OBVIOUS
  <1> DEFINE o == CHOOSE x \in unswept : TRUE
  <1>1. o \in unswept /\ o \in Allocated /\ o \in Addr
    BY DEF Sweep, IInv, TypeOK, Allocated
  <1>2. /\ gc = "sweep" /\ gc' = "sweep" /\ Roots' = Roots /\ strings' = strings /\ gray' = {}
        /\ unswept' = unswept \ {o} /\ marked' = marked \ {o}
        /\ heap' = IF o \in marked THEN heap ELSE [heap EXCEPT ![o] = Free]
    BY DEF Sweep, IInv, PhaseInv, mutator, Roots, OnStack, OpenUpvalues
  <1> HIDE DEF o
  <1>3. /\ IsFunction(heap') /\ DOMAIN heap' = Addr
        /\ \A x \in Addr \ {o} : heap'[x] = heap[x]
        /\ heap'[o] = IF o \in marked THEN heap[o] ELSE Free
    BY <1>1, <1>2 DEF IInv, TypeOK, IsFunction
  <1>4. Allocated' = IF o \in marked THEN Allocated ELSE Allocated \ {o}
    BY <1>1, <1>3 DEF Allocated
  <1>5. marked \subseteq Allocated /\ unswept \subseteq Allocated /\ marked \subseteq unswept
    BY <1>2 DEF IInv, TypeOK, PhaseInv
  <1>6. Alive' = Alive
    BY <1>1, <1>2, <1>4, <1>5 DEF Alive
  <1>7. \A x \in Alive : heap'[x] = heap[x] /\ x \in Addr
    BY <1>1, <1>2, <1>3, <1>5 DEF Alive, Allocated
  <1>8. TypeOK'
    <2>1. \A x \in Addr : heap'[x] = Free \/ Valid(heap'[x])
      BY <1>3 DEF IInv, TypeOK
    <2>2. marked' \subseteq Allocated' /\ unswept' \subseteq Allocated'
      BY <1>2, <1>4, <1>5
    <2> QED BY <2>1, <2>2, <1>2, <1>3 DEF IInv, TypeOK, Sweep, mutator
  <1>9. PhaseInv'
    BY <1>2, <1>5 DEF PhaseInv
  <1>10. AliveInv'
    BY <1>2, <1>6, <1>7 DEF IInv, AliveInv
  <1>11. RoutineInv'
    BY <1>2 DEF IInv, RoutineInv, Sweep, mutator, routine, Top
  <1> QED BY <1>8, <1>9, <1>10, <1>11 DEF IInv

LEMMA EndCollectionKeeps == IInv /\ EndCollection => IInv'
  <1> SUFFICES ASSUME IInv, EndCollection PROVE IInv'
    OBVIOUS
  <1>1. /\ gc = "sweep" /\ gc' = "off" /\ heap' = heap /\ Allocated' = Allocated
        /\ Roots' = Roots /\ unswept = {} /\ unswept' = {} /\ strings' = strings
        /\ marked' = {} /\ marked = {} /\ gray' = {}
    BY DEF EndCollection, IInv, PhaseInv, mutator, Allocated, Roots, OnStack, OpenUpvalues
  <1>2. Alive' = Alive
    BY <1>1 DEF Alive
  <1>3. TypeOK'
    BY <1>1 DEF IInv, TypeOK, EndCollection, mutator
  <1>4. PhaseInv'
    BY <1>1 DEF PhaseInv
  <1>5. AliveInv'
    BY <1>1, <1>2 DEF IInv, AliveInv
  <1>6. RoutineInv'
    BY <1>1 DEF IInv, RoutineInv, EndCollection, mutator, routine, Top
  <1> QED BY <1>3, <1>4, <1>5, <1>6 DEF IInv

-----------------------------------------------------------------------------
(* The routines.  Each keeps what is allocated allocated.                  *)

\* The places where the routine in progress may go on are different.
USE DEF At, Ready, Do, Finish

\* A string that is interned is allocated.
LEMMA FoundIsAllocated ==
  ASSUME OffInv, NEW text, FindString(text) # None
  PROVE  FindString(text) \in Allocated /\ FindString(text) \in Addr
  <1> DEFINE hits == {p \in DOMAIN strings : /\ IsString(strings[p])
                                             /\ heap[strings[p]].text = text
                                             /\ Reaches(text, p)}
  <1>1. hits # {} /\ FindString(text) = strings[CHOOSE p \in hits : TRUE]
    BY DEF FindString
  <1>2. (CHOOSE p \in hits : TRUE) \in hits
    BY <1>1
  <1>3. FindString(text) \in Strings(strings)
    <2>1. \A p \in hits : strings[p] \in Strings(strings)
      BY DEF Strings
    <2> HIDE DEF hits
    <2> QED BY <1>1, <1>2, <2>1
  <1> QED BY <1>3 DEF OffInv, Allocated

LEMMA CopyStringKeeps == ASSUME NEW text PROVE IInv /\ CopyString(text) => IInv'
  <1> SUFFICES ASSUME IInv, CopyString(text) PROVE IInv'
    OBVIOUS
  <1>1. gc = "off" /\ at = "idle" /\ CollectorIdle
        /\ heap' = heap /\ open' = open /\ strings' = strings /\ Allocated' = Allocated
    BY DEF CopyString, Allocated
  <1>2. OffInv
    BY <1>1, RoutineMayAssume
  <1>3. stack' \in Seq(Addr) /\ Elements(stack') \subseteq Allocated
    <2>1. CASE FindString(text) # None
      <3>1. FindString(text) \in Allocated /\ FindString(text) \in Addr
        BY <1>2, <2>1, FoundIsAllocated
      <3>2. stack' = Append(stack, FindString(text))
        BY <2>1 DEF CopyString, Push
      <3> QED BY <1>2, <3>1, <3>2, Pushed DEF OffInv
    <2>2. CASE FindString(text) = None
      BY <2>2, <1>2 DEF CopyString, OffInv
    <2> QED BY <2>1, <2>2
  <1>4. OffInv'
    BY <1>1, <1>2, <1>3 DEF OffInv
  <1>5. RoutineInv'
    BY <1>1 DEF CopyString, RoutineInv, routine
  <1> QED BY <1>1, <1>4, <1>5, RoutineMustKeep

LEMMA AllocateCharsKeeps == IInv /\ AllocateChars => IInv'
  <1> SUFFICES ASSUME IInv, AllocateChars PROVE IInv'
    OBVIOUS
  <1>1. gc = "off" /\ CollectorIdle /\ UNCHANGED <<heap, stack, open, strings>>
    BY DEF AllocateChars
  <1>2. OffInv
    BY <1>1, RoutineMayAssume
  <1>3. OffInv'
    BY <1>1, <1>2 DEF OffInv, Allocated
  <1>4. RoutineInv'
    BY DEF AllocateChars, RoutineInv
  <1> QED BY <1>1, <1>3, <1>4, RoutineMustKeep

LEMMA AllocateStringKeeps == IInv /\ AllocateString => IInv'
  <1> SUFFICES ASSUME IInv, AllocateString PROVE IInv'
    OBVIOUS
  <1> DEFINE a == NewAddress
             x == New("string", local)
  <1>1. gc = "off" /\ CollectorIdle /\ UNCHANGED <<open, strings>>
        /\ heap' = [heap EXCEPT ![a] = x] /\ stack' = Append(stack, a) /\ at' = "intern"
    BY DEF AllocateString, Push
  <1>2. OffInv /\ a \in Addr /\ Valid(x) /\ Kids(x) = {}
    BY <1>1, RoutineMayAssume, NewAddressIsFree, NewIsValid, TypeNames DEF AllocateString
  <1> HIDE DEF a, x
  <1>3. /\ Allocated' = Allocated \cup {a}
        /\ IsFunction(heap') /\ DOMAIN heap' = Addr
        /\ \A o \in Addr : heap'[o] = Free \/ Valid(heap'[o])
        /\ \A o \in Allocated' : Kids(heap'[o]) \subseteq Allocated'
    BY <1>1, <1>2, ObjectReplaced
  <1>4. stack' \in Seq(Addr) /\ stack' # <<>> /\ Elements(stack') \subseteq Allocated'
    BY <1>1, <1>2, <1>3, Pushed DEF OffInv
  <1>5. OffInv'
    BY <1>1, <1>2, <1>3, <1>4 DEF OffInv
  <1>6. RoutineInv'
    BY <1>1, <1>4 DEF RoutineInv
  <1> QED BY <1>1, <1>5, <1>6, RoutineMustKeep

LEMMA InternKeeps == IInv /\ Intern => IInv'
  <1> SUFFICES ASSUME IInv, Intern PROVE IInv'
    OBVIOUS
  <1>1. gc = "off" /\ CollectorIdle /\ UNCHANGED <<heap, stack, open>> /\ Allocated' = Allocated
        /\ stack # <<>>
    BY DEF Intern, Allocated, IInv, RoutineInv
  <1>2. OffInv /\ Top \in Allocated
    BY <1>1, RoutineMayAssume, TopAllocated
  <1>3. CASE NeedsRoom
    <2> DEFINE fresh == [p \in 0 .. GrownCapacity - 1 |-> None]
    <2>1. UNCHANGED strings /\ at' = "rehash" /\ collected' = TRUE /\ local'.fresh = fresh
      BY <1>3 DEF Intern
    <2>2. IsFunction(fresh) /\ Strings(fresh) = {}
      BY DEF IsFunction, Strings, IsString
    <2> HIDE DEF fresh
    <2>3. OffInv'
      BY <1>1, <1>2, <2>1 DEF OffInv
    <2>4. RoutineInv'
      BY <1>1, <2>1, <2>2 DEF RoutineInv, CollectorIdle
    <2> QED BY <1>1, <2>3, <2>4, RoutineMustKeep
  <1>4. CASE ~NeedsRoom
    <2> DEFINE p == FreeEntry(strings, heap[Top].text)
    <2>1. strings' = [strings EXCEPT ![p] = Top] /\ at' = "idle"
      BY <1>4 DEF Intern
    <2> HIDE DEF p
    <2>2. IsFunction(strings') /\ Strings(strings') \subseteq Allocated
      BY <1>2, <2>1, EntrySet DEF OffInv
    <2>3. OffInv'
      BY <1>1, <1>2, <2>2 DEF OffInv
    <2>4. RoutineInv'
      BY <2>1 DEF RoutineInv
    <2> QED BY <1>1, <2>3, <2>4, RoutineMustKeep
  <1> QED BY <1>3, <1>4

\* Only strings of the old array are moved to the new one.
LEMMA RehashKeeps == IInv /\ Rehash => IInv'
  <1> SUFFICES ASSUME IInv, Rehash PROVE IInv'
    OBVIOUS
  <1>1. /\ gc = "off" /\ CollectorIdle /\ UNCHANGED <<heap, stack, open>> /\ Allocated' = Allocated
        /\ stack # <<>> /\ at = "rehash" /\ collected
        /\ IsFunction(local.fresh) /\ Strings(local.fresh) \subseteq Allocated
    BY DEF Rehash, Allocated, IInv, RoutineInv
  <1>2. OffInv
    BY <1>1, RoutineMayAssume
  <1>3. CASE local.next \in DOMAIN strings
    <2> DEFINE s == strings[local.next]
               p == FreeEntry(local.fresh, heap[s].text)
    <2>1. /\ UNCHANGED <<strings, at, collected>>
          /\ local'.fresh = IF ~IsString(s) THEN local.fresh ELSE [local.fresh EXCEPT ![p] = s]
      BY <1>3 DEF Rehash
    <2>2. IsString(s) => s \in Allocated
      BY <1>2, <1>3 DEF OffInv, Strings
    <2> HIDE DEF s, p
    <2>3. IsFunction(local'.fresh) /\ Strings(local'.fresh) \subseteq Allocated
      <3>1. CASE IsString(s)
        <4>1. local'.fresh = [local.fresh EXCEPT ![p] = s]
          BY <2>1, <3>1
        <4>2. /\ IsFunction([local.fresh EXCEPT ![p] = s])
              /\ Strings([local.fresh EXCEPT ![p] = s]) \subseteq Strings(local.fresh) \cup {s}
          BY <1>1, EntrySet
        <4> QED BY <1>1, <2>2, <3>1, <4>1, <4>2
      <3>2. CASE ~IsString(s)
        BY <1>1, <2>1, <3>2
      <3> QED BY <3>1, <3>2
    <2>4. OffInv'
      BY <1>1, <1>2, <2>1 DEF OffInv
    <2>5. RoutineInv'
      BY <1>1, <2>1, <2>3 DEF RoutineInv, CollectorIdle
    <2> QED BY <1>1, <2>4, <2>5, RoutineMustKeep
  <1>4. CASE local.next \notin DOMAIN strings
    <2>1. strings' = local.fresh /\ at' = "intern"
      BY <1>4 DEF Rehash
    <2>2. OffInv'
      BY <1>1, <1>2, <2>1 DEF OffInv
    <2>3. RoutineInv'
      BY <1>1, <2>1 DEF RoutineInv
    <2> QED BY <1>1, <2>2, <2>3, RoutineMustKeep
  <1> QED BY <1>3, <1>4

LEMMA NewObjectKeeps == IInv /\ NewObject => IInv'
  <1> SUFFICES ASSUME IInv, NewObject PROVE IInv'
    OBVIOUS
  <1>1. gc = "off" /\ CollectorIdle /\ UNCHANGED <<heap, stack, open, strings>>
    BY DEF NewObject
  <1>2. OffInv
    BY <1>1, RoutineMayAssume
  <1>3. OffInv'
    BY <1>1, <1>2 DEF OffInv, Allocated
  <1>4. RoutineInv'
    BY <1>1 DEF NewObject, RoutineInv, CollectorIdle
  <1> QED BY <1>1, <1>3, <1>4, RoutineMustKeep

LEMMA AllocateObjectKeeps == IInv /\ AllocateObject => IInv'
  <1> SUFFICES ASSUME IInv, AllocateObject PROVE IInv'
    OBVIOUS
  <1> DEFINE a == NewAddress
             n == New(container.type, None)
             h == Holding(n, container.made, {Top})
  <1>1. gc = "off" /\ CollectorIdle /\ UNCHANGED <<open, strings>> /\ at' = "idle"
    BY DEF AllocateObject
  <1>2. OffInv /\ a \in Addr
    BY <1>1, RoutineMayAssume, NewAddressIsFree DEF AllocateObject
  <1>3. Valid(n) /\ Kids(n) = {} /\ Valid(h) /\ Kids(h) \subseteq {Top}
    BY NewIsValid, HoldingIsValid, ContainersAssumption DEF IInv, TypeOK
  <1>4. PICK x : /\ Valid(x) /\ heap' = [heap EXCEPT ![a] = x]
                 /\ \/ container.made = None /\ Kids(x) = {} /\ stack' = Append(stack, a)
                    \/ /\ container.made # None /\ Kids(x) \subseteq {Top}
                       /\ stack' = Append(Below(1), a)
    BY <1>3 DEF AllocateObject, Push
  <1> HIDE DEF a, n, h
  <1>5. container.made # None => stack # <<>> /\ Top \in Allocated
    BY <1>2, TopAllocated DEF IInv, RoutineInv, AllocateObject
  <1>6. /\ Allocated' = Allocated \cup {a}
        /\ IsFunction(heap') /\ DOMAIN heap' = Addr
        /\ \A o \in Addr : heap'[o] = Free \/ Valid(heap'[o])
        /\ \A o \in Allocated' : Kids(heap'[o]) \subseteq Allocated'
    BY <1>2, <1>4, <1>5, ObjectReplaced
  <1>7. \E s \in Seq(Addr) : Elements(s) \subseteq Allocated /\ stack' = Append(s, a)
    <2>1. CASE container.made = None
      BY <2>1, <1>2, <1>4 DEF OffInv
    <2>2. CASE container.made # None
      <3>1. Len(stack) - 1 \in 0 .. Len(stack)
        BY <2>2, <1>2, <1>5, TopOnStack DEF OffInv
      <3> QED BY <2>2, <3>1, <1>2, <1>4, StackCut DEF Below
    <2> QED BY <2>1, <2>2
  <1>8. stack' \in Seq(Addr) /\ Elements(stack') \subseteq Allocated'
    BY <1>2, <1>6, <1>7, Pushed
  <1>9. OffInv'
    BY <1>1, <1>2, <1>6, <1>8 DEF OffInv
  <1>10. RoutineInv'
    BY <1>1 DEF RoutineInv
  <1> QED BY <1>1, <1>9, <1>10, RoutineMustKeep

LEMMA WriteKeeps == IInv /\ Write => IInv'
  <1> SUFFICES ASSUME IInv, Write PROVE IInv'
    OBVIOUS
  <1>1. gc = "off" /\ CollectorIdle /\ UNCHANGED <<heap, open, strings>> /\ Len(stack) > 1
    BY DEF Write
  <1>2. PICK how \in Appends : /\ at' = "write" /\ local' = [how |-> how, value |-> Top]
                               /\ stack' = IF how = "popped" THEN Below(1) ELSE stack
    BY DEF Write
  <1>3. OffInv /\ how \in {"guarded", "popped"}
    BY <1>1, RoutineMayAssume, ConstantsAssumption
  <1>4. CASE how = "guarded"
    <2>1. stack' = stack
      BY <1>2, <1>4
    <2>2. OffInv'
      BY <1>1, <1>3, <2>1 DEF OffInv, Allocated
    <2>3. RoutineInv'
      BY <1>1, <1>2, <1>4, <2>1 DEF RoutineInv, Top
    <2> QED BY <1>1, <2>2, <2>3, RoutineMustKeep
  <1>5. CASE how = "popped"
    <2>1. stack \in Seq(Addr) /\ Len(stack) - 1 \in 0 .. Len(stack)
      BY <1>1, <1>3 DEF OffInv
    <2>2. stack' = SubSeq(stack, 1, Len(stack) - 1)
      BY <1>2, <1>5 DEF Below
    <2>3. /\ stack' \in Seq(Addr) /\ Elements(stack') \subseteq Elements(stack)
          /\ Len(stack') = Len(stack) - 1
      BY <2>1, <2>2, Prefix
    <2>4. stack' # <<>>
      BY <1>1, <2>1, <2>3
    <2>5. OffInv'
      BY <1>1, <1>3, <2>3 DEF OffInv, Allocated
    <2>6. RoutineInv'
      BY <1>1, <1>2, <1>5, <2>4 DEF RoutineInv
    <2> QED BY <1>1, <2>5, <2>6, RoutineMustKeep
  <1> QED BY <1>3, <1>4, <1>5

LEMMA StoreValueKeeps == IInv /\ StoreValue => IInv'
  <1> SUFFICES ASSUME IInv, StoreValue PROVE IInv'
    OBVIOUS
  <1> DEFINE v == local.value
             a == IF local.how = "guarded" THEN Second ELSE Top
             x == Adding(heap[a], container.stored, v)
  <1>1. /\ gc = "off" /\ CollectorIdle /\ UNCHANGED <<open, strings>> /\ at' = "idle"
        /\ v \in Allocated
        /\ \/ local.how = "guarded" /\ Len(stack) > 1
           \/ local.how = "popped" /\ stack # <<>>
    BY DEF StoreValue, IInv, RoutineInv
  <1>2. OffInv /\ stack # <<>>
    BY <1>1, RoutineMayAssume DEF OffInv
  <1>3. /\ heap' = [heap EXCEPT ![a] = x]
        /\ stack' = IF local.how = "guarded" THEN SubSeq(stack, 1, Len(stack) - 1) ELSE stack
    BY DEF StoreValue, Below
  <1>4. a \in Allocated /\ a \in Addr /\ Valid(heap[a])
    BY <1>1, <1>2, TopAllocated DEF OffInv, Second, Elements, Allocated
  <1>5. Valid(x) /\ Kids(x) \subseteq Kids(heap[a]) \cup {v}
    BY <1>4, AddingIsValid
  <1> HIDE DEF v, a
  <1>6. Kids(x) \subseteq Allocated
    BY <1>1, <1>2, <1>4, <1>5 DEF OffInv
  <1> HIDE DEF x
  <1>7. /\ Allocated' = Allocated
        /\ IsFunction(heap') /\ DOMAIN heap' = Addr
        /\ \A o \in Addr : heap'[o] = Free \/ Valid(heap'[o])
        /\ \A o \in Allocated' : Kids(heap'[o]) \subseteq Allocated'
    BY <1>2, <1>3, <1>4, <1>5, <1>6, ObjectChanged
  <1>8. stack' \in Seq(Addr) /\ Elements(stack') \subseteq Allocated'
    <2>1. Len(stack) - 1 \in 0 .. Len(stack)
      BY <1>2, TopOnStack DEF OffInv
    <2>2. CASE local.how = "guarded"
      BY <2>1, <2>2, <1>2, <1>3, <1>7, StackCut
    <2>3. CASE local.how # "guarded"
      BY <2>3, <1>2, <1>3, <1>7 DEF OffInv
    <2> QED BY <2>2, <2>3
  <1>9. OffInv'
    BY <1>1, <1>2, <1>7, <1>8 DEF OffInv
  <1>10. RoutineInv'
    BY <1>1 DEF RoutineInv
  <1> QED BY <1>1, <1>9, <1>10, RoutineMustKeep

LEMMA CaptureKeeps == ASSUME NEW slot \in 1 .. StackMax PROVE IInv /\ Capture(slot) => IInv'
  <1> SUFFICES ASSUME IInv, Capture(slot) PROVE IInv'
    OBVIOUS
  <1>1. gc = "off" /\ CollectorIdle /\ UNCHANGED <<stack, open, strings>> /\ stack # <<>>
        /\ at = "idle"
    BY DEF Capture
  <1>2. OffInv /\ Top \in Allocated /\ Top \in Addr /\ Valid(heap[Top])
    BY <1>1, RoutineMayAssume, TopAllocated
  <1>3. CASE open[slot] # None
    <2> DEFINE x == Adding(heap[Top], "upvalues", open[slot])
    <2>1. heap' = [heap EXCEPT ![Top] = x] /\ at' = at
      BY <1>3 DEF Capture, routine
    <2>2. Valid(x) /\ Kids(x) \subseteq Kids(heap[Top]) \cup {open[slot]}
      BY <1>2, AddingIsValid
    <2>3. Kids(x) \subseteq Allocated
      BY <1>2, <1>3, <2>2 DEF OffInv
    <2> HIDE DEF x
    <2>4. /\ Allocated' = Allocated
          /\ IsFunction(heap') /\ DOMAIN heap' = Addr
          /\ \A o \in Addr : heap'[o] = Free \/ Valid(heap'[o])
          /\ \A o \in Allocated' : Kids(heap'[o]) \subseteq Allocated'
      BY <1>2, <2>1, <2>2, <2>3, ObjectChanged
    <2>5. OffInv'
      BY <1>1, <1>2, <2>4 DEF OffInv
    <2>6. RoutineInv'
      BY <1>1, <2>1 DEF RoutineInv
    <2> QED BY <1>1, <2>5, <2>6, RoutineMustKeep
  <1>4. CASE open[slot] = None
    <2>1. at' = "upvalue" /\ heap' = heap
      BY <1>4 DEF Capture
    <2>2. OffInv'
      BY <1>1, <1>2, <2>1 DEF OffInv, Allocated
    <2>3. RoutineInv'
      BY <1>1, <2>1 DEF RoutineInv
    <2> QED BY <1>1, <2>2, <2>3, RoutineMustKeep
  <1> QED BY <1>3, <1>4

LEMMA AllocateUpvalueKeeps == IInv /\ AllocateUpvalue => IInv'
  <1> SUFFICES ASSUME IInv, AllocateUpvalue PROVE IInv'
    OBVIOUS
  <1> DEFINE a == NewAddress
             x == New("upvalue", None)
             y == Adding(heap[Top], "upvalues", a)
  <1>1. gc = "off" /\ CollectorIdle /\ UNCHANGED <<stack, strings>> /\ at' = "idle"
        /\ stack # <<>> /\ open' = [open EXCEPT ![local] = a]
    BY DEF AllocateUpvalue, IInv, RoutineInv
  <1>2. OffInv /\ Top \in Allocated /\ Top \in Addr /\ Valid(heap[Top])
    BY <1>1, RoutineMayAssume, TopAllocated
  <1>3. a \in Addr /\ a \notin Allocated /\ Valid(x) /\ Kids(x) = {}
    BY NewAddressIsFree, NewIsValid, TypeNames DEF AllocateUpvalue
  <1>4. Valid(y) /\ Kids(y) \subseteq Kids(heap[Top]) \cup {a}
    BY <1>2, AddingIsValid
  <1>5. Top # a
    BY <1>2, <1>3
  <1> HIDE DEF a, x
  <1>6. /\ DOMAIN heap' = Addr /\ IsFunction(heap') /\ heap'[a] = x /\ heap'[Top] = y
        /\ \A o \in Addr \ {a, Top} : heap'[o] = heap[o]
    <2>1. heap' = [heap EXCEPT ![a] = x, ![Top] = Adding(@, "upvalues", a)]
      BY DEF AllocateUpvalue, a, x
    <2>2. heap' = [o \in Addr |-> IF o = Top THEN y ELSE IF o = a THEN x ELSE heap[o]]
      BY <1>2, <1>3, <1>5, <2>1 DEF OffInv, IsFunction
    <2> HIDE DEF y
    <2> QED BY <1>2, <1>3, <1>5, <2>2 DEF IsFunction
  <1> HIDE DEF y
  <1>7. Allocated' = Allocated \cup {a}
    <2> DEFINE t == Top
    <2>1. x # Free /\ y # Free /\ t \in Allocated /\ heap'[t] = y
      BY <1>2, <1>3, <1>4, <1>6, ValidIsNotFree
    <2>2. \A o \in Addr \ {a, t} : heap'[o] = heap[o]
      BY <1>6
    <2> HIDE DEF t
    <2> QED BY <1>3, <1>6, <2>1, <2>2 DEF Allocated
  <1>8. \A o \in Addr : heap'[o] = Free \/ Valid(heap'[o])
    <2> DEFINE t == Top
    <2>1. heap'[t] = y /\ \A o \in Addr \ {a, t} : heap'[o] = heap[o]
      BY <1>6
    <2> HIDE DEF t
    <2> QED BY <1>2, <1>3, <1>4, <1>6, <2>1 DEF OffInv
  <1>9. \A o \in Allocated' : Kids(heap'[o]) \subseteq Allocated'
    <2>1. Kids(y) \subseteq Allocated' /\ Kids(x) \subseteq Allocated'
      BY <1>2, <1>3, <1>4, <1>7 DEF OffInv
    <2>2. \A o \in Allocated \ {Top} : heap'[o] = heap[o] /\ Kids(heap[o]) \subseteq Allocated
      BY <1>2, <1>3, <1>6 DEF OffInv, Allocated
    <2> QED BY <2>1, <2>2, <1>6, <1>7
  <1>10. IsFunction(open') /\ DOMAIN open' = 1 .. StackMax
         /\ \A i \in DOMAIN open' : open'[i] \in Allocated' \cup {None}
    BY <1>1, <1>2, <1>7 DEF OffInv, IsFunction
  <1>11. OffInv'
    BY <1>1, <1>2, <1>6, <1>7, <1>8, <1>9, <1>10 DEF OffInv
  <1>12. RoutineInv'
    BY <1>1 DEF RoutineInv
  <1> QED BY <1>1, <1>11, <1>12, RoutineMustKeep

\* An upvalue that is closed refers to what its slot held.
LEMMA CloseUpvaluesKeeps ==
  ASSUME OffInv, NEW slot \in Nat \ {0}, CloseUpvalues(slot)
  PROVE  /\ Allocated' = Allocated
         /\ IsFunction(heap') /\ DOMAIN heap' = Addr
         /\ \A o \in Addr : heap'[o] = Free \/ Valid(heap'[o])
         /\ \A o \in Allocated : Kids(heap'[o]) \subseteq Allocated
         /\ IsFunction(open') /\ DOMAIN open' = 1 .. StackMax
         /\ \A i \in DOMAIN open' : open'[i] \in Allocated \cup {None}
  <1> DEFINE closing == {open[i] : i \in slot .. StackMax} \ {None}
             values(o) == {stack[i] : i \in {k \in DOMAIN stack : open[k] = o}}
             closed(o) == Holding(heap[o], "closed", values(o))
  <1>1. closing \subseteq Allocated
    BY ConstantsAssumption DEF OffInv
  <1>2. \A o : values(o) \subseteq Allocated
    BY DEF OffInv, Elements
  <1>3. ASSUME NEW o \in closing
        PROVE  Valid(closed(o)) /\ Kids(closed(o)) \subseteq Allocated
    <2>1. o \in Allocated /\ o \in Addr /\ Valid(heap[o])
      BY <1>1 DEF OffInv, Allocated
    <2>2. Valid(closed(o)) /\ Kids(closed(o)) \subseteq Kids(heap[o]) \cup values(o)
      BY <2>1, HoldingIsValid
    <2> HIDE DEF values, closed
    <2> QED BY <1>2, <2>1, <2>2 DEF OffInv
  <1>4. heap' = [o \in Addr |-> IF o \in closing THEN closed(o) ELSE heap[o]]
    BY DEF CloseUpvalues
  <1>5. IsFunction(open') /\ DOMAIN open' = 1 .. StackMax
        /\ \A i \in DOMAIN open' : open'[i] \in Allocated \cup {None}
    BY DEF OffInv, CloseUpvalues, IsFunction
  <1> HIDE DEF closing, closed
  <1>6. DOMAIN heap' = Addr /\ IsFunction(heap')
        /\ \A o \in Addr : heap'[o] = IF o \in closing THEN closed(o) ELSE heap[o]
    BY <1>4 DEF IsFunction
  <1>7. Allocated' = Allocated
    BY <1>1, <1>3, <1>6, ValidIsNotFree DEF Allocated
  <1>8. \A o \in Addr : heap'[o] = Free \/ Valid(heap'[o])
    BY <1>3, <1>6 DEF OffInv
  <1>9. \A o \in Allocated : Kids(heap'[o]) \subseteq Allocated
    BY <1>3, <1>6 DEF OffInv, Allocated
  <1> QED BY <1>5, <1>6, <1>7, <1>8, <1>9

LEMMA PopKeeps == IInv /\ Pop => IInv'
  <1> SUFFICES ASSUME IInv, Pop PROVE IInv'
    OBVIOUS
  <1>1. gc = "off" /\ at = "idle" /\ CollectorIdle /\ UNCHANGED <<routine, strings>>
        /\ stack # <<>> /\ CloseUpvalues(Len(stack)) /\ stack' = SubSeq(stack, 1, Len(stack) - 1)
    BY DEF Pop, Below
  <1>2. OffInv /\ Len(stack) \in Nat \ {0} /\ Len(stack) - 1 \in 0 .. Len(stack)
    BY <1>1, RoutineMayAssume, TopOnStack DEF OffInv
  <1>3. stack' \in Seq(Addr) /\ Elements(stack') \subseteq Allocated
    BY <1>1, <1>2, StackCut
  <1>4. OffInv'
    BY <1>1, <1>2, <1>3, CloseUpvaluesKeeps DEF OffInv
  <1>5. RoutineInv'
    BY <1>1 DEF RoutineInv, routine
  <1> QED BY <1>1, <1>4, <1>5, RoutineMustKeep

LEMMA ReturnKeeps == ASSUME NEW slot \in 1 .. StackMax PROVE IInv /\ Return(slot) => IInv'
  <1> SUFFICES ASSUME IInv, Return(slot) PROVE IInv'
    OBVIOUS
  <1>1. gc = "off" /\ at = "idle" /\ CollectorIdle /\ UNCHANGED <<routine, strings>>
        /\ slot < Len(stack) /\ CloseUpvalues(slot)
        /\ stack' = Append(SubSeq(stack, 1, slot - 1), Top)
    BY DEF Return
  <1>2. OffInv /\ slot \in Nat \ {0} /\ slot - 1 \in 0 .. Len(stack) /\ stack # <<>>
    BY <1>1, RoutineMayAssume, ConstantsAssumption DEF OffInv
  <1>3. Top \in Allocated /\ Top \in Addr
    BY <1>2, TopAllocated
  <1>4. stack' \in Seq(Addr) /\ Elements(stack') \subseteq Allocated
    <2> DEFINE p == SubSeq(stack, 1, slot - 1)
    <2>1. p \in Seq(Addr) /\ Elements(p) \subseteq Allocated
      BY <1>2, StackCut
    <2>2. stack' = Append(p, Top)
      BY <1>1
    <2> HIDE DEF p
    <2>3. Append(p, Top) \in Seq(Addr) /\ Elements(Append(p, Top)) \subseteq Elements(p) \cup {Top}
      BY <1>3, <2>1, Pushed
    <2> QED BY <1>3, <2>1, <2>2, <2>3
  <1>5. OffInv'
    BY <1>1, <1>2, <1>4, CloseUpvaluesKeeps DEF OffInv
  <1>6. RoutineInv'
    BY <1>1 DEF RoutineInv, routine
  <1> QED BY <1>1, <1>5, <1>6, RoutineMustKeep

LEMMA ReadKeeps == IInv /\ Read => IInv'
  <1> SUFFICES ASSUME IInv, Read PROVE IInv'
    OBVIOUS
  <1>1. gc = "off" /\ at = "idle" /\ CollectorIdle /\ UNCHANGED <<routine, heap, open, strings>>
        /\ stack # <<>>
    BY DEF Read
  <1>2. OffInv /\ Top \in Allocated /\ Len(stack) - 1 \in 0 .. Len(stack)
    BY <1>1, RoutineMayAssume, TopAllocated, TopOnStack DEF OffInv
  <1>3. PICK o \in Kids(heap[Top]) : stack' = Append(SubSeq(stack, 1, Len(stack) - 1), o)
    BY DEF Read, Children, Kids, Below
  <1>4. o \in Allocated /\ o \in Addr
    BY <1>2 DEF OffInv, Allocated
  <1>5. stack' \in Seq(Addr) /\ Elements(stack') \subseteq Allocated
    <2> DEFINE p == SubSeq(stack, 1, Len(stack) - 1)
    <2>1. p \in Seq(Addr) /\ Elements(p) \subseteq Allocated
      BY <1>2, StackCut
    <2>2. stack' = Append(p, o)
      BY <1>3
    <2> HIDE DEF p
    <2>3. Append(p, o) \in Seq(Addr) /\ Elements(Append(p, o)) \subseteq Elements(p) \cup {o}
      BY <1>4, <2>1, Pushed
    <2> QED BY <1>4, <2>1, <2>2, <2>3
  <1>6. OffInv'
    BY <1>1, <1>2, <1>5 DEF OffInv, Allocated
  <1>7. RoutineInv'
    BY <1>1 DEF RoutineInv, routine
  <1> QED BY <1>1, <1>6, <1>7, RoutineMustKeep

LEMMA DuplicateKeeps == IInv /\ Duplicate => IInv'
  <1> SUFFICES ASSUME IInv, Duplicate PROVE IInv'
    OBVIOUS
  <1>1. gc = "off" /\ at = "idle" /\ CollectorIdle /\ UNCHANGED <<routine, heap, open, strings>>
    BY DEF Duplicate
  <1>2. OffInv
    BY <1>1, RoutineMayAssume
  <1>3. PICK o \in Elements(stack) : stack' = Append(stack, o)
    BY DEF Duplicate, OnStack, Elements, Push
  <1>4. stack' \in Seq(Addr) /\ Elements(stack') \subseteq Allocated
    BY <1>2, <1>3, Pushed DEF OffInv, Allocated
  <1>5. OffInv'
    BY <1>1, <1>2, <1>4 DEF OffInv, Allocated
  <1>6. RoutineInv'
    BY <1>1 DEF RoutineInv, routine
  <1> QED BY <1>1, <1>5, <1>6, RoutineMustKeep

-----------------------------------------------------------------------------
(* The invariant and what follows from it.                                 *)

LEMMA InitHolds == Init => IInv
  <1> SUFFICES ASSUME Init PROVE IInv
    OBVIOUS
  <1>1. Allocated = {} /\ Roots = {} /\ Alive = {}
    BY DEF Init, Allocated, Roots, OnStack, OpenUpvalues, Alive
  <1>2. TypeOK
    BY <1>1, ConstantsAssumption DEF Init, TypeOK, IsFunction
  <1>3. Strings(strings) = {}
    BY DEF Init, Strings
  <1> QED BY <1>1, <1>2, <1>3 DEF Init, IInv, PhaseInv, AliveInv, RoutineInv

LEMMA StutterKeeps == IInv /\ UNCHANGED vars => IInv'
  <1> SUFFICES ASSUME IInv, UNCHANGED vars PROVE IInv'
    OBVIOUS
  <1>1. Allocated' = Allocated /\ Roots' = Roots
    BY DEF vars, mutator, Allocated, Roots, OnStack, OpenUpvalues
  <1>2. Alive' = Alive
    BY <1>1 DEF vars, Alive
  <1>3. TypeOK' /\ PhaseInv' /\ AliveInv'
    BY <1>1, <1>2 DEF IInv, TypeOK, PhaseInv, AliveInv, vars, mutator
  <1>4. RoutineInv'
    BY <1>1 DEF IInv, RoutineInv, vars, mutator, routine, Top
  <1> QED BY <1>3, <1>4 DEF IInv

LEMMA NextKeeps == IInv /\ [Next]_vars => IInv'
  <1> SUFFICES ASSUME IInv, [Next]_vars PROVE IInv'
    OBVIOUS
  <1>1. CASE Collect
    BY <1>1, CollectKeeps
  <1>2. CASE Collector
    BY <1>2, TraceKeeps, StartSweepKeeps, SweepKeeps, EndCollectionKeeps DEF Collector
  <1>3. CASE Routines
    BY <1>3, CopyStringKeeps, NewObjectKeeps, WriteKeeps, CaptureKeeps, ReturnKeeps,
       PopKeeps, ReadKeeps, DuplicateKeeps DEF Routines
  <1>4. CASE Continue
    BY <1>4, AllocateCharsKeeps, AllocateStringKeeps, InternKeeps, RehashKeeps,
       AllocateObjectKeeps, StoreValueKeeps, AllocateUpvalueKeeps DEF Continue
  <1>5. CASE UNCHANGED vars
    BY <1>5, StutterKeeps
  <1> QED BY <1>1, <1>2, <1>3, <1>4, <1>5 DEF Next

\* What is alive contains all that can be reached from it: every object its
\* members refer to is in it.
LEMMA ReachedIsAlive ==
  ASSUME IInv, NEW starts, starts \subseteq Alive PROVE From(starts) \subseteq Allocated
  <1>1. Alive \subseteq Allocated /\ Alive \in SUBSET Addr
    BY DEF IInv, TypeOK, Alive, Allocated
  <1>2. Closed(Alive)
    BY DEF IInv, AliveInv, Closed, Children, Kids
  <1> QED BY <1>1, <1>2 DEF From

\* The roots are alive, and a value that stays on the stack is one of them.
LEMMA HeldIsAlive == IInv => NothingDangles
  <1> SUFFICES ASSUME IInv PROVE NothingDangles
    OBVIOUS
  <1>1. Roots \subseteq Alive
    BY DEF IInv, AliveInv
  <1>2. CASE at = "write" /\ local.how = "popped"
    BY <1>1, <1>2, ReachedIsAlive DEF NothingDangles
  <1>3. CASE at = "write" /\ local.how # "popped"
    <2>1. stack \in Seq(Addr) /\ stack # <<>> /\ local.value = stack[Len(stack)]
      BY <1>3 DEF IInv, TypeOK, RoutineInv, Top
    <2>2. local.value \in Roots
      BY <2>1, TopOnStack DEF Roots, OnStack, Elements
    <2>3. Held \subseteq Alive
      BY <1>1, <2>2 DEF Held
    <2> QED BY <2>3, ReachedIsAlive DEF NothingDangles, Reachable
  <1>4. CASE at # "write"
    <2>1. Held \subseteq Alive
      BY <1>1, <1>4 DEF Held
    <2> QED BY <2>1, ReachedIsAlive DEF NothingDangles, Reachable
  <1> QED BY <1>2, <1>3, <1>4

\* Wherever a collection takes place and whichever way values are stored,
\* nothing the program can still reach is freed; what a routine holds is not
\* freed either, unless it is a value the routine has popped.
THEOREM OnlyThePoppedAreLost == Spec => []NothingDangles
  BY InitHolds, NextKeeps, HeldIsAlive, PTL DEF Spec

-----------------------------------------------------------------------------
(* What a collection keeps is no more than what can be reached.            *)

\* Every set that holds the roots, and what its members in X refer to, holds X.
Needed(X) ==
    \A S \in SUBSET Addr :
        Roots \subseteq S /\ (\A o \in S \cap X : Kids(heap[o]) \subseteq S) => X \subseteq S

NeededInv ==
    /\ gc = "trace" => Needed(marked)
    /\ gc = "sweep" => Needed(Alive)

\* A gray object is needed, and so is what it refers to.
LEMMA TraceMarksNeeded == IInv /\ NeededInv /\ Trace => NeededInv'
  <1> SUFFICES ASSUME IInv, NeededInv, Trace PROVE NeededInv'
    OBVIOUS
  <1> DEFINE o == CHOOSE x \in gray : TRUE
  <1>1. o \in gray
    BY DEF Trace
  <1>2. marked' = marked \cup Kids(heap[o])
    BY AllFieldsMarked DEF Trace, Blacken, Kids
  <1> HIDE DEF o
  <1>3. gc = "trace" /\ gc' = "trace" /\ heap' = heap /\ Roots' = Roots /\ o \in marked
    BY <1>1 DEF IInv, TypeOK, Trace, mutator, Roots, OnStack, OpenUpvalues
  <1>4. ASSUME NEW S \in SUBSET Addr, Roots \subseteq S,
               \A x \in S \cap marked' : Kids(heap[x]) \subseteq S
        PROVE  marked' \subseteq S
    <2>1. marked \subseteq S
      BY <1>2, <1>3, <1>4 DEF NeededInv, Needed
    <2> QED BY <1>2, <1>3, <1>4, <2>1
  <1>5. Needed(marked)'
    BY <1>3, <1>4 DEF Needed
  <1> QED BY <1>3, <1>5 DEF NeededInv

LEMMA NeededKeeps == IInv /\ NeededInv /\ [Next]_vars => NeededInv'
  <1> SUFFICES ASSUME IInv, NeededInv, [Next]_vars PROVE NeededInv'
    OBVIOUS
  <1>1. CASE Collect
    <2>1. gc' = "trace" /\ marked' = Roots /\ heap' = heap /\ Roots' = Roots
      BY <1>1 DEF Collect, IInv, PhaseInv, Roots, OnStack, OpenUpvalues
    <2> QED BY <2>1 DEF NeededInv, Needed
  <1>2. CASE Trace
    BY <1>2, TraceMarksNeeded
  <1>3. CASE StartSweep
    <2>1. /\ gc = "trace" /\ gc' = "sweep" /\ marked' = marked /\ heap' = heap /\ Roots' = Roots
          /\ Allocated' = unswept'
      BY <1>3 DEF StartSweep, mutator, Allocated, Roots, OnStack, OpenUpvalues
    <2>2. Alive' = marked
      BY <2>1 DEF Alive
    <2> QED BY <2>1, <2>2 DEF NeededInv, Needed
  <1>4. CASE Sweep
    <2> DEFINE o == CHOOSE x \in unswept : TRUE
    <2>1. o \in unswept /\ o \in Allocated /\ o \in Addr
      BY <1>4 DEF Sweep, IInv, TypeOK, Allocated
    <2>2. /\ gc = "sweep" /\ gc' = "sweep" /\ Roots' = Roots
          /\ unswept' = unswept \ {o} /\ marked' = marked \ {o}
          /\ heap' = IF o \in marked THEN heap ELSE [heap EXCEPT ![o] = Free]
      BY <1>4 DEF Sweep, mutator, Roots, OnStack, OpenUpvalues
    <2> HIDE DEF o
    <2>3. /\ \A x \in Addr \ {o} : heap'[x] = heap[x]
          /\ heap'[o] = IF o \in marked THEN heap[o] ELSE Free
      BY <2>1, <2>2 DEF IInv, TypeOK, IsFunction
    <2>4. Allocated' = IF o \in marked THEN Allocated ELSE Allocated \ {o}
      BY <2>1, <2>3 DEF Allocated
    <2>5. marked \subseteq Allocated /\ marked \subseteq unswept
      BY <2>2 DEF IInv, TypeOK, PhaseInv
    <2>6. Alive' = Alive
      BY <2>1, <2>2, <2>4, <2>5 DEF Alive
    <2>7. \A x \in Alive : heap'[x] = heap[x]
      BY <2>1, <2>2, <2>3, <2>5 DEF Alive, Allocated
    <2> QED BY <2>2, <2>6, <2>7 DEF NeededInv, Needed
  <1>5. CASE EndCollection
    BY <1>5 DEF EndCollection, NeededInv
  <1>6. CASE Routines
    BY <1>6 DEF Routines, CopyString, NewObject, Write, Capture, Return, Pop, Read, Duplicate,
       CollectorIdle, NeededInv
  <1>7. CASE Continue
    BY <1>7 DEF Continue, AllocateChars, AllocateString, Intern, Rehash, AllocateObject, StoreValue,
       AllocateUpvalue, CollectorIdle, NeededInv
  <1>8. CASE UNCHANGED vars
    <2>1. Roots' = Roots /\ Alive' = Alive
      BY <1>8 DEF vars, mutator, Alive, Allocated, Roots, OnStack, OpenUpvalues
    <2> QED BY <1>8, <2>1 DEF NeededInv, Needed, vars
  <1> QED BY <1>1, <1>2, <1>3, <1>4, <1>5, <1>6, <1>7, <1>8 DEF Next, Collector

\* When the sweep is over, all that is allocated is alive, and it is needed.
LEMMA SweptIsReachable ==
  IInv /\ NeededInv /\ [Next]_vars => (gc = "sweep" /\ gc' = "off" => Allocated \subseteq Reachable)
  <1> SUFFICES ASSUME IInv, NeededInv, [Next]_vars, gc = "sweep", gc' = "off"
               PROVE  Allocated \subseteq Reachable
    OBVIOUS
  <1>1. EndCollection
    BY DEF Next, Collect, Collector, Trace, StartSweep, Sweep, Routines, CopyString, NewObject,
       Write, Capture, Return, Pop, Read, Duplicate, Continue, AllocateChars, AllocateString,
       Intern, Rehash, AllocateObject, StoreValue, AllocateUpvalue, vars
  <1>2. Alive = Allocated
    BY <1>1 DEF EndCollection, IInv, PhaseInv, Alive
  <1>3. ASSUME NEW S \in SUBSET Addr, Held \subseteq S, Closed(S)
        PROVE  Allocated \subseteq S
    <2>1. \A o \in S \cap Allocated : Kids(heap[o]) \subseteq S
      BY <1>3 DEF Closed, Children, Kids
    <2> QED BY <1>2, <1>3, <2>1 DEF NeededInv, Needed, Held
  <1> QED BY <1>3 DEF Reachable, From, Allocated

\* A collection frees everything that cannot be reached from the roots and from
\* what the routine in progress holds: sweep() leaves no garbage behind.
THEOREM AllGarbageFreed == Spec => FreesAllGarbage
  <1>1. Init => NeededInv
    BY DEF Init, NeededInv
  <1>2. IInv /\ NeededInv /\ [Next]_vars
          => [gc = "sweep" /\ gc' = "off" => Allocated \subseteq Reachable]_vars
    BY SweptIsReachable
  <1> QED BY <1>1, <1>2, InitHolds, NextKeeps, NeededKeeps, PTL DEF Spec, FreesAllGarbage

-----------------------------------------------------------------------------
(* Interning: the table of strings.                                        *)

Size(table) == Cardinality(DOMAIN table)
IsTable(table) == IsFunction(table) /\ Size(table) \in Nat /\ DOMAIN table = 0 .. Size(table) - 1
Used(table) == {p \in DOMAIN table : table[p] # None}
Inserted(table, text, s) == [table EXCEPT ![FreeEntry(table, text)] = s]
InTable(table, text, h) == \E s \in Strings(table) : h[s].text = text

\* No empty entry stops the probe for a string before it comes to the string.
Met(table, text, p) ==
    \A d \in DOMAIN table : Place(text, d, Size(table)) = p =>
        \A e \in 0 .. d - 1 : table[Place(text, e, Size(table))] # None

Sound(table, h) ==
    /\ \A p \in DOMAIN table : IsString(table[p]) =>
          /\ h[table[p]].type = "string" /\ h[table[p]].text \in Contents
          /\ Met(table, h[table[p]].text, p)
    /\ \A p, q \in DOMAIN table :
          IsString(table[p]) /\ IsString(table[q]) /\ h[table[p]].text = h[table[q]].text => p = q

Pending == IF at \in {"intern", "rehash"} THEN {Top} ELSE {}

TableInv ==
    /\ IsTable(strings) /\ Sound(strings, heap)
    /\ \A s \in Alive \ Pending : heap[s].type = "string" => s \in Strings(strings)

CallInv ==
    /\ at \in {"chars", "string"} => local \in Contents /\ ~InTable(strings, local, heap)
    /\ at \in {"intern", "rehash"} =>
          /\ heap[Top].type = "string" /\ heap[Top].text \in Contents
          /\ ~InTable(strings, heap[Top].text, heap)

\* The entries before local.next have been moved.
Moved == {strings[p] : p \in {q \in DOMAIN strings : IsString(strings[q]) /\ q < local.next}}

MoveInv ==
    at = "rehash" =>
        /\ local.next \in 0 .. Capacity
        /\ IsTable(local.fresh) /\ Size(local.fresh) = GrownCapacity
        /\ Sound(local.fresh, heap)
        /\ Strings(local.fresh) = Moved
        /\ Cardinality(Used(local.fresh)) <= local.next

InternInv == TableInv /\ CallInv /\ MoveInv

-----------------------------------------------------------------------------
(* Places in the table.                                                    *)

LEMMA ModUnique ==
  ASSUME NEW n \in Nat \ {0}, NEW q \in Int, NEW r \in 0 .. n - 1
  PROVE  (n * q + r) % n = r
  OBVIOUS

LEMMA Division ==
  ASSUME NEW n \in Nat \ {0}, NEW a \in Int
  PROVE  \E q \in Int : a = n * q + (a % n) /\ a % n \in 0 .. n - 1
  <1>1. a = n * (a \div n) + (a % n) /\ a % n \in 0 .. n - 1
    OBVIOUS
  <1>2. a \div n \in Int
    OBVIOUS
  <1> QED BY <1>1, <1>2

\* A sum modulo n wraps round at most once.
LEMMA ModOfSum ==
  ASSUME NEW n \in Nat \ {0}, NEW a \in Int, NEW i \in 0 .. n - 1
  PROVE  (a + i) % n = IF (a % n) + i < n THEN (a % n) + i ELSE (a % n) + i - n
  <1> DEFINE r == a % n
  <1>1. PICK q \in Int : a = n * q + r /\ r \in 0 .. n - 1
    BY Division
  <1> HIDE DEF r
  <1>2. CASE r + i < n
    <2>1. r + i \in 0 .. n - 1 /\ a + i = n * q + (r + i)
      BY <1>1, <1>2
    <2> QED BY <2>1, <1>2, ModUnique DEF r
  <1>3. CASE ~(r + i < n)
    <2>1. r + i - n \in 0 .. n - 1 /\ a + i = n * (q + 1) + (r + i - n) /\ q + 1 \in Int
      BY <1>1, <1>3
    <2>2. (n * (q + 1) + (r + i - n)) % n = r + i - n
      BY <2>1, ModUnique
    <2> QED BY <2>1, <2>2, <1>3 DEF r
  <1> QED BY <1>2, <1>3 DEF r

\* So does a difference.
LEMMA ModOfDifference ==
  ASSUME NEW n \in Nat \ {0}, NEW a \in Int, NEW i \in 0 .. n - 1
  PROVE  (i - a) % n = IF (a % n) <= i THEN i - (a % n) ELSE i - (a % n) + n
  <1> DEFINE r == a % n
  <1>1. PICK q \in Int : a = n * q + r /\ r \in 0 .. n - 1
    BY Division
  <1> HIDE DEF r
  <1>2. CASE r <= i
    <2>1. i - r \in 0 .. n - 1 /\ i - a = n * (-q) + (i - r) /\ -q \in Int
      BY <1>1, <1>2
    <2>2. (n * (-q) + (i - r)) % n = i - r
      BY <2>1, ModUnique
    <2> QED BY <2>1, <2>2, <1>2 DEF r
  <1>3. CASE ~(r <= i)
    <2>1. i - r + n \in 0 .. n - 1 /\ i - a = n * (-q - 1) + (i - r + n) /\ -q - 1 \in Int
      BY <1>1, <1>3
    <2>2. (n * (-q - 1) + (i - r + n)) % n = i - r + n
      BY <2>1, ModUnique
    <2> QED BY <2>1, <2>2, <1>3 DEF r
  <1> QED BY <1>2, <1>3 DEF r

\* A probe looks at every place once, and comes to p after p - Hash[text] places.
LEMMA EveryPlaceOnce ==
  ASSUME NEW n \in Nat \ {0}, NEW text \in Contents
  PROVE  /\ \A d \in 0 .. n - 1 : Place(text, d, n) \in 0 .. n - 1
         /\ \A d, e \in 0 .. n - 1 : Place(text, d, n) = Place(text, e, n) => d = e
         /\ \A p \in 0 .. n - 1 : LET d == (p - Hash[text]) % n
                                  IN  d \in 0 .. n - 1 /\ Place(text, d, n) = p
  <1> DEFINE a == Hash[text]
             r == a % n
  <1>1. a \in Nat /\ r \in 0 .. n - 1
    BY ConstantsAssumption
  <1>a. a \in Int /\ \A i : Place(text, i, n) = (a + i) % n
    BY <1>1 DEF Place
  <1> HIDE DEF a
  <1>2. \A d \in 0 .. n - 1 : Place(text, d, n) = IF r + d < n THEN r + d ELSE r + d - n
    <2> TAKE d \in 0 .. n - 1
    <2>1. (a + d) % n = IF (a % n) + d < n THEN (a % n) + d ELSE (a % n) + d - n
      BY <1>a, ModOfSum, Zenon
    <2> QED BY <1>a, <2>1
  <1>3. \A p \in 0 .. n - 1 : (p - a) % n = IF r <= p THEN p - r ELSE p - r + n
    <2> TAKE p \in 0 .. n - 1
    <2>1. (p - a) % n = IF (a % n) <= p THEN p - (a % n) ELSE p - (a % n) + n
      BY <1>a, ModOfDifference, Zenon
    <2> QED BY <2>1
  <1> HIDE DEF r
  <1>4. \A d \in 0 .. n - 1 : Place(text, d, n) \in 0 .. n - 1
    BY <1>1, <1>2
  <1>5. \A d, e \in 0 .. n - 1 : Place(text, d, n) = Place(text, e, n) => d = e
    BY <1>1, <1>2
  <1>6. ASSUME NEW p \in 0 .. n - 1
        PROVE  (p - a) % n \in 0 .. n - 1 /\ Place(text, (p - a) % n, n) = p
    BY <1>1, <1>2, <1>3
  <1> QED BY <1>4, <1>5, <1>6 DEF a

-----------------------------------------------------------------------------
(* The table.                                                              *)

\* The indices of a table from 0 are as many as its size says.
LEMMA IsTableOf ==
  ASSUME NEW t, IsFunction(t), NEW n \in Nat, DOMAIN t = 0 .. n - 1
  PROVE  IsTable(t) /\ Size(t) = n
  <1>1. Size(t) = n
    BY FS_Interval DEF Size
  <1> QED BY <1>1 DEF IsTable

\* tableFindString comes to every string of the table.
LEMMA FindsWhatIsThere ==
  ASSUME IsTable(strings), Sound(strings, heap), NEW s \in Strings(strings)
  PROVE  FindString(heap[s].text) = s
  <1> DEFINE text == heap[s].text
             hits == {p \in DOMAIN strings : /\ IsString(strings[p])
                                             /\ heap[strings[p]].text = text
                                             /\ Reaches(text, p)}
  <1>1. PICK p \in DOMAIN strings : IsString(strings[p]) /\ s = strings[p]
    BY DEF Strings
  <1>2. text \in Contents /\ Met(strings, text, p)
    BY <1>1 DEF Sound
  <1>3. Reaches(text, p)
    <2> DEFINE n == Capacity
               d == (p - Hash[text]) % n
    <2>1. n \in Nat \ {0} /\ DOMAIN strings = 0 .. n - 1 /\ Size(strings) = n
      BY <1>1 DEF IsTable, Size, Capacity
    <2> HIDE DEF n
    <2>2. d \in 0 .. n - 1 /\ Place(text, d, n) = p
      BY <1>1, <1>2, <2>1, EveryPlaceOnce
    <2>3. \A i \in 0 .. d - 1 : strings[Place(text, i, n)] # None
      BY <1>2, <2>1, <2>2 DEF Met
    <2> QED BY <2>3 DEF Reaches, n
  <1>4. p \in hits
    BY <1>1, <1>3
  <1>5. \A q \in hits : q = p
    BY <1>1 DEF Sound
  <1>6. FindString(text) = strings[CHOOSE q \in hits : TRUE]
    <2>1. hits # {}
      BY <1>4
    <2> QED BY <2>1 DEF FindString
  <1>7. (CHOOSE q \in hits : TRUE) = p
    BY <1>4, <1>5
  <1> QED BY <1>1, <1>6, <1>7

\* A text that tableFindString does not find is not in the table.
LEMMA NotFoundIsNotThere ==
  ASSUME IsTable(strings), Sound(strings, heap), NEW text, FindString(text) = None
  PROVE  ~InTable(strings, text, heap)
  <1> SUFFICES ASSUME NEW s \in Strings(strings), heap[s].text = text PROVE FALSE
    BY DEF InTable
  <1>1. s = None
    BY FindsWhatIsThere
  <1> QED BY <1>1 DEF Strings, IsString

\* A string that may be put into a table.
Fits(t, h, s) ==
    /\ IsString(s) /\ h[s].type = "string" /\ h[s].text \in Contents
    /\ ~InTable(t, h[s].text, h)
    /\ \E q \in DOMAIN t : ~IsString(t[q])

\* tableSet puts a string that is not in the table where it will be found, and
\* leaves the probes for the others as they are.
LEMMA InsertSound ==
  ASSUME NEW t, NEW h, NEW s, IsTable(t), Sound(t, h), Fits(t, h, s)
  PROVE  /\ IsTable(Inserted(t, h[s].text, s)) /\ Size(Inserted(t, h[s].text, s)) = Size(t)
         /\ Sound(Inserted(t, h[s].text, s), h)
         /\ Strings(Inserted(t, h[s].text, s)) = Strings(t) \cup {s}
         /\ Used(Inserted(t, h[s].text, s)) = Used(t) \cup {FreeEntry(t, h[s].text)}
  <1> DEFINE text == h[s].text
             p == FreeEntry(t, text)
             new == Inserted(t, text, s)
             n == Size(t)
             frees == {i \in DOMAIN t : ~IsString(t[Place(text, i, n)])}
             m == Min(frees)
  <1>0. /\ IsString(s) /\ h[s].type = "string" /\ h[s].text \in Contents
        /\ ~InTable(t, h[s].text, h) /\ \E q \in DOMAIN t : ~IsString(t[q])
    BY DEF Fits
  <1>1. n \in Nat \ {0} /\ DOMAIN t = 0 .. n - 1 /\ n - 1 \in Nat
    BY <1>0 DEF IsTable
  <1>2. text \in Contents
    BY <1>0
  <1>a. p = Place(text, m, n)
    BY DEF FreeEntry, Size
  <1> HIDE DEF n, text, p
  <1>3. frees # {} /\ frees \in SUBSET (0 .. n - 1)
    <2>1. PICK q \in 0 .. n - 1 : ~IsString(t[q])
      BY <1>0, <1>1
    <2>2. \E d \in 0 .. n - 1 : Place(text, d, n) = q
      BY <1>1, <1>2, EveryPlaceOnce
    <2> QED BY <1>1, <2>1, <2>2
  <1> HIDE DEF frees
  <1>4. m \in frees /\ \A d \in frees : m <= d
    BY <1>1, <1>3, MinOf
  <1>5. m \in 0 .. n - 1 /\ p \in 0 .. n - 1 /\ ~IsString(t[p])
    BY <1>1, <1>2, <1>3, <1>4, <1>a, EveryPlaceOnce DEF frees
  <1>6. \A e \in 0 .. m - 1 : IsString(t[Place(text, e, n)])
    <2> TAKE e \in 0 .. m - 1
    <2>1. e \in 0 .. n - 1 /\ ~(m <= e)
      BY <1>1, <1>5
    <2> QED BY <1>1, <1>4, <2>1 DEF frees
  <1> HIDE DEF m
  <1>7. /\ IsFunction(new) /\ DOMAIN new = 0 .. n - 1 /\ new[p] = s
        /\ \A q \in 0 .. n - 1 : q # p => new[q] = t[q]
    BY <1>1, <1>5 DEF IsTable, IsFunction, Inserted, p
  <1> HIDE DEF new
  <1>8. IsTable(new) /\ Size(new) = n
    BY <1>1, <1>7, IsTableOf
  <1>9. s # None
    BY <1>0 DEF IsString
  <1>10. Strings(new) = Strings(t) \cup {s}
    BY <1>0, <1>1, <1>5, <1>7 DEF Strings
  <1>11. Used(new) = Used(t) \cup {p}
    BY <1>1, <1>5, <1>7, <1>9 DEF Used
  <1>12. \A q \in 0 .. n - 1 : t[q] # None => new[q] # None
    BY <1>7, <1>9
  <1>13. ASSUME NEW q \in DOMAIN new, IsString(new[q])
         PROVE  /\ h[new[q]].type = "string" /\ h[new[q]].text \in Contents
                /\ Met(new, h[new[q]].text, q)
    <2>1. CASE q = p
      <3>1. new[q] = s /\ h[s].text = text
        BY <2>1, <1>7 DEF text
      <3>2. ASSUME NEW d \in 0 .. n - 1, Place(text, d, n) = p, NEW e \in 0 .. d - 1
            PROVE  new[Place(text, e, n)] # None
        <4>1. d = m
          BY <1>1, <1>2, <1>5, <1>a, <3>2, EveryPlaceOnce
        <4>2. e \in 0 .. n - 1 /\ IsString(t[Place(text, e, n)])
          BY <1>1, <1>5, <1>6, <4>1
        <4>3. Place(text, e, n) \in 0 .. n - 1
          BY <1>1, <1>2, <4>2, EveryPlaceOnce
        <4> QED BY <1>12, <4>2, <4>3 DEF IsString
      <3>3. Met(new, text, p)
        BY <1>1, <1>7, <1>8, <3>2 DEF Met
      <3> QED BY <1>0, <2>1, <3>1, <3>3
    <2>2. CASE q # p
      <3> DEFINE x == h[t[q]].text
      <3>1. q \in 0 .. n - 1 /\ new[q] = t[q]
        BY <2>2, <1>7, <1>13
      <3>2. h[t[q]].type = "string" /\ x \in Contents /\ Met(t, x, q)
        BY <1>1, <1>13, <3>1 DEF Sound
      <3> HIDE DEF x
      <3>3. ASSUME NEW d \in 0 .. n - 1, Place(x, d, n) = q, NEW e \in 0 .. d - 1
            PROVE  new[Place(x, e, n)] # None
        <4>1. t[Place(x, e, n)] # None
          BY <1>1, <3>2, <3>3 DEF Met, n
        <4>2. e \in 0 .. n - 1
          BY <1>1
        <4>3. Place(x, e, n) \in 0 .. n - 1
          BY <1>1, <3>2, <4>2, EveryPlaceOnce
        <4> QED BY <1>12, <4>1, <4>3
      <3>4. Met(new, x, q)
        BY <1>1, <1>7, <1>8, <3>3 DEF Met
      <3> QED BY <3>1, <3>2, <3>4 DEF x
    <2> QED BY <2>1, <2>2
  <1>14. ASSUME NEW q \in DOMAIN new, NEW r \in DOMAIN new,
                IsString(new[q]), IsString(new[r]), h[new[q]].text = h[new[r]].text
         PROVE  q = r
    <2>1. \A x \in DOMAIN new : IsString(new[x]) /\ x # p =>
              x \in DOMAIN t /\ new[x] = t[x] /\ h[t[x]].text # h[s].text
      BY <1>0, <1>1, <1>7 DEF InTable, Strings
    <2> QED BY <1>7, <1>14, <2>1 DEF Sound
  <1>15. Sound(new, h)
    BY <1>13, <1>14 DEF Sound
  <1> QED BY <1>1, <1>5, <1>8, <1>10, <1>11, <1>15 DEF new, p, text, n

\* A string that is dropped leaves a tombstone, and no probe stops there.
LEMMA RemoveWhiteSound ==
  ASSUME IsTable(strings), Sound(strings, heap)
  PROVE  /\ IsTable(RemoveWhite) /\ Sound(RemoveWhite, heap)
         /\ Strings(RemoveWhite) = Strings(strings) \cap marked
  <1> DEFINE t == strings
             new == RemoveWhite
             n == Size(t)
  <1>1. n \in Nat /\ DOMAIN t = 0 .. n - 1
    BY DEF IsTable
  <1>2. IsFunction(new) /\ DOMAIN new = 0 .. n - 1
    BY <1>1 DEF RemoveWhite, IsFunction
  <1>3. \A p \in 0 .. n - 1 :
           new[p] = IF IsString(t[p]) /\ t[p] \notin marked THEN Tombstone ELSE t[p]
    BY <1>1 DEF RemoveWhite
  <1>4. Tombstone # None /\ ~IsString(Tombstone)
    BY ConstantsAssumption DEF IsString
  <1> HIDE DEF new, n
  <1>5. IsTable(new) /\ Size(new) = n
    BY <1>1, <1>2, IsTableOf
  <1>6. \A p \in 0 .. n - 1 : /\ IsString(new[p]) => new[p] = t[p] /\ t[p] \in marked
                              /\ t[p] # None => new[p] # None
    BY <1>3, <1>4
  <1>7. ASSUME NEW q \in DOMAIN new, IsString(new[q])
        PROVE  /\ heap[new[q]].type = "string" /\ heap[new[q]].text \in Contents
               /\ Met(new, heap[new[q]].text, q)
    <2> DEFINE x == heap[t[q]].text
    <2>1. q \in 0 .. n - 1 /\ new[q] = t[q]
      BY <1>2, <1>6, <1>7
    <2>2. heap[t[q]].type = "string" /\ x \in Contents /\ Met(t, x, q)
      BY <1>1, <1>7, <2>1 DEF Sound
    <2> HIDE DEF x
    <2>3. ASSUME NEW d \in 0 .. n - 1, Place(x, d, n) = q, NEW e \in 0 .. d - 1
          PROVE  new[Place(x, e, n)] # None
      <3>1. t[Place(x, e, n)] # None
        BY <1>1, <2>2, <2>3 DEF Met, n
      <3>2. n \in Nat \ {0} /\ e \in 0 .. n - 1
        BY <1>1
      <3>3. Place(x, e, n) \in 0 .. n - 1
        BY <2>2, <3>2, EveryPlaceOnce
      <3> QED BY <1>6, <3>1, <3>3
    <2>4. Met(new, x, q)
      BY <1>2, <1>5, <2>3 DEF Met
    <2> QED BY <2>1, <2>2, <2>4 DEF x
  <1>8. Sound(new, heap)
    <2>1. ASSUME NEW q \in DOMAIN new, NEW r \in DOMAIN new,
                IsString(new[q]), IsString(new[r]), heap[new[q]].text = heap[new[r]].text
          PROVE  q = r
      <3>1. q \in DOMAIN t /\ r \in DOMAIN t /\ new[q] = t[q] /\ new[r] = t[r]
        BY <1>1, <1>2, <1>6, <2>1
      <3> QED BY <2>1, <3>1 DEF Sound
    <2> QED BY <1>7, <2>1 DEF Sound
  <1>9. Strings(new) = Strings(t) \cap marked
    BY <1>1, <1>2, <1>3, <1>4 DEF Strings
  <1> QED BY <1>5, <1>8, <1>9 DEF new

-----------------------------------------------------------------------------
(* Steps that leave the table alone.                                       *)

\* A table is as sound in a heap where its strings are what they were.
LEMMA SoundElsewhere ==
  ASSUME NEW t, NEW h, Sound(t, h), NEW g,
         \A s \in Strings(t) : g[s].type = h[s].type /\ g[s].text = h[s].text
  PROVE  Sound(t, g) /\ \A text : InTable(t, text, g) <=> InTable(t, text, h)
  <1>1. \A p \in DOMAIN t : IsString(t[p]) =>
            g[t[p]].type = h[t[p]].type /\ g[t[p]].text = h[t[p]].text
    BY DEF Strings
  <1> QED BY <1>1 DEF Sound, InTable

\* What is alive is allocated, the strings of the table are alive, and the string
\* that is being interned is.
LEMMA AliveAllocated ==
  ASSUME IInv
  PROVE  /\ Alive \subseteq Allocated /\ Alive \subseteq Addr
         /\ Strings(strings) \subseteq Alive
         /\ at \in {"intern", "rehash"} => Top \in Alive
         /\ at = "rehash" => gc = "off" /\ Strings(local.fresh) \subseteq Alive
  <1>1. Alive \subseteq Allocated /\ Alive \subseteq Addr /\ (gc # "sweep" => Alive = Allocated)
    BY DEF IInv, TypeOK, Alive, Allocated
  <1>2. at \in {"intern", "rehash"} => Top \in Alive
    BY TopOnStack DEF IInv, TypeOK, RoutineInv, AliveInv, Roots, OnStack, Elements, Top
  <1>3. at = "rehash" => gc = "off" /\ Strings(local.fresh) \subseteq Alive
    BY <1>1 DEF IInv, RoutineInv
  <1> QED BY <1>1, <1>2, <1>3 DEF IInv, AliveInv

\* The collector, where it leaves the table alone, frees what is not alive.
LEMMA CollectorKeepsStrings ==
  ASSUME IInv, InternInv, UNCHANGED <<strings, stack, at, local>>,
         Alive' \subseteq Alive, \A o \in Alive : heap'[o] = heap[o]
  PROVE  InternInv'
  <1>1. Pending' = Pending /\ Top' = Top /\ Capacity' = Capacity /\ Moved' = Moved
        /\ GrownCapacity' = GrownCapacity
    BY DEF Pending, Top, Capacity, Moved, GrownCapacity
  <1>2. Sound(strings, heap') /\ \A text : InTable(strings, text, heap') <=> InTable(strings, text, heap)
    BY SoundElsewhere, AliveAllocated DEF InternInv, TableInv
  <1>3. TableInv'
    BY <1>1, <1>2 DEF InternInv, TableInv
  <1>4. CallInv'
    BY <1>1, <1>2, AliveAllocated DEF InternInv, CallInv
  <1>5. MoveInv'
    <2>1. at = "rehash" => Sound(local.fresh, heap')
      BY SoundElsewhere, AliveAllocated DEF InternInv, MoveInv
    <2> QED BY <1>1, <2>1 DEF InternInv, MoveInv
  <1> QED BY <1>3, <1>4, <1>5 DEF InternInv

Interning == {"chars", "string", "intern", "rehash"}

\* So does a routine that makes no string.
LEMMA RoutineKeepsStrings ==
  ASSUME IInv, InternInv, gc = "off", gc' = "off", strings' = strings,
         at \notin Interning, at' \notin Interning,
         \A o \in Allocated : heap'[o].type = heap[o].type /\ heap'[o].text = heap[o].text,
         \A o \in Allocated' \ Allocated : heap'[o].type # "string"
  PROVE  InternInv'
  <1>1. Pending = {} /\ Pending' = {}
    BY DEF Pending, Interning
  <1>2. Alive = Allocated /\ Alive' = Allocated'
    BY DEF Alive
  <1>3. Sound(strings, heap')
    BY SoundElsewhere, AliveAllocated DEF InternInv, TableInv
  <1>4. TableInv'
    BY <1>1, <1>2, <1>3 DEF InternInv, TableInv
  <1>5. CallInv' /\ MoveInv'
    BY DEF CallInv, MoveInv, Interning
  <1> QED BY <1>4, <1>5 DEF InternInv

-----------------------------------------------------------------------------
(* The collector.                                                          *)

LEMMA CollectInterns == IInv /\ InternInv /\ (Collect \/ Trace \/ EndCollection) => InternInv'
  <1> SUFFICES ASSUME IInv, InternInv, Collect \/ Trace \/ EndCollection PROVE InternInv'
    OBVIOUS
  <1>1. UNCHANGED <<heap, strings, stack, at, local>>
    BY DEF Collect, Trace, EndCollection, mutator, routine
  <1>2. Alive' = Alive
    <2>1. Allocated' = Allocated
      BY <1>1 DEF Allocated
    <2> QED BY <2>1 DEF Collect, Trace, EndCollection, Alive, IInv, PhaseInv
  <1> QED BY <1>1, <1>2, CollectorKeepsStrings

\* The strings that were not marked are dropped from the table before they are
\* freed, and those that were marked stay.
LEMMA StartSweepInterns == IInv /\ InternInv /\ StartSweep => InternInv'
  <1> SUFFICES ASSUME IInv, InternInv, StartSweep PROVE InternInv'
    OBVIOUS
  <1>1. /\ gc = "trace" /\ gc' = "sweep" /\ strings' = RemoveWhite
        /\ UNCHANGED <<heap, stack, at, local, marked>> /\ unswept' = Allocated'
    BY DEF StartSweep, mutator, routine, Allocated
  <1>2. Alive' = marked /\ marked \subseteq Alive /\ Pending' = Pending /\ Top' = Top
    BY <1>1 DEF Alive, Pending, Top, IInv, TypeOK
  <1>3. /\ IsTable(strings') /\ Sound(strings', heap')
        /\ Strings(strings') = Strings(strings) \cap marked
    BY <1>1, RemoveWhiteSound DEF InternInv, TableInv
  <1>4. TableInv'
    BY <1>1, <1>2, <1>3 DEF InternInv, TableInv
  <1>5. CallInv'
    BY <1>1, <1>2, <1>3 DEF InternInv, CallInv, InTable
  <1>6. MoveInv'
    BY <1>1 DEF MoveInv, IInv, RoutineInv
  <1> QED BY <1>4, <1>5, <1>6 DEF InternInv

LEMMA SweepInterns == IInv /\ InternInv /\ Sweep => InternInv'
  <1> SUFFICES ASSUME IInv, InternInv, Sweep PROVE InternInv'
    OBVIOUS
  <1> DEFINE o == CHOOSE x \in unswept : TRUE
  <1>1. o \in unswept /\ o \in Allocated /\ o \in Addr
    BY DEF Sweep, IInv, TypeOK, Allocated
  <1>2. /\ gc = "sweep" /\ gc' = "sweep" /\ UNCHANGED <<strings, stack, at, local>>
        /\ unswept' = unswept \ {o} /\ marked' = marked \ {o}
        /\ heap' = IF o \in marked THEN heap ELSE [heap EXCEPT ![o] = Free]
    BY DEF Sweep, mutator, routine
  <1> HIDE DEF o
  <1>3. /\ \A x \in Addr \ {o} : heap'[x] = heap[x]
        /\ heap'[o] = IF o \in marked THEN heap[o] ELSE Free
    BY <1>1, <1>2 DEF IInv, TypeOK, IsFunction
  <1>4. Allocated' = IF o \in marked THEN Allocated ELSE Allocated \ {o}
    BY <1>1, <1>3 DEF Allocated
  <1>5. marked \subseteq Allocated /\ marked \subseteq unswept
    BY <1>2 DEF IInv, TypeOK, PhaseInv
  <1>6. Alive' = Alive
    BY <1>1, <1>2, <1>4, <1>5 DEF Alive
  <1>7. \A x \in Alive : heap'[x] = heap[x]
    BY <1>1, <1>2, <1>3, <1>5 DEF Alive, Allocated
  <1> QED BY <1>2, <1>6, <1>7, CollectorKeepsStrings

-----------------------------------------------------------------------------
(* The routine that makes a string.                                        *)

USE DEF At, Ready, Do, Finish

\* A text for which a string is made is in no string of the table.
LEMMA CopyStringInterns ==
  ASSUME NEW text \in Contents PROVE IInv /\ InternInv /\ CopyString(text) => InternInv'
  <1> SUFFICES ASSUME IInv, InternInv, CopyString(text) PROVE InternInv'
    OBVIOUS
  <1>1. gc = "off" /\ gc' = "off" /\ UNCHANGED <<heap, strings>> /\ Allocated' = Allocated
        /\ at = "idle"
    BY DEF CopyString, CollectorIdle, Allocated
  <1>2. CASE FindString(text) # None
    <2>1. at' = "idle"
      BY <1>1, <1>2 DEF CopyString, routine
    <2> QED BY <1>1, <2>1, RoutineKeepsStrings DEF Interning
  <1>3. CASE FindString(text) = None
    <2>1. at' = "chars" /\ local' = text
      BY <1>3 DEF CopyString
    <2>2. Pending = {} /\ Pending' = {} /\ Alive' = Alive
      BY <1>1, <2>1 DEF Pending, Alive
    <2>3. ~InTable(strings, text, heap)
      BY <1>3, NotFoundIsNotThere DEF InternInv, TableInv
    <2>4. TableInv'
      BY <1>1, <2>2 DEF InternInv, TableInv
    <2>5. CallInv' /\ MoveInv'
      BY <1>1, <2>1, <2>3 DEF CallInv, MoveInv
    <2> QED BY <2>4, <2>5 DEF InternInv
  <1> QED BY <1>2, <1>3

LEMMA AllocateCharsInterns == IInv /\ InternInv /\ AllocateChars => InternInv'
  <1> SUFFICES ASSUME IInv, InternInv, AllocateChars PROVE InternInv'
    OBVIOUS
  <1>1. gc = "off" /\ gc' = "off" /\ UNCHANGED <<heap, strings, local>> /\ Allocated' = Allocated
        /\ at = "chars" /\ at' = "string"
    BY DEF AllocateChars, CollectorIdle, Allocated
  <1>2. Pending = {} /\ Pending' = {} /\ Alive' = Alive
    BY <1>1 DEF Pending, Alive
  <1>3. TableInv'
    BY <1>1, <1>2 DEF InternInv, TableInv
  <1>4. CallInv' /\ MoveInv'
    BY <1>1 DEF InternInv, CallInv, MoveInv
  <1> QED BY <1>3, <1>4 DEF InternInv

\* The new string is the one that is on top of the stack and not in the table.
LEMMA AllocateStringInterns == IInv /\ InternInv /\ AllocateString => InternInv'
  <1> SUFFICES ASSUME IInv, InternInv, AllocateString PROVE InternInv'
    OBVIOUS
  <1> DEFINE a == NewAddress
  <1>1. /\ gc = "off" /\ gc' = "off" /\ strings' = strings /\ at = "string" /\ at' = "intern"
        /\ heap' = [heap EXCEPT ![a] = New("string", local)] /\ stack' = Append(stack, a)
    BY DEF AllocateString, CollectorIdle, Push
  <1>2. a \in Addr /\ a \notin Allocated
    BY NewAddressIsFree DEF AllocateString
  <1> HIDE DEF a
  <1>3. stack \in Seq(Addr) /\ IsFunction(heap) /\ DOMAIN heap = Addr
    BY DEF IInv, TypeOK
  <1>4. Top' = a
    BY <1>1, <1>2, <1>3, Pushed DEF Top
  <1>5. /\ heap'[a].type = "string" /\ heap'[a].text = local
        /\ \A o \in Addr \ {a} : heap'[o] = heap[o]
    BY <1>1, <1>2, <1>3 DEF New
  <1>6. Alive = Allocated /\ Alive' = Allocated' /\ Pending = {} /\ Pending' = {a}
    BY <1>1, <1>4 DEF Alive, Pending
  <1>7. Alive' \ {a} \subseteq Alive /\ a \notin Alive
    BY <1>2, <1>5, <1>6 DEF Allocated
  <1>8. \A o \in Alive : heap'[o] = heap[o]
    BY <1>2, <1>5, <1>6 DEF Allocated
  <1>9. Sound(strings, heap') /\ \A text : InTable(strings, text, heap') <=> InTable(strings, text, heap)
    BY <1>8, SoundElsewhere, AliveAllocated DEF InternInv, TableInv
  <1>10. TableInv'
    BY <1>1, <1>6, <1>7, <1>8, <1>9 DEF InternInv, TableInv
  <1>11. CallInv' /\ MoveInv'
    BY <1>1, <1>4, <1>5, <1>9 DEF InternInv, CallInv, MoveInv
  <1> QED BY <1>10, <1>11 DEF InternInv

\* A table of at most three quarters of its entries has room for one more; a
\* larger one starts empty.
LEMMA InternInterns == IInv /\ InternInv /\ Intern => InternInv'
  <1> SUFFICES ASSUME IInv, InternInv, Intern PROVE InternInv'
    OBVIOUS
  <1>1. gc = "off" /\ gc' = "off" /\ UNCHANGED <<heap, stack>> /\ Allocated' = Allocated
        /\ at = "intern" /\ Alive' = Alive /\ Top' = Top
    BY DEF Intern, CollectorIdle, Allocated, Alive, Top
  <1>2. /\ heap[Top].type = "string" /\ heap[Top].text \in Contents /\ Top \in Alive
        /\ ~InTable(strings, heap[Top].text, heap)
    BY <1>1, AliveAllocated DEF InternInv, CallInv
  <1>3. /\ IsTable(strings) /\ Size(strings) = Capacity /\ Capacity \in Nat
        /\ DOMAIN strings = 0 .. Capacity - 1
    BY DEF InternInv, TableInv, IsTable, Size, Capacity
  <1>4. CASE NeedsRoom
    <2> DEFINE n == GrownCapacity
               fresh == [p \in 0 .. n - 1 |-> None]
    <2>1. UNCHANGED strings /\ at' = "rehash" /\ local'.fresh = fresh /\ local'.next = 0
      BY <1>4 DEF Intern
    <2>2. n \in Nat
      BY <1>3, ConstantsAssumption DEF GrownCapacity
    <2>3. GrownCapacity' = n /\ Capacity' = Capacity
      BY <2>1 DEF GrownCapacity, Capacity
    <2> HIDE DEF n
    <2>4. IsFunction(fresh) /\ DOMAIN fresh = 0 .. n - 1
      BY DEF IsFunction
    <2>5. IsTable(fresh) /\ Size(fresh) = n
      BY <2>2, <2>4, IsTableOf
    <2>6. Sound(fresh, heap) /\ Strings(fresh) = {} /\ Used(fresh) = {}
      BY DEF Sound, Strings, Used, IsString
    <2> HIDE DEF fresh
    <2>7. Moved' = {}
      BY <1>3, <2>1 DEF Moved
    <2>8. MoveInv'
      BY <1>1, <1>3, <2>1, <2>3, <2>5, <2>6, <2>7, FS_EmptySet DEF MoveInv, n
    <2>9. TableInv'
      BY <1>1, <2>1 DEF InternInv, TableInv, Pending
    <2>10. CallInv'
      BY <1>1, <1>2, <2>1 DEF CallInv
    <2> QED BY <2>8, <2>9, <2>10 DEF InternInv
  <1>5. CASE ~NeedsRoom
    <2>1. strings' = Inserted(strings, heap[Top].text, Top) /\ at' = "idle"
      BY <1>5 DEF Intern, Inserted
    <2>2. \E q \in DOMAIN strings : strings[q] = None
      <3> SUFFICES ASSUME \A q \in DOMAIN strings : strings[q] # None PROVE FALSE
        OBVIOUS
      <3>1. Count = Capacity
        BY DEF Count, Capacity
      <3> QED BY <1>3, <1>5, <3>1 DEF NeedsRoom
    <2>3. IsString(Top)
      BY <1>2, AliveAllocated, ConstantsAssumption DEF IsString
    <2>4. /\ IsTable(strings') /\ Sound(strings', heap)
          /\ Strings(strings') = Strings(strings) \cup {Top}
      <3>1. Sound(strings, heap) /\ Fits(strings, heap, Top)
        BY <1>2, <2>2, <2>3 DEF InternInv, TableInv, IsString, Fits
      <3> QED BY <1>3, <2>1, <3>1, InsertSound
    <2>5. Pending = {Top} /\ Pending' = {}
      BY <1>1, <2>1 DEF Pending
    <2>6. TableInv'
      BY <1>1, <2>4, <2>5 DEF InternInv, TableInv
    <2>7. CallInv' /\ MoveInv'
      BY <2>1 DEF CallInv, MoveInv
    <2> QED BY <2>6, <2>7 DEF InternInv
  <1> QED BY <1>4, <1>5

\* The strings of the entries passed so far, once the next entry is passed.
LEMMA OneMoreMoved ==
  ASSUME IsTable(strings), NEW i \in Nat, i \in DOMAIN strings
  PROVE  {strings[p] : p \in {q \in DOMAIN strings : IsString(strings[q]) /\ q < i + 1}}
         = {strings[p] : p \in {q \in DOMAIN strings : IsString(strings[q]) /\ q < i}}
           \cup (IF IsString(strings[i]) THEN {strings[i]} ELSE {})
  <1> DEFINE before(n) == {q \in DOMAIN strings : IsString(strings[q]) /\ q < n}
  <1>1. before(i + 1) = before(i) \cup (IF IsString(strings[i]) THEN {i} ELSE {})
    <2>1. \A q \in DOMAIN strings : q < i + 1 <=> q < i \/ q = i
      BY DEF IsTable
    <2> QED BY <2>1
  <1> HIDE DEF before
  <1>2. {strings[p] : p \in before(i + 1)}
        = {strings[p] : p \in before(i)} \cup (IF IsString(strings[i]) THEN {strings[i]} ELSE {})
    BY <1>1
  <1> QED BY <1>2 DEF before

\* One more entry is used at most.
LEMMA OneMore ==
  ASSUME NEW S, IsFiniteSet(S), NEW x
  PROVE  /\ Cardinality(S \cup {x}) \in Nat
         /\ Cardinality(S \cup {x}) <= Cardinality(S) + 1
  <1>1. IsFiniteSet(S \cup {x}) /\ Cardinality(S) \in Nat
    BY FS_AddElement, FS_CardinalityType
  <1>2. Cardinality(S \cup {x}) \in Nat
    BY <1>1, FS_CardinalityType
  <1>3. Cardinality(S \cup {x}) = IF x \in S THEN Cardinality(S) ELSE Cardinality(S) + 1
    BY FS_AddElement
  <1> QED BY <1>1, <1>2, <1>3

\* The larger array has an empty entry for every string that is still to be moved.
LEMMA LargerHasRoom ==
  ASSUME InternInv, at = "rehash", IsTable(strings)
  PROVE  /\ Capacity \in Nat /\ DOMAIN strings = 0 .. Capacity - 1 /\ Capacity < GrownCapacity
         /\ IsFiniteSet(Used(local.fresh)) /\ Cardinality(Used(local.fresh)) \in Nat
         /\ \E q \in DOMAIN local.fresh : ~IsString(local.fresh[q])
  <1> DEFINE fresh == local.fresh
             n == GrownCapacity
  <1>1. Capacity \in Nat /\ DOMAIN strings = 0 .. Capacity - 1
    BY DEF IsTable, Size, Capacity
  <1>2. GrownCapacity \in Nat /\ Capacity < GrownCapacity
    BY <1>1, ConstantsAssumption DEF GrownCapacity
  <1>3. /\ local.next \in 0 .. Capacity /\ DOMAIN fresh = 0 .. n - 1
        /\ Cardinality(Used(fresh)) <= local.next
    BY DEF InternInv, MoveInv, IsTable
  <1> HIDE DEF fresh, n
  <1>4. n \in Nat /\ Capacity < n
    BY <1>2 DEF n
  <1>5. IsFiniteSet(0 .. n - 1) /\ Cardinality(0 .. n - 1) = n
    BY <1>4, FS_Interval
  <1>6. Used(fresh) \subseteq 0 .. n - 1
    BY <1>3 DEF Used
  <1>7. IsFiniteSet(Used(fresh)) /\ Cardinality(Used(fresh)) \in Nat
    BY <1>5, <1>6, FS_Subset, FS_CardinalityType
  <1>8. Used(fresh) # 0 .. n - 1
    BY <1>1, <1>3, <1>4, <1>5, <1>7
  <1>9. PICK q \in 0 .. n - 1 : q \notin Used(fresh)
    BY <1>6, <1>8
  <1>10. fresh[q] = None
    BY <1>3, <1>9 DEF Used
  <1> QED BY <1>1, <1>2, <1>3, <1>7, <1>9, <1>10 DEF fresh, IsString

\* Each string of the old array is moved to an entry of the new one where its probe
\* finds it; the tombstones are left behind.
LEMMA RehashInterns == IInv /\ InternInv /\ Rehash => InternInv'
  <1> SUFFICES ASSUME IInv, InternInv, Rehash PROVE InternInv'
    OBVIOUS
  <1> DEFINE i == local.next
             fresh == local.fresh
             moving == strings[i]
  <1>1. /\ gc = "off" /\ gc' = "off" /\ UNCHANGED <<heap, stack>> /\ Allocated' = Allocated
        /\ at = "rehash" /\ Alive' = Alive /\ Top' = Top
    BY DEF Rehash, CollectorIdle, Allocated, Alive, Top
  <1>2. /\ heap[Top].type = "string" /\ heap[Top].text \in Contents /\ Top \in Alive
        /\ ~InTable(strings, heap[Top].text, heap)
    BY <1>1, AliveAllocated DEF InternInv, CallInv
  <1>3. IsTable(strings) /\ Sound(strings, heap)
    BY DEF InternInv, TableInv
  <1>4. /\ Capacity \in Nat /\ DOMAIN strings = 0 .. Capacity - 1 /\ Capacity < GrownCapacity
        /\ IsFiniteSet(Used(fresh)) /\ Cardinality(Used(fresh)) \in Nat
        /\ \E q \in DOMAIN fresh : ~IsString(fresh[q])
    BY <1>1, <1>3, LargerHasRoom
  <1>5. /\ i \in 0 .. Capacity
        /\ IsTable(fresh) /\ Size(fresh) = GrownCapacity /\ Sound(fresh, heap)
        /\ Strings(fresh) = Moved
        /\ Cardinality(Used(fresh)) <= i
    BY <1>1 DEF InternInv, MoveInv
  <1>6. CASE i \in DOMAIN strings
    <2> DEFINE new == local'.fresh
    <2>1. /\ UNCHANGED <<strings, at>> /\ local'.next = i + 1
          /\ new = IF ~IsString(moving) THEN fresh
                   ELSE [fresh EXCEPT ![FreeEntry(fresh, heap[moving].text)] = moving]
      BY <1>6 DEF Rehash
    <2>2. i \in Nat /\ i + 1 \in 0 .. Capacity
      BY <1>4, <1>5, <1>6
    <2>3. Moved' = Moved \cup (IF IsString(moving) THEN {moving} ELSE {})
      BY <1>3, <1>6, <2>1, <2>2, OneMoreMoved DEF Moved
    <2>4. /\ IsTable(new) /\ Size(new) = GrownCapacity /\ Sound(new, heap)
          /\ Strings(new) = Strings(fresh) \cup (IF IsString(moving) THEN {moving} ELSE {})
          /\ Cardinality(Used(new)) <= i + 1
      <3>1. CASE IsString(moving)
        <4>1. heap[moving].type = "string" /\ heap[moving].text \in Contents
          BY <1>3, <1>6, <3>1 DEF Sound
        <4>2. ~InTable(fresh, heap[moving].text, heap)
          <5> SUFFICES ASSUME NEW q \in DOMAIN strings, IsString(strings[q]), q < i,
                              heap[strings[q]].text = heap[moving].text
                       PROVE  FALSE
            BY <1>5 DEF InTable, Moved
          <5>1. q = i
            BY <1>3, <1>6, <3>1 DEF Sound
          <5> QED BY <2>2, <5>1
        <4>3. new = Inserted(fresh, heap[moving].text, moving)
          BY <2>1, <3>1 DEF Inserted
        <4> HIDE DEF moving, fresh, i, new
        <4>4. /\ IsTable(new) /\ Size(new) = Size(fresh) /\ Sound(new, heap)
              /\ Strings(new) = Strings(fresh) \cup {moving}
              /\ Used(new) = Used(fresh) \cup {FreeEntry(fresh, heap[moving].text)}
          <5>1. IsTable(fresh) /\ Sound(fresh, heap) /\ Fits(fresh, heap, moving)
            BY <1>4, <1>5, <3>1, <4>1, <4>2 DEF Fits
          <5> QED BY <4>3, <5>1, InsertSound
        <4>5. /\ Cardinality(Used(new)) \in Nat
              /\ Cardinality(Used(new)) <= Cardinality(Used(fresh)) + 1
          BY <1>4, <4>4, OneMore
        <4> QED BY <1>4, <1>5, <2>2, <3>1, <4>4, <4>5
      <3>2. CASE ~IsString(moving)
        <4>1. new = fresh
          BY <2>1, <3>2
        <4> QED BY <1>4, <1>5, <2>2, <3>2, <4>1
      <3> QED BY <3>1, <3>2
    <2>5. GrownCapacity' = GrownCapacity /\ Capacity' = Capacity /\ Pending' = Pending
      BY <1>1, <2>1 DEF GrownCapacity, Capacity, Pending
    <2> HIDE DEF moving, new
    <2>6. MoveInv'
      BY <1>1, <1>5, <2>1, <2>2, <2>3, <2>4, <2>5 DEF MoveInv, new
    <2>7. TableInv'
      BY <1>1, <2>1, <2>5 DEF InternInv, TableInv
    <2>8. CallInv'
      BY <1>1, <1>2, <2>1 DEF CallInv
    <2> QED BY <2>6, <2>7, <2>8 DEF InternInv
  <1>7. CASE i \notin DOMAIN strings
    <2>1. strings' = fresh /\ at' = "intern"
      BY <1>7 DEF Rehash
    <2>2. i = Capacity
      BY <1>4, <1>5, <1>7
    <2>3. Moved = Strings(strings)
      <3>1. \A q \in DOMAIN strings : q < i
        BY <1>4, <2>2
      <3> QED BY <3>1 DEF Moved, Strings
    <2>4. Pending' = Pending
      BY <1>1, <2>1 DEF Pending
    <2> HIDE DEF fresh
    <2>5. TableInv'
      BY <1>1, <1>5, <2>1, <2>3, <2>4 DEF InternInv, TableInv
    <2>6. CallInv'
      BY <1>1, <1>2, <1>5, <2>1, <2>3 DEF CallInv, InTable
    <2>7. MoveInv'
      BY <2>1 DEF MoveInv
    <2> QED BY <2>5, <2>6, <2>7 DEF InternInv
  <1> QED BY <1>6, <1>7

-----------------------------------------------------------------------------
(* The other routines make no string and change the text of none.          *)

\* Storing in an object changes neither its type nor its text.
LEMMA StoringKeepsTexts ==
  ASSUME NEW x, NEW f, NEW r
  PROVE  /\ Holding(x, f, r).type = x.type /\ Holding(x, f, r).text = x.text
         /\ Adding(x, f, r).type = x.type /\ Adding(x, f, r).text = x.text
  BY DEF Holding, Adding

LEMMA NewObjectInterns == IInv /\ InternInv /\ NewObject => InternInv'
  BY RoutineKeepsStrings DEF NewObject, CollectorIdle, Allocated, Interning

LEMMA WriteInterns == IInv /\ InternInv /\ Write => InternInv'
  BY RoutineKeepsStrings DEF Write, CollectorIdle, Allocated, Interning

LEMMA ReadInterns == IInv /\ InternInv /\ (Read \/ Duplicate) => InternInv'
  BY RoutineKeepsStrings DEF Read, Duplicate, CollectorIdle, Allocated, Interning, routine

LEMMA AllocateObjectInterns == IInv /\ InternInv /\ AllocateObject => InternInv'
  <1> SUFFICES ASSUME IInv, InternInv, AllocateObject PROVE InternInv'
    OBVIOUS
  <1> DEFINE a == NewAddress
             n == New(container.type, None)
             h == Holding(n, container.made, {Top})
  <1>1. gc = "off" /\ gc' = "off" /\ strings' = strings /\ at = "object" /\ at' = "idle"
    BY DEF AllocateObject, CollectorIdle
  <1>2. a \in Addr /\ a \notin Allocated
    BY NewAddressIsFree DEF AllocateObject
  <1>3. container.type # "string"
    BY ContainersAssumption DEF IInv, TypeOK
  <1>4. n.type # "string" /\ h.type # "string"
    BY <1>3 DEF New, Holding
  <1>5. PICK x : x.type # "string" /\ heap' = [heap EXCEPT ![a] = x]
    <2>1. heap' = [heap EXCEPT ![a] = n] \/ heap' = [heap EXCEPT ![a] = h]
      BY DEF AllocateObject
    <2> QED BY <1>4, <2>1
  <1> HIDE DEF a, n, h
  <1>6. heap'[a] = x /\ \A o \in Addr \ {a} : heap'[o] = heap[o]
    BY <1>2, <1>5 DEF IInv, TypeOK, IsFunction
  <1>7. \A o \in Allocated : heap'[o] = heap[o]
    BY <1>2, <1>6 DEF Allocated
  <1>8. \A o \in Allocated' \ Allocated : heap'[o].type # "string"
    BY <1>5, <1>6 DEF Allocated
  <1> QED BY <1>1, <1>7, <1>8, RoutineKeepsStrings DEF Interning

LEMMA StoreValueInterns == IInv /\ InternInv /\ StoreValue => InternInv'
  <1> SUFFICES ASSUME IInv, InternInv, StoreValue PROVE InternInv'
    OBVIOUS
  <1>1. gc = "off" /\ gc' = "off" /\ strings' = strings /\ at = "write" /\ at' = "idle"
    BY DEF StoreValue, CollectorIdle
  <1> DEFINE a == IF local.how = "guarded" THEN Second ELSE Top
             x == Adding(heap[a], container.stored, local.value)
  <1>2. OffInv /\ a \in Allocated
    <2>1. /\ OffInv /\ stack # <<>>
          /\ local.how = "guarded" => Len(stack) > 1
      BY <1>1, RoutineMayAssume DEF OffInv, IInv, RoutineInv
    <2> QED BY <2>1, TopAllocated DEF OffInv, Second, Elements
  <1>3. heap' = [heap EXCEPT ![a] = x]
    BY DEF StoreValue
  <1>4. x.type = heap[a].type /\ x.text = heap[a].text
    BY StoringKeepsTexts
  <1>5. a \in Addr /\ x # Free
    BY <1>2, AddingIsValid, ValidIsNotFree DEF OffInv, Allocated
  <1> HIDE DEF a, x
  <1>6. \A o \in Addr : heap'[o].type = heap[o].type /\ heap'[o].text = heap[o].text
    BY <1>3, <1>4 DEF IInv, TypeOK, IsFunction
  <1>7. Allocated' = Allocated
    BY <1>2, <1>3, <1>5 DEF IInv, TypeOK, IsFunction, Allocated
  <1> QED BY <1>1, <1>6, <1>7, RoutineKeepsStrings DEF Interning, Allocated

LEMMA CaptureInterns ==
  ASSUME NEW slot \in 1 .. StackMax PROVE IInv /\ InternInv /\ Capture(slot) => InternInv'
  <1> SUFFICES ASSUME IInv, InternInv, Capture(slot) PROVE InternInv'
    OBVIOUS
  <1>1. gc = "off" /\ gc' = "off" /\ strings' = strings /\ at = "idle" /\ at' \notin Interning
    BY DEF Capture, CollectorIdle, Interning, routine
  <1>2. stack # <<>> /\ OffInv /\ Top \in Allocated /\ Top \in Addr /\ Valid(heap[Top])
    BY <1>1, RoutineMayAssume, TopAllocated DEF Capture
  <1> DEFINE a == Top
             x == Adding(heap[a], "upvalues", open[slot])
  <1>3. heap' = heap \/ heap' = [heap EXCEPT ![a] = x]
    BY DEF Capture
  <1>4. x.type = heap[a].type /\ x.text = heap[a].text /\ x # Free
    BY <1>2, StoringKeepsTexts, AddingIsValid, ValidIsNotFree
  <1>5. a \in Addr /\ a \in Allocated
    BY <1>2
  <1> HIDE DEF a, x
  <1>6. \A o \in Addr : heap'[o].type = heap[o].type /\ heap'[o].text = heap[o].text
    BY <1>3, <1>4 DEF IInv, TypeOK, IsFunction
  <1>7. Allocated' = Allocated
    BY <1>3, <1>4, <1>5 DEF IInv, TypeOK, IsFunction, Allocated
  <1> QED BY <1>1, <1>6, <1>7, RoutineKeepsStrings DEF Interning, Allocated

LEMMA AllocateUpvalueInterns == IInv /\ InternInv /\ AllocateUpvalue => InternInv'
  <1> SUFFICES ASSUME IInv, InternInv, AllocateUpvalue PROVE InternInv'
    OBVIOUS
  <1> DEFINE a == NewAddress
             t == Top
             x == New("upvalue", None)
             y == Adding(heap[t], "upvalues", a)
  <1>1. gc = "off" /\ gc' = "off" /\ strings' = strings /\ at = "upvalue" /\ at' = "idle"
    BY DEF AllocateUpvalue, CollectorIdle
  <1>2. OffInv /\ t \in Allocated /\ t \in Addr
    BY <1>1, RoutineMayAssume, TopAllocated DEF IInv, RoutineInv
  <1>3. a \in Addr /\ a \notin Allocated /\ t # a
    BY <1>2, NewAddressIsFree DEF AllocateUpvalue
  <1>4. y.type = heap[t].type /\ y.text = heap[t].text /\ x.type # "string"
    BY StoringKeepsTexts DEF New
  <1> HIDE DEF a
  <1>5. heap' = [heap EXCEPT ![a] = x, ![t] = Adding(@, "upvalues", a)]
    BY DEF AllocateUpvalue, a
  <1>6. heap'[t] = y /\ heap'[a] = x /\ \A o \in Addr \ {a, t} : heap'[o] = heap[o]
    <2> HIDE DEF t, x
    <2>1. heap' = [o \in Addr |-> IF o = t THEN y ELSE IF o = a THEN x ELSE heap[o]]
      BY <1>2, <1>3, <1>5 DEF IInv, TypeOK, IsFunction
    <2> HIDE DEF y
    <2> QED BY <1>2, <1>3, <2>1
  <1> HIDE DEF t, x, y
  <1>7. \A o \in Allocated : heap'[o].type = heap[o].type /\ heap'[o].text = heap[o].text
    BY <1>3, <1>4, <1>6 DEF Allocated
  <1>8. \A o \in Allocated' \ Allocated : heap'[o].type # "string"
    BY <1>2, <1>4, <1>6 DEF Allocated
  <1> QED BY <1>1, <1>7, <1>8, RoutineKeepsStrings DEF Interning

LEMMA PopInterns ==
  IInv /\ InternInv /\ (Pop \/ \E slot \in 1 .. StackMax : Return(slot)) => InternInv'
  <1> SUFFICES ASSUME IInv, InternInv, Pop \/ \E slot \in 1 .. StackMax : Return(slot)
               PROVE  InternInv'
    OBVIOUS
  <1>1. gc = "off" /\ gc' = "off" /\ strings' = strings /\ at = "idle" /\ at' = "idle"
    BY DEF Pop, Return, CollectorIdle, routine
  <1>2. OffInv
    BY <1>1, RoutineMayAssume
  <1>3. PICK n \in Nat \ {0} : CloseUpvalues(n)
    <2>1. CASE Pop
      <3>1. CloseUpvalues(Len(stack)) /\ Len(stack) \in Nat \ {0}
        BY <2>1, <1>2, TopOnStack DEF Pop, OffInv
      <3> QED BY <3>1
    <2>2. CASE \E slot \in 1 .. StackMax : Return(slot)
      BY <2>2 DEF Return
    <2> QED BY <2>1, <2>2
  <1>4. Allocated' = Allocated
    BY <1>2, <1>3, CloseUpvaluesKeeps
  <1>5. \A o \in Addr : heap'[o].type = heap[o].type /\ heap'[o].text = heap[o].text
    BY <1>3, StoringKeepsTexts DEF CloseUpvalues
  <1> QED BY <1>1, <1>4, <1>5, RoutineKeepsStrings DEF Interning, Allocated

-----------------------------------------------------------------------------
(* The theorem.                                                            *)

LEMMA InitInterns == Init => InternInv
  <1> SUFFICES ASSUME Init PROVE InternInv
    OBVIOUS
  <1>1. Alive = {} /\ at = "idle" /\ strings = <<>>
    BY DEF Init, Alive, Allocated
  <1>2. IsFunction(strings) /\ DOMAIN strings = 0 .. 0 - 1
    BY <1>1 DEF IsFunction
  <1>3. IsTable(strings)
    BY <1>2, IsTableOf
  <1>4. Sound(strings, heap)
    BY <1>2 DEF Sound
  <1> QED BY <1>1, <1>3, <1>4 DEF InternInv, TableInv, CallInv, MoveInv

LEMMA NextInterns == IInv /\ InternInv /\ [Next]_vars => InternInv'
  <1> SUFFICES ASSUME IInv, InternInv, [Next]_vars PROVE InternInv'
    OBVIOUS
  <1>1. CASE Collect \/ Collector
    BY <1>1, CollectInterns, StartSweepInterns, SweepInterns DEF Collector
  <1>2. CASE Routines
    BY <1>2, CopyStringInterns, NewObjectInterns, WriteInterns, CaptureInterns, PopInterns,
       ReadInterns DEF Routines
  <1>3. CASE Continue
    BY <1>3, AllocateCharsInterns, AllocateStringInterns, InternInterns, RehashInterns,
       AllocateObjectInterns, StoreValueInterns, AllocateUpvalueInterns DEF Continue
  <1>4. CASE UNCHANGED vars
    <2>1. UNCHANGED <<strings, stack, at, local>> /\ Alive' = Alive /\ heap' = heap
      BY <1>4 DEF vars, mutator, routine, Alive, Allocated
    <2> QED BY <2>1, CollectorKeepsStrings
  <1> QED BY <1>1, <1>2, <1>3, <1>4 DEF Next

\* Two strings are equal exactly when they are the same object, whatever strings
\* were collected and whatever places they left in the table: a string that is
\* allocated is what copyString finds for its characters, except the one that is
\* being put into the table.
THEOREM EqualStringsAreOne == Spec => []Interned
  <1>1. IInv /\ InternInv => Interned
    <2> SUFFICES ASSUME IInv, InternInv, gc = "off", NEW s \in Allocated,
                        heap[s].type = "string", at \in {"intern", "rehash"} => s # Top
                 PROVE  FindString(heap[s].text) = s
      BY DEF Interned
    <2>1. s \in Alive \ Pending
      BY DEF Alive, Pending
    <2> QED BY <2>1, FindsWhatIsThere DEF InternInv, TableInv
  <1> QED BY <1>1, InitHolds, NextKeeps, InitInterns, NextInterns, PTL DEF Spec
=============================================================================
