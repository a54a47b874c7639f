-------------------------------- MODULE Heap --------------------------------
(***************************************************************************)
(* Objects, the garbage collector (memory.c) and the table of interned     *)
(* strings (object.c, table.c).                                            *)
(*                                                                         *)
(* A C routine that allocates is a sequence of steps: `at` says which one  *)
(* comes next.  Before any step that allocates, reallocate may run a whole *)
(* collection; whether it does depends on sizes the model leaves out.       *)
(* A collection marks, traces one object after the other, drops the        *)
(* strings that were not reached from the table and sweeps one object      *)
(* after the other.                                                        *)
(*                                                                         *)
(* An object holds references in the fields its type has in object.h; the  *)
(* elements of an array and the entries of a table are the set of what     *)
(* they refer to, and the order of the gray stack and of the list of all   *)
(* objects is left out.  Only objects are values here.                     *)
(***************************************************************************)
EXTENDS Integers, Sequences, FiniteSets, FiniteSetsExt

CONSTANTS
    Addr,            \* addresses of objects
    None,            \* no object: NULL, or an empty entry
    Tombstone,       \* a deleted entry of the string table
    Contents,        \* the characters strings may have
    Hash,            \* hashString
    Containers,      \* types of objects that hold others, with the field its constructor
                     \* fills and the field a program stores in, None if there is none
    Appends,         \* how a value is stored: "guarded" stays on the stack,
                     \* "popped" is held by the C routine alone
    StackMax,        \* bound on the stack
    MIN_CAPACITY     \* first capacity GROW_CAPACITY gives (8)

ASSUME ConstantsAssumption ==
    /\ None \notin Addr /\ Tombstone \notin Addr \cup {None}
    /\ IsFiniteSet(Addr)
    /\ Hash \in [Contents -> Nat]
    /\ Appends \subseteq {"guarded", "popped"}
    /\ StackMax \in Nat
    /\ MIN_CAPACITY \in Nat /\ MIN_CAPACITY > 1

VARIABLES
    container,   \* the containers of this behaviour
    heap,        \* the object at each address, Free where there is none
    stack,       \* the slots below vm.stackTop
    open,        \* openUpvalues: the upvalue of each open slot
    strings,     \* the entries of vm.strings
    at,          \* where the C routine in progress goes on, "idle" if none is
    local,       \* its local variables
    collected,   \* whether reallocate has collected for its next step
    gc,          \* phase of the collection: off, trace, sweep
    marked,      \* objects with isMarked set
    gray,        \* vm.grayStack
    unswept      \* the part of vm.objects sweep() has not reached

routine == <<at, local, collected>>
mutator == <<container, stack, open, routine>>
vars == <<mutator, heap, strings, gc, marked, gray, unswept>>

-----------------------------------------------------------------------------
(* Objects.                                                                *)

Fields ==
    [array |-> {"elements", "elementType"}, bytes |-> {}, bound |-> {"receiver", "method"},
     file |-> {"path", "mode"}, iterator |-> {"source"}, regex |-> {"pattern"},
     instance |-> {"klass", "fields"}, map |-> {"entries", "keyType", "valueType"},
     set |-> {"entries", "elementType"}, class |-> {"name", "superclass", "methods"},
     closure |-> {"function", "upvalues", "globalsOwner"},
     module |-> {"name", "path", "values"}, function |-> {"name", "paramNames", "constants"},
     upvalue |-> {"closed"}, descriptor |-> {"name", "classRef", "validatorFn"},
     native |-> {}, nativeMethod |-> {}, string |-> {}]

ASSUME ContainersAssumption ==
    \A c \in Containers :
        /\ c.type \in DOMAIN Fields \ {"string", "upvalue"}
        /\ {c.made, c.stored} \subseteq Fields[c.type] \cup {None}

\* The fields blackenObject marks.
Blackened ==
    [array |-> {"elements", "elementType"}, bytes |-> {}, bound |-> {"receiver", "method"},
     file |-> {"path", "mode"}, iterator |-> {"source"}, regex |-> {"pattern"},
     instance |-> {"klass", "fields"}, map |-> {"entries", "keyType", "valueType"},
     set |-> {"entries", "elementType"}, class |-> {"name", "superclass", "methods"},
     closure |-> {"function", "upvalues", "globalsOwner"},
     module |-> {"name", "path", "values"}, function |-> {"name", "paramNames", "constants"},
     upvalue |-> {"closed"}, descriptor |-> {"name", "classRef", "validatorFn"},
     native |-> {}, nativeMethod |-> {}, string |-> {}]

Free == [type |-> "free", text |-> None, refs |-> <<>>]

New(type, text) == [type |-> type, text |-> text, refs |-> [f \in Fields[type] |-> {}]]

\* The object with v in one of its fields, besides what it holds or in its place.
Holding(object, f, refs) ==
    [type |-> object.type, text |-> object.text, refs |-> [object.refs EXCEPT ![f] = refs]]
Adding(object, f, v) == Holding(object, f, object.refs[f] \cup {v})

Allocated == {o \in Addr : heap[o] # Free}
Children(o) == UNION {heap[o].refs[f] : f \in Fields[heap[o].type]}
OnStack == {stack[i] : i \in DOMAIN stack}
OpenUpvalues == {open[i] : i \in DOMAIN open} \ {None}

\* markRoots; the compiler's functions, the globals and the names the machine
\* keeps for itself are roots like the stack, and stand for nothing more here.
Roots == OnStack \cup OpenUpvalues

-----------------------------------------------------------------------------
(* The string table: linear probing from the hash of the characters.       *)

Capacity == Cardinality(DOMAIN strings)
Place(text, i, size) == (Hash[text] + i) % size
IsString(e) == e \notin {None, Tombstone}

\* No empty entry stops a probe for the text before it comes to p.
Reaches(text, p) ==
    \A i \in 0 .. ((p - Hash[text]) % Capacity) - 1 : strings[Place(text, i, Capacity)] # None

\* tableFindString: the interned string, or None.
FindString(text) ==
    LET hits == {p \in DOMAIN strings : /\ IsString(strings[p])
                                        /\ heap[strings[p]].text = text
                                        /\ Reaches(text, p)}
    IN IF hits = {} THEN None ELSE strings[CHOOSE p \in hits : TRUE]

\* findEntry for a key that is not in the table: the first entry it may take.
FreeEntry(table, text) ==
    LET size == Cardinality(DOMAIN table)
        entry(i) == Place(text, i, size)
    IN entry(Min({i \in DOMAIN table : ~IsString(table[entry(i)])}))

Count == Cardinality({p \in DOMAIN strings : strings[p] # None})    \* tombstones too
NeedsRoom == 4 * (Count + 1) > 3 * Capacity
GrownCapacity == IF Capacity < MIN_CAPACITY THEN MIN_CAPACITY ELSE 2 * Capacity

-----------------------------------------------------------------------------
(* The collector.                                                          *)

\* reallocate runs at most one collection before it returns.
Collect ==
    /\ gc = "off" /\ at # "idle" /\ ~collected
    /\ collected' = TRUE
    /\ gc' = "trace"
    /\ marked' = marked \cup Roots /\ gray' = Roots \ marked
    /\ UNCHANGED <<container, heap, stack, open, at, local, strings, unswept>>

BugBlacken(o) == UNION {heap[o].refs[f] : f \in Blackened[heap[o].type] \ {"upvalues"}}

Blacken(o) == UNION {heap[o].refs[f] : f \in Blackened[heap[o].type]}

BugTrace ==                     \* isMarked is not looked at
    /\ gc = "trace" /\ gray # {}
    /\ LET o == CHOOSE x \in gray : TRUE IN
       /\ marked' = marked \cup Blacken(o)
       /\ gray' = (gray \ {o}) \cup Blacken(o)
    /\ UNCHANGED <<mutator, heap, strings, gc, unswept>>

Trace ==
    /\ gc = "trace" /\ gray # {}
    /\ LET o == CHOOSE x \in gray : TRUE IN
       /\ marked' = marked \cup Blacken(o)
       /\ gray' = (gray \ {o}) \cup (Blacken(o) \ marked)
    /\ UNCHANGED <<mutator, heap, strings, gc, unswept>>

BugRemoveWhite ==               \* no tombstones
    [p \in DOMAIN strings |-> IF IsString(strings[p]) /\ strings[p] \notin marked
                              THEN None ELSE strings[p]]

\* tableRemoveWhite: done before the sweep, while the strings can be read.
RemoveWhite ==
    [p \in DOMAIN strings |-> IF IsString(strings[p]) /\ strings[p] \notin marked
                              THEN Tombstone ELSE strings[p]]

StartSweep ==
    /\ gc = "trace" /\ gray = {}
    /\ gc' = "sweep"
    /\ strings' = RemoveWhite
    /\ unswept' = Allocated
    /\ UNCHANGED <<mutator, heap, marked, gray>>

BugSweep ==                     \* what survives stays marked
    /\ gc = "sweep" /\ unswept # {}
    /\ LET o == CHOOSE x \in unswept : TRUE IN
       /\ unswept' = unswept \ {o}
       /\ heap' = IF o \in marked THEN heap ELSE [heap EXCEPT ![o] = Free]
    /\ UNCHANGED <<mutator, strings, gc, marked, gray>>

Sweep ==
    /\ gc = "sweep" /\ unswept # {}
    /\ LET o == CHOOSE x \in unswept : TRUE IN
       /\ unswept' = unswept \ {o}
       /\ marked' = marked \ {o}
       /\ heap' = IF o \in marked THEN heap ELSE [heap EXCEPT ![o] = Free]
    /\ UNCHANGED <<mutator, strings, gc, gray>>

EndCollection ==
    /\ gc = "sweep" /\ unswept = {}
    /\ gc' = "off"
    /\ UNCHANGED <<mutator, heap, strings, marked, gray, unswept>>

Collector == Trace \/ StartSweep \/ Sweep \/ EndCollection

-----------------------------------------------------------------------------
(* Routines that allocate.  `At` is where the routine in progress goes on. *)

At(place) == gc = "off" /\ at = place
Ready == At("idle")
Do(place, l, c) == at' = place /\ local' = l /\ collected' = c
Finish == Do("idle", None, FALSE)
CollectorIdle == UNCHANGED <<container, gc, marked, gray, unswept>>

\* Bound: a routine that finds no free address is not continued.
SomeFree == Allocated # Addr
NewAddress == CHOOSE o \in Addr : o \notin Allocated

Push(o) == Append(stack, o)
Top == stack[Len(stack)]
Second == stack[Len(stack) - 1]
Below(n) == SubSeq(stack, 1, Len(stack) - n)
HasRoom == Len(stack) < StackMax

\* copyString: what is interned already is not allocated again.
CopyString(text) ==
    /\ Ready /\ HasRoom
    /\ IF FindString(text) # None
       THEN stack' = Push(FindString(text)) /\ UNCHANGED routine
       ELSE Do("chars", text, FALSE) /\ UNCHANGED stack
    /\ UNCHANGED <<heap, open, strings>> /\ CollectorIdle

\* The characters are allocated before the object that will own them.
AllocateChars ==
    /\ At("chars")
    /\ Do("string", local, FALSE)
    /\ UNCHANGED <<heap, stack, open, strings>> /\ CollectorIdle

\* allocateString pushes the string while the table may grow.
AllocateString ==
    /\ At("string") /\ SomeFree
    /\ heap' = [heap EXCEPT ![NewAddress] = New("string", local)]
    /\ stack' = Push(NewAddress)
    /\ Do("intern", local, ~NeedsRoom)
    /\ UNCHANGED <<open, strings>> /\ CollectorIdle

\* tableSet; what copyString returns is pushed by its caller.
Intern ==
    /\ At("intern")
    /\ IF NeedsRoom
       THEN /\ Do("rehash", [next |-> 0, fresh |-> [p \in 0 .. GrownCapacity - 1 |-> None]], TRUE)
            /\ UNCHANGED strings
       ELSE /\ strings' = [strings EXCEPT ![FreeEntry(strings, heap[Top].text)] = Top]
            /\ Finish
    /\ UNCHANGED <<heap, stack, open>> /\ CollectorIdle

\* adjustCapacity: the entries are moved in the order of the old array.
Rehash ==
    /\ At("rehash")
    /\ LET s == strings[local.next] IN
       IF local.next \in DOMAIN strings
       THEN /\ local' = [next |-> local.next + 1,
                         fresh |-> IF ~IsString(s) THEN local.fresh
                                   ELSE [local.fresh EXCEPT ![FreeEntry(local.fresh, heap[s].text)] = s]]
            /\ UNCHANGED <<strings, at, collected>>
       ELSE strings' = local.fresh /\ Do("intern", heap[Top].text, TRUE)
    /\ UNCHANGED <<heap, stack, open>> /\ CollectorIdle

\* newClosure, newInstance, newArrayIterator ...: the object refers to the value
\* on top of the stack, which it replaces; a new array or map is empty.
NewObject ==
    /\ Ready
    /\ IF container.made = None THEN HasRoom ELSE stack # <<>> /\ open[Len(stack)] = None
    /\ Do("object", None, FALSE)
    /\ UNCHANGED <<heap, stack, open, strings>> /\ CollectorIdle

AllocateObject ==
    /\ At("object") /\ SomeFree
    /\ LET object == New(container.type, None) IN
       IF container.made = None
       THEN /\ heap' = [heap EXCEPT ![NewAddress] = object]
            /\ stack' = Push(NewAddress)
       ELSE /\ heap' = [heap EXCEPT ![NewAddress] = Holding(object, container.made, {Top})]
            /\ stack' = Append(Below(1), NewAddress)
    /\ Finish
    /\ UNCHANGED <<open, strings>> /\ CollectorIdle

\* The value on top of the stack is stored in the container below it.
Write ==
    /\ Ready /\ container.stored # None
    /\ Len(stack) > 1 /\ open[Len(stack)] = None /\ heap[Second].type = container.type
    /\ \E how \in Appends :
          /\ Do("write", [how |-> how, value |-> Top], FALSE)
          /\ stack' = IF how = "popped" THEN Below(1) ELSE stack
    /\ UNCHANGED <<heap, open, strings>> /\ CollectorIdle

\* A popped value may be gone by now; the model does not follow what comes of
\* storing memory that was freed.
StoreValue ==
    /\ At("write") /\ local.value \in Allocated
    /\ LET guarded == local.how = "guarded"
           target == IF guarded THEN Second ELSE Top
       IN /\ heap' = [heap EXCEPT ![target] = Adding(@, container.stored, local.value)]
          /\ stack' = IF guarded THEN Below(1) ELSE stack
    /\ Finish
    /\ UNCHANGED <<open, strings>> /\ CollectorIdle

\* captureUpvalue for the closure on top of the stack.
Capture(slot) ==
    /\ Ready /\ stack # <<>> /\ slot < Len(stack)
    /\ heap[Top].type = "closure"
    /\ IF open[slot] # None
       THEN /\ heap' = [heap EXCEPT ![Top] = Adding(@, "upvalues", open[slot])]
            /\ UNCHANGED routine
       ELSE Do("upvalue", slot, FALSE) /\ UNCHANGED heap
    /\ UNCHANGED <<stack, open, strings>> /\ CollectorIdle

AllocateUpvalue ==
    /\ At("upvalue") /\ SomeFree
    /\ heap' = [heap EXCEPT ![NewAddress] = New("upvalue", None),
                            ![Top] = Adding(@, "upvalues", NewAddress)]
    /\ open' = [open EXCEPT ![local] = NewAddress]
    /\ Finish
    /\ UNCHANGED <<stack, strings>> /\ CollectorIdle

\* closeUpvalues: the open upvalues from a slot on take the values of their slots.
CloseUpvalues(slot) ==
    LET closing == {open[i] : i \in slot .. StackMax} \ {None} IN
    /\ heap' = [o \in Addr |->
                   IF o \in closing
                   THEN Holding(heap[o], "closed", {stack[i] : i \in {k \in DOMAIN stack : open[k] = o}})
                   ELSE heap[o]]
    /\ open' = [i \in DOMAIN open |-> IF i < slot THEN open[i] ELSE None]

\* OP_CLOSE_UPVALUE, or OP_POP where no upvalue is open.
Pop ==
    /\ Ready /\ stack # <<>>
    /\ CloseUpvalues(Len(stack))
    /\ stack' = Below(1)
    /\ UNCHANGED <<routine, strings>> /\ CollectorIdle

\* OP_RETURN: the result takes the place of the frame that starts at the slot.
Return(slot) ==
    /\ Ready /\ slot < Len(stack)
    /\ CloseUpvalues(slot)
    /\ stack' = Append(SubSeq(stack, 1, slot - 1), Top)
    /\ UNCHANGED <<routine, strings>> /\ CollectorIdle

\* A value is read out of the container on top of the stack, which it replaces.
Read ==
    /\ Ready /\ stack # <<>> /\ open[Len(stack)] = None
    /\ \E o \in Children(Top) : stack' = Append(Below(1), o)
    /\ UNCHANGED <<routine, heap, open, strings>> /\ CollectorIdle

\* OP_DUP, OP_GET_LOCAL.
Duplicate ==
    /\ Ready /\ stack # <<>> /\ HasRoom
    /\ \E o \in OnStack : stack' = Push(o)
    /\ UNCHANGED <<routine, heap, open, strings>> /\ CollectorIdle

-----------------------------------------------------------------------------
Init ==
    /\ container \in Containers
    /\ heap = [o \in Addr |-> Free]
    /\ stack = <<>> /\ open = [i \in 1 .. StackMax |-> None]
    /\ strings = <<>>
    /\ at = "idle" /\ local = None /\ collected = FALSE
    /\ gc = "off" /\ marked = {} /\ gray = {} /\ unswept = {}

Routines ==
    \/ \E text \in Contents : CopyString(text)
    \/ NewObject \/ Write
    \/ \E slot \in 1 .. StackMax : Capture(slot) \/ Return(slot)
    \/ Pop \/ Read \/ Duplicate

Continue ==
    AllocateChars \/ AllocateString \/ Intern \/ Rehash \/ AllocateObject \/ StoreValue \/ AllocateUpvalue

Next == Collect \/ Collector \/ Routines \/ Continue

Spec == Init /\ [][Next]_vars /\ WF_vars(Collector)

-----------------------------------------------------------------------------
(* Properties.                                                             *)

\* What can be reached from the roots and from the C routine in progress.
Held == Roots \cup (IF at = "write" THEN {local.value} ELSE {})
Closed(S) == \A o \in S \cap Allocated : Children(o) \subseteq S
From(starts) ==
    {o \in Addr : \A S \in SUBSET Addr : starts \subseteq S /\ Closed(S) => o \in S}
Reachable == From(Held)

\* Nothing the program can reach, and nothing a C routine holds, has been freed,
\* wherever the collection took place; but what only the routine holds that has
\* popped the value it stores may be gone before it is stored (OP_ARRAY_APPEND,
\* OP_SPREAD_ARRAY, map.map).
NothingDangles ==
    \/ Reachable \subseteq Allocated
    \/ at = "write" /\ local.how = "popped" /\ From(Roots) \subseteq Allocated

\* Two strings are equal exactly when they are the same object: a string whose
\* characters are known is found again, whatever strings were collected and
\* whatever places they left in the table.
Interned ==
    gc = "off" =>
        \A s \in Allocated :
            heap[s].type = "string" /\ (at \in {"intern", "rehash"} => s # Top) =>
                FindString(heap[s].text) = s

\* A collection frees everything that cannot be reached.
FreesAllGarbage ==
    [][gc = "sweep" /\ gc' = "off" => Allocated \subseteq Reachable]_vars

\* A collection that has begun comes to its end: an object is gray only once.
CollectionEnds == [](gc # "off" => <>(gc = "off"))
=============================================================================
