------------------------------ MODULE ValueTable ------------------------------
(***************************************************************************)
(* The hash table behind maps and sets: linear probing, tombstones, and a  *)
(* rehash into twice the space when occupied entries and tombstones        *)
(* together pass three quarters of the capacity.                           *)
(*                                                                         *)
(* A call is one step, except that valueTableSet rehashes entry by entry   *)
(* before it stores: the table in use stays as it was until the new array  *)
(* replaces it.  A probe that meets neither an empty entry nor its key     *)
(* never returns; the model then goes to "probing" for good.               *)
(*                                                                         *)
(* A definition named Bug... is not part of the model: it is the next      *)
(* definition with a plausible mistake in it, kept to show which property  *)
(* notices.                                                                *)
(***************************************************************************)
EXTENDS Integers, FiniteSets, FiniteSetsExt

CONSTANTS
    Keys,           \* values that may be used as keys
    Values,         \* values that may be stored, Nil among them
    Nil,            \* NIL_VAL
    True,           \* BOOL_VAL(true)
    NaNs,           \* keys that do not equal themselves
    Class,          \* class of equal values each key belongs to
    Hash,           \* low 31 bits of hashValue(), the only ones ever used
    MIN_CAPACITY,   \* first capacity GROW_CAPACITY gives (8)
    MAX_CAPACITY    \* bound: no call that would grow the table beyond it

ASSUME ConstantsAssumption ==
    /\ Nil \in Values
    /\ True # Nil
    /\ NaNs \subseteq Keys
    /\ Hash \in [Keys -> Nat]
    /\ MIN_CAPACITY \in Nat /\ MIN_CAPACITY > 1
    /\ MAX_CAPACITY \in Nat

\* The contract between hashValue() and valuesEqual().
ASSUME HashAssumption ==
    \A a, b \in Keys : Class[a] = Class[b] => Hash[a] = Hash[b]

VARIABLES
    entries,     \* table->entries
    capacity,    \* table->capacity
    count,       \* table->count: occupied entries and tombstones
    liveCount,   \* table->liveCount: occupied entries
    fresh,       \* the array adjustCapacity fills
    next,        \* its loop index
    pending,     \* the key and value of the valueTableSet in progress
    pc,          \* where the code is
    reply        \* the answer of the last call

table == <<entries, capacity, count, liveCount>>
rehash == <<fresh, next, pending>>
vars == <<entries, capacity, count, liveCount, fresh, next, pending, pc, reply>>

-----------------------------------------------------------------------------
(* Entries and probing.                                                    *)

Entry == [key : Keys \cup {Nil}, value : Values \cup {True}, occupied : BOOLEAN]

Occupied(k, v) == [key |-> k, value |-> v, occupied |-> TRUE]

Empty == [key |-> Nil, value |-> Nil, occupied |-> FALSE]

BugTombstoneEmpty == Empty

Tombstone == [key |-> Nil, value |-> True, occupied |-> FALSE]

IsEmpty(e) == ~e.occupied /\ e.value = Nil

IsTombstone(e) == ~e.occupied /\ e.value # Nil

NoEntries == [i \in {} |-> Empty]

BugOneEntryTooMany(cap) == [i \in 0 .. cap |-> Empty]

AllEmpty(cap) == [i \in 0 .. cap - 1 |-> Empty]

\* valuesEqual.
Equal(a, b) == Class[a] = Class[b] /\ a \notin NaNs /\ b \notin NaNs

\* The index a probe looks at after d others; a capacity is a power of two, so the
\* code masks where the model takes the remainder.
Probe(cap, k, d) ==
    LET i == (Hash[k] % cap) + d
    IN  IF i < cap THEN i ELSE i - cap

\* Distances at which findEntry stops: an empty entry, or the key.
Stops(es, cap, k) ==
    { d \in 0 .. cap - 1 : LET e == es[Probe(cap, k, d)]
                           IN  IsEmpty(e) \/ (e.occupied /\ Equal(e.key, k)) }

TombstonesBefore(es, cap, k, n) ==
    {d \in 0 .. n - 1 : IsTombstone(es[Probe(cap, k, d)])}

\* findEntry: the entry of the key; else the first tombstone on the way to the first
\* empty entry, or that one.
FindEntry(es, cap, k) ==
    LET n     == Min(Stops(es, cap, k))
        tombs == TombstonesBefore(es, cap, k, n)
    IN  IF es[Probe(cap, k, n)].occupied \/ tombs = {}
        THEN Probe(cap, k, n)
        ELSE Probe(cap, k, Min(tombs))

Answer(found, value) == [found |-> found, value |-> value]

-----------------------------------------------------------------------------
Init ==
    /\ entries = NoEntries
    /\ capacity = 0
    /\ count = 0
    /\ liveCount = 0
    /\ fresh = NoEntries
    /\ next = 0
    /\ pending = [key |-> Nil, value |-> Nil]
    /\ pc = "idle"
    /\ reply = Answer(FALSE, Nil)

\* A probe that nothing stops.
ProbeForever ==
    /\ pc' = "probing"
    /\ UNCHANGED <<table, rehash, reply>>

\* valueTableGet.
Get(k) ==
    /\ pc = "idle"
    /\ IF count > 0 /\ Stops(entries, capacity, k) = {}
       THEN ProbeForever
       ELSE LET e == IF count = 0 THEN Empty ELSE entries[FindEntry(entries, capacity, k)]
            IN  /\ reply' = IF e.occupied THEN Answer(TRUE, e.value) ELSE Answer(FALSE, Nil)
                /\ UNCHANGED <<table, rehash, pc>>

\* valueTableDelete.
Delete(k) ==
    /\ pc = "idle"
    /\ IF count > 0 /\ Stops(entries, capacity, k) = {}
       THEN ProbeForever
       ELSE LET i == FindEntry(entries, capacity, k)
            IN  /\ IF count > 0 /\ entries[i].occupied
                   THEN /\ entries' = [entries EXCEPT ![i] = Tombstone]
                        /\ liveCount' = liveCount - 1
                        /\ reply' = Answer(TRUE, Nil)
                   ELSE /\ reply' = Answer(FALSE, Nil)
                        /\ UNCHANGED <<entries, liveCount>>
                /\ UNCHANGED <<capacity, count, rehash, pc>>

\* freeValueTable and initValueTable, as setClear calls them.
Clear ==
    /\ pc = "idle"
    /\ entries' = NoEntries
    /\ capacity' = 0
    /\ count' = 0
    /\ liveCount' = 0
    /\ reply' = Answer(FALSE, Nil)
    /\ UNCHANGED <<rehash, pc>>

-----------------------------------------------------------------------------
(* valueTableSet.                                                          *)

GrowCapacity(cap) == IF cap < MIN_CAPACITY THEN MIN_CAPACITY ELSE 2 * cap

BugRoomForLiveEntries == 4 * (liveCount + 1) > 3 * capacity

\* count + 1 > capacity * TABLE_MAX_LOAD: tombstones take room too.
NeedsRoom == 4 * (count + 1) > 3 * capacity

\* The test for room, and adjustCapacity up to its loop.
Set(k, v) ==
    /\ pc = "idle"
    /\ NeedsRoom => GrowCapacity(capacity) <= MAX_CAPACITY
    /\ pending' = [key |-> k, value |-> v]
    /\ IF NeedsRoom
       THEN /\ fresh' = AllEmpty(GrowCapacity(capacity))
            /\ count' = 0
            /\ liveCount' = 0
            /\ pc' = "rehash"
       ELSE /\ pc' = "store"
            /\ UNCHANGED <<fresh, count, liveCount>>
    /\ UNCHANGED <<entries, capacity, next, reply>>

BugMovesNoNil(e) == e.occupied /\ e.value # Nil

\* adjustCapacity leaves tombstones behind.
Moves(e) == e.occupied

\* One round of the loop of adjustCapacity.
Rehash ==
    /\ pc = "rehash"
    /\ next < capacity
    /\ LET e   == entries[next]
           cap == GrowCapacity(capacity)
       IN  IF ~Moves(e)
           THEN /\ next' = next + 1
                /\ UNCHANGED <<table, fresh, pending, pc, reply>>
           ELSE IF Stops(fresh, cap, e.key) = {}
                THEN ProbeForever
                ELSE /\ fresh' = [fresh EXCEPT ![FindEntry(fresh, cap, e.key)] =
                                      Occupied(e.key, e.value)]
                     /\ count' = count + 1
                     /\ liveCount' = liveCount + 1
                     /\ next' = next + 1
                     /\ UNCHANGED <<entries, capacity, pending, pc, reply>>

\* The end of adjustCapacity: the new array replaces the old one.
Replace ==
    /\ pc = "rehash"
    /\ next = capacity
    /\ entries' = fresh
    /\ capacity' = GrowCapacity(capacity)
    /\ fresh' = NoEntries
    /\ next' = 0
    /\ pc' = "store"
    /\ UNCHANGED <<count, liveCount, pending, reply>>

BugCountsEveryNewKey(e) == ~e.occupied

\* A new key in a tombstone takes no new room.
TakesRoom(e) == ~e.occupied /\ e.value = Nil

BugLiveOnlyWithNewRoom(e) == TakesRoom(e)

\* isNewKey.
IsNewKey(e) == ~e.occupied

\* The rest of valueTableSet.  An equal key that is already there is overwritten.
Store ==
    /\ pc = "store"
    /\ IF Stops(entries, capacity, pending.key) = {}
       THEN ProbeForever
       ELSE LET i == FindEntry(entries, capacity, pending.key)
                e == entries[i]
            IN  /\ entries' = [entries EXCEPT ![i] = Occupied(pending.key, pending.value)]
                /\ count' = IF TakesRoom(e) THEN count + 1 ELSE count
                /\ liveCount' = IF IsNewKey(e) THEN liveCount + 1 ELSE liveCount
                /\ reply' = Answer(~IsNewKey(e), Nil)
                /\ pending' = [key |-> Nil, value |-> Nil]
                /\ pc' = "idle"
                /\ UNCHANGED <<capacity, fresh, next>>

Next ==
    \/ \E k \in Keys : Get(k) \/ Delete(k) \/ \E v \in Values : Set(k, v)
    \/ Clear
    \/ Rehash \/ Replace \/ Store

Spec == Init /\ [][Next]_vars

-----------------------------------------------------------------------------
(* Properties.                                                             *)

OccupiedIndices(es) == {i \in DOMAIN es : es[i].occupied}

EntriesOf(es) == {[key |-> es[i].key, value |-> es[i].value] : i \in OccupiedIndices(es)}

UsedIndices(es) == {i \in DOMAIN es : ~IsEmpty(es[i])}

\* The state has the shapes declared above.
TypeOK ==
    /\ capacity \in Nat
    /\ entries \in [0 .. capacity - 1 -> Entry]
    /\ \A i \in 0 .. capacity - 1 : entries[i].occupied => entries[i].key \in Keys
    /\ count \in Nat
    /\ liveCount \in Nat
    /\ pc \in {"idle", "rehash", "store", "probing"}
    /\ next \in 0 .. capacity
    /\ pc = "rehash" =>
         /\ fresh \in [0 .. GrowCapacity(capacity) - 1 -> Entry]
         /\ \A i \in DOMAIN fresh : fresh[i].occupied => fresh[i].key \in Keys
    /\ pc \in {"idle", "store"} => fresh = NoEntries /\ next = 0
    /\ pc \in {"rehash", "store"} => pending \in [key : Keys, value : Values]
    /\ reply \in [found : BOOLEAN, value : Values \cup {True}]

\* The two counters say what is in the array, during a rehash in the new one;
\* tombstones included, at most three quarters of the table are in use, so every
\* array has an empty entry.
CountsExact ==
    /\ pc \in {"idle", "store"} =>
         /\ count = Cardinality(UsedIndices(entries))
         /\ liveCount = Cardinality(OccupiedIndices(entries))
         /\ 4 * count <= 3 * capacity
    /\ pc = "rehash" =>
         /\ count = Cardinality(UsedIndices(fresh))
         /\ liveCount = Cardinality(OccupiedIndices(fresh))

\* No call of the table probes forever, whatever sequence of insertions and
\* deletions fills it with tombstones.
ProbesEnd == pc # "probing"

\* Every entry with a key that equals itself is the one findEntry finds for that
\* key: no deletion, reused tombstone or rehash hides an entry or leaves two for
\* equal keys.
Findable ==
    pc \in {"idle", "store", "rehash"} =>
        \A i \in OccupiedIndices(entries) :
            entries[i].key \notin NaNs => FindEntry(entries, capacity, entries[i].key) = i
=============================================================================
