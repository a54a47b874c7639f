---------------------------- MODULE TableIteration ----------------------------
(***************************************************************************)
(* A program that walks over a map or a set and changes it on the way.     *)
(* A for-each loop keeps its index in an iterator object and runs the body *)
(* between two calls of OP_ITERATE; a native (forEach, map, filter, find)  *)
(* keeps it in a C variable and runs a callback in each round.  Body and   *)
(* callback may do to the table whatever a program may.                    *)
(***************************************************************************)
EXTENDS ValueTable

VARIABLES
    isMap,      \* the table belongs to a map, else to a set
    phase,      \* who is running: the walk, or the program in between
    index,      \* iter->index; the i of a native
    handed,     \* the key the body or the callback has got
    stored,     \* the key map() or filter() has then stored a result under
    lasting,    \* history: classes in the table since the walk began, none after
                \* a rehash or a clear
    visits      \* history: how often each of these has been handed out

allVars == <<entries, capacity, count, liveCount, fresh, next, pending, pc, reply,
             isMap, phase, index, handed, stored, lasting, visits>>

Classes == {Class[k] : k \in Keys}

Present(es) == {Class[es[i].key] : i \in OccupiedIndices(es)}

NoVisits == [c \in Classes |-> 0]

WalkInit ==
    /\ Init
    /\ isMap \in BOOLEAN
    /\ phase = "none"
    /\ index = 0
    /\ handed = Nil
    /\ stored = {}
    /\ lasting = {}
    /\ visits = NoVisits

-----------------------------------------------------------------------------
BugMapsCanClear == TRUE

\* Only sets have a clear().
CanClear == ~isMap

\* The program uses the table: before the walk, in the body of the for-each, or in
\* the callback.
UseTable ==
    /\ phase \in {"none", "body", "callback"}
    /\ \/ \E k \in Keys : Get(k) \/ Delete(k) \/ \E v \in Values : Set(k, v)
       \/ CanClear /\ Clear
       \/ Rehash
       \/ Replace
       \/ Store
    /\ lasting' = IF capacity' = capacity THEN lasting \cap Present(entries') ELSE {}
    /\ visits' = [c \in Classes |-> IF c \in lasting' THEN visits[c] ELSE 0]
    /\ UNCHANGED <<isMap, phase, index, handed, stored>>

\* newIterator, or the native up to its loop.
Start(newPhase) ==
    /\ phase = "none"
    /\ pc = "idle"
    /\ phase' = newPhase
    /\ index' = 0
    /\ lasting' = Present(entries)
    /\ UNCHANGED <<vars, isMap, handed, stored, visits>>

StartForEach == Start("body")

StartNative == Start("scan")

-----------------------------------------------------------------------------
(* Rounds.                                                                 *)

\* Occupied entries the walk has not passed.
Ahead == {i \in OccupiedIndices(entries) : i >= index}

Hand(i) ==
    /\ handed' = entries[i].key
    /\ LET c == Class[entries[i].key]
       IN  visits' = IF c \in lasting THEN [visits EXCEPT ![c] = @ + 1] ELSE visits

BugIndexStays(i) == i

\* The iterator steps past the entry before the body runs.
IndexAfter(i) == i + 1

\* OP_ITERATE on a map or a set, and the end of the loop.
Iterate ==
    /\ phase = "body"
    /\ pc = "idle"
    /\ IF Ahead = {}
       THEN /\ phase' = "done"
            /\ UNCHANGED <<index, handed, visits>>
       ELSE /\ Hand(Min(Ahead))
            /\ index' = IndexAfter(Min(Ahead))
            /\ UNCHANGED phase
    /\ UNCHANGED <<vars, isMap, stored, lasting>>

BugStepsPast(i) == i + 1

\* A native stays at the entry while the callback runs.
IndexDuring(i) == i

\* The loop of a native up to the callback.  The entry reduce() takes as its first
\* accumulator counts as handed out.
Scan ==
    /\ phase = "scan"
    /\ IF Ahead = {}
       THEN /\ phase' = "done"
            /\ UNCHANGED <<index, handed, visits>>
       ELSE /\ Hand(Min(Ahead))
            /\ index' = IndexDuring(Min(Ahead))
            /\ phase' = "callback"
    /\ UNCHANGED <<vars, isMap, stored, lasting>>

\* After the callback, map() and filter() read the key at the same index again; an
\* index beyond the array is undefined behaviour.  find() reads the value there and
\* is done; forEach, reduce, any and all read nothing.
Resume(keep) ==
    /\ phase = "callback"
    /\ pc = "idle"
    /\ IF keep /\ index >= capacity
       THEN /\ phase' = "wild"
            /\ UNCHANGED <<index, stored>>
       ELSE /\ stored' = IF keep THEN {entries[index].key} ELSE {}
            /\ index' = index + 1
            /\ phase' = "scan"
    /\ UNCHANGED <<vars, isMap, handed, lasting, visits>>

\* The walk has ended, by itself or by a break, a return or an exception in the body
\* or the callback; the program goes on.
Leave ==
    /\ phase \in {"body", "callback", "done"}
    /\ pc = "idle"
    /\ phase' = "none"
    /\ index' = 0
    /\ handed' = Nil
    /\ stored' = {}
    /\ lasting' = {}
    /\ visits' = NoVisits
    /\ UNCHANGED <<vars, isMap>>

WalkNext ==
    \/ UseTable
    \/ StartForEach \/ StartNative
    \/ Iterate \/ Scan
    \/ Resume(FALSE)
    \/ isMap /\ Resume(TRUE)
    \/ Leave

WalkSpec == WalkInit /\ [][WalkNext]_allVars

-----------------------------------------------------------------------------
(* Properties.                                                             *)

\* The walk ends with every entry that was there from its beginning to its end
\* handed out exactly once, and none twice on the way, whatever else the body
\* inserted, overwrote or deleted, as long as the table is not rehashed or cleared.
EachLastingEntryOnce ==
    \A c \in lasting :
        /\ visits[c] <= 1
        /\ phase = "done" => visits[c] = 1

\* map() and filter() store what they do for a key under that key: an entry that
\* lasts is still at its index after the callback, overwritten or not.
StoredUnderItsKey ==
    phase = "scan" =>
        \A k \in stored : Class[handed] \in lasting => k \in Keys /\ Equal(handed, k)

\* A native never reads past the end of the array after its callback.
ReadsInBounds == phase # "wild"
=============================================================================
