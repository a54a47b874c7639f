------------------------------- MODULE MCHeap -------------------------------
(***************************************************************************)
(* Three addresses, and two texts whose probes start at the same entry.    *)
(***************************************************************************)
EXTENDS Heap

MCAddr == 1 .. 3
MCHash == [t \in Contents |-> 1]

Array == [type |-> "array", made |-> None, stored |-> "elements"]
Closure == [type |-> "closure", made |-> "function", stored |-> None]
MCContainers == {Array, Closure}
MCArrays == {Array}
=============================================================================
