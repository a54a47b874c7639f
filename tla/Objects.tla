------------------------------- MODULE Objects -------------------------------
(***************************************************************************)
(* The objects of object.h, as the new... functions of object.c make them. *)
(***************************************************************************)
EXTENDS Syntax

\* The argument of an optional parameter that the call left out.
Missing == [t |-> "missing"]

ArrayOf(els)         == [is |-> "array", els |-> els]
MapWith(entries)     == [is |-> "map", of |-> entries]
ClassOf(x)           == [is |-> "class", name |-> x, super |-> 0, methods |-> <<>>]
InstanceOf(class)    == [is |-> "instance", class |-> class, fields |-> <<>>]
BoundTo(v, method)   == [is |-> "bound", receiver |-> v, method |-> method]
IteratorOver(source) == [is |-> "iterator", source |-> source, index |-> 1]
ModuleOf(path)       == [is |-> "module", path |-> path]
=============================================================================
