------------------------- MODULE ValueTableRefinement -------------------------
(***************************************************************************)
(* ValueTable implements Dictionary: what the array holds is the           *)
(* dictionary, and rehashing does not show.                                *)
(***************************************************************************)
EXTENDS ValueTable

Contents == EntriesOf(entries)

Dict == INSTANCE Dictionary WITH
            dict    <- Contents,
            reply   <- reply,
            Same    <- Equal,
            Nothing <- Nil

\* Maps and sets built on the table answer every call as a dictionary keyed by
\* valuesEqual would.
ImplementsDictionary == Dict!Spec

\* map.size and set.size, taken from liveCount between two calls, are the number of
\* entries of that dictionary, unless NaN keys make some of them indistinguishable.
SizeExact ==
    pc = "idle" /\ (\A e \in Contents : e.key \notin NaNs) =>
        liveCount = Cardinality(Contents)
=============================================================================
