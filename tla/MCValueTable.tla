----------------------------- MODULE MCValueTable -----------------------------
(***************************************************************************)
(* A small instance of ValueTable.  1 and 1.0 live at the last index of    *)
(* every array, so that probes wrap around; NaN collides with them in an   *)
(* array of 4 and has a home of its own in one of 8; the home of the other *)
(* key is just before theirs.                                              *)
(***************************************************************************)
EXTENDS ValueTableRefinement

CONSTANTS one, oneDouble, nan, before, v

MCKeys == {one, oneDouble, nan, before}

MCValues == {Nil, v}

MCClass == [k \in Keys |-> IF k = oneDouble THEN one ELSE k]

MCHash == [k \in Keys |-> CASE k \in {one, oneDouble} -> 7
                            [] k = nan                -> 3
                            [] k = before             -> 6]
=============================================================================
