--------------------------- MODULE MCTableIteration ---------------------------
(***************************************************************************)
(* A small instance of TableIteration: 1 and 1.0; a key that collides with *)
(* them in arrays of 4 and of 8; and one at the last index, so that probes *)
(* wrap around.                                                            *)
(***************************************************************************)
EXTENDS TableIteration

CONSTANTS one, oneDouble, collides, last

MCKeys == {one, oneDouble, collides, last}

MCClass == [k \in Keys |-> IF k = oneDouble THEN one ELSE k]

MCHash ==
    [k \in Keys |-> CASE k \in {one, oneDouble} -> 6
                      [] k = collides           -> 14
                      [] k = last               -> 7]
=============================================================================
