------------------------------ MODULE Dictionary ------------------------------
(***************************************************************************)
(* What a map or a set promises: a finite set of entries, at most one for  *)
(* every class of equal keys, and calls that answer from it at once.       *)
(***************************************************************************)
CONSTANTS
    Keys,          \* values used as keys
    Values,        \* values stored under them
    Same(_, _),    \* two keys that name the same entry
    Nothing        \* the value of an answer without one

VARIABLES
    dict,   \* the entries
    reply   \* the answer of the last call

vars == <<dict, reply>>

Answer(found, value) == [found |-> found, value |-> value]

Matching(k) == {e \in dict : Same(e.key, k)}

Init == dict = {} /\ reply = Answer(FALSE, Nothing)

Get(k) ==
    /\ reply' = IF Matching(k) = {}
                THEN Answer(FALSE, Nothing)
                ELSE Answer(TRUE, (CHOOSE e \in Matching(k) : TRUE).value)
    /\ UNCHANGED dict

\* The new key replaces the one that was there, the value too.
Put(k, v) ==
    /\ dict' = (dict \ Matching(k)) \cup {[key |-> k, value |-> v]}
    /\ reply' = Answer(Matching(k) # {}, Nothing)

Remove(k) ==
    /\ dict' = dict \ Matching(k)
    /\ reply' = Answer(Matching(k) # {}, Nothing)

Clear ==
    /\ dict' = {}
    /\ reply' = Answer(FALSE, Nothing)

Next ==
    \/ \E k \in Keys : Get(k) \/ Remove(k) \/ \E v \in Values : Put(k, v)
    \/ Clear

Spec == Init /\ [][Next]_vars
=============================================================================
