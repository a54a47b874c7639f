------------------------------ MODULE MCRegex ------------------------------
(***************************************************************************)
(* All patterns of a few tokens, on all texts of a few characters: the     *)
(* operators of patterns on texts of two characters, the flags and borders *)
(* on texts of lines, and some longer patterns with groups.                *)
(***************************************************************************)
EXTENDS Regex

MCCharacters == {"a", "b", "A", "\n"}

MCClass ==
    [t \in {"a", "b", "[^a]"} |->
        [chars |-> IF t = "b" THEN {"b"} ELSE {"a"}, negated |-> t = "[^a]"]]

Strings(tokens, n) == UNION {[1 .. k -> tokens] : k \in 0 .. n}

Asked(ops, patterns, flagSets, texts, templates) ==
    [op : ops, pattern : patterns, flags : flagSets, text : texts, template : templates]
Loops == {"find", "findAll", "split"}
Replacements == {"replace", "replaceAll"}

Operators == Strings({"a", "b", "*", "+", "?", "|", "(", ")"}, 4)
Longer == {p \in Strings({"a", "b", "*", "+", "?", "|", "(", ")"}, 5) : WellFormed(p)}
Borders == Strings({"a", "[^a]", ".", "^", "$", "*"}, 2)

Groups == {
    <<"(?<n>", "a", ")", "?", "(", "b", ")">>,
    <<"(", "a", ")", "b", "|", "a", "(?<n>", "b", ")">>,
    <<"(?:", "a", "b", ")", "*", "a">>,
    <<"(", "(", "a", ")", "b", ")", "+">>,
    <<"(", "a", ")", "(", "b", ")", "(", "a", ")">>}
GroupTemplates == {<<"$1", "$2">>, <<"$<n>">>}

MCSearches ==
    Asked(Loops, Operators, {{}}, Strings({"a", "b"}, 2), {<<>>})
    \cup Asked(Replacements, Operators, {{}}, Strings({"a", "b"}, 2), {<<"$0">>})
    \cup Asked({"find"}, Longer, {{}}, Strings({"a", "b"}, 3), {<<>>})
    \cup Asked(Loops \cup Replacements, Borders, SUBSET {"i", "m", "s"},
               Strings({"a", "A", "\n"}, 2), {<<"$0">>})
    \cup Asked(Loops \cup Replacements, Groups, {{}}, Strings({"a", "b"}, 3), GroupTemplates)

\* An optional named group before what may be the same character.
MCUnmatched ==
    Asked({"find"}, {<<"(?<n>", "a", ")", "?", "(", "b", ")">>,
                     <<"(?<n>", "a", ")", "?", "(", "a", ")">>},
          {{}}, Strings({"a", "b"}, 4), {<<>>})

-----------------------------------------------------------------------------
VARIABLE turn            \* flipped by every step before the last

all == <<vars, turn>>

\* Fairness of Regex!Spec, said of turn: the action is one TLC need not execute
\* to see whether it is enabled.
Step == at # "done" /\ turn' = ~turn
MCInit == Init /\ turn = FALSE
MCNext == Next /\ turn' = IF at = "done" THEN turn ELSE ~turn
MCSpec == MCInit /\ [][MCNext]_all /\ WF_turn(Step)
=============================================================================
