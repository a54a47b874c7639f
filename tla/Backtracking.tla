---------------------------- MODULE Backtracking ----------------------------
(***************************************************************************)
(* What a pattern means: the ways it can match at a place of a text, in    *)
(* the order a backtracking matcher prefers them.  A way says where the    *)
(* match ends and what each group captured on that way.                    *)
(***************************************************************************)
EXTENDS Integers, Sequences, SequencesExt, FiniteSetsExt

CONSTANT None            \* NULL: an empty pattern, a group that captured nothing

Lower(c) == IF c = "A" THEN "a" ELSE c

Way(end, caps) == [end |-> end, caps |-> caps]

\* Whether a node that reads one character reads this one.
Reads(node, c, flags) ==
    IF node.type = "dot" THEN c # "\n" \/ "s" \in flags
    ELSE node.negated # \E d \in node.chars : d = c \/ ("i" \in flags /\ Lower(d) = Lower(c))

\* ^ and $, at the borders of the text or of its lines.
Holds(node, text, flags, pos) ==
    LET border == IF node.type = "start" THEN 0 ELSE Len(text)
        beyond == IF node.type = "start" THEN pos ELSE pos + 1
    IN pos = border \/ ("m" \in flags /\ beyond \in DOMAIN text /\ text[beyond] = "\n")

\* The places of the text are 0, 1, ...: place i is before its character i + 1.
RECURSIVE Ways(_, _, _, _, _)
Ways(node, text, flags, pos, caps) ==
    LET here == <<Way(pos, caps)>>
        of(n, w) == Ways(n, text, flags, w.end, w.caps)
        then(ways, n) == FlattenSeq([i \in DOMAIN ways |-> of(n, ways[i])])
        first(n) == Ways(n, text, flags, pos, caps)
        type == node.type
    IN  CASE node = None -> here
          [] type \in {"dot", "chars"} ->
                IF pos < Len(text) /\ Reads(node, text[pos + 1], flags)
                THEN <<Way(pos + 1, caps)>> ELSE <<>>
          [] type \in {"start", "end"} -> IF Holds(node, text, flags, pos) THEN here ELSE <<>>
          [] type = "concat" -> then(first(node.left), node.right)
          [] type = "alt" -> first(node.left) \o first(node.right)
          [] type = "question" -> first(node.left) \o here
          [] type = "star" ->
                then(SelectSeq(first(node.left), LAMBDA w : w.end > pos), node) \o here
          [] type = "plus" -> then(first(node.left), [node EXCEPT !.type = "star"])
          [] type = "group" ->
                LET ways == first(node.left) IN
                [i \in DOMAIN ways |->
                    Way(ways[i].end, [ways[i].caps EXCEPT ![node.group] = <<pos, ways[i].end>>])]
          [] type = "plain group" -> first(node.left)

\* The match a search from a place on finds: the first place the pattern matches
\* at, and the way it prefers there.
FirstMatch(tree, text, flags, from, caps) ==
    LET ways(s) == Ways(tree, text, flags, s, caps)
        starts == {s \in from .. Len(text) : ways(s) # <<>>}
        way == ways(Min(starts))[1]
    IN IF starts = {} THEN None ELSE [start |-> Min(starts), end |-> way.end, caps |-> way.caps]

\* All matches: each is looked for after the one before, and a match without
\* characters is found once.
RECURSIVE AllMatches(_, _, _, _, _)
AllMatches(tree, text, flags, from, caps) ==
    LET m == FirstMatch(tree, text, flags, from, caps)
        next == IF m.end > m.start THEN m.end ELSE m.end + 1
    IN IF m = None THEN <<>> ELSE <<m>> \o AllMatches(tree, text, flags, next, caps)
=============================================================================
