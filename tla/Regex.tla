-------------------------------- MODULE Regex --------------------------------
(***************************************************************************)
(* The regular expression engine (regex_engine.c), with the natives of     *)
(* RegexSearch that use it.                                                *)
(*                                                                         *)
(* A pattern is a sequence of tokens: a character class such as [^ab] or   *)
(* \d, or the opening (?<name> of a group, is one token.  Tokens that      *)
(* stand for characters are the keys of Class.                             *)
(***************************************************************************)
EXTENDS RegexSearch, FiniteSets, Functions

CONSTANTS
    Class,             \* the characters a token stands for: records [chars, negated]
    MAX_REGEX_GROUPS,  \* capture groups of a pattern (16)
    MAX_REPEAT,        \* places matchRepeatBT remembers (4096)
    MAX_DEPTH          \* nesting of matchNodeBT (100000)

pattern == search.pattern
flags == search.flags

Meant == INSTANCE Backtracking

-----------------------------------------------------------------------------
(* The parser.  A parser is where it stands, the names of the groups it    *)
(* has closed, and whether it has met an error.                            *)

Token(p) == IF p.pos > Len(pattern) THEN "" ELSE pattern[p.pos]
Advance(p) == [p EXCEPT !.pos = @ + 1]
Fail(p) == [p EXCEPT !.failed = TRUE]
Parsed(node, p) == [node |-> node, p |-> p]

Node(type, left, right) == [type |-> type, left |-> left, right |-> right]
Chars(token) ==
    [type |-> "chars", chars |-> Class[token].chars, negated |-> Class[token].negated]

Opening == {"(", "(?:", "(?<n>"}
Quantifier == [t \in {"*", "+", "?"} |->
                  IF t = "*" THEN "star" ELSE IF t = "+" THEN "plus" ELSE "question"]

RECURSIVE Alternation(_)

\* A group is numbered when its parenthesis is closed.
Group(p) ==
    LET inner == Alternation(Advance(p))
        q == IF Token(inner.p) = ")" THEN Advance(inner.p) ELSE Fail(inner.p)
        name == IF Token(p) = "(?<n>" THEN "n" ELSE None
    IN  IF Token(p) = "(?:" THEN Parsed(Node("plain group", inner.node, None), q)
        ELSE IF Len(q.names) >= MAX_REGEX_GROUPS
        THEN Parsed(Node("plain group", inner.node, None), Fail(q))
        ELSE Parsed([type |-> "group", left |-> inner.node, group |-> Len(q.names) + 1],
                    [q EXCEPT !.names = Append(@, name)])

Atom(p) ==
    LET t == Token(p) IN
    CASE t \in Opening -> Group(p)
      [] t \in DOMAIN Class -> Parsed(Chars(t), Advance(p))
      [] t = "." -> Parsed([type |-> "dot"], Advance(p))
      [] t = "^" -> Parsed([type |-> "start"], Advance(p))
      [] t = "$" -> Parsed([type |-> "end"], Advance(p))
      [] OTHER -> Parsed(None, p)

BugQuantified(p) ==                                 \* quantifies what is not there
    LET atom == Atom(p)
        t == Token(atom.p)
    IN  IF t \in DOMAIN Quantifier
        THEN Parsed(Node(Quantifier[t], atom.node, None), Advance(atom.p))
        ELSE atom

Quantified(p) ==
    LET atom == Atom(p)
        t == Token(atom.p)
    IN  IF atom.node # None /\ t \in DOMAIN Quantifier
        THEN Parsed(Node(Quantifier[t], atom.node, None), Advance(atom.p))
        ELSE atom

RECURSIVE MoreItems(_)
MoreItems(left) ==
    LET right == Quantified(left.p) IN
    IF left.node = None \/ Token(left.p) \in {"", ")", "|"} THEN left
    ELSE IF right.node = None THEN [left EXCEPT !.p = right.p]
    ELSE MoreItems(Parsed(Node("concat", left.node, right.node), right.p))

Concat(p) == MoreItems(Quantified(p))

RECURSIVE MoreBranches(_)
MoreBranches(left) ==
    IF Token(left.p) # "|" THEN left
    ELSE LET right == Concat(Advance(left.p)) IN
         MoreBranches(Parsed(Node("alt", left.node, right.node), right.p))

Alternation(p) == MoreBranches(Concat(p))

\* regexCompile: None if there was an error or something is left over.
RegexCompile ==
    LET parsed == Alternation([pos |-> 1, names |-> <<>>, failed |-> FALSE]) IN
    IF parsed.p.failed \/ parsed.p.pos <= Len(pattern) THEN None
    ELSE [ast |-> parsed.node, names |-> parsed.p.names]

-----------------------------------------------------------------------------
(* The matcher.  Where a match ends, -1 if there is none, with what the    *)
(* groups captured: a match that fails leaves what it captured behind.     *)

Match(end, caps) == [end |-> end, caps |-> caps]

ReadsChar(node, c) ==
    IF node.type = "dot" THEN c # "\n" \/ "s" \in flags
    ELSE LET other == IF c = "a" THEN "A" ELSE IF c = "A" THEN "a" ELSE c
             in == c \in node.chars \/ ("i" \in flags /\ other \in node.chars)
         IN IF node.negated THEN ~in ELSE in

AtBorder(node, place) ==
    IF node.type = "start"
    THEN place = 0 \/ ("m" \in flags /\ text[place] = "\n")
    ELSE place = Len(text) \/ ("m" \in flags /\ text[place + 1] = "\n")

RECURSIVE MatchNode(_, _, _, _)

\* The places the body of a quantifier ends at when it is repeated.
RECURSIVE Repeated(_, _, _, _)
Repeated(body, places, caps, depth) ==
    LET next == MatchNode(body, Last(places), caps, depth) IN
    IF Len(places) = MAX_REPEAT THEN [places |-> places, caps |-> caps]
    ELSE IF next.end < 0 \/ next.end = Last(places) THEN [places |-> places, caps |-> next.caps]
    ELSE Repeated(body, Append(places, next.end), next.caps, depth)

\* The rest is tried after the last of these places, then after the one before.
RECURSIVE RestAfter(_, _, _, _, _)
RestAfter(rest, places, min, caps, depth) ==
    LET r == MatchNode(rest, Last(places), caps, depth) IN
    IF Len(places) <= min THEN Match(-1, caps)
    ELSE IF r.end >= 0 THEN r
    ELSE RestAfter(rest, Front(places), min, r.caps, depth)

BugMatchRepeat(body, rest, place, min, caps, depth) ==     \* min is not looked at
    LET repeated == Repeated(body, <<place>>, caps, depth)
    IN RestAfter(rest, repeated.places, 0, repeated.caps, depth)

MatchRepeat(body, rest, place, min, caps, depth) ==
    LET repeated == Repeated(body, <<place>>, caps, depth)
    IN RestAfter(rest, repeated.places, min, repeated.caps, depth)

MatchConcat(node, place, caps, depth) ==
    LET first == MatchNode(node.left, place, caps, depth)
        body == MatchNode(node.left.left, place, caps, depth)
        with == IF body.end >= 0 THEN MatchNode(node.right, body.end, body.caps, depth) ELSE body
    IN  CASE node.left.type = "star" -> MatchRepeat(node.left.left, node.right, place, 0, caps, depth)
          [] node.left.type = "plus" -> MatchRepeat(node.left.left, node.right, place, 1, caps, depth)
          [] node.left.type = "question" ->
                IF with.end >= 0 THEN with ELSE MatchNode(node.right, place, with.caps, depth)
          [] OTHER ->
                IF first.end >= 0 THEN MatchNode(node.right, first.end, first.caps, depth) ELSE first

BugMatchGroup(node, place, caps, depth) ==          \* what the group held is not put back
    LET inner == MatchNode(node.left, place, caps, depth)
    IN Match(inner.end, [inner.caps EXCEPT ![node.group] = <<place, inner.end>>])

MatchGroup(node, place, caps, depth) ==
    LET inner == MatchNode(node.left, place, caps, depth) IN
    IF inner.end >= 0
    THEN Match(inner.end, [inner.caps EXCEPT ![node.group] = <<place, inner.end>>])
    ELSE Match(-1, [inner.caps EXCEPT ![node.group] = caps[node.group]])

\* matchNodeBT.
MatchNode(node, place, caps, allowed) ==
    LET depth == allowed - 1
        left == MatchNode(node.left, place, caps, depth)
        type == node.type
    IN  CASE node = None -> Match(place, caps)
          [] node # None /\ allowed <= 0 -> Match(-1, caps)
          [] OTHER ->
             CASE type \in {"chars", "dot"} ->
                    IF place < Len(text) /\ ReadsChar(node, text[place + 1])
                    THEN Match(place + 1, caps) ELSE Match(-1, caps)
               [] type \in {"start", "end"} ->
                    IF AtBorder(node, place) THEN Match(place, caps) ELSE Match(-1, caps)
               [] type = "concat" -> MatchConcat(node, place, caps, depth)
               [] type = "alt" ->
                    IF left.end >= 0 THEN left ELSE MatchNode(node.right, place, left.caps, depth)
               [] type = "star" -> MatchRepeat(node.left, None, place, 0, caps, depth)
               [] type = "plus" -> MatchRepeat(node.left, None, place, 1, caps, depth)
               [] type = "question" -> IF left.end >= 0 THEN left ELSE Match(place, left.caps)
               [] type = "group" -> MatchGroup(node, place, caps, depth)
               [] type = "plain group" -> left

NoCaps(c) == [g \in DOMAIN c.names |-> None]

\* regexExec: the first place from which the pattern matches.
RECURSIVE RegexExec(_, _)
RegexExec(c, start) ==
    LET r == MatchNode(c.ast, start, NoCaps(c), MAX_DEPTH) IN
    IF start > Len(text) THEN None
    ELSE IF r.end >= 0 THEN [start |-> start, end |-> r.end, caps |-> r.caps]
    ELSE RegexExec(c, start + 1)

-----------------------------------------------------------------------------
(* The natives with this engine.                                           *)

Execute ==
    /\ at = "search" /\ pos <= Len(text)
    /\ \E m \in {RegexExec(compiled, pos)} : Searched(m)

Next == (at = "compile" /\ Compile(RegexCompile)) \/ Execute \/ Leave \/ Finished

Spec == Init /\ [][Next]_vars /\ WF_vars(Next)

-----------------------------------------------------------------------------
(* Properties of the parser.                                               *)

Atoms == DOMAIN Class \cup {".", "^", "$"}
Among(tokens, p) == Cardinality({i \in DOMAIN p : p[i] \in tokens})

WellFormed(p) ==
    /\ \A i \in DOMAIN p : p[i] \in DOMAIN Quantifier => i > 1 /\ p[i - 1] \in Atoms \cup {")"}
    /\ \A i \in DOMAIN p : LET q == SubSeq(p, 1, i) IN Among({")"}, q) <= Among(Opening, q)
    /\ Among({")"}, p) = Among(Opening, p)
    /\ Among({"(", "(?<n>"}, p) <= MAX_REGEX_GROUPS

\* The tokens a tree was made from.
RECURSIVE Unparsed(_)
Unparsed(node) ==
    LET type == node.type
        left == Unparsed(node.left)
    IN  CASE node = None -> <<>>
          [] type = "chars" -> <<CHOOSE t \in DOMAIN Class : Chars(t) = node>>
          [] type \in {"dot", "start", "end"} ->
                <<IF type = "dot" THEN "." ELSE IF type = "start" THEN "^" ELSE "$">>
          [] type = "concat" -> left \o Unparsed(node.right)
          [] type = "alt" -> left \o <<"|">> \o Unparsed(node.right)
          [] type \in Range(Quantifier) ->
                Append(left, CHOOSE q \in DOMAIN Quantifier : Quantifier[q] = type)
          [] type = "plain group" -> <<"(?:">> \o left \o <<")">>
          [] type = "group" ->
                <<IF compiled.names[node.group] = None THEN "(" ELSE "(?<n>">> \o left \o <<")">>

\* A quantifier binds closer than what follows it, and that closer than |.
RECURSIVE Binds(_)
Binds(node) ==
    LET loose == {"alt", "concat"} \cup Range(Quantifier)
        type == node.type
    IN  \/ node = None \/ type \in {"chars", "dot", "start", "end"}
        \/ type \in Range(Quantifier) /\ node.left.type \notin loose /\ Binds(node.left)
        \/ type = "concat" /\ node.left.type # "alt" /\ node.right.type \notin {"alt", "concat"}
                           /\ Binds(node.left) /\ Binds(node.right)
        \/ type = "alt" /\ (node.right = None \/ node.right.type # "alt")
                        /\ Binds(node.left) /\ Binds(node.right)
        \/ type \in {"group", "plain group"} /\ Binds(node.left)

\* regexCompile accepts the well-formed patterns, and what it makes of one is the
\* only tree with the usual precedence that reads as the pattern does.
ParsesThePattern ==
    at # "compile" =>
        IF WellFormed(pattern)
        THEN compiled # None /\ Unparsed(compiled.ast) = pattern /\ Binds(compiled.ast)
        ELSE compiled = None

-----------------------------------------------------------------------------
(* Properties of the search.                                               *)

Expected(from) == Meant!FirstMatch(compiled.ast, text, flags, from, NoCaps(compiled))

\* Nothing in the node captures, and nothing can match in more than one way.
RECURSIVE Plain(_)
Plain(node) ==
    \/ node = None \/ node.type \in {"chars", "dot", "start", "end"}
    \/ node.type = "concat" /\ Plain(node.left) /\ Plain(node.right)
    \/ node.type = "plain group" /\ Plain(node.left)

\* ... nor without reading a character.
RECURSIVE Consumes(_)
Consumes(node) ==
    /\ node # None
    /\ \/ node.type \in {"chars", "dot"}
       \/ node.type = "concat" /\ (Consumes(node.left) \/ Consumes(node.right))
       \/ node.type \in {"group", "plain group"} /\ Consumes(node.left)

\* The choices of the pattern are tried in full: a quantifier repeats a body
\* without choices, and stands where a concatenation begins or where it ends.
RECURSIVE ChoicesTried(_)
ChoicesTried(node) ==
    LET type == node.type
        left == node.left
        quantified(n) == n.type \in Range(Quantifier) /\ Consumes(n.left)
    IN  \/ Plain(node)
        \/ type = "concat" /\ ChoicesTried(node.right)
                           /\ Plain(IF quantified(left) THEN left.left ELSE left)
        \/ type = "alt" /\ Plain(left) /\ ChoicesTried(node.right)
        \/ quantified(node) /\ Plain(IF left.type = "group" THEN left.left ELSE left)
        \/ type \in {"group", "plain group"} /\ ChoicesTried(left)

\* Whatever the pattern, what regexExec reports as a match is one.
MatchIsAWay ==
    found # None /\ found.match # None =>
        \E w \in Range(Meant!Ways(compiled.ast, text, flags, found.match.start, NoCaps(compiled))) :
            w.end = found.match.end

\* The match is the one backtracking prefers, captures included.
Backtracks == found # None => found.match = Expected(found.from)

\* ... for patterns whose choices matchRepeatBT and its callers try in full.
BacktracksWhereTried == compiled # None /\ ChoicesTried(compiled.ast) => Backtracks

\* The parts of the text around matches, and the text with them replaced.
Around(matches) ==
    LET ends == <<0>> \o [i \in DOMAIN matches |-> matches[i].end]
        starts == Append([i \in DOMAIN matches |-> matches[i].start], Len(text))
    IN [i \in DOMAIN ends |-> Slice(ends[i], starts[i])]
Replaced(matches) ==
    LET parts == Around(matches)
        one(i) == IF i \in DOMAIN matches THEN parts[i] \o Expanded(matches[i]) ELSE parts[i]
    IN FlattenSeq([i \in DOMAIN parts |-> one(i)])

\* A whole search deals with all matches of the text, each once.  A match without
\* characters is left to replaceAll: findAll and split do not tell it apart.
EveryMatchOnce ==
    at = "done" /\ compiled # None /\ ChoicesTried(compiled.ast) =>
        LET all == Meant!AllMatches(compiled.ast, text, flags, 0, NoCaps(compiled))
            reading == \A i \in DOMAIN all : all[i].end > all[i].start
        IN  /\ search.op = "replaceAll" => out = Replaced(all)
            /\ search.op = "findAll" /\ reading => out = all
            /\ search.op = "split" /\ reading => out = Around(all)

\* A group that has no part in the match captures nothing: what the groups hold
\* is what they captured on one of the ways to the match.
CapturesAreOfTheMatch ==
    found # None /\ found.match # None =>
        Meant!Way(found.match.end, found.match.caps)
            \in Range(Meant!Ways(compiled.ast, text, flags, found.match.start, NoCaps(compiled)))

\* Every search comes to its end.
SearchEnds == <>(at = "done")
=============================================================================
