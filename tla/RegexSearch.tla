------------------------------ MODULE RegexSearch ------------------------------
(***************************************************************************)
(* The natives that search a text with a regular expression (builtins.c),  *)
(* one step per call of regexExec.  What regexCompile and regexExec return *)
(* is a parameter here; Regex passes what regex_engine.c computes.         *)
(***************************************************************************)
EXTENDS Integers, Sequences, SequencesExt, FiniteSetsExt

CONSTANTS
    None,              \* NULL: a pattern that is empty or failed, no match, no capture
    Characters,        \* what a text is made of
    Searches           \* what is asked: records [op, pattern, flags, text, template]

ASSUME SearchesAssumption == \A s \in Searches : s.text \in Seq(Characters)

VARIABLES
    search,      \* the search, one of Searches
    compiled,    \* the compiled pattern, None before regexCompile and if it fails
    at,          \* what comes next: "compile", "search", "end" of the loop, "done"
    pos,         \* where the next search starts
    copied,      \* copiedUpTo: the part of the text replaceAll has written
    found,       \* result of the last regexExec, and where it started
    out          \* the matches, parts or characters found so far

vars == <<search, compiled, at, pos, copied, found, out>>

text == search.text

Slice(from, to) == SubSeq(text, from + 1, to)
Captured(m, g) ==
    IF g \in DOMAIN m.caps /\ m.caps[g] # None THEN Slice(m.caps[g][1], m.caps[g][2]) ELSE <<>>

\* The first group with the name; 0 if there is none.
Named(name) ==
    LET groups == {g \in DOMAIN compiled.names : compiled.names[g] = name}
    IN IF groups = {} THEN 0 ELSE Min(groups)

\* What expandReplacement writes for a token of the template; $$ is a dollar sign.
Expansion(m, t) ==
    CASE t = "$0" -> Slice(m.start, m.end)
      [] t = "$1" -> Captured(m, 1)
      [] t = "$2" -> Captured(m, 2)
      [] t = "$<n>" -> Captured(m, Named("n"))
      [] t = "$$" -> <<"$">>
      [] OTHER -> <<t>>
Expanded(m) ==
    FlattenSeq([i \in DOMAIN search.template |-> Expansion(m, search.template[i])])

\* regexCompileNative; c is what regexCompile makes of the pattern.
Compile(c) ==
    /\ at = "compile"
    /\ compiled' = c
    /\ at' = IF c = None THEN "done" ELSE "search"
    /\ UNCHANGED <<search, pos, copied, found, out>>

\* One call of regexExec, whose result is m, and what the operation does with it.
Searching(op, m) ==
    /\ at = "search" /\ search.op = op /\ pos <= Len(text)
    /\ found' = [from |-> pos, match |-> m]
    /\ UNCHANGED <<search, compiled>>

EndLoop == at' = "end" /\ UNCHANGED pos

\* regexTestNative, regexMatchNative: one match or none.
Find(m) ==
    /\ Searching("find", m)
    /\ out' = IF m = None THEN <<>> ELSE <<m>>
    /\ at' = "done" /\ UNCHANGED <<pos, copied>>

\* regexReplaceNative.
Replace(m) ==
    /\ Searching("replace", m)
    /\ out' = IF m = None THEN text ELSE Slice(0, m.start) \o Expanded(m) \o Slice(m.end, Len(text))
    /\ at' = "done" /\ UNCHANGED <<pos, copied>>

BugFindAll(m) ==        \* stays where an empty match is
    /\ Searching("findAll", m)
    /\ IF m = None THEN EndLoop /\ UNCHANGED out
       ELSE out' = Append(out, m) /\ pos' = m.end /\ UNCHANGED at
    /\ UNCHANGED copied

BugFindAllGoesOn(m) ==  \* and does not leave the loop when there is no match
    /\ Searching("findAll", m)
    /\ IF m = None THEN UNCHANGED <<at, pos, out>>
       ELSE /\ out' = Append(out, m)
            /\ pos' = IF m.end > pos THEN m.end ELSE pos + 1
            /\ UNCHANGED at
    /\ UNCHANGED copied

\* regexMatchAllNative.
FindAll(m) ==
    /\ Searching("findAll", m)
    /\ IF m = None THEN EndLoop /\ UNCHANGED out
       ELSE /\ out' = Append(out, m)
            /\ pos' = IF m.end > pos THEN m.end ELSE pos + 1
            /\ UNCHANGED at
    /\ UNCHANGED copied

BugReplaceEach(m) ==      \* steps over a character it does not copy
    /\ Searching("replaceAll", m)
    /\ IF m = None THEN EndLoop /\ UNCHANGED <<out, copied>>
       ELSE /\ out' = out \o Slice(copied, m.start) \o Expanded(m)
            /\ copied' = IF m.end > m.start THEN m.end ELSE m.end + 1
            /\ pos' = IF m.end > m.start THEN m.end ELSE m.end + 1
            /\ UNCHANGED at

\* regexReplaceAllNative: a match without characters copies the one it steps over.
ReplaceEach(m) ==
    /\ Searching("replaceAll", m)
    /\ IF m = None THEN EndLoop /\ UNCHANGED <<out, copied>>
       ELSE LET stepped == m.end = m.start /\ m.end < Len(text) IN
            /\ out' = out \o Slice(copied, m.start) \o Expanded(m)
                          \o (IF stepped THEN Slice(m.end, m.end + 1) ELSE <<>>)
            /\ copied' = IF stepped THEN m.end + 1 ELSE m.end
            /\ pos' = IF m.end > m.start THEN m.end ELSE m.end + 1
            /\ UNCHANGED at

BugSplit(m) ==          \* always one place further
    /\ Searching("split", m)
    /\ IF m = None THEN EndLoop /\ out' = Append(out, Slice(pos, Len(text)))
       ELSE out' = Append(out, Slice(pos, m.start)) /\ pos' = m.end + 1 /\ UNCHANGED at
    /\ UNCHANGED copied

\* regexSplitNative: out is the parts between the matches.
Split(m) ==
    /\ Searching("split", m)
    /\ IF m = None THEN EndLoop /\ out' = Append(out, Slice(pos, Len(text)))
       ELSE /\ out' = Append(out, Slice(pos, m.start))
            /\ pos' = IF m.end > pos THEN m.end ELSE pos + 1
            /\ UNCHANGED at
    /\ UNCHANGED copied

\* What follows the loop; replaceAll copies the tail.
Leave ==
    /\ at = "end" \/ (at = "search" /\ pos > Len(text))
    /\ at' = "done"
    /\ out' = IF search.op = "replaceAll" THEN out \o Slice(copied, Len(text)) ELSE out
    /\ UNCHANGED <<search, compiled, pos, copied, found>>

Init ==
    /\ search \in Searches
    /\ compiled = None /\ at = "compile" /\ pos = 0 /\ copied = 0 /\ found = None /\ out = <<>>

Finished == at = "done" /\ UNCHANGED vars

Searched(m) == Find(m) \/ Replace(m) \/ FindAll(m) \/ ReplaceEach(m) \/ Split(m)

-----------------------------------------------------------------------------
(* What the natives rely on: a match is a part of the text, it does not    *)
(* start before the place it was looked for, and what its groups captured  *)
(* are parts of the text too.                                              *)

IsPart(from, to) == from \in 0 .. Len(text) /\ to \in from .. Len(text)

InText(m, from) ==
    m # None =>
        /\ from <= m.start /\ IsPart(m.start, m.end)
        /\ \A g \in DOMAIN m.caps : m.caps[g] # None => IsPart(m.caps[g][1], m.caps[g][2])

\* The natives with a matcher of which nothing else is known.
SearchNext ==
    \/ Compile(compiled')
    \/ Searched(found'.match) /\ InText(found'.match, pos)
    \/ Leave \/ Finished

SearchSpec == Init /\ [][SearchNext]_vars

\* What regexExec reports is a part of the text it was asked to search: the
\* natives run as they do with any matcher that keeps to the text.
StaysInText == SearchSpec

-----------------------------------------------------------------------------
(* Properties of the loops.                                                *)

\* Replacing every match by itself, or the first one, gives the text back: no
\* character is dropped or doubled around matches, with or without characters.
ReplacingByItself ==
    /\ at = "done" /\ compiled # None
    /\ search.op \in {"replace", "replaceAll"} /\ search.template = <<"$0">>
    => out = text

\* The matches findAll returns are in the order of the text, none overlaps the one
\* before, and there are no more of them than places in the text.
MatchesInOrder ==
    search.op = "findAll" =>
        /\ Len(out) <= Len(text) + 1
        /\ \A i \in DOMAIN out : IsPart(out[i].start, out[i].end)
        /\ \A i, j \in DOMAIN out : i < j => out[i].end <= out[j].start

\* Each search of a loop starts further on, so that a match without characters
\* does not keep it where it is.
MovesOn == [][at = "search" /\ at' = "search" => pos' > pos]_vars
=============================================================================
