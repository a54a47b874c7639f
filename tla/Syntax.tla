------------------------------- MODULE Syntax -------------------------------
(***************************************************************************)
(* Trees of the source language: what the parse functions of compiler.c    *)
(* and compiler_stmt.c recognise, one constructor for each form they have  *)
(* a branch for.  A tree is the input of Compiler (which follows the code) *)
(* and of Meaning (which says what the source means).  Values are tagged   *)
(* records, so that any two of them can be compared.                       *)
(***************************************************************************)
EXTENDS Integers, Sequences

Nil      == [t |-> "nil"]
Bool(b)  == [t |-> "bool", b |-> b]
Int64(n) == [t |-> "int", n |-> n]
Text(s)  == [t |-> "string", s |-> s]
Ref(o)   == [t |-> "object", o |-> o]

Nothing == [k |-> "nothing"]

(* Expressions. *)
Lit(v)              == [k |-> "literal", v |-> v]
Num(n)              == Lit(Int64(n))
Chars(s)            == Lit(Text(s))
Get(x)              == [k |-> "get", x |-> x]
Assign(x, e)        == [k |-> "set", x |-> x, e |-> e]
Update(x, op, e)    == [k |-> "update", x |-> x, op |-> op, e |-> e]
Unary(op, e)        == [k |-> "unary", op |-> op, e |-> e]
Binary(op, l, r)    == [k |-> "binary", op |-> op, l |-> l, r |-> r]
And(l, r)           == [k |-> "and", l |-> l, r |-> r]
Or(l, r)            == [k |-> "or", l |-> l, r |-> r]
Ternary(c, y, n)    == [k |-> "ternary", c |-> c, y |-> y, n |-> n]
Interpolation(s, parts) == [k |-> "interpolation", s |-> s, parts |-> parts]
Pos(e)              == [how |-> "positional", e |-> e]
Spread(e)           == [how |-> "spread", e |-> e]
Named(x, e)         == [how |-> "named", x |-> x, e |-> e]
Call(f, args)       == [k |-> "call", f |-> f, args |-> args]
Prop(o, p)          == [k |-> "prop", o |-> o, p |-> p]
SetProp(o, p, e)    == [k |-> "setProp", o |-> o, p |-> p, e |-> e]
UpdateProp(o, p, op, e) == [k |-> "updateProp", o |-> o, p |-> p, op |-> op, e |-> e]
Invoke(o, p, args)  == [k |-> "invoke", o |-> o, p |-> p, args |-> args]
This                == [k |-> "this"]
Super(p)            == [k |-> "super", p |-> p, args |-> <<>>]
SuperInvoke(p, args) == [k |-> "superInvoke", p |-> p, args |-> args]
Array(els)          == [k |-> "array", els |-> els]
MapOf(entries)      == [k |-> "map", entries |-> entries]
Index(o, i)         == [k |-> "index", o |-> o, i |-> i]
SetIndex(o, i, e)   == [k |-> "setIndex", o |-> o, i |-> i, e |-> e]
UpdateIndex(o, i, op, e) == [k |-> "updateIndex", o |-> o, i |-> i, op |-> op, e |-> e]
Arrow(ps, body)     == [k |-> "arrow", ps |-> ps, body |-> body]
ArrowExpr(ps, e)    == [k |-> "arrowExpr", ps |-> ps, e |-> e]
MatchExpr(e, arms)  == [k |-> "matchExpr", e |-> e, arms |-> arms]

(* Parameters, patterns of destructuring and of match arms. *)
Param(x)            == [how |-> "plain", x |-> x]
Optional(x, e)      == [how |-> "optional", x |-> x, e |-> e]
Rest(x)             == [how |-> "rest", x |-> x]
ByIndex(xs)         == [how |-> "array", xs |-> xs]       \* "" skips one
ByKey(kxs)          == [how |-> "map", kxs |-> kxs]       \* <<key, name>>
Wild                == [how |-> "wild"]
Just(e)             == [how |-> "literal", e |-> e]
Typed(c, x)         == [how |-> "type", c |-> c, x |-> x]
Name(x)             == [how |-> "name", x |-> x]
Arm(pat, body)      == [pat |-> pat, guard |-> Nothing, body |-> body]
ArmIf(pat, g, body) == [pat |-> pat, guard |-> g, body |-> body]

(* Statements and declarations. *)
PrintOf(e)          == [k |-> "print", e |-> e]
Do(e)               == [k |-> "expression", e |-> e]
Var(x, e)           == [k |-> "var", x |-> x, e |-> e]
Const(x, e)         == [k |-> "const", x |-> x, e |-> e]
Unpack(pat, e, const) == [k |-> "unpack", pat |-> pat, e |-> e, const |-> const]
Block(ss)           == [k |-> "block", ss |-> ss]
If(c, y, n)         == [k |-> "if", c |-> c, y |-> y, n |-> n]
While(c, b)         == [k |-> "while", c |-> c, b |-> b]
For(i, c, n, b)     == [k |-> "for", i |-> i, c |-> c, n |-> n, b |-> b]
ForEach(pat, e, b)  == [k |-> "forEach", pat |-> pat, e |-> e, b |-> b]
Switch(e, cases, d) == [k |-> "switch", e |-> e, cases |-> cases, d |-> d]
Match(e, arms)      == [k |-> "match", e |-> e, arms |-> arms]
Return(e)           == [k |-> "return", e |-> e]
Break               == [k |-> "break"]
Continue            == [k |-> "continue"]
Throw(e)            == [k |-> "throw", e |-> e]
Try(b, catches, f)  == [k |-> "try", b |-> b, catches |-> catches, f |-> f]
Catch(x, b)         == [how |-> "any", x |-> x, b |-> b]
CatchOf(cs, x, b)   == [how |-> "typed", cs |-> cs, x |-> x, b |-> b]
CatchBare(b)        == [how |-> "bare", b |-> b]
Fun(x, ps, body)    == [k |-> "fun", x |-> x, ps |-> ps, body |-> body]
Class(x, up, ms)    == [k |-> "class", x |-> x, up |-> up, ms |-> ms]
Import(m, x)        == [k |-> "import", m |-> m, x |-> x]
ImportFrom(m, xs)   == [k |-> "importFrom", m |-> m, xs |-> xs]
=============================================================================
