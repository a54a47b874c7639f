------------------------------- MODULE Values -------------------------------
(***************************************************************************)
(* The values of programs: value.c, object.h and the arithmetic of run().  *)
(* A value is tagged (module Syntax); a Ref is the place of an object in   *)
(* an object store, a sequence that only grows.  Integers have IntBits     *)
(* bits, as int64_t has 64; doubles are left out.                          *)
(***************************************************************************)
EXTENDS Objects, TLC

Bits == INSTANCE Bitwise

CONSTANT IntBits

ASSUME IntBitsAssumption == IntBits \in Nat \ {0, 1}

IntMax == 2 ^ (IntBits - 1) - 1
Fits(n) == -IntMax - 1 <= n /\ n <= IntMax

IsInt(v) == v.t = "int"
IsText(v) == v.t = "string"
Falsey(v) == v = Nil \/ v = Bool(FALSE)

Is(store, v, type) == v.t = "object" /\ store[v.o].is = type
Put(f, k, v) == (k :> v) @@ f

TypeName(store, v) ==
    CASE v.t # "object" -> v.t
      [] Is(store, v, "closure") \/ Is(store, v, "bound") -> "function"
      [] OTHER -> store[v.o].is

\* A class and its superclasses.
RECURSIVE Ancestry(_, _)
Ancestry(store, c) == IF c = 0 THEN {} ELSE {c} \cup Ancestry(store, store[c].super)

Matches(store, v, c) == Is(store, v, "instance") /\ c.o \in Ancestry(store, store[v.o].class)

\* What print shows of a value that has no parts and answers no __toString__;
\* an array or a map stands for the whole of it.
Plain(store, v) ==
    CASE v.t = "nil" -> "nil"
      [] v.t = "missing" -> "<missing>"
      [] v.t = "bool" -> IF v.b THEN "true" ELSE "false"
      [] v.t = "int" -> ToString(v.n)
      [] v.t = "string" -> v.s
      [] Is(store, v, "class") -> store[v.o].name
      [] Is(store, v, "instance") -> "<" \o store[store[v.o].class].name \o ">"
      [] OTHER -> "<" \o TypeName(store, v) \o ">"

\* What a value is in a string: of most objects not more than that they are one.
InString(store, v) ==
    CASE Is(store, v, "module") -> store[v.o].path
      [] \/ v.t # "object" \/ Is(store, v, "class") \/ Is(store, v, "instance") -> Plain(store, v)
      [] OTHER -> "<object>"

(***************************************************************************)
(* Arithmetic.  Division truncates, as in C.                               *)
(***************************************************************************)
Abs(n) == IF n < 0 THEN -n ELSE n
Quotient(a, b) ==
    LET q == Abs(a) \div Abs(b) IN IF (a < 0) = (b < 0) THEN q ELSE -q

Exact(op, a, b) ==
    CASE op = "ADD" -> a + b
      [] op = "SUBTRACT" -> a - b
      [] op = "MULTIPLY" -> a * b
      [] op = "DIVIDE" -> Quotient(a, b)
      [] op = "MODULO" -> a - b * Quotient(a, b)

ArithmeticFails(op, a, b) ==
    \/ op \in {"DIVIDE", "MODULO"} /\ b = 0
    \/ ~(op \in {"DIVIDE", "MODULO"} /\ b = 0) /\ ~Fits(Exact(op, a, b))

\* (int)n: the lower half of the bits.
ToInt(n) ==
    LET half == IntBits \div 2
        low == n % 2 ^ half
    IN IF low < 2 ^ (half - 1) THEN low ELSE low - 2 ^ half

Unsigned(n) == n % 2 ^ IntBits
Signed(n) == IF n > IntMax THEN n - 2 ^ IntBits ELSE n

OnBits(op, a, b) ==
    CASE op = "BITWISE_AND" -> Signed(Bits!&(Unsigned(a), Unsigned(b)))
      [] op = "BITWISE_OR" -> Signed(Bits!|(Unsigned(a), Unsigned(b)))
      [] op = "BITWISE_XOR" -> Signed(Bits!^^(Unsigned(a), Unsigned(b)))
      [] op = "LEFT_SHIFT" -> Signed((Unsigned(a) * 2 ^ (b % IntBits)) % 2 ^ IntBits)
      [] op = "RIGHT_SHIFT" -> a \div 2 ^ (b % IntBits)
=============================================================================
