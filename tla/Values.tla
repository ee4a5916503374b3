------------------------------- MODULE Values -------------------------------
(***************************************************************************)
(* The values a program computes with (src/include/value.h).  A value has  *)
(* a kind k, a number or a place on the heap n, and a text s.  Numbers are *)
(* integers and the float NaN.                                             *)
(***************************************************************************)
EXTENDS Integers, Sequences, FiniteSetsExt

CONSTANT
  MaxOut  \* bound: a program is cut off after this many outputs

ASSUME MaxOutAssumption == MaxOut \in Nat

Value(k, n) == [k |-> k, n |-> n, s |-> ""]

Null   == Value("null", 0)
True   == Value("true", 0)
False  == Value("false", 0)
NaN    == Value("nan", 0)
Num(n) == Value("num", n)
Str(s) == [k |-> "str", n |-> 0, s |-> s]
Sym(s) == [k |-> "symbol", n |-> 0, s |-> s]

\* The object of class InternalError that throw_exception(message) throws.
InternalError == Value("error", 0)

\* Two natives, the world the program is observed from: in() returns the
\* next input, out(v) appends v to the output.
In  == Value("native", 1)
Out == Value("native", 2)

Natives == {In, Out}

\* How many arguments a native wants.
NativeArgc(f) == IF f = In THEN 0 ELSE 1

\* A global symbol the methods table knows.
Globals == [in |-> In, out |-> Out]

\* What can be seen of a value: of one on the heap only its kind.
Shown(v) ==
  IF v.k \in {"object", "array", "class", "function"} THEN Value(v.k, 0) ELSE v

Bool(b) == IF b THEN True ELSE False

IsNumber(v) == v.k \in {"num", "nan"}

\* charly_get_typestring
TypeString(v) ==
  CASE IsNumber(v) -> "number"
    [] v.k \in {"true", "false"} -> "boolean"
    [] v.k = "str" -> "string"
    [] v.k = "native" -> "cfunction"
    [] v.k = "error" -> "object"
    [] OTHER -> v.k

\* charly_truthyness
Truthy(v) == v \notin {NaN, Null, False, Num(0)}

-----------------------------------------------------------------------------
(* Numbers                                                                 *)

\* charly_number_to_int32, as the set of bits that are set.
Bits(v) ==
  LET n == IF v = NaN THEN 0 ELSE v.n
  IN  {i \in 0 .. 30 : (n \div 2 ^ i) % 2 = 1} \cup (IF n < 0 THEN {31} ELSE {})

\* The 32-bit integer whose bits are set, in two's complement.
FromBits(S) ==
  LET Sum(T) == MapThenSumSet(LAMBDA i : 2 ^ i, T)
  IN  Num(IF 31 \in S THEN -1 - Sum((0 .. 30) \ S) ELSE Sum(S))

\* The amount of a shift; it must be less than 32.
Shift(v) == IF v = NaN \/ v.n < 0 THEN 0 ELSE v.n

\* The C++ remainder has the sign of the dividend.
Remainder(a, b) ==
  LET Abs(n) == IF n < 0 THEN -n ELSE n
      m == Abs(a) % Abs(b)
  IN  IF a < 0 THEN -m ELSE m

\* charly_add_number ... charly_xor_number.  Quotients are exact and powers
\* have natural exponents: fractions are not modelled.  What is not a finite
\* number is NaN.
Arithmetic(o, l, r) ==
  CASE o = "&"  -> FromBits(Bits(l) \cap Bits(r))
    [] o = "|"  -> FromBits(Bits(l) \cup Bits(r))
    [] o = "^"  -> FromBits(SymDiff(Bits(l), Bits(r)))
    [] o = "<<" -> FromBits({i + Shift(r) : i \in Bits(l)} \cap (0 .. 31))
    [] o = ">>" -> Num((IF l = NaN THEN 0 ELSE l.n) \div 2 ^ Shift(r))
    [] o \in {"+", "-", "*", "/", "%", "**"} /\ NaN \in {l, r} -> NaN
    [] o \in {"/", "%"} /\ r = Num(0) -> NaN
    [] OTHER ->
         Num(CASE o = "+"  -> l.n + r.n
               [] o = "-"  -> l.n - r.n
               [] o = "*"  -> l.n * r.n
               [] o = "/"  -> CHOOSE q \in -100 .. 100 : q * r.n = l.n
               [] o = "%"  -> Remainder(l.n, r.n)
               [] o = "**" -> l.n ^ r.n)

\* VM::uadd, usub, unot, ubnot
UnaryOf(o, v) ==
  CASE o = "!" -> Bool(~Truthy(v))
    [] o = "+" -> v
    [] o \in {"-", "~"} /\ ~IsNumber(v) -> NaN
    [] o = "-" /\ IsNumber(v) -> IF v = NaN THEN NaN ELSE Num(-v.n)
    [] o = "~" /\ IsNumber(v) -> FromBits((0 .. 31) \ Bits(v))

-----------------------------------------------------------------------------
(* Comparisons                                                             *)

\* VM::lt, gt, le, ge compare numbers, and strings by their length.  Every
\* order with NaN is false, and so is that of values of different types.
Size(v) == IF v.k = "str" THEN Len(v.s) ELSE v.n

Ordered(l, r) == l.k = r.k /\ l.k \in {"num", "str"}

Order(o, l, r) ==
  /\ Ordered(l, r)
  /\ CASE o = "<"  -> Size(l) < Size(r)
       [] o = ">"  -> Size(l) > Size(r)
       [] o = "<=" -> Size(l) <= Size(r)
       [] o = ">=" -> Size(l) >= Size(r)

Comparisons == {"==", "!", "<", ">", "<=", ">="}
=============================================================================
