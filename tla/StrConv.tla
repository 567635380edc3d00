------------------------------- MODULE StrConv -------------------------------
(***************************************************************************)
(* Conversions between C++ values and the text the backend sends and       *)
(* receives: strconv.hxx and strconv.cxx.                                  *)
(*                                                                         *)
(* A text is a sequence of characters.  An integral type is known by its   *)
(* limits; the code is one template over all of them, so one narrow signed *)
(* type "short" and one narrow unsigned type "ushort" of Bits bits stand   *)
(* for the eight it is instantiated with.  A conversion from text returns  *)
(* [throws, value]; when it throws, the caller's object is left alone.     *)
(*                                                                         *)
(* The arithmetic of a type narrower than int is done in int and then cut  *)
(* back to the type, which is what Wrap does.  For int and wider the same  *)
(* expression is signed overflow, which a build may turn into anything;    *)
(* nothing below relies on its outcome.                                    *)
(*                                                                         *)
(* A floating-point type is known by the bits of its mantissa.  "double"   *)
(* stands for the type that is printed in as many digits as tell all its   *)
(* numbers apart, "float" for the two, float and long double, that are     *)
(* printed in one digit less.                                              *)
(***************************************************************************)
EXTENDS Integers, Sequences, SequencesExt, FiniteSetsExt

CONSTANTS Bits,         \* the width of the integral types
          Mantissa,     \* the mantissa bits of each floating-point type
          MaxExp        \* the largest power of two a mantissa is scaled by

FloatTypes == {"float", "double"}

ASSUME BitsAssumption ==
  /\ Bits \in Nat \ {0, 1}
  /\ Mantissa \in [FloatTypes -> Nat \ {0}]
  /\ MaxExp \in Nat

DigitChars == <<"0", "1", "2", "3", "4", "5", "6", "7", "8", "9">>

isdigit(c) == \E i \in 1..10 : DigitChars[i] = c

digit_to_number(c) == (CHOOSE i \in 1..10 : DigitChars[i] = c) - 1

number_to_digit(n) == DigitChars[n + 1]

\* std::numeric_limits<T>
limits(t) ==
  IF t = "short" THEN [min |-> -(2^(Bits - 1)), max |-> 2^(Bits - 1) - 1]
                 ELSE [min |-> 0, max |-> 2^Bits - 1]

\* The cast T(n).
Wrap(t, n) ==
  LET m == n % 2^Bits IN IF m > limits(t).max THEN m - 2^Bits ELSE m

\* Division as in C++: towards zero.
Quotient(a, b) == IF a >= 0 THEN a \div b ELSE -((-a) \div b)

Throws == [throws |-> TRUE, value |-> 0]

Yields(v) == [throws |-> FALSE, value |-> v]

(***************************************************************************)
(* Integers.                                                               *)
(***************************************************************************)
safe_multiply_by_ten(t, n) ==
  IF \/ n > 0 /\ limits(t).max \div n < 10
     \/ n < 0 /\ Quotient(limits(t).min, 10) > n
  THEN Throws
  ELSE Yields(Wrap(t, n * 10))

\* The product is checked, the sum is not.
absorb_digit(t, acc, digit) ==
  IF acc.throws THEN acc
  ELSE LET p == safe_multiply_by_ten(t, acc.value)
       IN IF p.throws THEN p ELSE Yields(Wrap(t, p.value + digit))

AllDigits(s) == \A i \in DOMAIN s : isdigit(s[i])

Absorb(t, sign, s) ==
  FoldLeft(LAMBDA acc, c : absorb_digit(t, acc, sign * digit_to_number(c)),
           Yields(0), s)

\* A minus sign needs no digit behind it.
from_string_signed(Str) ==
  CASE Str = <<>> \/ (~isdigit(Str[1]) /\ Str[1] # "-") -> Throws
    [] Str # <<>> /\ Str[1] = "-" ->
         IF AllDigits(Tail(Str)) THEN Absorb("short", -1, Tail(Str)) ELSE Throws
    [] OTHER -> IF AllDigits(Str) THEN Absorb("short", 1, Str) ELSE Throws

from_string_unsigned(Str) ==
  IF Str = <<>> \/ ~AllDigits(Str) THEN Throws ELSE Absorb("ushort", 1, Str)

RECURSIVE DigitsOf(_)
DigitsOf(n) ==
  IF n = 0 THEN <<>> ELSE Append(DigitsOf(n \div 10), number_to_digit(n % 10))

to_string_unsigned(Obj) ==
  IF Obj = 0 THEN <<"0">> ELSE DigitsOf(Obj)

\* std::numeric_limits<T>::digits10: how many decimal digits of any number
\* survive in T.
digits10(t) == Max({n \in 0..Mantissa[t] : 10^n <= 2^(Mantissa[t] - 1)})

\* Mutant: one digit less is asked for.
precision_OneLess(t) == digits10(t) + 1

\* The significant digits the stream is told to print.
precision(t) == digits10(t) + 2

\* The multiple of u that is nearest to n; between two of them, the even one.
RoundTo(n, u) ==
  LET q == n \div u
      r == n % u
  IN u * (q + IF 2 * r > u \/ (2 * r = u /\ q % 2 = 1) THEN 1 ELSE 0)

\* How the stream prints the number n, not negative: rounded to the type's
\* precision, the zeros this leaves at the end written as an exponent.  Where
\* it puts the decimal point is layout.
Printed(t, n) ==
  LET digits == to_string_unsigned(n)
      excess == Len(digits) - precision(t)
      r      == RoundTo(n, 10^excess)
      zeros  == Max({z \in 0..Len(digits) : r % 10^z = 0})
  IN IF t \notin FloatTypes \/ excess <= 0 THEN digits
     ELSE to_string_unsigned(r \div 10^zeros) \o <<"e">> \o to_string_unsigned(zeros)

to_string_fallback(t, Obj) ==
  IF Obj < 0 THEN <<"-">> \o Printed(t, -Obj) ELSE Printed(t, Obj)

\* The smallest number has no negation in its own type.
to_string_signed(Obj) ==
  IF Obj >= 0 THEN to_string_unsigned(Obj)
  ELSE IF Obj # limits("short").min
       THEN <<"-">> \o to_string_unsigned(Wrap("short", -Obj))
       ELSE to_string_fallback("short", Obj)

(***************************************************************************)
(* Floating point: <<"num", n>> for a finite number, <<"nan", 0>>, and     *)
(* <<"inf", 1>> or <<"inf", -1>>.  The finite numbers are those without a  *)
(* fraction; below the point nothing differs but the exponents' signs.     *)
(***************************************************************************)
Finite(t) ==
  LET magnitudes == {m * 2^e : m \in 0..2^Mantissa[t] - 1, e \in 0..MaxExp}
  IN magnitudes \cup {-n : n \in magnitudes}

\* The number of type t nearest to n, not negative, unless it is out of range.
Nearest(t, n) ==
  LET wide == {e \in 0..MaxExp : n < 2^(Mantissa[t] + e)}
  IN IF wide = {} \/ RoundTo(n, 2^Min(wide)) \notin Finite(t) THEN Throws
     ELSE Yields(RoundTo(n, 2^Min(wide)))

valid_infinity_string(s) ==
  s \in {<<"i","n","f","i","n","i","t","y">>, <<"I","n","f","i","n","i","t","y">>,
         <<"I","N","F","I","N","I","T","Y">>, <<"i","n","f">>}

\* What a stream in the "C" locale extracts: the longest number the text
\* starts with, rounded to the type; whatever follows it stays in the stream.
Extract(t, s) ==
  LET neg    == s # <<>> /\ s[1] = "-"
      body   == IF neg THEN Tail(s) ELSE s
      num(b) == SubSeq(b, 1, Max({n \in 0..Len(b) : AllDigits(SubSeq(b, 1, n))}))
      abs(b) == FoldLeft(LAMBDA acc, c : acc * 10 + digit_to_number(c), 0, b)
      digits == num(body)
      rest   == SubSeq(body, Len(digits) + 1, Len(body))
      scaled == rest # <<>> /\ rest[1] = "e"
      number == Nearest(t, abs(digits) * IF scaled THEN 10^abs(num(Tail(rest))) ELSE 1)
  IN IF digits = <<>> \/ (scaled /\ num(Tail(rest)) = <<>>) \/ number.throws THEN Throws
     ELSE Yields(<<"num", IF neg THEN -number.value ELSE number.value>>)

from_string_float(t, Str) ==
  CASE Str # <<>> /\ Str[1] \in {"N", "n"} ->
         IF /\ Len(Str) = 3
            /\ Str[2] \in {"A", "a"}
            /\ Str[3] \in {"N", "n"}
         THEN Yields(<<"nan", 0>>) ELSE Throws
    [] Str # <<>> /\ Str[1] \in {"I", "i"} ->
         IF valid_infinity_string(Str) THEN Yields(<<"inf", 1>>) ELSE Throws
    [] Str # <<>> /\ Str[1] = "-" /\ valid_infinity_string(Tail(Str)) ->
         Yields(<<"inf", -1>>)
    [] OTHER -> Extract(t, Str)

to_string_float(t, Obj) ==
  CASE Obj[1] = "nan" -> <<"n", "a", "n">>
    [] Obj[1] = "inf" ->
         IF Obj[2] > 0 THEN <<"i","n","f","i","n","i","t","y">>
                       ELSE <<"-","i","n","f","i","n","i","t","y">>
    [] OTHER -> to_string_fallback(t, Obj[2])

(***************************************************************************)
(* Booleans.                                                               *)
(***************************************************************************)
from_string_bool(Str) ==
  CASE Str = <<>> -> Yields(FALSE)
    [] Str # <<>> /\ Str[1] \in {"f", "F"} ->
         IF Tail(Str) \in {<<>>, <<"a","l","s","e">>, <<"A","L","S","E">>}
         THEN Yields(FALSE) ELSE Throws
    [] Str # <<>> /\ Str[1] = "0" ->
         LET I == from_string_signed(Str)
         IN IF I.throws \/ I.value \notin {0, 1} THEN Throws ELSE Yields(I.value # 0)
    [] Str = <<"1">> -> Yields(TRUE)
    [] Str # <<>> /\ Str[1] \in {"t", "T"} ->
         IF Tail(Str) \in {<<>>, <<"r","u","e">>, <<"R","U","E">>}
         THEN Yields(TRUE) ELSE Throws
    [] OTHER -> Throws

to_string_bool(Obj) ==
  IF Obj THEN <<"t", "r", "u", "e">> ELSE <<"f", "a", "l", "s", "e">>

(***************************************************************************)
(* string_traits<T>: the same three questions for every type.  Only a      *)
(* C-style string has a null of its own; for the others null() throws.     *)
(***************************************************************************)
Types == FloatTypes \cup {"short", "ushort", "bool", "string", "cstring"}

has_null(t) == t = "cstring"

traits_from_string(t, Str) ==
  CASE t = "short"  -> from_string_signed(Str)
    [] t = "ushort" -> from_string_unsigned(Str)
    [] t \in FloatTypes -> from_string_float(t, Str)
    [] t = "bool"   -> from_string_bool(Str)

traits_to_string(t, Obj) ==
  CASE t = "short"  -> to_string_signed(Obj)
    [] t = "ushort" -> to_string_unsigned(Obj)
    [] t \in FloatTypes -> to_string_float(t, Obj)
    [] t = "bool"   -> to_string_bool(Obj)

\* What a client calls; texts are taken as they are.
from_string(t, Str) ==
  IF t \in {"string", "cstring"} THEN Yields(Str) ELSE traits_from_string(t, Str)

to_string(t, Obj) ==
  IF t \in {"string", "cstring"} THEN Obj ELSE traits_to_string(t, Obj)

(***************************************************************************)
(* Reference definitions: what a text denotes, position by position.       *)
(***************************************************************************)
Magnitude(s) ==
  MapThenSumSet(LAMBDA i : digit_to_number(s[i]) * 10^(Len(s) - i), DOMAIN s)

Denotes(s) ==
  IF s # <<>> /\ s[1] = "-" THEN -Magnitude(Tail(s)) ELSE Magnitude(s)

\* A decimal number with at least one digit, and a sign only if t has one.
IsNumeral(t, s) ==
  LET body == IF t = "short" /\ s # <<>> /\ s[1] = "-" THEN Tail(s) ELSE s
  IN body # <<>> /\ AllDigits(body)

InRange(t, n) == limits(t).min <= n /\ n <= limits(t).max

\* Some prefix of s is out of range by its last digit alone: the one case the
\* check before each multiplication does not see.
LastDigitOverflow(t, s) ==
  \E n \in 1..Len(s) :
    LET p == SubSeq(s, 1, n)
    IN /\ IsNumeral(t, p)
       /\ ~InRange(t, Denotes(p))
       /\ LET lim == IF Denotes(p) < 0 THEN limits(t).min ELSE limits(t).max
          IN Quotient(Denotes(p), 10) = Quotient(lim, 10)
==============================================================================
