---------------------------- MODULE JsonNumbers ----------------------------
(***************************************************************************)
(* The number utilities of src/3rd_party/json.c and init_number() of       *)
(* json-dom.c.  The widths of the integers are parameters.  A double is an *)
(* exact number of units of 2^-Fraction, at most DoubleBits of whose bits  *)
(* are significant; its exponent has no limit.                             *)
(***************************************************************************)
EXTENDS JsonGrammar, SequencesExt

CONSTANTS
  Bits32, Bits64,           \* the widths of the integer types
  DoubleBits, FloatBits,    \* the significant bits of double and float
  Fraction,                 \* bits after the binary point
  SigDigits,                \* the significant digits that "%lg" writes
  MaxNegative,              \* the negative decimal exponents it writes without "e"
  DecimalPoint              \* of the current locale

ASSUME NumbersAssumption ==
  /\ {Bits32, Bits64, DoubleBits, FloatBits, Fraction, SigDigits} \subseteq Nat \ {0}
  /\ Bits32 < Bits64 /\ FloatBits <= DoubleBits
  /\ MaxNegative \in Nat /\ DecimalPoint \in {Point, Comma}

IntTypes == {"INT32", "UINT32", "INT64", "UINT64"}

Bits(type)     == IF type \in {"INT32", "UINT32"} THEN Bits32 ELSE Bits64
IsSigned(type) == type \in {"INT32", "INT64"}
MinOf(type)    == IF IsSigned(type) THEN -(2 ^ (Bits(type) - 1)) ELSE 0
MaxOf(type)    == IF IsSigned(type) THEN 2 ^ (Bits(type) - 1) - 1 ELSE 2 ^ Bits(type) - 1

(* A cast from one integer type to another keeps the low bits. *)
Cast(n, type) == ((n - MinOf(type)) % 2 ^ Bits(type)) + MinOf(type)

-----------------------------------------------------------------------------
(* Decimal texts *)

(* The decimal digits of a natural number; zero has one. *)
Digits(n) ==
  LET upTo[m \in 0 .. n] == IF m < 10 THEN <<Zero + m>>
                            ELSE Append(upTo[m \div 10], Zero + (m % 10))
  IN upTo[n]

Text(n) == IF n < 0 THEN <<Minus>> \o Digits(-n) ELSE Digits(n)

Less(s, t) ==      \* strncmp(s, t) < 0, of texts of the same length
  \E k \in DOMAIN s : s[k] < t[k] /\ \A j \in 1 .. k - 1 : s[j] = t[j]

Sign(less, equal) == IF less THEN -1 ELSE IF equal THEN 0 ELSE 1

intstrncmp_pos(s, t) ==
  IF Len(s) # Len(t) THEN Sign(Len(s) < Len(t), FALSE) ELSE Sign(Less(s, t), s = t)

(* Mutant of intstrncmp_neg: negative numbers are ordered like positive ones. *)
intstrncmp_neg_same(s, t) == intstrncmp_pos(Rest(s), Rest(t))

intstrncmp_neg(s, t) == -intstrncmp_pos(Rest(s), Rest(t))

intstrncmp(s, t) ==
  CASE s[1] # Minus /\ t[1] # Minus -> intstrncmp_pos(s, t)
    [] s[1] = Minus /\ t[1] = Minus -> intstrncmp_neg(s, t)
    [] s[1] # Minus /\ t[1] = Minus -> 1
    [] OTHER                        -> -1

intstr_is_between(s, type) ==
  intstrncmp(Text(MinOf(type)), s) <= 0 /\ intstrncmp(s, Text(MaxOf(type))) <= 0

(* The integer types that are compatible with a number. *)
json_analyze_number(num) ==
  LET plain == IF num = <<Minus, Zero>> THEN <<Zero>> ELSE num
  IN IF Len(num) <= Len(Text(MaxOf("UINT64"))) /\ \A k \in DOMAIN plain : plain[k] \notin {Point, 69, 101}
       THEN {type \in IntTypes : intstr_is_between(plain, type)} ELSE {}

json_number_to_uint64(num) ==
  LET digits == SelectInSeq(Append(num, Minus), LAMBDA c : c \notin DIGIT) - 1
      val[k \in 0 .. digits] ==
        IF k = 0 THEN 0 ELSE (10 * val[k - 1] + num[k] - Zero) % 2 ^ Bits64
  IN val[digits]

(* The number is taken from one less than it, to have the least one fit.   *)
json_number_to_int64(num) ==
  IF num[1] = Minus
    THEN Cast(-Cast(json_number_to_uint64(Rest(num)) - 1, "INT64") - 1, "INT64")
    ELSE Cast(json_number_to_uint64(num), "INT64")

json_number_to_int32(num)  == Cast(json_number_to_int64(num), "INT32")
json_number_to_uint32(num) == Cast(json_number_to_uint64(num), "UINT32")

-----------------------------------------------------------------------------
(* Doubles *)

Units(n) == n * 2 ^ Fraction

Abs(n) == IF n < 0 THEN -n ELSE n

(* num / den, rounded to an integer, a tie to an even one *)
HalfEven(num, den) ==
  LET q == num \div den
      r == num % den
  IN IF 2 * r > den \/ (2 * r = den /\ q % 2 = 1) THEN q + 1 ELSE q

(* The number with that many significant bits that is nearest to num / den *)
Nearest(num, den, bits) ==
  LET shift[e \in 0 .. 40] == IF Abs(num) < den * 2 ^ (bits + e) \/ e = 40 THEN e ELSE shift[e + 1]
      scale == 2 ^ shift[0]
      size  == HalfEven(Abs(num), den * scale) * scale
  IN IF num < 0 THEN -size ELSE size

(* What a text of JSON's grammar for numbers means: num / den *)
Parts(s, c) ==
  LET k == SelectInSeq(s, LAMBDA x : x \in c)
  IN IF k = 0 THEN <<s, <<>>>> ELSE <<SubSeq(s, 1, k - 1), SubSeq(s, k + 1, Len(s))>>
Natural(s) ==
  LET number[k \in 0 .. Len(s)] ==
        IF k = 0 THEN 0
        ELSE IF s[k] \in DIGIT THEN 10 * number[k - 1] + s[k] - Zero ELSE number[k - 1]
  IN number[Len(s)]
Integer(s) == IF s # <<>> /\ s[1] = Minus THEN -Natural(s) ELSE Natural(s)

PowerOfTen(n) ==
  LET power[k \in 0 .. n] == IF k = 0 THEN 1 ELSE 10 * power[k - 1] IN power[n]

Rational(s) ==
  LET mantissa == Parts(s, {69, 101})[1]
      exponent == Integer(Parts(s, {69, 101})[2]) - Len(Parts(mantissa, {Point})[2])
  IN IF exponent < 0 THEN [num |-> Integer(mantissa), den |-> PowerOfTen(-exponent)]
                     ELSE [num |-> Integer(mantissa) * PowerOfTen(exponent), den |-> 1]

(* strtod() reads as much as is a number with the point of the locale.     *)
strtod(buffer) ==
  LET stop == SelectInSeq(buffer, LAMBDA c : c \in {Point, Comma} \ {DecimalPoint})
      read == IF stop = 0 THEN buffer ELSE SubSeq(buffer, 1, stop - 1)
      q == Rational([k \in DOMAIN read |-> IF read[k] = DecimalPoint THEN Point ELSE read[k]])
  IN Nearest(Units(q.num), q.den, DoubleBits)

json_number_to_double(num) ==
  LET fp == SelectInSeq(num, LAMBDA c : c = Point)
  IN strtod(IF DecimalPoint # Point /\ fp > 0 THEN [num EXCEPT ![fp] = DecimalPoint] ELSE num)

(* init_number(): the first type that holds the number. *)
Number(type, num) == [type |-> type, num |-> num]

init_number(text) ==
  LET fits == json_analyze_number(text)
  IN CASE "INT32"  \in fits -> Number("INT32", json_number_to_int32(text))
       [] "INT32" \notin fits /\ "UINT32" \in fits -> Number("UINT32", json_number_to_uint32(text))
       [] fits \cap {"INT32", "UINT32"} = {} /\ "INT64" \in fits ->
            Number("INT64", json_number_to_int64(text))
       [] fits = {"UINT64"} -> Number("UINT64", json_number_to_uint64(text))
       [] OTHER -> Number("DOUBLE", json_number_to_double(text))

-----------------------------------------------------------------------------
(* Dumping *)

(* C divides towards zero; the digits of zero are none. *)
json_dump_int64(n) ==
  LET truncated(m) == IF m < 0 THEN -((-m) \div 10) ELSE m \div 10
      digits[m \in MinOf("INT64") .. MaxOf("INT64")] ==
        IF m = 0 THEN <<>> ELSE Append(digits[truncated(m)], Zero + m - 10 * truncated(m))
  IN IF n < 0 THEN <<Minus>> \o digits[n] ELSE digits[n]

json_dump_uint64(n) ==
  LET digits[m \in 0 .. MaxOf("UINT64")] ==
        IF m = 0 THEN <<>> ELSE Append(digits[m \div 10], Zero + (m % 10))
  IN digits[n]

(* snprintf() with "%lg": the nearest decimal number of SigDigits digits,  *)
(* without the zeros at its end.                                           *)
DecimalExponent(num, den) ==
  IF num >= den
    THEN CHOOSE x \in 0 .. 7 : den * 10 ^ x <= num /\ num < den * 10 ^ (x + 1)
    ELSE -(CHOOSE x \in 1 .. Fraction : num * 10 ^ x >= den /\ num * 10 ^ (x - 1) < den)

Stripped(s) ==
  LET kept == {k \in DOMAIN s : s[k] # Zero}
  IN SubSeq(s, 1, IF kept = {} THEN 0 ELSE CHOOSE k \in kept : \A j \in kept : j <= k)

WithFraction(whole, fraction) ==
  IF Stripped(fraction) = <<>> THEN whole ELSE whole \o <<DecimalPoint>> \o Stripped(fraction)

Zeros(n) == [k \in 1 .. n |-> Zero]

lg(d) ==
  LET x0 == DecimalExponent(Abs(d), 2 ^ Fraction)
      p  == SigDigits - 1 - x0
      m0 == IF p >= 0 THEN HalfEven(Abs(d) * 10 ^ p, 2 ^ Fraction)
                      ELSE HalfEven(Abs(d), 2 ^ Fraction * 10 ^ (-p))
      carried == m0 = 10 ^ SigDigits
      x == IF carried THEN x0 + 1 ELSE x0
      m == Digits(IF carried THEN m0 \div 10 ELSE m0)
      fixed == CASE x < 0  -> WithFraction(<<Zero>>, Zeros(-x - 1) \o m)
                 [] x >= 0 -> WithFraction(SubSeq(m, 1, x + 1), SubSeq(m, x + 2, Len(m)))
      scientific == WithFraction(SubSeq(m, 1, 1), Rest(m)) \o <<101, IF x < 0 THEN Minus ELSE 43>>
                      \o (IF Abs(x) < 10 THEN <<Zero>> ELSE <<>>) \o Digits(Abs(x))
  IN IF d = 0 THEN <<Zero>>
     ELSE (IF d < 0 THEN <<Minus>> ELSE <<>>)
            \o (IF x >= -MaxNegative /\ x < SigDigits THEN fixed ELSE scientific)

(* Mutant of json_dump_double: no ".0" is appended. *)
json_dump_double_unmarked(d) ==
  LET buffer == lg(d) IN [k \in DOMAIN buffer |-> IF buffer[k] = DecimalPoint THEN Point ELSE buffer[k]]

(* A double is written so that it is read as a double again.               *)
json_dump_double(d) ==
  LET buffer == lg(d)
      fp == SelectInSeq(buffer, LAMBDA c : c = DecimalPoint)
  IN IF fp > 0 THEN [buffer EXCEPT ![fp] = Point]
     ELSE IF 101 \in {buffer[k] : k \in DOMAIN buffer} THEN buffer
     ELSE buffer \o <<Point, Zero>>

(* The cases of json_dom_dump_helper() for numbers *)
DumpedNumber(v) ==
  CASE v.type \in {"INT32", "INT64"}   -> json_dump_int64(v.num)
    [] v.type \in {"UINT32", "UINT64"} -> json_dump_uint64(v.num)
    [] OTHER                           -> json_dump_double(v.num)

=============================================================================
