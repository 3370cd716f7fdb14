--------------------------- MODULE MCValueScalars ---------------------------
(* Numbers, texts and strings for the model checking of ValueScalars.      *)
EXTENDS ValueScalars

(* Integers of 6 and 10 bits stand for those of 32 and 64: the least of    *)
(* the narrow ones has one character more than the greatest, and those of  *)
(* the wide ones have the same number.                                     *)

CONSTANTS MaxDigits,   \* bound: of a whole number
          MaxDouble    \* bound: the greatest double, in units

FewDigits == 48 .. 54
Wholes == {<<Zero>>} \cup {s \in UNION {[1 .. n -> FewDigits] : n \in 1 .. MaxDigits} : s[1] # Zero}
Signs     == {<<>>, <<Minus>>}
Fractions == {<<>>, <<Point, Zero>>, <<Point, 53>>}
Exponents == {<<>>, <<101, 49>>, <<69, Minus, 49>>}

Numerals == {s \o w \o f \o e : s \in Signs, w \in Wholes, f \in Fractions, e \in Exponents}

SomeDoubles == {d \in -MaxDouble .. MaxDouble : Nearest(d, 1, DoubleBits) = d}

Sizes == [type \in IntTypes \cup {"FLOAT", "DOUBLE", "ARRAY", "DICT"} |->
            CASE type \in {"INT32", "UINT32", "FLOAT"} -> 4
              [] type \in {"INT64", "UINT64", "DOUBLE"} -> 8
              [] OTHER -> 24]

UpTo20 == 0 .. 20

=============================================================================
