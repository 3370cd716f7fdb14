---------------------------- MODULE JsonGrammar ----------------------------
(***************************************************************************)
(* What a text means, whatever the way it is read: the grammar of JSON     *)
(* (RFC 8259) with UTF-8 strings, and the events that json.h promises for  *)
(* a document.  The definitions describe; they do not scan.                *)
(***************************************************************************)
EXTENDS JsonBytes, FiniteSets

Slice(s, a, b) == SubSeq(s, a, b)
Rest(s) == SubSeq(s, 2, Len(s))

(* Numbers: -? int frac? exp? *)
IsDigits(s) == s # <<>> /\ \A k \in DOMAIN s : s[k] \in DIGIT
IsWhole(s)  == IsDigits(s) /\ (s[1] = Zero => Len(s) = 1)
IsFraction(s) == s = <<>> \/ (s[1] = Point /\ IsDigits(Rest(s)))
IsExponent(s) ==
  s = <<>> \/ (s[1] \in {69, 101} /\ \E sign \in {<<>>, <<43>>, <<45>>} :
                 /\ Len(sign) < Len(s) /\ Slice(s, 2, 1 + Len(sign)) = sign
                 /\ IsDigits(Slice(s, 2 + Len(sign), Len(s))))

IsNumber(s) ==
  \E sign \in {<<>>, <<Minus>>} : \E m, n \in Len(sign) .. Len(s) :
    /\ m <= n /\ Slice(s, 1, Len(sign)) = sign
    /\ IsWhole(Slice(s, Len(sign) + 1, m))
    /\ IsFraction(Slice(s, m + 1, n)) /\ IsExponent(Slice(s, n + 1, Len(s)))

(* The bits of a multi-byte sequence, if its bytes have the right form.    *)
Codepoint(s) ==
  LET low(k) == s[k] % 64
  IN CASE Len(s) = 2 -> (s[1] % 32) * 64 + low(2)
       [] Len(s) = 3 -> (s[1] % 16) * 4096 + low(2) * 64 + low(3)
       [] OTHER      -> (s[1] % 8) * 262144 + low(2) * 4096 + low(3) * 64 + low(4)

(* The shortest sequence of a scalar value, in UTF-8. *)
IsMultiByte(s) ==
  /\ Len(s) \in 2 .. 4
  /\ Codepoint(s) \notin HI_SURROGATE \cup LO_SURROGATE
  /\ Codepoint(s) <= 1114111 /\ Utf8(Codepoint(s)) = s

IsPlain(s) == Len(s) = 1 /\ s[1] \in ASCII \ (CONTROL \cup {QuoteMark, BackSlash})

IsLongEscape(s) ==
  /\ Len(s) = 6 /\ s[1] = BackSlash /\ s[2] = SmallU
  /\ \A k \in 3 .. 6 : s[k] \in XDIGIT

Value16(s) ==
  LET x(k) == json_resolve_xdigit(s[k])
  IN x(3) * 4096 + x(4) * 256 + x(5) * 16 + x(6)

(* The bytes one unit of a string stands for; none if it is no unit. *)
Unit(s) ==
  IF IsPlain(s) \/ IsMultiByte(s) THEN {s}
  ELSE IF Len(s) = 2 /\ s[1] = BackSlash /\ s[2] \in DOMAIN Escapes THEN {<<Escapes[s[2]]>>}
  ELSE IF IsLongEscape(s)
    THEN {Utf8(c) : c \in {Value16(s)} \ (HI_SURROGATE \cup LO_SURROGATE)}
  ELSE IF Len(s) = 12 /\ IsLongEscape(Slice(s, 1, 6)) /\ IsLongEscape(Slice(s, 7, 12))
    THEN LET hi == Value16(Slice(s, 1, 6))
             lo == Value16(Slice(s, 7, 12))
         IN IF hi \in HI_SURROGATE /\ lo \in LO_SURROGATE
              THEN {Utf8(65536 + (hi % 1024) * 1024 + (lo % 1024))} ELSE {}
  ELSE {}

(* The contents of the string with the bytes s between its quotes. *)
Decoded(s) ==
  LET from[k \in 1 .. Len(s) + 1] ==
        IF k > Len(s) THEN {<<>>}
        ELSE UNION {UNION {{u \o r : r \in from[k + n]} : u \in Unit(Slice(s, k, k + n - 1))} :
                      n \in {n \in {1, 2, 3, 4, 6, 12} : k + n - 1 <= Len(s)}}
  IN from[1]

Event(type, data) == [type |-> type, data |-> data]

(* The sequence of events a document gives, none if it is no document. *)
Document(text) ==
  LET N == Len(text)
      At(c, a, b) == {k \in a .. b : text[k] = c}
      Blank(a, b) == \A k \in a .. b : text[k] \in WHITESPACE
      Scalar(s) ==
        {<<Event(type, <<>>)>> : type \in {t \in DOMAIN Literals : Literals[t] = s}}
        \cup (IF IsNumber(s) THEN {<<Event("NUMBER", s)>>} ELSE {})
        \cup (IF Len(s) >= 2 /\ s[1] = QuoteMark /\ s[Len(s)] = QuoteMark
                THEN {<<Event("STRING", d)>> : d \in Decoded(Slice(s, 2, Len(s) - 1))} ELSE {})
      den[what \in {"value", "values", "members"}, a \in 1 .. N + 1, b \in 0 .. N] ==
        LET within(kind) == IF Blank(a + 1, b - 1) THEN {<<>>} ELSE den[kind, a + 1, b - 1]
            item(x, y) ==
              IF what = "values" THEN den["value", x, y]
              ELSE UNION {UNION {{<<Event("KEY", key[1].data)>> \o v : v \in den["value", c + 1, y]} :
                                   key \in {e \in den["value", x, c - 1] : e[1].type = "STRING"}} :
                            c \in At(Colon, x, y)}
        IN CASE what # "value" ->
                  item(a, b) \cup UNION {UNION {{x \o y : y \in den[what, c + 1, b]} : x \in item(a, c - 1)} :
                                           c \in At(Comma, a, b)}
             [] what = "value" /\ a > b -> {}
             [] what = "value" /\ a <= b /\ text[a] \in WHITESPACE -> den[what, a + 1, b]
             [] what = "value" /\ a <= b /\ text[a] \notin WHITESPACE /\ text[b] \in WHITESPACE ->
                  den[what, a, b - 1]
             [] OTHER ->
                  CASE text[a] = OpenArray /\ text[b] = CloseArray ->
                         {<<Event("ARRAY_BEG", <<>>)>> \o e \o <<Event("ARRAY_END", <<>>)>> :
                            e \in within("values")}
                    [] text[a] = OpenObject /\ text[b] = CloseObject ->
                         {<<Event("OBJECT_BEG", <<>>)>> \o e \o <<Event("OBJECT_END", <<>>)>> :
                            e \in within("members")}
                    [] OTHER -> Scalar(Slice(text, a, b))
  IN den["value", 1, N]

(* Ill-formed UTF-8 replaced by U+fffd as Unicode recommends: one for each *)
(* maximal subpart, that is the longest start of some well-formed sequence, *)
(* and three for a surrogate, whose three bytes start none.                *)
IsStart(s) == \E n \in 1 .. 3 : \E t \in [1 .. n -> {128, 144, 160, 176}] : IsMultiByte(s \o t)

Repaired(s) ==
  LET Longest(S) == CHOOSE n \in S : \A m \in S : m <= n
      from[k \in 1 .. Len(s) + 1] ==
        IF k > Len(s) THEN <<>>
        ELSE LET part(n) == Slice(s, k, k + n - 1)
                 Parts(N) == {n \in N : k + n - 1 <= Len(s)}
                 good == {n \in Parts({1, 2, 3, 4, 6, 12}) : Unit(part(n)) # {}}
                 bad  == {n \in Parts({1, 2, 3, 6}) : n = 1 \/ IsStart(part(n)) \/ IsLongEscape(part(n))}
             IN IF good # {}
                  THEN (CHOOSE u \in Unit(part(Longest(good))) : TRUE) \o from[k + Longest(good)]
                  ELSE fffd \o (IF Longest(bad) = 6 THEN fffd \o fffd ELSE <<>>)
                       \o from[k + Longest(bad)]
  IN from[1]

=============================================================================
