---------------------------- MODULE MCJsonParser ----------------------------
(* Texts and configurations for the model checking of JsonParser. *)
EXTENDS JsonParser, TLC

CONSTANTS MaxLen   \* bound: the length of a text of any bytes

(* The printable bytes in the order of their codes, and texts of them. *)
Printable == " !\"#$%&'()*+,-./0123456789:;<=>?@ABCDEFGHIJKLMNOPQRSTUVWXYZ[\\]^_^abcdefghijklmnopqrstuvwxyz{|}~"
Bytes(s) ==
  [k \in 1 .. Len(s) |-> 31 + CHOOSE n \in 1 .. Len(Printable) :
                                SubSeq(Printable, n, n) = SubSeq(s, k, k)]

Beginnings(texts) == UNION {{SubSeq(d, 1, n) : n \in 1 .. Len(d)} : d \in texts}

NoLimits == [max_total_len |-> 0, max_total_values |-> 0, max_number_len |-> 0,
             max_string_len |-> 99, max_key_len |-> 99, max_nesting_level |-> 0, flags |-> {}]

-----------------------------------------------------------------------------
(* Any text of [ ] { } , : " 0 1 - and line ends, or, under the small      *)
(* limits, of one byte more without \ - 0 and line ends, which         *)
(* json_feed() counts in the wrong place when the text is too long.        *)

TextAlphabet == {OpenArray, CloseArray, OpenObject, CloseObject, Comma, Colon, QuoteMark,
                 Zero, 49, Minus, Return, NewLine}

SmallLimits == [max_total_len |-> 6, max_total_values |-> 3, max_number_len |-> 2,
                max_string_len |-> 2, max_key_len |-> 1, max_nesting_level |-> 2,
                flags |-> {"NONUMBERASROOT"}]
LimitAlphabet == {OpenArray, CloseArray, OpenObject, CloseObject, Comma, Colon, QuoteMark, 49}

TextGiven(t, c) ==
  IF c = NoLimits THEN Len(t) <= MaxLen
                  ELSE Len(t) <= MaxLen + 1 /\ \A k \in DOMAIN t : t[k] \in LimitAlphabet

-----------------------------------------------------------------------------
(* Documents, and texts that come close *)

LineEnd == <<Return, NewLine>>

DocumentTexts ==
  {Bytes(s) : s \in {"{\"k\":[1,\"v\"],\"l\":{}} ", "[[],{},[null]]", "[true,false ,nul]",
                     "[-0.5e+10,2E3] ", "{\"a\":{\"b\":{\"c\":[[[]]]}}}", "[\"a\":1]", "{\"k\" : }",
                     "[1,]", "{\"k\":1,}", "[[1}]", "-12.5E-07 ", "[truex]", "[01]", "\"ab\" \"c\"",
                     "{\"k\",1}", "[1.e1]", "nulll ", "1.5e-0 ", "[1.2.3]", "-.5", "[1e2e3]",
                     "[1e+]", "2e", "0.0E1"}}
  \cup {LineEnd \o Bytes("[") \o LineEnd \o LineEnd \o Bytes("1,") \o <<Return, Return>> \o Bytes("?")}

-----------------------------------------------------------------------------
(* Strings of two units, well-formed or not *)

Units ==
  {Bytes(s) : s \in {"A", "\\n", "\\/", "\\x", "\\u0041", "\\u00e9", "\\u20AC", "\\ud83d\\ude00",
                     "\\ud83d", "\\ude00", "\\u12g4"}}
  \cup {<<194, 128>>, <<223, 191>>, <<224, 160, 128>>, <<225, 128, 128>>, <<237, 159, 191>>,
        <<238, 128, 128>>, <<240, 144, 128, 128>>, <<241, 128, 128, 128>>, <<244, 143, 191, 191>>,
        <<193, 191>>, <<224, 159, 191>>, <<237, 160, 128>>, <<240, 143, 191>>, <<244, 144>>, <<245>>,
        <<128>>, <<226, 130>>, <<1>>}

SurrogatePair == Bytes("\\ud83d\\ude00")
LongEscapes == {u \in Units : Len(u) >= 6}

Quoted(bytes) == <<QuoteMark>> \o bytes \o <<QuoteMark>>

(* A long escape behind a surrogate pair is always refused. *)
StringTexts == {Quoted(u \o v) : <<u, v>> \in (Units \X Units) \ ({SurrogatePair} \X LongEscapes)}

(* In any order: bytes at the edges of the ranges of UTF-8. *)
EdgeBytes == {65, 128, 144, 160, 191, 224, 237, 240, 244}
Edges(t) ==
  /\ Len(t) <= MaxLen /\ t[1] = QuoteMark
  /\ \A k \in 2 .. Len(t) : t[k] \in EdgeBytes \/ (t[k] = QuoteMark /\ k = Len(t))

FixesValues == [NoLimits EXCEPT !.flags = {"FIXILLUTF8VALUE"}]
OtherLimits == [NoLimits EXCEPT !.max_string_len = 98]

(* The bytes of all these texts. *)
StringAlphabet ==
  {1, 10, 13, 32, 34, 63, 65, 67, 69, 107, 108, 110, 120, 123, 125, 128, 130, 143, 144, 159,
  160, 191, 193, 194, 237, 238, 240, 241, 244, 245} \cup (43 .. 53) \cup (55 .. 58) \cup (91
  .. 93) \cup (97 .. 103) \cup (114 .. 118) \cup (223 .. 226)

FixedTexts == Beginnings(DocumentTexts \cup StringTexts)
StringGiven(t, c) ==
  IF c = OtherLimits THEN t \in FixedTexts ELSE Edges(t)

-----------------------------------------------------------------------------
(* All of them: after an error, only texts of the second half go on. *)

AllConfigs == {NoLimits, SmallLimits, OtherLimits, FixesValues}
IsTextConfig(c) == c \in {NoLimits, SmallLimits}
SomeTexts(t, c)  == IF IsTextConfig(c) THEN TextGiven(t, c) ELSE StringGiven(t, c)
SomeBytes(c)     == IF IsTextConfig(c) THEN TextAlphabet ELSE StringAlphabet
AfterErrors(c)   == ~IsTextConfig(c)

-----------------------------------------------------------------------------
(* Texts that are not complete, with the limits of JSON itself *)

UnfinishedTexts(t, c) == t \in Beginnings({Bytes("[1"), Bytes("nul")})
OneConfig == {OtherLimits}

=============================================================================
