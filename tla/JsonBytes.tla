----------------------------- MODULE JsonBytes -----------------------------
(***************************************************************************)
(* The bytes json.c tells apart, as numbers, and its macros on them.  The  *)
(* coding is ASCII, as the code assumes, with UTF-8 above it.              *)
(***************************************************************************)
EXTENDS Integers, Sequences

NewLine == 10
Return  == 13
Space   == 32
QuoteMark == 34
Comma   == 44
Minus   == 45
Point   == 46
Zero    == 48
Colon   == 58
BackSlash == 92
OpenArray == 91
CloseArray == 93
OpenObject == 123
CloseObject == 125
SmallU == 117

WHITESPACE == {9, NewLine, Return, Space}
CONTROL    == 0 .. 31
PUNCT      == (33 .. 47) \cup (58 .. 64) \cup (91 .. 96) \cup (123 .. 126)
TOKEN_BOUNDARY == WHITESPACE \cup CONTROL \cup PUNCT
ASCII  == 0 .. 127
DIGIT  == 48 .. 57
LETTER == (65 .. 90) \cup (97 .. 122)
XDIGIT == DIGIT \cup (65 .. 70) \cup (97 .. 102)

HI_SURROGATE == 55296 .. 56319
LO_SURROGATE == 56320 .. 57343

(* What the letter after a backslash stands for, except for "u". *)
Escapes == [c \in {34, 92, 47, 98, 102, 110, 114, 116} |->
              CASE c = 98 -> 8 [] c = 102 -> 12 [] c = 110 -> 10 [] c = 114 -> 13
                [] c = 116 -> 9 [] OTHER -> c]

json_resolve_xdigit(c) ==
  IF c \in DIGIT THEN c - 48 ELSE IF c >= 97 THEN c - 97 + 10 ELSE c - 65 + 10

(* json_buf_append_codepoint(): the UTF-8 sequence of a codepoint. *)
Utf8(codepoint) ==
  LET trail(shift) == 128 + ((codepoint \div shift) % 64)
  IN IF codepoint <= 127 THEN <<codepoint>>
     ELSE IF codepoint <= 2047 THEN <<192 + ((codepoint \div 64) % 32), trail(1)>>
     ELSE IF codepoint <= 65535
       THEN <<224 + ((codepoint \div 4096) % 16), trail(64), trail(1)>>
     ELSE <<240 + ((codepoint \div 262144) % 8), trail(4096), trail(64), trail(1)>>

(* U+fffd, the replacement character *)
fffd == <<239, 191, 189>>

Literals == [NULL  |-> <<110, 117, 108, 108>>,
             FALSE |-> <<102, 97, 108, 115, 101>>,
             TRUE  |-> <<116, 114, 117, 101>>]

=============================================================================
