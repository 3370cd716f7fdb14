----------------------------- MODULE JsonParser -----------------------------
(***************************************************************************)
(* The incremental JSON parser of src/3rd_party/json.c.  The application   *)
(* feeds the text in chunks, byte by byte here: it decides after each byte *)
(* whether the chunk ends.  One action is one turn of a loop in json_feed() *)
(* or in one of the automata it calls.                                     *)
(*                                                                         *)
(* "parser" is the JSON_PARSER.  Its substate is a number in the literal   *)
(* and string automata, and the set can_see in the one for numbers.  The   *)
(* bytes text[run + 1 .. pos.offset] were read and are not in buf yet.     *)
(***************************************************************************)
EXTENDS JsonGrammar

CONSTANTS
  Configs,         \* the JSON_CONFIGs the application may use, and with each of them:
  Alphabet(_),     \* the bytes of its texts
  Given(_, _),     \* the texts it may feed, and their beginnings
  KeepsFeeding(_), \* whether it feeds more after an error
  MaxChunk,        \* bound: the length of a chunk beyond max_total_len
  Rets             \* what the callback may return

Success == "SUCCESS"
RootFlags == {"NONULLASROOT", "NOBOOLASROOT", "NONUMBERASROOT", "NOSTRINGASROOT",
              "NOARRAYASROOT", "NOOBJECTASROOT"}
IllFlags  == {"IGNOREILLUTF8KEY", "FIXILLUTF8KEY", "IGNOREILLUTF8VALUE", "FIXILLUTF8VALUE"}

ASSUME ConfigAssumption ==
  /\ Configs \subseteq
       [max_total_len : Nat, max_total_values : Nat, max_number_len : Nat,
        max_string_len : Nat, max_key_len : Nat, max_nesting_level : Nat, flags : SUBSET (RootFlags \cup IllFlags)]
  /\ \A c \in Configs : Alphabet(c) \subseteq 0 .. 255 /\ KeepsFeeding(c) \in BOOLEAN
  /\ Success \in Rets /\ MaxChunk \in Nat

VARIABLES
  config,    \* never changed
  text,      \* the bytes handed to json_feed() so far
  feeding,   \* a call of json_feed() is in progress
  finished,  \* json_fini() was called
  parser,
  events     \* the calls of the callback

vars == <<config, text, feeding, finished, parser, events>>

Init ==
  /\ config \in Configs
  /\ text = <<>> /\ feeding = FALSE /\ finished = FALSE /\ events = <<>>
  /\ parser = [pos |-> [offset |-> 0, line |-> 1, column |-> 1],
               value_pos |-> [offset |-> 0, line |-> 0, column |-> 0],
               err_pos |-> [offset |-> 0, line |-> 0, column |-> 0],
               errcode |-> Success, value_counter |-> 0, nesting_stack |-> <<>>,
               automaton |-> "MAIN", state |-> {"VALUE"}, substate |-> 0, can_see |-> {},
               codepoint |-> <<0, 0>>, buf |-> <<>>, run |-> 0, last_cl_offset |-> -2]

-----------------------------------------------------------------------------
(* Errors and positions *)

(* Keep the primary error. *)
json_raise_(p, err, at) ==
  IF p.errcode = Success THEN [p EXCEPT !.errcode = err, !.err_pos = at] ELSE p

json_raise(p, err) == json_raise_(p, err, p.pos)
json_raise_for_value(p, err) == json_raise_(p, err, p.value_pos)

Unexpected(state) ==
  CASE state = {"VALUE"}           -> "EXPECTEDVALUE"
    [] state = {"KEY"}             -> "EXPECTEDKEY"
    [] state = {"VALUE", "CLOSER"} -> "EXPECTEDVALUEORCLOSER"
    [] state = {"KEY", "CLOSER"}   -> "EXPECTEDKEYORCLOSER"
    [] state = {"COLON"}           -> "EXPECTEDCOLON"
    [] state = {"COMMA", "CLOSER"} -> "EXPECTEDCOMMAORCLOSER"
    [] state = {"EOF"}             -> "EXPECTEDEOF"
    [] OTHER                       -> "SYNTAX"

(* n bytes further in the same line; behind n line ends. *)
Along(pos, n) == [pos EXCEPT !.offset = @ + n, !.column = @ + n]
Below(pos, n) == [pos EXCEPT !.line = @ + n, !.column = 1]

Advanced(p) == [p EXCEPT !.pos = Along(@, 1)]

(* Mutant of json_handle_new_line: "\r\n" ends two lines. *)
json_handle_new_line_each(p, ch) ==
  IF ch \in {Return, NewLine} THEN [p EXCEPT !.pos = Below(@, 1)] ELSE p

json_handle_new_line(p, ch) ==
  CASE ch = Return  -> [p EXCEPT !.pos = Below(@, 1), !.last_cl_offset = p.pos.offset]
    [] ch = NewLine -> [p EXCEPT !.pos = Below(@, IF p.pos.offset = p.last_cl_offset + 1
                                                    THEN 0 ELSE 1)]
    [] OTHER        -> p

(* The byte json_feed() is at; the main automaton goes to the next one. *)
Ch == text[parser.pos.offset + 1]
Past(p) == json_handle_new_line(Advanced(p), Ch)

json_switch_automaton(p, automaton) ==
  [p EXCEPT !.value_pos = p.pos, !.automaton = automaton,
            !.substate = 0, !.can_see = {}, !.buf = <<>>, !.run = p.pos.offset]

-----------------------------------------------------------------------------
(* The callback *)

Closers == {"ARRAY_END", "OBJECT_END"}

BadRoot(type) ==
  CASE type = "NULL"             -> "NONULLASROOT" \in config.flags
    [] type \in {"FALSE", "TRUE"} -> "NOBOOLASROOT" \in config.flags
    [] type = "NUMBER"           -> "NONUMBERASROOT" \in config.flags
    [] type = "STRING"           -> "NOSTRINGASROOT" \in config.flags
    [] type = "ARRAY_BEG"        -> "NOARRAYASROOT" \in config.flags
    [] type = "OBJECT_BEG"       -> "NOOBJECTASROOT" \in config.flags
    [] OTHER                     -> FALSE

(* Why the callback is not called. *)
Refusal(p, type) ==
  IF type \in Closers THEN Success
  ELSE IF p.value_counter = 0 /\ BadRoot(type) THEN "BADROOTTYPE"
  ELSE IF config.max_total_values # 0 /\ p.value_counter >= config.max_total_values
    THEN "MAXTOTALVALUES"
  ELSE Success

(* What the main automaton may see next. *)
StateAfter(p, type) ==
  CASE type = "ARRAY_BEG"  -> {"VALUE", "CLOSER"}
    [] type = "OBJECT_BEG" -> {"KEY", "CLOSER"}
    [] type = "KEY"        -> {"COLON"}
    [] OTHER -> IF p.nesting_stack # <<>> THEN {"COMMA", "CLOSER"} ELSE {"EOF"}

(* The call; "past" if the caller then goes past the byte it is at.        *)
json_process(p, type, data, past) ==
  LET Then(q) == IF past THEN Past(q) ELSE q
  IN IF Refusal(p, type) # Success
       THEN /\ parser' = Then(json_raise_for_value(p, Refusal(p, type)))
            /\ UNCHANGED events
       ELSE /\ events' = Append(events, [type |-> type, data |-> data])
            /\ \E ret \in Rets :
                 parser' = Then(json_switch_automaton(
                   [p EXCEPT !.errcode = ret, !.state = StateAfter(p, type),
                             !.value_counter = @ + IF type \in Closers THEN 0 ELSE 1],
                   "MAIN"))

(* A turn that calls no callback. *)
Becomes(p) == parser' = p /\ UNCHANGED events

-----------------------------------------------------------------------------
(* json_feed() *)

(* Mutant of Reading: the loop goes on after an error. *)
ReadingAnyway == parser.pos.offset < Len(text)

Reading == parser.errcode = Success /\ parser.pos.offset < Len(text)
(* The application goes on with a chunk or begins one: its next byte. *)
NextByte(ch) ==
  /\ ~finished /\ ~Reading
  /\ parser.errcode # Success => KeepsFeeding(config)
  /\ config.max_total_len # 0 => parser.pos.offset < config.max_total_len
  /\ Given(Append(text, ch), config)
  /\ text' = Append(text, ch) /\ feeding' = TRUE
  /\ UNCHANGED <<finished, parser, events>>

(* The place where a chunk is too long, through the bytes behind the ones  *)
(* that are passed.                                                        *)
Moved(p, chunk) ==
  LET moved[n \in 0 .. Len(chunk) - 1] ==
        IF n = 0 THEN p ELSE json_handle_new_line(Advanced(moved[n - 1]), chunk[n + 1])
  IN moved[Len(chunk) - 1]

(* A chunk that is too long as a whole is not parsed. *)
FeedTooMuch(chunk) ==
  /\ ~finished /\ ~feeding /\ config.max_total_len # 0
  /\ parser.pos.offset + Len(chunk) = config.max_total_len + 1
  /\ parser.errcode # Success => KeepsFeeding(config)
  /\ Given(text \o chunk, config)
  /\ text' = text \o chunk
  /\ parser' = json_raise(Moved(parser, chunk), "MAXTOTALLEN")
  /\ UNCHANGED <<feeding, finished, events>>

(* The bytes that were read and belong to the value. *)
Pending(p) == SubSeq(text, p.run + 1, p.pos.offset)
Flushed(p) == [p EXCEPT !.buf = @ \o Pending(p), !.run = p.pos.offset]

InBuffer == parser.automaton \in {"NUMBER", "STRING", "KEY"}

(* A run of plain bytes in a string is stored as a whole or not at all. *)
Rewound(p) ==
  IF p.automaton = "NUMBER" THEN p
  ELSE [p EXCEPT !.pos = Along(@, p.run - p.pos.offset)]

(* Mutant of EndOfChunk: what a number has so far is not kept. *)
EndOfChunkForgetful ==
  /\ feeding /\ ~Reading
  /\ feeding' = FALSE
  /\ parser' = IF parser.errcode = Success /\ parser.automaton \in {"STRING", "KEY"}
                 THEN Flushed(parser) ELSE [parser EXCEPT !.run = parser.pos.offset]
  /\ UNCHANGED <<text, finished, events>>

(* The automata for numbers and strings keep what they have in buf.  The   *)
(* sizes of buf and of nesting_stack are left out: whenever something is   *)
(* added to one of them, there may be no memory.                           *)
EndOfChunk ==
  /\ feeding /\ ~Reading
  /\ feeding' = FALSE
  /\ \/ parser' = IF parser.errcode = Success /\ InBuffer THEN Flushed(parser) ELSE parser
     \/ /\ parser.errcode = Success /\ InBuffer /\ Pending(parser) # <<>>
        /\ parser' = json_raise(Rewound(parser), "OUTOFMEMORY")
  /\ UNCHANGED <<text, finished, events>>

Turn(automata) == Reading /\ parser.automaton \in automata /\ UNCHANGED <<text, feeding, finished>>

OpenContainer ==
  /\ Turn({"MAIN"})
  /\ "VALUE" \in parser.state /\ Ch \in {OpenArray, OpenObject}
  /\ LET pushed == [parser EXCEPT !.nesting_stack =
                      Append(@, IF Ch = OpenArray THEN CloseArray ELSE CloseObject)]
     IN IF config.max_nesting_level # 0
           /\ Len(parser.nesting_stack) >= config.max_nesting_level
          THEN Becomes(json_raise(parser, "MAXNESTINGLEVEL"))
          ELSE \/ json_process(pushed, IF Ch = OpenArray THEN "ARRAY_BEG" ELSE "OBJECT_BEG",
                               <<>>, TRUE)
               \/ Becomes(json_raise(parser, "OUTOFMEMORY"))

(* Mutant of CloseContainer: the closer is not compared. *)
CloseContainerAny ==
  /\ Turn({"MAIN"})
  /\ "CLOSER" \in parser.state /\ Ch \in {CloseArray, CloseObject}
  /\ LET depth  == Len(parser.nesting_stack)
         popped == [parser EXCEPT !.nesting_stack = SubSeq(@, 1, depth - 1)]
     IN json_process(popped, IF Ch = CloseArray THEN "ARRAY_END" ELSE "OBJECT_END", <<>>, TRUE)

CloseContainer ==
  /\ Turn({"MAIN"})
  /\ "CLOSER" \in parser.state /\ Ch \in {CloseArray, CloseObject}
  /\ LET depth == Len(parser.nesting_stack)
         popped == [parser EXCEPT !.nesting_stack = SubSeq(@, 1, depth - 1)]
     IN IF parser.nesting_stack[depth] # Ch
          THEN Becomes(json_raise(parser, "BADCLOSER"))
          ELSE json_process(popped, IF Ch = CloseArray THEN "ARRAY_END" ELSE "OBJECT_END",
                            <<>>, TRUE)

Separator ==
  /\ Turn({"MAIN"})
  /\ \/ /\ "COMMA" \in parser.state /\ Ch = Comma
        /\ LET closer == parser.nesting_stack[Len(parser.nesting_stack)]
           IN Becomes(Past([parser EXCEPT !.state =
                              IF closer = CloseArray THEN {"VALUE"} ELSE {"KEY"}]))
     \/ /\ "COLON" \in parser.state /\ Ch = Colon
        /\ Becomes(Past([parser EXCEPT !.state = {"VALUE"}]))

(* Only the quote of a string or key is read by the main automaton. *)
StartScalar ==
  /\ Turn({"MAIN"})
  /\ \/ /\ "VALUE" \in parser.state /\ Ch = QuoteMark
        /\ Becomes([Past(json_switch_automaton(parser, "STRING")) EXCEPT
                      !.run = parser.pos.offset + 1])
     \/ /\ "KEY" \in parser.state /\ Ch = QuoteMark
        /\ Becomes([Past(json_switch_automaton(parser, "KEY")) EXCEPT
                      !.run = parser.pos.offset + 1])
     \/ /\ "VALUE" \in parser.state /\ Ch \in LETTER
        /\ \/ \E type \in DOMAIN Literals :
                Ch = Literals[type][1] /\ Becomes(json_switch_automaton(parser, type))
           \/ /\ \A type \in DOMAIN Literals : Ch # Literals[type][1]
              /\ Becomes(json_raise(parser, "SYNTAX"))
     \/ /\ "VALUE" \in parser.state /\ Ch \in DIGIT \cup {Minus}
        /\ Becomes(json_switch_automaton(parser, "NUMBER"))

Expected ==
  \/ "VALUE" \in parser.state /\ Ch \in {OpenArray, OpenObject, QuoteMark, Minus} \cup LETTER \cup DIGIT
  \/ "CLOSER" \in parser.state /\ Ch \in {CloseArray, CloseObject}
  \/ "COMMA" \in parser.state /\ Ch = Comma
  \/ "COLON" \in parser.state /\ Ch = Colon
  \/ "KEY" \in parser.state /\ Ch = QuoteMark

OtherByte ==
  /\ Turn({"MAIN"})
  /\ ~Expected
  /\ IF Ch \in WHITESPACE THEN Becomes(Past(parser))
                          ELSE Becomes(json_raise(parser, Unexpected(parser.state)))

-----------------------------------------------------------------------------
(* The automata for literals and numbers *)

LiteralByte ==
  /\ Turn(DOMAIN Literals)
  /\ LET literal == Literals[parser.automaton]
         seen    == parser.substate
     IN IF seen < Len(literal)
          THEN Becomes(IF Ch = literal[seen + 1]
                         THEN [Advanced(parser) EXCEPT !.substate = seen + 1]
                         ELSE json_raise_for_value(parser, "SYNTAX"))
          ELSE IF Ch \in TOKEN_BOUNDARY
            THEN json_process(parser, parser.automaton, <<>>, FALSE)
            ELSE Becomes(json_raise([parser EXCEPT !.pos = parser.value_pos], "SYNTAX"))

(* What a number may go on with after a byte; nothing if the byte is none  *)
(* of it.                                                                  *)
NumberAfter(can_see, ch) ==
  CASE "m_sign" \in can_see /\ ch = Minus -> {"m_first_digit"}
    [] "m_first_digit" \in can_see /\ ch \in DIGIT ->
         {"f_delimeter", "e_delim", "end"} \cup (IF ch = Zero THEN {} ELSE {"m_digit"})
    [] "m_digit" \in can_see /\ ch \in DIGIT -> {"m_digit", "f_delimeter", "e_delim", "end"}
    [] "f_delimeter" \in can_see /\ ch = Point -> {"f_digit"}
    [] "f_digit" \in can_see /\ ch \in DIGIT -> {"f_digit", "e_delim", "end"}
    [] "e_delim" \in can_see /\ ch \in {69, 101} -> {"e_sign", "e_digit"}
    [] "e_sign" \in can_see /\ ch \in {43, Minus} -> {"e_digit"}
    [] "e_digit" \in can_see /\ ch \in DIGIT -> {"e_digit", "end"}
    [] OTHER -> {}

TooLong(p, max_len) == max_len # 0 /\ p.pos.offset - p.value_pos.offset > max_len

NumberByte ==
  /\ Turn({"NUMBER"})
  /\ LET can_see == IF parser.can_see = {} THEN {"m_sign", "m_first_digit"} ELSE parser.can_see
         read == [Advanced(parser) EXCEPT !.can_see = NumberAfter(can_see, Ch)]
     IN IF read.can_see # {}
          THEN Becomes(IF TooLong(read, config.max_number_len)
                         THEN json_raise_for_value(read, "MAXNUMBERLEN") ELSE read)
          ELSE IF "end" \in can_see /\ Ch \in TOKEN_BOUNDARY
            THEN \/ json_process(parser, "NUMBER", Flushed(parser).buf, FALSE)
                 \/ /\ parser.buf # <<>> /\ Pending(parser) # <<>>
                    /\ Becomes(json_raise(parser, "OUTOFMEMORY"))
            ELSE Becomes(json_raise_for_value(parser, "SYNTAX"))

-----------------------------------------------------------------------------
(* The automaton for strings and keys *)

ignore_ill_utf8(p) ==
  (IF p.automaton = "KEY" THEN "IGNOREILLUTF8KEY" ELSE "IGNOREILLUTF8VALUE") \in config.flags
fix_ill_utf8(p) ==
  (IF p.automaton = "KEY" THEN "FIXILLUTF8KEY" ELSE "FIXILLUTF8VALUE") \in config.flags

EscapeBegun == BackSlash     \* values of substate: after a backslash,
LongEscape  == 43981         \* with n hexadecimal digits missing: LongEscape + n,
HighRead    == LongEscape - 2  \* after a high surrogate,
HighEscape  == LongEscape - 1  \* and after a backslash behind it

(* The byte is read and the bytes go to buf after those that wait. *)
Took(p, bytes, substate) ==
  [Advanced(p) EXCEPT !.buf = Flushed(p).buf \o bytes, !.run = p.pos.offset + 1,
                      !.substate = substate]

(* The byte is not read: it is looked at again in another substate. *)
Replayed(p, buf, substate) == [p EXCEPT !.buf = buf, !.substate = substate]

(* 1 to 3: so many trailing bytes are to follow; 4 to 7: the first of them *)
(* has a smaller range.                                                    *)
LeadingByte(ch) ==
  CASE ch \in 194 .. 223 -> 1
    [] ch = 224 -> 4
    [] ch \in (225 .. 236) \cup {238, 239} -> 2
    [] ch = 237 -> 5
    [] ch = 240 -> 6
    [] ch \in 241 .. 243 -> 3
    [] ch = 244 -> 7
    [] OTHER -> 0

Trailing == 128 .. 191
Ill == -1

TrailingByte(substate, ch) ==
  CASE substate <= 3 /\ ch \in Trailing -> substate - 1
    [] substate = 4 /\ ch \in 160 .. 191 -> 1
    [] substate = 5 /\ ch \in 128 .. 159 -> 1
    [] substate = 6 /\ ch \in 144 .. 191 -> 2
    [] substate = 7 /\ ch \in 128 .. 143 -> 2
    [] OTHER -> Ill

(* Mutant of CutBack: only the last byte is cancelled. *)
CutBackOne(buf) == SubSeq(buf, 1, Len(buf) - 1)

(* buf without the incomplete sequence at its end. *)
CutBack(buf) ==
  SubSeq(buf, 1, CHOOSE n \in 0 .. Len(buf) - 1 :
                   buf[n + 1] \notin Trailing /\ \A k \in n + 2 .. Len(buf) : buf[k] \in Trailing)

PlainRead(p, ch) ==
  CASE ch \in {NewLine, Return} -> json_raise_for_value(Flushed(p), "UNCLOSEDSTRING")
    [] ch \in CONTROL \ {NewLine, Return} -> json_raise(Flushed(p), "UNESCAPEDCONTROL")
    [] ch = BackSlash -> Took(p, <<>>, EscapeBegun)
    [] ch \notin CONTROL \cup {BackSlash} /\ (ch \in ASCII \/ ignore_ill_utf8(p)) -> Advanced(p)
    [] OTHER -> IF LeadingByte(ch) # 0 THEN Took(p, <<ch>>, LeadingByte(ch))
                ELSE IF fix_ill_utf8(p) THEN Took(p, fffd, 0)
                ELSE json_raise(Flushed(p), "INVALIDUTF8")

TrailRead(p, ch) ==
  IF TrailingByte(p.substate, ch) # Ill THEN Took(p, <<ch>>, TrailingByte(p.substate, ch))
  ELSE IF fix_ill_utf8(p) THEN Replayed(p, CutBack(p.buf) \o fffd, 0)
  ELSE json_raise(p, "INVALIDUTF8")

EscapeRead(p, ch) ==
  CASE ch = SmallU -> Took(p, <<>>, LongEscape + 4)
    [] ch \in DOMAIN Escapes -> Took(p, <<Escapes[ch]>>, 0)
    [] OTHER -> json_raise(p, "INVALIDESCAPE")

(* A surrogate without its partner: kept as it is, replaced (three times,  *)
(* for the bytes it would have), or an error.                              *)
SurrogateRefused(p) == ~ignore_ill_utf8(p) /\ ~fix_ill_utf8(p)
json_handle_ill_surrogate(p, codepoint) ==
  IF ignore_ill_utf8(p) THEN Utf8(codepoint) ELSE fffd \o fffd \o fffd

(* The fourth digit is read: hi is the high surrogate that waits, or 0. *)
LongEscapeRead(p, hi, codepoint) ==
  LET orphan == hi # 0 /\ codepoint \notin LO_SURROGATE
      before == IF orphan THEN json_handle_ill_surrogate(p, hi) ELSE <<>>
      first  == IF orphan THEN 0 ELSE hi
      Done(bytes) == [Took(p, before \o bytes, 0) EXCEPT !.codepoint = <<first, 0>>]
  IN CASE SurrogateRefused(p) /\ (orphan \/ (first = 0 /\ codepoint \in LO_SURROGATE)) ->
            json_raise(p, "INVALIDUTF8")
       [] first = 0 /\ codepoint \in LO_SURROGATE /\ ~SurrogateRefused(p) ->
            Done(json_handle_ill_surrogate(p, codepoint))
       [] first # 0 /\ codepoint \in LO_SURROGATE ->
            Done(Utf8(65536 + (first - 55296) * 1024 + (codepoint - 56320)))
       [] codepoint \in HI_SURROGATE /\ ~(orphan /\ SurrogateRefused(p)) ->
            [Took(p, before, HighRead) EXCEPT !.codepoint = <<codepoint, 0>>]
       [] OTHER -> Done(Utf8(codepoint))

HexRead(p, ch) ==
  LET codepoint == p.codepoint[2] * 16 + json_resolve_xdigit(ch)
  IN IF ch \notin XDIGIT THEN json_raise(p, "INVALIDESCAPE")
     ELSE IF p.substate - 1 # LongEscape
       THEN [Took(p, <<>>, p.substate - 1) EXCEPT !.codepoint[2] = codepoint]
     ELSE LongEscapeRead(p, p.codepoint[1], codepoint)

HighSurrogateRead(p, ch) ==
  CASE p.substate = HighRead /\ ch = BackSlash -> Took(p, <<>>, HighEscape)
    [] p.substate = HighEscape /\ ch = SmallU -> Took(p, <<>>, LongEscape + 4)
    [] OTHER ->
         IF SurrogateRefused(p) THEN json_raise(p, "INVALIDUTF8")
         ELSE [Replayed(p, p.buf \o json_handle_ill_surrogate(p, p.codepoint[1]),
                        IF p.substate = HighEscape THEN EscapeBegun ELSE 0)
                 EXCEPT !.codepoint[1] = 0]

StringRead(p, ch) ==
  CASE p.substate = 0 -> PlainRead(p, ch)
    [] p.substate \in 1 .. 7 -> TrailRead(p, ch)
    [] p.substate = EscapeBegun -> EscapeRead(p, ch)
    [] p.substate > LongEscape -> HexRead(p, ch)
    [] OTHER -> HighSurrogateRead(p, ch)

(* Both limits are for the bytes between the quotes as they are written. *)
StringByte ==
  /\ Turn({"STRING", "KEY"})
  /\ ~(parser.substate = 0 /\ Ch = QuoteMark)
  /\ LET max_len == 1 + IF parser.automaton = "KEY" THEN config.max_key_len
                                                    ELSE config.max_string_len
         read == StringRead(parser, Ch)
     IN \/ Becomes(IF TooLong(read, max_len)
                     THEN json_raise_for_value(read, IF parser.automaton = "KEY" THEN "MAXKEYLEN"
                                                                          ELSE "MAXSTRINGLEN")
                     ELSE read)
        \/ /\ read.buf # parser.buf
           /\ Becomes(json_raise(Rewound(parser), "OUTOFMEMORY"))

(* A string without anything special in one chunk is not copied to buf.    *)
StringEnd ==
  /\ Turn({"STRING", "KEY"})
  /\ parser.substate = 0 /\ Ch = QuoteMark
  /\ \/ json_process(Advanced(parser), parser.automaton, Flushed(parser).buf, FALSE)
     \/ /\ parser.buf # <<>> /\ Pending(parser) # <<>>
        /\ Becomes(json_raise(Rewound(parser), "OUTOFMEMORY"))

-----------------------------------------------------------------------------
(* json_fini() *)

json_fini ==
  /\ ~finished /\ ~feeding
  /\ finished' = TRUE
  /\ CASE parser.errcode # Success -> Becomes(parser)
       [] parser.errcode = Success /\ parser.automaton = "MAIN" ->
            Becomes(IF parser.nesting_stack # <<>> \/ "EOF" \notin parser.state
                      THEN json_raise(parser, Unexpected(parser.state)) ELSE parser)
       [] parser.errcode = Success /\ parser.automaton \in DOMAIN Literals ->
            json_process(parser, parser.automaton, <<>>, FALSE)
       [] parser.errcode = Success /\ parser.automaton = "NUMBER" ->
            IF "end" \in parser.can_see THEN json_process(parser, "NUMBER", parser.buf, FALSE)
            ELSE Becomes(json_raise_for_value(parser, "SYNTAX"))
       [] parser.errcode = Success /\ parser.automaton \in {"STRING", "KEY"} ->
            Becomes(json_raise_for_value(parser, "UNCLOSEDSTRING"))
  /\ UNCHANGED <<text, feeding>>

Next ==
  /\ UNCHANGED config
  /\ \/ \E ch \in Alphabet(config) : NextByte(ch)
     \/ \E chunk \in UNION {[1 .. n -> Alphabet(config)] :
                      n \in {config.max_total_len + 1 - parser.pos.offset} \cap (1 .. MaxChunk)} :
          FeedTooMuch(chunk)
     \/ EndOfChunk
     \/ OpenContainer \/ CloseContainer \/ Separator \/ StartScalar \/ OtherByte
     \/ LiteralByte \/ NumberByte \/ StringByte \/ StringEnd
     \/ json_fini

Spec == Init /\ [][Next]_vars

-----------------------------------------------------------------------------
(* Properties *)

ValueTypes == DOMAIN Literals \cup {"NUMBER", "STRING", "ARRAY_BEG", "OBJECT_BEG"}

Depth == Cardinality({k \in DOMAIN events : events[k].type \in {"ARRAY_BEG", "OBJECT_BEG"}})
         - Cardinality({k \in DOMAIN events : events[k].type \in Closers})

Stream == INSTANCE JsonEvents WITH
  types <- [k \in DOMAIN events |-> events[k].type],
  open  <- [k \in 1 .. Depth |-> IF parser.nesting_stack[k] = CloseArray THEN "ARRAY" ELSE "OBJECT"],
  keyed <- events # <<>> /\ events[Len(events)].type = "KEY"

(* "Inside an object, the application is guaranteed to get keys and their  *)
(* corresponding values in the alternating fashion", and each container    *)
(* ends as it began, whatever is fed and wherever parsing stops.           *)
IsEventStream == Stream!Spec

(* The line and column of an offset: "\r\n" ends one line. *)
Place(offset) ==
  LET ends == {k \in 1 .. offset : text[k] \in {Return, NewLine}}
      last == CHOOSE k \in ends \cup {0} : \A j \in ends : j <= k
  IN [offset |-> offset,
      line |-> 1 + Cardinality({k \in ends : ~(text[k] = NewLine /\ k - 1 \in ends
                                              /\ text[k - 1] = Return)}),
      column |-> offset - last + 1]

(* The position of the parser and that of its errors are places of the     *)
(* text, however the chunks cut lines, tokens and "\r\n": JSON_INPUT_POS is *)
(* "used to specify where in the input a parsing error occurred".  (Where  *)
(* the callback stopped it is not recorded at all.)                        *)
PlacesRight ==
  /\ parser.pos = Place(parser.pos.offset)
  /\ parser.errcode \notin Rets => parser.err_pos = Place(parser.err_pos.offset)

(* json.h on an error: "any trying to call json_feed() again shall just    *)
(* fail with the same return value"; nothing more is reported either.      *)
ErrorIsFinal ==
  [][parser.errcode # Success =>
       /\ UNCHANGED events
       /\ parser'.errcode = parser.errcode /\ parser'.err_pos = parser.err_pos]_vars

(* What the configuration allows of a document. *)
Allowed(doc) ==
  LET AtMost(n, max) == max = 0 \/ n <= max
      count(k, types) == Cardinality({j \in 1 .. k : doc[j].type \in types})
      long(type, max) == \A k \in DOMAIN doc : doc[k].type = type => AtMost(Len(doc[k].data), max)
  IN /\ AtMost(Len(text), config.max_total_len)
     /\ AtMost(count(Len(doc), ValueTypes \cup {"KEY"}), config.max_total_values)
     /\ \A k \in DOMAIN doc :
          AtMost(count(k, {"ARRAY_BEG", "OBJECT_BEG"}) - count(k, Closers), config.max_nesting_level)
     /\ long("NUMBER", config.max_number_len) /\ long("STRING", config.max_string_len)
     /\ long("KEY", config.max_key_len)
     /\ ~BadRoot(doc[1].type)

Documents == {doc \in Document(text) : Allowed(doc)}

(* The application did not stop it and there was memory. *)
OwnVerdict == finished /\ parser.errcode \notin (Rets \ {Success}) \cup {"OUTOFMEMORY"}

EndsWithToken == text # <<>> /\ text[Len(text)] \in WHITESPACE \cup {QuoteMark, CloseArray, CloseObject}

(* What json_fini() flushes is no literal and not within a container: see  *)
(* AcceptsOnlyDocuments.                                                   *)
EndsAtRoot ==
  /\ parser.nesting_stack = <<>>
  /\ events # <<>> => events[Len(events)].type \notin DOMAIN Literals

(* A text that ends after a complete token or with a number at the root is *)
(* accepted exactly if it is a document within the limits, and the         *)
(* callback got its values: the same for every way to cut it into chunks.  *)
(* (The flags that let ill-formed strings pass are left to                 *)
(* StringsRepaired.)                                                       *)
ReadsDocuments ==
  OwnVerdict /\ (EndsWithToken \/ EndsAtRoot) /\ config.flags \cap IllFlags = {} =>
    IF parser.errcode = Success THEN events \in Documents ELSE Documents = {}

(* No text is accepted that is not complete: json_fini() fails if the      *)
(* "processed JSON input was not complete valid JSON document".            *)
AcceptsOnlyDocuments == finished /\ parser.errcode = Success => Document(text) # {}

(* The application gets well-formed UTF-8 only: ill-formed bytes are       *)
(* replaced as Unicode recommends if the flags ask for it.                 *)
StringsRepaired ==
  finished /\ parser.errcode = Success /\ events[1].type = "STRING"
    /\ "FIXILLUTF8VALUE" \in config.flags =>
      events[1].data = Repaired(SubSeq(text, 2, Len(text) - 1))

=============================================================================
