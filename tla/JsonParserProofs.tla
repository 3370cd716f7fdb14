-------------------------- MODULE JsonParserProofs --------------------------
(***************************************************************************)
(* Proofs about JsonParser, for every text, every way to cut it into       *)
(* chunks, every limit and every answer of the callback: the fields keep   *)
(* their ranges, the callback gets the event stream of JsonEvents, and the *)
(* first error stays. The string automaton comes first, then               *)
(* json_process(), the inductive invariant IInv, the event stream and one  *)
(* lemma per action; last the places it tells: every line and column is    *)
(* the one of its offset. IInv says where the automata are, Sound relates  *)
(* what the parser counted to the text it read.                            *)
(***************************************************************************)
EXTENDS JsonParser, FiniteSetTheorems, SequenceTheorems, WellFoundedInduction, TLAPS

(* Every set of numbers that is not empty has a least one. An induction is *)
(* a set of counterexamples whose least member contradicts itself.         *)
LEMMA LeastNumber ==
  ASSUME NEW T, T \subseteq Nat, T # {}
  PROVE  \E n \in T : \A m \in T : n <= m
<1> DEFINE R == {ss \in Nat \X Nat : ss[1] < ss[2]}
<1>1. IsWellFoundedOn(R, Nat)
  BY NatLessThanWellFounded DEF OpToRel
<1>2. \A x, y \in Nat : x < y => <<x, y>> \in R
  OBVIOUS
<1> HIDE DEF R
<1>3. PICK n \in T : \A m \in T : ~ (<<m, n>> \in R)
  BY <1>1, WFMin
<1>4. ASSUME NEW m \in T
      PROVE  n <= m
  <2>1. ~ (m < n)
    BY <1>2, <1>3
  <2> QED
    BY <2>1
<1> QED
  BY <1>3, <1>4

(* The function that Moved builds: the parser after each byte of a chunk   *)
(* that is too long.                                                       *)
MovesBy(p, chunk, N, m) ==
  m = [n \in 0 .. N |-> IF n = 0 THEN p ELSE json_handle_new_line(Advanced(m[n - 1]), chunk[n + 1])]

(* MovesBy has a solution, whatever the length of the chunk.               *)
LEMMA MovesExist ==
  ASSUME NEW p, NEW chunk, NEW N \in Nat
  PROVE  \E m : MovesBy(p, chunk, N, m)
<1> DEFINE Bad == {n \in Nat : ~ \E m : MovesBy(p, chunk, n, m)}
<1>1. SUFFICES ASSUME Bad # {} PROVE FALSE
  OBVIOUS
<1>2. PICK n \in Bad : \A k \in Bad : n <= k
  BY <1>1, LeastNumber
<1>3. n # 0
  <2>1. MovesBy(p, chunk, 0, [k \in 0 .. 0 |-> p])
    BY DEF MovesBy
  <2> QED
    BY <2>1
<1>4. PICK m : MovesBy(p, chunk, n - 1, m)
  BY <1>2, <1>3
<1> DEFINE M == [k \in 0 .. n |-> IF k = n THEN json_handle_new_line(Advanced(m[n - 1]), chunk[n + 1])
                                 ELSE m[k]]
<1>5. MovesBy(p, chunk, n, M)
  <2>1. \A k \in 0 .. n : M[k] = IF k = 0 THEN p
                       ELSE json_handle_new_line(Advanced(M[k - 1]), chunk[k + 1])
    BY <1>2, <1>3, <1>4 DEF MovesBy
  <2> QED
    BY <2>1, Zenon DEF MovesBy
<1> QED
  BY <1>2, <1>5

(* Moved is the last value of that function.                               *)
LEMMA MovedIsLast ==
  ASSUME NEW p, NEW chunk, Len(chunk) \in Nat \ {0}
  PROVE  \E m : MovesBy(p, chunk, Len(chunk) - 1, m) /\ Moved(p, chunk) = m[Len(chunk) - 1]
<1> DEFINE N == Len(chunk) - 1
           f == CHOOSE m : m = [n \in 0 .. N |-> IF n = 0 THEN p ELSE json_handle_new_line(Advanced(m[n - 1]), chunk[n + 1])]
<1>1. \E m : MovesBy(p, chunk, N, m)
  BY MovesExist
<1>2. MovesBy(p, chunk, N, f)
  BY <1>1 DEF MovesBy
<1>3. Moved(p, chunk) = f[N]
  BY DEF Moved
<1> QED
  BY <1>2, <1>3
Byte == 0 .. 255
Place3 == [offset : Nat, line : Nat, column : Int]
Automata == {"MAIN", "NUMBER", "STRING", "KEY"} \cup DOMAIN Literals
States == {{"VALUE"}, {"KEY"}, {"VALUE", "CLOSER"}, {"KEY", "CLOSER"}, {"COLON"},
           {"COMMA", "CLOSER"}, {"EOF"}}
NumberParts == {"m_sign", "m_first_digit", "m_digit", "f_delimeter", "f_digit", "e_delim",
                "e_sign", "e_digit", "end"}
ErrorNames ==
  {"EXPECTEDVALUE", "EXPECTEDKEY", "EXPECTEDVALUEORCLOSER", "EXPECTEDKEYORCLOSER", "EXPECTEDCOLON",
   "EXPECTEDCOMMAORCLOSER", "EXPECTEDEOF", "SYNTAX", "BADROOTTYPE", "MAXTOTALVALUES", "MAXTOTALLEN",
   "OUTOFMEMORY", "MAXNESTINGLEVEL", "BADCLOSER", "MAXNUMBERLEN", "UNCLOSEDSTRING",
   "UNESCAPEDCONTROL", "INVALIDUTF8", "INVALIDESCAPE", "MAXKEYLEN", "MAXSTRINGLEN"}
Containers == {"ARRAY_BEG", "OBJECT_BEG"}
EventTypes == DOMAIN Literals \cup {"NUMBER", "STRING", "KEY"} \cup Containers \cup Closers
Events == [type : EventTypes, data : Seq(Byte)]

(* The parser, with every field in its range.                              *)
Parsers ==
  [pos : Place3, value_pos : Place3, err_pos : Place3, errcode : Rets \cup ErrorNames,
   value_counter : Nat, nesting_stack : Seq({CloseArray, CloseObject}), automaton : Automata,
   state : States, substate : Nat, can_see : SUBSET NumberParts,
   codepoint : ({0} \cup HI_SURROGATE) \X Nat, buf : Seq(Byte), run : Nat, last_cl_offset : Int]

LEMMA PlaceFields ==
  ASSUME NEW q \in Place3
  PROVE  q.offset \in Nat /\ q.line \in Nat /\ q.column \in Int
BY DEF Place3

(* A position in the same line.                                            *)
LEMMA AlongType ==
  ASSUME NEW q \in Place3, NEW n \in Int, q.offset + n \in Nat
  PROVE  /\ Along(q, n) \in Place3
         /\ Along(q, n).offset = q.offset + n /\ Along(q, n).line = q.line
         /\ Along(q, n).column = q.column + n
<1> DEFINE o == q.offset + n
           c == q.column + n
<1>1. o \in Nat /\ c \in Int
  BY PlaceFields
<1>2. Along(q, n) = [q EXCEPT !.offset = o, !.column = c]
  BY DEF Along, Place3
<1> HIDE DEF o, c
<1>3. Along(q, n) \in Place3 /\ Along(q, n).offset = o /\ Along(q, n).line = q.line /\ Along(q, n).column = c
  BY <1>1, <1>2 DEF Place3
<1> QED
  BY <1>3 DEF o, c

(* A position in a line further down.                                      *)
LEMMA BelowType ==
  ASSUME NEW q \in Place3, NEW n \in Nat
  PROVE  /\ Below(q, n) \in Place3
         /\ Below(q, n).offset = q.offset /\ Below(q, n).line = q.line + n
         /\ Below(q, n).column = 1
<1> DEFINE l == q.line + n
           c == 1
<1>1. l \in Nat /\ c \in Int
  BY PlaceFields
<1>2. Below(q, n) = [q EXCEPT !.line = l, !.column = c]
  BY DEF Below, Place3
<1> HIDE DEF l, c
<1>3. /\ Below(q, n) \in Place3
      /\ Below(q, n).offset = q.offset /\ Below(q, n).line = l /\ Below(q, n).column = c
  BY <1>1, <1>2 DEF Place3
<1> QED
  BY <1>3 DEF l, c

(* The steps of the position keep the parser well formed.                  *)
LEMMA AdvancedType ==
  ASSUME NEW p \in Parsers
  PROVE  /\ Advanced(p) \in Parsers
         /\ Advanced(p).pos = Along(p.pos, 1)
         /\ Advanced(p).pos.offset = p.pos.offset + 1
<1>1. p.pos \in Place3 /\ p.pos.offset \in Nat
  BY DEF Parsers, Place3
<1>2. Along(p.pos, 1) \in Place3 /\ Along(p.pos, 1).offset = p.pos.offset + 1
  BY <1>1, AlongType
<1> QED
  BY <1>2 DEF Advanced, Parsers

LEMMA NewLineType ==
  ASSUME NEW p \in Parsers, NEW ch \in Byte
  PROVE  /\ json_handle_new_line(p, ch) \in Parsers
         /\ json_handle_new_line(p, ch).pos.offset = p.pos.offset
<1>1. p.pos \in Place3 /\ p.pos.offset \in Nat
  BY DEF Parsers, Place3
<1>2. CASE ch = Return
  <2>1. Below(p.pos, 1) \in Place3 /\ Below(p.pos, 1).offset = p.pos.offset
    BY <1>1, BelowType
  <2> QED
    <3>1. json_handle_new_line(p, ch)
            = [p EXCEPT !.pos = Below(p.pos, 1), !.last_cl_offset = p.pos.offset]
      BY <1>2 DEF json_handle_new_line, Return, NewLine
    <3>2. p.pos.offset \in Int
      BY <1>1
    <3> QED
      BY <2>1, <3>1, <3>2 DEF Parsers
<1>3. CASE ch = NewLine
  <2> DEFINE n == IF p.pos.offset = p.last_cl_offset + 1 THEN 0 ELSE 1
  <2>1. Below(p.pos, n) \in Place3 /\ Below(p.pos, n).offset = p.pos.offset
    BY <1>1, BelowType
  <2>2. json_handle_new_line(p, ch) = [p EXCEPT !.pos = Below(p.pos, n)]
    BY <1>3 DEF json_handle_new_line, Return, NewLine
  <2> HIDE DEF n
  <2> QED
    BY <2>1, <2>2 DEF Parsers
<1>4. CASE ch \notin {Return, NewLine}
  BY <1>4 DEF json_handle_new_line
<1> QED
  BY <1>2, <1>3, <1>4

(* The bytes of a string that are not in the buffer yet, and the parser    *)
(* that took one more.                                                     *)
LEMMA PendingType ==
  ASSUME NEW p \in Parsers, text \in Seq(Byte), p.pos.offset <= Len(text)
  PROVE  Pending(p) \in Seq(Byte)
<1>1. p.run \in Nat /\ p.pos.offset \in Nat /\ Len(text) \in Nat
  BY LenProperties DEF Parsers, Place3
<1>2. \A i \in p.run + 1 .. p.pos.offset : i \in 1 .. Len(text)
  BY <1>1
<1>3. \A i \in p.run + 1 .. p.pos.offset : text[i] \in Byte
  BY <1>2, ElementOfSeq
<1>4. SubSeq(text, p.run + 1, p.pos.offset) \in Seq(Byte)
  BY <1>1, <1>3, SubSeqProperties
<1> QED
  BY <1>4 DEF Pending

LEMMA TookType ==
  ASSUME NEW p \in Parsers, text \in Seq(Byte), p.pos.offset <= Len(text),
         NEW bytes \in Seq(Byte), NEW substate \in Nat
  PROVE  /\ Took(p, bytes, substate) \in Parsers
         /\ Took(p, bytes, substate).pos = Along(p.pos, 1)
<1>1. (p.buf \o Pending(p)) \o bytes \in Seq(Byte)
  BY PendingType, ConcatProperties DEF Parsers
<1>2. Flushed(p).buf = p.buf \o Pending(p)
  BY DEF Flushed, Parsers
<1>3. Advanced(p) \in Parsers /\ Advanced(p).pos = Along(p.pos, 1)
  BY AdvancedType
<1>4. p.pos.offset + 1 \in Nat
  BY DEF Parsers, Place3
<1> QED
  BY <1>1, <1>2, <1>3, <1>4 DEF Took, Parsers
-----------------------------------------------------------------------------
(* The string automaton *)

LineEnds == {Return, NewLine}
StringAutomata == {"STRING", "KEY"}

(* buf ends in a sequence that can be taken back. *)
Leads(buf, n) ==
  n \in 0 .. Len(buf) - 1 /\ buf[n + 1] \notin Trailing /\ \A k \in n + 2 .. Len(buf) : buf[k] \in Trailing
CanCut(buf) == \E n \in 0 .. Len(buf) - 1 : Leads(buf, n)

(* What a turn in a sub-automaton may change, p -> q. *)
Stays(p, q) ==
  /\ q.nesting_stack = p.nesting_stack /\ q.state = p.state /\ q.automaton = p.automaton
  /\ q.value_counter = p.value_counter /\ q.value_pos = p.value_pos
  /\ q.last_cl_offset = p.last_cl_offset
  /\ IF q.errcode = Success THEN q.err_pos = p.err_pos ELSE q.err_pos \in {q.pos, q.value_pos}

MovesPast(p, q, ch) ==
  \/ q.pos = p.pos /\ q.run \in {p.run, p.pos.offset}
  \/ q.pos = Along(p.pos, 1) /\ q.run \in {p.run, p.pos.offset + 1} /\ ch \notin LineEnds

SequenceKept(q) ==
  q.errcode = Success /\ q.automaton \in StringAutomata /\ q.substate \in 1 .. 7 =>
    CanCut(q.buf) /\ q.run = q.pos.offset

Reads(p, q, ch) ==
  q \in Parsers /\ Stays(p, q) /\ MovesPast(p, q, ch) /\ SequenceKept(q)

(* What is left when an ill-formed sequence is taken out of the buffer.    *)
LEMMA CutBackType ==
  ASSUME NEW buf \in Seq(Byte), CanCut(buf)
  PROVE  CutBack(buf) \in Seq(Byte)
<1> DEFINE n == CHOOSE n \in 0 .. Len(buf) - 1 :
                   buf[n + 1] \notin Trailing /\ \A k \in n + 2 .. Len(buf) : buf[k] \in Trailing
<1>1. n \in 0 .. Len(buf) - 1
  BY DEF CanCut, Leads
<1>2. CutBack(buf) = SubSeq(buf, 1, n)
  BY DEF CutBack
<1> HIDE DEF n
<1>3. \A i \in 1 .. n : buf[i] \in Byte
  BY <1>1, LenProperties, ElementOfSeq
<1> QED
  BY <1>1, <1>2, <1>3, SubSeqProperties, LenProperties

(* The buffer with the pending bytes.                                      *)
LEMMA FlushedType ==
  ASSUME NEW p \in Parsers, text \in Seq(Byte), p.pos.offset <= Len(text)
  PROVE  /\ Flushed(p) \in Parsers /\ Flushed(p).buf = p.buf \o Pending(p)
         /\ Flushed(p) = [p EXCEPT !.buf = p.buf \o Pending(p), !.run = p.pos.offset]
<1>1. p.buf \o Pending(p) \in Seq(Byte)
  BY PendingType, ConcatProperties DEF Parsers
<1>2. p.pos.offset \in Nat
  BY DEF Parsers, Place3
<1> QED
  BY <1>1, <1>2 DEF Flushed, Parsers

(* What a turn in the string automaton may end in: an error, the same      *)
(* parser, the pending bytes moved to the buffer, a byte taken, passed or  *)
(* replayed.                                                               *)
LEMMA RaiseReads ==
  ASSUME NEW p \in Parsers, NEW q \in Parsers, NEW ch, Reads(p, q, ch),
         NEW err \in ErrorNames, NEW at \in {q.pos, q.value_pos}
  PROVE  Reads(p, json_raise_(q, err, at), ch)
<1>0. err # Success
  BY DEF ErrorNames, Success
<1>1. CASE q.errcode # Success
  BY <1>1 DEF json_raise_
<1>2. CASE q.errcode = Success
  <2> DEFINE r == json_raise_(q, err, at)
  <2>1. r = [q EXCEPT !.errcode = err, !.err_pos = at]
    BY <1>2 DEF json_raise_
  <2>2. at \in Place3
    BY DEF Parsers
  <2> HIDE DEF r
  <2>3. /\ r \in Parsers /\ r.errcode = err /\ r.err_pos = at
        /\ r.pos = q.pos /\ r.value_pos = q.value_pos /\ r.run = q.run
        /\ r.nesting_stack = q.nesting_stack /\ r.state = q.state /\ r.automaton = q.automaton
        /\ r.value_counter = q.value_counter /\ r.last_cl_offset = q.last_cl_offset
    BY <2>1, <2>2 DEF Parsers
  <2> QED
    BY <1>0, <2>3 DEF Reads, Stays, MovesPast, SequenceKept, r
<1> QED
  BY <1>1, <1>2

LEMMA SameReads ==
  ASSUME NEW p \in Parsers, p.errcode = Success, SequenceKept(p), NEW ch
  PROVE  Reads(p, p, ch)
BY DEF Reads, Stays, MovesPast

LEMMA FlushedReads ==
  ASSUME NEW p \in Parsers, text \in Seq(Byte), p.pos.offset <= Len(text), NEW ch,
         p.errcode = Success, p.substate = 0
  PROVE  Reads(p, Flushed(p), ch)
<1>1. Flushed(p) = [p EXCEPT !.buf = p.buf \o Pending(p), !.run = p.pos.offset] /\ Flushed(p) \in Parsers
  BY FlushedType
<1>2. Stays(p, Flushed(p)) /\ Flushed(p).pos = p.pos /\ Flushed(p).run = p.pos.offset /\ Flushed(p).substate = 0
  BY <1>1 DEF Parsers, Stays
<1> QED
  BY <1>1, <1>2 DEF Reads, MovesPast, SequenceKept

LEMMA TookReads ==
  ASSUME NEW p \in Parsers, text \in Seq(Byte), p.pos.offset <= Len(text), NEW ch, ch \notin LineEnds,
         p.errcode = Success, NEW bytes \in Seq(Byte), NEW substate \in Nat,
         substate \in 1 .. 7 => CanCut((p.buf \o Pending(p)) \o bytes)
  PROVE  Reads(p, Took(p, bytes, substate), ch)
<1> DEFINE q == Took(p, bytes, substate)
<1>1. p.pos.offset + 1 \in Nat /\ p.pos.offset \in Nat
  BY DEF Parsers, Place3
<1>2. q = [[p EXCEPT !.pos = Along(p.pos, 1)] EXCEPT !.buf = (p.buf \o Pending(p)) \o bytes,
                     !.run = p.pos.offset + 1, !.substate = substate]
  BY FlushedType DEF Took, Advanced, Parsers
<1>3. q \in Parsers /\ q.pos = Along(p.pos, 1)
  BY TookType
<1>4. q.pos.offset = p.pos.offset + 1
  <2>1. Along(p.pos, 1).offset = p.pos.offset + 1
    BY <1>1, AlongType DEF Parsers
  <2> QED
    BY <1>3, <2>1
<1> HIDE DEF q
<1>5. /\ q.buf = (p.buf \o Pending(p)) \o bytes /\ q.run = p.pos.offset + 1 /\ q.substate = substate
      /\ q.errcode = Success /\ q.err_pos = p.err_pos
  BY <1>2 DEF Parsers
<1>6. Stays(p, q)
  BY <1>2, <1>5 DEF Parsers, Stays
<1> QED
  BY <1>3, <1>4, <1>5, <1>6 DEF Reads, MovesPast, SequenceKept, q

LEMMA AdvancedReads ==
  ASSUME NEW p \in Parsers, NEW ch, ch \notin LineEnds, p.errcode = Success,
         p.automaton \in StringAutomata => p.substate = 0
  PROVE  Reads(p, Advanced(p), ch)
<1>1. Advanced(p) = [p EXCEPT !.pos = Along(p.pos, 1)]
  BY DEF Advanced, Parsers
<1>2. Advanced(p) \in Parsers
  BY AdvancedType
<1>3. /\ Stays(p, Advanced(p)) /\ Advanced(p).pos = Along(p.pos, 1)
      /\ Advanced(p).run = p.run /\ Advanced(p).substate = p.substate
      /\ Advanced(p).automaton = p.automaton
  BY <1>1 DEF Parsers, Stays
<1> QED
  BY <1>2, <1>3 DEF Reads, MovesPast, SequenceKept

LEMMA ReplayedReads ==
  ASSUME NEW p \in Parsers, NEW ch, p.errcode = Success,
         NEW buf \in Seq(Byte), NEW substate \in Nat, substate \notin 1 .. 7
  PROVE  Reads(p, Replayed(p, buf, substate), ch)
BY DEF Reads, Stays, MovesPast, SequenceKept, Parsers, Replayed

(* The bytes that are put in and their ranges.                             *)
LEMMA fffdType == fffd \in Seq(Byte)
<1>1. 239 \in Byte /\ 191 \in Byte /\ 189 \in Byte
  BY DEF Byte
<1> QED
  BY <1>1 DEF fffd

LEMMA OneByte ==
  ASSUME NEW ch \in Byte
  PROVE  <<ch>> \in Seq(Byte)
OBVIOUS

LEMMA LeadingByteRange ==
  ASSUME NEW ch \in Byte
  PROVE  /\ LeadingByte(ch) \in 0 .. 7
         /\ LeadingByte(ch) # 0 => ch \notin Trailing /\ ch > 191
BY DEF LeadingByte, Trailing, Byte

LEMMA TrailingByteRange ==
  ASSUME NEW substate \in 1 .. 7, NEW ch \in Byte, TrailingByte(substate, ch) # Ill
  PROVE  TrailingByte(substate, ch) \in 0 .. 2 /\ ch \in Trailing
BY DEF TrailingByte, Trailing, Byte, Ill

(* A leading byte begins a sequence that can be cut, a trailing byte       *)
(* continues it.                                                           *)
LEMMA LeadingCuts ==
  ASSUME NEW buf \in Seq(Byte), NEW ch \in Byte, ch \notin Trailing
  PROVE  CanCut(buf \o <<ch>>)
<1>1. /\ buf \o <<ch>> \in Seq(Byte) /\ Len(buf \o <<ch>>) = Len(buf) + 1 /\ Len(buf) \in Nat
      /\ (buf \o <<ch>>)[Len(buf) + 1] = ch
  BY ConcatProperties, LenProperties
<1>2. Leads(buf \o <<ch>>, Len(buf))
  BY <1>1 DEF Leads
<1> QED
  BY <1>1, <1>2 DEF CanCut

LEMMA TrailingCuts ==
  ASSUME NEW buf \in Seq(Byte), NEW ch \in Byte, ch \in Trailing, CanCut(buf)
  PROVE  CanCut(buf \o <<ch>>)
<1> DEFINE b == buf \o <<ch>>
<1>1. /\ b \in Seq(Byte) /\ Len(b) = Len(buf) + 1 /\ Len(buf) \in Nat
      /\ b[Len(buf) + 1] = ch /\ \A k \in 1 .. Len(buf) : b[k] = buf[k]
  BY ConcatProperties, LenProperties
<1>2. PICK n \in 0 .. Len(buf) - 1 : Leads(buf, n)
  BY DEF CanCut
<1> HIDE DEF b
<1>3. n \in 0 .. Len(b) - 1 /\ b[n + 1] = buf[n + 1]
  BY <1>1, <1>2
<1>4. ASSUME NEW k \in n + 2 .. Len(b)
      PROVE  b[k] \in Trailing
  BY <1>1, <1>2, <1>4 DEF Leads
<1>5. Leads(b, n)
  BY <1>2, <1>3, <1>4 DEF Leads
<1> QED
  BY <1>3, <1>5 DEF CanCut, b

(* With nothing pending, the buffer is all there is of the string.         *)
LEMMA NothingPending ==
  ASSUME NEW p \in Parsers, text \in Seq(Byte), p.run = p.pos.offset
  PROVE  Pending(p) = <<>>
<1>1. p.pos.offset \in Nat
  BY DEF Parsers, Place3
<1> QED
  BY <1>1, SubSeqProperties, LenProperties DEF Pending

(* A turn in the string automaton, and what each of its parts does.        *)
StringInput(p, ch) ==
  /\ p \in Parsers /\ text \in Seq(Byte) /\ p.pos.offset <= Len(text)
  /\ p.errcode = Success /\ p.automaton \in StringAutomata /\ SequenceKept(p) /\ ch \in Byte

LEMMA RaisedReads ==
  ASSUME NEW p \in Parsers, NEW q \in Parsers, NEW ch, Reads(p, q, ch), NEW err \in ErrorNames
  PROVE  Reads(p, json_raise(q, err), ch) /\ Reads(p, json_raise_for_value(q, err), ch)
BY RaiseReads DEF json_raise, json_raise_for_value

LEMMA PlainReads ==
  ASSUME NEW p, NEW ch, StringInput(p, ch), p.substate = 0, ch # QuoteMark
  PROVE  Reads(p, PlainRead(p, ch), ch)
<1> USE DEF StringInput
<1>1. Reads(p, Flushed(p), ch) /\ Flushed(p) \in Parsers
  BY FlushedReads DEF Reads
<1>2. CASE ch \in {NewLine, Return}
  <2>1. PlainRead(p, ch) = json_raise_for_value(Flushed(p), "UNCLOSEDSTRING")
    BY <1>2 DEF PlainRead, CONTROL, NewLine, Return, BackSlash
  <2> QED
    BY <1>1, <2>1, RaisedReads DEF ErrorNames
<1>3. CASE ch \in CONTROL \ {NewLine, Return}
  <2>1. PlainRead(p, ch) = json_raise(Flushed(p), "UNESCAPEDCONTROL")
    <3>1. ch \notin {NewLine, Return} /\ ch # BackSlash /\ ch \in CONTROL
      BY <1>3 DEF CONTROL, BackSlash
    <3> QED
      BY <3>1 DEF PlainRead
  <2> QED
    BY <1>1, <2>1, RaisedReads DEF ErrorNames
<1>4. CASE ch \notin CONTROL
  <2>1. ch \notin LineEnds
    BY <1>4 DEF LineEnds, NewLine, Return, CONTROL
  <2>2. Reads(p, Advanced(p), ch)
    BY <2>1, AdvancedReads
  <2>3. Reads(p, Took(p, <<>>, EscapeBegun), ch)
    <3>1. <<>> \in Seq(Byte) /\ EscapeBegun \in Nat /\ EscapeBegun \notin 1 .. 7
      BY DEF EscapeBegun, BackSlash
    <3> QED
      BY <2>1, <3>1, TookReads
  <2>4. Reads(p, Took(p, fffd, 0), ch)
    BY <2>1, fffdType, TookReads
  <2>5. LeadingByte(ch) # 0 => Reads(p, Took(p, <<ch>>, LeadingByte(ch)), ch)
    <3>1. ASSUME LeadingByte(ch) # 0
          PROVE  CanCut((p.buf \o Pending(p)) \o <<ch>>)
      BY <3>1, LeadingByteRange, LeadingCuts, PendingType, ConcatProperties DEF Parsers
    <3>2. LeadingByte(ch) \in Nat /\ <<ch>> \in Seq(Byte)
      BY LeadingByteRange
    <3> QED
      BY <2>1, <3>1, <3>2, TookReads
  <2>6. Reads(p, json_raise(Flushed(p), "INVALIDUTF8"), ch)
    BY <1>1, RaisedReads DEF ErrorNames
  <2>7. ch \notin {NewLine, Return} /\ ch \notin CONTROL \ {NewLine, Return}
    BY <1>4, <2>1 DEF LineEnds
  <2> QED
    BY <1>4, <2>2, <2>3, <2>4, <2>5, <2>6, <2>7 DEF PlainRead
<1> QED
  BY <1>2, <1>3, <1>4

LEMMA TrailReads ==
  ASSUME NEW p, NEW ch, StringInput(p, ch), p.substate \in 1 .. 7
  PROVE  Reads(p, TrailRead(p, ch), ch)
<1> USE DEF StringInput
<1>1. CanCut(p.buf) /\ p.run = p.pos.offset /\ p.buf \in Seq(Byte)
  BY DEF SequenceKept, Parsers
<1>2. CASE TrailingByte(p.substate, ch) # Ill
  <2>1. TrailingByte(p.substate, ch) \in Nat /\ ch \in Trailing
    BY <1>2, TrailingByteRange
  <2>2. (p.buf \o Pending(p)) \o <<ch>> = p.buf \o <<ch>>
    BY <1>1, NothingPending, ConcatEmptySeq
  <2>3. CanCut((p.buf \o Pending(p)) \o <<ch>>)
    BY <1>1, <2>1, <2>2, TrailingCuts
  <2>4. ch \notin LineEnds
    BY <2>1 DEF LineEnds, Trailing, NewLine, Return
  <2>5. Reads(p, Took(p, <<ch>>, TrailingByte(p.substate, ch)), ch)
    BY <2>1, <2>3, <2>4, OneByte, TookReads
  <2> QED
    BY <1>2, <2>5 DEF TrailRead
<1>3. CASE TrailingByte(p.substate, ch) = Ill
  <2>1. CutBack(p.buf) \o fffd \in Seq(Byte)
    BY <1>1, CutBackType, fffdType, ConcatProperties
  <2>2. Reads(p, Replayed(p, CutBack(p.buf) \o fffd, 0), ch)
    <3>1. 0 \in Nat /\ 0 \notin 1 .. 7
      OBVIOUS
    <3> HIDE DEF StringInput
    <3>2. p \in Parsers /\ p.errcode = Success
      BY DEF StringInput
    <3> QED
      BY <2>1, <3>1, <3>2, ReplayedReads
  <2>3. Reads(p, json_raise(p, "INVALIDUTF8"), ch)
    <3>1. Reads(p, p, ch)
      BY SameReads
    <3> QED
      BY <3>1, RaisedReads DEF ErrorNames
  <2> QED
    BY <1>3, <2>2, <2>3 DEF TrailRead
<1> QED
  BY <1>2, <1>3

LEMMA EscapeReads ==
  ASSUME NEW p, NEW ch, StringInput(p, ch), p.substate = EscapeBegun
  PROVE  Reads(p, EscapeRead(p, ch), ch)
<1>0. /\ p \in Parsers /\ text \in Seq(Byte) /\ p.pos.offset <= Len(text) /\ p.errcode = Success
      /\ SequenceKept(p)
  BY DEF StringInput
<1>1. CASE ch = SmallU
  <2>1. <<>> \in Seq(Byte) /\ LongEscape + 4 \in Nat /\ LongEscape + 4 \notin 1 .. 7
    BY DEF LongEscape
  <2>2. ch \notin LineEnds
    BY <1>1 DEF LineEnds, SmallU, NewLine, Return
  <2>3. Reads(p, Took(p, <<>>, LongEscape + 4), ch)
    BY <1>0, <2>1, <2>2, TookReads
  <2>4. SmallU \notin DOMAIN Escapes
    BY DEF SmallU, Escapes
  <2> QED
    BY <1>1, <2>3, <2>4 DEF EscapeRead
<1>2. CASE ch # SmallU /\ ch \in DOMAIN Escapes
  <2>1. Escapes[ch] \in Byte /\ ch \notin LineEnds
    BY <1>2 DEF Escapes, Byte, LineEnds, NewLine, Return
  <2>2. 0 \in Nat /\ 0 \notin 1 .. 7 /\ <<Escapes[ch]>> \in Seq(Byte)
    BY <2>1
  <2>3. Reads(p, Took(p, <<Escapes[ch]>>, 0), ch)
    BY <1>0, <2>1, <2>2, TookReads
  <2> QED
    BY <1>2, <2>3 DEF EscapeRead
<1>3. CASE ch # SmallU /\ ch \notin DOMAIN Escapes
  <2>1. Reads(p, p, ch)
    BY <1>0, SameReads
  <2>2. EscapeRead(p, ch) = json_raise(p, "INVALIDESCAPE")
    BY <1>3 DEF EscapeRead
  <2> QED
    BY <1>0, <2>1, <2>2, RaisedReads DEF ErrorNames
<1> QED
  BY <1>1, <1>2, <1>3

(* The UTF-8 sequence of a codepoint is made of bytes. *)
LEMMA Utf8Type ==
  ASSUME NEW codepoint \in Nat
  PROVE  Utf8(codepoint) \in Seq(Byte)
<1> DEFINE trail(shift) == 128 + ((codepoint \div shift) % 64)
<1>1. \A shift \in Nat \ {0} : trail(shift) \in Byte
  BY DEF Byte
<1>2. trail(1) \in Byte /\ trail(64) \in Byte /\ trail(4096) \in Byte
  BY <1>1
<1>3. codepoint <= 127 => codepoint \in Byte
  BY DEF Byte
<1>4. /\ 192 + ((codepoint \div 64) % 32) \in Byte
      /\ 224 + ((codepoint \div 4096) % 16) \in Byte
      /\ 240 + ((codepoint \div 262144) % 8) \in Byte
  BY DEF Byte
<1> HIDE DEF trail
<1>5. /\ codepoint <= 127 => <<codepoint>> \in Seq(Byte)
      /\ <<192 + ((codepoint \div 64) % 32), trail(1)>> \in Seq(Byte)
      /\ <<224 + ((codepoint \div 4096) % 16), trail(64), trail(1)>> \in Seq(Byte)
      /\ <<240 + ((codepoint \div 262144) % 8), trail(4096), trail(64), trail(1)>> \in Seq(Byte)
  BY <1>2, <1>3, <1>4
<1> QED
  BY <1>5 DEF Utf8, trail

LEMMA IllSurrogateType ==
  ASSUME NEW p, NEW codepoint \in Nat
  PROVE  json_handle_ill_surrogate(p, codepoint) \in Seq(Byte)
<1>1. fffd \o fffd \o fffd \in Seq(Byte)
  BY fffdType, ConcatProperties
<1> QED
  BY <1>1, Utf8Type DEF json_handle_ill_surrogate

(* codepoint does not bear on what Reads says of a turn. *)
LEMMA CodepointReads ==
  ASSUME NEW p \in Parsers, NEW q \in Parsers, NEW ch, Reads(p, q, ch),
         NEW c \in ({0} \cup HI_SURROGATE) \X Nat
  PROVE  Reads(p, [q EXCEPT !.codepoint = c], ch)
<1> DEFINE r == [q EXCEPT !.codepoint = c]
<1>1. /\ r \in Parsers /\ r.errcode = q.errcode /\ r.err_pos = q.err_pos
      /\ r.pos = q.pos /\ r.value_pos = q.value_pos /\ r.run = q.run
      /\ r.nesting_stack = q.nesting_stack /\ r.state = q.state /\ r.automaton = q.automaton
      /\ r.value_counter = q.value_counter /\ r.last_cl_offset = q.last_cl_offset
      /\ r.substate = q.substate /\ r.buf = q.buf
  BY DEF Parsers
<1> HIDE DEF r
<1>2. Reads(p, r, ch)
  BY <1>1 DEF Reads, Stays, MovesPast, SequenceKept
<1> QED
  BY <1>2 DEF r

LEMMA HighSurrogateReads ==
  ASSUME NEW p, NEW ch, StringInput(p, ch), p.substate \notin 0 .. 7
  PROVE  Reads(p, HighSurrogateRead(p, ch), ch)
<1>0. /\ p \in Parsers /\ text \in Seq(Byte) /\ p.pos.offset <= Len(text) /\ p.errcode = Success
      /\ SequenceKept(p) /\ p.codepoint \in ({0} \cup HI_SURROGATE) \X Nat /\ p.buf \in Seq(Byte)
  BY DEF StringInput, Parsers
<1>1. /\ <<>> \in Seq(Byte) /\ LongEscape + 4 \in Nat /\ LongEscape + 4 \notin 1 .. 7
      /\ HighEscape \in Nat /\ HighEscape \notin 1 .. 7
      /\ EscapeBegun \in Nat /\ EscapeBegun \notin 1 .. 7
  BY DEF LongEscape, HighEscape, EscapeBegun, BackSlash
<1>2. CASE p.substate = HighRead /\ ch = BackSlash
  <2>1. ch \notin LineEnds
    BY <1>2 DEF LineEnds, BackSlash, NewLine, Return
  <2>2. Reads(p, Took(p, <<>>, HighEscape), ch)
    BY <1>0, <1>1, <2>1, TookReads
  <2>3. HighEscape # HighRead
    BY DEF HighEscape, HighRead, LongEscape
  <2> QED
    BY <1>2, <2>2, <2>3 DEF HighSurrogateRead
<1>3. CASE p.substate = HighEscape /\ ch = SmallU
  <2>1. ch \notin LineEnds
    BY <1>3 DEF LineEnds, SmallU, NewLine, Return
  <2>2. Reads(p, Took(p, <<>>, LongEscape + 4), ch)
    BY <1>0, <1>1, <2>1, TookReads
  <2>3. HighEscape # HighRead
    BY DEF HighEscape, HighRead, LongEscape
  <2> QED
    BY <1>3, <2>2, <2>3 DEF HighSurrogateRead
<1>4. CASE ~(p.substate = HighRead /\ ch = BackSlash) /\ ~(p.substate = HighEscape /\ ch = SmallU)
  <2> DEFINE buf == p.buf \o json_handle_ill_surrogate(p, p.codepoint[1])
             substate == IF p.substate = HighEscape THEN EscapeBegun ELSE 0
             q == Replayed(p, buf, substate)
  <2>1. HighSurrogateRead(p, ch) =
          IF SurrogateRefused(p) THEN json_raise(p, "INVALIDUTF8") ELSE [q EXCEPT !.codepoint[1] = 0]
    BY <1>4 DEF HighSurrogateRead
  <2>2. Reads(p, json_raise(p, "INVALIDUTF8"), ch)
    <3>1. Reads(p, p, ch)
      BY <1>0, SameReads
    <3> QED
      BY <1>0, <3>1, RaisedReads DEF ErrorNames
  <2>3. buf \in Seq(Byte)
    <3>1. p.codepoint[1] \in Nat
      <4>1. p.codepoint[1] \in {0} \cup HI_SURROGATE
        BY <1>0
      <4> QED
        <5>1. \A c \in HI_SURROGATE : c \in Nat
          BY DEF HI_SURROGATE
        <5> QED
          BY <4>1, <5>1
    <3> QED
      BY <1>0, <3>1, IllSurrogateType, ConcatProperties
  <2>4. substate \in Nat /\ substate \notin 1 .. 7
    BY <1>1
  <2> HIDE DEF buf, substate
  <2>5. Reads(p, q, ch) /\ q \in Parsers
    BY <1>0, <2>3, <2>4, ReplayedReads DEF Reads
  <2>6. q.codepoint = p.codepoint
    BY <1>0 DEF Replayed, Parsers
  <2> HIDE DEF q
  <2>7. [q EXCEPT !.codepoint[1] = 0] = [q EXCEPT !.codepoint = [q.codepoint EXCEPT ![1] = 0]]
    OBVIOUS
  <2>8. [q.codepoint EXCEPT ![1] = 0] \in ({0} \cup HI_SURROGATE) \X Nat
    BY <1>0, <2>6
  <2>9. Reads(p, [q EXCEPT !.codepoint = [q.codepoint EXCEPT ![1] = 0]], ch)
    BY <1>0, <2>5, <2>8, CodepointReads
  <2> QED
    BY <2>1, <2>2, <2>7, <2>9
<1> QED
  BY <1>2, <1>3, <1>4

(* The end of a \u escape. *)
LEMMA LongEscapeReads ==
  ASSUME NEW p, NEW ch, StringInput(p, ch), ch \notin LineEnds,
         NEW hi \in {0} \cup HI_SURROGATE, NEW codepoint \in Nat
  PROVE  Reads(p, LongEscapeRead(p, hi, codepoint), ch)
<1>0. /\ p \in Parsers /\ text \in Seq(Byte) /\ p.pos.offset <= Len(text) /\ p.errcode = Success
      /\ SequenceKept(p)
  BY DEF StringInput
<1> DEFINE orphan == hi # 0 /\ codepoint \notin LO_SURROGATE
           before == IF orphan THEN json_handle_ill_surrogate(p, hi) ELSE <<>>
           first  == IF orphan THEN 0 ELSE hi
           Done(bytes) == [Took(p, before \o bytes, 0) EXCEPT !.codepoint = <<first, 0>>]
<1>1. hi \in Nat /\ first \in {0} \cup HI_SURROGATE
  BY DEF HI_SURROGATE
<1>2. before \in Seq(Byte)
  BY <1>1, IllSurrogateType
<1>3. first # 0 => first >= 55296
  BY <1>1 DEF HI_SURROGATE
<1> HIDE DEF before, first
<1>4. ASSUME NEW bytes \in Seq(Byte)
      PROVE  Reads(p, Done(bytes), ch)
  <2>1. before \o bytes \in Seq(Byte) /\ 0 \in Nat /\ 0 \notin 1 .. 7
    BY <1>2, ConcatProperties
  <2>2. Reads(p, Took(p, before \o bytes, 0), ch) /\ Took(p, before \o bytes, 0) \in Parsers
    BY <1>0, <2>1, TookReads DEF Reads
  <2>3. <<first, 0>> \in ({0} \cup HI_SURROGATE) \X Nat
    BY <1>1
  <2> QED
    BY <1>0, <2>2, <2>3, CodepointReads
<1>5. Reads(p, json_raise(p, "INVALIDUTF8"), ch)
  <2>1. Reads(p, p, ch)
    BY <1>0, SameReads
  <2> QED
    BY <1>0, <2>1, RaisedReads DEF ErrorNames
<1>6. Reads(p, Done(json_handle_ill_surrogate(p, codepoint)), ch)
  BY <1>4, IllSurrogateType
<1>7. first # 0 /\ codepoint \in LO_SURROGATE =>
        Reads(p, Done(Utf8(65536 + (first - 55296) * 1024 + (codepoint - 56320))), ch)
  <2>1. ASSUME first # 0, codepoint \in LO_SURROGATE
        PROVE  65536 + (first - 55296) * 1024 + (codepoint - 56320) \in Nat
    <3>1. first \in Int /\ first >= 55296
      BY <1>1, <1>3, <2>1 DEF HI_SURROGATE
    <3>2. codepoint >= 56320
      BY <2>1 DEF LO_SURROGATE
    <3> QED
      BY <3>1, <3>2
  <2> QED
    BY <1>4, <2>1, Utf8Type
<1>8. codepoint \in HI_SURROGATE =>
        Reads(p, [Took(p, before, HighRead) EXCEPT !.codepoint = <<codepoint, 0>>], ch)
  <2>1. HighRead \in Nat /\ HighRead \notin 1 .. 7
    BY DEF HighRead, LongEscape
  <2>2. Reads(p, Took(p, before, HighRead), ch) /\ Took(p, before, HighRead) \in Parsers
    BY <1>0, <1>2, <2>1, TookReads DEF Reads
  <2>3. codepoint \in HI_SURROGATE => <<codepoint, 0>> \in ({0} \cup HI_SURROGATE) \X Nat
    OBVIOUS
  <2> QED
    BY <1>0, <2>2, <2>3, CodepointReads
<1>9. Reads(p, Done(Utf8(codepoint)), ch)
  BY <1>4, Utf8Type
<1> DEFINE refused == SurrogateRefused(p) /\ (orphan \/ (first = 0 /\ codepoint \in LO_SURROGATE))
           alone   == first = 0 /\ codepoint \in LO_SURROGATE /\ ~SurrogateRefused(p)
           paired  == first # 0 /\ codepoint \in LO_SURROGATE
           waits   == codepoint \in HI_SURROGATE /\ ~(orphan /\ SurrogateRefused(p))
<1>10. LongEscapeRead(p, hi, codepoint) =
         CASE refused -> json_raise(p, "INVALIDUTF8")
           [] alone -> Done(json_handle_ill_surrogate(p, codepoint))
           [] paired -> Done(Utf8(65536 + (first - 55296) * 1024 + (codepoint - 56320)))
           [] waits -> [Took(p, before, HighRead) EXCEPT !.codepoint = <<codepoint, 0>>]
           [] OTHER -> Done(Utf8(codepoint))
  BY DEF LongEscapeRead, before, first
<1>11. codepoint \in HI_SURROGATE => codepoint \notin LO_SURROGATE
  BY DEF HI_SURROGATE, LO_SURROGATE
<1>12. orphan => first = 0
  BY DEF first
<1> HIDE DEF Done
<1>13. CASE refused
  BY <1>5, <1>10, <1>11, <1>12, <1>13
<1>14. CASE alone
  BY <1>6, <1>10, <1>11, <1>12, <1>14
<1>15. CASE paired
  BY <1>7, <1>10, <1>11, <1>12, <1>15
<1>16. CASE waits
  BY <1>8, <1>10, <1>11, <1>12, <1>16
<1>17. CASE ~refused /\ ~alone /\ ~paired /\ ~waits
  BY <1>9, <1>10, <1>17
<1> QED
  BY <1>13, <1>14, <1>15, <1>16, <1>17

LEMMA HexReads ==
  ASSUME NEW p, NEW ch, StringInput(p, ch), p.substate > LongEscape
  PROVE  Reads(p, HexRead(p, ch), ch)
<1>0. /\ p \in Parsers /\ text \in Seq(Byte) /\ p.pos.offset <= Len(text) /\ p.errcode = Success
      /\ SequenceKept(p) /\ ch \in Byte /\ p.substate \in Nat
      /\ p.codepoint[1] \in {0} \cup HI_SURROGATE /\ p.codepoint[2] \in Nat
      /\ p.codepoint \in ({0} \cup HI_SURROGATE) \X Nat
  BY DEF StringInput, Parsers
<1>1. CASE ch \notin XDIGIT
  <2>1. Reads(p, p, ch)
    BY <1>0, SameReads
  <2>2. HexRead(p, ch) = json_raise(p, "INVALIDESCAPE")
    BY <1>1 DEF HexRead
  <2> QED
    BY <1>0, <2>1, <2>2, RaisedReads DEF ErrorNames
<1>2. CASE ch \in XDIGIT
  <2> DEFINE codepoint == p.codepoint[2] * 16 + json_resolve_xdigit(ch)
  <2>1. ch \notin LineEnds
    BY <1>2 DEF LineEnds, NewLine, Return, XDIGIT, DIGIT
  <2>2. json_resolve_xdigit(ch) \in Nat
    BY <1>2 DEF json_resolve_xdigit, XDIGIT, DIGIT
  <2>3. codepoint \in Nat
    BY <1>0, <2>2
  <2> HIDE DEF codepoint
  <2>4. HexRead(p, ch) =
          IF p.substate - 1 # LongEscape
            THEN [Took(p, <<>>, p.substate - 1) EXCEPT !.codepoint[2] = codepoint]
          ELSE LongEscapeRead(p, p.codepoint[1], codepoint)
    BY <1>2 DEF HexRead, codepoint
  <2>5. Reads(p, LongEscapeRead(p, p.codepoint[1], codepoint), ch)
    BY <1>0, <2>1, <2>3, LongEscapeReads
  <2> DEFINE q == Took(p, <<>>, p.substate - 1)
  <2>6. Reads(p, q, ch) /\ q \in Parsers
    <3>1. <<>> \in Seq(Byte) /\ p.substate - 1 \in Nat /\ p.substate - 1 \notin 1 .. 7
      BY <1>0 DEF LongEscape
    <3> QED
      BY <1>0, <2>1, <3>1, TookReads DEF Reads
  <2>7. q.codepoint = p.codepoint
    BY <1>0 DEF Took, Advanced, Parsers
  <2> HIDE DEF q
  <2>8. [q EXCEPT !.codepoint[2] = codepoint] = [q EXCEPT !.codepoint = [q.codepoint EXCEPT ![2] = codepoint]]
    OBVIOUS
  <2>9. [q.codepoint EXCEPT ![2] = codepoint] \in ({0} \cup HI_SURROGATE) \X Nat
    BY <1>0, <2>3, <2>7
  <2>10. Reads(p, [q EXCEPT !.codepoint = [q.codepoint EXCEPT ![2] = codepoint]], ch)
    BY <1>0, <2>6, <2>9, CodepointReads
  <2> QED
    BY <2>4, <2>5, <2>8, <2>10 DEF q
<1> QED
  BY <1>1, <1>2

(* The whole of the string automaton.                                      *)
LEMMA StringReads ==
  ASSUME NEW p, NEW ch, StringInput(p, ch), ~(p.substate = 0 /\ ch = QuoteMark)
  PROVE  Reads(p, StringRead(p, ch), ch)
<1>0. p.substate \in Nat
  BY DEF StringInput, Parsers
<1>1. EscapeBegun = 92 /\ LongEscape = 43981
  BY DEF EscapeBegun, BackSlash, LongEscape
<1>2. CASE p.substate = 0
  BY <1>1, <1>2, PlainReads DEF StringRead
<1>3. CASE p.substate \in 1 .. 7
  BY <1>1, <1>3, TrailReads DEF StringRead
<1>4. CASE p.substate = EscapeBegun
  BY <1>1, <1>4, EscapeReads DEF StringRead
<1>5. CASE p.substate > LongEscape
  BY <1>0, <1>1, <1>5, HexReads DEF StringRead
<1>6. CASE p.substate \notin 0 .. 7 /\ p.substate # EscapeBegun /\ ~(p.substate > LongEscape)
  BY <1>0, <1>1, <1>6, HighSurrogateReads DEF StringRead
<1> QED
  BY <1>0, <1>2, <1>3, <1>4, <1>5, <1>6

-----------------------------------------------------------------------------
(* The callback and the main automaton *)

(* All but the position and last_cl_offset. *)
SameButPlace(p, q) ==
  /\ q.value_pos = p.value_pos /\ q.err_pos = p.err_pos
  /\ q.errcode = p.errcode /\ q.value_counter = p.value_counter
  /\ q.nesting_stack = p.nesting_stack /\ q.automaton = p.automaton
  /\ q.state = p.state /\ q.substate = p.substate
  /\ q.buf = p.buf /\ q.run = p.run

(* The parser behind one more byte.                                        *)
LEMMA PassedType ==
  ASSUME NEW q \in Parsers, NEW ch \in Byte
  PROVE  LET r == json_handle_new_line(Advanced(q), ch)
         IN  r \in Parsers /\ r.pos.offset = q.pos.offset + 1 /\ SameButPlace(q, r)
<1> DEFINE a == Advanced(q)
<1>1. a \in Parsers /\ a.pos.offset = q.pos.offset + 1
  BY AdvancedType
<1>2. a = [q EXCEPT !.pos = Along(q.pos, 1)]
  BY DEF Advanced, Parsers
<1>3. SameButPlace(q, a)
  BY <1>2 DEF Parsers, SameButPlace
<1> HIDE DEF a
<1> DEFINE r == json_handle_new_line(a, ch)
<1>4. r \in Parsers /\ r.pos.offset = a.pos.offset
  BY <1>1, NewLineType
<1>5. SameButPlace(a, r)
  <2>1. CASE ch = Return
    <3>1. r = [a EXCEPT !.pos = Below(a.pos, 1), !.last_cl_offset = a.pos.offset]
      BY <2>1 DEF json_handle_new_line, Return, NewLine, Parsers
    <3> QED
      BY <1>1, <3>1 DEF Parsers, SameButPlace
  <2>2. CASE ch = NewLine
    <3> DEFINE n == IF a.pos.offset = a.last_cl_offset + 1 THEN 0 ELSE 1
    <3>1. r = [a EXCEPT !.pos = Below(a.pos, n)]
      BY <2>2 DEF json_handle_new_line, Return, NewLine
    <3> HIDE DEF n
    <3> QED
      BY <1>1, <3>1 DEF Parsers, SameButPlace
  <2>3. CASE ch \notin {Return, NewLine}
    BY <2>3 DEF json_handle_new_line, SameButPlace
  <2> QED
    BY <2>1, <2>2, <2>3
<1> HIDE DEF r
<1>6. r \in Parsers /\ r.pos.offset = q.pos.offset + 1 /\ SameButPlace(q, r)
  BY <1>1, <1>3, <1>4, <1>5 DEF SameButPlace
<1> QED
  BY <1>6 DEF a, r

LEMMA PastType ==
  ASSUME NEW q \in Parsers, Ch \in Byte
  PROVE  Past(q) \in Parsers /\ Past(q).pos.offset = q.pos.offset + 1 /\ SameButPlace(q, Past(q))
BY PassedType DEF Past

(* The parser behind all the bytes of a chunk that is too long: an         *)
(* induction over its length.                                              *)
LEMMA MovedType ==
  ASSUME NEW p \in Parsers, NEW chunk \in Seq(Byte), chunk # <<>>
  PROVE  /\ Moved(p, chunk) \in Parsers /\ SameButPlace(p, Moved(p, chunk))
         /\ Moved(p, chunk).pos.offset = p.pos.offset + Len(chunk) - 1
<1> DEFINE N == Len(chunk) - 1
<1>1. N \in Nat /\ Len(chunk) \in Nat \ {0}
  BY EmptySeq
<1>2. PICK m : MovesBy(p, chunk, N, m) /\ Moved(p, chunk) = m[N]
  BY <1>1, MovedIsLast
<1> DEFINE Good(n) == /\ m[n] \in Parsers /\ SameButPlace(p, m[n])
                      /\ m[n].pos.offset = p.pos.offset + n
           Bad == {n \in 0 .. N : ~ Good(n)}
<1>3. p.pos.offset \in Nat
  BY DEF Parsers, Place3
<1>4. ASSUME Bad # {} PROVE FALSE
  <2>0. Bad \subseteq Nat
    BY <1>1
  <2>1. PICK n \in Bad : \A k \in Bad : n <= k
    <3> HIDE DEF Bad
    <3> QED
      BY <1>4, <2>0, LeastNumber
  <2>2. n \in 0 .. N /\ ~ Good(n)
    OBVIOUS
  <2>3. m[n] = IF n = 0 THEN p ELSE json_handle_new_line(Advanced(m[n - 1]), chunk[n + 1])
    BY <1>2, <2>2 DEF MovesBy
  <2>4. n # 0
    BY <1>3, <2>2, <2>3 DEF SameButPlace
  <2>5. n - 1 \in 0 .. N /\ Good(n - 1)
    BY <1>1, <2>1, <2>2, <2>4
  <2>6. chunk[n + 1] \in Byte
    BY <1>1, <2>2, ElementOfSeq
  <2>7. m[n - 1] \in Parsers /\ SameButPlace(p, m[n - 1]) /\ m[n - 1].pos.offset = p.pos.offset + (n - 1)
    BY <2>5
  <2>8. m[n] \in Parsers /\ m[n].pos.offset = m[n - 1].pos.offset + 1 /\ SameButPlace(m[n - 1], m[n])
    BY <2>3, <2>4, <2>6, <2>7, PassedType
  <2>9. Good(n)
    BY <1>3, <2>2, <2>7, <2>8 DEF SameButPlace
  <2> QED
    BY <2>2, <2>9
<1>5. Good(N)
  BY <1>1, <1>4
<1> QED
  BY <1>1, <1>2, <1>3, <1>5

(* What json_switch_automaton() sets.                                      *)
LEMMA SwitchType ==
  ASSUME NEW p \in Parsers, NEW automaton \in Automata
  PROVE  LET q == json_switch_automaton(p, automaton)
         IN  /\ q \in Parsers /\ q.pos = p.pos /\ q.value_pos = p.pos /\ q.err_pos = p.err_pos
             /\ q.errcode = p.errcode /\ q.value_counter = p.value_counter
             /\ q.nesting_stack = p.nesting_stack /\ q.automaton = automaton
             /\ q.state = p.state /\ q.substate = 0 /\ q.buf = <<>> /\ q.run = p.pos.offset
             /\ q.last_cl_offset = p.last_cl_offset
<1> DEFINE zero == 0
           o == p.pos.offset
           q == [p EXCEPT !.value_pos = p.pos, !.automaton = automaton, !.substate = zero,
                          !.can_see = {}, !.buf = <<>>, !.run = o]
<1>1. o \in Nat /\ zero \in Nat /\ <<>> \in Seq(Byte) /\ {} \in SUBSET NumberParts
  BY DEF Parsers, Place3
<1>2. json_switch_automaton(p, automaton) = q
  BY DEF json_switch_automaton
<1> HIDE DEF o, zero
<1>3. /\ q.pos = p.pos /\ q.value_pos = p.pos /\ q.err_pos = p.err_pos
      /\ q.errcode = p.errcode /\ q.value_counter = p.value_counter
      /\ q.nesting_stack = p.nesting_stack /\ q.automaton = automaton
      /\ q.state = p.state /\ q.substate = zero /\ q.buf = <<>> /\ q.run = o
      /\ q.last_cl_offset = p.last_cl_offset
  BY DEF Parsers
<1>4. q \in Parsers
  BY <1>1 DEF Parsers
<1> QED
  BY <1>2, <1>3, <1>4 DEF o, zero

LEMMA StateAfterType ==
  ASSUME NEW p, NEW type
  PROVE  StateAfter(p, type) \in States
BY DEF StateAfter, States

(* The callback was not called, or it was. *)
Rejected(p, q, type) ==
  /\ Refusal(p, type) # Success /\ type \notin Closers
  /\ q.errcode = Refusal(p, type) /\ q.errcode \in {"BADROOTTYPE", "MAXTOTALVALUES"}
  /\ q.err_pos = p.value_pos /\ q.value_pos = p.value_pos /\ q.run = p.run
  /\ q.automaton = p.automaton /\ q.state = p.state /\ q.value_counter = p.value_counter
  /\ UNCHANGED events

Accepted(p, q, type, data) ==
  /\ q.errcode \in Rets
  /\ q.err_pos = p.err_pos /\ q.value_pos = p.pos /\ q.run = p.pos.offset
  /\ q.automaton = "MAIN" /\ q.state = StateAfter(p, type)
  /\ q.value_counter = p.value_counter + IF type \in Closers THEN 0 ELSE 1
  /\ events' = Append(events, [type |-> type, data |-> data])

(* json_process() either calls the callback and goes back to the main      *)
(* automaton or raises an error that belongs to the value, and then goes   *)
(* past the byte if the byte belongs to the event.                         *)
LEMMA ProcessEffect ==
  ASSUME NEW p \in Parsers, p.errcode = Success, NEW type, NEW data, NEW past \in BOOLEAN,
         json_process(p, type, data, past)
  PROVE  \E q \in Parsers :
           /\ parser' = IF past THEN Past(q) ELSE q
           /\ q.pos = p.pos /\ q.nesting_stack = p.nesting_stack
           /\ q.last_cl_offset = p.last_cl_offset
           /\ Rejected(p, q, type) \/ Accepted(p, q, type, data)
<1>1. CASE Refusal(p, type) # Success
  <2> DEFINE q == json_raise_for_value(p, Refusal(p, type))
  <2>1. /\ parser' = IF past THEN Past(q) ELSE q
        /\ UNCHANGED events
    BY <1>1 DEF json_process
  <2>2. Refusal(p, type) \in {"BADROOTTYPE", "MAXTOTALVALUES"} /\ type \notin Closers
    BY <1>1 DEF Refusal
  <2>3. Refusal(p, type) \in ErrorNames
    BY <2>2 DEF ErrorNames
  <2>4. q = [p EXCEPT !.errcode = Refusal(p, type), !.err_pos = p.value_pos]
    BY DEF json_raise_for_value, json_raise_
  <2> HIDE DEF q
  <2>5. /\ q \in Parsers /\ q.pos = p.pos /\ q.nesting_stack = p.nesting_stack
        /\ q.last_cl_offset = p.last_cl_offset /\ q.errcode = Refusal(p, type)
        /\ q.err_pos = p.value_pos /\ q.value_pos = p.value_pos /\ q.run = p.run
        /\ q.automaton = p.automaton /\ q.state = p.state /\ q.value_counter = p.value_counter
    BY <2>3, <2>4 DEF Parsers
  <2> QED
    BY <1>1, <2>1, <2>2, <2>5 DEF Rejected
<1>2. CASE Refusal(p, type) = Success
  <2> DEFINE n == IF type \in Closers THEN 0 ELSE 1
             Called(ret) == [p EXCEPT !.errcode = ret, !.state = StateAfter(p, type), !.value_counter = @ + n]
             q(ret) == json_switch_automaton(Called(ret), "MAIN")
  <2>1. /\ events' = Append(events, [type |-> type, data |-> data])
        /\ \E ret \in Rets : parser' = IF past THEN Past(q(ret)) ELSE q(ret)
    BY <1>2 DEF json_process
  <2>2. PICK ret \in Rets : parser' = IF past THEN Past(q(ret)) ELSE q(ret)
    BY <2>1
  <2>3. n \in {0, 1}
    OBVIOUS
  <2>4. p.value_counter + n \in Nat
    BY <2>3 DEF Parsers
  <2>5. StateAfter(p, type) \in States
    BY StateAfterType
  <2> DEFINE c == p.value_counter + n
             s == StateAfter(p, type)
  <2>6. Called(ret) = [p EXCEPT !.errcode = ret, !.state = s, !.value_counter = c]
    BY DEF Parsers
  <2> HIDE DEF c, s, n, Called
  <2>7. /\ Called(ret) \in Parsers /\ Called(ret).pos = p.pos /\ Called(ret).errcode = ret
        /\ Called(ret).nesting_stack = p.nesting_stack /\ Called(ret).state = s
        /\ Called(ret).value_counter = c /\ Called(ret).last_cl_offset = p.last_cl_offset
        /\ Called(ret).err_pos = p.err_pos
    BY <2>4, <2>5, <2>6 DEF Parsers, c, s
  <2>8. "MAIN" \in Automata
    BY DEF Automata
  <2>9. /\ q(ret) \in Parsers /\ q(ret).pos = p.pos /\ q(ret).errcode = ret
        /\ q(ret).nesting_stack = p.nesting_stack /\ q(ret).state = s
        /\ q(ret).value_counter = c /\ q(ret).last_cl_offset = p.last_cl_offset
        /\ q(ret).err_pos = p.err_pos /\ q(ret).value_pos = p.pos /\ q(ret).run = p.pos.offset
        /\ q(ret).automaton = "MAIN"
    BY <2>7, <2>8, SwitchType
  <2>10. Accepted(p, q(ret), type, data)
    BY <2>1, <2>9 DEF Accepted, c, s, n
  <2> HIDE DEF q
  <2> QED
    BY <2>2, <2>9, <2>10
<1> QED
  BY <1>1, <1>2

-----------------------------------------------------------------------------
(* The inductive invariant *)

(* The types, the position never behind the bytes that were fed, and an    *)
(* open UTF-8 sequence always in the buffer with its leading byte, so that *)
(* it can be taken back.                                                   *)
TypeOK ==
  /\ config \in Configs /\ text \in Seq(Byte) /\ feeding \in BOOLEAN /\ finished \in BOOLEAN
  /\ events \in Seq(Events) /\ parser \in Parsers
  /\ parser.pos.offset <= Len(text) /\ parser.value_pos.offset <= Len(text)
  /\ parser.run <= Len(text)
  /\ SequenceKept(parser)

(* The innermost open container; the last event is a key.                  *)
Inside(p, closer) ==
  p.nesting_stack # <<>> /\ p.nesting_stack[Len(p.nesting_stack)] = closer

Keyed == events # <<>> /\ events[Len(events)].type = "KEY"

(* What the main automaton may see next, the innermost open container and  *)
(* the last event belong together.                                         *)
StateFits(p) ==
  \/ p.state = {"VALUE"} /\ p.nesting_stack = <<>> /\ events = <<>>
  \/ p.state = {"VALUE"} /\ p.nesting_stack # <<>> /\ (Inside(p, CloseObject) <=> Keyed)
  \/ p.state = {"VALUE", "CLOSER"} /\ Inside(p, CloseArray) /\ ~Keyed
  \/ p.state \in {{"KEY"}, {"KEY", "CLOSER"}} /\ Inside(p, CloseObject) /\ ~Keyed
  \/ p.state = {"COLON"} /\ Inside(p, CloseObject) /\ Keyed
  \/ p.state = {"COMMA", "CLOSER"} /\ p.nesting_stack # <<>> /\ ~Keyed
  \/ p.state = {"EOF"} /\ p.nesting_stack = <<>> /\ ~Keyed

(* A value or a key is read only where the main automaton saw one.         *)
AutomatonFits(p) ==
  /\ p.automaton \in DOMAIN Literals \cup {"NUMBER", "STRING"} => "VALUE" \in p.state
  /\ p.automaton = "KEY" => "KEY" \in p.state

(* While there is no error, the stack is as deep as the events are, and    *)
(* the rest fits.                                                          *)
Fits(p) == Depth = Len(p.nesting_stack) /\ StateFits(p) /\ AutomatonFits(p)

Control == parser.errcode = Success => Fits(parser)

IInv == TypeOK /\ Control

-----------------------------------------------------------------------------
(* What a call of the callback does to the events *)

(* The events of some types, and what one more event does to the depth and *)
(* to the state of JsonEvents.                                             *)
Of(evs, T) == {k \in DOMAIN evs : evs[k].type \in T}

LEMMA IntervalFinite ==
  ASSUME NEW n \in Nat
  PROVE  IsFiniteSet(1 .. n)
BY FS_Interval

(* One more event of those types, or of others.                            *)
LEMMA CountAppend ==
  ASSUME NEW evs \in Seq(Events), NEW e \in Events, NEW T
  PROVE  /\ Cardinality(Of(evs, T)) \in Nat
         /\ e.type \in T => Cardinality(Of(Append(evs, e), T)) = Cardinality(Of(evs, T)) + 1
         /\ e.type \notin T => Cardinality(Of(Append(evs, e), T)) = Cardinality(Of(evs, T))
<1> DEFINE N == Len(evs)
           old == Of(evs, T)
           new == Of(Append(evs, e), T)
<1>1. /\ N \in Nat /\ DOMAIN evs = 1 .. N /\ DOMAIN Append(evs, e) = 1 .. N + 1
      /\ \A k \in 1 .. N : Append(evs, e)[k] = evs[k]
      /\ Append(evs, e)[N + 1] = e
  BY AppendProperties, LenProperties
<1>2. \A k : k \in new <=> k \in 1 .. N + 1 /\ Append(evs, e)[k].type \in T
  BY <1>1 DEF Of
<1>3. \A k : k \in old <=> k \in 1 .. N /\ evs[k].type \in T
  BY <1>1 DEF Of
<1>4. IsFiniteSet(old) /\ N + 1 \notin old
  <2>1. IsFiniteSet(1 .. N)
    BY <1>1, IntervalFinite
  <2>2. old \subseteq 1 .. N
    BY <1>3
  <2> QED
    BY <1>1, <2>1, <2>2, FS_Subset
<1> HIDE DEF old, new
<1>5. ASSUME e.type \in T
      PROVE  new = old \cup {N + 1}
  BY <1>1, <1>2, <1>3, <1>5
<1>6. ASSUME e.type \notin T
      PROVE  new = old
  <2>1. ASSUME NEW k
        PROVE  k \in new <=> k \in old
    <3>1. CASE k = N + 1
      BY <1>1, <1>2, <1>4, <1>6, <3>1
    <3>2. CASE k # N + 1
      BY <1>1, <1>2, <1>3, <3>2
    <3> QED
      BY <3>1, <3>2
  <2> QED
    BY <2>1
<1>7. Cardinality(old) \in Nat /\ Cardinality(old \cup {N + 1}) = Cardinality(old) + 1
  BY <1>4, FS_CardinalityType, FS_AddElement
<1> QED
  BY <1>5, <1>6, <1>7 DEF old, new

(* A beginning adds one to the depth, an end takes one.                    *)
LEMMA DepthAppend ==
  ASSUME TypeOK, NEW e \in Events, events' = Append(events, e)
  PROVE  /\ Depth \in Int
         /\ e.type \in Containers => Depth' = Depth + 1
         /\ e.type \in Closers => Depth' = Depth - 1
         /\ e.type \notin Containers \cup Closers => Depth' = Depth
<1> DEFINE count(T) == Cardinality(Of(events, T))
           after(T) == Cardinality(Of(Append(events, e), T))
<1>1. events \in Seq(Events)
  BY DEF TypeOK
<1>2. /\ count(Containers) \in Nat
      /\ e.type \in Containers => after(Containers) = count(Containers) + 1
      /\ e.type \notin Containers => after(Containers) = count(Containers)
  BY <1>1, CountAppend
<1>3. /\ count(Closers) \in Nat
      /\ e.type \in Closers => after(Closers) = count(Closers) + 1
      /\ e.type \notin Closers => after(Closers) = count(Closers)
  BY <1>1, CountAppend
<1>4. Depth = count(Containers) - count(Closers)
  BY DEF Depth, Of, Containers
<1>5. Depth' = after(Containers) - after(Closers)
  BY DEF Depth, Of, Containers, Closers
<1>6. Containers \cap Closers = {}
  BY DEF Containers, Closers
<1> HIDE DEF count, after
<1> QED
  BY <1>2, <1>3, <1>4, <1>5, <1>6

Types == [k \in DOMAIN events |-> events[k].type]

(* The events grow by one at the end, and the key is open behind a key     *)
(* only.                                                                   *)
LEMMA TypesAppend ==
  ASSUME TypeOK, NEW e \in Events, events' = Append(events, e)
  PROVE  /\ Types' = Append(Types, e.type)
         /\ Keyed' <=> e.type = "KEY"
         /\ events' # <<>>
<1>1. /\ events \in Seq(Events) /\ Len(events) \in Nat /\ DOMAIN events = 1 .. Len(events)
      /\ events' \in Seq(Events) /\ Len(events') = Len(events) + 1 /\ DOMAIN events' = 1 .. Len(events')
      /\ \A k \in 1 .. Len(events) : events'[k] = events[k]
      /\ events'[Len(events) + 1] = e
  BY AppendProperties, LenProperties DEF TypeOK
<1>2. Types \in Seq(EventTypes) /\ Len(Types) = Len(events)
  <2>0. \A k \in 1 .. Len(events) : events[k] \in Events
    BY <1>1, ElementOfSeq
  <2>1. \A k \in 1 .. Len(events) : events[k].type \in EventTypes
    BY <2>0 DEF Events
  <2> QED
    BY <1>1, <2>1 DEF Types
<1>3. e.type \in EventTypes
  BY DEF Events
<1> DEFINE after == Append(Types, e.type)
<1>4. /\ after \in Seq(EventTypes) /\ Len(after) = Len(events) + 1
      /\ \A k \in 1 .. Len(events) : after[k] = Types[k]
      /\ after[Len(events) + 1] = e.type
  BY <1>2, <1>3, AppendProperties
<1>5. Types' \in Seq(EventTypes) /\ Len(Types') = Len(events) + 1
  <2>0. \A k \in 1 .. Len(events') : events'[k] \in Events
    BY <1>1, ElementOfSeq
  <2>1. \A k \in 1 .. Len(events') : events'[k].type \in EventTypes
    BY <2>0 DEF Events
  <2> QED
    BY <1>1, <2>1 DEF Types
<1>6. \A k \in 1 .. Len(events) + 1 : Types'[k] = after[k]
  <2> HIDE DEF after
  <2>1. \A k \in 1 .. Len(events) : Types'[k] = events[k].type /\ Types[k] = events[k].type
    BY <1>1 DEF Types
  <2>2. Types'[Len(events) + 1] = e.type
    BY <1>1 DEF Types
  <2> QED
    BY <1>1, <1>4, <2>1, <2>2
<1>7. Types' = after
  <2> HIDE DEF after
  <2> QED
    BY <1>1, <1>4, <1>5, <1>6, SeqEqual
<1>8. events' # <<>>
  BY <1>1
<1>9. Keyed' <=> e.type = "KEY"
  BY <1>1, <1>8 DEF Keyed
<1> QED
  BY <1>7, <1>8, <1>9

-----------------------------------------------------------------------------
(* The event stream of JsonEvents *)

(* The state of JsonEvents that the parser stands for: the container a     *)
(* closing byte belongs to, and the open containers.                       *)
Kind(closer) == IF closer = CloseArray THEN "ARRAY" ELSE "OBJECT"
Open == [k \in 1 .. Depth |-> Kind(parser.nesting_stack[k])]

(* The state of JsonEvents that the parser stands for.                     *)
LEMMA StreamMeans ==
  /\ Stream!vars = <<Types, Open, Keyed>>
  /\ Stream!Init <=> Types = <<>> /\ Open = <<>> /\ Keyed = FALSE
BY DEF Stream!vars, Stream!Init, Types, Open, Keyed, Kind

(* No event and the same stack below: JsonEvents stutters.                 *)
LEMMA QuietStream ==
  ASSUME UNCHANGED events,
         \A k \in 1 .. Depth : parser'.nesting_stack[k] = parser.nesting_stack[k]
  PROVE  UNCHANGED Stream!vars
<1>1. Depth' = Depth /\ Types' = Types /\ Keyed' = Keyed
  BY DEF Depth, Types, Keyed
<1>2. Open' = Open
  BY <1>1 DEF Open
<1> QED
  BY <1>1, <1>2 DEF Stream!vars, Types, Open, Keyed, Kind

(* While there is no error, "open" is the stack. *)
LEMMA OpenIsStack ==
  ASSUME TypeOK, Fits(parser)
  PROVE  LET stack == parser.nesting_stack
         IN  /\ stack \in Seq({CloseArray, CloseObject}) /\ Len(stack) \in Nat /\ Depth = Len(stack)
             /\ Open = [k \in 1 .. Len(stack) |-> Kind(stack[k])]
             /\ Open \in Seq({"ARRAY", "OBJECT"}) /\ Len(Open) = Len(stack)
             /\ Open = <<>> <=> stack = <<>>
             /\ stack # <<>> => Open[Len(Open)] = Kind(stack[Len(stack)])
<1>1. parser.nesting_stack \in Seq({CloseArray, CloseObject})
  BY DEF TypeOK, Parsers
<1>2. Depth = Len(parser.nesting_stack) /\ Len(parser.nesting_stack) \in Nat
  BY <1>1, LenProperties DEF Fits
<1>3. Open \in Seq({"ARRAY", "OBJECT"}) /\ Len(Open) = Len(parser.nesting_stack)
  BY <1>2 DEF Open, Kind
<1>4. Open = <<>> <=> parser.nesting_stack = <<>>
  BY <1>1, <1>3, EmptySeq
<1>5. parser.nesting_stack # <<>> => Len(parser.nesting_stack) \in 1 .. Len(parser.nesting_stack)
  BY <1>1, <1>2, EmptySeq
<1> QED
  BY <1>1, <1>2, <1>3, <1>4, <1>5 DEF Open

(* Where the main automaton may see a value, JsonEvents may take one.      *)
LEMMA ValueWelcome ==
  ASSUME TypeOK, Fits(parser), "VALUE" \in parser.state
  PROVE  Stream!MayTakeValue
<1>1. StateFits(parser)
  BY DEF Fits
<1>2. ASSUME parser.nesting_stack = <<>> PROVE events = <<>>
  BY <1>1, <1>2 DEF StateFits, Inside
<1>3. ASSUME parser.nesting_stack # <<>>, parser.nesting_stack[Len(parser.nesting_stack)] = CloseObject
      PROVE  Keyed
  BY <1>1, <1>3 DEF StateFits, Inside, CloseArray, CloseObject
<1>4. ASSUME parser.nesting_stack # <<>>, Kind(parser.nesting_stack[Len(parser.nesting_stack)]) = "OBJECT"
      PROVE  Keyed
  <2>1. parser.nesting_stack[Len(parser.nesting_stack)] \in {CloseArray, CloseObject}
    BY <1>4, OpenIsStack, EmptySeq, ElementOfSeq
  <2> QED
    BY <1>3, <1>4, <2>1 DEF Kind
<1>5. events = <<>> => Types = <<>>
  BY DEF Types
<1>6. /\ Open = <<>> <=> parser.nesting_stack = <<>>
      /\ parser.nesting_stack # <<>> => Open[Len(Open)] = Kind(parser.nesting_stack[Len(parser.nesting_stack)])
  BY OpenIsStack
<1>7. IF Open = <<>> THEN Types = <<>> ELSE Open # <<>> /\ Open[Len(Open)] = "OBJECT" => Keyed
  BY <1>2, <1>4, <1>5, <1>6
<1> QED
  BY <1>7 DEF Stream!MayTakeValue, Stream!InObject, Open, Kind, Types, Keyed

Scalars == DOMAIN Literals \cup {"NUMBER", "STRING"}

(* Each kind of event is a step of JsonEvents and leaves a state that      *)
(* fits: a scalar,                                                         *)
LEMMA ScalarReported ==
  ASSUME TypeOK, Fits(parser), "VALUE" \in parser.state,
         NEW type \in Scalars, NEW data \in Seq(Byte),
         events' = Append(events, [type |-> type, data |-> data]),
         parser'.nesting_stack = parser.nesting_stack, parser'.automaton = "MAIN",
         parser'.state = StateAfter(parser, type)
  PROVE  Fits(parser)' /\ Stream!Next
<1> DEFINE e == [type |-> type, data |-> data]
<1>1. type \in {"NULL", "FALSE", "TRUE", "NUMBER", "STRING"} /\ type \in EventTypes
  BY DEF Scalars, Literals, EventTypes
<1>2. e \in Events /\ e.type = type
  BY <1>1 DEF Events
<1> HIDE DEF e
<1>3. events' = Append(events, e)
  BY DEF e
<1>4. Types' = Append(Types, type) /\ ~Keyed' /\ events' # <<>>
  BY <1>1, <1>2, <1>3, TypesAppend
<1>5. Depth' = Depth
  <2>1. type \notin Containers \cup Closers
    BY <1>1 DEF Containers, Closers
  <2> QED
    BY <1>2, <1>3, <2>1, DepthAppend
<1>6. Open' = Open
  BY <1>5 DEF Open
<1>7. Stream!Scalar
  <2>1. Stream!MayTakeValue
    BY ValueWelcome
  <2>2. type \in Stream!ScalarTypes
    BY <1>1 DEF Stream!ScalarTypes
  <2>3. Stream!Emit(type)
    BY <1>4 DEF Stream!Emit, Types
  <2>4. Keyed' = FALSE
    BY <1>4 DEF Keyed
  <2> QED
    BY <1>6, <2>1, <2>2, <2>3, <2>4 DEF Stream!Scalar, Open, Kind, Keyed
<1>8. parser'.state = IF parser.nesting_stack # <<>> THEN {"COMMA", "CLOSER"} ELSE {"EOF"}
  BY <1>1 DEF StateAfter
<1>9. StateFits(parser)' /\ AutomatonFits(parser)'
  <2>1. AutomatonFits(parser)'
    BY DEF AutomatonFits, Literals
  <2>2. StateFits(parser)'
    BY <1>4, <1>8 DEF StateFits
  <2> QED
    BY <2>1, <2>2
<1> QED
  BY <1>5, <1>7, <1>9 DEF Fits, Stream!Next

(* a key,                                                                  *)
LEMMA KeyReported ==
  ASSUME TypeOK, Fits(parser), "KEY" \in parser.state, NEW data \in Seq(Byte),
         events' = Append(events, [type |-> "KEY", data |-> data]),
         parser'.nesting_stack = parser.nesting_stack, parser'.automaton = "MAIN",
         parser'.state = StateAfter(parser, "KEY")
  PROVE  Fits(parser)' /\ Stream!Next
<1> DEFINE e == [type |-> "KEY", data |-> data]
<1>1. e \in Events /\ e.type = "KEY"
  BY DEF Events, EventTypes
<1> HIDE DEF e
<1>2. events' = Append(events, e)
  BY DEF e
<1>3. Types' = Append(Types, "KEY") /\ Keyed'
  BY <1>1, <1>2, TypesAppend
<1>4. Depth' = Depth
  <2>1. "KEY" \notin Containers \cup Closers
    BY DEF Containers, Closers
  <2> QED
    BY <1>1, <1>2, <2>1, DepthAppend
<1>5. Inside(parser, CloseObject) /\ ~Keyed
  BY DEF Fits, StateFits
<1>6. Stream!Key
  <2>1. Open # <<>> /\ Open[Len(Open)] = "OBJECT"
    BY <1>5, OpenIsStack DEF Inside, Kind, CloseObject, CloseArray
  <2>2. Stream!Emit("KEY")
    BY <1>3 DEF Stream!Emit, Types
  <2>3. Keyed' = TRUE
    BY <1>3 DEF Keyed
  <2>4. Open' = Open
    BY <1>4 DEF Open
  <2> QED
    BY <1>5, <2>1, <2>2, <2>3, <2>4 DEF Stream!Key, Stream!InObject, Open, Kind, Keyed
<1>7. parser'.state = {"COLON"}
  BY DEF StateAfter
<1>8. StateFits(parser)' /\ AutomatonFits(parser)'
  <2>1. AutomatonFits(parser)'
    BY DEF AutomatonFits, Literals
  <2>2. Inside(parser, CloseObject)'
    BY <1>5 DEF Inside
  <2>3. StateFits(parser)'
    BY <1>3, <1>7, <2>2 DEF StateFits
  <2> QED
    BY <2>1, <2>3
<1> QED
  BY <1>4, <1>6, <1>8 DEF Fits, Stream!Next

(* the beginning of an array or of an object,                              *)
LEMMA BeginReported ==
  ASSUME TypeOK, Fits(parser), "VALUE" \in parser.state,
         NEW closer \in {CloseArray, CloseObject},
         NEW type, type = IF closer = CloseArray THEN "ARRAY_BEG" ELSE "OBJECT_BEG",
         NEW data \in Seq(Byte), NEW p,
         events' = Append(events, [type |-> type, data |-> data]),
         parser'.nesting_stack = Append(parser.nesting_stack, closer), parser'.automaton = "MAIN",
         parser'.state = StateAfter(p, type)
  PROVE  Fits(parser)' /\ Stream!Next
<1> DEFINE e == [type |-> type, data |-> data]
           stack == parser.nesting_stack
<1>1. e \in Events /\ e.type = type /\ type \in Containers
  BY DEF Events, EventTypes, Containers
<1> HIDE DEF e
<1>2. events' = Append(events, e)
  BY DEF e
<1>3. Types' = Append(Types, type) /\ ~Keyed' /\ events' # <<>>
  BY <1>1, <1>2, TypesAppend DEF Containers
<1>4. Depth' = Depth + 1
  BY <1>1, <1>2, DepthAppend
<1>5. /\ stack \in Seq({CloseArray, CloseObject}) /\ Len(stack) \in Nat /\ Depth = Len(stack)
      /\ Open = [k \in 1 .. Len(stack) |-> Kind(stack[k])]
      /\ Open \in Seq({"ARRAY", "OBJECT"}) /\ Len(Open) = Len(stack)
  BY OpenIsStack
<1>6. /\ parser'.nesting_stack \in Seq({CloseArray, CloseObject})
      /\ Len(parser'.nesting_stack) = Len(stack) + 1
      /\ \A k \in 1 .. Len(stack) : parser'.nesting_stack[k] = stack[k]
      /\ parser'.nesting_stack[Len(stack) + 1] = closer
  BY <1>5, AppendProperties
<1>7. Open' = Append(Open, Kind(closer))
  <2> DEFINE after == Append(Open, Kind(closer))
  <2>1. /\ after \in Seq({"ARRAY", "OBJECT"}) /\ Len(after) = Len(stack) + 1
        /\ \A k \in 1 .. Len(stack) : after[k] = Open[k]
        /\ after[Len(stack) + 1] = Kind(closer)
    BY <1>5, AppendProperties DEF Kind
  <2>2. Open' = [k \in 1 .. Len(stack) + 1 |-> Kind(parser'.nesting_stack[k])]
    BY <1>4, <1>5 DEF Open
  <2>3. Open' \in Seq({"ARRAY", "OBJECT"}) /\ Len(Open') = Len(stack) + 1
    BY <1>5, <2>2 DEF Kind
  <2> HIDE DEF after, stack
  <2>4. \A k \in 1 .. Len(stack) + 1 : Open'[k] = after[k]
    <3>1. \A k \in 1 .. Len(stack) + 1 : Open'[k] = Kind(parser'.nesting_stack[k])
      BY <2>2
    <3>2. \A k \in 1 .. Len(stack) : Open[k] = Kind(stack[k])
      BY <1>5
    <3> QED
      BY <1>5, <1>6, <2>1, <3>1, <3>2
  <2>5. Open' = after
    BY <1>5, <2>1, <2>3, <2>4, SeqEqual
  <2> QED
    BY <2>5 DEF after
<1>8. Stream!Begin(Kind(closer))
  <2>1. Stream!MayTakeValue
    BY ValueWelcome
  <2>2. Stream!Beginning(Kind(closer)) = type
    BY DEF Stream!Beginning, Kind, CloseArray, CloseObject
  <2>3. Stream!Emit(type)
    BY <1>3 DEF Stream!Emit, Types
  <2>4. Keyed' = FALSE
    BY <1>3 DEF Keyed
  <2> QED
    BY <1>7, <2>1, <2>2, <2>3, <2>4 DEF Stream!Begin, Open, Kind, Keyed
<1>9. StateFits(parser)' /\ AutomatonFits(parser)'
  <2>1. AutomatonFits(parser)'
    BY DEF AutomatonFits, Literals
  <2>2. Inside(parser, closer)'
    <3> HIDE DEF stack
    <3>1. parser'.nesting_stack # <<>>
      <4>1. Len(parser'.nesting_stack) # 0
        BY <1>5, <1>6
      <4> QED
        BY <4>1, EmptySeq
    <3>2. parser'.nesting_stack[Len(parser'.nesting_stack)] = closer
      BY <1>6
    <3> QED
      BY <3>1, <3>2 DEF Inside
  <2>3. parser'.state = IF closer = CloseArray THEN {"VALUE", "CLOSER"} ELSE {"KEY", "CLOSER"}
    BY DEF StateAfter
  <2>4. StateFits(parser)'
    BY <1>3, <2>2, <2>3 DEF StateFits
  <2> QED
    BY <2>1, <2>4
<1>10. Kind(closer) \in Stream!Kinds
  BY DEF Stream!Kinds, Kind
<1>11. Stream!Next
  BY <1>8, <1>10 DEF Stream!Next
<1>12. Depth' = Len(parser'.nesting_stack)
  BY <1>4, <1>5, <1>6
<1> QED
  BY <1>9, <1>11, <1>12 DEF Fits

(* and the end of the innermost one.                                       *)
LEMMA EndReported ==
  ASSUME TypeOK, Fits(parser), "CLOSER" \in parser.state,
         NEW closer \in {CloseArray, CloseObject},
         parser.nesting_stack[Len(parser.nesting_stack)] = closer,
         NEW type, type = IF closer = CloseArray THEN "ARRAY_END" ELSE "OBJECT_END",
         NEW data \in Seq(Byte), NEW p,
         events' = Append(events, [type |-> type, data |-> data]),
         p.nesting_stack = SubSeq(parser.nesting_stack, 1, Len(parser.nesting_stack) - 1),
         parser'.nesting_stack = p.nesting_stack, parser'.automaton = "MAIN",
         parser'.state = StateAfter(p, type)
  PROVE  Fits(parser)' /\ Stream!Next
<1> DEFINE e == [type |-> type, data |-> data]
           stack == parser.nesting_stack
           N == Len(stack) - 1
<1>1. e \in Events /\ e.type = type /\ type \in Closers
  BY DEF Events, EventTypes, Closers
<1> HIDE DEF e
<1>2. events' = Append(events, e)
  BY DEF e
<1>3. Types' = Append(Types, type) /\ ~Keyed' /\ events' # <<>>
  BY <1>1, <1>2, TypesAppend DEF Closers
<1>4. Depth' = Depth - 1
  BY <1>1, <1>2, DepthAppend
<1>5. /\ stack \in Seq({CloseArray, CloseObject}) /\ Len(stack) \in Nat /\ Depth = Len(stack)
      /\ Open = [k \in 1 .. Len(stack) |-> Kind(stack[k])]
      /\ Open \in Seq({"ARRAY", "OBJECT"}) /\ Len(Open) = Len(stack)
      /\ Open = <<>> <=> stack = <<>>
      /\ stack # <<>> => Open[Len(Open)] = Kind(stack[Len(stack)])
  BY OpenIsStack
<1>6. stack # <<>> /\ ~Keyed
  BY DEF Fits, StateFits, Inside
<1>7. N \in Nat
  BY <1>5, <1>6, EmptySeq
<1>8. /\ parser'.nesting_stack \in Seq({CloseArray, CloseObject})
      /\ Len(parser'.nesting_stack) = N
      /\ \A k \in 1 .. N : parser'.nesting_stack[k] = stack[k]
  BY <1>5, <1>7, SubSeqProperties
<1>9. Open' = SubSeq(Open, 1, Len(Open) - 1)
  <2> DEFINE after == SubSeq(Open, 1, N)
  <2>1. after \in Seq({"ARRAY", "OBJECT"}) /\ Len(after) = N /\ \A k \in 1 .. N : after[k] = Open[k]
    BY <1>5, <1>7, SubSeqProperties
  <2>2. Open' = [k \in 1 .. N |-> Kind(parser'.nesting_stack[k])]
    BY <1>4, <1>5 DEF Open
  <2>3. Open' \in Seq({"ARRAY", "OBJECT"}) /\ Len(Open') = N
    BY <1>7, <2>2 DEF Kind
  <2> HIDE DEF after, N, stack
  <2>4. \A k \in 1 .. N : Open'[k] = after[k]
    <3>1. \A k \in 1 .. N : Open'[k] = Kind(parser'.nesting_stack[k])
      BY <2>2
    <3>2. \A k \in 1 .. N : Open[k] = Kind(stack[k])
      BY <1>5, <1>7 DEF N
    <3> QED
      BY <1>8, <2>1, <3>1, <3>2
  <2>5. Open' = after
    BY <1>7, <2>1, <2>3, <2>4, SeqEqual
  <2> QED
    BY <1>5, <2>5 DEF after, N
<1>10. Stream!End(Kind(closer))
  <2>1. Open # <<>> /\ Open[Len(Open)] = Kind(closer)
    BY <1>5, <1>6
  <2>2. Stream!Ending(Kind(closer)) = type
    BY DEF Stream!Ending, Kind, CloseArray, CloseObject
  <2>3. Stream!Emit(type)
    BY <1>3 DEF Stream!Emit, Types
  <2>4. Keyed' = Keyed
    BY <1>3, <1>6 DEF Keyed
  <2> QED
    BY <1>6, <1>9, <2>1, <2>2, <2>3, <2>4 DEF Stream!End, Open, Kind, Keyed
<1>11. StateFits(parser)' /\ AutomatonFits(parser)'
  <2>1. AutomatonFits(parser)'
    BY DEF AutomatonFits, Literals
  <2>2. parser'.state = IF parser'.nesting_stack # <<>> THEN {"COMMA", "CLOSER"} ELSE {"EOF"}
    BY DEF StateAfter
  <2>3. StateFits(parser)'
    BY <1>3, <2>2 DEF StateFits
  <2> QED
    BY <2>1, <2>3
<1>12. Kind(closer) \in Stream!Kinds
  BY DEF Stream!Kinds, Kind
<1>13. Stream!Next
  BY <1>10, <1>12 DEF Stream!Next
<1>14. Depth' = Len(parser'.nesting_stack)
  BY <1>4, <1>5, <1>8
<1> QED
  BY <1>11, <1>13, <1>14 DEF Fits

-----------------------------------------------------------------------------
(* The steps *)

(* What every turn of an automaton begins with.                            *)
LEMMA TurnFacts ==
  ASSUME IInv, NEW automata, Turn(automata)
  PROVE  /\ parser \in Parsers /\ parser.errcode = Success /\ parser.automaton \in automata
         /\ text \in Seq(Byte) /\ Len(text) \in Nat /\ parser.pos.offset \in Nat
         /\ parser.pos.offset + 1 <= Len(text) /\ Ch \in Byte
         /\ parser.pos \in Place3 /\ parser.value_pos \in Place3
         /\ parser.pos.offset <= Len(text) /\ parser.value_pos.offset <= Len(text)
         /\ parser.run \in Nat /\ parser.run <= Len(text)
         /\ Fits(parser) /\ SequenceKept(parser)
         /\ UNCHANGED <<text, feeding, finished>>
<1>1. parser \in Parsers /\ text \in Seq(Byte)
  BY DEF IInv, TypeOK
<1>2. /\ parser.pos \in Place3 /\ parser.value_pos \in Place3 /\ parser.run \in Nat
      /\ parser.pos.offset \in Nat /\ Len(text) \in Nat
  BY <1>1, LenProperties DEF Parsers, Place3
<1>3. parser.errcode = Success /\ parser.pos.offset < Len(text)
  BY DEF Turn, Reading
<1>4. Ch \in Byte
  BY <1>1, <1>2, <1>3, ElementOfSeq DEF Ch
<1> QED
  BY <1>1, <1>2, <1>3, <1>4 DEF IInv, TypeOK, Control, Turn

(* What json_raise_() sets.                                                *)
LEMMA RaiseType ==
  ASSUME NEW q \in Parsers, q.errcode = Success, NEW err \in ErrorNames, NEW at \in Place3
  PROVE  LET r == json_raise_(q, err, at)
         IN  /\ r \in Parsers /\ r.errcode = err /\ r.errcode # Success /\ r.err_pos = at
             /\ r.pos = q.pos /\ r.value_pos = q.value_pos /\ r.run = q.run
             /\ r.nesting_stack = q.nesting_stack /\ r.state = q.state /\ r.automaton = q.automaton
             /\ r.last_cl_offset = q.last_cl_offset /\ r.value_counter = q.value_counter
<1> DEFINE r == json_raise_(q, err, at)
<1>1. r = [q EXCEPT !.errcode = err, !.err_pos = at]
  BY DEF json_raise_
<1>2. err # Success
  BY DEF ErrorNames, Success
<1> HIDE DEF r
<1>3. /\ r \in Parsers /\ r.errcode = err /\ r.err_pos = at
      /\ r.pos = q.pos /\ r.value_pos = q.value_pos /\ r.run = q.run
      /\ r.nesting_stack = q.nesting_stack /\ r.state = q.state /\ r.automaton = q.automaton
      /\ r.last_cl_offset = q.last_cl_offset /\ r.value_counter = q.value_counter
  BY <1>1 DEF Parsers
<1> QED
  BY <1>2, <1>3 DEF r

(* What a step is to keep, and a step that calls no callback.              *)
Bounded(p, end) == p.pos.offset <= end /\ p.value_pos.offset <= end /\ p.run <= end

(* A step without an event that keeps the state,                           *)
LEMMA QuietStep ==
  ASSUME IInv, config' = config, UNCHANGED events, text' \in Seq(Byte),
         feeding' \in BOOLEAN, finished' \in BOOLEAN,
         parser' \in Parsers, Bounded(parser', Len(text')), SequenceKept(parser'),
         \A k \in 1 .. Depth : parser'.nesting_stack[k] = parser.nesting_stack[k],
         parser'.errcode = Success =>
           Depth = Len(parser'.nesting_stack) /\ StateFits(parser') /\ AutomatonFits(parser')
  PROVE  IInv' /\ UNCHANGED Stream!vars
<1>1. TypeOK'
  BY DEF IInv, TypeOK, Bounded, SequenceKept, CanCut, Leads
<1>2. Depth' = Depth /\ (Keyed' <=> Keyed)
  BY DEF Depth, Keyed
<1>3. Control'
  <2>1. ASSUME parser'.errcode = Success PROVE Fits(parser)'
    <3>1. StateFits(parser)'
      BY <1>2, <2>1 DEF StateFits, Inside
    <3>2. AutomatonFits(parser)'
      BY <2>1 DEF AutomatonFits
    <3> QED
      BY <1>2, <2>1, <3>1, <3>2 DEF Fits
  <2> QED
    BY <2>1 DEF Control
<1>4. UNCHANGED Stream!vars
  BY QuietStream
<1> QED
  BY <1>1, <1>3, <1>4 DEF IInv

(* one that raises an error,                                               *)
LEMMA RaiseStep ==
  ASSUME IInv, config' = config, UNCHANGED events, text' \in Seq(Byte),
         feeding' \in BOOLEAN, finished' \in BOOLEAN,
         NEW q \in Parsers, q.errcode = Success, Bounded(q, Len(text')),
         \A k \in 1 .. Depth : q.nesting_stack[k] = parser.nesting_stack[k],
         NEW err \in ErrorNames, NEW at \in Place3, parser' = json_raise_(q, err, at)
  PROVE  IInv' /\ UNCHANGED Stream!vars
<1> DEFINE r == json_raise_(q, err, at)
<1>1. /\ r \in Parsers /\ r.errcode # Success
      /\ r.pos = q.pos /\ r.value_pos = q.value_pos /\ r.run = q.run
      /\ r.nesting_stack = q.nesting_stack
  BY RaiseType
<1> HIDE DEF r
<1>2. parser' = r
  BY DEF r
<1>3. Bounded(r, Len(text')) /\ SequenceKept(r)
  BY <1>1 DEF Bounded, SequenceKept
<1> QED
  BY <1>1, <1>2, <1>3, QuietStep

(* What an accepted call leaves behind. *)
Called(p, type, data) ==
  /\ events' = Append(events, [type |-> type, data |-> data])
  /\ parser'.nesting_stack = p.nesting_stack /\ parser'.automaton = "MAIN"
  /\ parser'.state = StateAfter(p, type)

(* and one that calls json_process().                                      *)
LEMMA ProcessStep ==
  ASSUME IInv, UNCHANGED <<config, text>>, feeding' \in BOOLEAN, finished' \in BOOLEAN,
         NEW p \in Parsers, p.errcode = Success, Bounded(p, Len(text)),
         NEW type \in EventTypes, NEW data \in Seq(Byte), NEW past \in BOOLEAN,
         past => Ch \in Byte /\ p.pos.offset + 1 <= Len(text),
         type \notin Closers => \A k \in 1 .. Depth : p.nesting_stack[k] = parser.nesting_stack[k],
         json_process(p, type, data, past)
  PROVE  \/ IInv' /\ UNCHANGED Stream!vars
         \/ TypeOK' /\ Called(p, type, data)
<1>1. PICK q \in Parsers :
        /\ parser' = IF past THEN Past(q) ELSE q
        /\ q.pos = p.pos /\ q.nesting_stack = p.nesting_stack
        /\ Rejected(p, q, type) \/ Accepted(p, q, type, data)
  BY ProcessEffect
<1>2. text \in Seq(Byte) /\ Len(text) \in Nat /\ text' = text
  BY LenProperties DEF IInv, TypeOK
<1>3. p.pos.offset \in Nat /\ p.value_pos.offset \in Nat /\ p.run \in Nat
  BY DEF Parsers, Place3
<1>4. p.pos.offset <= Len(text) /\ p.value_pos.offset <= Len(text) /\ p.run <= Len(text)
  BY DEF Bounded
<1>5. q.value_pos.offset <= Len(text) /\ q.run <= Len(text)
  <2>1. CASE Rejected(p, q, type)
    BY <1>4, <2>1 DEF Rejected
  <2>2. CASE Accepted(p, q, type, data)
    BY <1>4, <2>2 DEF Accepted
  <2> QED
    BY <1>1, <2>1, <2>2
<1>6. /\ parser' \in Parsers /\ parser'.value_pos = q.value_pos /\ parser'.run = q.run
      /\ parser'.errcode = q.errcode /\ parser'.nesting_stack = p.nesting_stack
      /\ parser'.automaton = q.automaton /\ parser'.state = q.state
      /\ parser'.pos.offset <= Len(text)
  <2>1. CASE past
    BY <1>1, <1>3, <2>1, PastType DEF SameButPlace
  <2>2. CASE ~past
    BY <1>1, <1>4, <2>2
  <2> QED
    BY <2>1, <2>2
<1>7. Bounded(parser', Len(text'))
  BY <1>2, <1>5, <1>6 DEF Bounded
<1>8. CASE Rejected(p, q, type)
  <2>1. parser'.errcode # Success /\ type \notin Closers /\ UNCHANGED events
    BY <1>6, <1>8 DEF Rejected
  <2>2. SequenceKept(parser')
    BY <2>1 DEF SequenceKept
  <2> QED
    BY <1>2, <1>6, <1>7, <2>1, <2>2, QuietStep
<1>9. CASE Accepted(p, q, type, data)
  <2>1. Called(p, type, data)
    BY <1>6, <1>9 DEF Accepted, Called
  <2>2. SequenceKept(parser)'
    BY <2>1 DEF Called, SequenceKept, StringAutomata
  <2>3. [type |-> type, data |-> data] \in Events
    BY DEF Events
  <2>4. events' \in Seq(Events)
    <3>1. events \in Seq(Events)
      BY DEF IInv, TypeOK
    <3> QED
      BY <2>1, <2>3, <3>1, AppendProperties DEF Called
  <2>5. TypeOK'
    BY <1>2, <1>6, <1>7, <2>2, <2>4 DEF IInv, TypeOK, Bounded
  <2> QED
    BY <2>1, <2>5
<1> QED
  BY <1>1, <1>8, <1>9

-----------------------------------------------------------------------------
(* The actions *)

(* What each action is shown to do: keep the invariant, and be a step of   *)
(* JsonEvents or a stutter.                                                *)
Kept == IInv' /\ (Stream!Next \/ UNCHANGED Stream!vars)

(* The state and the automaton are those of before, or fit as well. *)
LEMMA SameFits ==
  ASSUME Fits(parser), NEW q, q.nesting_stack = parser.nesting_stack, q.state = parser.state,
         q.automaton = parser.automaton
  PROVE  StateFits(q) /\ AutomatonFits(q)
BY DEF Fits, StateFits, AutomatonFits, Inside

(* json_feed() gets a byte, or a chunk that is too long as a whole, and    *)
(* its end.                                                                *)
LEMMA NextByteKept ==
  ASSUME IInv, config' = config, NEW ch \in Alphabet(config), NextByte(ch)
  PROVE  Kept
<1>1. ch \in Byte
  BY ConfigAssumption DEF IInv, TypeOK, Byte
<1>2. text \in Seq(Byte) /\ Len(text) \in Nat
  BY LenProperties DEF IInv, TypeOK
<1>3. text' \in Seq(Byte) /\ Len(text') = Len(text) + 1
  BY <1>1, <1>2, AppendProperties DEF NextByte
<1>4. /\ parser.pos.offset \in Nat /\ parser.value_pos.offset \in Nat /\ parser.run \in Nat
      /\ parser.pos.offset <= Len(text) /\ parser.value_pos.offset <= Len(text) /\ parser.run <= Len(text)
      /\ parser \in Parsers /\ SequenceKept(parser)
  BY DEF IInv, TypeOK, Parsers, Place3
<1>5. parser' = parser /\ UNCHANGED events /\ feeding' \in BOOLEAN /\ finished' \in BOOLEAN
  BY DEF NextByte, IInv, TypeOK
<1>6. parser.errcode = Success => Depth = Len(parser.nesting_stack) /\ StateFits(parser) /\ AutomatonFits(parser)
  BY DEF IInv, Control, Fits
<1> DEFINE p == parser'
<1>7. /\ p \in Parsers /\ SequenceKept(p) /\ p.nesting_stack = parser.nesting_stack
      /\ p.errcode = Success => Depth = Len(p.nesting_stack) /\ StateFits(p) /\ AutomatonFits(p)
  BY <1>4, <1>5, <1>6
<1>8. Bounded(p, Len(text'))
  <2>1. parser.pos.offset <= Len(text') /\ parser.value_pos.offset <= Len(text') /\ parser.run <= Len(text')
    BY <1>2, <1>3, <1>4
  <2> QED
    BY <1>5, <2>1 DEF Bounded
<1> QED
  BY <1>3, <1>5, <1>7, <1>8, QuietStep DEF Kept

LEMMA FeedTooMuchKept ==
  ASSUME IInv, config' = config, NEW n \in 1 .. MaxChunk, NEW chunk \in [1 .. n -> Alphabet(config)],
         FeedTooMuch(chunk)
  PROVE  Kept
<1>0. n \in Nat /\ n >= 1
  BY ConfigAssumption
<1>1. chunk \in Seq(Byte) /\ Len(chunk) = n /\ chunk # <<>>
  <2>1. Alphabet(config) \subseteq Byte
    BY ConfigAssumption DEF IInv, TypeOK, Byte
  <2>2. chunk \in Seq(Byte) /\ Len(chunk) = n
    BY <1>0, <2>1
  <2> QED
    BY <1>0, <2>2, EmptySeq
<1>2. text \in Seq(Byte) /\ Len(text) \in Nat
  BY LenProperties DEF IInv, TypeOK
<1>3. text' \in Seq(Byte) /\ Len(text') = Len(text) + n
  BY <1>1, <1>2, ConcatProperties DEF FeedTooMuch
<1>4. /\ parser.pos.offset \in Nat /\ parser.value_pos.offset \in Nat /\ parser.run \in Nat
      /\ parser.pos.offset <= Len(text) /\ parser.value_pos.offset <= Len(text) /\ parser.run <= Len(text)
      /\ parser \in Parsers
  BY DEF IInv, TypeOK, Parsers, Place3
<1> DEFINE q == Moved(parser, chunk)
<1>5. q \in Parsers /\ SameButPlace(parser, q) /\ q.pos.offset = parser.pos.offset + n - 1
  BY <1>1, <1>4, MovedType
<1>6. parser' = json_raise_(q, "MAXTOTALLEN", q.pos) /\ UNCHANGED events
      /\ feeding' \in BOOLEAN /\ finished' \in BOOLEAN
  BY DEF FeedTooMuch, json_raise, IInv, TypeOK
<1> HIDE DEF q
<1>7. Bounded(q, Len(text')) /\ q.nesting_stack = parser.nesting_stack
  BY <1>0, <1>2, <1>3, <1>4, <1>5 DEF Bounded, SameButPlace
<1>8. CASE q.errcode = Success
  <2>1. "MAXTOTALLEN" \in ErrorNames /\ q.pos \in Place3
    BY <1>5 DEF ErrorNames, Parsers
  <2> QED
    BY <1>3, <1>5, <1>6, <1>7, <1>8, <2>1, RaiseStep DEF Kept
<1>9. CASE q.errcode # Success
  <2>1. parser' = q
    BY <1>6, <1>9 DEF json_raise_
  <2>2. SequenceKept(q)
    BY <1>9 DEF SequenceKept
  <2> QED
    BY <1>3, <1>5, <1>6, <1>7, <1>9, <2>1, <2>2, QuietStep DEF Kept
<1> QED
  BY <1>8, <1>9

(* The position is taken back to the beginning of what is pending.         *)
LEMMA RewoundType ==
  ASSUME NEW p \in Parsers
  PROVE  /\ Rewound(p) \in Parsers /\ SameButPlace(p, Rewound(p))
         /\ Rewound(p).last_cl_offset = p.last_cl_offset
         /\ Rewound(p).pos.offset \in {p.pos.offset, p.run}
         /\ p.automaton # "NUMBER" => Rewound(p).pos = Along(p.pos, p.run - p.pos.offset)
<1>1. CASE p.automaton = "NUMBER"
  BY <1>1 DEF Rewound, SameButPlace
<1>2. CASE p.automaton # "NUMBER"
  <2> DEFINE n == p.run - p.pos.offset
             place == Along(p.pos, n)
  <2>1. p.pos \in Place3 /\ p.pos.offset \in Nat /\ p.run \in Nat
    BY DEF Parsers, Place3
  <2>2. n \in Int /\ p.pos.offset + n = p.run
    BY <2>1
  <2>3. place \in Place3 /\ place.offset = p.run
    BY <2>1, <2>2, AlongType
  <2>4. Rewound(p) = [p EXCEPT !.pos = place]
    BY <1>2 DEF Rewound, Parsers
  <2> HIDE DEF place
  <2>5. Rewound(p) \in Parsers /\ SameButPlace(p, Rewound(p)) /\ Rewound(p).pos = place
        /\ Rewound(p).last_cl_offset = p.last_cl_offset
    BY <2>3, <2>4 DEF Parsers, SameButPlace
  <2> QED
    BY <1>2, <2>3, <2>5 DEF place
<1> QED
  BY <1>1, <1>2

(* There is no memory for what is pending.                                 *)
LEMMA NoMemoryStep ==
  ASSUME IInv, UNCHANGED <<config, text, events>>, feeding' \in BOOLEAN, finished' \in BOOLEAN,
         parser.errcode = Success, parser' = json_raise(Rewound(parser), "OUTOFMEMORY")
  PROVE  Kept
<1> DEFINE q == Rewound(parser)
<1>1. parser \in Parsers /\ parser.pos.offset <= Len(text) /\ parser.value_pos.offset <= Len(text)
      /\ parser.run <= Len(text) /\ text \in Seq(Byte)
  BY DEF IInv, TypeOK
<1>2. q \in Parsers /\ SameButPlace(parser, q) /\ q.pos.offset \in {parser.pos.offset, parser.run}
  BY <1>1, RewoundType
<1>3. parser' = json_raise_(q, "OUTOFMEMORY", q.pos)
  BY DEF json_raise
<1> HIDE DEF q
<1>4. "OUTOFMEMORY" \in ErrorNames /\ q.pos \in Place3 /\ q.errcode = Success
      /\ q.nesting_stack = parser.nesting_stack
  BY <1>2 DEF ErrorNames, Parsers, SameButPlace
<1>5. Bounded(q, Len(text'))
  BY <1>1, <1>2 DEF Bounded, SameButPlace
<1> QED
  BY <1>1, <1>2, <1>3, <1>4, <1>5, RaiseStep DEF Kept

LEMMA EndOfChunkKept ==
  ASSUME IInv, config' = config, EndOfChunk
  PROVE  Kept
<1>1. /\ parser \in Parsers /\ parser.pos.offset <= Len(text) /\ parser.value_pos.offset <= Len(text)
      /\ parser.run <= Len(text) /\ text \in Seq(Byte) /\ SequenceKept(parser)
      /\ parser.pos.offset \in Nat
  BY DEF IInv, TypeOK, Parsers, Place3
<1>2. UNCHANGED <<text, events>> /\ feeding' \in BOOLEAN /\ finished' \in BOOLEAN
  BY DEF EndOfChunk, IInv, TypeOK
<1>3. CASE parser.errcode = Success /\ InBuffer /\ parser' = Flushed(parser)
  <2> DEFINE q == Flushed(parser)
  <2>1. q \in Parsers /\ q = [parser EXCEPT !.buf = parser.buf \o Pending(parser), !.run = parser.pos.offset]
    BY <1>1, FlushedType
  <2>2. /\ q.nesting_stack = parser.nesting_stack /\ q.automaton = parser.automaton
        /\ q.state = parser.state /\ q.pos = parser.pos /\ q.value_pos = parser.value_pos
        /\ q.run = parser.pos.offset /\ q.errcode = Success /\ q.substate = parser.substate
        /\ q.buf = parser.buf \o Pending(parser)
    BY <1>3, <2>1 DEF Parsers
  <2> HIDE DEF q
  <2>3. SequenceKept(q)
    <3>1. ASSUME q.automaton \in StringAutomata, q.substate \in 1 .. 7
          PROVE  CanCut(q.buf)
      <4>1. CanCut(parser.buf) /\ parser.run = parser.pos.offset
        BY <1>1, <1>3, <2>2, <3>1 DEF SequenceKept
      <4>2. q.buf = parser.buf
        <5>1. Pending(parser) = <<>>
          BY <1>1, <4>1, NothingPending
        <5>2. parser.buf \in Seq(Byte)
          BY <1>1 DEF Parsers
        <5> QED
          BY <2>2, <5>1, <5>2, ConcatEmptySeq
      <4> QED
        BY <4>1, <4>2
    <3> QED
      BY <2>2, <3>1 DEF SequenceKept
  <2>4. Fits(parser)
    BY <1>3 DEF IInv, Control
  <2>5. Depth = Len(q.nesting_stack) /\ StateFits(q) /\ AutomatonFits(q)
    BY <2>2, <2>4, SameFits DEF Fits
  <2>6. Bounded(q, Len(text))
    BY <1>1, <2>2 DEF Bounded
  <2>7. parser' = q
    BY <1>3 DEF q
  <2> QED
    BY <1>1, <1>2, <2>1, <2>2, <2>3, <2>5, <2>6, <2>7, QuietStep DEF Kept, q
<1>4. CASE parser' = parser
  <2>1. parser.errcode = Success => Depth = Len(parser.nesting_stack) /\ StateFits(parser) /\ AutomatonFits(parser)
    BY DEF IInv, Control, Fits
  <2>2. Bounded(parser, Len(text))
    BY <1>1 DEF Bounded
  <2> QED
    BY <1>1, <1>2, <1>4, <2>1, <2>2, QuietStep DEF Kept
<1>5. CASE parser.errcode = Success /\ parser' = json_raise(Rewound(parser), "OUTOFMEMORY")
  BY <1>2, <1>5, NoMemoryStep
<1> QED
  BY <1>3, <1>4, <1>5 DEF EndOfChunk

(* Every state has its error.                                              *)
LEMMA UnexpectedNames ==
  ASSUME NEW state
  PROVE  Unexpected(state) \in ErrorNames
BY DEF Unexpected, ErrorNames

(* A turn that raises an error at the position or at the value. *)
LEMMA RaiseTurn ==
  ASSUME IInv, config' = config, NEW automata, Turn(automata), NEW err \in ErrorNames,
         Becomes(json_raise(parser, err)) \/ Becomes(json_raise_for_value(parser, err))
  PROVE  Kept
<1>1. /\ parser \in Parsers /\ parser.errcode = Success /\ UNCHANGED <<text, feeding, finished>>
      /\ parser.pos \in Place3 /\ parser.value_pos \in Place3 /\ text \in Seq(Byte)
      /\ parser.pos.offset <= Len(text) /\ parser.value_pos.offset <= Len(text) /\ parser.run <= Len(text)
  BY TurnFacts
<1>2. PICK at \in {parser.pos, parser.value_pos} : parser' = json_raise_(parser, err, at) /\ UNCHANGED events
  BY DEF Becomes, json_raise, json_raise_for_value
<1>3. feeding' \in BOOLEAN /\ finished' \in BOOLEAN
  BY <1>1 DEF IInv, TypeOK
<1>4. at \in Place3 /\ Bounded(parser, Len(text'))
  BY <1>1 DEF Bounded
<1> QED
  BY <1>1, <1>2, <1>3, <1>4, RaiseStep DEF Kept

(* A container begins, and one ends.                                       *)
LEMMA OpenContainerKept ==
  ASSUME IInv, config' = config, OpenContainer
  PROVE  Kept
<1>1. /\ parser \in Parsers /\ parser.errcode = Success /\ UNCHANGED <<text, feeding, finished>>
      /\ text \in Seq(Byte) /\ Ch \in Byte /\ parser.pos.offset + 1 <= Len(text)
      /\ parser.pos.offset <= Len(text) /\ parser.value_pos.offset <= Len(text) /\ parser.run <= Len(text)
      /\ Fits(parser)
  BY TurnFacts DEF OpenContainer
<1>2. Turn({"MAIN"}) /\ "VALUE" \in parser.state /\ Ch \in {OpenArray, OpenObject}
  BY DEF OpenContainer
<1> DEFINE closer == IF Ch = OpenArray THEN CloseArray ELSE CloseObject
           type == IF Ch = OpenArray THEN "ARRAY_BEG" ELSE "OBJECT_BEG"
           stack == Append(parser.nesting_stack, closer)
           pushed == [parser EXCEPT !.nesting_stack = stack]
<1>3. \/ Becomes(json_raise(parser, "MAXNESTINGLEVEL"))
      \/ Becomes(json_raise(parser, "OUTOFMEMORY"))
      \/ json_process(pushed, type, <<>>, TRUE)
  BY <1>1 DEF OpenContainer, Parsers
<1>4. CASE Becomes(json_raise(parser, "MAXNESTINGLEVEL")) \/ Becomes(json_raise(parser, "OUTOFMEMORY"))
  <2>1. "MAXNESTINGLEVEL" \in ErrorNames /\ "OUTOFMEMORY" \in ErrorNames
    BY DEF ErrorNames
  <2> QED
    BY <1>2, <1>4, <2>1, RaiseTurn
<1>5. CASE json_process(pushed, type, <<>>, TRUE)
  <2>1. closer \in {CloseArray, CloseObject} /\ type \in EventTypes /\ type \notin Closers
        /\ type = IF closer = CloseArray THEN "ARRAY_BEG" ELSE "OBJECT_BEG"
    BY <1>2 DEF EventTypes, Containers, Closers, CloseArray, CloseObject
  <2>2. parser.nesting_stack \in Seq({CloseArray, CloseObject}) /\ Depth = Len(parser.nesting_stack)
        /\ Len(parser.nesting_stack) \in Nat
    BY <1>1, OpenIsStack DEF IInv
  <2> HIDE DEF closer, type
  <2>3. stack \in Seq({CloseArray, CloseObject}) /\ \A k \in 1 .. Depth : stack[k] = parser.nesting_stack[k]
    BY <2>1, <2>2, AppendProperties
  <2> HIDE DEF stack
  <2>4. /\ pushed \in Parsers /\ pushed.errcode = Success /\ pushed.nesting_stack = stack
        /\ pushed.pos = parser.pos /\ pushed.value_pos = parser.value_pos /\ pushed.run = parser.run
    BY <1>1, <2>3 DEF Parsers
  <2> HIDE DEF pushed
  <2>5. Bounded(pushed, Len(text)) /\ <<>> \in Seq(Byte) /\ TRUE \in BOOLEAN
    BY <1>1, <2>4 DEF Bounded
  <2>6. \/ IInv' /\ UNCHANGED Stream!vars
        \/ TypeOK' /\ Called(pushed, type, <<>>)
    <3>1. feeding' \in BOOLEAN /\ finished' \in BOOLEAN
      BY <1>1 DEF IInv, TypeOK
    <3> QED
      BY <1>1, <1>5, <2>1, <2>3, <2>4, <2>5, <3>1, ProcessStep
  <2>7. CASE TypeOK' /\ Called(pushed, type, <<>>)
    <3>1. Fits(parser)' /\ Stream!Next
      BY <1>1, <1>2, <2>1, <2>4, <2>5, <2>7, BeginReported DEF Called, IInv, stack
    <3> QED
      BY <2>7, <3>1 DEF Kept, IInv, Control
  <2> QED
    BY <2>6, <2>7 DEF Kept
<1> QED
  BY <1>3, <1>4, <1>5

LEMMA CloseContainerKept ==
  ASSUME IInv, config' = config, CloseContainer
  PROVE  Kept
<1>1. /\ parser \in Parsers /\ parser.errcode = Success /\ UNCHANGED <<text, feeding, finished>>
      /\ text \in Seq(Byte) /\ Ch \in Byte /\ parser.pos.offset + 1 <= Len(text)
      /\ parser.pos.offset <= Len(text) /\ parser.value_pos.offset <= Len(text) /\ parser.run <= Len(text)
      /\ Fits(parser)
  BY TurnFacts DEF CloseContainer
<1>2. Turn({"MAIN"}) /\ "CLOSER" \in parser.state /\ Ch \in {CloseArray, CloseObject}
  BY DEF CloseContainer
<1> DEFINE depth == Len(parser.nesting_stack)
           type == IF Ch = CloseArray THEN "ARRAY_END" ELSE "OBJECT_END"
           stack == SubSeq(parser.nesting_stack, 1, depth - 1)
           popped == [parser EXCEPT !.nesting_stack = stack]
<1>3. IF parser.nesting_stack[depth] # Ch THEN Becomes(json_raise(parser, "BADCLOSER"))
      ELSE json_process(popped, type, <<>>, TRUE)
  BY <1>1 DEF CloseContainer, Parsers
<1>4. CASE Becomes(json_raise(parser, "BADCLOSER"))
  <2>1. "BADCLOSER" \in ErrorNames
    BY DEF ErrorNames
  <2> QED
    BY <1>2, <1>4, <2>1, RaiseTurn
<1>5. CASE parser.nesting_stack[depth] = Ch /\ json_process(popped, type, <<>>, TRUE)
  <2>1. type \in EventTypes /\ type \in Closers
    BY DEF EventTypes, Closers
  <2>2. parser.nesting_stack \in Seq({CloseArray, CloseObject}) /\ depth \in Nat
    BY <1>1, OpenIsStack DEF IInv
  <2>3. depth # 0
    <3>1. parser.nesting_stack # <<>>
      BY <1>1, <1>2 DEF Fits, StateFits, Inside
    <3> QED
      BY <2>2, <3>1, EmptySeq
  <2>4. stack \in Seq({CloseArray, CloseObject})
    BY <2>2, <2>3, SubSeqProperties
  <2> HIDE DEF stack, type
  <2>5. /\ popped \in Parsers /\ popped.errcode = Success /\ popped.nesting_stack = stack
        /\ popped.pos = parser.pos /\ popped.value_pos = parser.value_pos /\ popped.run = parser.run
    BY <1>1, <2>4 DEF Parsers
  <2> HIDE DEF popped
  <2>6. Bounded(popped, Len(text)) /\ <<>> \in Seq(Byte) /\ TRUE \in BOOLEAN
    BY <1>1, <2>5 DEF Bounded
  <2>7. \/ IInv' /\ UNCHANGED Stream!vars
        \/ TypeOK' /\ Called(popped, type, <<>>)
    <3>1. feeding' \in BOOLEAN /\ finished' \in BOOLEAN
      BY <1>1 DEF IInv, TypeOK
    <3> QED
      BY <1>1, <1>5, <2>1, <2>5, <2>6, <3>1, ProcessStep
  <2>8. CASE TypeOK' /\ Called(popped, type, <<>>)
    <3>1. type = IF Ch = CloseArray THEN "ARRAY_END" ELSE "OBJECT_END"
      BY DEF type
    <3>2. Fits(parser)' /\ Stream!Next
      BY <1>1, <1>2, <1>5, <2>5, <2>6, <2>8, <3>1, EndReported DEF Called, IInv, stack
    <3> QED
      BY <2>8, <3>2 DEF Kept, IInv, Control
  <2> QED
    BY <2>7, <2>8 DEF Kept
<1> QED
  BY <1>3, <1>4, <1>5

(* A turn of the main automaton that goes past a byte of punctuation or    *)
(* white space.                                                            *)
LEMMA PastTurn ==
  ASSUME IInv, config' = config, Turn({"MAIN"}), NEW q \in Parsers, Becomes(Past(q)),
         q.pos = parser.pos, q.value_pos = parser.value_pos, q.run = parser.run,
         q.nesting_stack = parser.nesting_stack, q.automaton = parser.automaton,
         StateFits(q)
  PROVE  Kept
<1>1. /\ parser \in Parsers /\ parser.errcode = Success /\ UNCHANGED <<text, feeding, finished>>
      /\ text \in Seq(Byte) /\ Ch \in Byte /\ parser.pos.offset + 1 <= Len(text)
      /\ parser.value_pos.offset <= Len(text) /\ parser.run <= Len(text)
      /\ Fits(parser) /\ parser.automaton = "MAIN"
  BY TurnFacts
<1> DEFINE r == Past(q)
<1>2. r \in Parsers /\ r.pos.offset = q.pos.offset + 1 /\ SameButPlace(q, r)
  BY <1>1, PastType
<1>3. parser' = r /\ UNCHANGED events
  BY DEF Becomes
<1> HIDE DEF r
<1>4. Bounded(r, Len(text))
  BY <1>1, <1>2 DEF Bounded, SameButPlace
<1>5. SequenceKept(r)
  BY <1>1, <1>2 DEF SequenceKept, StringAutomata, SameButPlace
<1>6. StateFits(r) /\ AutomatonFits(r)
  <2>1. r.state = q.state /\ r.nesting_stack = q.nesting_stack /\ r.automaton = "MAIN"
    BY <1>1, <1>2 DEF SameButPlace
  <2> QED
    BY <2>1 DEF StateFits, AutomatonFits, Inside, Literals
<1>7. Depth = Len(r.nesting_stack) /\ r.nesting_stack = parser.nesting_stack
  BY <1>1, <1>2 DEF Fits, SameButPlace
<1>8. feeding' \in BOOLEAN /\ finished' \in BOOLEAN
  BY <1>1 DEF IInv, TypeOK
<1> QED
  BY <1>1, <1>2, <1>3, <1>4, <1>5, <1>6, <1>7, <1>8, QuietStep DEF Kept

(* A comma, a colon or white space.                                        *)
LEMMA SeparatorKept ==
  ASSUME IInv, config' = config, Separator
  PROVE  Kept
<1>1. /\ parser \in Parsers /\ parser.errcode = Success /\ Fits(parser)
  BY TurnFacts DEF Separator
<1> DEFINE closer == parser.nesting_stack[Len(parser.nesting_stack)]
           q(state) == [parser EXCEPT !.state = state]
<1>2. PICK state \in {{"VALUE"}, {"KEY"}} :
        /\ Becomes(Past(q(state)))
        /\ \/ "COMMA" \in parser.state /\ state = IF closer = CloseArray THEN {"VALUE"} ELSE {"KEY"}
           \/ "COLON" \in parser.state /\ state = {"VALUE"}
  <2>1. CASE /\ "COMMA" \in parser.state
             /\ Becomes(Past(q(IF closer = CloseArray THEN {"VALUE"} ELSE {"KEY"})))
    BY <2>1
  <2>2. CASE "COLON" \in parser.state /\ Becomes(Past(q({"VALUE"})))
    BY <2>2
  <2> QED
    BY <2>1, <2>2 DEF Separator
<1>3. state \in States
  BY DEF States
<1>4. /\ q(state) \in Parsers /\ q(state).pos = parser.pos /\ q(state).value_pos = parser.value_pos
      /\ q(state).run = parser.run /\ q(state).nesting_stack = parser.nesting_stack
      /\ q(state).automaton = parser.automaton /\ q(state).state = state
  BY <1>1, <1>3 DEF Parsers
<1>5. parser.nesting_stack # <<>> /\ closer \in {CloseArray, CloseObject}
  <2>1. parser.nesting_stack # <<>>
    BY <1>1, <1>2 DEF Fits, StateFits, Inside
  <2>2. parser.nesting_stack \in Seq({CloseArray, CloseObject})
    BY <1>1 DEF Parsers
  <2> QED
    BY <2>1, <2>2, EmptySeq, ElementOfSeq
<1>6. StateFits(parser)
  BY <1>1 DEF Fits
<1>7. CASE "COMMA" \in parser.state /\ state = IF closer = CloseArray THEN {"VALUE"} ELSE {"KEY"}
  <2>1. ~Keyed
    BY <1>6, <1>7 DEF StateFits
  <2>2. StateFits(q(state))
    BY <1>4, <1>5, <1>7, <2>1 DEF StateFits, Inside, CloseArray, CloseObject
  <2> QED
    BY <1>2, <1>4, <2>2, PastTurn DEF Separator
<1>8. CASE "COLON" \in parser.state /\ state = {"VALUE"}
  <2>1. Inside(parser, CloseObject) /\ Keyed
    BY <1>6, <1>8 DEF StateFits
  <2>2. StateFits(q(state))
    BY <1>4, <1>8, <2>1 DEF StateFits, Inside
  <2> QED
    BY <1>2, <1>4, <2>2, PastTurn DEF Separator
<1> QED
  BY <1>2, <1>7, <1>8

(* A turn in which the control state stays as it is. *)
LEMMA SubTurn ==
  ASSUME IInv, config' = config, NEW automata, Turn(automata), NEW q \in Parsers, Becomes(q),
         Stays(parser, q), SequenceKept(q), q.pos.offset <= Len(text), q.run <= Len(text)
  PROVE  Kept
<1>1. /\ parser \in Parsers /\ parser.errcode = Success /\ UNCHANGED <<text, feeding, finished>>
      /\ text \in Seq(Byte) /\ parser.value_pos.offset <= Len(text) /\ Fits(parser)
  BY TurnFacts
<1>2. q.nesting_stack = parser.nesting_stack /\ q.state = parser.state /\ q.automaton = parser.automaton
      /\ q.value_pos = parser.value_pos
  BY DEF Stays
<1>3. StateFits(q) /\ AutomatonFits(q) /\ Depth = Len(q.nesting_stack)
  BY <1>1, <1>2, SameFits DEF Fits
<1>4. Bounded(q, Len(text))
  BY <1>1, <1>2 DEF Bounded
<1>5. feeding' \in BOOLEAN /\ finished' \in BOOLEAN
  BY <1>1 DEF IInv, TypeOK
<1>6. parser' = q /\ UNCHANGED events
  BY DEF Becomes
<1> QED
  BY <1>1, <1>2, <1>3, <1>4, <1>5, <1>6, QuietStep DEF Kept

(* A turn of the string automaton.                                         *)
LEMMA ReadsTurn ==
  ASSUME IInv, config' = config, NEW automata, Turn(automata), NEW q, Becomes(q), Reads(parser, q, Ch)
  PROVE  Kept
<1>1. /\ parser \in Parsers /\ text \in Seq(Byte) /\ Len(text) \in Nat /\ parser.pos.offset \in Nat
      /\ parser.pos \in Place3 /\ parser.pos.offset + 1 <= Len(text)
      /\ parser.run \in Nat /\ parser.run <= Len(text)
  BY TurnFacts
<1>2. q \in Parsers /\ Stays(parser, q) /\ SequenceKept(q)
  BY DEF Reads
<1>3. q.pos.offset <= Len(text) /\ q.run <= Len(text)
  <2>1. CASE q.pos = parser.pos /\ q.run \in {parser.run, parser.pos.offset}
    BY <1>1, <2>1
  <2>2. CASE q.pos = Along(parser.pos, 1) /\ q.run \in {parser.run, parser.pos.offset + 1}
    <3>1. Along(parser.pos, 1).offset = parser.pos.offset + 1
      BY <1>1, AlongType
    <3> QED
      BY <1>1, <2>2, <3>1
  <2> QED
    BY <2>1, <2>2 DEF Reads, MovesPast
<1> QED
  BY <1>2, <1>3, SubTurn

(* Another automaton begins at the value. *)
LEMMA SwitchTurn ==
  ASSUME IInv, config' = config, Turn({"MAIN"}), NEW automaton \in Automata, automaton # "MAIN",
         automaton = "KEY" => "KEY" \in parser.state,
         automaton # "KEY" => "VALUE" \in parser.state,
         \/ Becomes(json_switch_automaton(parser, automaton))
         \/ Becomes([Past(json_switch_automaton(parser, automaton)) EXCEPT !.run = parser.pos.offset + 1])
  PROVE  Kept
<1>1. /\ parser \in Parsers /\ parser.errcode = Success /\ UNCHANGED <<text, feeding, finished>>
      /\ text \in Seq(Byte) /\ Len(text) \in Nat /\ parser.pos.offset \in Nat /\ Ch \in Byte
      /\ parser.pos.offset <= Len(text) /\ parser.pos.offset + 1 <= Len(text)
      /\ Fits(parser)
  BY TurnFacts
<1> DEFINE s == json_switch_automaton(parser, automaton)
           o == parser.pos.offset + 1
           r == Past(s)
           q == [r EXCEPT !.run = o]
<1>2. /\ s \in Parsers /\ s.pos = parser.pos /\ s.value_pos = parser.pos
      /\ s.errcode = Success /\ s.nesting_stack = parser.nesting_stack /\ s.automaton = automaton
      /\ s.state = parser.state /\ s.substate = 0 /\ s.run = parser.pos.offset
  BY <1>1, SwitchType
<1>3. Becomes(s) \/ Becomes(q)
  OBVIOUS
<1> HIDE DEF s
<1>4. r \in Parsers /\ r.pos.offset = s.pos.offset + 1 /\ SameButPlace(s, r)
  BY <1>1, <1>2, PastType
<1>5. o \in Nat /\ o <= Len(text)
  BY <1>1
<1> HIDE DEF r, o
<1>6. /\ q \in Parsers /\ q.pos = r.pos /\ q.value_pos = r.value_pos /\ q.run = o
      /\ q.errcode = r.errcode /\ q.nesting_stack = r.nesting_stack /\ q.automaton = r.automaton
      /\ q.state = r.state /\ q.substate = r.substate
  BY <1>4, <1>5 DEF Parsers
<1> HIDE DEF q
<1>7. /\ q.value_pos = parser.pos /\ q.pos.offset = o /\ q.run = o /\ q.errcode = Success
      /\ q.nesting_stack = parser.nesting_stack /\ q.automaton = automaton
      /\ q.state = parser.state /\ q.substate = 0
  BY <1>2, <1>4, <1>6 DEF SameButPlace, o
<1>8. PICK p \in {s, q} : Becomes(p)
  BY <1>3
<1>9. /\ p \in Parsers /\ p.nesting_stack = parser.nesting_stack /\ p.automaton = automaton
      /\ p.state = parser.state /\ p.substate = 0 /\ Bounded(p, Len(text))
  BY <1>1, <1>2, <1>5, <1>6, <1>7 DEF Bounded
<1>10. SequenceKept(p)
  BY <1>9 DEF SequenceKept
<1>11. StateFits(p) /\ AutomatonFits(p) /\ Depth = Len(p.nesting_stack)
  <2>1. StateFits(p)
    BY <1>1, <1>9 DEF Fits, StateFits, Inside
  <2>2. AutomatonFits(p)
    BY <1>9 DEF AutomatonFits, Literals
  <2> QED
    BY <1>1, <1>9, <2>1, <2>2 DEF Fits
<1>12. feeding' \in BOOLEAN /\ finished' \in BOOLEAN
  BY <1>1 DEF IInv, TypeOK
<1>13. parser' = p /\ UNCHANGED events
  BY <1>8 DEF Becomes
<1> QED
  BY <1>1, <1>9, <1>10, <1>11, <1>12, <1>13, QuietStep DEF Kept

(* A literal, a number, a string or a key begins, or a byte is out of      *)
(* place.                                                                  *)
LEMMA StartScalarKept ==
  ASSUME IInv, config' = config, StartScalar
  PROVE  Kept
<1>1. Turn({"MAIN"})
  BY DEF StartScalar
<1>2. /\ {"STRING", "KEY", "NUMBER"} \subseteq Automata /\ DOMAIN Literals \subseteq Automata
      /\ "MAIN" \notin DOMAIN Literals /\ "KEY" \notin DOMAIN Literals
  BY DEF Automata, Literals
<1>3. CASE /\ "VALUE" \in parser.state
           /\ Becomes([Past(json_switch_automaton(parser, "STRING")) EXCEPT !.run = parser.pos.offset + 1])
  BY <1>1, <1>2, <1>3, SwitchTurn
<1>4. CASE /\ "KEY" \in parser.state
           /\ Becomes([Past(json_switch_automaton(parser, "KEY")) EXCEPT !.run = parser.pos.offset + 1])
  BY <1>1, <1>2, <1>4, SwitchTurn
<1>5. ASSUME "VALUE" \in parser.state, NEW type \in DOMAIN Literals,
             Becomes(json_switch_automaton(parser, type))
      PROVE  Kept
  BY <1>1, <1>2, <1>5, SwitchTurn
<1>6. CASE Becomes(json_raise(parser, "SYNTAX"))
  <2>1. "SYNTAX" \in ErrorNames
    BY DEF ErrorNames
  <2> QED
    BY <1>1, <1>6, <2>1, RaiseTurn
<1>7. CASE "VALUE" \in parser.state /\ Becomes(json_switch_automaton(parser, "NUMBER"))
  BY <1>1, <1>2, <1>7, SwitchTurn
<1> QED
  BY <1>3, <1>4, <1>5, <1>6, <1>7 DEF StartScalar

LEMMA OtherByteKept ==
  ASSUME IInv, config' = config, OtherByte
  PROVE  Kept
<1>1. Turn({"MAIN"})
  BY DEF OtherByte
<1>2. CASE Becomes(Past(parser))
  <2>1. parser \in Parsers /\ StateFits(parser)
    BY <1>1, TurnFacts DEF Fits
  <2> QED
    BY <1>1, <1>2, <2>1, PastTurn
<1>3. CASE Becomes(json_raise(parser, Unexpected(parser.state)))
  BY <1>1, <1>3, UnexpectedNames, RaiseTurn
<1> QED
  BY <1>2, <1>3 DEF OtherByte

(* A byte of a literal, of a number and of a string.                       *)
LEMMA LiteralByteKept ==
  ASSUME IInv, config' = config, LiteralByte
  PROVE  Kept
<1>1. /\ parser \in Parsers /\ parser.errcode = Success /\ UNCHANGED <<text, feeding, finished>>
      /\ text \in Seq(Byte) /\ Len(text) \in Nat /\ parser.pos.offset \in Nat
      /\ parser.pos \in Place3 /\ parser.value_pos \in Place3
      /\ parser.pos.offset + 1 <= Len(text)
      /\ parser.pos.offset <= Len(text) /\ parser.value_pos.offset <= Len(text) /\ parser.run <= Len(text)
      /\ Fits(parser) /\ parser.automaton \in DOMAIN Literals
  BY TurnFacts DEF LiteralByte
<1>2. Turn(DOMAIN Literals)
  BY DEF LiteralByte
<1>3. feeding' \in BOOLEAN /\ finished' \in BOOLEAN
  BY <1>1 DEF IInv, TypeOK
<1>4. "SYNTAX" \in ErrorNames
  BY DEF ErrorNames
<1>5. CASE Becomes([Advanced(parser) EXCEPT !.substate = parser.substate + 1])
  <2> DEFINE n == parser.substate + 1
             a == Advanced(parser)
             q == [a EXCEPT !.substate = n]
  <2>1. n \in Nat
    BY <1>1 DEF Parsers
  <2>2. a \in Parsers /\ a.pos.offset = parser.pos.offset + 1
    BY <1>1, AdvancedType
  <2>3. a = [parser EXCEPT !.pos = Along(parser.pos, 1)]
    BY <1>1 DEF Advanced, Parsers
  <2>4. /\ Stays(parser, a) /\ a.run = parser.run /\ a.automaton = parser.automaton
        /\ a.errcode = Success /\ a.err_pos = parser.err_pos
    BY <1>1, <2>3 DEF Parsers, Stays
  <2> HIDE DEF a, n
  <2>5. q \in Parsers /\ Stays(parser, q) /\ q.run = a.run /\ q.pos = a.pos /\ q.automaton = a.automaton
    BY <2>1, <2>2, <2>4 DEF Parsers, Stays
  <2>6. Becomes(q)
    BY <1>5 DEF q, a, n
  <2> HIDE DEF q
  <2>7. SequenceKept(q)
    BY <1>1, <2>4, <2>5 DEF SequenceKept, StringAutomata, Literals
  <2> QED
    BY <1>1, <1>2, <2>2, <2>4, <2>5, <2>6, <2>7, SubTurn
<1>6. CASE Becomes(json_raise_for_value(parser, "SYNTAX"))
  BY <1>2, <1>4, <1>6, RaiseTurn
<1>7. CASE json_process(parser, parser.automaton, <<>>, FALSE)
  <2>1. parser.automaton \in EventTypes /\ parser.automaton \in Scalars /\ <<>> \in Seq(Byte)
    BY <1>1 DEF EventTypes, Scalars
  <2>2. Bounded(parser, Len(text))
    BY <1>1 DEF Bounded
  <2>3. \/ IInv' /\ UNCHANGED Stream!vars
        \/ TypeOK' /\ Called(parser, parser.automaton, <<>>)
    BY <1>1, <1>3, <1>7, <2>1, <2>2, ProcessStep
  <2>4. "VALUE" \in parser.state
    BY <1>1 DEF Fits, AutomatonFits
  <2>5. CASE TypeOK' /\ Called(parser, parser.automaton, <<>>)
    <3>1. Fits(parser)' /\ Stream!Next
      BY <1>1, <2>1, <2>4, <2>5, ScalarReported DEF Called, IInv
    <3> QED
      BY <2>5, <3>1 DEF Kept, IInv, Control
  <2> QED
    BY <2>3, <2>5 DEF Kept
<1>8. CASE Becomes(json_raise([parser EXCEPT !.pos = parser.value_pos], "SYNTAX"))
  <2> DEFINE q == [parser EXCEPT !.pos = parser.value_pos]
  <2>1. /\ q \in Parsers /\ q.pos = parser.value_pos /\ q.value_pos = parser.value_pos
        /\ q.run = parser.run /\ q.errcode = Success /\ q.nesting_stack = parser.nesting_stack
    BY <1>1 DEF Parsers
  <2>2. parser' = json_raise_(q, "SYNTAX", q.pos) /\ UNCHANGED events
    BY <1>8 DEF Becomes, json_raise
  <2> HIDE DEF q
  <2>3. Bounded(q, Len(text))
    BY <1>1, <2>1 DEF Bounded
  <2> QED
    BY <1>1, <1>3, <1>4, <2>1, <2>2, <2>3, RaiseStep DEF Kept
<1> QED
  BY <1>5, <1>6, <1>7, <1>8 DEF LiteralByte

(* What may follow in a number.                                            *)
LEMMA NumberAfterType ==
  ASSUME NEW can_see, NEW ch
  PROVE  NumberAfter(can_see, ch) \in SUBSET NumberParts
BY DEF NumberAfter, NumberParts

(* A number or a string is reported. *)
LEMMA ScalarTurn ==
  ASSUME IInv, config' = config, NEW automata, Turn(automata), NEW p \in Parsers,
         NEW type \in Scalars \cup {"KEY"}, NEW data \in Seq(Byte),
         p.errcode = Success, Bounded(p, Len(text)), p.nesting_stack = parser.nesting_stack,
         type = "KEY" => "KEY" \in parser.state,
         type # "KEY" => "VALUE" \in parser.state,
         json_process(p, type, data, FALSE)
  PROVE  Kept
<1>1. /\ parser \in Parsers /\ parser.errcode = Success /\ UNCHANGED <<text, feeding, finished>>
      /\ text \in Seq(Byte) /\ Fits(parser)
  BY TurnFacts
<1>2. feeding' \in BOOLEAN /\ finished' \in BOOLEAN
  BY <1>1 DEF IInv, TypeOK
<1>3. type \in EventTypes
  BY DEF EventTypes, Scalars
<1>4. \/ IInv' /\ UNCHANGED Stream!vars
      \/ TypeOK' /\ Called(p, type, data)
  BY <1>1, <1>2, <1>3, ProcessStep
<1>5. StateAfter(p, type) = StateAfter(parser, type)
  BY DEF StateAfter
<1>6. CASE TypeOK' /\ Called(p, type, data)
  <2>1. CASE type # "KEY"
    <3>1. type \in Scalars
      BY <2>1
    <3>2. Fits(parser)' /\ Stream!Next
      BY <1>1, <1>5, <1>6, <2>1, <3>1, ScalarReported DEF Called, IInv
    <3> QED
      BY <1>6, <3>2 DEF Kept, IInv, Control
  <2>2. CASE type = "KEY"
    <3>1. Fits(parser)' /\ Stream!Next
      BY <1>1, <1>5, <1>6, <2>2, KeyReported DEF Called, IInv
    <3> QED
      BY <1>6, <3>1 DEF Kept, IInv, Control
  <2> QED
    BY <2>1, <2>2
<1> QED
  BY <1>4, <1>6 DEF Kept

LEMMA NumberByteKept ==
  ASSUME IInv, config' = config, NumberByte
  PROVE  Kept
<1>1. /\ parser \in Parsers /\ parser.errcode = Success /\ UNCHANGED <<text, feeding, finished>>
      /\ text \in Seq(Byte) /\ Len(text) \in Nat /\ parser.pos.offset \in Nat
      /\ parser.pos \in Place3 /\ parser.value_pos \in Place3
      /\ parser.pos.offset + 1 <= Len(text)
      /\ parser.pos.offset <= Len(text) /\ parser.value_pos.offset <= Len(text) /\ parser.run <= Len(text)
      /\ Fits(parser) /\ parser.automaton = "NUMBER"
  BY TurnFacts DEF NumberByte
<1>2. Turn({"NUMBER"})
  BY DEF NumberByte
<1>3. {"SYNTAX", "MAXNUMBERLEN", "OUTOFMEMORY"} \subseteq ErrorNames
  BY DEF ErrorNames
<1> DEFINE can_see == IF parser.can_see = {} THEN {"m_sign", "m_first_digit"} ELSE parser.can_see
           after == NumberAfter(can_see, Ch)
           a == Advanced(parser)
           read == [a EXCEPT !.can_see = after]
<1>4. \/ Becomes(read)
      \/ Becomes(json_raise_for_value(read, "MAXNUMBERLEN"))
      \/ json_process(parser, "NUMBER", Flushed(parser).buf, FALSE)
      \/ Becomes(json_raise(parser, "OUTOFMEMORY"))
      \/ Becomes(json_raise_for_value(parser, "SYNTAX"))
  BY DEF NumberByte
<1>5. after \in SUBSET NumberParts
  BY NumberAfterType
<1>6. a \in Parsers /\ a.pos.offset = parser.pos.offset + 1
  BY <1>1, AdvancedType
<1>7. a = [parser EXCEPT !.pos = Along(parser.pos, 1)]
  BY <1>1 DEF Advanced, Parsers
<1>8. /\ Stays(parser, a) /\ a.run = parser.run /\ a.automaton = "NUMBER"
      /\ a.errcode = Success /\ a.err_pos = parser.err_pos /\ a.value_pos = parser.value_pos
      /\ a.nesting_stack = parser.nesting_stack
  BY <1>1, <1>7 DEF Parsers, Stays
<1> HIDE DEF a, after
<1>9. /\ read \in Parsers /\ Stays(parser, read) /\ read.run = a.run /\ read.pos = a.pos
      /\ read.automaton = a.automaton /\ read.errcode = Success /\ read.value_pos = a.value_pos
      /\ read.nesting_stack = a.nesting_stack
  BY <1>5, <1>6, <1>8 DEF Parsers, Stays
<1> HIDE DEF read, can_see
<1>10. CASE Becomes(read)
  <2>1. SequenceKept(read)
    BY <1>8, <1>9 DEF SequenceKept, StringAutomata
  <2> QED
    BY <1>1, <1>2, <1>6, <1>8, <1>9, <1>10, <2>1, SubTurn
<1>11. CASE Becomes(json_raise_for_value(read, "MAXNUMBERLEN"))
  <2>1. parser' = json_raise_(read, "MAXNUMBERLEN", read.value_pos) /\ UNCHANGED events
    BY <1>11 DEF Becomes, json_raise_for_value
  <2>2. Bounded(read, Len(text)) /\ read.value_pos \in Place3
    BY <1>1, <1>6, <1>8, <1>9 DEF Bounded
  <2>3. feeding' \in BOOLEAN /\ finished' \in BOOLEAN
    BY <1>1 DEF IInv, TypeOK
  <2> QED
    BY <1>1, <1>3, <1>8, <1>9, <2>1, <2>2, <2>3, RaiseStep DEF Kept
<1>12. CASE json_process(parser, "NUMBER", Flushed(parser).buf, FALSE)
  <2>1. Flushed(parser).buf \in Seq(Byte)
    BY <1>1, FlushedType DEF Parsers
  <2>2. "VALUE" \in parser.state
    BY <1>1 DEF Fits, AutomatonFits
  <2>3. Bounded(parser, Len(text)) /\ "NUMBER" \in Scalars
    BY <1>1 DEF Bounded, Scalars
  <2> QED
    BY <1>1, <1>2, <1>12, <2>1, <2>2, <2>3, ScalarTurn
<1>13. CASE Becomes(json_raise(parser, "OUTOFMEMORY")) \/ Becomes(json_raise_for_value(parser, "SYNTAX"))
  BY <1>2, <1>3, <1>13, RaiseTurn
<1> QED
  BY <1>4, <1>10, <1>11, <1>12, <1>13

LEMMA StringByteKept ==
  ASSUME IInv, config' = config, StringByte
  PROVE  Kept
<1>1. /\ parser \in Parsers /\ parser.errcode = Success /\ UNCHANGED <<text, feeding, finished>>
      /\ text \in Seq(Byte) /\ Len(text) \in Nat /\ parser.pos.offset \in Nat
      /\ parser.pos.offset + 1 <= Len(text) /\ Ch \in Byte /\ SequenceKept(parser)
      /\ parser.automaton \in StringAutomata /\ parser.pos.offset <= Len(text)
  BY TurnFacts DEF StringByte, StringAutomata
<1>2. Turn({"STRING", "KEY"}) /\ ~(parser.substate = 0 /\ Ch = QuoteMark)
  BY DEF StringByte
<1> DEFINE read == StringRead(parser, Ch)
<1>3. StringInput(parser, Ch)
  BY <1>1, <1>2 DEF StringInput
<1>4. Reads(parser, read, Ch)
  BY <1>2, <1>3, StringReads
<1>5. \/ Becomes(read)
      \/ Becomes(json_raise_for_value(read, "MAXKEYLEN"))
      \/ Becomes(json_raise_for_value(read, "MAXSTRINGLEN"))
      \/ Becomes(json_raise(Rewound(parser), "OUTOFMEMORY"))
  BY DEF StringByte
<1> HIDE DEF read
<1>6. CASE Becomes(read)
  BY <1>2, <1>4, <1>6, ReadsTurn
<1>7. ASSUME NEW err \in ErrorNames, Becomes(json_raise_for_value(read, err))
      PROVE  Kept
  <2>1. Reads(parser, json_raise_(read, err, read.value_pos), Ch)
    BY <1>1, <1>4, RaiseReads DEF Reads
  <2> QED
    BY <1>2, <1>7, <2>1, ReadsTurn DEF json_raise_for_value
<1>8. {"MAXKEYLEN", "MAXSTRINGLEN"} \subseteq ErrorNames
  BY DEF ErrorNames
<1>9. CASE Becomes(json_raise(Rewound(parser), "OUTOFMEMORY"))
  <2>1. feeding' \in BOOLEAN /\ finished' \in BOOLEAN
    BY <1>1 DEF IInv, TypeOK
  <2> QED
    BY <1>1, <1>9, <2>1, NoMemoryStep DEF Becomes
<1> QED
  BY <1>5, <1>6, <1>7, <1>8, <1>9

(* The end of a string or a key, and the end of the document.              *)
LEMMA StringEndKept ==
  ASSUME IInv, config' = config, StringEnd
  PROVE  Kept
<1>1. /\ parser \in Parsers /\ parser.errcode = Success /\ UNCHANGED <<text, feeding, finished>>
      /\ text \in Seq(Byte) /\ Len(text) \in Nat /\ parser.pos.offset \in Nat
      /\ parser.pos.offset + 1 <= Len(text) /\ parser.value_pos.offset <= Len(text)
      /\ parser.run <= Len(text) /\ Fits(parser)
      /\ parser.automaton \in {"STRING", "KEY"} /\ parser.pos.offset <= Len(text)
  BY TurnFacts DEF StringEnd
<1>2. Turn({"STRING", "KEY"})
  BY DEF StringEnd
<1>3. CASE json_process(Advanced(parser), parser.automaton, Flushed(parser).buf, FALSE)
  <2> DEFINE a == Advanced(parser)
  <2>1. a \in Parsers /\ a.pos.offset = parser.pos.offset + 1
    BY <1>1, AdvancedType
  <2>2. a = [parser EXCEPT !.pos = Along(parser.pos, 1)]
    BY <1>1 DEF Advanced, Parsers
  <2>3. /\ a.run = parser.run /\ a.errcode = Success /\ a.value_pos = parser.value_pos
        /\ a.nesting_stack = parser.nesting_stack
    BY <1>1, <2>2 DEF Parsers
  <2> HIDE DEF a
  <2>4. Flushed(parser).buf \in Seq(Byte)
    BY <1>1, FlushedType DEF Parsers
  <2>5. Bounded(a, Len(text))
    BY <1>1, <2>1, <2>3 DEF Bounded
  <2>6. parser.automaton \in Scalars \cup {"KEY"}
    BY <1>1 DEF Scalars
  <2>7. AutomatonFits(parser)
    BY <1>1 DEF Fits
  <2>8. /\ parser.automaton = "KEY" => "KEY" \in parser.state
        /\ parser.automaton # "KEY" => "VALUE" \in parser.state
    BY <1>1, <2>7 DEF AutomatonFits
  <2>9. json_process(a, parser.automaton, Flushed(parser).buf, FALSE)
    BY <1>3 DEF a
  <2> QED
    BY <1>2, <2>1, <2>3, <2>4, <2>5, <2>6, <2>8, <2>9, ScalarTurn
<1>4. CASE Becomes(json_raise(Rewound(parser), "OUTOFMEMORY"))
  <2>1. feeding' \in BOOLEAN /\ finished' \in BOOLEAN
    BY <1>1 DEF IInv, TypeOK
  <2> QED
    BY <1>1, <1>4, <2>1, NoMemoryStep DEF Becomes
<1> QED
  BY <1>3, <1>4 DEF StringEnd

LEMMA FiniKept ==
  ASSUME IInv, config' = config, json_fini
  PROVE  Kept
<1>1. /\ parser \in Parsers /\ parser.pos.offset <= Len(text) /\ parser.value_pos.offset <= Len(text)
      /\ parser.run <= Len(text) /\ text \in Seq(Byte) /\ SequenceKept(parser)
      /\ parser.pos \in Place3 /\ parser.value_pos \in Place3 /\ parser.automaton \in Automata
      /\ parser.buf \in Seq(Byte)
  BY DEF IInv, TypeOK, Parsers
<1>2. UNCHANGED text /\ feeding' \in BOOLEAN /\ finished' \in BOOLEAN
  BY DEF json_fini, IInv, TypeOK
<1>3. Bounded(parser, Len(text))
  BY <1>1 DEF Bounded
<1>4. parser.errcode = Success => Fits(parser)
  BY DEF IInv, Control
<1>5. CASE Becomes(parser)
  <2>1. parser.errcode = Success =>
          Depth = Len(parser.nesting_stack) /\ StateFits(parser) /\ AutomatonFits(parser)
    BY <1>4 DEF Fits
  <2>2. parser' = parser /\ UNCHANGED events
    BY <1>5 DEF Becomes
  <2> QED
    BY <1>1, <1>2, <1>3, <2>1, <2>2, QuietStep DEF Kept
<1>6. ASSUME parser.errcode = Success, NEW err \in ErrorNames, NEW at \in {parser.pos, parser.value_pos},
             Becomes(json_raise_(parser, err, at))
      PROVE  Kept
  <2>1. at \in Place3
    BY <1>1, <1>6
  <2> QED
    BY <1>1, <1>2, <1>3, <1>6, <2>1, RaiseStep DEF Kept, Becomes
<1>7. ASSUME parser.errcode = Success, NEW type \in Scalars, parser.automaton = type,
             NEW data \in Seq(Byte), json_process(parser, type, data, FALSE)
      PROVE  Kept
  <2>1. type \in EventTypes /\ "VALUE" \in parser.state
    BY <1>4, <1>7 DEF EventTypes, Scalars, Fits, AutomatonFits
  <2>2. \/ IInv' /\ UNCHANGED Stream!vars
        \/ TypeOK' /\ Called(parser, type, data)
    BY <1>1, <1>2, <1>3, <1>7, <2>1, ProcessStep
  <2>3. CASE TypeOK' /\ Called(parser, type, data)
    <3>1. Fits(parser)' /\ Stream!Next
      BY <1>4, <1>7, <2>1, <2>3, ScalarReported DEF Called, IInv
    <3> QED
      BY <2>3, <3>1 DEF Kept, IInv, Control
  <2> QED
    BY <2>2, <2>3 DEF Kept
<1>8. {"SYNTAX", "UNCLOSEDSTRING"} \subseteq ErrorNames
  BY DEF ErrorNames
<1>9. CASE parser.errcode # Success
  BY <1>5, <1>9 DEF json_fini
<1>10. CASE parser.errcode = Success /\ parser.automaton = "MAIN"
  <2>1. Becomes(parser) \/ Becomes(json_raise(parser, Unexpected(parser.state)))
    BY <1>10 DEF json_fini, Literals
  <2> QED
    BY <1>5, <1>6, <1>10, <2>1, UnexpectedNames DEF json_raise
<1>11. CASE parser.errcode = Success /\ parser.automaton \in DOMAIN Literals
  <2>1. json_process(parser, parser.automaton, <<>>, FALSE)
    BY <1>11 DEF json_fini, Literals
  <2>2. parser.automaton \in Scalars /\ <<>> \in Seq(Byte)
    BY <1>11 DEF Scalars
  <2> QED
    BY <1>7, <1>11, <2>1, <2>2
<1>12. CASE parser.errcode = Success /\ parser.automaton = "NUMBER"
  <2>1. json_process(parser, "NUMBER", parser.buf, FALSE) \/ Becomes(json_raise_for_value(parser, "SYNTAX"))
    BY <1>12 DEF json_fini, Literals
  <2>2. "NUMBER" \in Scalars
    BY DEF Scalars
  <2> QED
    BY <1>1, <1>6, <1>7, <1>8, <1>12, <2>1, <2>2 DEF json_raise_for_value
<1>13. CASE parser.errcode = Success /\ parser.automaton \in {"STRING", "KEY"}
  <2>1. Becomes(json_raise_for_value(parser, "UNCLOSEDSTRING"))
    BY <1>13 DEF json_fini, Literals
  <2> QED
    BY <1>6, <1>8, <1>13, <2>1 DEF json_raise_for_value
<1>14. parser.automaton \in {"MAIN", "NUMBER", "STRING", "KEY"} \cup DOMAIN Literals
  BY <1>1 DEF Automata
<1> QED
  BY <1>9, <1>10, <1>11, <1>12, <1>13, <1>14

-----------------------------------------------------------------------------
(* The theorems *)

(* The invariant holds at first, and every step keeps it.                  *)
LEMMA InitHolds ==
  ASSUME Init
  PROVE  IInv /\ Stream!Init
<1> USE DEF Init
<1> DEFINE p == parser
<1>1. /\ p.pos = [offset |-> 0, line |-> 1, column |-> 1]
      /\ p.value_pos = [offset |-> 0, line |-> 0, column |-> 0]
      /\ p.err_pos = [offset |-> 0, line |-> 0, column |-> 0]
      /\ p.errcode = Success /\ p.value_counter = 0 /\ p.nesting_stack = <<>>
      /\ p.automaton = "MAIN" /\ p.state = {"VALUE"} /\ p.substate = 0 /\ p.can_see = {}
      /\ p.codepoint = <<0, 0>> /\ p.buf = <<>> /\ p.run = 0 /\ p.last_cl_offset = -2
  OBVIOUS
<1>2. /\ p.pos \in Place3 /\ p.value_pos \in Place3 /\ p.err_pos \in Place3
      /\ p.errcode \in Rets \cup ErrorNames /\ p.automaton \in Automata /\ p.state \in States
      /\ p.can_see \in SUBSET NumberParts /\ p.codepoint \in ({0} \cup HI_SURROGATE) \X Nat
  BY <1>1, ConfigAssumption DEF Place3, Automata, States
<1>3. p \in Parsers
  BY <1>1, <1>2 DEF Parsers
<1>4. text = <<>> /\ Len(text) = 0 /\ events = <<>> /\ text \in Seq(Byte) /\ events \in Seq(Events)
  OBVIOUS
<1>5. SequenceKept(p)
  BY <1>1 DEF SequenceKept, StringAutomata
<1>6. TypeOK
  <2>1. config \in Configs /\ feeding \in BOOLEAN /\ finished \in BOOLEAN
    OBVIOUS
  <2>2. p.pos.offset = 0 /\ p.value_pos.offset = 0 /\ p.run = 0
    BY <1>1
  <2> HIDE DEF Init
  <2> QED
    BY <1>3, <1>4, <1>5, <2>1, <2>2 DEF TypeOK
<1>7. Depth = 0 /\ ~Keyed
  <2>1. \A T : {k \in DOMAIN events : events[k].type \in T} = {}
    BY <1>4
  <2>2. Cardinality({}) = 0
    BY FS_EmptySet
  <2> QED
    BY <1>4, <2>1, <2>2 DEF Depth, Keyed
<1>8. Control
  BY <1>1, <1>4, <1>7 DEF Control, Fits, StateFits, AutomatonFits, Literals
<1>9. Types = <<>> /\ Open = <<>>
  BY <1>4, <1>7 DEF Types, Open
<1> QED
  BY <1>6, <1>7, <1>8, <1>9, StreamMeans DEF IInv

LEMMA StepHolds ==
  ASSUME IInv, [Next]_vars
  PROVE  Kept
<1>1. CASE Next
  <2>1. config' = config
    BY <1>1 DEF Next
  <2>2. ASSUME NEW ch \in Alphabet(config), NextByte(ch) PROVE Kept
    BY <2>1, <2>2, NextByteKept
  <2>3. ASSUME NEW n \in {config.max_total_len + 1 - parser.pos.offset} \cap (1 .. MaxChunk),
               NEW chunk \in [1 .. n -> Alphabet(config)], FeedTooMuch(chunk)
        PROVE  Kept
    BY <2>1, <2>3, FeedTooMuchKept
  <2>4. CASE EndOfChunk
    BY <2>1, <2>4, EndOfChunkKept
  <2>5. CASE OpenContainer
    BY <2>1, <2>5, OpenContainerKept
  <2>6. CASE CloseContainer
    BY <2>1, <2>6, CloseContainerKept
  <2>7. CASE Separator
    BY <2>1, <2>7, SeparatorKept
  <2>8. CASE StartScalar
    BY <2>1, <2>8, StartScalarKept
  <2>9. CASE OtherByte
    BY <2>1, <2>9, OtherByteKept
  <2>10. CASE LiteralByte
    BY <2>1, <2>10, LiteralByteKept
  <2>11. CASE NumberByte
    BY <2>1, <2>11, NumberByteKept
  <2>12. CASE StringByte
    BY <2>1, <2>12, StringByteKept
  <2>13. CASE StringEnd
    BY <2>1, <2>13, StringEndKept
  <2>14. CASE json_fini
    BY <2>1, <2>14, FiniKept
  <2> QED
    BY <1>1, <2>2, <2>3, <2>4, <2>5, <2>6, <2>7, <2>8, <2>9, <2>10, <2>11, <2>12, <2>13, <2>14
    DEF Next
<1>2. CASE UNCHANGED vars
  <2>1. TypeOK' /\ Control'
    BY <1>2 DEF vars, IInv, TypeOK, Control, Fits, StateFits, AutomatonFits, Inside, Keyed, Depth,
                SequenceKept, CanCut, Leads
  <2>2. UNCHANGED Stream!vars
    BY <1>2 DEF vars, Stream!vars, Depth
  <2> QED
    BY <2>1, <2>2 DEF Kept, IInv
<1> QED
  BY <1>1, <1>2

(* Whatever the chunks, the options and what the callback returns: every   *)
(* field of the parser stays in its range, the position never runs ahead   *)
(* of the bytes that were fed, and a UTF-8 sequence that is open can       *)
(* always be taken back (json_string_automaton() cuts it back to a leading *)
(* byte that it looks for without a bound).                                *)
THEOREM TypeCorrect == Spec => []TypeOK
<1>1. Init => IInv
  BY InitHolds
<1>2. IInv /\ [Next]_vars => IInv'
  BY StepHolds DEF Kept
<1>3. IInv => TypeOK
  BY DEF IInv
<1> QED
  BY <1>1, <1>2, <1>3, PTL DEF Spec

(* The callback is called the way json.h promises: with a stream of events *)
(* that nests, has a key before every value of an object and nowhere else, *)
(* and stops for good with the root. Every step of the parser is a step of *)
(* JsonEvents or none.                                                     *)
THEOREM EventStreamKept == Spec => IsEventStream
<1>1. Init => IInv /\ Stream!Init
  BY InitHolds
<1>2. IInv /\ [Next]_vars => IInv' /\ [Stream!Next]_(Stream!vars)
  BY StepHolds DEF Kept
<1> QED
  BY <1>1, <1>2, PTL DEF Spec, IsEventStream, Stream!Spec

(* The first error stays: after it json_feed() and json_fini() call no     *)
(* callback and change neither the error nor its place.                    *)
THEOREM ErrorFinal == Spec => ErrorIsFinal
<1> DEFINE Final == parser.errcode # Success =>
                      /\ UNCHANGED events
                      /\ parser'.errcode = parser.errcode /\ parser'.err_pos = parser.err_pos
<1>1. Init => IInv
  BY InitHolds
<1>2. IInv /\ [Next]_vars => IInv'
  BY StepHolds DEF Kept
<1>3. IInv /\ [Next]_vars => [Final]_vars
  <2> SUFFICES ASSUME IInv, Next, parser.errcode # Success
               PROVE  /\ UNCHANGED events
                      /\ parser'.errcode = parser.errcode /\ parser'.err_pos = parser.err_pos
    OBVIOUS
  <2>1. ASSUME NEW ch, NextByte(ch) PROVE parser' = parser /\ UNCHANGED events
    BY <2>1 DEF NextByte
  <2>2. ASSUME NEW n \in 1 .. MaxChunk, NEW chunk \in [1 .. n -> Alphabet(config)], FeedTooMuch(chunk)
        PROVE  SameButPlace(parser, parser') /\ UNCHANGED events
    <3>1. chunk \in Seq(Byte) /\ chunk # <<>>
      <4>1. n \in Nat /\ n >= 1 /\ Alphabet(config) \subseteq Byte
        BY ConfigAssumption DEF IInv, TypeOK, Byte
      <4>2. chunk \in Seq(Byte) /\ Len(chunk) = n
        BY <4>1
      <4> QED
        BY <4>1, <4>2, EmptySeq
    <3>2. parser \in Parsers
      BY DEF IInv, TypeOK
    <3>3. SameButPlace(parser, Moved(parser, chunk))
      BY <3>1, <3>2, MovedType
    <3>4. Moved(parser, chunk).errcode # Success
      BY <3>3 DEF SameButPlace
    <3>5. parser' = Moved(parser, chunk) /\ UNCHANGED events
      BY <2>2, <3>4 DEF FeedTooMuch, json_raise, json_raise_
    <3> QED
      BY <3>3, <3>5
  <2>3. CASE EndOfChunk
    BY <2>3 DEF EndOfChunk
  <2>4. CASE json_fini
    BY <2>4 DEF json_fini, Becomes
  <2>5. ASSUME NEW automata PROVE ~Turn(automata)
    BY DEF Turn, Reading
  <2>6. ~(OpenContainer \/ CloseContainer \/ Separator \/ StartScalar \/ OtherByte
          \/ LiteralByte \/ NumberByte \/ StringByte \/ StringEnd)
    BY <2>5 DEF OpenContainer, CloseContainer, Separator, StartScalar, OtherByte,
                LiteralByte, NumberByte, StringByte, StringEnd
  <2>7. Next
    OBVIOUS
  <2> QED
    BY <2>1, <2>2, <2>3, <2>4, <2>6, <2>7 DEF Next, SameButPlace
<1> QED
  BY <1>1, <1>2, <1>3, PTL DEF Spec, ErrorIsFinal

-----------------------------------------------------------------------------
(* Places of a text *)

(* The line ends before an offset, and those of them that begin a line:    *)
(* not the second byte of "\r\n".                                          *)
Ends(t, o) == {k \in 1 .. o : t[k] \in LineEnds}
Counted(t, o) == {k \in Ends(t, o) : ~(t[k] = NewLine /\ k - 1 \in Ends(t, o) /\ t[k - 1] = Return)}
LastEnd(t, o) == CHOOSE k \in Ends(t, o) \cup {0} : \A j \in Ends(t, o) : j <= k
(* The place of an offset of a text, counted from the text alone.          *)
PlaceIn(t, o) ==
  [offset |-> o, line |-> 1 + Cardinality(Counted(t, o)), column |-> o - LastEnd(t, o) + 1]

(* A place that is counted right.                                          *)
RightAt(t, place) == place = PlaceIn(t, place.offset)

(* last_cl_offset tells whether the byte before the position is "\r".      *)
KnowsReturn(t, p) ==
  /\ p.last_cl_offset <= p.pos.offset
  /\ p.last_cl_offset = p.pos.offset <=> p.pos.offset >= 1 /\ t[p.pos.offset] = Return

(* The bytes of a string that are not in buf yet are in one line. *)
RunInLine(t, p) ==
  p.automaton \in StringAutomata =>
    p.run <= p.pos.offset /\ \A k \in p.run + 1 .. p.pos.offset : t[k] \notin LineEnds

(* There is a value_pos. *)
HasValue(p) == p.automaton # "MAIN" \/ p.value_counter > 0

(* The inductive invariant of a parser over a text.                        *)
Sound(t, p) ==
  /\ RightAt(t, p.pos)
  /\ HasValue(p) => RightAt(t, p.value_pos)
  /\ p.errcode \notin Rets => RightAt(t, p.err_pos) /\ p.err_pos.offset <= Len(t)
  /\ p.errcode = Success => KnowsReturn(t, p) /\ RunInLine(t, p)

(* The position, the value and the error are where the text says, and all  *)
(* bytes that were fed were read between two chunks.                       *)
PlaceInv ==
  /\ Sound(text, parser)
  /\ parser.errcode = Success /\ ~feeding => parser.pos.offset = Len(text)

(* The two places where json.c counts otherwise: see the README.           *)
RootContainersAllowed ==
  \A c \in Configs : c.flags \cap {"NOARRAYASROOT", "NOOBJECTASROOT"} = {}

(* A chunk that is too long as a whole is fed before any error and has no  *)
(* line end.                                                               *)
LongChunksInLine ==
  text' # text /\ ~feeding' =>
    parser.errcode = Success /\ \A k \in Len(text) + 1 .. Len(text') : text'[k] \notin LineEnds

(* Place is PlaceIn, of the bytes that were fed.                           *)
LEMMA PlaceIsPlaceIn ==
  ASSUME NEW o
  PROVE  Place(o) = PlaceIn(text, o)
<1>1. Ends(text, o) = {k \in 1 .. o : text[k] \in {Return, NewLine}}
  BY DEF Ends, LineEnds
<1> QED
  BY <1>1 DEF Place, PlaceIn, Counted, LastEnd

(* The line ends before an offset, and the last one.                       *)
LEMMA EndsFinite ==
  ASSUME NEW t, NEW o \in Nat
  PROVE  /\ Ends(t, o) \subseteq 1 .. o /\ Counted(t, o) \subseteq 1 .. o
         /\ IsFiniteSet(Counted(t, o)) /\ Cardinality(Counted(t, o)) \in Nat
<1>1. Ends(t, o) \subseteq 1 .. o /\ Counted(t, o) \subseteq 1 .. o
  BY DEF Ends, Counted
<1>2. IsFiniteSet(1 .. o)
  BY FS_Interval
<1> QED
  BY <1>1, <1>2, FS_Subset, FS_CardinalityType

(* The last line end is the one that LastEnd chooses.                      *)
LEMMA LastEndIs ==
  ASSUME NEW t, NEW o \in Nat
  PROVE  /\ LastEnd(t, o) \in Ends(t, o) \cup {0} /\ \A j \in Ends(t, o) : j <= LastEnd(t, o)
         /\ LastEnd(t, o) \in 0 .. o
<1> DEFINE T == {o - k : k \in Ends(t, o) \cup {0}}
<1>1. Ends(t, o) \subseteq 1 .. o
  BY EndsFinite
<1>2. T \subseteq Nat /\ T # {}
  BY <1>1
<1>3. PICK n \in T : \A m \in T : n <= m
  <2> HIDE DEF T
  <2> QED
    BY <1>2, LeastNumber
<1>4. PICK k \in Ends(t, o) \cup {0} : n = o - k
  BY <1>3
<1>5. ASSUME NEW j \in Ends(t, o)
      PROVE  j <= k
  <2>1. o - j \in T
    OBVIOUS
  <2>2. o - k <= o - j
    BY <1>3, <1>4, <2>1
  <2>3. j \in Int /\ k \in Int
    BY <1>1, <1>4
  <2> QED
    BY <2>2, <2>3
<1>6. LastEnd(t, o) \in Ends(t, o) \cup {0} /\ \A j \in Ends(t, o) : j <= LastEnd(t, o)
  BY <1>4, <1>5 DEF LastEnd
<1> QED
  BY <1>1, <1>6

LEMMA PlaceInType ==
  ASSUME NEW t, NEW o \in Nat
  PROVE  /\ PlaceIn(t, o) \in Place3 /\ PlaceIn(t, o).offset = o
         /\ PlaceIn(t, o).line = 1 + Cardinality(Counted(t, o))
         /\ PlaceIn(t, o).column = o - LastEnd(t, o) + 1
<1>1. Cardinality(Counted(t, o)) \in Nat /\ LastEnd(t, o) \in 0 .. o
  BY EndsFinite, LastEndIs
<1> DEFINE l == 1 + Cardinality(Counted(t, o))
           c == o - LastEnd(t, o) + 1
<1>2. l \in Nat /\ c \in Int
  BY <1>1
<1>3. PlaceIn(t, o) = [offset |-> o, line |-> l, column |-> c]
  BY DEF PlaceIn
<1> HIDE DEF l, c
<1>4. PlaceIn(t, o) \in Place3 /\ PlaceIn(t, o).offset = o /\ PlaceIn(t, o).line = l /\ PlaceIn(t, o).column = c
  BY <1>2, <1>3 DEF Place3
<1> QED
  BY <1>4 DEF l, c

(* Two places with the same fields.                                        *)
LEMMA SamePlace ==
  ASSUME NEW a \in Place3, NEW b \in Place3, a.offset = b.offset, a.line = b.line, a.column = b.column
  PROVE  a = b
BY DEF Place3

(* The place of an offset is that of the text before it. *)
LEMMA PlaceBefore ==
  ASSUME NEW t, NEW u, NEW o \in Nat, \A k \in 1 .. o : t[k] = u[k]
  PROVE  PlaceIn(t, o) = PlaceIn(u, o)
<1>1. Ends(t, o) = Ends(u, o)
  BY DEF Ends
<1>2. Counted(t, o) = Counted(u, o)
  <2>1. \A k \in Ends(t, o) : t[k] = u[k]
    BY DEF Ends
  <2> QED
    BY <1>1, <2>1 DEF Counted
<1> QED
  BY <1>1, <1>2 DEF PlaceIn, LastEnd

(* Bytes that are no line ends move the place along its line. *)
LEMMA PlaceAlong ==
  ASSUME NEW t, NEW o \in Nat, NEW n \in Nat, \A k \in o + 1 .. o + n : t[k] \notin LineEnds
  PROVE  PlaceIn(t, o + n) = Along(PlaceIn(t, o), n)
<1>1. Ends(t, o + n) = Ends(t, o)
  BY DEF Ends
<1>2. Counted(t, o + n) = Counted(t, o) /\ LastEnd(t, o + n) = LastEnd(t, o)
  BY <1>1 DEF Counted, LastEnd
<1>3. LastEnd(t, o) \in Int
  BY LastEndIs
<1> DEFINE here == PlaceIn(t, o)
           there == PlaceIn(t, o + n)
<1>4. /\ here \in Place3 /\ here.offset = o /\ here.line = 1 + Cardinality(Counted(t, o))
      /\ here.column = o - LastEnd(t, o) + 1
  BY PlaceInType
<1>5. o + n \in Nat
  OBVIOUS
<1>6. /\ there \in Place3 /\ there.offset = o + n /\ there.line = 1 + Cardinality(Counted(t, o))
      /\ there.column = o + n - LastEnd(t, o) + 1
  <2> DEFINE e == o + n
  <2>1. e \in Nat
    OBVIOUS
  <2> HIDE DEF e
  <2>2. /\ PlaceIn(t, e) \in Place3 /\ PlaceIn(t, e).offset = e
        /\ PlaceIn(t, e).line = 1 + Cardinality(Counted(t, e))
        /\ PlaceIn(t, e).column = e - LastEnd(t, e) + 1
    BY <2>1, PlaceInType
  <2>3. Counted(t, e) = Counted(t, o) /\ LastEnd(t, e) = LastEnd(t, o) /\ there = PlaceIn(t, e)
        /\ e = o + n
    BY <1>2 DEF e
  <2> HIDE DEF there
  <2>4. there.column = e - LastEnd(t, o) + 1 /\ there.offset = e
    BY <2>2, <2>3
  <2>5. there \in Place3 /\ there.line = 1 + Cardinality(Counted(t, o))
    BY <2>2, <2>3
  <2> QED
    BY <1>3, <2>3, <2>4, <2>5
<1> HIDE DEF here, there
<1>7. /\ Along(here, n) \in Place3 /\ Along(here, n).offset = here.offset + n
      /\ Along(here, n).line = here.line /\ Along(here, n).column = here.column + n
  BY <1>4, <1>5, AlongType
<1>8. there.column = here.column + n
  BY <1>3, <1>4, <1>6
<1>9. there = Along(here, n)
  BY <1>4, <1>6, <1>7, <1>8, SamePlace
<1> QED
  BY <1>9 DEF here, there

LEMMA LastEndHere ==
  ASSUME NEW t, NEW o \in Nat, t[o + 1] \in LineEnds
  PROVE  LastEnd(t, o + 1) = o + 1 /\ Ends(t, o + 1) = Ends(t, o) \cup {o + 1}
<1>1. Ends(t, o + 1) = Ends(t, o) \cup {o + 1}
  BY DEF Ends
<1>2. /\ LastEnd(t, o + 1) \in 0 .. o + 1 /\ \A j \in Ends(t, o + 1) : j <= LastEnd(t, o + 1)
  BY LastEndIs
<1>3. o + 1 <= LastEnd(t, o + 1)
  BY <1>1, <1>2
<1> QED
  BY <1>1, <1>2, <1>3

(* A line end begins a line, unless it is the second byte of "\r\n".       *)
LEMMA PlaceBelow ==
  ASSUME NEW t, NEW o \in Nat, t[o + 1] \in LineEnds
  PROVE  PlaceIn(t, o + 1) =
           Below(Along(PlaceIn(t, o), 1),
                 IF t[o + 1] = NewLine /\ o >= 1 /\ t[o] = Return THEN 0 ELSE 1)
<1> DEFINE second == t[o + 1] = NewLine /\ o >= 1 /\ t[o] = Return
           n == IF second THEN 0 ELSE 1
           old == Cardinality(Counted(t, o))
           new == Cardinality(Counted(t, o + 1))
<1>1. LastEnd(t, o + 1) = o + 1 /\ Ends(t, o + 1) = Ends(t, o) \cup {o + 1}
  BY LastEndHere
<1>2. Ends(t, o) \subseteq 1 .. o /\ IsFiniteSet(Counted(t, o)) /\ old \in Nat
      /\ Counted(t, o) \subseteq 1 .. o
  BY EndsFinite
<1>3. ASSUME NEW k \in 1 .. o
      PROVE  k \in Counted(t, o + 1) <=> k \in Counted(t, o)
  BY <1>1, <1>2 DEF Counted
<1>4. o + 1 \in Counted(t, o + 1) <=> ~second
  <2>1. o >= 1 /\ t[o] = Return => o \in Ends(t, o)
    BY DEF Ends, LineEnds
  <2>2. o \in Ends(t, o + 1) => o >= 1
    BY <1>1, <1>2
  <2>3. o + 1 \in Ends(t, o + 1) /\ o + 1 - 1 = o
    BY <1>1
  <2> QED
    BY <1>1, <2>1, <2>2, <2>3 DEF Counted
<1>5. Counted(t, o + 1) \subseteq 1 .. o + 1
  BY EndsFinite
<1>6. Counted(t, o + 1) = IF second THEN Counted(t, o) ELSE Counted(t, o) \cup {o + 1}
  <2> HIDE DEF second
  <2>1. \A k : k \in 1 .. o + 1 <=> k \in 1 .. o \/ k = o + 1
    OBVIOUS
  <2>2. o + 1 \notin 1 .. o
    OBVIOUS
  <2>3. ASSUME NEW k
        PROVE  k \in Counted(t, o + 1) <=> k \in Counted(t, o) \/ (k = o + 1 /\ ~second)
    BY <1>2, <1>3, <1>4, <1>5, <2>1, <2>2
  <2> QED
    BY <2>3
<1>7. new = old + n
  <2>0. o + 1 \notin Counted(t, o)
    BY <1>2
  <2>1. Cardinality(Counted(t, o) \cup {o + 1}) = old + 1
    BY <1>2, <2>0, FS_AddElement
  <2> QED
    BY <1>2, <1>6, <2>1
<1> DEFINE here == PlaceIn(t, o)
           there == PlaceIn(t, o + 1)
           behind == Along(here, 1)
<1>8. here \in Place3 /\ here.offset = o /\ here.line = 1 + old
  BY PlaceInType
<1>9. /\ there \in Place3 /\ there.offset = o + 1 /\ there.line = 1 + new
      /\ there.column = o + 1 - (o + 1) + 1
  BY <1>1, PlaceInType
<1>10. n \in Nat
  OBVIOUS
<1> HIDE DEF here, there, new, old, n
<1>11. behind \in Place3 /\ behind.offset = o + 1 /\ behind.line = here.line
  BY <1>8, AlongType
<1> HIDE DEF behind
<1>12. /\ Below(behind, n) \in Place3 /\ Below(behind, n).offset = o + 1
       /\ Below(behind, n).line = here.line + n /\ Below(behind, n).column = 1
  BY <1>10, <1>11, BelowType
<1>13. there.line = Below(behind, n).line /\ there.column = 1
  BY <1>2, <1>7, <1>8, <1>9, <1>10, <1>12
<1>14. there = Below(behind, n)
  BY <1>9, <1>12, <1>13, SamePlace
<1> QED
  BY <1>14 DEF here, there, behind, n

(* Hence the position stays right behind a byte,                           *)
LEMMA NextRight ==
  ASSUME NEW t, NEW place \in Place3, RightAt(t, place), t[place.offset + 1] \notin LineEnds
  PROVE  RightAt(t, Along(place, 1))
<1>1. place.offset \in Nat /\ place = PlaceIn(t, place.offset)
  BY PlaceFields DEF RightAt
<1>2. Along(place, 1).offset = place.offset + 1
  BY <1>1, AlongType
<1>3. \A k \in place.offset + 1 .. place.offset + 1 : t[k] \notin LineEnds
  BY <1>1
<1>4. PlaceIn(t, place.offset + 1) = Along(PlaceIn(t, place.offset), 1)
  BY <1>1, <1>3, PlaceAlong
<1> QED
  BY <1>1, <1>2, <1>4 DEF RightAt

(* and when it goes back in a line.                                        *)
LEMMA RewindRight ==
  ASSUME NEW t, NEW place \in Place3, RightAt(t, place), NEW run \in Nat, run <= place.offset,
         \A k \in run + 1 .. place.offset : t[k] \notin LineEnds
  PROVE  RightAt(t, Along(place, run - place.offset))
<1> DEFINE n == place.offset - run
           m == run - place.offset
           first == PlaceIn(t, run)
           back == Along(place, m)
<1>1. place.offset \in Nat /\ place = PlaceIn(t, place.offset)
  BY PlaceFields DEF RightAt
<1>2. n \in Nat /\ run + n = place.offset /\ m \in Int /\ m = 0 - n /\ place.offset + m = run
  <2>1. \A o \in Nat : run <= o =>
          /\ o - run \in Nat /\ run + (o - run) = o
          /\ run - o \in Int /\ run - o = 0 - (o - run) /\ o + (run - o) = run
    OBVIOUS
  <2> QED
    BY <1>1, <2>1
<1>3. place = Along(first, n)
  <2> HIDE DEF n, first
  <2>1. \A k \in run + 1 .. run + n : t[k] \notin LineEnds
    BY <1>2
  <2>2. PlaceIn(t, run + n) = Along(PlaceIn(t, run), n)
    BY <1>2, <2>1, PlaceAlong
  <2>3. PlaceIn(t, run + n) = place
    BY <1>1, <1>2
  <2> QED
    BY <2>2, <2>3 DEF first
<1> HIDE DEF n, m
<1>4. first \in Place3 /\ first.offset = run
  BY PlaceInType
<1> HIDE DEF first
<1>5. place.offset = first.offset + n /\ place.line = first.line /\ place.column = first.column + n
  BY <1>2, <1>3, <1>4, AlongType
<1>6. /\ back \in Place3 /\ back.offset = run /\ back.line = place.line
      /\ back.column = place.column + m
  BY <1>2, AlongType
<1> HIDE DEF back
<1>7. first.column \in Int
  BY <1>4, PlaceFields
<1>8. back.column = first.column
  BY <1>2, <1>5, <1>6, <1>7
<1>9. back = first
  BY <1>4, <1>5, <1>6, <1>8, SamePlace
<1> QED
  BY <1>6, <1>9 DEF RightAt, first, back, m

(* Going past a byte, line end or not. *)
LEMMA PassedRight ==
  ASSUME NEW t, NEW p \in Parsers, NEW ch \in Byte, t[p.pos.offset + 1] = ch,
         RightAt(t, p.pos), KnowsReturn(t, p)
  PROVE  LET r == json_handle_new_line(Advanced(p), ch)
         IN  RightAt(t, r.pos) /\ KnowsReturn(t, r)
<1> DEFINE a == Advanced(p)
           r == json_handle_new_line(a, ch)
           o == p.pos.offset
<1>1. p.pos \in Place3 /\ o \in Nat /\ p.last_cl_offset \in Int /\ p.pos = PlaceIn(t, o)
  BY DEF Parsers, Place3, RightAt
<1>2. a \in Parsers /\ a.pos = Along(p.pos, 1) /\ a.pos.offset = o + 1
  BY AdvancedType
<1>3. a.last_cl_offset = p.last_cl_offset
  BY <1>2 DEF Advanced, Parsers
<1>4. r \in Parsers /\ r.pos.offset = o + 1
  BY <1>2, PassedType
<1>5. /\ p.last_cl_offset <= o
      /\ p.last_cl_offset = o <=> o >= 1 /\ t[o] = Return
  BY DEF KnowsReturn
<1> HIDE DEF a
<1>6. CASE ch \notin LineEnds
  <2>1. r = a
    BY <1>6 DEF json_handle_new_line, LineEnds
  <2>2. RightAt(t, a.pos)
    BY <1>1, <1>2, <1>6, NextRight
  <2>3. KnowsReturn(t, a)
    BY <1>1, <1>2, <1>3, <1>5, <1>6 DEF KnowsReturn, LineEnds
  <2> QED
    BY <2>1, <2>2, <2>3 DEF a
<1>7. CASE ch = Return
  <2>1. r = [a EXCEPT !.pos = Below(a.pos, 1), !.last_cl_offset = a.pos.offset]
    BY <1>2, <1>7 DEF json_handle_new_line, Return, NewLine, Parsers
  <2>2. r.pos = Below(a.pos, 1) /\ r.last_cl_offset = o + 1
    BY <1>2, <2>1 DEF Parsers
  <2>3. PlaceIn(t, o + 1) = Below(Along(PlaceIn(t, o), 1), 1)
    <3>1. t[o + 1] \in LineEnds /\ t[o + 1] # NewLine
      BY <1>7 DEF LineEnds, Return, NewLine
    <3> QED
      BY <1>1, <3>1, PlaceBelow
  <2>4. RightAt(t, r.pos)
    BY <1>1, <1>2, <1>4, <2>2, <2>3 DEF RightAt
  <2>5. KnowsReturn(t, r)
    BY <1>1, <1>4, <1>7, <2>2 DEF KnowsReturn
  <2> QED
    BY <2>4, <2>5 DEF a
<1>8. CASE ch = NewLine
  <2> DEFINE n == IF o + 1 = p.last_cl_offset + 1 THEN 0 ELSE 1
  <2>1. r = [a EXCEPT !.pos = Below(a.pos, n)]
    <3>1. ch # Return
      BY <1>8 DEF Return, NewLine
    <3> HIDE DEF a
    <3>2. r = [a EXCEPT !.pos = Below(a.pos, IF a.pos.offset = a.last_cl_offset + 1 THEN 0 ELSE 1)]
      BY <1>8, <3>1 DEF json_handle_new_line
    <3>3. n = IF a.pos.offset = a.last_cl_offset + 1 THEN 0 ELSE 1
      BY <1>2, <1>3
    <3> QED
      BY <3>2, <3>3
  <2>2. n = IF t[o + 1] = NewLine /\ o >= 1 /\ t[o] = Return THEN 0 ELSE 1
    BY <1>1, <1>5, <1>8
  <2> HIDE DEF n
  <2>3. r.pos = Below(a.pos, n) /\ r.last_cl_offset = p.last_cl_offset
    BY <1>2, <1>3, <2>1 DEF Parsers
  <2>4. PlaceIn(t, o + 1) = Below(Along(PlaceIn(t, o), 1), n)
    <3>1. t[o + 1] \in LineEnds
      BY <1>8 DEF LineEnds
    <3> QED
      BY <1>1, <2>2, <3>1, PlaceBelow
  <2>5. RightAt(t, r.pos)
    BY <1>1, <1>2, <1>4, <2>3, <2>4 DEF RightAt
  <2>6. KnowsReturn(t, r)
    BY <1>1, <1>4, <1>5, <1>8, <2>3 DEF KnowsReturn, Return, NewLine
  <2> QED
    BY <2>5, <2>6 DEF a
<1> QED
  BY <1>6, <1>7, <1>8 DEF LineEnds

(* An error at a right place, a turn of a sub-automaton and json_process() *)
(* keep Sound.                                                             *)
LEMMA RaiseSound ==
  ASSUME NEW t, NEW q \in Parsers, q.errcode = Success, RightAt(t, q.pos),
         HasValue(q) => RightAt(t, q.value_pos),
         NEW err \in ErrorNames, NEW at \in Place3, RightAt(t, at), at.offset <= Len(t)
  PROVE  Sound(t, json_raise_(q, err, at))
<1> DEFINE r == json_raise_(q, err, at)
<1>1. /\ r \in Parsers /\ r.errcode = err /\ r.errcode # Success /\ r.err_pos = at
      /\ r.pos = q.pos /\ r.value_pos = q.value_pos /\ r.run = q.run
      /\ r.nesting_stack = q.nesting_stack /\ r.state = q.state /\ r.automaton = q.automaton
      /\ r.last_cl_offset = q.last_cl_offset /\ r.value_counter = q.value_counter
  BY RaiseType
<1> HIDE DEF r
<1>2. Sound(t, r)
  BY <1>1 DEF Sound, HasValue
<1> QED
  BY <1>2 DEF r

(* A turn of an automaton for strings or numbers. *)
LEMMA StaysSound ==
  ASSUME NEW t, NEW p \in Parsers, NEW q \in Parsers, Sound(t, p), p.errcode = Success,
         p.automaton # "MAIN", p.pos.offset + 1 <= Len(t), Len(t) \in Nat,
         p.value_pos.offset <= Len(t),
         Stays(p, q),
         \/ q.pos = p.pos /\ q.run \in {p.run, p.pos.offset}
         \/ /\ q.pos = Along(p.pos, 1) /\ q.run \in {p.run, p.pos.offset + 1}
            /\ t[p.pos.offset + 1] \notin LineEnds
  PROVE  Sound(t, q)
<1> DEFINE o == p.pos.offset
<1>1. p.pos \in Place3 /\ o \in Nat /\ p.run \in Nat /\ p.last_cl_offset \in Int
  BY DEF Parsers, Place3
<1>2. RightAt(t, p.pos) /\ RightAt(t, p.value_pos) /\ KnowsReturn(t, p) /\ RunInLine(t, p)
  BY DEF Sound, HasValue
<1>3. Along(p.pos, 1).offset = o + 1
  BY <1>1, AlongType
<1>4. RightAt(t, q.pos) /\ q.pos.offset \in {o, o + 1}
  BY <1>1, <1>2, <1>3, NextRight
<1>5. q.value_pos = p.value_pos /\ q.automaton = p.automaton /\ q.last_cl_offset = p.last_cl_offset
      /\ (IF q.errcode = Success THEN q.err_pos = p.err_pos ELSE q.err_pos \in {q.pos, q.value_pos})
  BY DEF Stays
<1>6. q.errcode \notin Rets => RightAt(t, q.err_pos) /\ q.err_pos.offset <= Len(t)
  <2>1. q.errcode \notin Rets => q.errcode # Success
    BY ConfigAssumption
  <2> QED
    BY <1>1, <1>2, <1>4, <1>5, <2>1
<1>7. KnowsReturn(t, q)
  <2>1. CASE q.pos = p.pos
    BY <1>2, <1>5, <2>1 DEF KnowsReturn
  <2>2. CASE q.pos = Along(p.pos, 1) /\ t[o + 1] \notin LineEnds
    BY <1>1, <1>2, <1>3, <1>5, <2>2 DEF KnowsReturn, LineEnds
  <2> QED
    BY <2>1, <2>2
<1>8. RunInLine(t, q)
  <2>1. CASE q.pos = p.pos /\ q.run \in {p.run, o}
    BY <1>1, <1>2, <1>5, <2>1 DEF RunInLine
  <2>2. CASE q.pos = Along(p.pos, 1) /\ q.run \in {p.run, o + 1} /\ t[o + 1] \notin LineEnds
    BY <1>1, <1>2, <1>3, <1>5, <2>2 DEF RunInLine
  <2> QED
    BY <2>1, <2>2
<1> QED
  BY <1>2, <1>4, <1>5, <1>6, <1>7, <1>8 DEF Sound

LEMMA ProcessSound ==
  ASSUME RootContainersAllowed, IInv, NEW p \in Parsers, p.errcode = Success,
         RightAt(text, p.pos), HasValue(p) => RightAt(text, p.value_pos), KnowsReturn(text, p),
         p.value_pos.offset <= Len(text),
         NEW type, NEW data, p.automaton # "MAIN" \/ type \in Containers \cup Closers,
         NEW past \in BOOLEAN, past => Ch \in Byte /\ p.pos = parser.pos,
         json_process(p, type, data, past)
  PROVE  Sound(text, parser') /\ (~past => parser'.pos = p.pos)
<1>1. PICK q \in Parsers :
        /\ parser' = IF past THEN Past(q) ELSE q
        /\ q.pos = p.pos /\ q.last_cl_offset = p.last_cl_offset
        /\ Rejected(p, q, type) \/ Accepted(p, q, type, data)
  BY ProcessEffect
<1>2. /\ HasValue(q) => RightAt(text, q.value_pos)
      /\ q.errcode \notin Rets => RightAt(text, q.err_pos) /\ q.err_pos.offset <= Len(text)
      /\ q.errcode = Success => q.automaton = "MAIN"
  <2>1. CASE Rejected(p, q, type)
    <3>1. HasValue(p)
      <4>1. p.value_counter \in Nat /\ config.max_total_values \in Nat
        BY ConfigAssumption DEF IInv, TypeOK, Parsers
      <4>2. CASE type \in Containers
        <5>1. ~BadRoot(type)
          <6>1. config \in Configs
            BY DEF IInv, TypeOK
          <6> QED
            BY <4>2, <6>1 DEF BadRoot, RootContainersAllowed, Containers
        <5>2. config.max_total_values # 0 /\ p.value_counter >= config.max_total_values
          BY <2>1, <5>1 DEF Rejected, Refusal
        <5> QED
          BY <4>1, <5>2 DEF HasValue
      <4>3. CASE type \notin Containers
        BY <2>1, <4>3 DEF Rejected, HasValue
      <4> QED
        BY <4>2, <4>3
    <3>2. q.errcode # Success
      BY <2>1 DEF Rejected, Success
    <3> QED
      BY <2>1, <3>1, <3>2 DEF Rejected, HasValue
  <2>2. CASE Accepted(p, q, type, data)
    BY <2>2 DEF Accepted
  <2> QED
    BY <1>1, <2>1, <2>2
<1>3. RightAt(text, q.pos) /\ KnowsReturn(text, q)
  BY <1>1 DEF KnowsReturn
<1>4. CASE ~past
  <2>1. Sound(text, q)
    BY <1>2, <1>3 DEF Sound, RunInLine, StringAutomata
  <2> QED
    BY <1>1, <1>4, <2>1
<1>5. CASE past
  <2> DEFINE r == Past(q)
  <2>1. text[q.pos.offset + 1] = Ch /\ Ch \in Byte
    BY <1>1, <1>5 DEF Ch
  <2>2. RightAt(text, r.pos) /\ KnowsReturn(text, r)
    BY <1>3, <2>1, PassedRight DEF Past
  <2>3. SameButPlace(q, r)
    BY <2>1, PastType
  <2>4. parser' = r
    BY <1>1, <1>5
  <2> HIDE DEF r
  <2>5. Sound(text, r)
    BY <1>2, <2>2, <2>3 DEF Sound, SameButPlace, HasValue, RunInLine, StringAutomata
  <2> QED
    BY <1>5, <2>4, <2>5
<1> QED
  BY <1>4, <1>5

(* More bytes behind the text change nothing.                              *)
LEMMA SoundExtends ==
  ASSUME NEW t, NEW u, Len(t) \in Nat, Len(u) \in Nat, Len(t) <= Len(u),
         \A k \in 1 .. Len(t) : u[k] = t[k],
         NEW p \in Parsers, Bounded(p, Len(t)), Sound(t, p)
  PROVE  Sound(u, p)
<1>1. ASSUME NEW place \in Place3, place.offset <= Len(t), RightAt(t, place)
      PROVE  RightAt(u, place)
  <2>1. place.offset \in Nat
    BY PlaceFields
  <2>2. \A k \in 1 .. place.offset : u[k] = t[k]
    BY <1>1, <2>1
  <2>3. PlaceIn(t, place.offset) = PlaceIn(u, place.offset)
    BY <2>1, <2>2, PlaceBefore
  <2> QED
    BY <1>1, <2>3 DEF RightAt
<1>2. /\ p.pos \in Place3 /\ p.value_pos \in Place3 /\ p.err_pos \in Place3
      /\ p.pos.offset \in Nat /\ p.err_pos.offset \in Nat /\ p.run \in Nat
  BY PlaceFields DEF Parsers
<1>3. p.pos.offset <= Len(t) /\ p.value_pos.offset <= Len(t)
  BY DEF Bounded
<1>4. /\ RightAt(u, p.pos)
      /\ HasValue(p) => RightAt(u, p.value_pos)
      /\ p.errcode \notin Rets => RightAt(u, p.err_pos) /\ p.err_pos.offset <= Len(u)
  BY <1>1, <1>2, <1>3 DEF Sound
<1>5. p.errcode = Success => KnowsReturn(u, p) /\ RunInLine(u, p)
  <2> SUFFICES ASSUME p.errcode = Success PROVE KnowsReturn(u, p) /\ RunInLine(u, p)
    OBVIOUS
  <2>1. KnowsReturn(t, p) /\ RunInLine(t, p)
    BY DEF Sound
  <2>2. p.pos.offset >= 1 => u[p.pos.offset] = t[p.pos.offset]
    BY <1>2, <1>3
  <2>3. KnowsReturn(u, p)
    BY <1>2, <2>1, <2>2 DEF KnowsReturn
  <2>4. \A k \in p.run + 1 .. p.pos.offset : u[k] = t[k]
    BY <1>2, <1>3
  <2>5. RunInLine(u, p)
    BY <2>1, <2>4 DEF RunInLine
  <2> QED
    BY <2>3, <2>5
<1> QED
  BY <1>4, <1>5 DEF Sound

(* A chunk that is too long, passed byte by byte: an induction over its    *)
(* length.                                                                 *)
LEMMA MovedRight ==
  ASSUME NEW t, NEW p \in Parsers, RightAt(t, p.pos), NEW chunk \in Seq(Byte), chunk # <<>>,
         \A k \in 1 .. Len(chunk) : t[p.pos.offset + k] = chunk[k] /\ chunk[k] \notin LineEnds
  PROVE  RightAt(t, Moved(p, chunk).pos)
<1> DEFINE N == Len(chunk) - 1
<1>1. N \in Nat /\ Len(chunk) \in Nat \ {0} /\ Len(chunk) = N + 1
  BY EmptySeq
<1>2. PICK m : MovesBy(p, chunk, N, m) /\ Moved(p, chunk) = m[N]
  BY <1>1, MovedIsLast
<1> DEFINE Good(n) == /\ m[n] \in Parsers /\ RightAt(t, m[n].pos)
                      /\ m[n].pos.offset = p.pos.offset + n
           Bad == {n \in 0 .. N : ~ Good(n)}
<1>3. p.pos.offset \in Nat
  BY DEF Parsers, Place3
<1> HIDE DEF N
<1>4. ASSUME Bad # {} PROVE FALSE
  <2>0. Bad \subseteq Nat
    BY <1>1
  <2>1. PICK n \in Bad : \A k \in Bad : n <= k
    <3> HIDE DEF Bad
    <3> QED
      BY <1>4, <2>0, LeastNumber
  <2>2. n \in 0 .. N /\ ~ Good(n)
    OBVIOUS
  <2>3. m[n] = IF n = 0 THEN p ELSE json_handle_new_line(Advanced(m[n - 1]), chunk[n + 1])
    BY <1>2, <2>2 DEF MovesBy
  <2>4. n # 0
    BY <1>3, <2>2, <2>3
  <2>5. n - 1 \in 0 .. N /\ Good(n - 1)
    BY <1>1, <2>1, <2>2, <2>4
  <2>6. n + 1 \in 1 .. Len(chunk) /\ n \in 1 .. Len(chunk)
    BY <1>1, <2>2, <2>4
  <2>7. chunk[n + 1] \in Byte /\ chunk[n + 1] \notin LineEnds
    BY <2>6, ElementOfSeq
  <2>8. m[n - 1] \in Parsers /\ RightAt(t, m[n - 1].pos) /\ m[n - 1].pos.offset = p.pos.offset + (n - 1)
    BY <2>5
  <2>9. m[n - 1].pos \in Place3
    BY <2>8 DEF Parsers
  <2>10. m[n] = Advanced(m[n - 1])
    BY <2>3, <2>4, <2>7 DEF json_handle_new_line, LineEnds
  <2>11. m[n] \in Parsers /\ m[n].pos = Along(m[n - 1].pos, 1) /\ m[n].pos.offset = m[n - 1].pos.offset + 1
    BY <2>8, <2>10, AdvancedType
  <2>12. t[m[n - 1].pos.offset + 1] \notin LineEnds
    <3>1. m[n - 1].pos.offset + 1 = p.pos.offset + n
      BY <1>3, <2>6, <2>8
    <3>2. t[p.pos.offset + n] = chunk[n] /\ chunk[n] \notin LineEnds
      BY <2>6
    <3> QED
      BY <3>1, <3>2
  <2>13. RightAt(t, m[n].pos)
    BY <2>8, <2>9, <2>11, <2>12, NextRight
  <2>14. Good(n)
    <3>1. n \in Nat
      BY <1>1, <2>2
    <3>2. m[n].pos.offset = p.pos.offset + n
      <4>1. m[n].pos.offset = p.pos.offset + (n - 1) + 1
        BY <2>8, <2>11, Zenon
      <4>2. p.pos.offset + (n - 1) + 1 = p.pos.offset + n
        <5>1. \A o, k \in Nat : o + (k - 1) + 1 = o + k
          OBVIOUS
        <5> HIDE DEF Bad
        <5> QED
          BY <1>3, <3>1, <5>1, Zenon
      <4> QED
        BY <4>1, <4>2, Zenon
    <3> QED
      BY <2>11, <2>13, <3>2
  <2> QED
    BY <2>2, <2>14
<1>5. Good(N)
  BY <1>1, <1>4
<1> QED
  BY <1>2, <1>5

(* The position goes back to the beginning of what is pending.             *)
LEMMA RewoundSound ==
  ASSUME NEW t, NEW p \in Parsers, Sound(t, p), p.errcode = Success, Bounded(p, Len(t)),
         p.automaton \in {"NUMBER", "STRING", "KEY"}
  PROVE  Sound(t, json_raise(Rewound(p), "OUTOFMEMORY"))
<1> DEFINE q == Rewound(p)
<1>1. /\ q \in Parsers /\ SameButPlace(p, q)
      /\ q.pos.offset \in {p.pos.offset, p.run}
      /\ p.automaton # "NUMBER" => q.pos = Along(p.pos, p.run - p.pos.offset)
  BY RewoundType
<1>2. /\ RightAt(t, p.pos) /\ RightAt(t, p.value_pos) /\ RunInLine(t, p)
  BY DEF Sound, HasValue
<1>3. p.pos \in Place3 /\ p.run \in Nat
  BY DEF Parsers
<1>4. RightAt(t, q.pos)
  <2>1. CASE p.automaton = "NUMBER"
    BY <1>2, <2>1 DEF Rewound
  <2>2. CASE p.automaton # "NUMBER"
    <3>1. p.run <= p.pos.offset /\ \A k \in p.run + 1 .. p.pos.offset : t[k] \notin LineEnds
      BY <1>2, <2>2 DEF RunInLine, StringAutomata
    <3> HIDE DEF q
    <3> QED
      BY <1>1, <1>2, <1>3, <2>2, <3>1, RewindRight
  <2> QED
    BY <2>1, <2>2
<1>5. json_raise(Rewound(p), "OUTOFMEMORY") = json_raise_(q, "OUTOFMEMORY", q.pos)
  BY DEF json_raise
<1> HIDE DEF q
<1>6. /\ "OUTOFMEMORY" \in ErrorNames /\ q.pos \in Place3 /\ q.errcode = Success
      /\ q.value_pos = p.value_pos /\ q.pos.offset <= Len(t)
  BY <1>1 DEF ErrorNames, Parsers, SameButPlace, Bounded
<1> QED
  BY <1>1, <1>2, <1>4, <1>5, <1>6, RaiseSound

-----------------------------------------------------------------------------
(* The actions keep the places right *)

(* A turn of an automaton, and one that raises an error.                   *)
LEMMA TurnPlaces ==
  ASSUME IInv, PlaceInv, NEW automata, Turn(automata)
  PROVE  /\ RightAt(text, parser.pos) /\ KnowsReturn(text, parser) /\ RunInLine(text, parser)
         /\ HasValue(parser) => RightAt(text, parser.value_pos)
         /\ text[parser.pos.offset + 1] = Ch
         /\ Sound(text, parser') => PlaceInv'
<1>1. /\ parser.errcode = Success /\ UNCHANGED <<text, feeding, finished>>
      /\ Len(text) \in Nat /\ parser.pos.offset \in Nat /\ parser.pos.offset + 1 <= Len(text)
  BY TurnFacts
<1>2. feeding = TRUE
  <2>1. parser.pos.offset # Len(text)
    BY <1>1
  <2> QED
    BY <1>1, <2>1 DEF PlaceInv, IInv, TypeOK
<1>3. Sound(text, parser') => PlaceInv'
  <2> SUFFICES ASSUME Sound(text, parser') PROVE PlaceInv'
    OBVIOUS
  <2>1. feeding' = TRUE /\ text' = text
    BY <1>1, <1>2
  <2>2. Sound(text', parser')
    BY <2>1
  <2> QED
    BY <2>1, <2>2 DEF PlaceInv, Sound, RightAt, PlaceIn, Counted, Ends, LastEnd, KnowsReturn, RunInLine, HasValue
<1> QED
  BY <1>1, <1>3 DEF PlaceInv, Sound, Ch

LEMMA RaisePlaces ==
  ASSUME IInv, PlaceInv, NEW automata, Turn(automata), NEW err \in ErrorNames,
         \/ Becomes(json_raise(parser, err))
         \/ Becomes(json_raise_for_value(parser, err)) /\ "MAIN" \notin automata
  PROVE  PlaceInv'
<1>1. /\ parser \in Parsers /\ parser.errcode = Success /\ parser.automaton \in automata
      /\ parser.pos \in Place3 /\ parser.value_pos \in Place3
      /\ parser.pos.offset <= Len(text) /\ parser.value_pos.offset <= Len(text)
  BY TurnFacts
<1>2. /\ RightAt(text, parser.pos)
      /\ HasValue(parser) => RightAt(text, parser.value_pos)
      /\ Sound(text, parser') => PlaceInv'
  BY TurnPlaces
<1>3. PICK at \in {parser.pos, parser.value_pos} :
        /\ parser' = json_raise_(parser, err, at)
        /\ at = parser.pos \/ parser.automaton # "MAIN"
  BY <1>1 DEF Becomes, json_raise, json_raise_for_value
<1>4. at \in Place3 /\ at.offset <= Len(text) /\ RightAt(text, at)
  BY <1>1, <1>2, <1>3 DEF HasValue
<1>5. Sound(text, json_raise_(parser, err, at))
  BY <1>1, <1>2, <1>4, RaiseSound
<1> QED
  BY <1>2, <1>3, <1>5

(* Each action keeps PlaceInv.                                             *)
LEMMA NextBytePlaces ==
  ASSUME IInv, PlaceInv, config' = config, NEW ch \in Alphabet(config), NextByte(ch)
  PROVE  PlaceInv'
<1>1. ch \in Byte
  BY ConfigAssumption DEF IInv, TypeOK, Byte
<1>2. text \in Seq(Byte) /\ Len(text) \in Nat /\ parser \in Parsers /\ Bounded(parser, Len(text))
  BY LenProperties DEF IInv, TypeOK, Bounded
<1>3. /\ text' \in Seq(Byte) /\ Len(text') = Len(text) + 1
      /\ \A k \in 1 .. Len(text) : text'[k] = text[k]
  BY <1>1, <1>2, AppendProperties DEF NextByte
<1>4. Sound(text, parser)
  BY DEF PlaceInv
<1>5. parser' = parser /\ feeding' = TRUE
  BY DEF NextByte
<1> DEFINE t == text'
<1>6. Len(t) \in Nat /\ Len(text) <= Len(t) /\ \A k \in 1 .. Len(text) : t[k] = text[k]
  BY <1>2, <1>3
<1> HIDE DEF t
<1>7. Sound(t, parser)
  BY <1>2, <1>4, <1>6, SoundExtends
<1>8. Sound(text', parser')
  BY <1>5, <1>7 DEF t
<1> QED
  BY <1>5, <1>8 DEF PlaceInv, Sound, RightAt, PlaceIn, Counted, Ends, LastEnd, KnowsReturn, RunInLine, HasValue

LEMMA FeedTooMuchPlaces ==
  ASSUME IInv, PlaceInv, config' = config, NEW n \in 1 .. MaxChunk,
         NEW chunk \in [1 .. n -> Alphabet(config)], FeedTooMuch(chunk), LongChunksInLine
  PROVE  PlaceInv'
<1>0. n \in Nat /\ n >= 1
  BY ConfigAssumption
<1>1. chunk \in Seq(Byte) /\ Len(chunk) = n /\ chunk # <<>>
  <2>1. Alphabet(config) \subseteq Byte
    BY ConfigAssumption DEF IInv, TypeOK, Byte
  <2>2. chunk \in Seq(Byte) /\ Len(chunk) = n
    BY <1>0, <2>1
  <2> QED
    BY <1>0, <2>2, EmptySeq
<1>2. text \in Seq(Byte) /\ Len(text) \in Nat /\ parser \in Parsers /\ Bounded(parser, Len(text))
  BY LenProperties DEF IInv, TypeOK, Bounded
<1>3. /\ text' \in Seq(Byte) /\ Len(text') = Len(text) + n
      /\ \A k \in 1 .. Len(text) : text'[k] = text[k]
      /\ \A k \in 1 .. n : text'[Len(text) + k] = chunk[k]
  <2>1. text' = text \o chunk
    BY DEF FeedTooMuch
  <2>2. /\ text \o chunk \in Seq(Byte) /\ Len(text \o chunk) = Len(text) + n
        /\ \A k \in 1 .. Len(text) : (text \o chunk)[k] = text[k]
        /\ \A k \in 1 .. n : (text \o chunk)[Len(text) + k] = chunk[k]
    <3>1. /\ text \o chunk \in Seq(Byte) /\ Len(text \o chunk) = Len(text) + Len(chunk)
          /\ \A k \in 1 .. Len(text) + Len(chunk) :
               (text \o chunk)[k] = IF k <= Len(text) THEN text[k] ELSE chunk[k - Len(text)]
      BY <1>1, <1>2, ConcatProperties
    <3>2. \A k \in 1 .. n : /\ Len(text) + k \in 1 .. Len(text) + Len(chunk)
                            /\ ~(Len(text) + k <= Len(text)) /\ (Len(text) + k) - Len(text) = k
      BY <1>0, <1>1, <1>2
    <3>3. \A k \in 1 .. n : (text \o chunk)[Len(text) + k] = chunk[k]
      BY <3>1, <3>2
    <3>4. \A k \in 1 .. Len(text) : k \in 1 .. Len(text) + Len(chunk) /\ k <= Len(text)
      BY <1>0, <1>1, <1>2
    <3> QED
      BY <1>1, <3>1, <3>3, <3>4
  <2> QED
    BY <2>1, <2>2
<1>4. ~feeding /\ ~feeding' /\ parser' = json_raise(Moved(parser, chunk), "MAXTOTALLEN")
  BY DEF FeedTooMuch
<1>5. text' # text
  BY <1>0, <1>2, <1>3
<1>6. parser.errcode = Success /\ \A k \in Len(text) + 1 .. Len(text') : text'[k] \notin LineEnds
  BY <1>4, <1>5 DEF LongChunksInLine
<1>7. Sound(text, parser) /\ parser.pos.offset = Len(text)
  BY <1>4, <1>6 DEF PlaceInv
<1> DEFINE t == text'
           q == Moved(parser, chunk)
<1>8. /\ Len(t) = Len(text) + n /\ \A k \in 1 .. Len(text) : t[k] = text[k]
      /\ \A k \in 1 .. n : t[Len(text) + k] = chunk[k] /\ chunk[k] \notin LineEnds
  <2>1. \A k \in 1 .. n : Len(text) + k \in Len(text) + 1 .. Len(text')
    BY <1>0, <1>2, <1>3
  <2> QED
    BY <1>3, <1>6, <2>1
<1> HIDE DEF t
<1>9. Sound(t, parser)
  <2>1. Len(t) \in Nat /\ Len(text) <= Len(t)
    BY <1>0, <1>2, <1>8
  <2> QED
    BY <1>2, <1>7, <1>8, <2>1, SoundExtends
<1>10. RightAt(t, parser.pos) /\ (HasValue(parser) => RightAt(t, parser.value_pos))
  BY <1>9 DEF Sound
<1>11. RightAt(t, q.pos)
  BY <1>1, <1>2, <1>7, <1>8, <1>10, MovedRight
<1>12. q \in Parsers /\ SameButPlace(parser, q) /\ q.pos.offset = parser.pos.offset + n - 1
  BY <1>1, <1>2, MovedType
<1> HIDE DEF q
<1>13. q.pos \in Place3 /\ q.pos.offset <= Len(t) /\ "MAXTOTALLEN" \in ErrorNames
  BY <1>0, <1>2, <1>7, <1>8, <1>12 DEF Parsers, ErrorNames
<1>14. Sound(t, json_raise_(q, "MAXTOTALLEN", q.pos)) /\ json_raise_(q, "MAXTOTALLEN", q.pos).errcode # Success
  BY <1>6, <1>10, <1>11, <1>12, <1>13, RaiseSound, RaiseType DEF SameButPlace, HasValue
<1>15. Sound(text', parser') /\ parser'.errcode # Success
  BY <1>4, <1>14 DEF t, q, json_raise
<1> QED
  BY <1>15 DEF PlaceInv, Sound, RightAt, PlaceIn, Counted, Ends, LastEnd, KnowsReturn, RunInLine, HasValue

LEMMA SameText ==
  ASSUME text' = text, Sound(text, parser'),
         parser'.errcode = Success /\ ~feeding' => parser'.pos.offset = Len(text)
  PROVE  PlaceInv'
<1>1. Sound(text', parser')
  OBVIOUS
<1> QED
  BY <1>1 DEF PlaceInv, Sound, RightAt, PlaceIn, Counted, Ends, LastEnd, KnowsReturn, RunInLine, HasValue

LEMMA EndOfChunkPlaces ==
  ASSUME IInv, PlaceInv, EndOfChunk
  PROVE  PlaceInv'
<1>1. /\ parser \in Parsers /\ Bounded(parser, Len(text)) /\ text \in Seq(Byte) /\ Len(text) \in Nat
      /\ parser.pos.offset \in Nat /\ parser.pos.offset <= Len(text)
  BY LenProperties DEF IInv, TypeOK, Parsers, Place3, Bounded
<1>2. Sound(text, parser) /\ text' = text
  BY DEF PlaceInv, EndOfChunk
<1>3. parser.errcode = Success => parser.pos.offset = Len(text)
  BY <1>1 DEF EndOfChunk, Reading
<1>4. CASE parser.errcode = Success /\ InBuffer /\ parser' = Flushed(parser)
  <2> DEFINE q == Flushed(parser)
  <2>1. q = [parser EXCEPT !.buf = parser.buf \o Pending(parser), !.run = parser.pos.offset]
    BY <1>1, FlushedType
  <2>2. /\ q.pos = parser.pos /\ q.value_pos = parser.value_pos /\ q.run = parser.pos.offset
        /\ q.errcode = Success /\ q.automaton = parser.automaton /\ q.err_pos = parser.err_pos
        /\ q.last_cl_offset = parser.last_cl_offset /\ q.value_counter = parser.value_counter
    BY <1>1, <1>4, <2>1 DEF Parsers
  <2> HIDE DEF q
  <2>3. parser' = q
    BY <1>4 DEF q
  <2>4. KnowsReturn(text, q)
    BY <1>2, <1>4, <2>2 DEF Sound, KnowsReturn
  <2>5. RunInLine(text, q)
    BY <1>1, <2>2 DEF RunInLine
  <2>6. Sound(text, q)
    BY <1>2, <1>4, <2>2, <2>4, <2>5 DEF Sound, HasValue
  <2> QED
    BY <1>2, <1>3, <1>4, <2>2, <2>3, <2>6, SameText
<1>5. CASE parser' = parser
  BY <1>2, <1>3, <1>5, SameText
<1>6. CASE parser.errcode = Success /\ InBuffer /\ parser' = json_raise(Rewound(parser), "OUTOFMEMORY")
  <2>1. Sound(text, parser')
    BY <1>1, <1>2, <1>6, RewoundSound DEF InBuffer
  <2>2. parser'.errcode # Success
    <3>1. Rewound(parser) \in Parsers /\ SameButPlace(parser, Rewound(parser))
      BY <1>1, RewoundType
    <3>2. Rewound(parser).errcode = Success /\ Rewound(parser).pos \in Place3 /\ "OUTOFMEMORY" \in ErrorNames
      BY <1>6, <3>1 DEF SameButPlace, Parsers, ErrorNames
    <3> QED
      BY <1>6, <3>1, <3>2, RaiseType DEF json_raise
  <2> QED
    BY <1>2, <2>1, <2>2, SameText
<1> QED
  BY <1>4, <1>5, <1>6 DEF EndOfChunk

LEMMA OpenContainerPlaces ==
  ASSUME RootContainersAllowed, IInv, PlaceInv, config' = config, OpenContainer
  PROVE  PlaceInv'
<1>1. /\ parser \in Parsers /\ parser.errcode = Success /\ Ch \in Byte
      /\ parser.value_pos.offset <= Len(text)
      /\ Fits(parser)
  BY TurnFacts DEF OpenContainer
<1>2. Turn({"MAIN"}) /\ Ch \in {OpenArray, OpenObject}
  BY DEF OpenContainer
<1> DEFINE closer == IF Ch = OpenArray THEN CloseArray ELSE CloseObject
           type == IF Ch = OpenArray THEN "ARRAY_BEG" ELSE "OBJECT_BEG"
           stack == Append(parser.nesting_stack, closer)
           pushed == [parser EXCEPT !.nesting_stack = stack]
<1>3. \/ Becomes(json_raise(parser, "MAXNESTINGLEVEL"))
      \/ Becomes(json_raise(parser, "OUTOFMEMORY"))
      \/ json_process(pushed, type, <<>>, TRUE)
  BY <1>1 DEF OpenContainer, Parsers
<1>4. CASE Becomes(json_raise(parser, "MAXNESTINGLEVEL")) \/ Becomes(json_raise(parser, "OUTOFMEMORY"))
  <2>1. "MAXNESTINGLEVEL" \in ErrorNames /\ "OUTOFMEMORY" \in ErrorNames
    BY DEF ErrorNames
  <2> QED
    BY <1>2, <1>4, <2>1, RaisePlaces
<1>5. CASE json_process(pushed, type, <<>>, TRUE)
  <2>1. closer \in {CloseArray, CloseObject} /\ type \in Containers
    BY DEF Containers
  <2>2. stack \in Seq({CloseArray, CloseObject})
    <3>1. parser.nesting_stack \in Seq({CloseArray, CloseObject})
      BY <1>1 DEF Parsers
    <3> QED
      BY <2>1, <3>1, AppendProperties
  <2> HIDE DEF stack, type
  <2>3. /\ pushed \in Parsers /\ pushed.errcode = Success /\ pushed.pos = parser.pos
        /\ pushed.value_pos = parser.value_pos /\ pushed.automaton = parser.automaton
        /\ pushed.value_counter = parser.value_counter /\ pushed.last_cl_offset = parser.last_cl_offset
    BY <1>1, <2>2 DEF Parsers
  <2> HIDE DEF pushed
  <2>4. /\ RightAt(text, pushed.pos) /\ KnowsReturn(text, pushed)
        /\ HasValue(pushed) => RightAt(text, pushed.value_pos)
        /\ pushed.value_pos.offset <= Len(text) /\ TRUE \in BOOLEAN
    BY <1>1, <1>2, <2>3, TurnPlaces DEF KnowsReturn, HasValue
  <2>5. Sound(text, parser')
    BY <1>1, <1>5, <2>1, <2>3, <2>4, ProcessSound
  <2> QED
    BY <1>2, <2>5, TurnPlaces
<1> QED
  BY <1>3, <1>4, <1>5

LEMMA CloseContainerPlaces ==
  ASSUME RootContainersAllowed, IInv, PlaceInv, config' = config, CloseContainer
  PROVE  PlaceInv'
<1>1. /\ parser \in Parsers /\ parser.errcode = Success /\ Ch \in Byte
      /\ parser.value_pos.offset <= Len(text)
      /\ Fits(parser)
  BY TurnFacts DEF CloseContainer
<1>2. Turn({"MAIN"}) /\ "CLOSER" \in parser.state
  BY DEF CloseContainer
<1> DEFINE depth == Len(parser.nesting_stack)
           type == IF Ch = CloseArray THEN "ARRAY_END" ELSE "OBJECT_END"
           stack == SubSeq(parser.nesting_stack, 1, depth - 1)
           popped == [parser EXCEPT !.nesting_stack = stack]
<1>3. \/ Becomes(json_raise(parser, "BADCLOSER"))
      \/ json_process(popped, type, <<>>, TRUE)
  BY <1>1 DEF CloseContainer, Parsers
<1>4. CASE Becomes(json_raise(parser, "BADCLOSER"))
  <2>1. "BADCLOSER" \in ErrorNames
    BY DEF ErrorNames
  <2> QED
    BY <1>2, <1>4, <2>1, RaisePlaces
<1>5. CASE json_process(popped, type, <<>>, TRUE)
  <2>1. type \in Closers
    BY DEF Closers
  <2>2. parser.nesting_stack \in Seq({CloseArray, CloseObject}) /\ depth \in Nat
    BY <1>1, OpenIsStack DEF IInv
  <2>3. depth # 0
    <3>1. parser.nesting_stack # <<>>
      BY <1>1, <1>2 DEF Fits, StateFits, Inside
    <3> QED
      BY <2>2, <3>1, EmptySeq
  <2>4. stack \in Seq({CloseArray, CloseObject})
    BY <2>2, <2>3, SubSeqProperties
  <2> HIDE DEF stack, type
  <2>5. /\ popped \in Parsers /\ popped.errcode = Success /\ popped.pos = parser.pos
        /\ popped.value_pos = parser.value_pos /\ popped.automaton = parser.automaton
        /\ popped.value_counter = parser.value_counter /\ popped.last_cl_offset = parser.last_cl_offset
    BY <1>1, <2>4 DEF Parsers
  <2> HIDE DEF popped
  <2>6. /\ RightAt(text, popped.pos) /\ KnowsReturn(text, popped)
        /\ HasValue(popped) => RightAt(text, popped.value_pos)
        /\ popped.value_pos.offset <= Len(text) /\ TRUE \in BOOLEAN
    BY <1>1, <1>2, <2>5, TurnPlaces DEF KnowsReturn, HasValue
  <2>7. Sound(text, parser')
    BY <1>1, <1>5, <2>1, <2>5, <2>6, ProcessSound
  <2> QED
    BY <1>2, <2>7, TurnPlaces
<1> QED
  BY <1>3, <1>4, <1>5

LEMMA PastPlaces ==
  ASSUME IInv, PlaceInv, Turn({"MAIN"}), NEW q \in Parsers, Becomes(Past(q)),
         q.pos = parser.pos, q.value_pos = parser.value_pos, q.automaton = parser.automaton,
         q.last_cl_offset = parser.last_cl_offset, q.errcode = Success,
         q.value_counter = parser.value_counter
  PROVE  PlaceInv'
<1>1. parser.automaton = "MAIN" /\ Ch \in Byte
  BY TurnFacts
<1>2. /\ RightAt(text, q.pos) /\ KnowsReturn(text, q) /\ text[q.pos.offset + 1] = Ch
      /\ HasValue(q) => RightAt(text, q.value_pos)
      /\ Sound(text, parser') => PlaceInv'
  BY TurnPlaces DEF KnowsReturn, HasValue
<1> DEFINE r == Past(q)
<1>3. SameButPlace(q, r)
  BY <1>1, PastType
<1>4. RightAt(text, r.pos) /\ KnowsReturn(text, r)
  BY <1>1, <1>2, PassedRight DEF Past
<1>5. parser' = r
  BY DEF Becomes
<1> HIDE DEF r
<1>6. Sound(text, r)
  BY <1>1, <1>2, <1>3, <1>4, ConfigAssumption
  DEF Sound, SameButPlace, HasValue, RunInLine, StringAutomata
<1> QED
  BY <1>2, <1>5, <1>6

LEMMA SeparatorPlaces ==
  ASSUME IInv, PlaceInv, Separator
  PROVE  PlaceInv'
<1>1. /\ parser \in Parsers /\ parser.errcode = Success
  BY TurnFacts DEF Separator
<1> DEFINE q(state) == [parser EXCEPT !.state = state]
<1>2. PICK state \in {{"VALUE"}, {"KEY"}} : Becomes(Past(q(state)))
  BY DEF Separator
<1>3. state \in States
  BY DEF States
<1>4. /\ q(state) \in Parsers /\ q(state).pos = parser.pos /\ q(state).value_pos = parser.value_pos
      /\ q(state).automaton = parser.automaton /\ q(state).last_cl_offset = parser.last_cl_offset
      /\ q(state).errcode = Success /\ q(state).value_counter = parser.value_counter
  BY <1>1, <1>3 DEF Parsers
<1> QED
  BY <1>2, <1>4, PastPlaces DEF Separator

LEMMA OtherBytePlaces ==
  ASSUME IInv, PlaceInv, OtherByte
  PROVE  PlaceInv'
<1>1. Turn({"MAIN"})
  BY DEF OtherByte
<1>2. CASE Becomes(Past(parser))
  BY <1>1, <1>2, TurnFacts, PastPlaces
<1>3. CASE Becomes(json_raise(parser, Unexpected(parser.state)))
  BY <1>1, <1>3, UnexpectedNames, RaisePlaces
<1> QED
  BY <1>2, <1>3 DEF OtherByte

LEMMA SwitchPlaces ==
  ASSUME IInv, PlaceInv, Turn({"MAIN"}), NEW automaton \in Automata,
         \/ Becomes(json_switch_automaton(parser, automaton))
         \/ Becomes([Past(json_switch_automaton(parser, automaton)) EXCEPT !.run = parser.pos.offset + 1])
  PROVE  PlaceInv'
<1>1. /\ parser \in Parsers /\ parser.errcode = Success /\ Ch \in Byte /\ parser.pos.offset \in Nat
  BY TurnFacts
<1>2. /\ RightAt(text, parser.pos) /\ KnowsReturn(text, parser) /\ text[parser.pos.offset + 1] = Ch
      /\ Sound(text, parser') => PlaceInv'
  BY TurnPlaces
<1> DEFINE s == json_switch_automaton(parser, automaton)
           o == parser.pos.offset + 1
           r == Past(s)
           q == [r EXCEPT !.run = o]
<1>3. /\ s \in Parsers /\ s.pos = parser.pos /\ s.value_pos = parser.pos
      /\ s.errcode = Success /\ s.automaton = automaton
      /\ s.run = parser.pos.offset /\ s.last_cl_offset = parser.last_cl_offset
  BY <1>1, SwitchType
<1>4. Becomes(s) \/ Becomes(q)
  OBVIOUS
<1> HIDE DEF s
<1>5. r \in Parsers /\ r.pos.offset = s.pos.offset + 1 /\ SameButPlace(s, r)
  BY <1>1, <1>3, PastType
<1>6. KnowsReturn(text, s)
  BY <1>2, <1>3 DEF KnowsReturn
<1>7. RightAt(text, r.pos) /\ KnowsReturn(text, r)
  BY <1>1, <1>2, <1>3, <1>6, PassedRight DEF Past
<1>8. o \in Nat /\ o = s.pos.offset + 1
  BY <1>1, <1>3
<1> HIDE DEF r, o
<1>9. /\ q \in Parsers /\ q.pos = r.pos /\ q.value_pos = r.value_pos /\ q.run = o
      /\ q.errcode = r.errcode /\ q.automaton = r.automaton /\ q.last_cl_offset = r.last_cl_offset
  BY <1>5, <1>8 DEF Parsers
<1> HIDE DEF q
<1>10. q.value_pos = parser.pos /\ q.errcode = Success /\ q.pos.offset = o
  BY <1>3, <1>5, <1>8, <1>9 DEF SameButPlace
<1>11. Success \in Rets
  BY ConfigAssumption
<1>12. Sound(text, s)
  <2>1. RunInLine(text, s)
    BY <1>1, <1>3 DEF RunInLine
  <2> QED
    BY <1>2, <1>3, <1>6, <1>11, <2>1 DEF Sound
<1>13. Sound(text, q)
  <2>1. RunInLine(text, q)
    BY <1>8, <1>9, <1>10 DEF RunInLine
  <2>2. KnowsReturn(text, q)
    BY <1>7, <1>9 DEF KnowsReturn
  <2> QED
    BY <1>2, <1>7, <1>9, <1>10, <1>11, <2>1, <2>2 DEF Sound
<1> QED
  BY <1>2, <1>4, <1>12, <1>13 DEF Becomes

LEMMA StartScalarPlaces ==
  ASSUME IInv, PlaceInv, StartScalar
  PROVE  PlaceInv'
<1>1. Turn({"MAIN"})
  BY DEF StartScalar
<1>2. {"STRING", "KEY", "NUMBER"} \subseteq Automata /\ DOMAIN Literals \subseteq Automata
  BY DEF Automata
<1>3. ASSUME NEW automaton \in Automata,
             \/ Becomes(json_switch_automaton(parser, automaton))
             \/ Becomes([Past(json_switch_automaton(parser, automaton)) EXCEPT !.run = parser.pos.offset + 1])
      PROVE  PlaceInv'
  BY <1>1, <1>3, SwitchPlaces
<1>4. CASE Becomes(json_raise(parser, "SYNTAX"))
  <2>1. "SYNTAX" \in ErrorNames
    BY DEF ErrorNames
  <2> QED
    BY <1>1, <1>4, <2>1, RaisePlaces
<1> QED
  BY <1>2, <1>3, <1>4 DEF StartScalar

(* No literal has a line end in it.                                        *)
LEMMA LiteralLetters ==
  ASSUME NEW type \in DOMAIN Literals, NEW k \in 1 .. Len(Literals[type])
  PROVE  Literals[type][k] \notin LineEnds
<1>1. CASE type = "NULL"
  <2>1. Literals[type] = <<110, 117, 108, 108>>
    BY <1>1 DEF Literals
  <2>2. k \in {1, 2, 3, 4}
    BY <2>1
  <2> QED
    BY <2>1, <2>2 DEF LineEnds, Return, NewLine
<1>2. CASE type = "FALSE"
  <2>1. Literals[type] = <<102, 97, 108, 115, 101>>
    BY <1>2 DEF Literals
  <2>2. k \in {1, 2, 3, 4, 5}
    BY <2>1
  <2> QED
    BY <2>1, <2>2 DEF LineEnds, Return, NewLine
<1>3. CASE type = "TRUE"
  <2>1. Literals[type] = <<116, 114, 117, 101>>
    BY <1>3 DEF Literals
  <2>2. k \in {1, 2, 3, 4}
    BY <2>1
  <2> QED
    BY <2>1, <2>2 DEF LineEnds, Return, NewLine
<1> QED
  BY <1>1, <1>2, <1>3 DEF Literals

LEMMA ScalarPlaces ==
  ASSUME RootContainersAllowed, IInv, PlaceInv, NEW automata, Turn(automata), "MAIN" \notin automata,
         NEW p \in Parsers, p.errcode = Success, RightAt(text, p.pos), p.value_pos = parser.value_pos,
         KnowsReturn(text, p), p.automaton = parser.automaton, NEW type, NEW data,
         json_process(p, type, data, FALSE)
  PROVE  PlaceInv'
<1>1. parser.automaton # "MAIN" /\ parser.value_pos.offset <= Len(text)
  BY TurnFacts
<1>2. RightAt(text, p.value_pos) /\ (Sound(text, parser') => PlaceInv')
  BY <1>1, TurnPlaces DEF HasValue
<1>3. p.automaton # "MAIN" \/ type \in Containers \cup Closers
  BY <1>1
<1>4. FALSE \in BOOLEAN /\ (FALSE => Ch \in Byte /\ p.pos = parser.pos) /\ p.value_pos.offset <= Len(text)
  BY <1>1
<1>5. Sound(text, parser')
  BY <1>2, <1>3, <1>4, ProcessSound
<1> QED
  BY <1>2, <1>5

LEMMA LiteralBytePlaces ==
  ASSUME RootContainersAllowed, IInv, PlaceInv, LiteralByte
  PROVE  PlaceInv'
<1>1. /\ parser \in Parsers /\ parser.errcode = Success /\ Len(text) \in Nat
      /\ parser.pos \in Place3 /\ parser.value_pos \in Place3 /\ parser.pos.offset + 1 <= Len(text)
      /\ parser.value_pos.offset <= Len(text) /\ parser.automaton \in DOMAIN Literals
      /\ parser.substate \in Nat
  BY TurnFacts DEF LiteralByte, Parsers
<1>2. Turn(DOMAIN Literals) /\ "MAIN" \notin DOMAIN Literals
  BY DEF LiteralByte, Literals
<1>3. /\ RightAt(text, parser.pos) /\ KnowsReturn(text, parser)
      /\ RightAt(text, parser.value_pos) /\ text[parser.pos.offset + 1] = Ch
      /\ Sound(text, parser') => PlaceInv'
  BY <1>1, <1>2, TurnPlaces DEF HasValue
<1>4. "SYNTAX" \in ErrorNames
  BY DEF ErrorNames
<1>5. CASE /\ Becomes([Advanced(parser) EXCEPT !.substate = parser.substate + 1])
           /\ parser.substate < Len(Literals[parser.automaton])
           /\ Ch = Literals[parser.automaton][parser.substate + 1]
  <2> DEFINE n == parser.substate + 1
             a == Advanced(parser)
             q == [a EXCEPT !.substate = n]
  <2>1. n \in Nat
    BY <1>1
  <2>2. a \in Parsers
    BY <1>1, AdvancedType
  <2>3. a = [parser EXCEPT !.pos = Along(parser.pos, 1)]
    BY <1>1 DEF Advanced, Parsers
  <2>4. Stays(parser, a) /\ a.run = parser.run /\ a.pos = Along(parser.pos, 1)
        /\ a.errcode = Success /\ a.err_pos = parser.err_pos
    BY <1>1, <2>3 DEF Parsers, Stays
  <2>5. Ch \notin LineEnds
    <3>1. Len(Literals[parser.automaton]) \in Nat
      BY <1>1 DEF Literals
    <3>2. n \in 1 .. Len(Literals[parser.automaton])
      BY <1>1, <1>5, <3>1
    <3> QED
      BY <1>1, <1>5, <3>2, LiteralLetters
  <2> HIDE DEF a, n
  <2>6. q \in Parsers /\ Stays(parser, q) /\ q.run = a.run /\ q.pos = a.pos
    BY <2>1, <2>2, <2>4 DEF Parsers, Stays
  <2>7. Becomes(q)
    BY <1>5 DEF q, a, n
  <2> HIDE DEF q
  <2>8. Sound(text, parser)
    BY DEF PlaceInv
  <2>9. Sound(text, q)
    BY <1>1, <1>2, <1>3, <2>4, <2>5, <2>6, <2>8, StaysSound
  <2> QED
    BY <1>3, <2>7, <2>9 DEF Becomes
<1>6. CASE Becomes(json_raise_for_value(parser, "SYNTAX"))
  BY <1>2, <1>4, <1>6, RaisePlaces
<1>7. CASE json_process(parser, parser.automaton, <<>>, FALSE)
  BY <1>1, <1>2, <1>3, <1>7, ScalarPlaces
<1>8. CASE Becomes(json_raise([parser EXCEPT !.pos = parser.value_pos], "SYNTAX"))
  <2> DEFINE q == [parser EXCEPT !.pos = parser.value_pos]
  <2>1. /\ q \in Parsers /\ q.pos = parser.value_pos /\ q.value_pos = parser.value_pos
        /\ q.errcode = Success
    BY <1>1 DEF Parsers
  <2>2. parser' = json_raise_(q, "SYNTAX", q.pos)
    BY <1>8 DEF Becomes, json_raise
  <2> HIDE DEF q
  <2>3. Sound(text, parser')
    BY <1>1, <1>3, <1>4, <2>1, <2>2, RaiseSound
  <2> QED
    BY <1>3, <2>3
<1> QED
  BY <1>5, <1>6, <1>7, <1>8 DEF LiteralByte

(* No number has a line end in it.                                         *)
LEMMA NumberGoesOn ==
  ASSUME NEW can_see, NEW ch, NumberAfter(can_see, ch) # {}
  PROVE  ch \notin LineEnds
BY DEF NumberAfter, LineEnds, Return, NewLine, Minus, Point, DIGIT

LEMMA NumberBytePlaces ==
  ASSUME RootContainersAllowed, IInv, PlaceInv, NumberByte
  PROVE  PlaceInv'
<1>1. /\ parser \in Parsers /\ parser.errcode = Success /\ Len(text) \in Nat
      /\ parser.pos \in Place3 /\ parser.value_pos \in Place3 /\ parser.pos.offset + 1 <= Len(text)
      /\ parser.value_pos.offset <= Len(text) /\ parser.automaton = "NUMBER"
  BY TurnFacts DEF NumberByte
<1>2. Turn({"NUMBER"}) /\ "MAIN" \notin {"NUMBER"}
  BY DEF NumberByte
<1>3. /\ RightAt(text, parser.pos) /\ KnowsReturn(text, parser)
      /\ RightAt(text, parser.value_pos) /\ text[parser.pos.offset + 1] = Ch
      /\ Sound(text, parser') => PlaceInv'
  BY <1>1, <1>2, TurnPlaces DEF HasValue
<1>4. {"SYNTAX", "MAXNUMBERLEN", "OUTOFMEMORY"} \subseteq ErrorNames
  BY DEF ErrorNames
<1> DEFINE can_see == IF parser.can_see = {} THEN {"m_sign", "m_first_digit"} ELSE parser.can_see
           after == NumberAfter(can_see, Ch)
           a == Advanced(parser)
           read == [a EXCEPT !.can_see = after]
<1>5. /\ a \in Parsers /\ a.pos = Along(parser.pos, 1) /\ a.pos.offset = parser.pos.offset + 1
      /\ a = [parser EXCEPT !.pos = Along(parser.pos, 1)]
  BY <1>1, AdvancedType DEF Advanced, Parsers
<1>6. read.can_see = after
  BY <1>5 DEF Parsers
<1>7. \/ (Becomes(read) \/ Becomes(json_raise_for_value(read, "MAXNUMBERLEN"))) /\ after # {}
      \/ json_process(parser, "NUMBER", Flushed(parser).buf, FALSE)
      \/ Becomes(json_raise(parser, "OUTOFMEMORY"))
      \/ Becomes(json_raise_for_value(parser, "SYNTAX"))
  BY <1>6 DEF NumberByte
<1>8. CASE (Becomes(read) \/ Becomes(json_raise_for_value(read, "MAXNUMBERLEN"))) /\ after # {}
  <2>1. Ch \notin LineEnds
    BY <1>8, NumberGoesOn
  <2>2. after \in SUBSET NumberParts
    BY NumberAfterType
  <2>3. Stays(parser, a) /\ a.run = parser.run /\ a.errcode = Success /\ a.err_pos = parser.err_pos
        /\ a.value_pos = parser.value_pos
    BY <1>1, <1>5 DEF Parsers, Stays
  <2> HIDE DEF a, after
  <2>4. /\ read \in Parsers /\ Stays(parser, read) /\ read.run = a.run /\ read.pos = a.pos
        /\ read.errcode = Success /\ read.value_pos = a.value_pos
    BY <1>5, <2>2, <2>3 DEF Parsers, Stays
  <2> HIDE DEF read, can_see
  <2>5. Sound(text, parser)
    BY DEF PlaceInv
  <2>6. Sound(text, read)
    BY <1>1, <1>3, <1>5, <2>1, <2>3, <2>4, <2>5, StaysSound
  <2>7. Sound(text, json_raise_(read, "MAXNUMBERLEN", read.value_pos))
    <3>1. RightAt(text, read.pos) /\ RightAt(text, read.value_pos)
      BY <1>3, <2>3, <2>4, <2>6 DEF Sound
    <3> QED
      BY <1>1, <1>4, <2>3, <2>4, <3>1, RaiseSound
  <2> QED
    BY <1>3, <1>8, <2>6, <2>7 DEF Becomes, json_raise_for_value
<1>9. CASE json_process(parser, "NUMBER", Flushed(parser).buf, FALSE)
  BY <1>1, <1>2, <1>3, <1>9, ScalarPlaces
<1>10. CASE Becomes(json_raise(parser, "OUTOFMEMORY")) \/ Becomes(json_raise_for_value(parser, "SYNTAX"))
  BY <1>2, <1>4, <1>10, RaisePlaces
<1> QED
  BY <1>7, <1>8, <1>9, <1>10

LEMMA NoMemoryPlaces ==
  ASSUME IInv, PlaceInv, NEW automata, Turn(automata), automata \subseteq {"NUMBER", "STRING", "KEY"},
         parser' = json_raise(Rewound(parser), "OUTOFMEMORY")
  PROVE  PlaceInv'
<1>1. /\ parser \in Parsers /\ parser.errcode = Success /\ parser.automaton \in automata
      /\ Bounded(parser, Len(text))
  BY TurnFacts DEF Bounded
<1>2. Sound(text, parser)
  BY DEF PlaceInv
<1>3. Sound(text, parser')
  BY <1>1, <1>2, RewoundSound
<1> QED
  BY <1>3, TurnPlaces

LEMMA StringBytePlaces ==
  ASSUME IInv, PlaceInv, StringByte
  PROVE  PlaceInv'
<1>1. /\ parser \in Parsers /\ parser.errcode = Success /\ text \in Seq(Byte) /\ Len(text) \in Nat
      /\ parser.pos.offset + 1 <= Len(text) /\ parser.pos.offset <= Len(text) /\ Ch \in Byte
      /\ SequenceKept(parser) /\ parser.value_pos.offset <= Len(text)
      /\ parser.automaton \in StringAutomata /\ parser.automaton # "MAIN"
  BY TurnFacts DEF StringByte, StringAutomata
<1>2. Turn({"STRING", "KEY"}) /\ ~(parser.substate = 0 /\ Ch = QuoteMark)
  BY DEF StringByte
<1>3. Sound(text, parser) /\ text[parser.pos.offset + 1] = Ch /\ (Sound(text, parser') => PlaceInv')
  BY <1>2, TurnPlaces DEF PlaceInv
<1> DEFINE read == StringRead(parser, Ch)
<1>4. Reads(parser, read, Ch)
  <2>1. StringInput(parser, Ch)
    BY <1>1 DEF StringInput
  <2> QED
    BY <1>2, <2>1, StringReads
<1>5. \/ Becomes(read)
      \/ Becomes(json_raise_for_value(read, "MAXKEYLEN"))
      \/ Becomes(json_raise_for_value(read, "MAXSTRINGLEN"))
      \/ Becomes(json_raise(Rewound(parser), "OUTOFMEMORY"))
  BY DEF StringByte
<1> HIDE DEF read
<1>6. ASSUME NEW q, Reads(parser, q, Ch)
      PROVE  Sound(text, q)
  BY <1>1, <1>3, <1>6, StaysSound DEF Reads, MovesPast
<1>7. ASSUME NEW err \in ErrorNames
      PROVE  Reads(parser, json_raise_(read, err, read.value_pos), Ch)
  BY <1>1, <1>4, RaiseReads DEF Reads
<1>8. {"MAXKEYLEN", "MAXSTRINGLEN"} \subseteq ErrorNames
  BY DEF ErrorNames
<1>9. CASE \/ Becomes(read)
           \/ Becomes(json_raise_for_value(read, "MAXKEYLEN"))
           \/ Becomes(json_raise_for_value(read, "MAXSTRINGLEN"))
  <2>1. /\ Sound(text, json_raise_(read, "MAXKEYLEN", read.value_pos))
        /\ Sound(text, json_raise_(read, "MAXSTRINGLEN", read.value_pos))
        /\ Sound(text, read)
    BY <1>4, <1>6, <1>7, <1>8
  <2> QED
    BY <1>3, <1>9, <2>1 DEF Becomes, json_raise_for_value
<1>10. CASE Becomes(json_raise(Rewound(parser), "OUTOFMEMORY"))
  BY <1>2, <1>10, NoMemoryPlaces DEF Becomes
<1> QED
  BY <1>5, <1>9, <1>10

LEMMA StringEndPlaces ==
  ASSUME RootContainersAllowed, IInv, PlaceInv, StringEnd
  PROVE  PlaceInv'
<1>1. /\ parser \in Parsers /\ parser.errcode = Success /\ parser.pos \in Place3
      /\ parser.pos.offset \in Nat /\ parser.last_cl_offset \in Int
  BY TurnFacts DEF StringEnd, Parsers
<1>2. Turn({"STRING", "KEY"}) /\ "MAIN" \notin {"STRING", "KEY"} /\ Ch = QuoteMark
  BY DEF StringEnd
<1>3. /\ RightAt(text, parser.pos) /\ KnowsReturn(text, parser) /\ text[parser.pos.offset + 1] = Ch
  BY <1>2, TurnPlaces
<1>4. CASE json_process(Advanced(parser), parser.automaton, Flushed(parser).buf, FALSE)
  <2> DEFINE a == Advanced(parser)
  <2>1. a \in Parsers /\ a.pos = Along(parser.pos, 1) /\ a.pos.offset = parser.pos.offset + 1
    BY <1>1, AdvancedType
  <2>2. a = [parser EXCEPT !.pos = Along(parser.pos, 1)]
    BY <1>1 DEF Advanced, Parsers
  <2>3. /\ a.errcode = Success /\ a.value_pos = parser.value_pos /\ a.automaton = parser.automaton
        /\ a.last_cl_offset = parser.last_cl_offset
    BY <1>1, <2>2 DEF Parsers
  <2>4. Ch \notin LineEnds
    BY <1>2 DEF LineEnds, QuoteMark, Return, NewLine
  <2>5. RightAt(text, a.pos)
    BY <1>1, <1>3, <2>1, <2>4, NextRight
  <2> HIDE DEF a
  <2>6. KnowsReturn(text, a)
    BY <1>1, <1>3, <2>1, <2>3, <2>4 DEF KnowsReturn, LineEnds
  <2>7. json_process(a, parser.automaton, Flushed(parser).buf, FALSE)
    BY <1>4 DEF a
  <2> QED
    BY <1>2, <2>1, <2>3, <2>5, <2>6, <2>7, ScalarPlaces
<1>5. CASE Becomes(json_raise(Rewound(parser), "OUTOFMEMORY"))
  BY <1>2, <1>5, NoMemoryPlaces DEF Becomes
<1> QED
  BY <1>4, <1>5 DEF StringEnd

LEMMA FiniPlaces ==
  ASSUME RootContainersAllowed, IInv, PlaceInv, json_fini
  PROVE  PlaceInv'
<1>1. /\ parser \in Parsers /\ parser.pos.offset <= Len(text) /\ parser.value_pos.offset <= Len(text)
      /\ parser.pos \in Place3 /\ parser.value_pos \in Place3 /\ parser.automaton \in Automata
  BY DEF IInv, TypeOK, Parsers
<1>2. text' = text /\ ~feeding /\ feeding' = feeding
  BY DEF json_fini
<1>3. /\ Sound(text, parser) /\ RightAt(text, parser.pos)
      /\ HasValue(parser) => RightAt(text, parser.value_pos)
      /\ parser.errcode = Success => parser.pos.offset = Len(text) /\ KnowsReturn(text, parser)
  BY <1>2 DEF PlaceInv, Sound
<1>4. CASE Becomes(parser)
  BY <1>2, <1>3, <1>4, SameText DEF Becomes
<1>5. ASSUME parser.errcode = Success, NEW err \in ErrorNames, NEW at \in {parser.pos, parser.value_pos},
             at = parser.pos \/ HasValue(parser), Becomes(json_raise_(parser, err, at))
      PROVE  PlaceInv'
  <2>1. at \in Place3 /\ at.offset <= Len(text) /\ RightAt(text, at)
    BY <1>1, <1>3, <1>5
  <2>2. Sound(text, json_raise_(parser, err, at)) /\ json_raise_(parser, err, at).errcode # Success
    BY <1>1, <1>3, <1>5, <2>1, RaiseSound, RaiseType
  <2> QED
    BY <1>2, <1>5, <2>2, SameText DEF Becomes
<1>6. ASSUME parser.errcode = Success, parser.automaton # "MAIN", NEW type, NEW data,
             json_process(parser, type, data, FALSE)
      PROVE  PlaceInv'
  <2>1. FALSE \in BOOLEAN /\ (FALSE => Ch \in Byte /\ parser.pos = parser.pos)
        /\ (parser.automaton # "MAIN" \/ type \in Containers \cup Closers)
    BY <1>6
  <2>2. Sound(text, parser') /\ parser'.pos = parser.pos
    BY <1>1, <1>3, <1>6, <2>1, ProcessSound
  <2> QED
    BY <1>2, <1>3, <1>6, <2>2, SameText
<1>7. {"SYNTAX", "UNCLOSEDSTRING"} \subseteq ErrorNames
  BY DEF ErrorNames
<1>8. CASE parser.errcode # Success
  BY <1>4, <1>8 DEF json_fini
<1>9. CASE parser.errcode = Success /\ parser.automaton = "MAIN"
  <2>1. Becomes(parser) \/ Becomes(json_raise_(parser, Unexpected(parser.state), parser.pos))
    BY <1>9 DEF json_fini, Literals, json_raise
  <2> QED
    BY <1>4, <1>5, <1>9, <2>1, UnexpectedNames
<1>10. CASE parser.errcode = Success /\ parser.automaton # "MAIN"
  <2>1. \/ json_process(parser, parser.automaton, <<>>, FALSE)
        \/ json_process(parser, "NUMBER", parser.buf, FALSE)
        \/ Becomes(json_raise_(parser, "SYNTAX", parser.value_pos))
        \/ Becomes(json_raise_(parser, "UNCLOSEDSTRING", parser.value_pos))
    <3>1. CASE parser.automaton \in DOMAIN Literals
      BY <1>10, <3>1 DEF json_fini, Literals
    <3>2. CASE parser.automaton = "NUMBER"
      BY <1>10, <3>2 DEF json_fini, Literals, json_raise_for_value
    <3>3. CASE parser.automaton \in {"STRING", "KEY"}
      BY <1>10, <3>3 DEF json_fini, Literals, json_raise_for_value
    <3> QED
      BY <1>1, <1>10, <3>1, <3>2, <3>3 DEF Automata
  <2>2. HasValue(parser)
    BY <1>10 DEF HasValue
  <2> QED
    BY <1>5, <1>6, <1>7, <1>10, <2>1, <2>2
<1> QED
  BY <1>8, <1>9, <1>10

(* Every step keeps PlaceInv, and it holds at first.                       *)
LEMMA PlacesStep ==
  ASSUME RootContainersAllowed, IInv, PlaceInv, [Next]_vars, [LongChunksInLine]_vars
  PROVE  PlaceInv'
<1>1. CASE Next
  <2>1. config' = config
    BY <1>1 DEF Next
  <2>2. ASSUME NEW ch \in Alphabet(config), NextByte(ch) PROVE PlaceInv'
    BY <2>1, <2>2, NextBytePlaces
  <2>3. ASSUME NEW n \in {config.max_total_len + 1 - parser.pos.offset} \cap (1 .. MaxChunk),
               NEW chunk \in [1 .. n -> Alphabet(config)], FeedTooMuch(chunk)
        PROVE  PlaceInv'
    <3>1. CASE UNCHANGED vars
      BY <3>1, SameText DEF PlaceInv, vars
    <3>2. CASE LongChunksInLine
      BY <2>1, <2>3, <3>2, FeedTooMuchPlaces
    <3> QED
      BY <3>1, <3>2
  <2>4. CASE EndOfChunk
    BY <2>4, EndOfChunkPlaces
  <2>5. CASE OpenContainer
    BY <2>1, <2>5, OpenContainerPlaces
  <2>6. CASE CloseContainer
    BY <2>1, <2>6, CloseContainerPlaces
  <2>7. CASE Separator
    BY <2>7, SeparatorPlaces
  <2>8. CASE StartScalar
    BY <2>8, StartScalarPlaces
  <2>9. CASE OtherByte
    BY <2>9, OtherBytePlaces
  <2>10. CASE LiteralByte
    BY <2>10, LiteralBytePlaces
  <2>11. CASE NumberByte
    BY <2>11, NumberBytePlaces
  <2>12. CASE StringByte
    BY <2>12, StringBytePlaces
  <2>13. CASE StringEnd
    BY <2>13, StringEndPlaces
  <2>14. CASE json_fini
    BY <2>14, FiniPlaces
  <2> QED
    BY <1>1, <2>2, <2>3, <2>4, <2>5, <2>6, <2>7, <2>8, <2>9, <2>10, <2>11, <2>12, <2>13, <2>14
    DEF Next
<1>2. CASE UNCHANGED vars
  BY <1>2, SameText DEF PlaceInv, vars
<1> QED
  BY <1>1, <1>2

LEMMA InitPlaces ==
  ASSUME Init
  PROVE  PlaceInv
<1>1. /\ parser.pos = [offset |-> 0, line |-> 1, column |-> 1] /\ parser.automaton = "MAIN"
      /\ parser.value_counter = 0 /\ parser.errcode = Success /\ parser.last_cl_offset = -2
      /\ text = <<>>
  BY DEF Init
<1>2. parser.pos \in Place3 /\ parser.pos.offset = 0 /\ parser.pos.line = 1 /\ parser.pos.column = 1
  BY <1>1 DEF Place3
<1> DEFINE place == PlaceIn(text, 0)
<1>3. place = parser.pos
  <2>1. Ends(text, 0) = {} /\ Counted(text, 0) = {}
    BY DEF Ends, Counted
  <2>2. LastEnd(text, 0) = 0 /\ Cardinality(Counted(text, 0)) = 0
    BY <2>1, LastEndIs, FS_EmptySet
  <2>3. place \in Place3 /\ place.offset = 0 /\ place.line = 1 /\ place.column = 1
    BY <2>2, PlaceInType
  <2> HIDE DEF place
  <2> QED
    BY <1>2, <2>3, SamePlace
<1>4. RightAt(text, parser.pos)
  BY <1>2, <1>3 DEF RightAt
<1>5. KnowsReturn(text, parser) /\ RunInLine(text, parser) /\ ~HasValue(parser)
  BY <1>1, <1>2 DEF KnowsReturn, RunInLine, StringAutomata, HasValue
<1>6. parser.errcode \in Rets /\ Len(text) = 0
  BY <1>1, ConfigAssumption
<1> QED
  BY <1>2, <1>4, <1>5, <1>6 DEF PlaceInv, Sound

(* Every place the parser tells (pos, value_pos and the error's place) has *)
(* the line and the column of its offset: lines end at "\n", "\r" and      *)
(* "\r\n", whatever way the text is cut into chunks. The two hypotheses    *)
(* are what json.c does otherwise: it tells no place for a root container  *)
(* that the flags refuse, and it does not count the line ends of a chunk   *)
(* that is longer than max_total_len allows, nor stop at an error it met   *)
(* before.                                                                 *)
THEOREM PlacesCorrect ==
  ASSUME RootContainersAllowed
  PROVE  Spec /\ [][LongChunksInLine]_vars => []PlacesRight
<1>1. Init => IInv /\ PlaceInv
  BY InitHolds, InitPlaces
<1>2. IInv /\ PlaceInv /\ [Next]_vars /\ [LongChunksInLine]_vars => IInv' /\ PlaceInv'
  BY StepHolds, PlacesStep DEF Kept
<1>3. PlaceInv => PlacesRight
  BY PlaceIsPlaceIn DEF PlaceInv, Sound, RightAt, PlacesRight
<1> QED
  BY <1>1, <1>2, <1>3, PTL DEF Spec

=============================================================================
