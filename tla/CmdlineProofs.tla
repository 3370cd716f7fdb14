---------------------------- MODULE CmdlineProofs ----------------------------
(***************************************************************************)
(* Proofs about Cmdline, for every option table and every set of command   *)
(* lines: type correctness, what the callback may rely on when it uses its *)
(* argument, that a call that asks to stop is the last one, and that every *)
(* word is reported, before "--" and after it.                             *)
(***************************************************************************)
EXTENDS Cmdline, FiniteSetTheorems, SequenceTheorems, TLAPS

CallRecord == [id : Ids, arg : Word \cup {NoArg}]

-----------------------------------------------------------------------------
(* Lemmas about words and the option table *)

(* The loop's choice is an entry of the table that passed the test. *)
LEMMA FirstIsEntry ==
  ASSUME NEW S \in SUBSET (DOMAIN Options), NEW opt \in First(S)
  PROVE  \E k \in S : opt = Options[k]
BY DEF First

LEMMA OptionForIsEntry ==
  ASSUME NEW w, NEW opt \in OptionFor(w)
  PROVE  \E k \in DOMAIN Options : opt = Options[k]
<1> DEFINE S == {k \in DOMAIN Options : Matches(Options[k], w)}
<1>1. S \in SUBSET (DOMAIN Options) /\ opt \in First(S)
  BY DEF OptionFor
<1> QED
  BY <1>1, FirstIsEntry

LEMMA OptionForLetterIsEntry ==
  ASSUME NEW letter, NEW opt \in OptionForLetter(letter)
  PROVE  /\ \E k \in DOMAIN Options : opt = Options[k]
         /\ opt.short # "" /\ opt.short = letter
<1> DEFINE S == {k \in DOMAIN Options : Options[k].short # "" /\ Options[k].short = letter}
<1>1. S \in SUBSET (DOMAIN Options) /\ opt \in First(S)
  BY DEF OptionForLetter
<1>2. PICK k \in S : opt = Options[k]
  BY <1>1, FirstIsEntry
<1> QED
  BY <1>2

LEMMA TailIsWord ==
  ASSUME NEW toks \in Seq(Tokens), Len(toks) > 1
  PROVE  Text(Tail(toks)) \in Word
<1>1. Tail(toks) \in Seq(Tokens)
  BY HeadTailProperties
<1> QED
  BY <1>1 DEF Text, Word

LEMMA ValueIsWord ==
  ASSUME NEW toks \in Seq(Tokens), Len(toks) > 1
  PROVE  Text(SubSeq(toks, 3, Len(toks))) \in Word
<1>1. Len(toks) \in Nat /\ \A k \in 3 .. Len(toks) : toks[k] \in Tokens
  BY LenProperties, ElementOfSeq
<1>2. SubSeq(toks, 3, Len(toks)) \in Seq(Tokens)
  BY <1>1, SubSeqProperties
<1> QED
  BY <1>2 DEF Text, Word

(* A word that is neither positional nor "-" nor "--" has a first token. *)
LEMMA OptionWordHasToken ==
  ASSUME NEW w \in Word, w.dashes \in {1, 2}, w # Dash, w # DoubleDash
  PROVE  w.toks # <<>> /\ Len(w.toks) >= 1 /\ w.toks[1] \in Tokens
<1>1. w = [dashes |-> w.dashes, toks |-> w.toks]
  BY DEF Word
<1>2. w.toks # <<>>
  BY <1>1 DEF Dash, DoubleDash
<1>3. w.toks \in Seq(Tokens)
  BY DEF Word
<1> QED
  BY <1>2, <1>3, EmptySeq, LenProperties, ElementOfSeq

-----------------------------------------------------------------------------
(* Type correctness *)

(* A call reports what HonoursContract promises of it: this is what each   *)
(* action is shown to append to calls.                                     *)
Reports(c) == c \in CallRecord /\ (WellFormed => HonoursContract(c))

LEMMA CallAppends ==
  ASSUME TypeOK, NEW r \in Rets, NEW id \in Ids, NEW arg \in Word \cup {NoArg},
         Call(id, arg, r)
  PROVE  /\ calls' \in Seq(CallRecord) /\ ret' \in Rets
         /\ [id |-> id, arg |-> arg] \in CallRecord
         /\ calls' = Append(calls, [id |-> id, arg |-> arg])
BY AppendProperties DEF TypeOK, Call, CallRecord

LEMMA WordIsAnArg ==
  ASSUME NEW w \in Word
  PROVE  w \in Word \cup {NoArg} /\ w # NoArg
BY DEF Word, NoArg

(* A call with a reserved id and an argument, and one with the id of an    *)
(* entry and the kind of argument the entry's flags ask for.               *)
LEMMA ReservedCallReports ==
  ASSUME NEW id \in {"NONE"} \cup ErrorIds, NEW w \in Word
  PROVE  id \in Ids /\ Reports([id |-> id, arg |-> w])
<1>1. id \in Ids
  BY DEF Ids
<1>2. w \in Word \cup {NoArg} /\ w # NoArg
  BY WordIsAnArg
<1>3. [id |-> id, arg |-> w] \in CallRecord
  BY <1>1, <1>2 DEF CallRecord
<1>4. ASSUME WellFormed PROVE HonoursContract([id |-> id, arg |-> w])
  BY <1>2, <1>4 DEF HonoursContract, WellFormed
<1> QED
  BY <1>1, <1>3, <1>4 DEF Reports

LEMMA OptionCallReports ==
  ASSUME NEW k \in DOMAIN Options, NEW arg \in Word \cup {NoArg},
         WellFormed /\ (IsCompilerLike(Options[k]) \/ NeedsArg(Options[k])) => arg # NoArg,
         WellFormed /\ Options[k].flags = {} => arg = NoArg
  PROVE  Options[k].id \in Ids /\ Reports([id |-> Options[k].id, arg |-> arg])
<1>1. Options[k].id \in Ids
  BY DEF Ids
<1>2. [id |-> Options[k].id, arg |-> arg] \in CallRecord
  BY <1>1 DEF CallRecord
<1>3. ASSUME WellFormed PROVE HonoursContract([id |-> Options[k].id, arg |-> arg])
  BY <1>3 DEF HonoursContract, WellFormed
<1> QED
  BY <1>1, <1>2, <1>3 DEF Reports

LEMMA WordRead ==
  ASSUME TypeOK, Reading
  PROVE  /\ argv \in Seq(Word) /\ i \in 1 .. Len(argv) /\ Len(argv) \in Nat
         /\ argv[i] \in Word /\ argv[i].dashes \in Nat /\ argv[i].toks \in Seq(Tokens)
         /\ i < Len(argv) => argv[i + 1] \in Word
<1>1. argv \in Seq(Word) /\ i \in 1 .. Len(argv) /\ Len(argv) \in Nat
  BY LinesType, LenProperties DEF TypeOK, Reading
<1>2. argv[i] \in Word /\ (i < Len(argv) => argv[i + 1] \in Word)
  BY <1>1, ElementOfSeq
<1> QED
  BY <1>1, <1>2 DEF Word

-----------------------------------------------------------------------------
(* The actions *)

Appended == \E c : Reports(c) /\ calls' = Append(calls, c)

LEMMA PositionalCorrect ==
  ASSUME TypeOK, NEW r \in Rets, Positional(r)
  PROVE  TypeOK' /\ Appended
<1>1. argv[i] \in Word /\ i + 1 \in 1 .. Len(argv) + 1
  BY WordRead DEF Positional
<1>2. "NONE" \in Ids /\ Reports([id |-> "NONE", arg |-> argv[i]])
  BY <1>1, ReservedCallReports
<1>3. /\ calls' \in Seq(CallRecord) /\ ret' \in Rets
      /\ calls' = Append(calls, [id |-> "NONE", arg |-> argv[i]])
  BY <1>1, <1>2, WordIsAnArg, CallAppends DEF Positional
<1> QED
  BY <1>1, <1>2, <1>3 DEF TypeOK, Positional, CallRecord, Appended

LEMMA OptionTakingArgCorrect ==
  ASSUME TypeOK, NEW r \in Rets, OptionTakingArg(r)
  PROVE  TypeOK' /\ Appended
<1>0. PICK opt \in OptionFor(argv[i]) :
        /\ IsCompilerLike(opt) \/ NeedsArg(opt)
        /\ \/ /\ Len(argv[i].toks) > 1
              /\ Call(opt.id, Text(Tail(argv[i].toks)), r)
              /\ i' = i + 1
           \/ /\ i < Len(argv)
              /\ Call(opt.id, argv[i + 1], r)
              /\ i' = i + 2
           \/ /\ Call("MISSINGARG", argv[i], r)
              /\ i' = i + 1
  BY DEF OptionTakingArg
<1>1. PICK k \in DOMAIN Options : opt = Options[k]
  BY OptionForIsEntry
<1>2. opt.flags # {}
  BY <1>0 DEF IsCompilerLike, NeedsArg
<1>3. /\ argv[i] \in Word /\ argv[i].toks \in Seq(Tokens)
      /\ i \in 1 .. Len(argv) /\ Len(argv) \in Nat
      /\ i < Len(argv) => argv[i + 1] \in Word
  BY WordRead DEF OptionTakingArg
<1>4. ASSUME NEW w \in Word, Call(opt.id, w, r)
      PROVE  calls' \in Seq(CallRecord) /\ ret' \in Rets /\ Appended
  <2>1. w \in Word \cup {NoArg} /\ w # NoArg
    BY WordIsAnArg
  <2>2. opt.id \in Ids /\ Reports([id |-> opt.id, arg |-> w])
    BY <1>1, <1>2, <2>1, OptionCallReports
  <2> QED
    BY <1>4, <2>1, <2>2, CallAppends DEF Appended
<1>5. CASE Len(argv[i].toks) > 1 /\ Call(opt.id, Text(Tail(argv[i].toks)), r) /\ i' = i + 1
  <2>1. calls' \in Seq(CallRecord) /\ ret' \in Rets /\ Appended
    BY <1>3, <1>4, <1>5, TailIsWord
  <2> QED
    BY <1>3, <1>5, <2>1 DEF TypeOK, OptionTakingArg, CallRecord
<1>6. CASE i < Len(argv) /\ Call(opt.id, argv[i + 1], r) /\ i' = i + 2
  <2>1. calls' \in Seq(CallRecord) /\ ret' \in Rets /\ Appended
    BY <1>3, <1>4, <1>6
  <2> QED
    BY <1>3, <1>6, <2>1 DEF TypeOK, OptionTakingArg, CallRecord
<1>7. CASE Call("MISSINGARG", argv[i], r) /\ i' = i + 1
  <2>1. "MISSINGARG" \in Ids /\ Reports([id |-> "MISSINGARG", arg |-> argv[i]])
    BY <1>3, ReservedCallReports DEF ErrorIds
  <2>2. calls' \in Seq(CallRecord) /\ ret' \in Rets /\ Appended
    BY <1>3, <1>7, <2>1, WordIsAnArg, CallAppends DEF Appended
  <2> QED
    BY <1>3, <1>7, <2>2 DEF TypeOK, OptionTakingArg, CallRecord
<1> QED
  BY <1>0, <1>5, <1>6, <1>7

LEMMA LongOptionCorrect ==
  ASSUME TypeOK, NEW r \in Rets, LongOption(r)
  PROVE  TypeOK' /\ Appended
<1>0. PICK opt \in OptionFor(argv[i]) :
        /\ ~IsCompilerLike(opt)
        /\ \/ ~NeedsArg(opt) /\ Call(opt.id, NoArg, r)
           \/ Call("MISSINGARG", argv[i], r)
           \/ /\ Len(argv[i].toks) > 1 /\ opt.flags \cap {"optional", "required"} # {}
              /\ Call(opt.id, Text(SubSeq(argv[i].toks, 3, Len(argv[i].toks))), r)
           \/ Call("BOGUSARG", [dashes |-> 2, toks |-> <<opt.long>>], r)
  BY DEF LongOption
<1>1. PICK k \in DOMAIN Options : opt = Options[k]
  BY OptionForIsEntry
<1>2. /\ argv[i] \in Word /\ argv[i].toks \in Seq(Tokens)
      /\ i \in 1 .. Len(argv) /\ Len(argv) \in Nat
  BY WordRead DEF LongOption
<1>3. calls' \in Seq(CallRecord) /\ ret' \in Rets /\ Appended
  <2>1. CASE ~NeedsArg(opt) /\ Call(opt.id, NoArg, r)
    <3>1. opt.id \in Ids /\ Reports([id |-> opt.id, arg |-> NoArg])
      BY <1>0, <1>1, <2>1, OptionCallReports
    <3> QED
      BY <2>1, <3>1, CallAppends DEF Appended
  <2>2. CASE Call("MISSINGARG", argv[i], r)
    <3>1. "MISSINGARG" \in Ids /\ Reports([id |-> "MISSINGARG", arg |-> argv[i]])
      BY <1>2, ReservedCallReports DEF ErrorIds
    <3> QED
      BY <1>2, <2>2, <3>1, WordIsAnArg, CallAppends DEF Appended
  <2>3. CASE /\ Len(argv[i].toks) > 1 /\ opt.flags \cap {"optional", "required"} # {}
             /\ Call(opt.id, Text(SubSeq(argv[i].toks, 3, Len(argv[i].toks))), r)
    <3> DEFINE w == Text(SubSeq(argv[i].toks, 3, Len(argv[i].toks)))
    <3>1. w \in Word \cup {NoArg} /\ w # NoArg
      BY <1>2, <2>3, ValueIsWord, WordIsAnArg
    <3>2. opt.flags # {}
      BY <2>3
    <3> HIDE DEF w
    <3>3. opt.id \in Ids /\ Reports([id |-> opt.id, arg |-> w])
      BY <1>1, <3>1, <3>2, OptionCallReports
    <3> QED
      BY <2>3, <3>1, <3>3, CallAppends DEF Appended, w
  <2>4. CASE Call("BOGUSARG", [dashes |-> 2, toks |-> <<opt.long>>], r)
    <3>1. opt.long \in Tokens
      BY <1>1, OptionsType
    <3>2. [dashes |-> 2, toks |-> <<opt.long>>] \in Word
      BY <3>1 DEF Word
    <3>3. "BOGUSARG" \in Ids
          /\ Reports([id |-> "BOGUSARG", arg |-> [dashes |-> 2, toks |-> <<opt.long>>]])
      BY <3>2, ReservedCallReports DEF ErrorIds
    <3> QED
      BY <2>4, <3>2, <3>3, WordIsAnArg, CallAppends DEF Appended
  <2> QED
    BY <1>0, <2>1, <2>2, <2>3, <2>4
<1> QED
  BY <1>2, <1>3 DEF TypeOK, LongOption, CallRecord

LEMMA ShortOptionCorrect ==
  ASSUME TypeOK, NEW r \in Rets, ShortOption(r)
  PROVE  TypeOK' /\ Appended
<1>0. PICK opt \in OptionFor(argv[i]) :
        /\ ~IsCompilerLike(opt) /\ ~NeedsArg(opt) /\ argv[i].dashes = 1
        /\ Call(opt.id, NoArg, r)
        /\ group' = IF r = 0 THEN Tail(argv[i].toks) ELSE <<>>
  BY DEF ShortOption
<1>1. PICK k \in DOMAIN Options : opt = Options[k]
  BY OptionForIsEntry
<1>2. /\ argv[i] \in Word /\ argv[i].toks \in Seq(Tokens)
      /\ i \in 1 .. Len(argv) /\ Len(argv) \in Nat
  BY WordRead DEF ShortOption
<1>3. opt.id \in Ids /\ Reports([id |-> opt.id, arg |-> NoArg])
  BY <1>0, <1>1, OptionCallReports
<1>4. calls' \in Seq(CallRecord) /\ ret' \in Rets /\ Appended
  BY <1>0, <1>3, CallAppends DEF Appended
<1>5. group' \in Seq(Tokens)
  <2>1. argv[i] # Dash /\ argv[i] # DoubleDash
    BY DEF ShortOption, IsOptionWord, IsPositional
  <2>2. argv[i].toks # <<>>
    BY <1>0, <1>2, <2>1, OptionWordHasToken
  <2>3. Tail(argv[i].toks) \in Seq(Tokens) /\ <<>> \in Seq(Tokens)
    BY <1>2, <2>2, HeadTailProperties, EmptySeq
  <2> QED
    BY <1>0, <2>3
<1> QED
  BY <1>2, <1>4, <1>5 DEF TypeOK, ShortOption, CallRecord

LEMMA UnknownOptionCorrect ==
  ASSUME TypeOK, NEW r \in Rets, UnknownOption(r)
  PROVE  TypeOK' /\ Appended
<1> DEFINE w == IF argv[i].dashes = 2 THEN [dashes |-> 2, toks |-> <<argv[i].toks[1]>>]
                                   ELSE argv[i]
<1>1. /\ argv[i] \in Word /\ argv[i].toks \in Seq(Tokens)
      /\ i \in 1 .. Len(argv) /\ Len(argv) \in Nat
  BY WordRead DEF UnknownOption
<1>2. argv[i] # Dash /\ argv[i] # DoubleDash
  BY DEF UnknownOption, IsOptionWord, IsPositional
<1>3. w \in Word
  <2>1. CASE argv[i].dashes = 2
    <3>1. argv[i].toks[1] \in Tokens
      BY <1>1, <1>2, <2>1, OptionWordHasToken
    <3> QED
      BY <1>1, <2>1, <3>1 DEF Word
  <2> QED
    BY <1>1, <2>1
<1>4. Call("UNKNOWN", w, r)
  BY DEF UnknownOption
<1> HIDE DEF w
<1>5. "UNKNOWN" \in Ids /\ Reports([id |-> "UNKNOWN", arg |-> w])
  BY <1>3, ReservedCallReports DEF ErrorIds
<1>6. calls' \in Seq(CallRecord) /\ ret' \in Rets /\ Appended
  BY <1>3, <1>4, <1>5, WordIsAnArg, CallAppends DEF Appended
<1> QED
  BY <1>1, <1>6 DEF TypeOK, UnknownOption, CallRecord

LEMMA GroupLetterCorrect ==
  ASSUME TypeOK, NEW r \in Rets, GroupLetter(r)
  PROVE  TypeOK' /\ Appended
<1> DEFINE letter == [dashes |-> 1, toks |-> <<group[1]>>]
<1>1. group \in Seq(Tokens) /\ group # <<>> /\ group[1] \in Tokens
  <2>1. group \in Seq(Tokens) /\ group # <<>>
    BY DEF TypeOK, GroupLetter
  <2>2. Len(group) \in Nat /\ Len(group) # 0
    BY <2>1, LenProperties, EmptySeq
  <2> QED
    BY <2>1, <2>2, ElementOfSeq
<1>2. letter \in Word
  BY <1>1 DEF Word
<1>3. group' \in Seq(Tokens)
  <2>1. Tail(group) \in Seq(Tokens) /\ <<>> \in Seq(Tokens)
    BY <1>1, HeadTailProperties, EmptySeq
  <2> QED
    BY <2>1 DEF GroupLetter
<1>4. ASSUME NEW id \in {"UNKNOWN", "MISSINGARG"}, Call(id, letter, r)
      PROVE  calls' \in Seq(CallRecord) /\ ret' \in Rets /\ Appended
  <2> HIDE DEF letter
  <2>1. id \in Ids /\ Reports([id |-> id, arg |-> letter])
    BY <1>2, ReservedCallReports DEF ErrorIds
  <2> QED
    BY <1>2, <1>4, <2>1, WordIsAnArg, CallAppends DEF Appended
<1>5. ASSUME NEW opt \in OptionForLetter(group[1]), ~NeedsArg(opt), Call(opt.id, NoArg, r)
      PROVE  calls' \in Seq(CallRecord) /\ ret' \in Rets /\ Appended
  <2>1. PICK k \in DOMAIN Options : opt = Options[k]
    BY OptionForLetterIsEntry
  <2>2. opt.short # ""
    BY OptionForLetterIsEntry
  <2>3. WellFormed => ~IsCompilerLike(Options[k])
    BY <2>1, <2>2 DEF WellFormed, IsCompilerLike
  <2>4. opt.id \in Ids /\ Reports([id |-> opt.id, arg |-> NoArg])
    BY <1>5, <2>1, <2>3, OptionCallReports
  <2> QED
    BY <1>5, <2>4, CallAppends DEF Appended
<1>6. calls' \in Seq(CallRecord) /\ ret' \in Rets /\ Appended
  BY <1>4, <1>5 DEF GroupLetter
<1> QED
  BY <1>3, <1>6 DEF TypeOK, GroupLetter, CallRecord

(* Every action that ends in a callback invocation keeps the types and     *)
(* makes one honest call.                                                  *)
LEMMA DeliverCorrect ==
  ASSUME TypeOK, NEW r \in Rets, Deliver(r)
  PROVE  TypeOK' /\ Appended
BY PositionalCorrect, OptionTakingArgCorrect, LongOptionCorrect, ShortOptionCorrect,
   UnknownOptionCorrect, GroupLetterCorrect DEF Deliver

LEMMA EndOfOptionsCorrect ==
  ASSUME TypeOK, EndOfOptions
  PROVE  TypeOK' /\ UNCHANGED calls
<1>1. i + 1 \in 1 .. Len(argv) + 1
  BY WordRead DEF EndOfOptions
<1> QED
  BY <1>1 DEF TypeOK, EndOfOptions

-----------------------------------------------------------------------------
(* The theorems *)

LEMMA InitType == Init => TypeOK
<1> SUFFICES ASSUME Init PROVE TypeOK
  OBVIOUS
<1>1. 1 \in 1 .. Len(argv) + 1
  <2>1. Len(argv) \in Nat
    BY LinesType, LenProperties DEF Init
  <2> QED
    BY <2>1
<1>2. /\ <<>> \in Seq(Tokens)
      /\ <<>> \in Seq([id : Ids, arg : Word \cup {NoArg}])
  BY EmptySeq
<1> QED
  BY <1>1, <1>2, RetsType DEF Init, TypeOK

LEMMA NextType ==
  ASSUME TypeOK, [Next]_vars
  PROVE  TypeOK'
<1>1. CASE Next
  BY <1>1, DeliverCorrect, EndOfOptionsCorrect DEF Next
<1>2. CASE UNCHANGED vars
  BY <1>2 DEF TypeOK, vars
<1> QED
  BY <1>1, <1>2

(* The cursor, the pending letters and the calls made stay what they are   *)
(* declared to be, for every option table and every command line.          *)
THEOREM TypeCorrect == Spec => []TypeOK
<1>1. TypeOK /\ [Next]_vars => TypeOK'
  BY NextType
<1> QED
  BY InitType, <1>1, PTL DEF Spec

(* With a table as cmdline.h asks for, the callback can use its argument   *)
(* without a test: no call breaks HonoursContract.                         *)
THEOREM CallbackContract == WellFormed => (Spec => []ArgContract)
<1> SUFFICES ASSUME WellFormed PROVE Spec => []ArgContract
  OBVIOUS
<1>1. Init => ArgContract
  BY DEF Init, ArgContract
<1>2. TypeOK /\ ArgContract /\ [Next]_vars => ArgContract'
  <2> SUFFICES ASSUME TypeOK, ArgContract, [Next]_vars PROVE ArgContract'
    OBVIOUS
  <2>1. CASE UNCHANGED calls
    BY <2>1 DEF ArgContract, HonoursContract, NoArg
  <2>2. CASE Appended
    <3>1. PICK c : Reports(c) /\ calls' = Append(calls, c)
      BY <2>2 DEF Appended
    <3>2. calls \in Seq(CallRecord) /\ c \in CallRecord /\ HonoursContract(c)
      BY <3>1 DEF TypeOK, CallRecord, Reports
    <3>3. /\ Len(calls) \in Nat /\ DOMAIN calls = 1 .. Len(calls)
          /\ DOMAIN calls' = 1 .. Len(calls) + 1
          /\ \A k \in 1 .. Len(calls) : calls'[k] = calls[k]
          /\ calls'[Len(calls) + 1] = c
      BY <3>1, <3>2, AppendProperties, LenProperties
    <3> QED
      BY <3>2, <3>3 DEF ArgContract
  <2>3. UNCHANGED calls \/ Appended
    BY DeliverCorrect, EndOfOptionsCorrect DEF Next, vars
  <2> QED
    BY <2>1, <2>2, <2>3
<1> QED
  BY TypeCorrect, <1>1, <1>2, PTL DEF Spec

-----------------------------------------------------------------------------
(* Words taken and words reported *)

(* The words among the first m of the line that are w, and the calls that  *)
(* report w.                                                               *)
Taken(w, m) == {k \in 1 .. m : argv[k] = w}
Reported(w) == {c \in DOMAIN calls : calls[c].arg = w}

LEMMA TakenOneMore ==
  ASSUME NEW w, NEW m \in Nat
  PROVE  /\ Cardinality(Taken(w, m)) \in Nat
         /\ argv[m + 1] = w => Cardinality(Taken(w, m + 1)) = Cardinality(Taken(w, m)) + 1
         /\ argv[m + 1] # w => Cardinality(Taken(w, m + 1)) = Cardinality(Taken(w, m))
<1>1. IsFiniteSet(Taken(w, m)) /\ m + 1 \notin Taken(w, m)
  <2>1. IsFiniteSet(1 .. m) /\ Taken(w, m) \subseteq 1 .. m
    BY FS_Interval DEF Taken
  <2> QED
    BY <2>1, FS_Subset
<1>2. ASSUME argv[m + 1] = w PROVE Taken(w, m + 1) = Taken(w, m) \cup {m + 1}
  BY <1>2 DEF Taken
<1>3. ASSUME argv[m + 1] # w PROVE Taken(w, m + 1) = Taken(w, m)
  BY <1>3 DEF Taken
<1>4. Cardinality(Taken(w, m)) \in Nat
  BY <1>1, FS_CardinalityType
<1>5. Cardinality(Taken(w, m) \cup {m + 1}) = Cardinality(Taken(w, m)) + 1
  BY <1>1, FS_AddElement
<1> QED
  BY <1>2, <1>3, <1>4, <1>5

LEMMA ReportedCount ==
  ASSUME TypeOK, NEW w
  PROVE  Cardinality(Reported(w)) \in Nat
<1>1. Len(calls) \in Nat /\ DOMAIN calls = 1 .. Len(calls)
  BY LenProperties DEF TypeOK
<1>2. IsFiniteSet(1 .. Len(calls)) /\ Reported(w) \subseteq 1 .. Len(calls)
  BY <1>1, FS_Interval DEF Reported
<1> QED
  BY <1>2, FS_Subset, FS_CardinalityType

LEMMA ReportedOneMore ==
  ASSUME TypeOK, NEW w, NEW c \in CallRecord, calls' = Append(calls, c)
  PROVE  /\ Cardinality(Reported(w)) \in Nat
         /\ c.arg = w => Cardinality(Reported(w)') = Cardinality(Reported(w)) + 1
         /\ c.arg # w => Cardinality(Reported(w)') = Cardinality(Reported(w))
<1> DEFINE N == Len(calls)
<1>0. calls \in Seq(CallRecord)
  BY DEF TypeOK, CallRecord
<1>1. /\ N \in Nat /\ DOMAIN calls = 1 .. N /\ DOMAIN calls' = 1 .. N + 1
      /\ \A k \in 1 .. N : calls'[k] = calls[k]
      /\ calls'[N + 1] = c
  BY <1>0, AppendProperties, LenProperties
<1> HIDE DEF N
<1>2. IsFiniteSet(Reported(w)) /\ N + 1 \notin Reported(w)
  <2>1. IsFiniteSet(1 .. N) /\ Reported(w) \subseteq 1 .. N
    BY <1>1, FS_Interval DEF Reported
  <2>2. N + 1 \notin 1 .. N
    BY <1>1
  <2> QED
    BY <2>1, <2>2, FS_Subset
<1>3. ASSUME c.arg = w PROVE Reported(w)' = Reported(w) \cup {N + 1}
  BY <1>1, <1>3 DEF Reported
<1>4. ASSUME c.arg # w PROVE Reported(w)' = Reported(w)
  BY <1>1, <1>4 DEF Reported
<1>5. Cardinality(Reported(w)) \in Nat
  BY <1>2, FS_CardinalityType
<1>6. Cardinality(Reported(w) \cup {N + 1}) = Cardinality(Reported(w)) + 1
  BY <1>2, FS_AddElement
<1> QED
  BY <1>3, <1>4, <1>5, <1>6

(* What becomes of the words that a call goes past: none, one, or one and  *)
(* its argument.                                                           *)
NoWord(c) == i' = i /\ ~after_doubledash /\ c.arg # DoubleDash
OneWord(c) ==
  /\ i' = i + 1
  /\ IF IsPositional(argv[i])
       THEN c = [id |-> "NONE", arg |-> argv[i]]
       ELSE argv[i] # DoubleDash /\ argv[i].dashes # 0 /\ c.arg # DoubleDash
TwoWords(c) ==
  /\ i' = i + 2 /\ ~after_doubledash
  /\ argv[i] # DoubleDash /\ argv[i].dashes # 0 /\ c.arg = argv[i + 1]

Moves(c) ==
  /\ calls' = Append(calls, c) /\ UNCHANGED <<argv, after_doubledash>>
  /\ NoWord(c) \/ (Reading /\ (OneWord(c) \/ TwoWords(c)))
  /\ after_doubledash => group' = <<>>
  /\ ret' # 0 => group' = <<>>

(* Nothing but the words of the line looks like "--". *)
LEMMA NotDoubleDash ==
  /\ NoArg # DoubleDash
  /\ \A toks : Text(toks) # DoubleDash
  /\ \A d, tok : [dashes |-> d, toks |-> <<tok>>] # DoubleDash
<1>1. /\ DoubleDash.dashes = 2 /\ DoubleDash.toks = <<>> /\ NoArg.dashes = -1
      /\ \A toks : Text(toks).dashes = 0
      /\ \A d, tok : [dashes |-> d, toks |-> <<tok>>].toks = <<tok>>
  BY DEF DoubleDash, NoArg, Text
<1>2. \A tok : <<tok>> # <<>>
  OBVIOUS
<1>3. NoArg # DoubleDash
  BY <1>1
<1>4. \A toks : Text(toks) # DoubleDash
  BY <1>1
<1>5. \A d, tok : [dashes |-> d, toks |-> <<tok>>] # DoubleDash
  BY <1>1, <1>2
<1> QED
  BY <1>3, <1>4, <1>5

(* While letters are left the options have not ended, and the callback has *)
(* not asked to stop.                                                      *)
GroupOpen == group # <<>> => ret = 0 /\ ~after_doubledash

LEMMA DeliverMoves ==
  ASSUME TypeOK, GroupOpen, NEW r \in Rets, Deliver(r)
  PROVE  \E c : Moves(c)
<1>1. CASE Positional(r)
  <2> DEFINE c == [id |-> "NONE", arg |-> argv[i]]
  <2>1. OneWord(c)
    BY <1>1 DEF Positional, OneWord
  <2>2. Moves(c)
    BY <1>1, <2>1 DEF Positional, Call, Moves, Reading
  <2> QED
    BY <2>2
<1>2. CASE OptionTakingArg(r)
  <2>1. /\ Reading /\ ~IsPositional(argv[i]) /\ argv[i] # DoubleDash
        /\ argv[i].dashes # 0 /\ ~after_doubledash
        /\ UNCHANGED <<argv, after_doubledash, group>> /\ group = <<>>
    BY <1>2 DEF OptionTakingArg, IsOptionWord, IsPositional, Reading
  <2>2. PICK opt \in OptionFor(argv[i]) :
          \/ Call(opt.id, Text(Tail(argv[i].toks)), r) /\ i' = i + 1
          \/ Call(opt.id, argv[i + 1], r) /\ i' = i + 2
          \/ Call("MISSINGARG", argv[i], r) /\ i' = i + 1
    BY <1>2 DEF OptionTakingArg
  <2>3. CASE Call(opt.id, Text(Tail(argv[i].toks)), r) /\ i' = i + 1
    <3> DEFINE c == [id |-> opt.id, arg |-> Text(Tail(argv[i].toks))]
    <3>1. OneWord(c)
      BY <2>1, <2>3, NotDoubleDash DEF OneWord
    <3>2. Moves(c)
      BY <2>1, <2>3, <3>1 DEF Call, Moves
    <3> QED
      BY <3>2
  <2>4. CASE Call(opt.id, argv[i + 1], r) /\ i' = i + 2
    <3> DEFINE c == [id |-> opt.id, arg |-> argv[i + 1]]
    <3>1. TwoWords(c)
      BY <2>1, <2>4 DEF TwoWords
    <3>2. Moves(c)
      BY <2>1, <2>4, <3>1 DEF Call, Moves
    <3> QED
      BY <3>2
  <2>5. CASE Call("MISSINGARG", argv[i], r) /\ i' = i + 1
    <3> DEFINE c == [id |-> "MISSINGARG", arg |-> argv[i]]
    <3>1. OneWord(c)
      BY <2>1, <2>5 DEF OneWord
    <3>2. Moves(c)
      BY <2>1, <2>5, <3>1 DEF Call, Moves
    <3> QED
      BY <3>2
  <2> QED
    BY <2>2, <2>3, <2>4, <2>5
<1>3. CASE LongOption(r)
  <2>1. /\ Reading /\ ~IsPositional(argv[i]) /\ argv[i] # DoubleDash
        /\ argv[i].dashes # 0 /\ ~after_doubledash /\ i' = i + 1
        /\ UNCHANGED <<argv, after_doubledash, group>> /\ group = <<>>
    BY <1>3 DEF LongOption, IsOptionWord, IsPositional, Reading
  <2>2. PICK opt \in OptionFor(argv[i]) :
          \/ Call(opt.id, NoArg, r)
          \/ Call("MISSINGARG", argv[i], r)
          \/ Call(opt.id, Text(SubSeq(argv[i].toks, 3, Len(argv[i].toks))), r)
          \/ Call("BOGUSARG", [dashes |-> 2, toks |-> <<opt.long>>], r)
    BY <1>3 DEF LongOption
  <2>3. ASSUME NEW id, NEW arg, arg # DoubleDash, Call(id, arg, r)
        PROVE  \E c : Moves(c)
    <3> DEFINE c == [id |-> id, arg |-> arg]
    <3>1. OneWord(c)
      BY <2>1, <2>3 DEF OneWord
    <3>2. Moves(c)
      BY <2>1, <2>3, <3>1 DEF Call, Moves
    <3> QED
      BY <3>2
  <2>4. CASE Call(opt.id, NoArg, r)
    BY <2>3, <2>4, NotDoubleDash
  <2>5. CASE Call("MISSINGARG", argv[i], r)
    BY <2>1, <2>3, <2>5
  <2>6. CASE Call(opt.id, Text(SubSeq(argv[i].toks, 3, Len(argv[i].toks))), r)
    BY <2>3, <2>6, NotDoubleDash
  <2>7. CASE Call("BOGUSARG", [dashes |-> 2, toks |-> <<opt.long>>], r)
    BY <2>3, <2>7, NotDoubleDash
  <2> QED
    BY <2>2, <2>4, <2>5, <2>6, <2>7
<1>4. CASE ShortOption(r)
  <2>1. /\ Reading /\ ~IsPositional(argv[i]) /\ argv[i] # DoubleDash
        /\ argv[i].dashes # 0 /\ ~after_doubledash /\ i' = i + 1
        /\ UNCHANGED <<argv, after_doubledash>>
    BY <1>4 DEF ShortOption, IsOptionWord, IsPositional, Reading
  <2>2. PICK opt \in OptionFor(argv[i]) :
          Call(opt.id, NoArg, r) /\ group' = IF r = 0 THEN Tail(argv[i].toks) ELSE <<>>
    BY <1>4 DEF ShortOption
  <2> DEFINE c == [id |-> opt.id, arg |-> NoArg]
  <2>3. OneWord(c)
    BY <2>1, NotDoubleDash DEF OneWord
  <2>4. Moves(c)
    BY <2>1, <2>2, <2>3 DEF Call, Moves
  <2> QED
    BY <2>4
<1>5. CASE UnknownOption(r)
  <2> DEFINE w == IF argv[i].dashes = 2 THEN [dashes |-> 2, toks |-> <<argv[i].toks[1]>>] ELSE argv[i]
  <2>1. /\ Reading /\ ~IsPositional(argv[i]) /\ argv[i] # DoubleDash
        /\ argv[i].dashes # 0 /\ ~after_doubledash /\ i' = i + 1
        /\ UNCHANGED <<argv, after_doubledash, group>> /\ group = <<>>
    BY <1>5 DEF UnknownOption, IsOptionWord, IsPositional, Reading
  <2>2. w # DoubleDash
    BY <2>1, NotDoubleDash
  <2>3. Call("UNKNOWN", w, r)
    BY <1>5 DEF UnknownOption
  <2> HIDE DEF w
  <2> DEFINE c == [id |-> "UNKNOWN", arg |-> w]
  <2>4. OneWord(c)
    BY <2>1, <2>2 DEF OneWord
  <2>5. Moves(c)
    BY <2>1, <2>3, <2>4 DEF Call, Moves
  <2> QED
    BY <2>5
<1>6. CASE GroupLetter(r)
  <2>1. /\ i' = i /\ UNCHANGED <<argv, after_doubledash>> /\ ~after_doubledash
        /\ group' = IF r = 0 THEN Tail(group) ELSE <<>>
    BY <1>6 DEF GroupLetter, GroupOpen
  <2>2. \E id, arg : arg # DoubleDash /\ Call(id, arg, r)
    BY <1>6, NotDoubleDash DEF GroupLetter
  <2>3. PICK id, arg : arg # DoubleDash /\ Call(id, arg, r)
    BY <2>2
  <2> DEFINE c == [id |-> id, arg |-> arg]
  <2>4. NoWord(c)
    BY <2>1, <2>3 DEF NoWord
  <2>5. Moves(c)
    BY <2>1, <2>3, <2>4 DEF Call, Moves
  <2> QED
    BY <2>5
<1> QED
  BY <1>1, <1>2, <1>3, <1>4, <1>5, <1>6 DEF Deliver

(* Besides a callback there is only the end of the options. *)
LEMMA Steps ==
  ASSUME TypeOK, GroupOpen, [Next]_vars
  PROVE  \/ UNCHANGED vars
         \/ EndOfOptions
         \/ \E c \in CallRecord : Moves(c)
<1>1. ASSUME NEW r \in Rets, Deliver(r)
      PROVE  \E c \in CallRecord : Moves(c)
  <2>1. PICK c : Moves(c)
    BY <1>1, DeliverMoves
  <2>2. PICK d : d \in CallRecord /\ calls' = Append(calls, d)
    BY <1>1, DeliverCorrect DEF Appended, Reports
  <2>3. Len(calls) \in Nat /\ Append(calls, c)[Len(calls) + 1] = c /\ Append(calls, d)[Len(calls) + 1] = d
    BY LenProperties DEF TypeOK
  <2>4. c = d
    BY <2>1, <2>2, <2>3 DEF Moves
  <2> QED
    BY <2>1, <2>2, <2>4
<1> QED
  BY <1>1 DEF Next

(* A call that asks to stop ends a group of letters, and a group is read   *)
(* to its end before the next word.                                        *)
LEMMA GroupOpenKept ==
  ASSUME TypeOK, GroupOpen, [Next]_vars
  PROVE  GroupOpen'
<1>1. CASE UNCHANGED vars
  BY <1>1 DEF vars, GroupOpen
<1>2. CASE EndOfOptions
  BY <1>2 DEF EndOfOptions, Reading, GroupOpen
<1>3. CASE \E c \in CallRecord : Moves(c)
  BY <1>3 DEF Moves, GroupOpen
<1> QED
  BY <1>1, <1>2, <1>3, Steps

(* When the callback asks to stop, in the middle of a group of short       *)
(* options too, it is not called again and no word is read any more.       *)
THEOREM AbortFinal == Spec => AbortIsFinal
<1>1. Init => TypeOK /\ GroupOpen
  BY InitType DEF Init, GroupOpen
<1>2. TypeOK /\ GroupOpen /\ [Next]_vars => TypeOK' /\ GroupOpen'
  BY NextType, GroupOpenKept
<1>3. TypeOK /\ GroupOpen /\ [Next]_vars => [ret # 0 => UNCHANGED <<calls, ret, i>>]_vars
  <2> SUFFICES ASSUME GroupOpen, Next, ret # 0 PROVE FALSE
    OBVIOUS
  <2>1. group = <<>> /\ ~Reading
    BY DEF GroupOpen, Reading
  <2> QED
    BY <2>1 DEF Next, Deliver, EndOfOptions, Positional, OptionTakingArg, LongOption,
                ShortOption, UnknownOption, GroupLetter
<1> QED
  BY <1>1, <1>2, <1>3, PTL DEF Spec, AbortIsFinal

-----------------------------------------------------------------------------
(* No word without a dash is lost *)

(* Stated of every word, not only of those that were met. *)
EachReported ==
  \A w \in Word : w.dashes = 0 => Cardinality(Taken(w, i - 1)) <= Cardinality(Reported(w))

LEMMA EachReportedKept ==
  ASSUME TypeOK, GroupOpen, EachReported, [Next]_vars
  PROVE  EachReported'
<1>1. CASE UNCHANGED vars
  BY <1>1 DEF vars, EachReported, Taken, Reported
<1>2. CASE EndOfOptions
  <2> SUFFICES ASSUME NEW w \in Word, w.dashes = 0
               PROVE  (Cardinality(Taken(w, i - 1)) <= Cardinality(Reported(w)))'
    BY DEF EachReported
  <2>1. /\ argv[i] # w /\ i' - 1 = i /\ i - 1 \in Nat /\ (i - 1) + 1 = i
        /\ UNCHANGED <<argv, calls>>
    BY <1>2 DEF EndOfOptions, DoubleDash, TypeOK
  <2>2. Cardinality(Taken(w, i)) = Cardinality(Taken(w, i - 1))
    BY <2>1, TakenOneMore
  <2>3. Taken(w, i - 1)' = Taken(w, i) /\ Reported(w)' = Reported(w)
    BY <2>1 DEF Taken, Reported
  <2> QED
    BY <2>2, <2>3 DEF EachReported
<1>3. ASSUME NEW c \in CallRecord, Moves(c)
      PROVE  EachReported'
  <2> SUFFICES ASSUME NEW w \in Word, w.dashes = 0
               PROVE  (Cardinality(Taken(w, i - 1)) <= Cardinality(Reported(w)))'
    BY DEF EachReported
  <2> DEFINE t(m) == Cardinality(Taken(w, m))
             n == Cardinality(Reported(w))
             n1 == Cardinality(Reported(w)')
  <2>1. /\ n \in Nat
        /\ c.arg = w => n1 = n + 1
        /\ c.arg # w => n1 = n
    BY <1>3, ReportedOneMore DEF Moves
  <2>2. /\ i - 1 \in Nat /\ (i - 1) + 1 = i /\ i \in Nat
        /\ i' = i + 1 => i' - 1 = i
        /\ i' = i + 2 => i' - 1 = i + 1
    BY DEF TypeOK
  <2>3. /\ t(i - 1) \in Nat /\ t(i) \in Nat
        /\ argv[i] = w => t(i) = t(i - 1) + 1
        /\ argv[i] # w => t(i) = t(i - 1)
        /\ argv[i + 1] = w => t(i + 1) = t(i) + 1
        /\ argv[i + 1] # w => t(i + 1) = t(i)
    BY <2>2, TakenOneMore
  <2>4. Taken(w, i - 1)' = Taken(w, i' - 1)
    BY <1>3 DEF Moves, Taken
  <2>5. t(i - 1) <= n
    BY DEF EachReported
  <2>6. \/ i' = i
        \/ i' = i + 1 /\ (argv[i] = w => c.arg = w)
        \/ i' = i + 2 /\ argv[i] # w /\ c.arg = argv[i + 1]
    BY <1>3 DEF Moves, NoWord, OneWord, TwoWords
  <2> HIDE DEF t, n, n1
  <2>7. t(i' - 1) <= n1
    BY <2>1, <2>2, <2>3, <2>5, <2>6
  <2> QED
    BY <2>4, <2>7 DEF t, n1
<1> QED
  BY <1>1, <1>2, <1>3, Steps

(* Whatever the options do with the words behind them, a word without a    *)
(* dash gets to the callback as often as it stands on the line.            *)
THEOREM NoWordIsLost == Spec => []NoWordLost
<1>1. Init => TypeOK /\ GroupOpen /\ EachReported
  <2>1. ASSUME Init PROVE EachReported
    <3>1. \A w : Taken(w, i - 1) = {} /\ Reported(w) = {}
      BY <2>1 DEF Init, Taken, Reported
    <3> QED
      BY <3>1, FS_EmptySet DEF EachReported
  <2> QED
    BY <2>1, InitType DEF Init, GroupOpen
<1>2. TypeOK /\ GroupOpen /\ EachReported /\ [Next]_vars => TypeOK' /\ GroupOpen' /\ EachReported'
  BY NextType, GroupOpenKept, EachReportedKept
<1>3. TypeOK /\ EachReported => NoWordLost
  <2> SUFFICES ASSUME TypeOK, EachReported, NEW k \in 1 .. i - 1, argv[k].dashes = 0
               PROVE  Cardinality({j \in 1 .. i - 1 : argv[j] = argv[k]})
                        <= Cardinality({c \in DOMAIN calls : calls[c].arg = argv[k]})
    BY DEF NoWordLost
  <2>1. argv[k] \in Word
    BY LinesType, ElementOfSeq, LenProperties DEF TypeOK
  <2> QED
    BY <2>1 DEF EachReported, Taken, Reported
<1> QED
  BY <1>1, <1>2, <1>3, PTL DEF Spec

-----------------------------------------------------------------------------
(* Behind "--" *)

(* The words since the k-th have all been reported as positional.          *)
Since(k) ==
  LET n == i - 1 - k
  IN  /\ argv[k] = DoubleDash /\ n <= Len(calls)
      /\ \A j \in 1 .. n : calls[(Len(calls) - n) + j] = [id |-> "NONE", arg |-> argv[k + j]]

(* Each "--" that was passed was reported as an argument or a positional,  *)
(* but for the one that ended the options.                                 *)
DashesCounted ==
  /\ Cardinality(Taken(DoubleDash, i - 1))
       = (IF after_doubledash THEN 1 ELSE 0) + Cardinality(Reported(DoubleDash))
  /\ after_doubledash => \E k \in 1 .. i - 1 : Since(k)

LEMMA SinceKept ==
  ASSUME TypeOK, NEW c \in CallRecord, Moves(c), after_doubledash, GroupOpen,
         NEW k \in 1 .. i - 1, Since(k)
  PROVE  k \in 1 .. i' - 1 /\ Since(k)'
<1>1. /\ Reading /\ i' = i + 1 /\ c = [id |-> "NONE", arg |-> argv[i]]
      /\ calls' = Append(calls, c) /\ UNCHANGED argv
  BY DEF Moves, NoWord, OneWord, TwoWords, IsPositional
<1> DEFINE N == Len(calls)
           n == i - 1 - k
<1>2. /\ N \in Nat /\ Len(calls') = N + 1
      /\ \A j \in 1 .. N : calls'[j] = calls[j]
      /\ calls'[N + 1] = c
  BY <1>1, AppendProperties, LenProperties DEF TypeOK, CallRecord
<1>3. i \in Nat /\ k \in Nat /\ k >= 1 /\ k <= i - 1 /\ n \in Nat /\ k + (n + 1) = i
      /\ i' - 1 - k = n + 1
  BY <1>1 DEF TypeOK
<1>4. argv[k] = DoubleDash /\ n <= N
      /\ \A j \in 1 .. n : calls[(N - n) + j] = [id |-> "NONE", arg |-> argv[k + j]]
  BY DEF Since
<1> HIDE DEF n, N
<1>5. ASSUME NEW j \in 1 .. n + 1
      PROVE  calls'[((N + 1) - (n + 1)) + j] = [id |-> "NONE", arg |-> argv[k + j]]
  <2>1. CASE j = n + 1
    <3>1. ((N + 1) - (n + 1)) + j = N + 1 /\ k + j = i
      BY <1>2, <1>3, <2>1
    <3> QED
      BY <1>1, <1>2, <3>1
  <2>2. CASE j # n + 1
    <3>1. j \in 1 .. n /\ ((N + 1) - (n + 1)) + j = (N - n) + j /\ (N - n) + j \in 1 .. N
      BY <1>2, <1>3, <1>4, <2>2
    <3> QED
      BY <1>2, <1>4, <3>1
  <2> QED
    BY <2>1, <2>2
<1>6. k \in 1 .. i' - 1 /\ n + 1 <= N + 1
  BY <1>1, <1>2, <1>3, <1>4
<1> QED
  BY <1>1, <1>2, <1>3, <1>4, <1>5, <1>6 DEF Since

LEMMA DashesCountedKept ==
  ASSUME TypeOK, GroupOpen, DashesCounted, [Next]_vars
  PROVE  DashesCounted'
<1> DEFINE t(m) == Cardinality(Taken(DoubleDash, m))
           n == Cardinality(Reported(DoubleDash))
           n1 == Cardinality(Reported(DoubleDash)')
<1>1. CASE UNCHANGED vars
  BY <1>1 DEF vars, DashesCounted, Taken, Reported, Since
<1>2. CASE EndOfOptions
  <2>1. /\ argv[i] = DoubleDash /\ i' = i + 1 /\ i - 1 \in Nat /\ i \in Nat /\ (i - 1) + 1 = i
        /\ ~after_doubledash /\ after_doubledash' = TRUE /\ UNCHANGED <<argv, calls>>
    BY <1>2 DEF EndOfOptions, TypeOK, IsPositional
  <2>2. t(i - 1) \in Nat /\ t(i) = t(i - 1) + 1
    BY <2>1, TakenOneMore
  <2>3. Taken(DoubleDash, i - 1)' = Taken(DoubleDash, i) /\ Reported(DoubleDash)' = Reported(DoubleDash)
    BY <2>1 DEF Taken, Reported
  <2>4. Len(calls) \in Nat
    BY LenProperties DEF TypeOK
  <2>5. \E k \in 1 .. i' - 1 : Since(k)'
    <3>1. PICK k : k = i
      OBVIOUS
    <3>2. k \in 1 .. i' - 1 /\ i' - 1 - k = 0 /\ argv'[k] = DoubleDash /\ Len(calls') \in Nat
      BY <2>1, <2>4, <3>1
    <3>3. Since(k)'
      BY <3>2 DEF Since
    <3> QED
      BY <3>2, <3>3
  <2>6. n \in Nat /\ t(i - 1) = n
    BY <2>1, ReportedCount DEF DashesCounted
  <2>7. t(i) = 1 + n
    BY <2>2, <2>6
  <2> QED
    BY <2>1, <2>3, <2>5, <2>7 DEF DashesCounted
<1>3. ASSUME NEW c \in CallRecord, Moves(c)
      PROVE  DashesCounted'
  <2>1. /\ n \in Nat
        /\ c.arg = DoubleDash => n1 = n + 1
        /\ c.arg # DoubleDash => n1 = n
    BY <1>3, ReportedOneMore DEF Moves
  <2>2. /\ i - 1 \in Nat /\ (i - 1) + 1 = i /\ i \in Nat
        /\ i' = i + 1 => i' - 1 = i
        /\ i' = i + 2 => i' - 1 = i + 1
    BY DEF TypeOK
  <2>3. /\ t(i - 1) \in Nat /\ t(i) \in Nat
        /\ argv[i] = DoubleDash => t(i) = t(i - 1) + 1
        /\ argv[i] # DoubleDash => t(i) = t(i - 1)
        /\ argv[i + 1] = DoubleDash => t(i + 1) = t(i) + 1
        /\ argv[i + 1] # DoubleDash => t(i + 1) = t(i)
    BY <2>2, TakenOneMore
  <2>4. Taken(DoubleDash, i - 1)' = Taken(DoubleDash, i' - 1) /\ UNCHANGED after_doubledash
    BY <1>3 DEF Moves, Taken
  <2> DEFINE a == IF after_doubledash THEN 1 ELSE 0
  <2>5. t(i - 1) = a + n /\ a \in Nat
    BY DEF DashesCounted
  <2>6. \/ i' = i /\ c.arg # DoubleDash
        \/ i' = i + 1 /\ (argv[i] = DoubleDash <=> c.arg = DoubleDash)
        \/ i' = i + 2 /\ argv[i] # DoubleDash /\ c.arg = argv[i + 1]
    BY <1>3 DEF Moves, NoWord, OneWord, TwoWords
  <2> HIDE DEF t, n, n1, a
  <2>7. t(i' - 1) = a + n1
    BY <2>1, <2>2, <2>3, <2>5, <2>6
  <2>8. ASSUME after_doubledash
        PROVE  \E k \in 1 .. i' - 1 : Since(k)'
    <3>1. PICK k \in 1 .. i - 1 : Since(k)
      BY <2>8 DEF DashesCounted
    <3> QED
      BY <1>3, <2>8, <3>1, SinceKept
  <2> QED
    BY <2>4, <2>7, <2>8 DEF DashesCounted, t, n1, a
<1> QED
  BY <1>1, <1>2, <1>3, Steps

(* Every word behind the "--" that ends the options is reported once, in   *)
(* order and as positional, whatever it looks like and whatever "--" were  *)
(* taken for arguments before.                                             *)
THEOREM AfterDoubleDash == Spec => []PositionalsAfterDoubleDash
<1>1. Init => TypeOK /\ GroupOpen /\ DashesCounted
  <2>1. ASSUME Init PROVE DashesCounted
    <3>1. Taken(DoubleDash, i - 1) = {} /\ Reported(DoubleDash) = {}
      BY <2>1 DEF Init, Taken, Reported
    <3>2. Cardinality({}) = 0
      BY FS_EmptySet
    <3>3. /\ Cardinality(Taken(DoubleDash, i - 1)) = 0
          /\ Cardinality(Reported(DoubleDash)) = 0
          /\ ~after_doubledash
      BY <2>1, <3>1, <3>2 DEF Init
    <3> QED
      BY <3>3 DEF DashesCounted
  <2> QED
    BY <2>1, InitType DEF Init, GroupOpen
<1>2. TypeOK /\ GroupOpen /\ DashesCounted /\ [Next]_vars
        => TypeOK' /\ GroupOpen' /\ DashesCounted'
  BY NextType, GroupOpenKept, DashesCountedKept
<1>3. TypeOK /\ DashesCounted => PositionalsAfterDoubleDash
  <2> SUFFICES ASSUME TypeOK, DashesCounted, after_doubledash
               PROVE  PositionalsAfterDoubleDash
    BY DEF PositionalsAfterDoubleDash
  <2>1. Cardinality({k \in 1 .. i - 1 : argv[k] = DoubleDash})
          = 1 + Cardinality({c \in DOMAIN calls : calls[c].arg = DoubleDash})
    BY DEF DashesCounted, Taken, Reported
  <2>2. PICK k \in 1 .. i - 1 : Since(k)
    BY DEF DashesCounted
  <2> DEFINE n == i - 1 - k
             N == Len(calls)
  <2>3. n \in Nat /\ N \in Nat /\ n <= N /\ calls \in Seq(CallRecord)
    BY <2>2, LenProperties DEF TypeOK, Since, CallRecord
  <2>4. /\ argv[k] = DoubleDash
        /\ \A j \in 1 .. n : calls[(N - n) + j] = [id |-> "NONE", arg |-> argv[k + j]]
    BY <2>2 DEF Since
  <2> HIDE DEF n, N
  <2>5. SubSeq(calls, N - n + 1, N) = [j \in 1 .. n |-> [id |-> "NONE", arg |-> argv[k + j]]]
    <3>1. \A j \in 1 .. n : (N - n + 1) + j - 1 = (N - n) + j
      BY <2>3
    <3>2. N - (N - n + 1) + 1 = n
      BY <2>3
    <3>3. SubSeq(calls, N - n + 1, N)
            = [j \in 1 .. N - (N - n + 1) + 1 |-> calls[(N - n + 1) + j - 1]]
      BY <2>3
    <3> QED
      BY <2>4, <3>1, <3>2, <3>3
  <2> QED
    BY <2>1, <2>3, <2>4, <2>5 DEF PositionalsAfterDoubleDash, n, N
<1> QED
  BY <1>1, <1>2, <1>3, PTL DEF Spec

=============================================================================
