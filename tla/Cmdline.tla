------------------------------- MODULE Cmdline -------------------------------
(***************************************************************************)
(* cmdline_read() of src/3rd_party/cmdline.c: the reader of a command      *)
(* line.  It walks argv once and reports what it finds to a callback, one  *)
(* call per option, per letter of a short option group, per positional     *)
(* argument and per error.                                                 *)
(*                                                                         *)
(* A word of the command line is a record: the number of dashes it starts  *)
(* with and the tokens that follow them.  Tokens are cut where the code    *)
(* compares: the name of an option, "=", one letter of a short group, the  *)
(* rest.  So "--html=out" is [dashes |-> 2, toks |-> <<"html","=","out">>] *)
(* "-nv" is [dashes |-> 1, toks |-> <<"n","v">>] and "-Iinc" is            *)
(* [dashes |-> 1, toks |-> <<"I","inc">>].                                 *)
(***************************************************************************)
EXTENDS Integers, Sequences, FiniteSets

CONSTANTS
  Tokens,    \* the pieces that words are cut into
  Options,   \* the option table, a sequence of records; order matters
  Lines,     \* the command lines considered (argv[1] .. argv[argc-1])
  Rets       \* what the callback may return; 0 lets the reading go on

VARIABLES
  argv,              \* the command line, never written
  i,                 \* index of the next word
  after_doubledash,  \* "--" was seen: everything left is positional
  group,             \* letters of a short option group still to report
  calls,             \* the callback invocations made so far
  ret                \* what the last callback invocation returned

vars == <<argv, i, after_doubledash, group, calls, ret>>

Word == [dashes : Nat, toks : Seq(Tokens)]

ASSUME OptionsType == \A k \in DOMAIN Options : Options[k].long \in Tokens
ASSUME LinesType   == Lines \subseteq Seq(Word)
ASSUME RetsType    == 0 \in Rets

-----------------------------------------------------------------------------
(* Words and the option table *)

Text(toks) == [dashes |-> 0, toks |-> toks]
ErrorIds   == {"UNKNOWN", "MISSINGARG", "BOGUSARG"}
Ids        == {"NONE"} \cup ErrorIds \cup {Options[k].id : k \in DOMAIN Options}
NoArg      == [dashes |-> -1, toks |-> <<>>]     \* the callback gets NULL
Dash       == [dashes |-> 1, toks |-> <<>>]
DoubleDash == [dashes |-> 2, toks |-> <<>>]

(* What cmdline.h asks of the author of a table: a compiler-like option    *)
(* has no short name, ids tell the options apart and are not reserved.     *)
WellFormed ==
  /\ \A k \in DOMAIN Options :
       /\ "compiler" \in Options[k].flags => Options[k].short = ""
       /\ Options[k].id \notin {"NONE"} \cup ErrorIds
  /\ \A j, k \in DOMAIN Options : Options[j].id = Options[k].id => j = k

IsCompilerLike(opt) == "compiler" \in opt.flags
NeedsArg(opt)       == "required" \in opt.flags

CompilerLikeMatch(opt, w) ==
  /\ IsCompilerLike(opt)
  /\ w.dashes = opt.dashes
  /\ w.toks[1] = opt.long

LongMatch(opt, w) ==
  /\ ~IsCompilerLike(opt)
  /\ w.dashes = 2
  /\ opt.long # "" /\ w.toks[1] = opt.long
  /\ Len(w.toks) > 1 => w.toks[2] = "="

ShortMatch(opt, w) ==
  /\ ~IsCompilerLike(opt)
  /\ w.dashes = 1
  /\ opt.short # "" /\ w.toks[1] = opt.short

Matches(opt, w) ==
  CompilerLikeMatch(opt, w) \/ LongMatch(opt, w) \/ ShortMatch(opt, w)

(* Of the table's entries at the indices in S the loop takes the first:    *)
(* the set has no element when S is empty, else exactly one.               *)
First(S) == {Options[k] : k \in {k \in S : \A j \in S : k <= j}}

OptionFor(w) == First({k \in DOMAIN Options : Matches(Options[k], w)})

(* The group handler compares the letter with the short name of every      *)
(* entry, compiler-like ones included.                                     *)
OptionForLetter(letter) ==
  First({k \in DOMAIN Options : Options[k].short # "" /\ Options[k].short = letter})

-----------------------------------------------------------------------------
Init ==
  /\ argv \in Lines
  /\ i = 1
  /\ after_doubledash = FALSE
  /\ group = <<>>
  /\ calls = <<>>
  /\ ret = 0

Call(id, arg, r) ==
  /\ calls' = Append(calls, [id |-> id, arg |-> arg])
  /\ ret' = r

(* Mutant of Reading: the test of the callback's result after each turn of *)
(* the loop is missing.                                                    *)
ReadingOn == group = <<>> /\ i <= Len(argv)

(* The head of the loop: a word is left and no callback asked to stop. *)
Reading == ret = 0 /\ group = <<>> /\ i <= Len(argv)

(* Mutant of IsPositional: "--" is compared before after_doubledash. *)
IsPositionalUnlessDashes(w) ==
  (after_doubledash /\ w # DoubleDash) \/ w = Dash \/ w.dashes = 0

(* fast_optarg_decision is 1 from its initialisation on, so every word     *)
(* without a leading dash is positional, whatever the table holds.         *)
IsPositional(w) == after_doubledash \/ w = Dash \/ w.dashes = 0
IsOptionWord(w) == ~IsPositional(w) /\ w # DoubleDash

Positional(r) ==
  /\ Reading
  /\ IsPositional(argv[i])
  /\ Call("NONE", argv[i], r)
  /\ i' = i + 1
  /\ UNCHANGED <<argv, after_doubledash, group>>

EndOfOptions ==
  /\ Reading
  /\ ~IsPositional(argv[i]) /\ argv[i] = DoubleDash
  /\ after_doubledash' = TRUE
  /\ i' = i + 1
  /\ UNCHANGED <<argv, group, calls, ret>>

(* A compiler-like option and a short option that needs an argument take   *)
(* the rest of their word, else the whole next word, else they complain.   *)
OptionTakingArg(r) ==
  /\ Reading
  /\ IsOptionWord(argv[i])
  /\ \E opt \in OptionFor(argv[i]) :
       /\ IsCompilerLike(opt) \/ (argv[i].dashes = 1 /\ NeedsArg(opt))
       /\ \/ /\ Len(argv[i].toks) > 1
             /\ Call(opt.id, Text(Tail(argv[i].toks)), r)
             /\ i' = i + 1
          \/ /\ Len(argv[i].toks) = 1 /\ i < Len(argv)
             /\ Call(opt.id, argv[i + 1], r)
             /\ i' = i + 2
          \/ /\ Len(argv[i].toks) = 1 /\ i = Len(argv)
             /\ Call("MISSINGARG", argv[i], r)
             /\ i' = i + 1
  /\ UNCHANGED <<argv, after_doubledash, group>>

LongOption(r) ==
  /\ Reading
  /\ IsOptionWord(argv[i])
  /\ \E opt \in OptionFor(argv[i]) :
       /\ ~IsCompilerLike(opt) /\ argv[i].dashes = 2
       /\ \/ /\ Len(argv[i].toks) = 1 /\ ~NeedsArg(opt)
             /\ Call(opt.id, NoArg, r)
          \/ /\ Len(argv[i].toks) = 1 /\ NeedsArg(opt)
             /\ Call("MISSINGARG", argv[i], r)
          \/ /\ Len(argv[i].toks) > 1 /\ opt.flags \cap {"optional", "required"} # {}
             /\ Call(opt.id, Text(SubSeq(argv[i].toks, 3, Len(argv[i].toks))), r)
          \/ /\ Len(argv[i].toks) > 1 /\ opt.flags \cap {"optional", "required"} = {}
             /\ Call("BOGUSARG", [dashes |-> 2, toks |-> <<opt.long>>], r)
  /\ i' = i + 1
  /\ UNCHANGED <<argv, after_doubledash, group>>

(* An option without argument, and the letters grouped behind it unless    *)
(* the callback already asked to stop.                                     *)
ShortOption(r) ==
  /\ Reading
  /\ IsOptionWord(argv[i])
  /\ \E opt \in OptionFor(argv[i]) :
       /\ ~IsCompilerLike(opt) /\ argv[i].dashes = 1 /\ ~NeedsArg(opt)
       /\ Call(opt.id, NoArg, r)
       /\ group' = IF r = 0 THEN Tail(argv[i].toks) ELSE <<>>
  /\ i' = i + 1
  /\ UNCHANGED <<argv, after_doubledash>>

(* Mutant of UnknownOption: it takes the next word for its argument. *)
UnknownOptionWithArg(r) ==
  /\ Reading
  /\ IsOptionWord(argv[i]) /\ OptionFor(argv[i]) = {}
  /\ Call("UNKNOWN", argv[i], r)
  /\ i' = i + 2
  /\ UNCHANGED <<argv, after_doubledash, group>>

(* Mutant of UnknownOption: a word after it is taken for its argument. *)
UnknownOptionSkipping(r) ==
  /\ Reading
  /\ IsOptionWord(argv[i]) /\ OptionFor(argv[i]) = {}
  /\ Call("UNKNOWN", argv[i], r)
  /\ i' = IF i < Len(argv) THEN i + 2 ELSE i + 1
  /\ UNCHANGED <<argv, after_doubledash, group>>

(* Only a long option is stripped of "=value" before it is reported. *)
UnknownOption(r) ==
  /\ Reading
  /\ IsOptionWord(argv[i]) /\ OptionFor(argv[i]) = {}
  /\ Call("UNKNOWN",
          IF argv[i].dashes = 2 THEN [dashes |-> 2, toks |-> <<argv[i].toks[1]>>]
                                  ELSE argv[i],
          r)
  /\ i' = i + 1
  /\ UNCHANGED <<argv, after_doubledash, group>>

(* Mutant of GroupLetter: the test for a required argument is missing. *)
GroupLetterUnchecked(r) ==
  /\ group # <<>>
  /\ \/ /\ OptionForLetter(group[1]) = {}
        /\ Call("UNKNOWN", [dashes |-> 1, toks |-> <<group[1]>>], r)
     \/ \E opt \in OptionForLetter(group[1]) : Call(opt.id, NoArg, r)
  /\ group' = IF r = 0 THEN Tail(group) ELSE <<>>
  /\ UNCHANGED <<argv, i, after_doubledash>>

(* One turn of cmdline_handle_short_opt_group(). *)
GroupLetter(r) ==
  /\ group # <<>>
  /\ \/ /\ OptionForLetter(group[1]) = {}
        /\ Call("UNKNOWN", [dashes |-> 1, toks |-> <<group[1]>>], r)
     \/ \E opt \in OptionForLetter(group[1]) :
          IF NeedsArg(opt)
            THEN Call("MISSINGARG", [dashes |-> 1, toks |-> <<group[1]>>], r)
            ELSE Call(opt.id, NoArg, r)
  /\ group' = IF r = 0 THEN Tail(group) ELSE <<>>
  /\ UNCHANGED <<argv, i, after_doubledash>>

(* The steps that end in a callback invocation with result r. *)
Deliver(r) ==
  \/ Positional(r) \/ OptionTakingArg(r) \/ LongOption(r)
  \/ ShortOption(r) \/ UnknownOption(r) \/ GroupLetter(r)

Done == group = <<>> /\ (ret # 0 \/ i > Len(argv))

Next == EndOfOptions \/ \E r \in Rets : Deliver(r)

Spec == Init /\ [][Next]_vars

-----------------------------------------------------------------------------
(* Properties *)

(* The cursor stays within one past the end of argv, however an option     *)
(* swallows the word after it.                                             *)
TypeOK ==
  /\ argv \in Lines
  /\ i \in 1 .. Len(argv) + 1
  /\ after_doubledash \in BOOLEAN
  /\ group \in Seq(Tokens)
  /\ calls \in Seq([id : Ids, arg : Word \cup {NoArg}])
  /\ ret \in Rets

(* What the callback relies on when it uses arg without a test: an option  *)
(* that needs an argument is never reported with NULL, and an option       *)
(* without argument flags is never reported with one, whichever of the     *)
(* four places of cmdline.c made the call; a positional argument and the   *)
(* name of a bad option are always there.                                  *)
HonoursContract(c) ==
  /\ \A k \in DOMAIN Options :
       Options[k].id = c.id =>
         /\ IsCompilerLike(Options[k]) \/ NeedsArg(Options[k]) => c.arg # NoArg
         /\ Options[k].flags = {} => c.arg = NoArg
  /\ c.id \in {"NONE"} \cup ErrorIds => c.arg # NoArg

ArgContract == \A k \in DOMAIN calls : HonoursContract(calls[k])

(* After "--" every word is reported once, in order and as positional,     *)
(* even a second "--" or the name of an option: one "--" goes unreported.  *)
PositionalsAfterDoubleDash ==
  after_doubledash =>
    /\ Cardinality({k \in 1 .. i - 1 : argv[k] = DoubleDash})
         = 1 + Cardinality({c \in DOMAIN calls : calls[c].arg = DoubleDash})
    /\ \E k \in 1 .. i - 1 :
      LET n == i - 1 - k
      IN /\ argv[k] = DoubleDash
         /\ n <= Len(calls)
         /\ SubSeq(calls, Len(calls) - n + 1, Len(calls))
              = [j \in 1 .. n |-> [id |-> "NONE", arg |-> argv[k + j]]]

(* A word without a dash (an input file) is never lost: it was reported as *)
(* positional or handed to the option before it, as often as it occurs.    *)
NoWordLost ==
  \A w \in {argv[k] : k \in 1 .. i - 1} :
    w.dashes = 0 =>
      Cardinality({k \in 1 .. i - 1 : argv[k] = w})
        <= Cardinality({c \in DOMAIN calls : calls[c].arg = w})

(* cmdline.h: "If the callback returns non-zero cmdline_read() aborts any  *)
(* subsequent parsing and it returns the same value to the caller", in the *)
(* middle of a group of short options too.                                 *)
AbortIsFinal == [][ret # 0 => UNCHANGED <<calls, ret, i>>]_vars

=============================================================================
