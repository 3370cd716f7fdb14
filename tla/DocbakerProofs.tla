--------------------------- MODULE DocbakerProofs ---------------------------
(***************************************************************************)
(* Proofs about Docbaker, for every set of command lines and every file    *)
(* system: output is justified, a refused command line touches nothing,    *)
(* the program keeps the promise of Batch, what was opened and created is  *)
(* released, and libclang gets the options of the whole command line. Then *)
(* the walk over the input files and directories: in whatever order they   *)
(* are read, no header below an input is lost or taken twice.              *)
(***************************************************************************)
EXTENDS Docbaker, SequenceTheorems, FiniteSetTheorems, TLAPS

CmdP == INSTANCE CmdlineProofs WITH Options <- cmdline_options, Rets <- {0}

-----------------------------------------------------------------------------
(* The inductive invariant *)

Item == Cmd!Word \cup {NoArg} \cup {CxxFlag(id) : id \in {"CXX_D", "CXX_I", "CXX_S"}}

Array == [items : Seq(Item), alloc : Nat]

Types ==
  /\ Cmd!TypeOK /\ TypeOK
  /\ clang_opts \in Array /\ argv_paths \in Array

(* Nothing is begun before the whole command line is read. *)
Untouched ==
  /\ input = 0 /\ dirs = <<>> /\ n_processed_files = 0
  /\ documented = {} /\ reported = {} /\ ~HasOutput

Preparing == pc \in {"options", "store_init"}
Parsing   == pc \in {"parse_cxx", "createIndex", "parseTranslationUnit", "visit",
                     "err_parseTranslationUnit2", "err_createIndex"}

(* The variables that hold options agree with the calls made. *)
Settings ==
  /\ LastPlace("HTML_H", DefaultHtmlDir, html_output_dir)
  /\ LastPlace("JSON_J", DefaultJsonFile, json_output_file)
  /\ html_output_dir # Null /\ json_output_file # Null
  /\ "JSON" \in enabled_generators <=> Asked("JSON_J")
  /\ pc = "options" => ("HTML" \in enabled_generators <=> Asked("HTML_H"))
  /\ status = "running" /\ pc # "options" =>
       ("HTML" \in enabled_generators <=> Asked("HTML_H") \/ ~Asked("JSON_J"))

Refused == \E k \in DOMAIN calls : calls[k].id \in Refusals

(* How far the walk has come, by the place of the program counter. *)
Walk ==
  /\ Preparing => Untouched
  /\ pc # "exited" => ~Refused
  /\ Refused => Untouched
  /\ Preparing \/ pc = "walk" \/ Parsing =>
       /\ ~HasOutput
       /\ Len(argv_paths.items) = Cardinality(InputCalls)
  /\ pc = "err_parseTranslationUnit2" \/ pc = "err_createIndex" \/ n_processed_files > 0
       => Handled # {}
  /\ pc \in {"walk", "gen_html", "gen_json", "dump", "store_fini"} \/ Parsing => store = "dict"

Finished ==
  /\ dirs = <<>> /\ n_processed_files > 0 /\ input = Cardinality(InputCalls)

(* What the output phase has produced when it comes to each statement. *)
Output ==
  /\ json = [path |-> json.path, stream |-> json.stream, disk |-> json.disk]
  /\ Outputting => Finished
  /\ pc \in {"gen_html", "gen_json", "dump"} => ~dry_run
  /\ pc = "gen_html" => ~HasOutput
  /\ pc \in {"gen_json", "dump"} => (html # Null <=> "HTML" \in enabled_generators)
  /\ pc = "gen_json" => json = NoJson
  /\ pc = "dump" => "JSON" \in enabled_generators /\ json.path = json_output_file
  /\ pc = "dump" \/ json # NoJson => json.path # Null
  /\ json.stream = EmptyDict => json # NoJson
  /\ pc = "store_fini" => Published = IF dry_run THEN {} ELSE enabled_generators

IInv == Types /\ Settings /\ Walk /\ Output /\ OutputsJustified

-----------------------------------------------------------------------------
(* What the reader of the command line gives: Cmdline's lemmas for the     *)
(* table of main.c.                                                        *)

CallRecord == [id : Cmd!Ids, arg : Cmd!Word \cup {NoArg}]

LEMMA TableWellFormed == CmdP!WellFormed
<1>1. DOMAIN cmdline_options = 1 .. 10
  BY DEF cmdline_options
<1>2. /\ cmdline_options[1].id = "CXX_D" /\ cmdline_options[2].id = "CXX_I"
      /\ cmdline_options[3].id = "CXX_S" /\ cmdline_options[4].id = "HTML_H"
      /\ cmdline_options[5].id = "HTML_S" /\ cmdline_options[6].id = "JSON_J"
      /\ cmdline_options[7].id = "n" /\ cmdline_options[8].id = "h"
      /\ cmdline_options[9].id = "V" /\ cmdline_options[10].id = "v"
  BY DEF cmdline_options, Option
<1>4. \A k \in 1 .. 10 : cmdline_options[k].id \notin {"NONE"} \cup CmdP!ErrorIds
  BY <1>2 DEF CmdP!ErrorIds
<1>5. \A j, k \in 1 .. 10 : cmdline_options[j].id = cmdline_options[k].id => j = k
  BY <1>2
<1>6. \A k \in 1 .. 10 : "compiler" \in cmdline_options[k].flags => cmdline_options[k].short = ""
  <2> DEFINE Named(k) == "compiler" \in cmdline_options[k].flags => cmdline_options[k].short = ""
  <2>1. Named(1)
    BY DEF cmdline_options, Option
  <2>2. Named(2)
    BY DEF cmdline_options, Option
  <2>3. Named(3)
    BY DEF cmdline_options, Option
  <2>4. Named(4)
    BY DEF cmdline_options, Option
  <2>5. Named(5)
    BY DEF cmdline_options, Option
  <2>6. Named(6)
    BY DEF cmdline_options, Option
  <2>7. Named(7)
    BY DEF cmdline_options, Option
  <2>8. Named(8)
    BY DEF cmdline_options, Option
  <2>9. Named(9)
    BY DEF cmdline_options, Option
  <2>10. Named(10)
    BY DEF cmdline_options, Option
  <2> HIDE DEF Named
  <2>11. \A k \in 1 .. 10 : Named(k)
    BY <2>1, <2>2, <2>3, <2>4, <2>5, <2>6, <2>7, <2>8, <2>9, <2>10
  <2> QED
    BY <2>11 DEF Named
<1> QED
  BY <1>1, <1>4, <1>5, <1>6 DEF CmdP!WellFormed

LEMMA CmdTypeMeans == Cmd!TypeOK <=> CmdP!TypeOK
BY DEF Cmd!TypeOK, CmdP!TypeOK, Cmd!Word, CmdP!Word, Cmd!NoArg, CmdP!NoArg,
       Cmd!Ids, CmdP!Ids, Cmd!ErrorIds, CmdP!ErrorIds

LEMMA CmdDeliverMeans == Cmd!Deliver(0) <=> CmdP!Deliver(0)
BY Zenon DEF Cmd!Word, CmdP!Word, Cmd!Text, CmdP!Text, Cmd!NoArg,
         CmdP!NoArg, Cmd!Dash, CmdP!Dash, Cmd!DoubleDash,
         CmdP!DoubleDash, Cmd!ErrorIds, CmdP!ErrorIds, Cmd!Ids,
         CmdP!Ids, Cmd!IsCompilerLike, CmdP!IsCompilerLike,
         Cmd!NeedsArg, CmdP!NeedsArg, Cmd!CompilerLikeMatch,
         CmdP!CompilerLikeMatch, Cmd!LongMatch, CmdP!LongMatch,
         Cmd!ShortMatch, CmdP!ShortMatch, Cmd!Matches, CmdP!Matches,
         Cmd!First, CmdP!First, Cmd!OptionFor, CmdP!OptionFor,
         Cmd!OptionForLetter, CmdP!OptionForLetter, Cmd!Call,
         CmdP!Call, Cmd!Reading, CmdP!Reading, Cmd!IsPositional,
         CmdP!IsPositional, Cmd!IsOptionWord, CmdP!IsOptionWord,
         Cmd!Positional, CmdP!Positional, Cmd!OptionTakingArg,
         CmdP!OptionTakingArg, Cmd!LongOption, CmdP!LongOption,
         Cmd!ShortOption, CmdP!ShortOption, Cmd!UnknownOption,
         CmdP!UnknownOption, Cmd!GroupLetter, CmdP!GroupLetter,
         Cmd!Deliver, CmdP!Deliver

LEMMA CmdDelivers ==
  ASSUME Cmd!TypeOK, Cmd!Deliver(0)
  PROVE  /\ Cmd!TypeOK'
         /\ \E c \in CallRecord : calls' = Append(calls, c) /\ CmdP!HonoursContract(c)
<1>1. CmdP!TypeOK /\ CmdP!Deliver(0)
  BY CmdTypeMeans, CmdDeliverMeans
<1>2. Lines \subseteq Seq(CmdP!Word)
  BY LinesType DEF Cmd!Word, CmdP!Word
<1>3. CmdP!TypeOK' /\ CmdP!Appended
  BY <1>1, <1>2, TokensType, CmdP!DeliverCorrect
<1>4. CmdP!CallRecord = CallRecord
  BY DEF CmdP!CallRecord, CallRecord, Cmd!Word, CmdP!Word, Cmd!NoArg, CmdP!NoArg, NoArg,
         Cmd!Ids, CmdP!Ids, Cmd!ErrorIds, CmdP!ErrorIds
<1>5. PICK c : CmdP!Reports(c) /\ calls' = Append(calls, c)
  BY <1>3 DEF CmdP!Appended
<1>6. c \in CallRecord /\ CmdP!HonoursContract(c)
  BY <1>4, <1>5, TableWellFormed DEF CmdP!Reports
<1>7. Cmd!TypeOK'
  BY <1>3 DEF Cmd!TypeOK, CmdP!TypeOK, Cmd!Word, CmdP!Word, Cmd!NoArg, CmdP!NoArg,
         Cmd!Ids, CmdP!Ids, Cmd!ErrorIds, CmdP!ErrorIds
<1> QED
  BY <1>5, <1>6, <1>7

LEMMA CmdEnds ==
  ASSUME Cmd!TypeOK, Cmd!EndOfOptions
  PROVE  Cmd!TypeOK' /\ UNCHANGED calls
<1>1. CmdP!TypeOK /\ CmdP!EndOfOptions
  BY CmdTypeMeans DEF Cmd!EndOfOptions, CmdP!EndOfOptions, Cmd!Reading, CmdP!Reading,
     Cmd!IsPositional, CmdP!IsPositional, Cmd!DoubleDash, CmdP!DoubleDash, Cmd!Dash, CmdP!Dash
<1>2. Lines \subseteq Seq(CmdP!Word)
  BY LinesType DEF Cmd!Word, CmdP!Word
<1>3. CmdP!TypeOK' /\ UNCHANGED calls
  BY <1>1, <1>2, TokensType, CmdP!EndOfOptionsCorrect
<1> QED
  BY <1>3 DEF Cmd!TypeOK, CmdP!TypeOK, Cmd!Word, CmdP!Word, Cmd!NoArg, CmdP!NoArg,
         Cmd!Ids, CmdP!Ids, Cmd!ErrorIds, CmdP!ErrorIds

LEMMA CmdStarts == Cmd!Init => Cmd!TypeOK
<1>1. Lines \subseteq Seq(CmdP!Word)
  BY LinesType DEF Cmd!Word, CmdP!Word
<1>2. CmdP!Init => CmdP!TypeOK
  BY <1>1, TokensType, CmdP!InitType
<1>3. Cmd!Init <=> CmdP!Init
  BY DEF Cmd!Init, CmdP!Init
<1> QED
  BY <1>2, <1>3, CmdTypeMeans

-----------------------------------------------------------------------------
(* Arrays and the sequence of calls *)

LEMMA AppendToArray ==
  ASSUME NEW a \in Array, Len(a.items) <= a.alloc, NEW x \in Item
  PROVE  /\ array_append(a, x) \in Array
         /\ Len(array_append(a, x).items) = Len(a.items) + 1
         /\ Len(array_append(a, x).items) <= array_append(a, x).alloc
<1>1. a.items \in Seq(Item) /\ a.alloc \in Nat
  BY DEF Array
<1>2. Len(a.items) \in Nat
  BY <1>1, LenProperties
<1>3. Append(a.items, x) \in Seq(Item) /\ Len(Append(a.items, x)) = Len(a.items) + 1
  BY <1>1, AppendProperties
<1> QED
  BY <1>1, <1>2, <1>3 DEF array_append, Fits, Array

LEMMA EmptyIsArray == EmptyArray \in Array /\ Len(EmptyArray.items) = 0
BY EmptySeq DEF EmptyArray, Array

LEMMA CallsGrow ==
  ASSUME Cmd!TypeOK, NEW c \in CallRecord, calls' = Append(calls, c)
  PROVE  /\ Len(calls) \in Nat
         /\ DOMAIN calls = 1 .. Len(calls) /\ DOMAIN calls' = 1 .. Len(calls) + 1
         /\ \A k \in 1 .. Len(calls) : calls'[k] = calls[k]
         /\ calls'[Len(calls) + 1] = c /\ Len(calls') = Len(calls) + 1
<1>1. calls \in Seq(CallRecord)
  BY DEF Cmd!TypeOK, CallRecord, NoArg
<1> QED
  BY <1>1, AppendProperties, LenProperties

LEMMA AskedGrows ==
  ASSUME Cmd!TypeOK, NEW c \in CallRecord, calls' = Append(calls, c), NEW id
  PROVE  Asked(id)' <=> Asked(id) \/ c.id = id
BY CallsGrow DEF Asked

LEMMA RefusedGrows ==
  ASSUME Cmd!TypeOK, NEW c \in CallRecord, calls' = Append(calls, c)
  PROVE  Refused' <=> Refused \/ c.id \in Refusals
BY CallsGrow DEF Refused, Refusals

LEMMA InputCallsGrow ==
  ASSUME Cmd!TypeOK, NEW c \in CallRecord, calls' = Append(calls, c)
  PROVE  /\ Cardinality(InputCalls) \in Nat
         /\ Cardinality(InputCalls)' =
              IF c.id = "NONE" THEN Cardinality(InputCalls) + 1 ELSE Cardinality(InputCalls)
<1>1. IsFiniteSet(InputCalls) /\ Cardinality(InputCalls) \in Nat
  <2>1. InputCalls \subseteq 1 .. Len(calls)
    BY CallsGrow DEF InputCalls
  <2>2. IsFiniteSet(1 .. Len(calls))
    BY CallsGrow, FS_Interval
  <2> QED
    BY <2>1, <2>2, FS_Subset, FS_CardinalityType
<1>2. Len(calls) + 1 \notin InputCalls
  BY CallsGrow DEF InputCalls
<1>3. InputCalls' = IF c.id = "NONE" THEN InputCalls \cup {Len(calls) + 1} ELSE InputCalls
  BY CallsGrow DEF InputCalls
<1>4. Cardinality(InputCalls \cup {Len(calls) + 1}) = Cardinality(InputCalls) + 1
  BY <1>1, <1>2, FS_AddElement
<1> QED
  BY <1>1, <1>3, <1>4

(* The place an option names last: a further call changes it only if it    *)
(* names a place for the same option.                                      *)
LEMMA LastPlaceKept ==
  ASSUME Cmd!TypeOK, NEW c \in CallRecord, calls' = Append(calls, c),
         NEW id, NEW default, NEW place,
         LastPlace(id, default, place), c.id # id \/ c.arg = NoArg
  PROVE  LastPlace(id, default, place)'
<1> DEFINE named == {k \in DOMAIN calls : calls[k].id = id /\ calls[k].arg # NoArg}
<1>1. named' = named
  BY CallsGrow
<1>2. \A k \in named : calls'[k].arg = calls[k].arg
  BY CallsGrow
<1> QED
  BY <1>1, <1>2 DEF LastPlace

LEMMA LastPlaceSet ==
  ASSUME Cmd!TypeOK, NEW c \in CallRecord, calls' = Append(calls, c),
         NEW id, NEW default, c.id = id, c.arg # NoArg
  PROVE  LastPlace(id, default, c.arg)'
<1> DEFINE named == {k \in DOMAIN calls : calls[k].id = id /\ calls[k].arg # NoArg}
<1>1. named' = named \cup {Len(calls) + 1}
  BY CallsGrow
<1>2. \A k \in named : k \in Int /\ k <= Len(calls)
  BY CallsGrow
<1>3. calls'[Len(calls) + 1].arg = c.arg /\ Len(calls) + 1 \in Int
  BY CallsGrow
<1> QED
  BY <1>1, <1>2, <1>3 DEF LastPlace

-----------------------------------------------------------------------------
(* The initial states *)

LEMMA InitIInv == Init => IInv
<1> SUFFICES ASSUME Init PROVE IInv
  OBVIOUS
<1>1. calls = <<>>
  BY DEF Init, Cmd!Init
<1>2. DOMAIN calls = {} /\ InputCalls = {}
  BY <1>1 DEF InputCalls
<1>3. DefaultHtmlDir # Null /\ DefaultJsonFile # Null
  BY DEF DefaultHtmlDir, DefaultJsonFile, Null, NoArg, Cmd!Text, Cmd!NoArg
<1>4. Types
  <2>1. clang_opts \in Array /\ argv_paths \in Array
    BY EmptyIsArray DEF Init
  <2>2. Len(clang_opts.items) <= clang_opts.alloc /\ Len(argv_paths.items) <= argv_paths.alloc
    BY EmptyIsArray DEF Init, EmptyArray
  <2>3. Cmd!TypeOK
    BY CmdStarts DEF Init
  <2> QED
    BY <2>1, <2>2, <2>3 DEF Init, Types, TypeOK
<1>5. ~HasOutput
  BY DEF Init, HasOutput
<1>6. Settings
  BY <1>2, <1>3 DEF Init, Settings, LastPlace, Asked
<1>7. Walk
  BY <1>2, <1>5, FS_EmptySet, EmptyIsArray DEF Init, Walk, Preparing, Parsing, Untouched, Refused
<1>8. Output
  BY <1>5 DEF Init, Output, Outputting, NoJson, EmptyDict
<1> QED
  BY <1>4, <1>5, <1>6, <1>7, <1>8 DEF IInv, OutputsJustified

-----------------------------------------------------------------------------
(* Reading the command line *)

LEMMA CallbackTypes ==
  ASSUME Types, NEW c \in CallRecord, cmdline_callback(c), Cmd!TypeOK',
         pc = "options", UNCHANGED <<walkvars, cxxvars, outvars, store>>,
         CmdP!HonoursContract(c)
  PROVE  Types'
<1>1. c.arg \in Item /\ (c.id \in {"CXX_D", "CXX_I", "CXX_S"} => CxxFlag(c.id) \in Item)
  BY DEF CallRecord, Item
<1>2. /\ clang_opts \in Array /\ Len(clang_opts.items) <= clang_opts.alloc
      /\ argv_paths \in Array /\ Len(argv_paths.items) <= argv_paths.alloc
  BY DEF Types, TypeOK, Array
<1>3. /\ clang_opts' \in Array /\ Len(clang_opts'.items) <= clang_opts'.alloc
  <2>1. CASE CxxOption(c)
    <3>1. array_append(clang_opts, CxxFlag(c.id)) \in Array
          /\ Len(array_append(clang_opts, CxxFlag(c.id)).items)
               <= array_append(clang_opts, CxxFlag(c.id)).alloc
      BY <1>1, <1>2, <2>1, AppendToArray DEF CxxOption
    <3> QED
      BY <1>1, <1>2, <2>1, <3>1, AppendToArray DEF CxxOption
  <2>2. CASE UNCHANGED clang_opts
    BY <1>2, <2>2
  <2> QED
    BY <2>1, <2>2 DEF cmdline_callback, HtmlOption, JsonOption, DryRunOption, OtherOption,
       HelpOrVersion, InputPath, BadOption, optvars
<1>4. /\ argv_paths' \in Array /\ Len(argv_paths'.items) <= argv_paths'.alloc
  <2>1. CASE InputPath(c)
    BY <1>1, <1>2, <2>1, AppendToArray DEF InputPath
  <2>2. CASE UNCHANGED argv_paths
    BY <1>2, <2>2
  <2> QED
    BY <2>1, <2>2 DEF cmdline_callback, HtmlOption, JsonOption, DryRunOption, OtherOption,
       HelpOrVersion, CxxOption, BadOption, optvars
<1>5. \/ pc' = "options" /\ status' = status
      \/ pc' = "exited" /\ status' \in {"success", "failure"}
  BY DEF cmdline_callback, CxxOption, HtmlOption, JsonOption, DryRunOption, OtherOption,
     HelpOrVersion, InputPath, BadOption, Goto, FATAL, Exit
<1>6. enabled_generators' \subseteq {"HTML", "JSON"} /\ dry_run' \in BOOLEAN
  BY DEF Types, TypeOK, cmdline_callback, CxxOption, HtmlOption, JsonOption, DryRunOption,
     OtherOption, HelpOrVersion, InputPath, BadOption, optvars
<1> QED
  BY <1>3, <1>4, <1>5, <1>6 DEF Types, TypeOK, Array, walkvars, cxxvars

LEMMA CallbackSettings ==
  ASSUME Types, Settings, NEW c \in CallRecord, cmdline_callback(c),
         calls' = Append(calls, c), pc = "options"
  PROVE  Settings'
<1>1. Cmd!TypeOK
  BY DEF Types
<1>2. html_output_dir' = IF c.id = "HTML_H" /\ c.arg # NoArg THEN c.arg ELSE html_output_dir
  BY DEF cmdline_callback, CxxOption, HtmlOption, JsonOption, DryRunOption, OtherOption,
     HelpOrVersion, InputPath, BadOption, optvars
<1>3. json_output_file' = IF c.id = "JSON_J" /\ c.arg # NoArg THEN c.arg ELSE json_output_file
  BY DEF cmdline_callback, CxxOption, HtmlOption, JsonOption, DryRunOption, OtherOption,
     HelpOrVersion, InputPath, BadOption, optvars
<1>4. LastPlace("HTML_H", DefaultHtmlDir, html_output_dir)'
  <2>1. CASE c.id = "HTML_H" /\ c.arg # NoArg
    <3>1. LastPlace("HTML_H", DefaultHtmlDir, c.arg)'
      BY <1>1, <2>1, LastPlaceSet
    <3> QED
      BY <1>2, <2>1, <3>1 DEF LastPlace
  <2>2. CASE ~(c.id = "HTML_H" /\ c.arg # NoArg)
    <3>1. ASSUME NEW p, p = html_output_dir PROVE LastPlace("HTML_H", DefaultHtmlDir, p)'
      BY <1>1, <2>2, <3>1, LastPlaceKept DEF Settings
    <3> QED
      BY <1>2, <2>2, <3>1 DEF LastPlace
  <2> QED
    BY <2>1, <2>2
<1>5. LastPlace("JSON_J", DefaultJsonFile, json_output_file)'
  <2>1. CASE c.id = "JSON_J" /\ c.arg # NoArg
    <3>1. LastPlace("JSON_J", DefaultJsonFile, c.arg)'
      BY <1>1, <2>1, LastPlaceSet
    <3> QED
      BY <1>3, <2>1, <3>1 DEF LastPlace
  <2>2. CASE ~(c.id = "JSON_J" /\ c.arg # NoArg)
    <3>1. ASSUME NEW p, p = json_output_file PROVE LastPlace("JSON_J", DefaultJsonFile, p)'
      BY <1>1, <2>2, <3>1, LastPlaceKept DEF Settings
    <3> QED
      BY <1>3, <2>2, <3>1 DEF LastPlace
  <2> QED
    BY <2>1, <2>2
<1>6. html_output_dir' # Null /\ json_output_file' # Null
  BY <1>2, <1>3 DEF Settings, Null
<1>7. /\ Asked("JSON_J")' <=> Asked("JSON_J") \/ c.id = "JSON_J"
      /\ Asked("HTML_H")' <=> Asked("HTML_H") \/ c.id = "HTML_H"
  BY <1>1, AskedGrows
<1>8. /\ "JSON" \in enabled_generators' <=> "JSON" \in enabled_generators \/ c.id = "JSON_J"
      /\ "HTML" \in enabled_generators' <=> "HTML" \in enabled_generators \/ c.id = "HTML_H"
  BY DEF cmdline_callback, CxxOption, HtmlOption, JsonOption, DryRunOption, OtherOption,
     HelpOrVersion, InputPath, BadOption, optvars
<1>9. \/ pc' = "options"
      \/ pc' = "exited" /\ status' # "running"
  BY DEF cmdline_callback, CxxOption, HtmlOption, JsonOption, DryRunOption, OtherOption,
     HelpOrVersion, InputPath, BadOption, Goto, FATAL, Exit
<1> QED
  BY <1>4, <1>5, <1>6, <1>7, <1>8, <1>9 DEF Settings

LEMMA CallbackWalk ==
  ASSUME Types, Walk, NEW c \in CallRecord, cmdline_callback(c),
         calls' = Append(calls, c), pc = "options", status = "running",
         UNCHANGED <<walkvars, cxxvars, outvars, store>>
  PROVE  Walk'
<1>1. Cmd!TypeOK
  BY DEF Types
<1>2. Refused' <=> Refused \/ c.id \in Refusals
  BY <1>1, RefusedGrows
<1>3. Untouched /\ ~HasOutput /\ ~Refused
  BY DEF Walk, Preparing, Untouched
<1>4. Untouched' /\ ~HasOutput' /\ Handled' = Handled
  BY <1>3 DEF Untouched, HasOutput, Handled, walkvars, cxxvars, outvars
<1>5. pc' # "exited" => c.id \notin Refusals
  BY DEF cmdline_callback, CxxOption, HtmlOption, JsonOption, DryRunOption, OtherOption,
     HelpOrVersion, InputPath, BadOption, Goto, FATAL, Exit, Refusals, Cmd!ErrorIds
<1>6. pc' = "options" \/ pc' = "exited"
  BY DEF cmdline_callback, CxxOption, HtmlOption, JsonOption, DryRunOption, OtherOption,
     HelpOrVersion, InputPath, BadOption, Goto, FATAL, Exit
<1>7. pc' = "options" => Len(argv_paths'.items) = Cardinality(InputCalls)'
  <2>1. Len(argv_paths.items) = Cardinality(InputCalls)
    BY DEF Walk, Preparing
  <2>2. c.id = "NONE" /\ pc' = "options" => argv_paths' = array_append(argv_paths, c.arg)
    BY DEF cmdline_callback, CxxOption, HtmlOption, JsonOption, DryRunOption, OtherOption,
       HelpOrVersion, InputPath, BadOption, Goto, FATAL, Exit, Cmd!ErrorIds
  <2>3. c.id # "NONE" => argv_paths' = argv_paths
    BY DEF cmdline_callback, CxxOption, HtmlOption, JsonOption, DryRunOption, OtherOption,
       HelpOrVersion, InputPath, BadOption, optvars
  <2>4. c.arg \in Item
    BY DEF CallRecord, Item
  <2>5. Len(array_append(argv_paths, c.arg).items) = Len(argv_paths.items) + 1
    BY <2>4, AppendToArray DEF Types, TypeOK
  <2> QED
    BY <1>1, <2>1, <2>2, <2>3, <2>5, InputCallsGrow
<1>8. n_processed_files' = 0
  BY <1>4 DEF Untouched
<1> QED
  BY <1>2, <1>3, <1>4, <1>5, <1>6, <1>7, <1>8 DEF Walk, Preparing, Parsing

LEMMA ReadCommandLineKeeps ==
  ASSUME IInv, ReadCommandLine
  PROVE  IInv'
<1>1. /\ Types /\ Settings /\ Walk /\ Cmd!TypeOK /\ ~HasOutput /\ json = NoJson
      /\ pc = "options" /\ status = "running"
  BY DEF IInv, Types, TypeOK, Walk, Preparing, Untouched, HasOutput, ReadCommandLine
<1>2. UNCHANGED <<walkvars, cxxvars, outvars, store>>
  BY DEF ReadCommandLine
<1>3. ~HasOutput' /\ json' = NoJson /\ (pc' = "options" \/ pc' = "exited")
  <2>1. pc' = "options" \/ pc' = "exited"
    BY DEF ReadCommandLine, cmdline_callback, CxxOption, HtmlOption, JsonOption, DryRunOption,
       OtherOption, HelpOrVersion, InputPath, BadOption, Goto, FATAL, Exit
  <2> QED
    BY <1>1, <1>2, <2>1 DEF HasOutput, outvars
<1>4. Output' /\ OutputsJustified'
  BY <1>3 DEF Output, OutputsJustified, Outputting, NoJson, EmptyDict
<1>5. CASE Cmd!Deliver(0) /\ cmdline_callback(calls'[Len(calls')])
  <2>1. PICK c \in CallRecord : calls' = Append(calls, c) /\ CmdP!HonoursContract(c)
    BY <1>1, <1>5, CmdDelivers
  <2>2. cmdline_callback(c)
    BY <1>1, <1>5, <2>1, CallsGrow
  <2>3. Cmd!TypeOK'
    BY <1>1, <1>5, CmdDelivers
  <2>4. Types'
    BY <1>1, <1>2, <2>1, <2>2, <2>3, CallbackTypes
  <2>5. Settings'
    BY <1>1, <2>1, <2>2, CallbackSettings
  <2>6. Walk'
    BY <1>1, <1>2, <2>1, <2>2, CallbackWalk
  <2> QED
    BY <1>4, <2>4, <2>5, <2>6 DEF IInv
<1>6. CASE Cmd!EndOfOptions /\ Goto("options") /\ UNCHANGED optvars
  <2>1. Cmd!TypeOK' /\ UNCHANGED calls
    BY <1>1, <1>6, CmdEnds
  <2>2. Types'
    BY <1>1, <1>2, <1>6, <2>1 DEF Types, TypeOK, Goto, optvars, walkvars, cxxvars
  <2>3. Settings'
    BY <1>1, <1>6, <2>1 DEF Settings, LastPlace, Asked, Goto, optvars
  <2>4. Walk'
    BY <1>1, <1>2, <1>3, <1>6, <2>1
    DEF Walk, Untouched, Preparing, Parsing, Refused, InputCalls, Handled, HasOutput, Goto,
        optvars, walkvars, cxxvars, outvars
  <2> QED
    BY <1>4, <2>2, <2>3, <2>4 DEF IInv
<1> QED
  BY <1>5, <1>6 DEF ReadCommandLine

-----------------------------------------------------------------------------
(* The statements after the command line is read *)

LEMMA CommandLineKept ==
  ASSUME Types, UNCHANGED cmdvars
  PROVE  /\ Cmd!TypeOK'
         /\ Refused' = Refused /\ InputCalls' = InputCalls
         /\ \A id : Asked(id)' = Asked(id)
BY DEF Types, Cmd!TypeOK, cmdvars, Refused, InputCalls, Asked

LEMMA SettingsKept ==
  ASSUME Types, Settings, UNCHANGED cmdvars,
         UNCHANGED <<enabled_generators, html_output_dir, json_output_file>>,
         status = "running" /\ pc # "options", pc' # "options"
  PROVE  Settings'
BY CommandLineKept DEF Settings, LastPlace, cmdvars

(* What a step has to show when it comes from the input loop and stays     *)
(* there or ends the process.                                              *)
LEMMA InputStepKeeps ==
  ASSUME IInv, pc = "walk" \/ Parsing, pc' \in {"walk", "exited"} \/ Parsing',
         UNCHANGED <<cmdvars, optvars, outvars, store>>, TypeOK',
         Handled \subseteq Handled',
         (pc' = "err_parseTranslationUnit2" \/ pc' = "err_createIndex" \/ n_processed_files' > 0)
           => Handled' # {}
  PROVE  IInv'
<1>1. /\ Types /\ Settings /\ Walk /\ status = "running" /\ ~HasOutput /\ json = NoJson
      /\ pc # "options" /\ pc' # "options" /\ pc' # "store_init" /\ ~Refused /\ pc # "exited"
      /\ store = "dict" /\ Len(argv_paths.items) = Cardinality(InputCalls)
  BY DEF IInv, Types, TypeOK, Walk, Parsing, HasOutput
<1>2. Types'
  BY <1>1, CommandLineKept DEF Types, optvars
<1>3. Settings'
  BY <1>1, SettingsKept DEF optvars
<1>4. ~HasOutput' /\ json' = NoJson
  BY <1>1 DEF HasOutput, outvars
<1>5. Walk'
  BY <1>1, <1>4, CommandLineKept DEF Walk, Preparing, Parsing, optvars
<1>6. Output' /\ OutputsJustified'
  BY <1>4 DEF Output, OutputsJustified, Outputting, Parsing, NoJson, EmptyDict
<1> QED
  BY <1>2, <1>3, <1>5, <1>6 DEF IInv

LEMMA EndOptionsKeeps ==
  ASSUME IInv, EndOptions
  PROVE  IInv'
<1>1. /\ Types /\ Settings /\ Walk /\ status = "running" /\ ~HasOutput /\ json = NoJson
      /\ pc = "options" /\ pc' = "store_init" /\ status' = status /\ Untouched /\ ~Refused
      /\ Len(argv_paths.items) = Cardinality(InputCalls)
  BY DEF IInv, Types, TypeOK, Walk, Preparing, Untouched, HasOutput, EndOptions, Goto
<1>2. UNCHANGED cmdvars /\ UNCHANGED <<walkvars, cxxvars, outvars, store, argv_paths>>
  BY DEF EndOptions
<1>3. clang_opts' \in Array /\ Len(clang_opts'.items) <= clang_opts'.alloc
  <2>1. /\ Null \in Item /\ clang_opts \in Array /\ Len(clang_opts.items) <= clang_opts.alloc
    BY <1>1 DEF Null, Item, Types, TypeOK
  <2> QED
    BY <2>1, AppendToArray DEF EndOptions
<1>4. enabled_generators' \subseteq {"HTML", "JSON"}
  BY <1>1 DEF EndOptions, Types, TypeOK
<1>5. Types'
  BY <1>1, <1>2, <1>3, <1>4, CommandLineKept
  DEF Types, TypeOK, EndOptions, walkvars, cxxvars
<1>6. Settings'
  BY <1>1, <1>2, CommandLineKept DEF Settings, LastPlace, EndOptions, Types, TypeOK, cmdvars
<1>7. ~HasOutput' /\ json' = NoJson /\ Untouched' /\ Handled' = Handled
  BY <1>1, <1>2 DEF HasOutput, Untouched, Handled, walkvars, cxxvars, outvars
<1>8. Walk'
  BY <1>1, <1>2, <1>7, CommandLineKept DEF Walk, Preparing, Parsing, Untouched
<1>9. Output' /\ OutputsJustified'
  BY <1>1, <1>7 DEF Output, OutputsJustified, Outputting, NoJson, EmptyDict
<1> QED
  BY <1>5, <1>6, <1>8, <1>9 DEF IInv

LEMMA StoreInitKeeps ==
  ASSUME IInv, StoreInit
  PROVE  IInv'
<1>1. /\ Types /\ Settings /\ Walk /\ status = "running" /\ ~HasOutput /\ json = NoJson
      /\ pc = "store_init" /\ Untouched /\ ~Refused /\ pc' \in {"walk", "exited"}
      /\ Len(argv_paths.items) = Cardinality(InputCalls)
  BY DEF IInv, Types, TypeOK, Walk, Preparing, Untouched, HasOutput, StoreInit, Goto, FATAL, Exit
<1>2. UNCHANGED <<cmdvars, optvars, walkvars, cxxvars, outvars>>
  BY DEF StoreInit
<1>3. Types'
  BY <1>1, <1>2, CommandLineKept
  DEF Types, TypeOK, StoreInit, Goto, FATAL, Exit, optvars, walkvars, cxxvars
<1>4. Settings'
  BY <1>1, <1>2, SettingsKept DEF optvars
<1>5. ~HasOutput' /\ json' = NoJson /\ Untouched' /\ Handled' = Handled
  BY <1>1, <1>2 DEF HasOutput, Untouched, Handled, walkvars, cxxvars, outvars
<1>6. pc' = "walk" => store' = "dict"
  BY DEF StoreInit, Goto, FATAL, Exit
<1>7. Walk'
  BY <1>1, <1>2, <1>5, <1>6, CommandLineKept DEF Walk, Preparing, Parsing, Untouched, optvars
<1>8. Output' /\ OutputsJustified'
  BY <1>1, <1>5 DEF Output, OutputsJustified, Outputting, NoJson, EmptyDict
<1> QED
  BY <1>3, <1>4, <1>7, <1>8 DEF IInv

LEMMA WalkStepsKeep ==
  ASSUME IInv, NextInput \/ ReadDir \/ CloseDir
  PROVE  IInv'
<1>1. /\ TypeOK /\ pc = "walk" /\ status = "running" /\ Walk
  BY DEF IInv, Types, TypeOK, NextInput, ReadDir, CloseDir
<1>2. /\ UNCHANGED <<cmdvars, optvars, outvars, store>>
      /\ UNCHANGED <<index, unit, documented, reported, n_processed_files>>
  BY DEF NextInput, ReadDir, CloseDir, cxxvars
<1>3. \/ pc' \in {"walk", "parse_cxx"} /\ status' = "running"
      \/ pc' = "exited" /\ status' = "failure"
  BY <1>1 DEF NextInput, ReadDir, CloseDir, process_input_path, process_input_file, OpenDir,
     Goto, FATAL, Exit
<1>4. input' \in Nat
  <2>1. CASE NextInput
    BY <1>1, <2>1 DEF TypeOK, NextInput
  <2>2. CASE ReadDir
    <3>1. UNCHANGED input
      BY <2>2 DEF ReadDir
    <3> QED
      BY <1>1, <3>1 DEF TypeOK
  <2>3. CASE CloseDir
    BY <1>1, <2>3 DEF TypeOK, CloseDir
  <2> QED
    BY <2>1, <2>2, <2>3
<1>5. TypeOK'
  BY <1>1, <1>2, <1>3, <1>4 DEF TypeOK, optvars
<1>6. Handled' = Handled
  BY <1>2 DEF Handled
<1> QED
  BY <1>1, <1>2, <1>3, <1>5, <1>6, InputStepKeeps DEF Parsing, Walk

LEMMA ParseStepsKeep ==
  ASSUME IInv,
         \/ BuildArgs \/ CreateIndex \/ ParseTranslationUnit
         \/ VisitChildren \/ DisposeIndex \/ FileProcessed
  PROVE  IInv'
<1>1. TypeOK /\ Walk /\ Parsing /\ status = "running"
  BY DEF IInv, Types, TypeOK, Parsing, BuildArgs, CreateIndex, ParseTranslationUnit,
     VisitChildren, DisposeIndex, FileProcessed
<1>2. UNCHANGED <<cmdvars, optvars, outvars, store, input, dirs>>
  BY DEF BuildArgs, CreateIndex, ParseTranslationUnit, VisitChildren, DisposeIndex,
     FileProcessed, walkvars
<1>3. \/ (pc' = "walk" \/ Parsing') /\ status' = "running"
      \/ pc' = "exited" /\ status' \in {"failure", "undefined"}
  BY <1>1 DEF Parsing, BuildArgs, CreateIndex, ParseTranslationUnit, VisitChildren, DisposeIndex,
     FileProcessed, Goto, FATAL, Exit
<1>4. n_processed_files' \in Nat /\ index' \in BOOLEAN /\ unit' \in BOOLEAN
  <2>1. CASE BuildArgs \/ CreateIndex \/ ParseTranslationUnit
    <3>1. /\ UNCHANGED n_processed_files /\ index' \in {index, TRUE} /\ unit' \in {unit, TRUE}
      BY <2>1 DEF BuildArgs, CreateIndex, ParseTranslationUnit, walkvars
    <3> QED
      BY <1>1, <3>1 DEF TypeOK
  <2>2. CASE VisitChildren \/ DisposeIndex
    <3>1. /\ UNCHANGED n_processed_files /\ index' \in {index, FALSE} /\ unit' \in {unit, FALSE}
      BY <2>2 DEF VisitChildren, DisposeIndex, walkvars
    <3> QED
      BY <1>1, <3>1 DEF TypeOK
  <2>3. CASE FileProcessed
    BY <1>1, <2>3 DEF TypeOK, FileProcessed
  <2> QED
    BY <2>1, <2>2, <2>3
<1>5. TypeOK'
  BY <1>1, <1>2, <1>3, <1>4 DEF TypeOK, Parsing, optvars
<1>6. Handled \subseteq Handled'
  BY DEF Handled, BuildArgs, CreateIndex, ParseTranslationUnit, VisitChildren, DisposeIndex,
     FileProcessed
<1>7. ASSUME pc' = "err_parseTranslationUnit2" \/ pc' = "err_createIndex" \/ n_processed_files' > 0
      PROVE  Handled' # {}
  <2>1. CASE Handled # {}
    BY <1>6, <2>1
  <2>2. CASE Handled = {}
    <3>1. n_processed_files = 0 /\ pc # "err_parseTranslationUnit2" /\ pc # "err_createIndex"
      BY <1>1, <2>2 DEF Walk, TypeOK
    <3>2. \/ reported' = reported \cup {file}
          \/ \E d : documented' = documented \cup {d}
      <4>1. CASE BuildArgs
        BY <1>7, <3>1, <4>1 DEF BuildArgs, Goto, FATAL, Exit, walkvars
      <4>2. CASE CreateIndex
        BY <1>7, <3>1, <4>2 DEF CreateIndex, Goto, walkvars
      <4>3. CASE ParseTranslationUnit
        BY <1>7, <3>1, <4>3 DEF ParseTranslationUnit, Goto, walkvars
      <4>4. CASE VisitChildren
        BY <4>4 DEF VisitChildren
      <4>5. ~DisposeIndex /\ ~FileProcessed
        BY <3>1 DEF DisposeIndex, FileProcessed
      <4> QED
        BY <4>1, <4>2, <4>3, <4>4, <4>5
    <3> QED
      BY <3>2 DEF Handled
  <2> QED
    BY <2>1, <2>2
<1> QED
  BY <1>1, <1>2, <1>3, <1>5, <1>6, <1>7, InputStepKeeps

-----------------------------------------------------------------------------
(* The output *)

LEMMA InputsDoneKeeps ==
  ASSUME IInv, InputsDone
  PROVE  IInv'
<1>1. /\ Types /\ TypeOK /\ Settings /\ Walk /\ status = "running" /\ pc = "walk"
      /\ ~HasOutput /\ json = NoJson /\ ~Refused /\ dirs = <<>> /\ store = "dict"
      /\ input = Cardinality(InputCalls)
  BY DEF IInv, Types, TypeOK, Walk, HasOutput, InputsDone
<1>2. /\ UNCHANGED <<cmdvars, walkvars, cxxvars, outvars, store>>
      /\ UNCHANGED <<enabled_generators, html_output_dir, json_output_file, dry_run>>
  BY DEF InputsDone
<1>3. \/ pc' = "exited" /\ status' = "failure"
      \/ /\ pc' = IF dry_run THEN "store_fini" ELSE "gen_html"
         /\ status' = status /\ n_processed_files # 0
  BY DEF InputsDone, Goto, FATAL, Exit
<1>4. /\ clang_opts' \in Array /\ Len(clang_opts'.items) <= clang_opts'.alloc
      /\ argv_paths' \in Array /\ Len(argv_paths'.items) <= argv_paths'.alloc
  <2>1. /\ EmptyArray \in Array /\ Len(EmptyArray.items) <= EmptyArray.alloc
    BY EmptyIsArray DEF EmptyArray
  <2> QED
    BY <1>1, <2>1 DEF InputsDone, Types, TypeOK
<1>5. Types'
  BY <1>1, <1>2, <1>3, <1>4, CommandLineKept DEF Types, TypeOK, walkvars, cxxvars
<1>6. Settings'
  BY <1>1, <1>2, <1>3, SettingsKept
<1>7. ~HasOutput' /\ json' = NoJson /\ Handled' = Handled
  BY <1>1, <1>2 DEF HasOutput, Handled, outvars, cxxvars
<1>8. Walk'
  BY <1>1, <1>2, <1>3, <1>7, CommandLineKept DEF Walk, Preparing, Parsing, walkvars
<1>9. Output' /\ OutputsJustified'
  <2>1. pc' # "exited" => Finished'
    BY <1>1, <1>2, <1>3, CommandLineKept DEF Finished, TypeOK, walkvars
  <2>2. Published' = {}
    BY <1>7 DEF Published, HasOutput, NoJson, EmptyDict
  <2> QED
    BY <1>1, <1>2, <1>3, <1>7, <2>1, <2>2
    DEF Output, OutputsJustified, Outputting, HasOutput, NoJson, EmptyDict
<1> QED
  BY <1>5, <1>6, <1>8, <1>9 DEF IInv

(* What the steps from gen_html on leave alone, and what is left to show.  *)
LEMMA OutputStepKeeps ==
  ASSUME IInv, Outputting, Outputting' \/ pc' = "exited", TypeOK',
         UNCHANGED <<cmdvars, optvars, walkvars, cxxvars>>,
         pc' # "exited" => store' = "dict",
         Output', OutputsJustified'
  PROVE  IInv'
<1>1. /\ Types /\ Settings /\ Walk /\ status = "running" /\ pc # "options" /\ pc' # "options"
      /\ ~Refused /\ pc' # "store_init" /\ pc' # "walk" /\ n_processed_files > 0
  BY DEF IInv, Types, TypeOK, Walk, Outputting, Output, Finished
<1>2. Types'
  BY <1>1, CommandLineKept DEF Types, optvars
<1>3. Settings'
  BY <1>1, SettingsKept DEF optvars
<1>4. Handled' = Handled
  BY DEF Handled, cxxvars
<1>5. Walk'
  BY <1>1, <1>4, CommandLineKept DEF Walk, Outputting, Preparing, Parsing, walkvars
<1> QED
  BY <1>2, <1>3, <1>5 DEF IInv

LEMMA OutputTypes ==
  ASSUME IInv, GenHtml \/ OpenJson \/ WriteJson \/ CloseJson \/ StoreFini
  PROVE  /\ TypeOK' /\ Outputting /\ (Outputting' \/ pc' = "exited")
         /\ UNCHANGED <<cmdvars, optvars, walkvars, cxxvars>>
         /\ pc' # "exited" => store' = "dict"
<1>1. /\ TypeOK /\ Outputting /\ status = "running" /\ store = "dict"
      /\ UNCHANGED <<cmdvars, optvars, walkvars, cxxvars>>
  BY DEF IInv, Types, TypeOK, Walk, Outputting, GenHtml, OpenJson, WriteJson, CloseJson, StoreFini
<1>2. /\ \/ pc' \in {"gen_json", "dump", "store_fini"} /\ status' = status
         \/ pc' = "exited" /\ status' \in {"success", "failure"}
      /\ store' = IF pc = "store_fini" THEN "null" ELSE store
      /\ pc = "store_fini" => pc' = "exited"
  BY DEF GenHtml, OpenJson, WriteJson, CloseJson, StoreFini, Goto, FATAL, Exit
<1> QED
  BY <1>1, <1>2 DEF TypeOK, Outputting, optvars, walkvars, cxxvars

LEMMA NothingWritten == NoJson.stream = <<>> /\ <<>> # EmptyDict /\ NoJson.stream # EmptyDict
<1>1. EmptyDict[1] = "{" /\ DOMAIN EmptyDict = 1 .. 4
  BY DEF EmptyDict
<1>2. DOMAIN <<>> = {}
  OBVIOUS
<1>3. 1 \in DOMAIN EmptyDict
  <2>1. 1 \in 1 .. 4
    OBVIOUS
  <2> QED
    BY <1>1, <2>1, Zenon
<1>4. <<>> # EmptyDict
  BY <1>2, <1>3
<1> QED
  BY <1>4 DEF NoJson

LEMMA GenHtmlKeeps ==
  ASSUME IInv, GenHtml
  PROVE  IInv'
<1>1. /\ pc = "gen_html" /\ status = "running" /\ ~HasOutput /\ ~dry_run /\ Finished /\ Settings
      /\ UNCHANGED <<cmdvars, optvars, walkvars, cxxvars, json, store>>
      /\ Outputting
  BY DEF IInv, Types, TypeOK, Output, Outputting, GenHtml
<1>2. \/ pc' = "exited" /\ html' = html
      \/ pc' = "gen_json" /\ html' = (IF "HTML" \in enabled_generators THEN html_output_dir ELSE html)
  BY DEF GenHtml, Goto, FATAL, Exit
<1>3. Finished' /\ json' = NoJson /\ (pc' # "exited" => (html' # Null <=> "HTML" \in enabled_generators))
  BY <1>1, <1>2, CommandLineKept
  DEF Finished, HasOutput, Settings, IInv, walkvars
<1>4. Output'
  <2>1. json'.stream # EmptyDict /\ json' = [path |-> json'.path, stream |-> json'.stream, disk |-> json'.disk]
    BY <1>3, NothingWritten DEF NoJson
  <2> QED
    BY <1>1, <1>2, <1>3, <2>1 DEF Output, Outputting, optvars
<1>5. OutputsJustified'
  <2>1. html' # Null => /\ LastPlace("HTML_H", DefaultHtmlDir, html)'
                        /\ (Asked("HTML_H") \/ ~Asked("JSON_J"))'
    <3>1. html' # Null => html' = html_output_dir /\ "HTML" \in enabled_generators
      BY <1>1, <1>2 DEF HasOutput
    <3> QED
      BY <1>1, <3>1 DEF Settings, LastPlace, Asked, cmdvars
  <2> QED
    BY <1>1, <1>2, <1>3, <2>1 DEF OutputsJustified, Outputting, Finished, optvars
<1> QED
  BY <1>4, <1>5, OutputTypes, OutputStepKeeps

LEMMA OpenJsonKeeps ==
  ASSUME IInv, OpenJson
  PROVE  IInv'
<1>1. /\ pc = "gen_json" /\ status = "running" /\ ~dry_run /\ Finished /\ Settings /\ json = NoJson
      /\ html # Null <=> "HTML" \in enabled_generators
      /\ enabled_generators \subseteq {"HTML", "JSON"}
      /\ UNCHANGED <<cmdvars, optvars, walkvars, cxxvars, html, store>>
      /\ Outputting /\ OutputsJustified
  BY DEF IInv, Types, TypeOK, Output, Outputting, OpenJson
<1>2. \/ pc' = "exited" /\ json' = json
      \/ pc' = "store_fini" /\ json' = json /\ "JSON" \notin enabled_generators
      \/ /\ pc' = "dump" /\ "JSON" \in enabled_generators
         /\ json' = [path |-> json_output_file, stream |-> <<>>, disk |-> <<>>]
  BY DEF OpenJson, Goto, FATAL, Exit
<1>3. Finished'
  BY <1>1, CommandLineKept DEF Finished, IInv, walkvars
<1>4. json'.stream = <<>> /\ json'.stream # EmptyDict
  BY <1>1, <1>2, NothingWritten
<1>5. json' # NoJson => json'.path = json_output_file /\ json_output_file # Null /\ "JSON" \in enabled_generators
  BY <1>1, <1>2 DEF Settings
<1>6. pc' = "store_fini" => Published' = enabled_generators'
  BY <1>1, <1>2, <1>4 DEF Published, optvars
<1>7. Output'
  <2>1. json' = [path |-> json'.path, stream |-> json'.stream, disk |-> json'.disk]
    BY <1>1, <1>2 DEF NoJson
  <2> QED
    BY <1>1, <1>2, <1>3, <1>4, <1>5, <1>6, <2>1 DEF Output, Outputting, Settings, optvars
<1>8. OutputsJustified'
  <2>1. html' # Null => /\ LastPlace("HTML_H", DefaultHtmlDir, html)'
                        /\ (Asked("HTML_H") \/ ~Asked("JSON_J"))'
    BY <1>1 DEF OutputsJustified, HasOutput, LastPlace, Asked, cmdvars
  <2>2. json' # NoJson => LastPlace("JSON_J", DefaultJsonFile, json.path)' /\ Asked("JSON_J")'
    BY <1>1, <1>5 DEF Settings, LastPlace, Asked, cmdvars
  <2> QED
    BY <1>1, <1>2, <1>3, <2>1, <2>2 DEF OutputsJustified, Outputting, Finished, optvars
<1> QED
  BY <1>7, <1>8, OutputTypes, OutputStepKeeps

(* What holds at "dump", where the file is open. *)
LEMMA AtDump ==
  ASSUME IInv, pc = "dump", UNCHANGED <<cmdvars, optvars, walkvars, html>>
  PROVE  /\ status = "running" /\ ~dry_run /\ Finished /\ Finished' /\ Settings /\ store = "dict"
         /\ html' # Null <=> "HTML" \in enabled_generators
         /\ "JSON" \in enabled_generators /\ enabled_generators \subseteq {"HTML", "JSON"}
         /\ json.path = json_output_file /\ json.path # Null
         /\ json = [path |-> json.path, stream |-> json.stream, disk |-> json.disk]
         /\ html' # Null => /\ LastPlace("HTML_H", DefaultHtmlDir, html)'
                            /\ (Asked("HTML_H") \/ ~Asked("JSON_J"))'
         /\ LastPlace("JSON_J", DefaultJsonFile, json_output_file)' /\ Asked("JSON_J")'
<1>1. /\ status = "running" /\ ~dry_run /\ Finished /\ Settings /\ store = "dict"
      /\ html' # Null <=> "HTML" \in enabled_generators
      /\ "JSON" \in enabled_generators /\ enabled_generators \subseteq {"HTML", "JSON"}
      /\ json.path = json_output_file /\ json.path # Null
      /\ json = [path |-> json.path, stream |-> json.stream, disk |-> json.disk]
      /\ html' = html /\ OutputsJustified
  BY DEF IInv, Types, TypeOK, Output, Outputting, Walk
<1>2. Finished'
  BY <1>1, CommandLineKept DEF Finished, IInv, walkvars
<1>3. html # Null => LastPlace("HTML_H", DefaultHtmlDir, html) /\ (Asked("HTML_H") \/ ~Asked("JSON_J"))
  BY <1>1 DEF OutputsJustified, HasOutput
<1>4. html' # Null => /\ LastPlace("HTML_H", DefaultHtmlDir, html)'
                      /\ (Asked("HTML_H") \/ ~Asked("JSON_J"))'
  BY <1>1, <1>3 DEF LastPlace, Asked, cmdvars
<1>5. LastPlace("JSON_J", DefaultJsonFile, json_output_file)' /\ Asked("JSON_J")'
  BY <1>1 DEF Settings, LastPlace, Asked, cmdvars, optvars
<1> QED
  BY <1>1, <1>2, <1>4, <1>5

(* A step with the file open changes what is in it, not where it is. *)
LEMMA DumpStepJustified ==
  ASSUME IInv, pc = "dump", UNCHANGED <<cmdvars, optvars, walkvars, html>>,
         Outputting' \/ pc' = "exited", json'.path = json.path
  PROVE  OutputsJustified'
BY AtDump DEF OutputsJustified, LastPlace, Finished, walkvars, optvars

LEMMA WriteJsonKeeps ==
  ASSUME IInv, WriteJson
  PROVE  IInv'
<1>1. /\ pc = "dump" /\ UNCHANGED <<cmdvars, optvars, walkvars, html>>
  BY DEF WriteJson
<1>2. /\ json'.path = json.path
      /\ json' = [path |-> json'.path, stream |-> json'.stream, disk |-> json'.disk]
  BY <1>1, AtDump DEF WriteJson
<1>3. pc' = "dump" \/ pc' = "exited"
  BY DEF WriteJson, Goto, FATAL, Exit
<1>4. json'.path # NoJson.path
  BY <1>1, <1>2, AtDump DEF NoJson
<1>5. Output'
  BY <1>1, <1>2, <1>3, <1>4, AtDump DEF Output, Outputting, optvars
<1>6. OutputsJustified'
  BY <1>1, <1>2, <1>3, DumpStepJustified DEF Outputting
<1> QED
  BY <1>5, <1>6, OutputTypes, OutputStepKeeps

LEMMA CloseJsonKeeps ==
  ASSUME IInv, CloseJson
  PROVE  IInv'
<1>1. /\ pc = "dump" /\ UNCHANGED <<cmdvars, optvars, walkvars, html>>
      /\ pc' = "store_fini"
  BY DEF CloseJson, Goto
<1>2. /\ json'.path = json.path /\ json'.stream = json.stream
      /\ json' = [path |-> json'.path, stream |-> json'.stream, disk |-> json'.disk]
  BY <1>1, AtDump DEF CloseJson
<1>3. json'.stream = EmptyDict
  BY <1>1, <1>2, AtDump DEF CloseJson, Dump
<1>4. json'.path # NoJson.path
  BY <1>1, <1>2, AtDump DEF NoJson
<1>5. Published' = enabled_generators'
  BY <1>1, <1>3, AtDump DEF Published, optvars
<1>6. Output'
  BY <1>1, <1>2, <1>4, <1>5, AtDump DEF Output, Outputting, optvars
<1>7. OutputsJustified'
  BY <1>1, <1>2, DumpStepJustified DEF Outputting
<1> QED
  BY <1>6, <1>7, OutputTypes, OutputStepKeeps

LEMMA StoreFiniKeeps ==
  ASSUME IInv, StoreFini
  PROVE  IInv'
<1>1. /\ pc = "store_fini" /\ pc' = "exited" /\ Output /\ OutputsJustified /\ Types
      /\ UNCHANGED <<cmdvars, optvars, walkvars, cxxvars, outvars>>
  BY DEF IInv, StoreFini, Exit
<1>2. UNCHANGED <<html, json, dry_run, dirs, input, n_processed_files>>
  BY <1>1 DEF outvars, optvars, walkvars
<1>3. Output'
  BY <1>1, <1>2 DEF Output, Outputting
<1>4. OutputsJustified'
  BY <1>1, <1>2, CommandLineKept DEF OutputsJustified, HasOutput, LastPlace, cmdvars
<1> QED
  BY <1>3, <1>4, OutputTypes, OutputStepKeeps

-----------------------------------------------------------------------------
(* The invariant is inductive *)

LEMMA StutterKeeps ==
  ASSUME IInv, UNCHANGED vars
  PROVE  IInv'
<1>1. /\ UNCHANGED <<cmdvars, optvars, walkvars, cxxvars, outvars, pc, status, store>>
      /\ Types /\ Settings /\ Walk /\ Output /\ OutputsJustified
  BY DEF vars, IInv
<1>2. Handled' = Handled /\ Published' = Published /\ HasOutput' = HasOutput
  BY <1>1 DEF Handled, Published, HasOutput, cxxvars, outvars
<1>3. Types'
  BY <1>1, CommandLineKept DEF Types, TypeOK, optvars, walkvars, cxxvars
<1>4. Settings'
  BY <1>1, CommandLineKept DEF Settings, LastPlace, optvars, cmdvars
<1>5. Walk'
  BY <1>1, <1>2, CommandLineKept DEF Walk, Untouched, Preparing, Parsing, optvars, walkvars, cxxvars
<1>6. Output'
  BY <1>1, <1>2, CommandLineKept DEF Output, Outputting, Finished, optvars, walkvars, outvars
<1>7. OutputsJustified'
  BY <1>1, <1>2, CommandLineKept
  DEF OutputsJustified, Outputting, LastPlace, cmdvars, optvars, walkvars, outvars
<1> QED
  BY <1>3, <1>4, <1>5, <1>6, <1>7 DEF IInv

LEMMA NextIInv == IInv /\ [Next]_vars => IInv'
BY ReadCommandLineKeeps, EndOptionsKeeps, StoreInitKeeps, WalkStepsKeep, ParseStepsKeep,
   InputsDoneKeeps, GenHtmlKeeps, OpenJsonKeeps, WriteJsonKeeps, CloseJsonKeeps,
   StoreFiniKeeps, StutterKeeps
DEF Next

LEMMA Invariance == Spec => []IInv
BY InitIInv, NextIInv, PTL DEF Spec

(* The types hold, arrays fit in their room and the process has ended      *)
(* exactly when its status says so, on every command line and file system. *)
THEOREM TypeCorrect == Spec => []TypeOK
<1>1. IInv => TypeOK
  BY DEF IInv, Types
<1> QED
  BY <1>1, Invariance, PTL

(* Output appears only after the walk is complete, where the last option   *)
(* that names a place said.                                                *)
THEOREM OutputJustified == Spec => []OutputsJustified
<1>1. IInv => OutputsJustified
  BY DEF IInv
<1> QED
  BY <1>1, Invariance, PTL

(* An error anywhere on the command line, --help or --version leaves the   *)
(* inputs unread and the disk as it was.                                   *)
THEOREM RefusedUntouched == Spec => []RejectedTouchesNothing
<1>1. IInv => RejectedTouchesNothing
  BY DEF IInv, Types, TypeOK, Walk, Untouched, Refused, RejectedTouchesNothing
<1> QED
  BY <1>1, Invariance, PTL

-----------------------------------------------------------------------------
(* The promise of Batch: every step is one of its steps or a stutter.      *)

Wanted == IF dry_run THEN {} ELSE enabled_generators

Stutters == UNCHANGED <<Wanted, Handled, Published, status>>

LEMMA StartsAsPromised == Init => Promise!Init
BY NothingWritten DEF Init, Promise!Init, Handled, Published

(* Nothing is published before the output phase, and no verdict given      *)
(* before the end.                                                         *)
LEMMA Unpublished ==
  ASSUME IInv, Preparing \/ pc = "walk" \/ Parsing \/ pc = "gen_html"
  PROVE  Published = {} /\ ~HasOutput /\ status = "running"
BY NothingWritten DEF IInv, Types, TypeOK, Walk, Output, HasOutput, Published, Preparing, Parsing

LEMMA ReadCommandLineAsks ==
  ASSUME IInv, ReadCommandLine
  PROVE  Promise!Next \/ Stutters
<1>1. /\ Published = {} /\ Handled = {} /\ status = "running"
      /\ UNCHANGED <<Handled, Published>>
  <2>1. Preparing /\ Untouched
    BY DEF ReadCommandLine, Preparing, IInv, Walk
  <2> QED
    BY <2>1, Unpublished DEF ReadCommandLine, Untouched, Handled, Published, cxxvars, outvars
<1>2. Wanted' \in SUBSET {"HTML", "JSON"}
  BY ReadCommandLineKeeps DEF Wanted, IInv, Types, TypeOK
<1>3. \/ status' = status
      \/ UNCHANGED Wanted /\ status' \in {"success", "failure"}
  BY DEF ReadCommandLine, cmdline_callback, CxxOption, HtmlOption, JsonOption, DryRunOption,
     OtherOption, HelpOrVersion, InputPath, BadOption, Goto, FATAL, Exit, Wanted, optvars
<1>4. CASE status' = status
  BY <1>1, <1>2, <1>4 DEF Promise!Next, Promise!Ask, Wanted
<1>5. CASE UNCHANGED Wanted /\ status' = "success"
  BY <1>1, <1>5 DEF Promise!Next, Promise!Succeed, Wanted
<1>6. CASE UNCHANGED Wanted /\ status' = "failure"
  BY <1>1, <1>6 DEF Promise!Next, Promise!GiveUp, Wanted
<1> QED
  BY <1>3, <1>4, <1>5, <1>6

LEMMA EndOptionsAsks ==
  ASSUME IInv, EndOptions
  PROVE  Promise!Next
<1>1. /\ Published = {} /\ Handled = {} /\ status = "running"
      /\ UNCHANGED <<Handled, Published, status>>
  <2>1. Preparing /\ Untouched
    BY DEF EndOptions, Preparing, IInv, Walk
  <2> QED
    BY <2>1, Unpublished DEF EndOptions, Untouched, Handled, Published, cxxvars, outvars, Goto
<1>2. Wanted' \in SUBSET {"HTML", "JSON"}
  BY EndOptionsKeeps DEF Wanted, IInv, Types, TypeOK
<1> QED
  BY <1>1, <1>2 DEF Promise!Next, Promise!Ask, Wanted

(* A step that handles, publishes and asks for nothing can only give up.   *)
LEMMA QuietStep ==
  ASSUME status = "running", UNCHANGED <<Wanted, Handled, Published>>,
         status' \in {"running", "failure", "undefined"}
  PROVE  Promise!Next \/ Stutters
BY DEF Promise!Next, Promise!GiveUp, Stutters, Wanted

LEMMA WalkIsQuiet ==
  ASSUME IInv, StoreInit \/ NextInput \/ ReadDir \/ CloseDir \/ BuildArgs \/ DisposeIndex
               \/ FileProcessed \/ InputsDone
  PROVE  Promise!Next \/ Stutters
<1>1. status = "running"
  BY Unpublished
  DEF StoreInit, NextInput, ReadDir, CloseDir, BuildArgs, DisposeIndex, FileProcessed, InputsDone,
      Preparing, Parsing
<1>2. /\ UNCHANGED <<documented, reported, html, json, dry_run, enabled_generators>>
      /\ status' \in {status, "failure", "undefined"}
  <2>1. CASE StoreInit
    BY <2>1 DEF StoreInit, Goto, FATAL, Exit, optvars, cxxvars, outvars
  <2>2. CASE NextInput \/ ReadDir \/ CloseDir
    BY <2>2 DEF NextInput, ReadDir, CloseDir, process_input_path, process_input_file, OpenDir,
       Goto, FATAL, Exit, optvars, cxxvars, outvars
  <2>3. CASE BuildArgs \/ DisposeIndex \/ FileProcessed \/ InputsDone
    BY <2>3 DEF BuildArgs, DisposeIndex, FileProcessed, InputsDone, Goto, FATAL, Exit,
       optvars, cxxvars, outvars
  <2> QED
    BY <2>1, <2>2, <2>3
<1> QED
  BY <1>1, <1>2, QuietStep DEF Wanted, Handled, Published

LEMMA ParsingHandles ==
  ASSUME IInv, CreateIndex \/ ParseTranslationUnit \/ VisitChildren
  PROVE  Promise!Next \/ Stutters
<1>1. Published = {} /\ status = "running"
  BY Unpublished DEF CreateIndex, ParseTranslationUnit, VisitChildren, Parsing
<1>2. UNCHANGED <<html, json, dry_run, enabled_generators, status>>
  BY DEF CreateIndex, ParseTranslationUnit, VisitChildren, Goto, optvars, outvars
<1>3. Handled' = Handled \/ \E h : Handled' = Handled \cup {h}
  <2>1. CASE CreateIndex \/ ParseTranslationUnit
    <3>1. /\ UNCHANGED documented
          /\ UNCHANGED reported \/ reported' = reported \cup {file}
      BY <2>1 DEF CreateIndex, ParseTranslationUnit
    <3> QED
      BY <3>1 DEF Handled
  <2>2. CASE VisitChildren
    <3>1. PICK x : x.at = file /\ documented' = documented \cup {x}
      <4> DEFINE x == [at |-> file, args |-> SubSeq(args, 1, Len(args) - 1)]
      <4>1. x.at = file /\ documented' = documented \cup {x}
        BY <2>2 DEF VisitChildren
      <4> QED
        BY <4>1
    <3>2. {d.at : d \in documented'} = {d.at : d \in documented} \cup {file}
      BY <3>1
    <3>3. Handled' = Handled \cup {file}
      BY <2>2, <3>2 DEF VisitChildren, Handled
    <3> QED
      BY <3>3
  <2> QED
    BY <2>1, <2>2
<1>4. UNCHANGED <<Wanted, Published>>
  BY <1>2 DEF Wanted, Published
<1>5. CASE Handled' = Handled
  BY <1>2, <1>4, <1>5 DEF Stutters
<1>6. ASSUME NEW h, Handled' = Handled \cup {h} PROVE Promise!Next
  BY <1>1, <1>2, <1>4, <1>6 DEF Promise!Next, Promise!Handle, Wanted
<1> QED
  BY <1>3, <1>5, <1>6

LEMMA OutputPublishes ==
  ASSUME IInv, GenHtml \/ OpenJson \/ WriteJson \/ CloseJson
  PROVE  Promise!Next \/ Stutters
<1>1. /\ status = "running" /\ Outputting /\ IInv' /\ Handled # {}
      /\ UNCHANGED <<Wanted, Handled>> /\ status' \in {"running", "failure"}
  <2>1. status = "running" /\ Outputting /\ n_processed_files > 0
    BY DEF IInv, Types, TypeOK, Output, Outputting, Finished, GenHtml, OpenJson, WriteJson, CloseJson
  <2>2. Handled # {}
    BY <2>1 DEF IInv, Walk
  <2>3. UNCHANGED <<Wanted, Handled>> /\ status' \in {"running", "failure"}
    BY <2>1 DEF GenHtml, OpenJson, WriteJson, CloseJson, Goto, FATAL, Exit, Wanted, Handled,
       optvars, cxxvars
  <2> QED
    BY <2>1, <2>2, <2>3, GenHtmlKeeps, OpenJsonKeeps, WriteJsonKeeps, CloseJsonKeeps
<1>2. CASE UNCHANGED Published
  BY <1>1, <1>2, QuietStep
<1>3. CASE Published' # Published
  <2>1. \E g \in {"HTML", "JSON"} : g \in Wanted \ Published /\ Published' = Published \cup {g}
           /\ status' = "running"
    <3>1. CASE GenHtml
      <4>1. Published = {} /\ json = NoJson /\ json' = NoJson /\ Wanted = enabled_generators
        BY <3>1, Unpublished DEF GenHtml, HasOutput, IInv, Output, Wanted
      <4>2. html' # Null /\ Published' = {"HTML"}
        BY <1>3, <4>1, NothingWritten DEF Published
      <4>3. "HTML" \in enabled_generators /\ status' = "running"
        BY <1>1, <3>1, <4>1, <4>2, Unpublished DEF GenHtml, Goto, FATAL, Exit, HasOutput
      <4> QED
        BY <4>1, <4>2, <4>3
    <3>2. CASE OpenJson
      <4>1. json = NoJson /\ json'.stream = <<>> /\ html' = html
        BY <3>2, NothingWritten DEF OpenJson, IInv, Output
      <4>2. Published' = Published
        BY <4>1, NothingWritten DEF Published
      <4> QED
        BY <1>3, <4>2
    <3>3. CASE WriteJson
      <4>1. /\ html' = html /\ json.stream # EmptyDict /\ Wanted = enabled_generators
            /\ "JSON" \in enabled_generators
        BY <3>3, AtDump DEF WriteJson, Dump, Wanted
      <4>2. json'.stream = EmptyDict /\ Published' = Published \cup {"JSON"}
        BY <1>3, <4>1 DEF Published
      <4>3. status' = "running"
        BY <1>1, <3>3, <4>1, <4>2 DEF WriteJson, Goto, FATAL, Exit
      <4> QED
        BY <4>1, <4>2, <4>3 DEF Published
    <3>4. CASE CloseJson
      <4>1. html' = html /\ json'.stream = json.stream
        BY <3>4, AtDump DEF CloseJson
      <4> QED
        BY <1>3, <4>1 DEF Published
    <3> QED
      BY <3>1, <3>2, <3>3, <3>4
  <2> QED
    BY <1>1, <2>1 DEF Promise!Next, Promise!Publish, Wanted
<1> QED
  BY <1>2, <1>3

LEMMA StoreFiniSucceeds ==
  ASSUME IInv, StoreFini
  PROVE  Promise!Next
<1>1. status = "running" /\ Published = Wanted
  BY DEF IInv, Types, TypeOK, Output, Wanted, StoreFini
<1>2. UNCHANGED <<Wanted, Handled, Published>> /\ status' = "success"
  BY DEF StoreFini, Exit, Wanted, Handled, Published, optvars, cxxvars, outvars
<1> QED
  BY <1>1, <1>2 DEF Promise!Next, Promise!Succeed, Wanted

(* The program implements Batch: it settles what to publish first,         *)
(* publishes only what it was asked for and after all inputs, and succeeds *)
(* only when all of it is published (or on --help and --version).          *)
THEOREM PromiseKept == Spec => KeepsPromise
<1>1. IInv /\ [Next]_vars => [Promise!Next]_(Promise!bvars)
  <2> SUFFICES ASSUME IInv, [Next]_vars PROVE Promise!Next \/ Stutters
    BY DEF Stutters, Promise!bvars, Wanted
  <2>1. CASE UNCHANGED vars
    BY <2>1 DEF vars, Stutters, Wanted, Handled, Published, optvars, cxxvars, outvars
  <2> QED
    BY <2>1, ReadCommandLineAsks, EndOptionsAsks, WalkIsQuiet, ParsingHandles, OutputPublishes,
       StoreFiniSucceeds
    DEF Next
<1> QED
  BY <1>1, StartsAsPromised, Invariance, PTL DEF Spec, KeepsPromise, Promise!Spec

-----------------------------------------------------------------------------
(* What is open and what was created *)

Name == Item \cup {Dot, DotDot} \cup UNION {Entries[d] : d \in DOMAIN Entries}
Dir  == [path : Seq(Name), left : SUBSET Name]

(* Each directory that is open is one name below the one before it.        *)
Below(ds) ==
  \A k \in 2 .. Len(ds) :
    /\ IsPrefix(ds[k - 1].path, ds[k].path)
    /\ Len(ds[k].path) = Len(ds[k - 1].path) + 1

Nested(ds) == ds \in Seq(Dir) /\ Below(ds)

(* The libclang handles there are at each statement of parse_cxx().        *)
Created ==
  /\ index <=> pc \in {"parseTranslationUnit", "visit", "err_parseTranslationUnit2"}
  /\ unit <=> pc = "visit"
  /\ pc = "options" => store = "null"
  /\ status = "success" => dirs = <<>> /\ store = "null"

LEMMA NestedPush ==
  ASSUME NEW ds, Nested(ds), NEW d \in Dir,
         ds # <<>> => \E name \in Name : d.path = Append(ds[Len(ds)].path, name)
  PROVE  Nested(Append(ds, d))
<1> DEFINE N == Len(ds)
           es == Append(ds, d)
<1>1. /\ N \in Nat /\ es \in Seq(Dir) /\ Len(es) = N + 1
      /\ \A k \in 1 .. N : es[k] = ds[k]
      /\ es[N + 1] = d
  BY AppendProperties, LenProperties DEF Nested
<1>2. ASSUME NEW k \in 2 .. N + 1
      PROVE  IsPrefix(es[k - 1].path, es[k].path) /\ Len(es[k].path) = Len(es[k - 1].path) + 1
  <2>1. CASE k \in 2 .. N
    <3>1. es[k] = ds[k] /\ es[k - 1] = ds[k - 1]
      BY <1>1, <2>1
    <3> HIDE DEF es
    <3> QED
      BY <2>1, <3>1 DEF Nested, Below
  <2>2. CASE k = N + 1
    <3>1. ds # <<>> /\ N \in 1 .. N /\ k - 1 = N
      BY <1>1, <2>2
    <3>2. PICK name \in Name : d.path = Append(ds[N].path, name)
      BY <3>1
    <3> DEFINE p == ds[N].path
    <3>3. p \in Seq(Name) /\ Len(p) \in Nat
      <4>1. ds \in Seq(Dir) /\ N \in 1 .. Len(ds)
        BY <3>1 DEF Nested
      <4>2. ds[N] \in Dir
        BY <4>1, ElementOfSeq
      <4>3. p \in Seq(Name)
        BY <4>2 DEF Dir
      <4> QED
        BY <4>3, LenProperties
    <3>4. es[k] = d /\ es[k - 1] = ds[N]
      BY <1>1, <2>2, <3>1
    <3> HIDE DEF p, es
    <3>5. /\ Len(Append(p, name)) = Len(p) + 1
          /\ SubSeq(Append(p, name), 1, Len(p)) = p
      <4>1. /\ Append(p, name) \in Seq(Name) /\ Len(Append(p, name)) = Len(p) + 1
            /\ \A j \in 1 .. Len(p) : Append(p, name)[j] = p[j]
        BY <3>3, AppendProperties, LenProperties
      <4>2. SubSeq(Append(p, name), 1, Len(p)) = [j \in 1 .. Len(p) |-> Append(p, name)[j]]
        BY <3>3, <4>1
      <4>3. p = [j \in 1 .. Len(p) |-> p[j]]
        BY <3>3, LenProperties
      <4> QED
        BY <4>1, <4>2, <4>3
    <3>6. d.path = Append(p, name) /\ es[k - 1].path = p /\ es[k].path = d.path
      BY <3>2, <3>4 DEF p
    <3>7. Len(p) <= Len(d.path) /\ p = SubSeq(d.path, 1, Len(p)) /\ Len(d.path) = Len(p) + 1
      BY <3>3, <3>5, <3>6
    <3>8. IsPrefix(p, d.path)
      BY <3>7 DEF IsPrefix
    <3> QED
      BY <3>6, <3>7, <3>8
  <2> QED
    BY <1>1, <2>1, <2>2
<1> QED
  BY <1>1, <1>2 DEF Nested, Below

LEMMA NestedPop ==
  ASSUME NEW ds, Nested(ds), ds # <<>>
  PROVE  Nested(SubSeq(ds, 1, Len(ds) - 1))
<1> DEFINE N == Len(ds)
           es == SubSeq(ds, 1, N - 1)
<1>1. N \in Nat /\ N >= 1
  BY LenProperties, EmptySeq DEF Nested
<1>2. /\ es \in Seq(Dir) /\ Len(es) = N - 1
      /\ \A k \in 1 .. N - 1 : es[k] = ds[k]
  <2>1. ds \in Seq(Dir) /\ Len(ds) = N
    BY DEF Nested
  <2>2. 1 \in 1 .. N + 1 /\ N - 1 \in 0 .. N /\ 1 <= N - 1 + 1
    BY <1>1
  <2>3. \A k \in 1 .. N - 1 : k \in 1 .. N
    BY <1>1
  <2>4. \A k \in 1 .. N - 1 : ds[k] \in Dir
    BY <2>1, <2>3, ElementOfSeq
  <2>5. es = [k \in 1 .. N - 1 |-> ds[k]]
    BY <1>1, <2>1
  <2>6. es \in Seq(Dir) /\ Len(es) = N - 1
    <3> HIDE DEF N, es
    <3>1. N - 1 \in Nat /\ es \in [1 .. N - 1 -> Dir]
      BY <1>1, <2>4, <2>5
    <3> QED
      BY <3>1
  <2> QED
    BY <2>5, <2>6
<1> HIDE DEF es, N
<1>3. ASSUME NEW k \in 2 .. N - 1
      PROVE  k \in 2 .. N /\ es[k] = ds[k] /\ es[k - 1] = ds[k - 1]
  BY <1>1, <1>2
<1> QED
  BY <1>2, <1>3 DEF Nested, Below, N, es

LEMMA NestedRead ==
  ASSUME NEW ds, Nested(ds), ds # <<>>, NEW name
  PROVE  LET stack == [ds EXCEPT ![Len(ds)].left = @ \ {name}]
         IN  Nested(stack) /\ stack # <<>> /\ Len(stack) = Len(ds)
             /\ stack[Len(stack)].path = ds[Len(ds)].path
<1> DEFINE N == Len(ds)
           d == ds[N]
           e == [d EXCEPT !.left = d.left \ {name}]
           stack == [ds EXCEPT ![N] = e]
<1>1. N \in Nat /\ N >= 1 /\ DOMAIN ds = 1 .. N /\ ds \in Seq(Dir)
  BY LenProperties, EmptySeq DEF Nested
<1>2. d \in Dir
  BY <1>1, ElementOfSeq
<1>3. e \in Dir /\ e.path = d.path
  BY <1>2 DEF Dir
<1>4. [ds EXCEPT ![Len(ds)].left = @ \ {name}] = stack
  OBVIOUS
<1>5. /\ stack \in Seq(Dir) /\ Len(stack) = N
      /\ \A k \in 1 .. N : stack[k].path = ds[k].path
  <2>1. ds \in [1 .. N -> Dir]
    BY <1>1
  <2> HIDE DEF e, N
  <2>2. stack \in [1 .. N -> Dir]
    BY <1>3, <2>1
  <2>3. stack \in Seq(Dir) /\ Len(stack) = N
    BY <1>1, <2>2
  <2>4. ASSUME NEW k \in 1 .. N
        PROVE  stack[k].path = ds[k].path
    <3>1. CASE k = N
      <4>1. stack[k] = e
        BY <1>1, <3>1
      <4>2. e.path = ds[N].path
        BY <1>3
      <4> QED
        BY <3>1, <4>1, <4>2
    <3>2. CASE k # N
      BY <1>1, <3>2
    <3> QED
      BY <3>1, <3>2
  <2> QED
    BY <2>3, <2>4
<1> HIDE DEF stack
<1>6. Below(stack)
  <2> HIDE DEF N
  <2> SUFFICES ASSUME NEW k \in 2 .. N
               PROVE  /\ IsPrefix(stack[k - 1].path, stack[k].path)
                      /\ Len(stack[k].path) = Len(stack[k - 1].path) + 1
    BY <1>5 DEF Below
  <2>1. k \in 1 .. N /\ k - 1 \in 1 .. N
    BY <1>1
  <2>2. stack[k].path = ds[k].path /\ stack[k - 1].path = ds[k - 1].path
    BY <1>5, <2>1
  <2> QED
    BY <2>2 DEF Nested, Below, N
<1>7. stack # <<>>
  BY <1>1, <1>5
<1>8. /\ Nested(stack) /\ stack # <<>> /\ Len(stack) = Len(ds)
      /\ stack[Len(stack)].path = ds[Len(ds)].path
  <2>1. Len(stack) = N /\ N \in 1 .. N
    BY <1>1, <1>5
  <2> QED
    BY <1>5, <1>6, <1>7, <2>1 DEF Nested
<1> DEFINE Good(st) == /\ Nested(st) /\ st # <<>> /\ Len(st) = Len(ds)
                       /\ st[Len(st)].path = ds[Len(ds)].path
<1>9. Good(stack)
  BY <1>8
<1> HIDE DEF Good
<1>10. Good([ds EXCEPT ![Len(ds)].left = @ \ {name}])
  BY <1>4, <1>9, Zenon
<1> QED
  BY <1>10 DEF Good

(* opendir() opens the directory it is given, below the stack or as the    *)
(* first one.                                                              *)
LEMMA PathNested ==
  ASSUME NEW path, NEW stack, process_input_path(path, stack), Nested(stack), path \in Seq(Name),
         stack # <<>> => \E name \in Name : path = Append(stack[Len(stack)].path, name)
  PROVE  Nested(dirs)'
<1>1. CASE dirs' = stack
  BY <1>1 DEF Nested, Below
<1>2. CASE /\ path_is_dir(path)
           /\ dirs' = Append(stack, [path |-> path, left |-> Entries[Target(path)] \cup {Dot, DotDot}])
  <2> DEFINE d == [path |-> path, left |-> Entries[Target(path)] \cup {Dot, DotDot}]
  <2>1. d \in Dir /\ d.path = path
    BY <1>2 DEF Dir, Name, path_is_dir
  <2> HIDE DEF d
  <2>2. Nested(Append(stack, d))
    BY <2>1, NestedPush
  <2> QED
    BY <1>2, <2>2 DEF d, Nested, Below
<1> QED
  BY <1>1, <1>2 DEF process_input_path, OpenDir, process_input_file

LEMMA NestedKept ==
  ASSUME IInv, Nested(dirs), [Next]_vars
  PROVE  Nested(dirs)'
<1>1. CASE UNCHANGED dirs
  BY <1>1 DEF Nested, Below
<1>2. CASE NextInput
  <2>1. argv_paths.items \in Seq(Item) /\ input \in Nat /\ Len(argv_paths.items) \in Nat
        /\ input < Len(argv_paths.items)
    BY <1>2, LenProperties DEF IInv, Types, TypeOK, Array, NextInput
  <2>2. argv_paths.items[input + 1] \in Name
    BY <2>1, ElementOfSeq DEF Name
  <2>3. <<argv_paths.items[input + 1]>> \in Seq(Name)
    BY <2>2
  <2>4. Nested(<<>>)
    BY EmptySeq DEF Nested, Below
  <2> QED
    BY <1>2, <2>3, <2>4, PathNested DEF NextInput
<1>3. CASE ReadDir
  <2>1. dirs # <<>>
    BY <1>3 DEF ReadDir
  <2>2. PICK name \in Innermost.left :
          LET stack == [dirs EXCEPT ![Len(dirs)].left = @ \ {name}]
          IN dirs' = stack \/ process_input_path(Append(Innermost.path, name), stack)
    BY <1>3 DEF ReadDir
  <2> DEFINE stack == [dirs EXCEPT ![Len(dirs)].left = @ \ {name}]
  <2>3. Nested(stack) /\ stack # <<>> /\ stack[Len(stack)].path = dirs[Len(dirs)].path
    BY <2>1, NestedRead
  <2>4. dirs[Len(dirs)] \in Dir
    BY <2>1, LenProperties, ElementOfSeq, EmptySeq DEF Nested
  <2>5. name \in Name /\ dirs[Len(dirs)].path \in Seq(Name)
    BY <2>4 DEF Innermost, Dir
  <2>6. Append(Innermost.path, name) \in Seq(Name)
    BY <2>5, AppendProperties DEF Innermost
  <2>7. dirs' = stack \/ process_input_path(Append(Innermost.path, name), stack)
    BY <2>2
  <2> HIDE DEF stack
  <2>8. CASE dirs' = stack
    BY <2>3, <2>8 DEF Nested, Below
  <2>9. CASE process_input_path(Append(Innermost.path, name), stack)
    BY <2>3, <2>5, <2>6, <2>9, PathNested DEF Innermost
  <2> QED
    BY <2>7, <2>8, <2>9
<1>4. CASE CloseDir
  <2>1. dirs # <<>> /\ dirs' = SubSeq(dirs, 1, Len(dirs) - 1)
    BY <1>4 DEF CloseDir
  <2>2. Nested(SubSeq(dirs, 1, Len(dirs) - 1))
    BY <2>1, NestedPop
  <2> QED
    BY <2>1, <2>2 DEF Nested, Below
<1>5. ASSUME Next, ~NextInput, ~ReadDir, ~CloseDir
      PROVE  UNCHANGED dirs
  BY <1>5 DEF Next, ReadCommandLine, EndOptions, StoreInit, BuildArgs, CreateIndex,
     ParseTranslationUnit, VisitChildren, DisposeIndex, FileProcessed, InputsDone, GenHtml,
     OpenJson, WriteJson, CloseJson, StoreFini, walkvars
<1>6. CASE UNCHANGED vars
  BY <1>1, <1>6 DEF vars, walkvars
<1> QED
  BY <1>1, <1>2, <1>3, <1>4, <1>5, <1>6

LEMMA CreatedKept ==
  ASSUME IInv, Created, [Next]_vars
  PROVE  Created'
<1>0. status # "running" <=> pc = "exited"
  BY DEF IInv, Types, TypeOK
<1>1. CASE ReadCommandLine
  <2>1. /\ pc = "options" /\ dirs = <<>> /\ UNCHANGED <<dirs, index, unit, store>>
        /\ pc' \in {"options", "exited"}
    BY <1>1 DEF ReadCommandLine, cmdline_callback, CxxOption, HtmlOption, JsonOption, DryRunOption,
       OtherOption, HelpOrVersion, InputPath, BadOption, Goto, FATAL, Exit, walkvars, cxxvars,
       IInv, Walk, Preparing, Untouched
  <2> QED
    BY <2>1 DEF Created
<1>2. CASE EndOptions \/ StoreInit \/ InputsDone \/ GenHtml \/ OpenJson \/ WriteJson \/ CloseJson
  <2>1. /\ UNCHANGED <<index, unit>> /\ status = "running"
        /\ pc \in {"options", "store_init", "walk", "gen_html", "gen_json", "dump"}
        /\ pc' \in {"store_init", "walk", "gen_html", "gen_json", "dump", "store_fini", "exited"}
        /\ status' # "success"
    BY <1>0, <1>2 DEF EndOptions, StoreInit, InputsDone, GenHtml, OpenJson, WriteJson, CloseJson,
       Goto, FATAL, Exit, cxxvars
  <2> QED
    BY <2>1 DEF Created
<1>3. CASE NextInput \/ ReadDir \/ CloseDir
  <2>1. /\ UNCHANGED <<index, unit>> /\ status = "running" /\ pc = "walk"
        /\ pc' \in {"walk", "parse_cxx", "exited"} /\ status' # "success"
    BY <1>0, <1>3 DEF NextInput, ReadDir, CloseDir, process_input_path, process_input_file, OpenDir,
       Goto, FATAL, Exit, cxxvars
  <2> QED
    BY <2>1 DEF Created
<1>4. CASE BuildArgs
  BY <1>0, <1>4 DEF BuildArgs, Created, Goto, FATAL, Exit
<1>5. CASE CreateIndex
  BY <1>0, <1>5 DEF CreateIndex, Created, Goto
<1>6. CASE ParseTranslationUnit
  BY <1>0, <1>6 DEF ParseTranslationUnit, Created, Goto
<1>7. CASE VisitChildren
  BY <1>0, <1>7 DEF VisitChildren, Created, Goto
<1>8. CASE DisposeIndex
  BY <1>0, <1>8 DEF DisposeIndex, Created, Goto
<1>9. CASE FileProcessed
  BY <1>0, <1>9 DEF FileProcessed, Created, Goto
<1>10. CASE StoreFini
  <2>1. /\ pc = "store_fini" /\ pc' = "exited" /\ UNCHANGED <<index, unit, dirs>> /\ store' = "null"
        /\ dirs = <<>>
    BY <1>10 DEF StoreFini, Exit, walkvars, cxxvars, IInv, Output, Outputting, Finished
  <2> QED
    BY <2>1 DEF Created
<1>11. CASE UNCHANGED vars
  BY <1>11 DEF vars, walkvars, cxxvars, Created
<1> QED
  BY <1>1, <1>2, <1>3, <1>4, <1>5, <1>6, <1>7, <1>8, <1>9, <1>10, <1>11 DEF Next

(* On every path through its goto labels parse_cxx() disposes of what it   *)
(* created, and success leaves nothing open: neither a directory nor the   *)
(* store.                                                                  *)
THEOREM HandlesReleased == Spec => []HandlesBalanced
<1>1. Init => Nested(dirs) /\ Created
  BY EmptySeq DEF Init, Nested, Below, Created
<1>2. IInv /\ Nested(dirs) /\ Created /\ [Next]_vars => Nested(dirs)' /\ Created'
  BY NestedKept, CreatedKept
<1>3. Nested(dirs) /\ Created /\ IInv => HandlesBalanced
  BY DEF Nested, Below, Created, HandlesBalanced, Outputting, IInv, Types, TypeOK
<1> QED
  BY <1>1, <1>2, <1>3, Invariance, PTL DEF Spec


-----------------------------------------------------------------------------
(* The options for the compiler *)

(* Every set of numbers has a least one: with it a fact about a number     *)
(* follows from the step to the next number.                               *)
LEMMA LeastNumber ==
  ASSUME NEW T, T \subseteq Nat, T # {}
  PROVE  \E n \in T : \A m \in T : n <= m
<1> DEFINE R == {ss \in Nat \X Nat : ss[1] < ss[2]}
<1>1. IsWellFoundedOn(R, Nat)
  BY NatLessThanWellFounded DEF OpToRel
<1>2. \A x, y \in Nat : x < y => <<x, y>> \in R
  OBVIOUS
<1> HIDE DEF R
<1>3. PICK n \in T : \A m \in T : ~ (<<m, n>> \in R)
  BY <1>1, WFMin
<1>4. ASSUME NEW m \in T
      PROVE  n <= m
  <2>1. ~ (m < n)
    BY <1>2, <1>3
  <2> QED
    BY <2>1
<1> QED
  BY <1>3, <1>4

(* The function that Gathered builds: the words of the first n calls.      *)
WordsBy(cs, array, N, w) ==
  w = [n \in 0 .. N |-> IF n = 0 THEN <<>> ELSE w[n - 1] \o WordsFor(cs[n], array)]

LEMMA WordsExist ==
  ASSUME NEW cs, NEW array, NEW N \in Nat
  PROVE  \E w : WordsBy(cs, array, N, w)
<1> DEFINE Bad == {n \in Nat : ~ \E w : WordsBy(cs, array, n, w)}
<1> SUFFICES ASSUME Bad # {} PROVE FALSE
  OBVIOUS
<1>1. Bad \subseteq Nat
  OBVIOUS
<1>2. PICK n \in Bad : \A k \in Bad : n <= k
  <2> HIDE DEF Bad
  <2> QED
    BY <1>1, LeastNumber
<1>3. n # 0
  <2>1. WordsBy(cs, array, 0, [k \in 0 .. 0 |-> <<>>])
    BY DEF WordsBy
  <2> QED
    BY <2>1
<1>4. PICK w : WordsBy(cs, array, n - 1, w)
  BY <1>2, <1>3
<1> DEFINE W == [k \in 0 .. n |-> IF k = n THEN w[n - 1] \o WordsFor(cs[n], array) ELSE w[k]]
<1>5. WordsBy(cs, array, n, W)
  <2>1. \A k \in 0 .. n : W[k] = IF k = 0 THEN <<>> ELSE W[k - 1] \o WordsFor(cs[k], array)
    BY <1>2, <1>3, <1>4 DEF WordsBy
  <2> QED
    BY <2>1, Zenon DEF WordsBy
<1> QED
  BY <1>2, <1>5

LEMMA GatheredAre ==
  ASSUME NEW cs, NEW array, Len(cs) \in Nat
  PROVE  \E w : WordsBy(cs, array, Len(cs), w) /\ Gathered(cs, array) = w[Len(cs)]
<1> DEFINE f == CHOOSE w : w = [n \in 0 .. Len(cs) |-> IF n = 0 THEN <<>>
                                                     ELSE w[n - 1] \o WordsFor(cs[n], array)]
<1>1. \E w : WordsBy(cs, array, Len(cs), w)
  BY WordsExist
<1>2. WordsBy(cs, array, Len(cs), f)
  BY <1>1 DEF WordsBy
<1>3. Gathered(cs, array) = f[Len(cs)]
  BY DEF Gathered
<1> QED
  BY <1>2, <1>3

(* The words of the first N calls are the same, whatever comes after them. *)
LEMMA WordsAgree ==
  ASSUME NEW cs, NEW ds, NEW array, NEW N \in Nat, NEW M \in Nat, N <= M, NEW v, NEW w,
         WordsBy(cs, array, N, v), WordsBy(ds, array, M, w), \A k \in 1 .. N : cs[k] = ds[k]
  PROVE  v[N] = w[N]
<1> DEFINE Bad == {n \in 0 .. N : v[n] # w[n]}
<1> SUFFICES ASSUME Bad # {} PROVE FALSE
  OBVIOUS
<1>1. Bad \subseteq Nat
  OBVIOUS
<1>2. PICK n \in Bad : \A k \in Bad : n <= k
  <2> HIDE DEF Bad
  <2> QED
    BY <1>1, LeastNumber
<1>3. n \in 0 .. N /\ n \in 0 .. M /\ v[n] # w[n]
  OBVIOUS
<1>4. /\ v[n] = IF n = 0 THEN <<>> ELSE v[n - 1] \o WordsFor(cs[n], array)
      /\ w[n] = IF n = 0 THEN <<>> ELSE w[n - 1] \o WordsFor(ds[n], array)
  BY <1>3 DEF WordsBy
<1>5. n # 0
  BY <1>3, <1>4
<1>6. n - 1 \in 0 .. N /\ n - 1 \notin Bad /\ n \in 1 .. N
  BY <1>2, <1>3, <1>5
<1>7. v[n - 1] = w[n - 1]
  BY <1>6
<1> QED
  BY <1>3, <1>4, <1>5, <1>6, <1>7

LEMMA NothingGathered ==
  ASSUME NEW array
  PROVE  Gathered(<<>>, array) = <<>>
<1>1. Len(<<>>) = 0
  BY EmptySeq
<1>2. PICK w : WordsBy(<<>>, array, 0, w) /\ Gathered(<<>>, array) = w[0]
  BY <1>1, GatheredAre
<1> QED
  BY <1>2 DEF WordsBy

LEMMA GatheredGrow ==
  ASSUME Cmd!TypeOK, NEW c \in CallRecord, calls' = Append(calls, c), NEW array
  PROVE  Gathered(calls', array) = Gathered(calls, array) \o WordsFor(c, array)
<1> DEFINE N == Len(calls)
           cs == Append(calls, c)
<1>1. N \in Nat /\ Len(cs) = N + 1 /\ cs[N + 1] = c /\ \A k \in 1 .. N : calls[k] = cs[k]
  BY CallsGrow
<1>2. PICK v : WordsBy(calls, array, N, v) /\ Gathered(calls, array) = v[N]
  BY <1>1, GatheredAre
<1>3. PICK w : WordsBy(cs, array, N + 1, w) /\ Gathered(cs, array) = w[N + 1]
  <2> HIDE DEF cs, N
  <2> QED
    BY <1>1, GatheredAre
<1> HIDE DEF N, cs
<1>4. v[N] = w[N]
  BY <1>1, <1>2, <1>3, WordsAgree
<1>5. w[N + 1] = w[N] \o WordsFor(c, array)
  <2>1. N + 1 \in 0 .. N + 1 /\ N + 1 # 0 /\ (N + 1) - 1 = N
    BY <1>1
  <2>2. w[N + 1] = IF N + 1 = 0 THEN <<>> ELSE w[(N + 1) - 1] \o WordsFor(cs[N + 1], array)
    BY <1>3, <2>1 DEF WordsBy
  <2> QED
    BY <1>1, <2>1, <2>2
<1>6. Gathered(cs, array) = Gathered(calls, array) \o WordsFor(c, array)
  BY <1>2, <1>3, <1>4, <1>5
<1> QED
  BY <1>6 DEF cs

LEMMA CxxArgsGrow ==
  ASSUME Cmd!TypeOK, NEW c \in CallRecord, calls' = Append(calls, c)
  PROVE  CxxArgs(calls)' = CxxArgs(calls) \o CxxWords(c)
BY GatheredGrow DEF CxxArgs, WordsFor

LEMMA InputPathsGrow ==
  ASSUME Cmd!TypeOK, NEW c \in CallRecord, calls' = Append(calls, c)
  PROVE  InputPaths(calls)' = InputPaths(calls) \o PathWords(c)
BY GatheredGrow DEF InputPaths, WordsFor

(* An array's items as far as the NULL: the options that were given.       *)
Whole(s) == s \in Seq(Item) /\ \A k \in 1 .. Len(s) : s[k] # Null

(* What each statement knows of the options: they are those of the calls,  *)
(* with the NULL behind them unless there was no room for it.              *)
InForce ==
  LET options == CxxArgs(calls)
  IN /\ Whole(options)
     /\ pc = "options" => clang_opts.items = options
     /\ pc \in {"store_init", "walk"} \/ Parsing =>
          \/ clang_opts.items = Append(options, Null)
          \/ clang_opts.items = options /\ ~Fits(clang_opts, 1)
     /\ pc \in {"createIndex", "parseTranslationUnit", "visit"} =>
          args = <<DefineDocbaker, Sysincdir>> \o options \o <<Null>>
     /\ \A d \in documented : d.args = <<DefineDocbaker, Sysincdir>> \o options

LEMMA WordsAdded ==
  ASSUME NEW s, Whole(s), NEW a \in Item, NEW b \in Item, a # Null, b # Null
  PROVE  Whole(s \o <<a, b>>) /\ Append(Append(s, a), b) = s \o <<a, b>>
<1> DEFINE N == Len(s)
           t == s \o <<a, b>>
<1>1. s \in Seq(Item) /\ N \in Nat /\ \A k \in 1 .. N : s[k] # Null
  BY LenProperties DEF Whole
<1>2. <<a, b>> \in Seq(Item) /\ Len(<<a, b>>) = 2
  OBVIOUS
<1>3. t \in Seq(Item) /\ Len(t) = N + 2
  BY <1>1, <1>2, ConcatProperties
<1>4. \A k \in 1 .. N + 2 : t[k] = IF k <= N THEN s[k] ELSE <<a, b>>[k - N]
  BY <1>1, <1>2, ConcatProperties
<1>5. \A k \in 1 .. N + 2 : k = N + 1 \/ k = N + 2 \/ k \in 1 .. N
  BY <1>1
<1>6. t[N + 1] = a /\ t[N + 2] = b /\ \A k \in 1 .. N : t[k] = s[k]
  BY <1>1, <1>4
<1>7. Append(Append(s, a), b) = t
  <2>1. Append(s, a) \in Seq(Item) /\ Len(Append(s, a)) = N + 1
    BY <1>1, AppendProperties
  <2> DEFINE r == Append(Append(s, a), b)
  <2>2. r \in Seq(Item) /\ Len(r) = N + 2
    BY <2>1, AppendProperties, <1>1
  <2>3. r[N + 2] = b /\ r[N + 1] = a /\ \A k \in 1 .. N : r[k] = s[k]
    BY <1>1, <2>1, AppendProperties
  <2> HIDE DEF r, t
  <2>4. \A k \in 1 .. N + 2 : r[k] = t[k]
    BY <1>5, <1>6, <2>3
  <2>5. r = t
    BY <1>3, <2>2, <2>4, SeqEqual
  <2> QED
    BY <2>5 DEF r
<1> HIDE DEF t
<1>8. Whole(t)
  BY <1>1, <1>3, <1>5, <1>6 DEF Whole
<1> QED
  BY <1>7, <1>8 DEF t

LEMMA TerminatedBefore ==
  ASSUME NEW s, Whole(s)
  PROVE  /\ ~IsTerminated(s)
         /\ IsTerminated(Append(s, Null))
         /\ UpToNull(Append(s, Null)) = s
<1> DEFINE N == Len(s)
           t == Append(s, Null)
           At(k) == t[k] = Null /\ \A j \in 1 .. k - 1 : t[j] # Null
<1>1. s \in Seq(Item) /\ N \in Nat /\ DOMAIN s = 1 .. N /\ \A k \in 1 .. N : s[k] # Null
  BY LenProperties DEF Whole
<1>2. Null \in Item
  BY DEF Null, Item
<1>3. /\ t \in Seq(Item) /\ Len(t) = N + 1
      /\ t[N + 1] = Null
      /\ \A k \in 1 .. N : t[k] = s[k]
  BY <1>1, <1>2, AppendProperties
<1>4. DOMAIN t = 1 .. N + 1
  BY <1>3
<1>5. ~IsTerminated(s)
  BY <1>1 DEF IsTerminated
<1> HIDE DEF t, N
<1>6. N + 1 \in DOMAIN t /\ At(N + 1)
  BY <1>1, <1>3, <1>4
<1>7. \A k \in DOMAIN t : At(k) => k = N + 1
  BY <1>1, <1>3, <1>4
<1>8. (CHOOSE k \in DOMAIN t : At(k)) = N + 1
  BY <1>6, <1>7
<1>9. UpToNull(t) = SubSeq(t, 1, N)
  <2>1. UpToNull(t) = SubSeq(t, 1, (N + 1) - 1)
    BY <1>8, Zenon DEF UpToNull
  <2>2. (N + 1) - 1 = N
    BY <1>1
  <2> QED
    BY <2>1, <2>2
<1>10. SubSeq(t, 1, N) = s
  <2>1. SubSeq(t, 1, N) = [k \in 1 .. N |-> t[k]]
    BY <1>1, <1>3
  <2>2. s = [k \in 1 .. N |-> s[k]]
    BY <1>1 DEF N
  <2> QED
    BY <1>3, <2>1, <2>2
<1>11. IsTerminated(t)
  BY <1>6 DEF IsTerminated
<1> QED
  BY <1>5, <1>9, <1>10, <1>11 DEF t

LEMMA ArgsBeforeNull ==
  ASSUME NEW s, Whole(s)
  PROVE  LET all == <<DefineDocbaker, Sysincdir>> \o s \o <<Null>>
         IN  SubSeq(all, 1, Len(all) - 1) = <<DefineDocbaker, Sysincdir>> \o s
<1> DEFINE two == <<DefineDocbaker, Sysincdir>>
           p == two \o s
           N == Len(p)
           all == p \o <<Null>>
           Any == Item \cup {DefineDocbaker, Sysincdir, Null}
<1>1. two \in Seq(Any) /\ s \in Seq(Any) /\ <<Null>> \in Seq(Any) /\ Len(<<Null>>) = 1
  <2>1. Item \subseteq Any /\ DefineDocbaker \in Any /\ Sysincdir \in Any /\ Null \in Any
    OBVIOUS
  <2> HIDE DEF Any
  <2>2. s \in Seq(Item)
    BY DEF Whole
  <2> QED
    BY <2>1, <2>2
<1> HIDE DEF Any, two
<1>2. p \in Seq(Any) /\ N \in Nat
  BY <1>1, ConcatProperties, LenProperties
<1> HIDE DEF p
<1>3. all \in Seq(Any) /\ Len(all) = N + 1 /\ \A k \in 1 .. N : all[k] = p[k]
  <2>1. all \in Seq(Any) /\ Len(all) = N + 1
    BY <1>1, <1>2, ConcatProperties
  <2>2. \A k \in 1 .. N + 1 : all[k] = IF k <= N THEN p[k] ELSE <<Null>>[k - N]
    BY <1>1, <1>2, ConcatProperties
  <2> QED
    BY <1>2, <2>1, <2>2
<1> HIDE DEF all
<1>4. SubSeq(all, 1, N) = p
  <2>1. SubSeq(all, 1, N) = [k \in 1 .. N |-> all[k]]
    BY <1>2, <1>3
  <2>2. p = [k \in 1 .. N |-> p[k]]
    BY <1>2
  <2> QED
    BY <1>3, <2>1, <2>2
<1>5. Len(all) - 1 = N
  BY <1>2, <1>3
<1> QED
  BY <1>4, <1>5 DEF all, p, two

(* A call for -D, -I or -isystem adds its two words, any other none.       *)
LEMMA CallbackInForce ==
  ASSUME Cmd!TypeOK, NEW c \in CallRecord, calls' = Append(calls, c), CmdP!HonoursContract(c),
         cmdline_callback(c), pc = "options", Whole(CxxArgs(calls)),
         clang_opts.items = CxxArgs(calls)
  PROVE  Whole(CxxArgs(calls)') /\ (pc' = "options" => clang_opts'.items = CxxArgs(calls)')
<1>1. CxxArgs(calls)' = CxxArgs(calls) \o CxxWords(c)
  BY CxxArgsGrow
<1>2. CASE c.id \in {"CXX_D", "CXX_I", "CXX_S"}
  <2>1. CxxWords(c) = <<CxxFlag(c.id), c.arg>>
    BY <1>2 DEF CxxWords, CxxFlag
  <2>2. CxxFlag(c.id) \in Item /\ c.arg \in Item
    BY <1>2 DEF Item, CallRecord
  <2>3. CxxFlag(c.id) # Null
    BY <1>2 DEF CxxFlag, Null, NoArg, Cmd!NoArg
  <2>4. c.arg # Null
    <3>1. /\ cmdline_options[1].id = "CXX_D" /\ cmdline_options[1].flags = {"compiler"}
          /\ cmdline_options[2].id = "CXX_I" /\ cmdline_options[2].flags = {"compiler"}
          /\ cmdline_options[3].id = "CXX_S" /\ cmdline_options[3].flags = {"compiler"}
      BY DEF cmdline_options, Option
    <3>2. {1, 2, 3} \subseteq DOMAIN cmdline_options
      BY DEF cmdline_options
    <3>3. PICK k \in {1, 2, 3} : cmdline_options[k].id = c.id /\ cmdline_options[k].flags = {"compiler"}
      BY <1>2, <3>1
    <3> QED
      BY <3>2, <3>3 DEF CmdP!HonoursContract, CmdP!IsCompilerLike, CmdP!NoArg, Null, NoArg, Cmd!NoArg
  <2>5. /\ Whole(CxxArgs(calls) \o CxxWords(c))
        /\ Append(Append(CxxArgs(calls), CxxFlag(c.id)), c.arg) = CxxArgs(calls) \o CxxWords(c)
    BY <2>1, <2>2, <2>3, <2>4, WordsAdded
  <2>6. CxxOption(c)
    BY <1>2 DEF cmdline_callback, CxxOption, HtmlOption, JsonOption, DryRunOption, OtherOption,
       HelpOrVersion, InputPath, BadOption
  <2>7. pc' = "options" => clang_opts'.items = Append(Append(clang_opts.items, CxxFlag(c.id)), c.arg)
    BY <2>6 DEF CxxOption, array_append, FATAL, Exit
  <2> QED
    BY <1>1, <2>5, <2>7
<1>3. CASE c.id \notin {"CXX_D", "CXX_I", "CXX_S"}
  <2>1. UNCHANGED clang_opts
    BY <1>3 DEF cmdline_callback, CxxOption, HtmlOption, JsonOption, DryRunOption, OtherOption,
       HelpOrVersion, InputPath, BadOption, optvars
  <2>2. CxxWords(c) = <<>>
    BY <1>3 DEF CxxWords
  <2>3. CxxArgs(calls) \o <<>> = CxxArgs(calls)
    BY ConcatEmptySeq DEF Whole
  <2> QED
    BY <1>1, <2>1, <2>2, <2>3
<1> QED
  BY <1>2, <1>3

LEMMA InForceStarts == Init => InForce
<1> SUFFICES ASSUME Init PROVE InForce
  OBVIOUS
<1>1. CxxArgs(calls) = <<>> /\ clang_opts.items = <<>>
  BY NothingGathered DEF Init, Cmd!Init, EmptyArray, CxxArgs
<1>2. Whole(<<>>)
  BY EmptySeq DEF Whole
<1> QED
  BY <1>1, <1>2 DEF Init, InForce, Parsing

LEMMA InForceKept ==
  ASSUME IInv, InForce, [Next]_vars
  PROVE  InForce'
<1> DEFINE options == CxxArgs(calls)
<1>0. Whole(options)
  BY DEF InForce
<1>1. CASE ReadCommandLine
  <2>1. pc = "options" /\ documented = {} /\ UNCHANGED documented /\ pc' \in {"options", "exited"}
    BY <1>1 DEF ReadCommandLine, cmdline_callback, CxxOption, HtmlOption, JsonOption, DryRunOption,
       OtherOption, HelpOrVersion, InputPath, BadOption, Goto, FATAL, Exit, cxxvars,
       IInv, Walk, Preparing, Untouched
  <2>2. Cmd!TypeOK /\ clang_opts.items = CxxArgs(calls)
    BY <2>1 DEF IInv, Types, InForce
  <2>3. Whole(CxxArgs(calls)') /\ (pc' = "options" => clang_opts'.items = CxxArgs(calls)')
    <3>1. CASE Cmd!Deliver(0) /\ cmdline_callback(calls'[Len(calls')])
      <4>1. PICK c \in CallRecord : calls' = Append(calls, c) /\ CmdP!HonoursContract(c)
        BY <2>2, <3>1, CmdDelivers
      <4>2. calls'[Len(calls')] = c
        BY <2>2, <4>1, CallsGrow
      <4> QED
        BY <1>0, <2>1, <2>2, <3>1, <4>1, <4>2, CallbackInForce
    <3>2. CASE Cmd!EndOfOptions /\ UNCHANGED optvars
      <4>1. UNCHANGED calls
        BY <2>2, <3>2, CmdEnds
      <4> QED
        BY <1>0, <2>2, <3>2, <4>1 DEF optvars
    <3> QED
      BY <1>1, <3>1, <3>2 DEF ReadCommandLine
  <2> QED
    BY <2>1, <2>3 DEF InForce, Parsing
<1>2. CASE EndOptions
  <2>1. UNCHANGED <<calls, documented>> /\ pc = "options" /\ pc' = "store_init"
    BY <1>2 DEF EndOptions, cmdvars, cxxvars, Goto
  <2>2. CxxArgs(calls)' = options
    BY <2>1
  <2>3. \/ clang_opts'.items = Append(options, Null)
        \/ clang_opts'.items = options /\ ~Fits(clang_opts', 1)
    BY <1>2, <2>1 DEF EndOptions, array_append, InForce
  <2> QED
    BY <2>1, <2>2, <2>3 DEF InForce, Parsing, Fits
<1>3. CASE StoreInit \/ NextInput \/ ReadDir \/ CloseDir
  <2>1. /\ UNCHANGED <<calls, clang_opts, documented>> /\ pc \in {"store_init", "walk"}
        /\ pc' \in {"walk", "parse_cxx", "exited"}
    BY <1>3 DEF StoreInit, NextInput, ReadDir, CloseDir, process_input_path, process_input_file,
       OpenDir, Goto, FATAL, Exit, cmdvars, optvars, cxxvars
  <2>2. CxxArgs(calls)' = options
    BY <2>1
  <2> QED
    BY <2>1, <2>2 DEF InForce, Parsing, Fits
<1>4. CASE BuildArgs
  <2>1. /\ UNCHANGED <<calls, clang_opts, documented>> /\ pc = "parse_cxx"
        /\ pc' \in {"createIndex", "exited"}
    BY <1>4 DEF BuildArgs, Goto, FATAL, Exit, cmdvars, optvars
  <2>2. CxxArgs(calls)' = options
    BY <2>1
  <2>3. pc' = "createIndex" => args' = <<DefineDocbaker, Sysincdir>> \o options \o <<Null>>
    <3> SUFFICES ASSUME pc' = "createIndex"
                 PROVE  args' = <<DefineDocbaker, Sysincdir>> \o options \o <<Null>>
      OBVIOUS
    <3>1. /\ IsTerminated(clang_opts.items)
          /\ args' = <<DefineDocbaker, Sysincdir>> \o UpToNull(clang_opts.items) \o <<Null>>
      BY <1>4 DEF BuildArgs, FATAL, Exit
    <3>2. clang_opts.items = Append(options, Null) \/ clang_opts.items = options
      BY <2>1 DEF InForce, Parsing
    <3>3. UpToNull(clang_opts.items) = options
      BY <1>0, <3>1, <3>2, TerminatedBefore
    <3> QED
      BY <3>1, <3>3
  <2> QED
    BY <2>1, <2>2, <2>3 DEF InForce, Parsing, Fits
<1>5. CASE CreateIndex \/ ParseTranslationUnit \/ DisposeIndex
  <2>1. /\ UNCHANGED <<calls, clang_opts, args, documented>>
        /\ \/ pc = "createIndex" /\ pc' \in {"parseTranslationUnit", "err_createIndex"}
           \/ pc = "parseTranslationUnit" /\ pc' \in {"visit", "err_parseTranslationUnit2"}
           \/ pc = "err_parseTranslationUnit2" /\ pc' = "err_createIndex"
    BY <1>5 DEF CreateIndex, ParseTranslationUnit, DisposeIndex, Goto, cmdvars, optvars
  <2>2. CxxArgs(calls)' = options
    BY <2>1
  <2> QED
    BY <2>1, <2>2 DEF InForce, Parsing, Fits
<1>6. CASE VisitChildren
  <2>1. /\ UNCHANGED <<calls, clang_opts, args>> /\ pc = "visit" /\ pc' = "err_parseTranslationUnit2"
        /\ documented' = documented \cup {[at |-> file, args |-> SubSeq(args, 1, Len(args) - 1)]}
    BY <1>6 DEF VisitChildren, Goto, cmdvars, optvars
  <2>2. CxxArgs(calls)' = options
    BY <2>1
  <2>3. args = <<DefineDocbaker, Sysincdir>> \o options \o <<Null>>
    BY <2>1 DEF InForce
  <2>4. SubSeq(args, 1, Len(args) - 1) = <<DefineDocbaker, Sysincdir>> \o options
    BY <1>0, <2>3, ArgsBeforeNull
  <2>5. \A d \in documented' : d.args = <<DefineDocbaker, Sysincdir>> \o options
    BY <2>1, <2>4 DEF InForce
  <2>6. /\ Whole(options)
        /\ \/ clang_opts.items = Append(options, Null)
           \/ clang_opts.items = options /\ ~Fits(clang_opts, 1)
    BY <2>1 DEF InForce, Parsing
  <2>7. Fits(clang_opts, 1)' <=> Fits(clang_opts, 1)
    BY <2>1 DEF Fits
  <2> QED
    BY <2>1, <2>2, <2>5, <2>6, <2>7 DEF InForce, Parsing
<1>7. CASE FileProcessed
  <2>1. /\ UNCHANGED <<calls, clang_opts, documented>> /\ pc = "err_createIndex" /\ pc' = "walk"
    BY <1>7 DEF FileProcessed, Goto, cmdvars, optvars
  <2>2. CxxArgs(calls)' = options
    BY <2>1
  <2> QED
    BY <2>1, <2>2 DEF InForce, Parsing, Fits
<1>8. CASE InputsDone \/ GenHtml \/ OpenJson \/ WriteJson \/ CloseJson \/ StoreFini
  <2>1. /\ UNCHANGED <<calls, documented>>
        /\ pc' \in {"gen_html", "gen_json", "dump", "store_fini", "exited"}
    BY <1>8 DEF InputsDone, GenHtml, OpenJson, WriteJson, CloseJson, StoreFini, Goto, FATAL, Exit,
       cmdvars, cxxvars
  <2>2. CxxArgs(calls)' = options
    BY <2>1
  <2> QED
    BY <2>1, <2>2 DEF InForce, Parsing
<1>9. CASE UNCHANGED vars
  <2>1. UNCHANGED <<calls, clang_opts, documented, args, pc>>
    BY <1>9 DEF vars, cmdvars, optvars, cxxvars
  <2>2. CxxArgs(calls)' = options
    BY <2>1
  <2> QED
    BY <2>1, <2>2 DEF InForce, Parsing, Fits
<1> QED
  BY <1>1, <1>2, <1>3, <1>4, <1>5, <1>6, <1>7, <1>8, <1>9 DEF Next

(* libclang gets every -D, -I and -isystem of the command line and nothing *)
(* else behind the two options of docbaker's own, and the loop that copies *)
(* them finds its NULL unless there was no room to store it.               *)
THEOREM OptionsReachLibclang == Spec => []OptionsInForce
<1>1. InForce => OptionsInForce
  <2> SUFFICES ASSUME InForce PROVE OptionsInForce
    OBVIOUS
  <2>1. ASSUME pc = "parse_cxx", ~IsTerminated(clang_opts.items)
        PROVE  ~Fits(clang_opts, 1)
    <3>1. IsTerminated(Append(CxxArgs(calls), Null))
      BY TerminatedBefore DEF InForce
    <3> QED
      BY <2>1, <3>1 DEF InForce, Parsing
  <2> QED
    BY <2>1 DEF InForce, OptionsInForce
<1> QED
  BY <1>1, InForceStarts, InForceKept, Invariance, PTL DEF Spec

-----------------------------------------------------------------------------
(* Paths *)

LEMMA PathFacts ==
  ASSUME NEW p \in Seq(Name)
  PROVE  Len(p) \in Nat /\ DOMAIN p = 1 .. Len(p) /\ \A k \in 1 .. Len(p) : p[k] \in Name
BY LenProperties, ElementOfSeq

LEMMA PathAppend ==
  ASSUME NEW p \in Seq(Name), NEW e \in Name
  PROVE  /\ Append(p, e) \in Seq(Name) /\ Len(Append(p, e)) = Len(p) + 1
         /\ Append(p, e)[Len(p) + 1] = e
         /\ \A k \in 1 .. Len(p) : Append(p, e)[k] = p[k]
BY AppendProperties, LenProperties

(* A prefix agrees with the path name by name.                             *)
Starts(p, q) == Len(p) <= Len(q) /\ \A k \in 1 .. Len(p) : p[k] = q[k]

LEMMA PrefixStarts ==
  ASSUME NEW p \in Seq(Name), NEW q \in Seq(Name)
  PROVE  IsPrefix(p, q) <=> Starts(p, q)
<1>1. Len(p) \in Nat /\ Len(q) \in Nat /\ p = [k \in 1 .. Len(p) |-> p[k]]
  BY PathFacts
<1>2. SubSeq(q, 1, Len(p)) = [k \in 1 .. Len(p) |-> q[k]] \/ ~ (Len(p) <= Len(q))
  BY <1>1
<1>3. ASSUME IsPrefix(p, q) PROVE Starts(p, q)
  <2>1. Len(p) <= Len(q) /\ p = [k \in 1 .. Len(p) |-> q[k]]
    BY <1>2, <1>3 DEF IsPrefix
  <2> QED
    BY <2>1 DEF Starts
<1>4. ASSUME Starts(p, q) PROVE IsPrefix(p, q)
  <2>1. Len(p) <= Len(q) /\ [k \in 1 .. Len(p) |-> p[k]] = [k \in 1 .. Len(p) |-> q[k]]
    BY <1>4 DEF Starts
  <2> QED
    BY <1>1, <1>2, <2>1 DEF IsPrefix
<1> QED
  BY <1>3, <1>4

(* A path below q + e goes through q and then takes e.                     *)
LEMMA BelowEntry ==
  ASSUME NEW q \in Seq(Name), NEW e \in Name, NEW p \in Seq(Name)
  PROVE  IsPrefix(Append(q, e), p) <=>
           IsPrefix(q, p) /\ Len(q) + 1 <= Len(p) /\ p[Len(q) + 1] = e
<1> DEFINE N == Len(q)
           qe == Append(q, e)
<1>1. /\ N \in Nat /\ Len(p) \in Nat /\ qe \in Seq(Name) /\ Len(qe) = N + 1 /\ qe[N + 1] = e
      /\ \A k \in 1 .. N : qe[k] = q[k]
  BY PathFacts, PathAppend
<1>2. (IsPrefix(qe, p) <=> Starts(qe, p)) /\ (IsPrefix(q, p) <=> Starts(q, p))
  BY <1>1, PrefixStarts
<1> HIDE DEF qe
<1>3. ASSUME Starts(qe, p)
      PROVE  Starts(q, p) /\ N + 1 <= Len(p) /\ p[N + 1] = e
  BY <1>1, <1>3 DEF Starts
<1>4. ASSUME Starts(q, p), N + 1 <= Len(p), p[N + 1] = e
      PROVE  Starts(qe, p)
  <2>1. ASSUME NEW k \in 1 .. N + 1
        PROVE  qe[k] = p[k]
    <3>1. CASE k = N + 1
      BY <1>1, <1>4, <3>1
    <3>2. CASE k \in 1 .. N
      BY <1>1, <1>4, <3>2 DEF Starts
    <3> QED
      BY <1>1, <3>1, <3>2
  <2> QED
    BY <1>1, <1>4, <2>1 DEF Starts
<1> QED
  BY <1>2, <1>3, <1>4 DEF qe

LEMMA PrefixSame ==
  ASSUME NEW q \in Seq(Name), NEW p \in Seq(Name), IsPrefix(q, p), Len(q) = Len(p)
  PROVE  q = p
<1>1. Starts(q, p)
  BY PrefixStarts
<1>2. q = [k \in 1 .. Len(q) |-> q[k]] /\ p = [k \in 1 .. Len(p) |-> p[k]]
  BY PathFacts
<1> QED
  BY <1>1, <1>2 DEF Starts

LEMMA PrefixSelf ==
  ASSUME NEW p \in Seq(Name)
  PROVE  IsPrefix(p, p)
BY PrefixStarts, PathFacts DEF Starts

(* What lies before Append(r, x) and is no longer than r lies before r.    *)
LEMMA PrefixOfParent ==
  ASSUME NEW q \in Seq(Name), NEW r \in Seq(Name), NEW x \in Name,
         IsPrefix(q, Append(r, x)), Len(q) <= Len(r)
  PROVE  IsPrefix(q, r)
<1>1. /\ Len(q) \in Nat /\ Len(r) \in Nat /\ Append(r, x) \in Seq(Name)
      /\ \A k \in 1 .. Len(r) : Append(r, x)[k] = r[k]
  BY PathFacts, PathAppend
<1>2. Starts(q, Append(r, x))
  BY <1>1, PrefixStarts
<1>3. Starts(q, r)
  BY <1>1, <1>2 DEF Starts
<1> QED
  BY <1>3, PrefixStarts

LEMMA PrefixShorter ==
  ASSUME NEW q, NEW p, IsPrefix(q, p)
  PROVE  Len(q) <= Len(p)
BY DEF IsPrefix

(* Down to a header every path is a directory that holds the next name.    *)
LEMMA OnTheWay ==
  ASSUME NEW root, NEW q \in Seq(Name), NEW p \in Seq(Name), q # <<>>,
         IsHeaderBelow(root, p), IsPrefix(q, p)
  PROVE  \/ q = p /\ ~path_is_dir(q)
         \/ /\ path_is_dir(q) /\ Len(q) + 1 <= Len(p)
            /\ p[Len(q) + 1] \in Entries[Target(q)]
<1> DEFINE N == Len(q)
<1>1. N \in Nat /\ N # 0 /\ Len(p) \in Nat /\ N <= Len(p) /\ q = SubSeq(p, 1, N)
  BY PathFacts, EmptySeq DEF IsPrefix
<1>2. CASE N = Len(p)
  BY <1>2, PrefixSame DEF IsHeaderBelow
<1>3. CASE N < Len(p)
  <2>1. N + 1 \in 2 .. Len(p) /\ (N + 1) - 1 = N
    BY <1>1, <1>3
  <2> DEFINE d(k) == SubSeq(p, 1, k - 1)
  <2>2. \A k \in 2 .. Len(p) : path_is_dir(d(k)) /\ p[k] \in Entries[Target(d(k))]
    BY Zenon DEF IsHeaderBelow, IsPathBelow
  <2>3. d(N + 1) = q
    BY <1>1, <2>1
  <2> HIDE DEF d
  <2>4. path_is_dir(d(N + 1)) /\ p[N + 1] \in Entries[Target(d(N + 1))]
    BY <2>1, <2>2
  <2> QED
    BY <1>1, <1>3, <2>3, <2>4
<1> QED
  BY <1>1, <1>2, <1>3

LEMMA DownOne ==
  ASSUME NEW root, NEW q \in Seq(Name), NEW e \in Name, IsPathBelow(root, q),
         path_is_dir(q), e \in Entries[Target(q)]
  PROVE  IsPathBelow(root, Append(q, e))
<1> DEFINE N == Len(q)
           p == Append(q, e)
<1>1. /\ N \in Nat /\ p \in Seq(Name) /\ Len(p) = N + 1 /\ p[N + 1] = e
      /\ \A k \in 1 .. N : p[k] = q[k]
  BY PathFacts, PathAppend
<1>2. N # 0 /\ q[1] = root
  BY EmptySeq, PathFacts DEF IsPathBelow
<1>3. p # <<>> /\ p[1] = root
  BY <1>1, <1>2
<1>4. \A k \in 2 .. N + 1 : SubSeq(p, 1, k - 1) = SubSeq(q, 1, k - 1)
  <2> SUFFICES ASSUME NEW k \in 2 .. N + 1
               PROVE  SubSeq(p, 1, k - 1) = SubSeq(q, 1, k - 1)
    OBVIOUS
  <2> HIDE DEF p
  <2>1. k - 1 \in 1 .. N /\ \A j \in 1 .. k - 1 : j \in 1 .. N
    BY <1>1
  <2>2. /\ SubSeq(p, 1, k - 1) = [j \in 1 .. k - 1 |-> p[j]]
        /\ SubSeq(q, 1, k - 1) = [j \in 1 .. k - 1 |-> q[j]]
    BY <1>1, <2>1
  <2> QED
    BY <1>1, <2>1, <2>2
<1>5. SubSeq(q, 1, N) = q
  BY <1>1, PathFacts
<1>6. ASSUME NEW k \in 2 .. N + 1
      PROVE  path_is_dir(SubSeq(p, 1, k - 1)) /\ p[k] \in Entries[Target(SubSeq(p, 1, k - 1))]
  <2> HIDE DEF p
  <2>1. CASE k = N + 1
    <3>1. k - 1 = N
      BY <1>1, <2>1
    <3>2. SubSeq(p, 1, k - 1) = q
      BY <1>4, <1>5, <3>1
    <3> QED
      BY <1>1, <2>1, <3>2
  <2>2. CASE k \in 2 .. N
    <3>1. path_is_dir(SubSeq(q, 1, k - 1)) /\ q[k] \in Entries[Target(SubSeq(q, 1, k - 1))]
      BY <2>2, Zenon DEF IsPathBelow
    <3>2. p[k] = q[k]
      BY <1>1, <2>2
    <3> QED
      BY <1>4, <3>1, <3>2
  <2> QED
    BY <1>1, <2>1, <2>2
<1> HIDE DEF p
<1>7. \A k \in 2 .. Len(p) :
        LET dir == SubSeq(p, 1, k - 1)
        IN path_is_dir(dir) /\ p[k] \in Entries[Target(dir)]
  BY <1>1, <1>6
<1>8. IsPathBelow(root, p)
  BY <1>3, <1>7 DEF IsPathBelow
<1> QED
  BY <1>8 DEF p

LEMMA InputIsPath ==
  ASSUME NEW root \in Name
  PROVE  <<root>> \in Seq(Name) /\ Len(<<root>>) = 1 /\ IsPathBelow(root, <<root>>)
BY DEF IsPathBelow

-----------------------------------------------------------------------------
(* The stack of directories *)

(* A path is pending if an entry that is still to be read leads to it.     *)
Pending(ds, p) ==
  \E k \in 1 .. Len(ds) : \E e \in ds[k].left : IsPrefix(Append(ds[k].path, e), p)

(* The stack is the way from an input down, and no directory on it lies    *)
(* below an entry that another one has left.                               *)
Located(ds, root) ==
  /\ ds \in Seq(Dir)
  /\ \A k \in 1 .. Len(ds) :
       /\ Len(ds[k].path) = k
       /\ path_is_dir(ds[k].path) /\ IsPathBelow(root, ds[k].path)
       /\ ds[k].left \subseteq Entries[Target(ds[k].path)] \cup {Dot, DotDot}
       /\ ~Pending(ds, ds[k].path)

LEMMA StackFacts ==
  ASSUME NEW ds \in Seq(Dir)
  PROVE  /\ Len(ds) \in Nat /\ DOMAIN ds = 1 .. Len(ds)
         /\ \A k \in 1 .. Len(ds) : ds[k] \in Dir /\ ds[k].path \in Seq(Name)
                                    /\ ds[k].left \subseteq Name
<1>1. Len(ds) \in Nat /\ DOMAIN ds = 1 .. Len(ds) /\ \A k \in 1 .. Len(ds) : ds[k] \in Dir
  BY LenProperties, ElementOfSeq
<1> QED
  BY <1>1 DEF Dir

(* What ReadDir makes of the stack when it takes an entry.                 *)
Took(ds, name, stack) ==
  /\ stack \in Seq(Dir) /\ Len(stack) = Len(ds)
  /\ \A k \in 1 .. Len(ds) :
       /\ stack[k].path = ds[k].path
       /\ stack[k].left = IF k = Len(ds) THEN ds[k].left \ {name} ELSE ds[k].left

LEMMA Takes ==
  ASSUME NEW ds \in Seq(Dir), ds # <<>>, NEW name
  PROVE  Took(ds, name, [ds EXCEPT ![Len(ds)].left = @ \ {name}])
<1> DEFINE N == Len(ds)
           d == ds[N]
           e == [d EXCEPT !.left = d.left \ {name}]
           stack == [ds EXCEPT ![N] = e]
<1>1. N \in Nat /\ N >= 1 /\ DOMAIN ds = 1 .. N /\ ds \in [1 .. N -> Dir]
  BY StackFacts, EmptySeq
<1>2. d \in Dir
  BY <1>1
<1>3. e \in Dir /\ e.path = d.path /\ e.left = d.left \ {name}
  BY <1>2 DEF Dir
<1>4. [ds EXCEPT ![Len(ds)].left = @ \ {name}] = stack
  OBVIOUS
<1>5. Took(ds, name, stack)
  <2> HIDE DEF e, N
  <2>1. stack \in [1 .. N -> Dir]
    BY <1>1, <1>3
  <2>2. stack \in Seq(Dir) /\ Len(stack) = N
    BY <1>1, <2>1
  <2>3. ASSUME NEW k \in 1 .. N
        PROVE  /\ stack[k].path = ds[k].path
               /\ stack[k].left = IF k = N THEN ds[k].left \ {name} ELSE ds[k].left
    <3>1. CASE k = N
      <4>1. stack[k] = e
        BY <1>1, <3>1
      <4> QED
        BY <1>3, <3>1, <4>1
    <3>2. CASE k # N
      BY <1>1, <3>2
    <3> QED
      BY <3>1, <3>2
  <2> HIDE DEF stack
  <2> QED
    BY <2>2, <2>3 DEF Took, N
<1> HIDE DEF stack
<1> QED
  BY <1>4, <1>5, Zenon

LEMMA TakenEntry ==
  ASSUME NEW ds, NEW root, Located(ds, root), ds # <<>>, NEW name \in ds[Len(ds)].left,
         NEW stack, Took(ds, name, stack)
  PROVE  LET q == Append(ds[Len(ds)].path, name)
         IN /\ Located(stack, root) /\ ~Pending(stack, q)
            /\ \A p \in Seq(Name) :
                 /\ Pending(stack, p) => Pending(ds, p)
                 /\ Pending(ds, p) => Pending(stack, p) \/ IsPrefix(q, p)
                 /\ IsPrefix(q, p) => Pending(ds, p)
<1> DEFINE N == Len(ds)
           r == ds[N].path
           q == Append(r, name)
<1>1. /\ ds \in Seq(Dir) /\ N \in Nat /\ N \in 1 .. N
      /\ \A k \in 1 .. N : ds[k].path \in Seq(Name) /\ ds[k].left \subseteq Name
      /\ \A k \in 1 .. N : Len(ds[k].path) = k
  BY StackFacts, EmptySeq DEF Located
<1>2. r \in Seq(Name) /\ Len(r) = N /\ name \in Name
  BY <1>1
<1>3. q \in Seq(Name) /\ Len(q) = N + 1 /\ q[N + 1] = name
  BY <1>2, PathAppend
<1>4. /\ Len(stack) = N /\ stack \in Seq(Dir)
      /\ \A k \in 1 .. N : stack[k].path = ds[k].path /\ stack[k].left \subseteq ds[k].left
      /\ \A k \in 1 .. N : \A e \in ds[k].left : e \in stack[k].left \/ (k = N /\ e = name)
      /\ name \notin stack[N].left
  BY <1>1 DEF Took
<1> HIDE DEF N, q, r
<1>5. \A p \in Seq(Name) : Pending(stack, p) => Pending(ds, p)
  BY <1>4 DEF Pending, N
<1>6. \A p \in Seq(Name) : Pending(ds, p) => Pending(stack, p) \/ IsPrefix(q, p)
  BY <1>4 DEF Pending, N, q, r
<1>7. \A p \in Seq(Name) : IsPrefix(q, p) => Pending(ds, p)
  BY <1>1 DEF Pending, N, q, r
<1>8. ~Pending(stack, q)
  <2> SUFFICES ASSUME NEW k \in 1 .. N, NEW e \in stack[k].left, IsPrefix(Append(ds[k].path, e), q)
               PROVE  FALSE
    BY <1>4 DEF Pending
  <2>1. e \in ds[k].left /\ e \in Name /\ ds[k].path \in Seq(Name) /\ Len(ds[k].path) = k
    BY <1>1, <1>4
  <2>2. Append(ds[k].path, e) \in Seq(Name) /\ Len(Append(ds[k].path, e)) = k + 1
    BY <2>1, PathAppend
  <2>3. CASE k = N
    <3>1. q[k + 1] = e
      BY <1>3, <2>1, BelowEntry
    <3> QED
      BY <1>3, <1>4, <2>3, <3>1
  <2>4. CASE k # N
    <3>1. Len(Append(ds[k].path, e)) <= Len(r)
      BY <1>1, <1>2, <2>2, <2>4
    <3>2. IsPrefix(Append(ds[k].path, e), r)
      BY <1>2, <2>2, <3>1, PrefixOfParent DEF q
    <3>3. Pending(ds, r)
      BY <2>1, <3>2 DEF Pending, N
    <3> QED
      BY <1>1, <3>3 DEF Located, N, r
  <2> QED
    BY <2>3, <2>4
<1>9. Located(stack, root)
  <2>1. \A k \in 1 .. N : ds[k].path \in Seq(Name) /\ ~Pending(ds, ds[k].path)
    BY <1>1 DEF Located, N
  <2>2. \A k \in 1 .. N : ~Pending(stack, stack[k].path)
    BY <1>4, <1>5, <2>1
  <2> QED
    BY <1>4, <2>2 DEF Located, N
<1> QED
  BY <1>5, <1>6, <1>7, <1>8, <1>9 DEF q, r, N

LEMMA PushedDir ==
  ASSUME NEW stack, NEW root, Located(stack, root), NEW q \in Seq(Name),
         Len(q) = Len(stack) + 1, path_is_dir(q), IsPathBelow(root, q), ~Pending(stack, q),
         NEW d \in Dir, d.path = q, d.left = Entries[Target(q)] \cup {Dot, DotDot}
  PROVE  /\ Located(Append(stack, d), root)
         /\ \A p \in Seq(Name) :
              Pending(Append(stack, d), p) <=>
                Pending(stack, p) \/ \E e \in d.left : IsPrefix(Append(q, e), p)
<1> DEFINE N == Len(stack)
           es == Append(stack, d)
<1>1. stack \in Seq(Dir) /\ N \in Nat
      /\ \A k \in 1 .. N : stack[k].path \in Seq(Name) /\ Len(stack[k].path) = k
  BY StackFacts DEF Located
<1>2. /\ es \in Seq(Dir) /\ Len(es) = N + 1 /\ es[N + 1] = d
      /\ \A k \in 1 .. N : es[k] = stack[k]
  BY <1>1, AppendProperties
<1>3. d.left \subseteq Name
  BY DEF Dir
<1> HIDE DEF es, N
<1>4. \A k \in 1 .. N + 1 : k = N + 1 \/ k \in 1 .. N
  BY <1>1
<1>5. N + 1 \in 1 .. N + 1 /\ 1 .. N \subseteq 1 .. N + 1
  BY <1>1
<1>6. \A p \in Seq(Name) :
        Pending(es, p) <=> Pending(stack, p) \/ \E e \in d.left : IsPrefix(Append(q, e), p)
  BY <1>2, <1>4, <1>5 DEF Pending, N
<1>7. \A p \in Seq(Name) : \A e \in d.left : Len(p) <= N + 1 => ~IsPrefix(Append(q, e), p)
  <2> SUFFICES ASSUME NEW p \in Seq(Name), NEW e \in d.left, IsPrefix(Append(q, e), p)
               PROVE  ~ (Len(p) <= N + 1)
    OBVIOUS
  <2>1. Len(q) + 1 <= Len(p)
    BY <1>3, BelowEntry
  <2>2. Len(p) \in Nat /\ Len(q) = N + 1
    BY PathFacts DEF N
  <2> QED
    BY <1>1, <2>1, <2>2
<1>8. ASSUME NEW k \in 1 .. N + 1
      PROVE  /\ Len(es[k].path) = k
             /\ path_is_dir(es[k].path) /\ IsPathBelow(root, es[k].path)
             /\ es[k].left \subseteq Entries[Target(es[k].path)] \cup {Dot, DotDot}
             /\ ~Pending(es, es[k].path)
  <2>1. CASE k = N + 1
    <3>1. es[k].path = q /\ es[k].left = d.left /\ Len(q) = N + 1
      BY <1>2, <2>1 DEF N
    <3>2. ~Pending(es, q)
      BY <1>1, <1>6, <1>7, <3>1
    <3> QED
      BY <2>1, <3>1, <3>2
  <2>2. CASE k \in 1 .. N
    <3>1. es[k] = stack[k]
      BY <1>2, <2>2
    <3>2. stack[k].path \in Seq(Name) /\ Len(stack[k].path) = k /\ k <= N + 1
      BY <1>1, <2>2
    <3>3. /\ ~Pending(stack, stack[k].path)
          /\ path_is_dir(stack[k].path) /\ IsPathBelow(root, stack[k].path)
          /\ stack[k].left \subseteq Entries[Target(stack[k].path)] \cup {Dot, DotDot}
      BY <2>2 DEF Located, N
    <3>4. ~Pending(es, stack[k].path)
      BY <1>6, <1>7, <3>2, <3>3
    <3> QED
      BY <3>1, <3>2, <3>3, <3>4
  <2> QED
    BY <1>4, <2>1, <2>2
<1>9. Located(es, root)
  BY <1>2, <1>8 DEF Located
<1> QED
  BY <1>6, <1>9 DEF es

LEMMA PoppedDir ==
  ASSUME NEW ds, NEW root, Located(ds, root), ds # <<>>
  PROVE  LET es == SubSeq(ds, 1, Len(ds) - 1)
         IN /\ Located(es, root)
            /\ \A p \in Seq(Name) :
                 /\ Pending(es, p) => Pending(ds, p)
                 /\ Pending(ds, p) =>
                      Pending(es, p) \/ (ds[Len(ds)].left # {} /\ IsPrefix(ds[Len(ds)].path, p))
<1> DEFINE N == Len(ds)
           es == SubSeq(ds, 1, N - 1)
<1>1. ds \in Seq(Dir) /\ N \in Nat /\ N >= 1 /\ N - 1 \in Nat
      /\ \A k \in 1 .. N : ds[k] \in Dir /\ ds[k].path \in Seq(Name) /\ ds[k].left \subseteq Name
  BY StackFacts, EmptySeq DEF Located
<1>2. \A k \in 1 .. N - 1 : k \in 1 .. N
  BY <1>1
<1>3. /\ es \in Seq(Dir) /\ Len(es) = N - 1
      /\ \A k \in 1 .. N - 1 : es[k] = ds[k]
  <2>1. es = [k \in 1 .. N - 1 |-> ds[k]]
    BY <1>1
  <2> HIDE DEF es, N
  <2>2. es \in [1 .. N - 1 -> Dir]
    BY <1>1, <1>2, <2>1
  <2> QED
    BY <1>1, <2>1, <2>2
<1> HIDE DEF es, N
<1>4. \A p \in Seq(Name) : Pending(es, p) => Pending(ds, p)
  BY <1>2, <1>3 DEF Pending, N
<1>5. \A p \in Seq(Name) :
        Pending(ds, p) => Pending(es, p) \/ (ds[N].left # {} /\ IsPrefix(ds[N].path, p))
  <2> SUFFICES ASSUME NEW p \in Seq(Name), NEW k \in 1 .. N, NEW e \in ds[k].left,
                      IsPrefix(Append(ds[k].path, e), p)
               PROVE  Pending(es, p) \/ (ds[N].left # {} /\ IsPrefix(ds[N].path, p))
    BY DEF Pending, N
  <2>1. CASE k = N
    BY <1>1, <2>1, BelowEntry
  <2>2. CASE k # N
    <3>1. k \in 1 .. N - 1
      BY <1>1, <2>2
    <3> QED
      BY <1>3, <3>1 DEF Pending
  <2> QED
    BY <2>1, <2>2
<1>6. Located(es, root)
  <2>1. \A k \in 1 .. N - 1 :
          /\ Len(ds[k].path) = k
          /\ path_is_dir(ds[k].path) /\ IsPathBelow(root, ds[k].path)
          /\ ds[k].left \subseteq Entries[Target(ds[k].path)] \cup {Dot, DotDot}
          /\ ~Pending(ds, ds[k].path) /\ ds[k].path \in Seq(Name)
    BY <1>1, <1>2 DEF Located, N
  <2>2. \A k \in 1 .. N - 1 : ~Pending(es, ds[k].path)
    BY <1>4, <2>1
  <2> QED
    BY <1>3, <2>1, <2>2 DEF Located
<1> QED
  BY <1>4, <1>5, <1>6 DEF es, N

(* What process_input_path() makes of a path: a directory leaves every     *)
(* header below it pending, a header goes to parse_cxx().                  *)
LEMMA PathWalked ==
  ASSUME NEW stack, NEW root, Located(stack, root), NEW q \in Seq(Name), q # <<>>,
         Len(q) = Len(stack) + 1, IsPathBelow(root, q), ~Pending(stack, q),
         process_input_path(q, stack), pc' # "exited"
  PROVE  /\ Located(dirs', root)
         /\ \A p \in Seq(Name) : Pending(dirs', p) => Pending(stack, p) \/ IsPrefix(q, p)
         /\ \A p \in Seq(Name) : Pending(stack, p) => Pending(dirs', p)
         /\ \A p \in Seq(Name) :
              IsHeaderBelow(root, p) /\ IsPrefix(q, p) =>
                Pending(dirs', p) \/ (pc' = "parse_cxx" /\ file' = [input |-> input', path |-> p])
         /\ pc' \in {"walk", "parse_cxx"}
         /\ pc' = "parse_cxx" =>
              /\ file' = [input |-> input', path |-> q] /\ dirs' = stack
              /\ IsHeaderBelow(root, q)
<1>1. CASE OpenDir(q, stack)
  <2> DEFINE d == [path |-> q, left |-> Entries[Target(q)] \cup {Dot, DotDot}]
  <2>1. path_is_dir(q) /\ dirs' = Append(stack, d) /\ pc' = "walk"
    BY <1>1 DEF OpenDir, FATAL, Exit, Goto
  <2>2. d \in Dir /\ d.path = q /\ d.left = Entries[Target(q)] \cup {Dot, DotDot}
    BY <2>1 DEF Dir, Name, path_is_dir
  <2> HIDE DEF d
  <2>3. /\ Located(Append(stack, d), root)
        /\ \A p \in Seq(Name) :
             Pending(Append(stack, d), p) <=>
               Pending(stack, p) \/ \E e \in d.left : IsPrefix(Append(q, e), p)
    BY <2>1, <2>2, PushedDir
  <2>4. \A p \in Seq(Name) : \A e \in d.left : IsPrefix(Append(q, e), p) => IsPrefix(q, p)
    BY <2>2, BelowEntry DEF Dir
  <2>5. ASSUME NEW p \in Seq(Name), IsHeaderBelow(root, p), IsPrefix(q, p)
        PROVE  \E e \in d.left : IsPrefix(Append(q, e), p)
    <3>1. Len(q) + 1 <= Len(p) /\ p[Len(q) + 1] \in Entries[Target(q)]
      BY <2>1, <2>5, OnTheWay
    <3>2. p[Len(q) + 1] \in d.left /\ p[Len(q) + 1] \in Name
      BY <2>2, <3>1 DEF Dir
    <3>3. IsPrefix(Append(q, p[Len(q) + 1]), p)
      BY <2>5, <3>1, <3>2, BelowEntry
    <3> QED
      BY <3>2, <3>3
  <2> QED
    BY <2>1, <2>3, <2>4, <2>5
<1>2. CASE process_input_file(q, stack)
  <2>1. /\ ~path_is_dir(q) /\ dirs' = stack
        /\ \/ Basename(q) \in Headers /\ file' = [input |-> input', path |-> q] /\ pc' = "parse_cxx"
           \/ Basename(q) \notin Headers /\ pc' = "walk"
    BY <1>2 DEF process_input_file, Goto
  <2>2. ASSUME NEW p \in Seq(Name), IsHeaderBelow(root, p), IsPrefix(q, p)
        PROVE  p = q /\ Basename(q) \in Headers
    <3>1. p = q
      BY <2>1, <2>2, OnTheWay
    <3> QED
      BY <2>2, <3>1 DEF IsHeaderBelow
  <2>3. Basename(q) \in Headers => IsHeaderBelow(root, q)
    BY <2>1 DEF IsHeaderBelow
  <2> QED
    BY <2>1, <2>2, <2>3
<1> QED
  BY <1>1, <1>2 DEF process_input_path

-----------------------------------------------------------------------------
(* The set of all headers below an input *)

PathsBy(root, N, paths) ==
  paths = [n \in 1 .. N |->
             IF n = 1 THEN {<<root>>}
             ELSE UNION {{Append(p, e) : e \in Entries[Target(p)]} :
                           p \in {q \in paths[n - 1] : path_is_dir(q)}}]

LEMMA PathsExist ==
  ASSUME NEW root, NEW N \in Nat
  PROVE  \E paths : PathsBy(root, N, paths)
<1> DEFINE Bad == {n \in Nat : ~ \E paths : PathsBy(root, n, paths)}
<1> SUFFICES ASSUME Bad # {} PROVE FALSE
  OBVIOUS
<1>1. Bad \subseteq Nat
  OBVIOUS
<1>2. PICK n \in Bad : \A k \in Bad : n <= k
  <2> HIDE DEF Bad
  <2> QED
    BY <1>1, LeastNumber
<1>3. n # 0
  <2>1. 1 .. 0 = {}
    OBVIOUS
  <2>2. PathsBy(root, 0, [k \in 1 .. 0 |-> {}])
    BY <2>1, Zenon DEF PathsBy
  <2> QED
    BY <2>2
<1>4. PICK paths : PathsBy(root, n - 1, paths)
  BY <1>2, <1>3
<1> DEFINE Deeper(f, k) == IF k = 1 THEN {<<root>>}
                           ELSE UNION {{Append(p, e) : e \in Entries[Target(p)]} :
                                         p \in {q \in f[k - 1] : path_is_dir(q)}}
           P == [k \in 1 .. n |-> IF k = n THEN Deeper(paths, n) ELSE paths[k]]
<1>5. PathsBy(root, n, P)
  <2>1. \A k \in 1 .. n - 1 : paths[k] = Deeper(paths, k)
    BY <1>4, Zenon DEF PathsBy
  <2>2. ASSUME NEW k \in 1 .. n
        PROVE  P[k] = Deeper(P, k)
    <3>1. k = 1 \/ (k # 1 /\ k - 1 \in 1 .. n /\ k - 1 # n)
      BY <1>2
    <3>2. Deeper(P, k) = Deeper(paths, k)
      <4>1. CASE k = 1
        BY <4>1
      <4>2. CASE k # 1 /\ k - 1 \in 1 .. n /\ k - 1 # n
        <5>1. P[k - 1] = paths[k - 1]
          BY <4>2, Zenon
        <5> QED
          BY <5>1, Zenon
      <4> QED
        BY <3>1, <4>1, <4>2
    <3> HIDE DEF Deeper
    <3>3. CASE k = n
      BY <3>2, <3>3
    <3>4. CASE k # n
      <4>1. k \in 1 .. n - 1
        BY <1>2, <3>4
      <4> QED
        BY <2>1, <3>2, <3>4, <4>1
    <3> QED
      BY <3>3, <3>4
  <2>3. P = [k \in 1 .. n |-> P[k]]
    BY Zenon
  <2>4. P = [k \in 1 .. n |-> Deeper(P, k)]
    <3> HIDE DEF P, Deeper
    <3> QED
      BY <2>2, <2>3
  <2> QED
    BY <2>4, Zenon DEF PathsBy
<1> QED
  BY <1>2, <1>5

LEMMA DepthIsNat == MaxDepth \in Nat
<1>1. Cardinality(DOMAIN Entries) \in Nat /\ MaxLinks + 1 \in Nat
  BY DirsFinite, MaxLinksType, FS_CardinalityType
<1>2. \A a, b \in Nat : a * b + 1 \in Nat
  OBVIOUS
<1> QED
  BY <1>1, <1>2, Zenon DEF MaxDepth

LEMMA HeadersAre ==
  ASSUME NEW root \in Name, NEW p \in HeadersBelow(root)
  PROVE  p \in Seq(Name) /\ IsHeaderBelow(root, p)
<1> DEFINE f == CHOOSE paths : paths = [n \in 1 .. MaxDepth |->
             IF n = 1 THEN {<<root>>}
             ELSE UNION {{Append(q, e) : e \in Entries[Target(q)]} :
                           q \in {r \in paths[n - 1] : path_is_dir(r)}}]
<1>1. PathsBy(root, MaxDepth, f)
  <2>1. \E paths : PathsBy(root, MaxDepth, paths)
    BY PathsExist, DepthIsNat
  <2> QED
    BY <2>1, Zenon DEF PathsBy
<1>2. PICK N \in 1 .. MaxDepth : p \in f[N] /\ ~path_is_dir(p) /\ Basename(p) \in Headers
  BY DEF HeadersBelow
<1> HIDE DEF f
<1> DEFINE Good(n) == \A q \in f[n] : q \in Seq(Name) /\ IsPathBelow(root, q)
           Bad == {n \in 1 .. MaxDepth : ~Good(n)}
<1>3. Bad = {}
  <2> SUFFICES ASSUME Bad # {} PROVE FALSE
    OBVIOUS
  <2>1. Bad \subseteq Nat
    OBVIOUS
  <2>2. PICK n \in Bad : \A k \in Bad : n <= k
    <3> HIDE DEF Bad
    <3> QED
      BY <2>1, LeastNumber
  <2>3. n \in 1 .. MaxDepth /\ n \in Nat /\ ~Good(n)
    BY <2>1
  <2>4. f[n] = IF n = 1 THEN {<<root>>}
               ELSE UNION {{Append(q, e) : e \in Entries[Target(q)]} :
                             q \in {r \in f[n - 1] : path_is_dir(r)}}
    BY <1>1, <2>3, Zenon DEF PathsBy
  <2>5. n # 1
    <3>1. Good(n) \/ f[n] # {<<root>>}
      <4>1. <<root>> \in Seq(Name) /\ IsPathBelow(root, <<root>>)
        BY InputIsPath
      <4>2. ASSUME f[n] = {<<root>>}, NEW q \in f[n]
            PROVE  q = <<root>>
        BY <4>2
      <4> QED
        BY <4>1, <4>2
    <3> QED
      BY <2>3, <2>4, <3>1
  <2>6. n - 1 \in 1 .. MaxDepth /\ n - 1 \notin Bad
    <3>1. n - 1 \in 1 .. MaxDepth /\ ~ (n <= n - 1)
      BY <2>3, <2>5, DepthIsNat
    <3> QED
      BY <2>2, <3>1
  <2>7. Good(n - 1)
    BY <2>6
  <2>8. ASSUME NEW q \in f[n]
        PROVE  q \in Seq(Name) /\ IsPathBelow(root, q)
    <3>0. PICK r \in f[n - 1] : path_is_dir(r) /\ \E e \in Entries[Target(r)] : q = Append(r, e)
      BY <2>4, <2>5
    <3>1. PICK e \in Entries[Target(r)] : q = Append(r, e)
      BY <3>0
    <3>2. e \in Name
      BY <3>0, <3>1 DEF path_is_dir, Name
    <3>3. r \in Seq(Name) /\ IsPathBelow(root, r)
      BY <2>7
    <3> QED
      BY <3>0, <3>1, <3>2, <3>3, DownOne, PathAppend
  <2> QED
    BY <2>3, <2>8
<1>4. Good(N)
  BY <1>2, <1>3
<1> QED
  BY <1>2, <1>4 DEF IsHeaderBelow

-----------------------------------------------------------------------------
(* The invariant of the walk *)

Roots     == InputPaths(calls)
Walking   == pc = "walk" \/ Parsing \/ Outputting
Settled   == pc \in {"err_parseTranslationUnit2", "err_createIndex"}
At(n, p)  == [input |-> n, path |-> p]

(* The paths to walk are those of the calls.                               *)
Given ==
  /\ Roots \in Seq(Name)
  /\ pc \in {"options", "store_init", "walk"} \/ Parsing => argv_paths.items = Roots

(* The input that is being walked and the directories open below it.       *)
Place ==
  /\ input \in 0 .. Len(Roots)
  /\ dirs # <<>> \/ Parsing => input >= 1
  /\ Outputting => input = Len(Roots)
  /\ Located(dirs, Roots[input])

(* The header in parse_cxx(): it is handled just before the count.         *)
InHand ==
  Parsing =>
    /\ file = At(input, file.path) /\ file.path \in Seq(Name)
    /\ IsHeaderBelow(Roots[input], file.path) /\ ~Pending(dirs, file.path)
    /\ file \in Handled <=> Settled

(* What is handled is a header below an input, and nothing still to be     *)
(* read leads to it again.                                                 *)
SoFar ==
  \A h \in Handled :
    /\ h.input \in 1 .. input /\ h.path \in Seq(Name)
    /\ IsHeaderBelow(Roots[h.input], h.path)
    /\ h.input = input => ~Pending(dirs, h.path)

Cut(n, p) == \E t \in truncated : t.input = n /\ IsPrefix(t.path, p)

(* No header below the inputs begun so far is forgotten.                   *)
Accounted ==
  \A n \in 1 .. input : \A p \in Seq(Name) :
    IsHeaderBelow(Roots[n], p) =>
      \/ At(n, p) \in Handled \/ Cut(n, p)
      \/ Parsing /\ file = At(n, p)
      \/ n = input /\ Pending(dirs, p)

Counted ==
  /\ {d.at : d \in documented} \cap reported = {}
  /\ IsFiniteSet(Handled)
  /\ Cardinality(Handled) = n_processed_files + (IF Settled THEN 1 ELSE 0)

Searched == Walking => Place /\ InHand /\ SoFar /\ Accounted /\ Counted

LEMMA RootsFacts ==
  ASSUME Given
  PROVE  /\ Len(Roots) \in Nat /\ DOMAIN Roots = 1 .. Len(Roots)
         /\ \A n \in 1 .. Len(Roots) : Roots[n] \in Name
BY LenProperties, ElementOfSeq DEF Given

LEMMA GivenStarts == Init => Given
<1> SUFFICES ASSUME Init PROVE Given
  OBVIOUS
<1>1. Roots = <<>> /\ argv_paths.items = <<>>
  BY NothingGathered DEF Init, Cmd!Init, EmptyArray, Roots, InputPaths
<1>2. <<>> \in Seq(Name)
  BY EmptySeq
<1> QED
  BY <1>1, <1>2 DEF Init, Given

LEMMA CallbackGiven ==
  ASSUME Cmd!TypeOK, NEW c \in CallRecord, calls' = Append(calls, c),
         cmdline_callback(c), pc = "options", Given
  PROVE  Roots' \in Seq(Name) /\ (pc' = "options" => argv_paths'.items = Roots')
<1>1. Roots' = Roots \o PathWords(c)
  BY InputPathsGrow DEF Roots
<1>2. argv_paths.items = Roots /\ Roots \in Seq(Name)
  BY DEF Given
<1>3. CASE c.id = "NONE"
  <2>1. PathWords(c) = <<c.arg>> /\ c.arg \in Name
    BY <1>3 DEF PathWords, CallRecord, Name, Item
  <2>2. Roots \o <<c.arg>> = Append(Roots, c.arg) /\ Append(Roots, c.arg) \in Seq(Name)
    BY <1>2, <2>1, AppendIsConcat, AppendProperties
  <2>3. pc' = "options" => argv_paths'.items = Append(argv_paths.items, c.arg)
    BY <1>3 DEF cmdline_callback, CxxOption, HtmlOption, JsonOption, DryRunOption, OtherOption,
       HelpOrVersion, InputPath, BadOption, array_append, FATAL, Exit
  <2> QED
    BY <1>1, <1>2, <2>1, <2>2, <2>3
<1>4. CASE c.id # "NONE"
  <2>1. UNCHANGED argv_paths
    BY <1>4 DEF cmdline_callback, CxxOption, HtmlOption, JsonOption, DryRunOption, OtherOption,
       HelpOrVersion, InputPath, BadOption, optvars
  <2>2. PathWords(c) = <<>> /\ Roots \o <<>> = Roots
    BY <1>2, <1>4, ConcatEmptySeq DEF PathWords
  <2> QED
    BY <1>1, <1>2, <2>1, <2>2
<1> QED
  BY <1>3, <1>4

(* After the command line nothing changes the paths that were asked for.   *)
LEMMA RootsKept ==
  ASSUME Next, ~ReadCommandLine
  PROVE  UNCHANGED Roots
<1>1. UNCHANGED calls
  BY DEF Next, EndOptions, StoreInit, NextInput, ReadDir, CloseDir, BuildArgs, CreateIndex,
     ParseTranslationUnit, VisitChildren, DisposeIndex, FileProcessed, InputsDone, GenHtml,
     OpenJson, WriteJson, CloseJson, StoreFini, cmdvars
<1> QED
  BY <1>1 DEF Roots

LEMMA GivenKept ==
  ASSUME IInv, Given, [Next]_vars
  PROVE  Given'
<1>1. CASE ReadCommandLine
  <2>1. pc = "options" /\ pc' \in {"options", "exited"}
    BY <1>1 DEF ReadCommandLine, cmdline_callback, CxxOption, HtmlOption, JsonOption, DryRunOption,
       OtherOption, HelpOrVersion, InputPath, BadOption, Goto, FATAL, Exit
  <2>2. Cmd!TypeOK
    BY DEF IInv, Types
  <2>3. CASE Cmd!Deliver(0) /\ cmdline_callback(calls'[Len(calls')])
    <3>1. PICK c \in CallRecord : calls' = Append(calls, c)
      BY <2>2, <2>3, CmdDelivers
    <3>2. calls'[Len(calls')] = c
      BY <2>2, <3>1, CallsGrow
    <3> QED
      BY <2>1, <2>2, <2>3, <3>1, <3>2, CallbackGiven DEF Given, Parsing
  <2>4. CASE Cmd!EndOfOptions /\ UNCHANGED optvars
    <3>1. UNCHANGED calls
      BY <2>2, <2>4, CmdEnds
    <3>2. UNCHANGED Roots
      BY <3>1 DEF Roots
    <3> QED
      BY <2>1, <2>4, <3>2 DEF Given, Parsing, optvars
  <2> QED
    BY <1>1, <2>3, <2>4 DEF ReadCommandLine
<1>2. CASE Next /\ ~ReadCommandLine
  <2>1. UNCHANGED Roots
    BY <1>2, RootsKept
  <2>2. CASE InputsDone \/ GenHtml \/ OpenJson \/ WriteJson \/ CloseJson \/ StoreFini
    <3>1. pc' \in {"gen_html", "gen_json", "dump", "store_fini", "exited"}
      BY <2>2 DEF InputsDone, GenHtml, OpenJson, WriteJson, CloseJson, StoreFini, Goto, FATAL, Exit
    <3> QED
      BY <2>1, <3>1 DEF Given, Parsing
  <2>3. CASE ~ (InputsDone \/ GenHtml \/ OpenJson \/ WriteJson \/ CloseJson \/ StoreFini)
    <3>1. UNCHANGED argv_paths /\ (pc \in {"options", "store_init", "walk"} \/ Parsing)
      BY <1>2, <2>3 DEF Next, EndOptions, StoreInit, NextInput, ReadDir, CloseDir, BuildArgs,
         CreateIndex, ParseTranslationUnit, VisitChildren, DisposeIndex, FileProcessed, optvars,
         Parsing
    <3> QED
      BY <2>1, <3>1 DEF Given
  <2> QED
    BY <2>2, <2>3
<1>3. CASE UNCHANGED vars
  <2>1. UNCHANGED <<Roots, argv_paths, pc>>
    BY <1>3 DEF vars, cmdvars, optvars, Roots
  <2> QED
    BY <2>1 DEF Given, Parsing
<1> QED
  BY <1>1, <1>2, <1>3

LEMMA PrimedParts ==
  ASSUME UNCHANGED Roots
  PROVE  /\ Place' <=> /\ input' \in 0 .. Len(Roots)
                       /\ dirs' # <<>> \/ Parsing' => input' >= 1
                       /\ Outputting' => input' = Len(Roots)
                       /\ Located(dirs', Roots[input'])
         /\ InHand' <=> (Parsing' =>
                          /\ file' = At(input', file'.path) /\ file'.path \in Seq(Name)
                          /\ IsHeaderBelow(Roots[input'], file'.path) /\ ~Pending(dirs', file'.path)
                          /\ file' \in Handled' <=> Settled')
         /\ SoFar' <=> \A h \in Handled' :
                         /\ h.input \in 1 .. input' /\ h.path \in Seq(Name)
                         /\ IsHeaderBelow(Roots[h.input], h.path)
                         /\ h.input = input' => ~Pending(dirs', h.path)
         /\ Accounted' <=> \A n \in 1 .. input' : \A p \in Seq(Name) :
                             IsHeaderBelow(Roots[n], p) =>
                               \/ At(n, p) \in Handled'
                               \/ \E t \in truncated' : t.input = n /\ IsPrefix(t.path, p)
                               \/ Parsing' /\ file' = At(n, p)
                               \/ n = input' /\ Pending(dirs', p)
BY DEF Place, InHand, SoFar, Accounted, Cut, At, Located, Pending, IsHeaderBelow

(* The walk begins with nothing handled.                                   *)
LEMMA WalkBegins ==
  ASSUME IInv, Given, StoreInit
  PROVE  Searched'
<1>1. UNCHANGED <<Roots, walkvars, cxxvars, outvars>> /\ pc = "store_init" /\ pc' \in {"walk", "exited"}
  BY DEF StoreInit, cmdvars, Roots, Goto, FATAL, Exit
<1>2. input = 0 /\ dirs = <<>> /\ n_processed_files = 0 /\ documented = {} /\ reported = {}
  BY <1>1 DEF IInv, Walk, Preparing, Untouched
<1>3. input' = 0 /\ dirs' = <<>> /\ n_processed_files' = 0 /\ documented' = {} /\ reported' = {}
  BY <1>1, <1>2 DEF walkvars, cxxvars
<1>4. Handled' = {} /\ IsFiniteSet({}) /\ Cardinality({}) = 0
  BY <1>3, FS_EmptySet DEF Handled
<1>5. ~Parsing' /\ ~Settled' /\ ~Outputting'
  BY <1>1 DEF Parsing, Settled, Outputting
<1>6. Located(<<>>, Roots[0])
  BY EmptySeq DEF Located
<1>7. Place' /\ InHand' /\ SoFar' /\ Accounted'
  BY <1>1, <1>3, <1>4, <1>5, <1>6, RootsFacts, PrimedParts
<1>8. Counted'
  BY <1>3, <1>4, <1>5 DEF Counted
<1> QED
  BY <1>7, <1>8 DEF Searched

(* The next input.                                                         *)
LEMMA NextInputSearched ==
  ASSUME IInv, Given, Searched, NextInput
  PROVE  Searched'
<1> DEFINE root == Roots[input + 1]
           q    == <<root>>
<1>1. /\ pc = "walk" /\ dirs = <<>> /\ input' = input + 1
      /\ process_input_path(<<argv_paths.items[input + 1]>>, <<>>)
      /\ input < Len(argv_paths.items)
      /\ UNCHANGED <<n_processed_files, truncated, documented, reported>>
  BY DEF NextInput
<1>2. UNCHANGED <<Roots, Handled>>
  BY DEF NextInput, cmdvars, Roots, Handled
<1>3. Place /\ SoFar /\ Accounted /\ Counted /\ argv_paths.items = Roots
  BY <1>1 DEF Searched, Walking, Given
<1>4. input \in Nat /\ input + 1 \in 1 .. Len(Roots) /\ Len(Roots) \in Nat /\ root \in Name
  <2>1. Len(Roots) \in Nat /\ \A n \in 1 .. Len(Roots) : Roots[n] \in Name
    BY RootsFacts
  <2>2. input \in 0 .. Len(Roots) /\ input < Len(Roots)
    BY <1>1, <1>3 DEF Place
  <2>3. input \in Nat /\ input + 1 \in 1 .. Len(Roots)
    BY <2>1, <2>2
  <2> QED
    BY <2>1, <2>3
<1>5. CASE pc' = "exited"
  BY <1>5 DEF Searched, Walking, Parsing, Outputting
<1>6. CASE pc' # "exited"
  <2>1. /\ q \in Seq(Name) /\ q # <<>> /\ Len(q) = 1 /\ IsPathBelow(root, q)
    BY <1>4, InputIsPath DEF IsPathBelow
  <2>2. Located(<<>>, root) /\ Len(<<>>) = 0 /\ \A p : ~Pending(<<>>, p)
    BY EmptySeq DEF Located, Pending
  <2>3. process_input_path(q, <<>>)
    BY <1>1, <1>3
  <2> HIDE DEF q, root
  <2>4. /\ Located(dirs', root)
        /\ \A p \in Seq(Name) : Pending(dirs', p) => Pending(<<>>, p) \/ IsPrefix(q, p)
        /\ \A p \in Seq(Name) :
             IsHeaderBelow(root, p) /\ IsPrefix(q, p) =>
               Pending(dirs', p) \/ (pc' = "parse_cxx" /\ file' = At(input', p))
        /\ pc' \in {"walk", "parse_cxx"}
        /\ pc' = "parse_cxx" =>
             /\ file' = At(input', q) /\ dirs' = <<>>
             /\ IsHeaderBelow(root, q)
    BY <1>6, <2>1, <2>2, <2>3, PathWalked, 0 + 1 = 1 DEF At
  <2>5. ~Outputting' /\ ~Settled' /\ ~Settled /\ (Parsing' <=> pc' = "parse_cxx") /\ ~Parsing
    BY <1>1, <2>4 DEF Outputting, Settled, Parsing
  <2>6. Place'
    BY <1>1, <1>2, <1>4, <2>4, <2>5, PrimedParts DEF root
  <2>7. \A h \in Handled : h.input \in 1 .. input /\ h.input # input + 1
    BY <1>3, <1>4 DEF SoFar
  <2>8. SoFar'
    <3>1. 1 .. input \subseteq 1 .. input + 1
      BY <1>4
    <3> QED
      BY <1>1, <1>2, <1>3, <2>7, <3>1, PrimedParts DEF SoFar
  <2>9. InHand'
    <3>1. pc' = "parse_cxx" => file'.path = q /\ file'.input = input + 1 /\ file' \notin Handled'
      BY <1>1, <1>2, <2>4, <2>7 DEF At
    <3> QED
      BY <1>1, <1>2, <2>1, <2>2, <2>4, <2>5, <3>1, PrimedParts DEF root
  <2>10. Accounted'
    <3> SUFFICES ASSUME NEW n \in 1 .. input + 1, NEW p \in Seq(Name), IsHeaderBelow(Roots[n], p)
                 PROVE  \/ At(n, p) \in Handled \/ Cut(n, p)
                        \/ Parsing' /\ file' = At(n, p)
                        \/ n = input' /\ Pending(dirs', p)
      BY <1>1, <1>2, PrimedParts DEF Cut
    <3>1. CASE n \in 1 .. input
      BY <1>1, <1>3, <2>2, <2>5, <3>1 DEF Accounted
    <3>2. CASE n = input + 1
      <4>1. p # <<>> /\ p[1] = root
        BY <3>2 DEF IsHeaderBelow, IsPathBelow, root
      <4>2. Len(p) \in Nat /\ Len(p) >= 1
        BY <4>1, PathFacts, EmptySeq
      <4>3. q[1] = root
        BY DEF q
      <4>4. Starts(q, p)
        BY <2>1, <4>1, <4>2, <4>3 DEF Starts
      <4>5. IsPrefix(q, p)
        BY <2>1, <4>4, PrefixStarts
      <4> QED
        BY <1>1, <2>4, <2>5, <3>2, <4>5 DEF root
    <3> QED
      BY <1>4, <3>1, <3>2
  <2>11. Counted'
    BY <1>1, <1>2, <1>3, <2>5 DEF Counted
  <2> QED
    BY <2>6, <2>8, <2>9, <2>10, <2>11 DEF Searched
<1> QED
  BY <1>5, <1>6

(* The next entry of the innermost directory.                              *)
LEMMA ReadDirSearched ==
  ASSUME IInv, Given, Searched, ReadDir
  PROVE  Searched'
<1>1. /\ pc = "walk" /\ dirs # <<>>
      /\ UNCHANGED <<input, n_processed_files, truncated, documented, reported>>
  BY DEF ReadDir, process_input_path, OpenDir, process_input_file
<1>2. UNCHANGED <<Roots, Handled>>
  BY DEF ReadDir, cmdvars, Roots, Handled
<1>3. Place /\ SoFar /\ Accounted /\ Counted
  BY <1>1 DEF Searched, Walking
<1> DEFINE root == Roots[input]
           path == dirs[Len(dirs)].path
<1>4. /\ Located(dirs, root) /\ input \in Nat /\ input >= 1 /\ input \in 0 .. Len(Roots)
  <2>1. Len(Roots) \in Nat
    BY RootsFacts
  <2>2. input \in 0 .. Len(Roots) /\ input >= 1 /\ Located(dirs, Roots[input])
    BY <1>1, <1>3 DEF Place
  <2> QED
    BY <2>1, <2>2
<1>5. PICK name \in dirs[Len(dirs)].left :
        LET stack == [dirs EXCEPT ![Len(dirs)].left = @ \ {name}]
        IN IF name \in {Dot, DotDot}
             THEN dirs' = stack /\ Goto("walk")
             ELSE process_input_path(Append(path, name), stack)
  BY DEF ReadDir, Innermost
<1> DEFINE stack == [dirs EXCEPT ![Len(dirs)].left = @ \ {name}]
           q == Append(path, name)
<1>6. /\ path \in Seq(Name) /\ Len(dirs) \in Nat /\ Len(dirs) >= 1 /\ Len(path) = Len(dirs)
      /\ path_is_dir(path) /\ IsPathBelow(root, path) /\ name \in Name
      /\ name \in Entries[Target(path)] \cup {Dot, DotDot} /\ dirs \in Seq(Dir)
  <2>1. dirs \in Seq(Dir) /\ Len(dirs) \in Nat /\ Len(dirs) >= 1
    BY <1>1, <1>4, StackFacts, EmptySeq DEF Located
  <2>2. Len(dirs) \in 1 .. Len(dirs)
    BY <2>1
  <2>3. dirs[Len(dirs)].path \in Seq(Name) /\ dirs[Len(dirs)].left \subseteq Name
    BY <2>1, <2>2, StackFacts
  <2> QED
    BY <1>4, <2>1, <2>2, <2>3 DEF Located
<1>7. Took(dirs, name, stack)
  BY <1>1, <1>6, Takes
<1>8. IF name \in {Dot, DotDot} THEN dirs' = stack /\ Goto("walk") ELSE process_input_path(q, stack)
  BY <1>5
<1> HIDE DEF stack
<1>9. /\ Located(stack, root) /\ ~Pending(stack, q)
      /\ \A p \in Seq(Name) :
           /\ Pending(stack, p) => Pending(dirs, p)
           /\ Pending(dirs, p) => Pending(stack, p) \/ IsPrefix(q, p)
           /\ IsPrefix(q, p) => Pending(dirs, p)
  BY <1>1, <1>4, <1>7, TakenEntry
<1>10. Len(stack) = Len(dirs)
  BY <1>7 DEF Took
<1>11. q \in Seq(Name) /\ Len(q) = Len(stack) + 1 /\ q # <<>>
  <2>1. q \in Seq(Name) /\ Len(q) = Len(path) + 1
    BY <1>6, PathAppend
  <2> QED
    BY <1>6, <1>10, <2>1, EmptySeq
<1> HIDE DEF q, path, root
<1>12. CASE name \in {Dot, DotDot}
  <2>1. dirs' = stack /\ pc' = "walk"
    BY <1>8, <1>12 DEF Goto
  <2>2. ~Outputting' /\ ~Settled' /\ ~Settled /\ ~Parsing' /\ ~Parsing
    BY <1>1, <2>1 DEF Outputting, Settled, Parsing
  <2>3. \A p \in Seq(Name) : IsHeaderBelow(root, p) => ~IsPrefix(q, p)
    <3> SUFFICES ASSUME NEW p \in Seq(Name), IsHeaderBelow(root, p), IsPrefix(q, p)
                 PROVE  FALSE
      OBVIOUS
    <3>1. IsPrefix(path, p) /\ p[Len(path) + 1] = name
      BY <1>6, BelowEntry DEF q
    <3>2. path # <<>>
      BY <1>6, EmptySeq
    <3>3. name \in Entries[Target(path)]
      BY <1>6, <3>1, <3>2, OnTheWay
    <3>4. Target(path) \in DOMAIN Entries
      BY <1>6 DEF path_is_dir
    <3> QED
      BY <1>12, <3>3, <3>4, EntriesType
  <2>4. Place' /\ InHand'
    BY <1>1, <1>2, <1>4, <1>9, <2>1, <2>2, PrimedParts DEF root
  <2>5. SoFar'
    BY <1>1, <1>2, <1>3, <1>9, <2>1, PrimedParts DEF SoFar
  <2>6. Accounted'
    <3> SUFFICES ASSUME NEW n \in 1 .. input, NEW p \in Seq(Name), IsHeaderBelow(Roots[n], p)
                 PROVE  \/ At(n, p) \in Handled \/ Cut(n, p)
                        \/ n = input /\ Pending(stack, p)
      BY <1>1, <1>2, <2>1, PrimedParts DEF Cut
    <3> QED
      BY <1>3, <1>9, <2>2, <2>3 DEF Accounted, root
  <2>7. Counted'
    BY <1>1, <1>2, <1>3, <2>2 DEF Counted
  <2> QED
    BY <2>4, <2>5, <2>6, <2>7 DEF Searched
<1>13. CASE name \notin {Dot, DotDot} /\ pc' = "exited"
  BY <1>13 DEF Searched, Walking, Parsing, Outputting
<1>14. CASE name \notin {Dot, DotDot} /\ pc' # "exited"
  <2>1. IsPathBelow(root, q)
    BY <1>6, <1>14, DownOne DEF q
  <2>2. process_input_path(q, stack)
    BY <1>8, <1>14
  <2>3. /\ Located(dirs', root)
        /\ \A p \in Seq(Name) : Pending(dirs', p) => Pending(stack, p) \/ IsPrefix(q, p)
        /\ \A p \in Seq(Name) : Pending(stack, p) => Pending(dirs', p)
        /\ \A p \in Seq(Name) :
             IsHeaderBelow(root, p) /\ IsPrefix(q, p) =>
               Pending(dirs', p) \/ (pc' = "parse_cxx" /\ file' = At(input', p))
        /\ pc' \in {"walk", "parse_cxx"}
        /\ pc' = "parse_cxx" =>
             /\ file' = At(input', q) /\ dirs' = stack
             /\ IsHeaderBelow(root, q)
    BY <1>9, <1>11, <1>14, <2>1, <2>2, PathWalked DEF At
  <2>4. ~Outputting' /\ ~Settled' /\ ~Settled /\ (Parsing' <=> pc' = "parse_cxx") /\ ~Parsing
    BY <1>1, <2>3 DEF Outputting, Settled, Parsing
  <2>5. Place'
    BY <1>1, <1>2, <1>4, <2>3, <2>4, PrimedParts DEF root
  <2>6. SoFar'
    BY <1>1, <1>2, <1>3, <1>9, <2>3, PrimedParts DEF SoFar
  <2>7. InHand'
    <3>1. pc' = "parse_cxx" => file'.path = q /\ file'.input = input
      BY <1>1, <2>3 DEF At
    <3>2. pc' = "parse_cxx" => file' \notin Handled'
      <4>1. Pending(dirs, q)
        BY <1>9, <1>11, PrefixSelf
      <4> QED
        BY <1>2, <1>3, <3>1, <4>1 DEF SoFar
    <3> QED
      BY <1>1, <1>2, <1>9, <1>11, <2>3, <2>4, <3>1, <3>2, PrimedParts DEF root
  <2>8. Accounted'
    <3> SUFFICES ASSUME NEW n \in 1 .. input, NEW p \in Seq(Name), IsHeaderBelow(Roots[n], p)
                 PROVE  \/ At(n, p) \in Handled \/ Cut(n, p)
                        \/ Parsing' /\ file' = At(n, p)
                        \/ n = input /\ Pending(dirs', p)
      BY <1>1, <1>2, PrimedParts DEF Cut
    <3>1. \/ At(n, p) \in Handled \/ Cut(n, p)
          \/ n = input /\ Pending(dirs, p)
      BY <1>3, <2>4 DEF Accounted
    <3> QED
      BY <1>1, <1>9, <2>3, <2>4, <3>1 DEF root
  <2>9. Counted'
    BY <1>1, <1>2, <1>3, <2>4 DEF Counted
  <2> QED
    BY <2>5, <2>6, <2>7, <2>8, <2>9 DEF Searched
<1> QED
  BY <1>12, <1>13, <1>14

(* The end of a directory, or a listing that breaks off.                   *)
LEMMA CloseDirSearched ==
  ASSUME IInv, Given, Searched, CloseDir
  PROVE  Searched'
<1> DEFINE d == dirs[Len(dirs)]
           es == SubSeq(dirs, 1, Len(dirs) - 1)
<1>1. /\ pc = "walk" /\ dirs # <<>> /\ dirs' = es
      /\ UNCHANGED <<pc, input, n_processed_files, documented, reported, file>>
      /\ \/ d.left = {} /\ UNCHANGED truncated
         \/ d.left # {} /\ truncated' = truncated \cup {At(input, d.path)}
  BY DEF CloseDir, cxxvars, Innermost, At
<1>2. UNCHANGED <<Roots, Handled>>
  BY DEF CloseDir, cmdvars, cxxvars, Roots, Handled
<1>3. Place /\ SoFar /\ Accounted /\ Counted
  BY <1>1 DEF Searched, Walking
<1> HIDE DEF es, d
<1>4. /\ Located(dirs, Roots[input]) /\ input \in Nat /\ input >= 1 /\ input \in 0 .. Len(Roots)
  <2>1. Len(Roots) \in Nat
    BY RootsFacts
  <2>2. input \in 0 .. Len(Roots) /\ input >= 1 /\ Located(dirs, Roots[input])
    BY <1>1, <1>3 DEF Place
  <2> QED
    BY <2>1, <2>2
<1>5. /\ Located(es, Roots[input])
      /\ \A p \in Seq(Name) :
           /\ Pending(es, p) => Pending(dirs, p)
           /\ Pending(dirs, p) => Pending(es, p) \/ (d.left # {} /\ IsPrefix(d.path, p))
  BY <1>1, <1>4, PoppedDir DEF es, d
<1>6. ~Outputting' /\ ~Settled' /\ ~Settled /\ ~Parsing' /\ ~Parsing
  BY <1>1 DEF Outputting, Settled, Parsing
<1>7. Place' /\ InHand'
  BY <1>1, <1>2, <1>4, <1>5, <1>6, PrimedParts
<1>8. SoFar'
  BY <1>1, <1>2, <1>3, <1>5, PrimedParts DEF SoFar
<1>9. Accounted'
  <2> SUFFICES ASSUME NEW n \in 1 .. input, NEW p \in Seq(Name), IsHeaderBelow(Roots[n], p)
               PROVE  \/ At(n, p) \in Handled
                      \/ \E t \in truncated' : t.input = n /\ IsPrefix(t.path, p)
                      \/ n = input /\ Pending(es, p)
    BY <1>1, <1>2, PrimedParts
  <2>1. truncated \subseteq truncated'
    BY <1>1
  <2>2. \/ At(n, p) \in Handled \/ Cut(n, p)
        \/ n = input /\ Pending(dirs, p)
    BY <1>3, <1>6 DEF Accounted
  <2>3. CASE Cut(n, p)
    BY <2>1, <2>3 DEF Cut
  <2>4. CASE n = input /\ d.left # {} /\ IsPrefix(d.path, p)
    <3>1. At(input, d.path) \in truncated'
      BY <1>1, <2>4
    <3>2. At(input, d.path).input = n /\ At(input, d.path).path = d.path
      BY <2>4 DEF At
    <3> QED
      BY <2>4, <3>1, <3>2
  <2> QED
    BY <1>5, <2>2, <2>3, <2>4
<1>10. Counted'
  BY <1>1, <1>2, <1>3, <1>6 DEF Counted
<1> QED
  BY <1>7, <1>8, <1>9, <1>10 DEF Searched

(* The steps of parse_cxx(): where they go and whether they handle the     *)
(* header.                                                                 *)
LEMMA ParsingSearched ==
  ASSUME IInv, Given, Searched,
         BuildArgs \/ CreateIndex \/ ParseTranslationUnit \/ VisitChildren \/ DisposeIndex
  PROVE  Searched'
<1>1. /\ Parsing /\ (Parsing' \/ pc' = "exited")
      /\ UNCHANGED <<input, dirs, n_processed_files, truncated, file>>
  BY DEF BuildArgs, CreateIndex, ParseTranslationUnit, VisitChildren, DisposeIndex, walkvars,
     Parsing, Goto, FATAL, Exit
<1>2. UNCHANGED Roots
  BY DEF BuildArgs, CreateIndex, ParseTranslationUnit, VisitChildren, DisposeIndex, cmdvars, Roots
<1>3. Place /\ InHand /\ SoFar /\ Accounted /\ Counted
  BY <1>1 DEF Searched, Walking
<1>4. CASE pc' = "exited"
  BY <1>4 DEF Searched, Walking, Parsing, Outputting
<1>5. CASE pc' # "exited" /\ UNCHANGED <<documented, reported>> /\ (Settled' <=> Settled)
  <2>1. UNCHANGED Handled /\ Parsing' /\ ~Outputting'
    BY <1>1, <1>5 DEF Handled, Parsing, Outputting
  <2>2. Place'
    BY <1>1, <1>2, <1>3, <2>1, PrimedParts DEF Place
  <2>3. InHand'
    BY <1>1, <1>2, <1>3, <1>5, <2>1, PrimedParts DEF InHand
  <2>4. SoFar'
    BY <1>1, <1>2, <1>3, <2>1, PrimedParts DEF SoFar
  <2>5. Accounted'
    BY <1>1, <1>2, <1>3, <2>1, PrimedParts DEF Accounted, Cut
  <2>6. Counted'
    BY <1>1, <1>3, <1>5, <2>1 DEF Counted
  <2> QED
    BY <2>2, <2>3, <2>4, <2>5, <2>6 DEF Searched
<1>6. CASE /\ ~Settled /\ Settled'
           /\ \/ UNCHANGED documented /\ reported' = reported \cup {file}
              \/ UNCHANGED reported /\ \E a : documented' = documented \cup {[at |-> file, args |-> a]}
  <2>1. file \notin Handled /\ Parsing' /\ ~Outputting'
    BY <1>1, <1>3, <1>6 DEF InHand, Parsing, Settled, Outputting
  <2>2. Handled' = Handled \cup {file} /\ {d.at : d \in documented'} \cap reported' = {}
    <3>1. CASE UNCHANGED documented /\ reported' = reported \cup {file}
      BY <1>3, <2>1, <3>1 DEF Handled, Counted
    <3>2. CASE UNCHANGED reported /\ \E a : documented' = documented \cup {[at |-> file, args |-> a]}
      <4> PICK a : documented' = documented \cup {[at |-> file, args |-> a]}
        BY <3>2
      <4> DEFINE e == [at |-> file, args |-> a]
      <4>0. e.at = file /\ documented' = documented \cup {e}
        OBVIOUS
      <4> HIDE DEF e
      <4>1. {d.at : d \in documented'} = {d.at : d \in documented} \cup {file}
        BY <4>0
      <4> QED
        BY <1>3, <2>1, <3>2, <4>1 DEF Handled, Counted
    <3> QED
      BY <1>6, <3>1, <3>2
  <2>3. /\ input >= 1 /\ input \in Nat /\ file = At(input, file.path) /\ file.path \in Seq(Name)
        /\ file.input = input
        /\ IsHeaderBelow(Roots[input], file.path) /\ ~Pending(dirs, file.path)
    <3>1. Len(Roots) \in Nat
      BY RootsFacts
    <3>2. input \in 0 .. Len(Roots) /\ input >= 1
      BY <1>1, <1>3 DEF Place
    <3>3. /\ file = At(input, file.path) /\ file.path \in Seq(Name)
          /\ IsHeaderBelow(Roots[input], file.path) /\ ~Pending(dirs, file.path)
      BY <1>1, <1>3 DEF InHand
    <3>4. At(input, file.path).input = input
      BY DEF At
    <3> QED
      BY <3>1, <3>2, <3>3, <3>4
  <2>4. Place'
    BY <1>1, <1>2, <1>3, <2>1, PrimedParts DEF Place
  <2>5. InHand'
    BY <1>1, <1>2, <1>6, <2>2, <2>3, PrimedParts
  <2>6. SoFar'
    <3>1. input \in 1 .. input
      BY <2>3
    <3> QED
      BY <1>1, <1>2, <1>3, <2>2, <2>3, <3>1, PrimedParts DEF SoFar
  <2>7. Accounted'
    BY <1>1, <1>2, <1>3, <2>1, <2>2, PrimedParts DEF Accounted, Cut
  <2>8. Counted'
    <3>1. IsFiniteSet(Handled \cup {file}) /\ Cardinality(Handled \cup {file}) = Cardinality(Handled) + 1
      BY <1>3, <2>1, FS_AddElement DEF Counted
    <3>2. Cardinality(Handled) = n_processed_files + 0
      BY <1>3, <1>6 DEF Counted
    <3>3. n_processed_files \in Nat
      BY DEF IInv, Types, TypeOK
    <3> QED
      BY <1>1, <1>6, <2>2, <3>1, <3>2, <3>3 DEF Counted
  <2> QED
    BY <2>4, <2>5, <2>6, <2>7, <2>8 DEF Searched
<1>7. \/ pc' = "exited"
      \/ pc' # "exited" /\ UNCHANGED <<documented, reported>> /\ (Settled' <=> Settled)
      \/ /\ ~Settled /\ Settled'
         /\ \/ UNCHANGED documented /\ reported' = reported \cup {file}
            \/ UNCHANGED reported /\ \E a : documented' = documented \cup {[at |-> file, args |-> a]}
  <2>1. CASE BuildArgs
    BY <2>1 DEF BuildArgs, Settled, Goto, FATAL, Exit
  <2>2. CASE CreateIndex
    BY <2>2 DEF CreateIndex, Settled, Goto
  <2>3. CASE ParseTranslationUnit
    BY <2>3 DEF ParseTranslationUnit, Settled, Goto
  <2>4. CASE VisitChildren
    BY <2>4 DEF VisitChildren, Settled, Goto
  <2>5. CASE DisposeIndex
    BY <2>5 DEF DisposeIndex, Settled, Goto
  <2> QED
    BY <2>1, <2>2, <2>3, <2>4, <2>5
<1> QED
  BY <1>4, <1>5, <1>6, <1>7

LEMMA FileProcessedSearched ==
  ASSUME IInv, Given, Searched, FileProcessed
  PROVE  Searched'
<1>1. /\ pc = "err_createIndex" /\ pc' = "walk" /\ n_processed_files' = n_processed_files + 1
      /\ UNCHANGED <<input, dirs, truncated, documented, reported>>
  BY DEF FileProcessed, Goto
<1>2. UNCHANGED <<Roots, Handled>>
  BY DEF FileProcessed, cmdvars, Roots, Handled
<1>3. Parsing /\ Settled /\ ~Parsing' /\ ~Settled' /\ ~Outputting'
  BY <1>1 DEF Parsing, Settled, Outputting
<1>4. Place /\ InHand /\ SoFar /\ Accounted /\ Counted
  BY <1>3 DEF Searched, Walking
<1>5. Place' /\ InHand'
  BY <1>1, <1>2, <1>3, <1>4, PrimedParts DEF Place
<1>6. SoFar'
  BY <1>1, <1>2, <1>4, PrimedParts DEF SoFar
<1>7. file \in Handled
  BY <1>3, <1>4 DEF InHand
<1>8. Accounted'
  BY <1>1, <1>2, <1>4, <1>7, PrimedParts DEF Accounted, Cut
<1>9. Counted'
  <2>1. n_processed_files \in Nat
    BY DEF IInv, Types, TypeOK
  <2> QED
    BY <1>1, <1>2, <1>3, <1>4, <2>1 DEF Counted
<1> QED
  BY <1>5, <1>6, <1>8, <1>9 DEF Searched

(* The output changes nothing of what was handled.                         *)
LEMMA OutputSearched ==
  ASSUME IInv, Given, Searched, InputsDone \/ GenHtml \/ OpenJson \/ WriteJson \/ CloseJson \/ StoreFini
  PROVE  Searched'
<1>1. /\ pc = "walk" \/ Outputting
      /\ pc' = "exited" \/ Outputting'
      /\ UNCHANGED <<walkvars, cxxvars>>
      /\ pc = "walk" => input = Len(argv_paths.items)
  BY DEF InputsDone, GenHtml, OpenJson, WriteJson, CloseJson, StoreFini, Outputting, Goto, FATAL, Exit
<1>2. UNCHANGED <<Roots, Handled>>
  BY <1>1 DEF InputsDone, GenHtml, OpenJson, WriteJson, CloseJson, StoreFini, cmdvars, cxxvars,
     Roots, Handled
<1>3. UNCHANGED <<input, dirs, n_processed_files, truncated, documented, reported>>
  BY <1>1 DEF walkvars, cxxvars
<1>4. CASE pc' = "exited"
  BY <1>4 DEF Searched, Walking, Parsing, Outputting
<1>5. CASE Outputting'
  <2>1. ~Parsing /\ ~Settled /\ ~Parsing' /\ ~Settled'
    BY <1>1, <1>5 DEF Parsing, Settled, Outputting
  <2>2. Place /\ SoFar /\ Accounted /\ Counted
    BY <1>1 DEF Searched, Walking
  <2>3. Place'
    <3>1. input = Len(Roots)
      <4>1. CASE pc = "walk"
        BY <1>1, <4>1 DEF Given
      <4>2. CASE Outputting
        BY <2>2, <4>2 DEF Place
      <4> QED
        BY <1>1, <4>1, <4>2
    <3> QED
      BY <1>2, <1>3, <2>1, <2>2, <3>1, PrimedParts DEF Place
  <2>4. InHand'
    BY <1>2, <2>1, PrimedParts
  <2>5. SoFar'
    BY <1>2, <1>3, <2>2, PrimedParts DEF SoFar
  <2>6. Accounted'
    BY <1>2, <1>3, <2>1, <2>2, PrimedParts DEF Accounted, Cut
  <2>7. Counted'
    BY <1>2, <1>3, <2>1, <2>2 DEF Counted
  <2> QED
    BY <2>3, <2>4, <2>5, <2>6, <2>7 DEF Searched
<1> QED
  BY <1>1, <1>4, <1>5

LEMMA SearchedKept ==
  ASSUME IInv, Given, Searched, [Next]_vars
  PROVE  Searched'
<1>1. CASE ReadCommandLine \/ EndOptions
  <2>1. pc' \in {"options", "store_init", "exited"}
    BY <1>1 DEF ReadCommandLine, EndOptions, cmdline_callback, CxxOption, HtmlOption, JsonOption,
       DryRunOption, OtherOption, HelpOrVersion, InputPath, BadOption, Goto, FATAL, Exit
  <2> QED
    BY <2>1 DEF Searched, Walking, Parsing, Outputting
<1>2. CASE UNCHANGED vars
  <2>1. UNCHANGED <<pc, input, dirs, n_processed_files, truncated, file, documented, reported>>
    BY <1>2 DEF vars, walkvars, cxxvars
  <2>2. UNCHANGED <<Roots, Handled, Parsing, Settled, Outputting, Walking>>
    BY <1>2, <2>1 DEF vars, cmdvars, Roots, Handled, Parsing, Settled, Outputting, Walking
  <2>3. CASE Walking
    <3>1. Place /\ InHand /\ SoFar /\ Accounted /\ Counted
      BY <2>3 DEF Searched
    <3>2. Place'
      BY <2>1, <2>2, <3>1, PrimedParts DEF Place
    <3>3. InHand'
      BY <2>1, <2>2, <3>1, PrimedParts DEF InHand
    <3>4. SoFar'
      BY <2>1, <2>2, <3>1, PrimedParts DEF SoFar
    <3>5. Accounted'
      BY <2>1, <2>2, <3>1, PrimedParts DEF Accounted, Cut
    <3>6. Counted'
      BY <2>1, <2>2, <3>1 DEF Counted
    <3> QED
      BY <3>2, <3>3, <3>4, <3>5, <3>6 DEF Searched
  <2>4. CASE ~Walking
    BY <2>2, <2>4 DEF Searched
  <2> QED
    BY <2>3, <2>4
<1> QED
  BY <1>1, <1>2, WalkBegins, NextInputSearched, ReadDirSearched, CloseDirSearched,
     ParsingSearched, FileProcessedSearched, OutputSearched DEF Next

LEMMA SearchedAll ==
  ASSUME IInv, Given, Searched
  PROVE  NoHeaderLost
<1> SUFFICES ASSUME Outputting PROVE NoHeaderLost
  BY DEF NoHeaderLost
<1>1. Place /\ SoFar /\ Accounted /\ Counted
  BY DEF Searched, Walking
<1>2. ~Parsing /\ ~Settled
  BY DEF Outputting, Parsing, Settled
<1>3. dirs = <<>>
  BY DEF IInv, Output, Finished
<1>4. \A p : ~Pending(dirs, p)
  BY <1>3, EmptySeq DEF Pending
<1>5. input = Len(Roots) /\ Len(Roots) \in Nat /\ DOMAIN Roots = 1 .. Len(Roots)
      /\ \A n \in 1 .. Len(Roots) : Roots[n] \in Name
  BY <1>1, RootsFacts DEF Place
<1>6. n_processed_files = Cardinality(Handled) /\ {d.at : d \in documented} \cap reported = {}
  <2>1. n_processed_files \in Nat
    BY DEF IInv, Types, TypeOK
  <2> QED
    BY <1>1, <1>2, <2>1 DEF Counted
<1>7. \A h \in Handled : h.input \in DOMAIN Roots /\ IsHeaderBelow(Roots[h.input], h.path)
  BY <1>1, <1>5 DEF SoFar
<1>8. ASSUME NEW h \in AllHeaders \ Handled
      PROVE  \E t \in truncated : t.input = h.input /\ IsPrefix(t.path, h.path)
  <2>1. PICK n \in DOMAIN Roots : h \in {[input |-> n, path |-> p] : p \in HeadersBelow(Roots[n])}
    BY DEF AllHeaders, Roots
  <2>2. PICK p \in HeadersBelow(Roots[n]) : h = At(n, p)
    BY <2>1 DEF At
  <2>3. n \in 1 .. input /\ p \in Seq(Name) /\ IsHeaderBelow(Roots[n], p)
    BY <1>5, <2>1, <2>2, HeadersAre
  <2>4. Cut(n, p)
    BY <1>1, <1>2, <1>4, <2>2, <2>3 DEF Accounted
  <2> QED
    BY <2>2, <2>4 DEF Cut, At
<1> QED
  BY <1>6, <1>7, <1>8 DEF NoHeaderLost, Roots

(* When the output starts, every header below an input was handled once,   *)
(* unless a listing above it broke off, and nothing else was.              *)
THEOREM EveryHeaderHandled == Spec => []NoHeaderLost
<1>1. Init => Searched
  BY DEF Init, Searched, Walking, Parsing, Outputting
<1> QED
  BY <1>1, GivenStarts, GivenKept, SearchedKept, SearchedAll, Invariance, PTL DEF Spec

=============================================================================
