------------------------------ MODULE Docbaker ------------------------------
(***************************************************************************)
(* The program of src/main.c: read the command line, walk the input files  *)
(* and directories, hand each C/C++ header to libclang (src/parse_cxx.c),  *)
(* then write the output (src/gen_html.c, src/gen_json.c).  It composes    *)
(* Cmdline, whose every callback invocation is one of cmdline_callback().  *)
(*                                                                         *)
(* The operating system and libclang may fail each call; memory may run    *)
(* out whenever an array has to grow.  FATAL() and CHECK() are exit(1).    *)
(* The text of messages, verbose_level and html_skin, which no code reads  *)
(* for anything but wording, are left out.                                 *)
(*                                                                         *)
(* A file name is a word of Cmdline; a path is the sequence of the names   *)
(* from a command-line argument down.                                      *)
(***************************************************************************)
EXTENDS Integers, Sequences, FiniteSets

CONSTANTS
  Tokens,     \* the pieces that words are cut into
  Lines,      \* the command lines considered
  Entries,    \* directory |-> the names in it; its domain: all directories
  Links,      \* symbolic link |-> the name it points to
  Headers,    \* the names that end in ".h"
  MaxLinks    \* symbolic links the system follows in one path (ELOOP beyond)

VARIABLES
  argv, i, after_doubledash, group, calls, ret,   \* of Cmdline

  pc,                 \* the statement main() has come to
  status,             \* how the process ended, "running" until then
  clang_opts,         \* array: the arguments for libclang, ended by NULL
  argv_paths,         \* array: the input files and directories
  enabled_generators, \* the generators asked for
  html_output_dir, json_output_file, dry_run,
  store,              \* "null" or "dict", the main data store
  input,              \* how many of argv_paths main() has begun
  dirs,               \* directories being read, the innermost one last
  n_processed_files,
  file,               \* the file in parse_cxx()
  args,               \* parse_cxx()'s argument array
  index, unit,        \* libclang handles that are not disposed of

  (* what the environment sees *)
  documented,         \* visited headers with the arguments libclang had
  reported,           \* headers an ERROR() message was printed for
  truncated,          \* directories whose listing an I/O error cut short
  html,               \* the directory made for the HTML output
  json                \* the JSON output file

cmdvars == <<argv, i, after_doubledash, group, calls, ret>>
optvars == <<clang_opts, argv_paths, enabled_generators,
             html_output_dir, json_output_file, dry_run>>
walkvars == <<input, dirs, n_processed_files, truncated>>
cxxvars  == <<file, args, index, unit, documented, reported>>
outvars  == <<html, json>>
vars == <<cmdvars, optvars, walkvars, cxxvars, outvars, pc, status, store>>

-----------------------------------------------------------------------------
(* The command line *)

Option(short, dashes, long, id, flags) ==
  [short |-> short, dashes |-> dashes, long |-> long, id |-> id, flags |-> flags]

cmdline_options ==
  << Option("",  1, "D",         "CXX_D",  {"compiler"}),
     Option("",  1, "I",         "CXX_I",  {"compiler"}),
     Option("",  1, "isystem",   "CXX_S",  {"compiler"}),
     Option("",  2, "html",      "HTML_H", {"optional"}),
     Option("",  2, "html-skin", "HTML_S", {"required"}),
     Option("",  2, "json",      "JSON_J", {"optional"}),
     Option("n", 2, "dry-run",   "n",      {}),
     Option("h", 2, "help",      "h",      {}),
     Option("",  2, "version",   "V",      {}),
     Option("v", 2, "verbose",   "v",      {"optional"}) >>

ASSUME TokensType ==
  \A k \in DOMAIN cmdline_options : cmdline_options[k].long \in Tokens

Cmd == INSTANCE Cmdline WITH Options <- cmdline_options, Rets <- {0}

ASSUME LinesType == Lines \subseteq Seq(Cmd!Word)

NoArg == Cmd!NoArg
Null  == NoArg                 \* the NULL pointer, as an argument or array item
DefaultHtmlDir  == Cmd!Text(<<"doc-html">>)
DefaultJsonFile == Cmd!Text(<<"doc.json">>)
Sysincdir       == Cmd!Text(<<"-isystem">>)
DefineDocbaker  == Cmd!Text(<<"-DDOCBAKER">>)

(* Mutant of CxxFlag: the case of -isystem is a copy of the one of -I. *)
CxxFlagCopied(id) ==
  IF id = "CXX_D" THEN [dashes |-> 1, toks |-> <<"D">>]
                  ELSE [dashes |-> 1, toks |-> <<"I">>]

(* The word "-D", "-I" or "-isystem" that cmdline_callback() stores. *)
CxxFlag(id) ==
  CASE id = "CXX_D" -> [dashes |-> 1, toks |-> <<"D">>]
    [] id = "CXX_I" -> [dashes |-> 1, toks |-> <<"I">>]
    [] id = "CXX_S" -> [dashes |-> 1, toks |-> <<"isystem">>]

(* ARRAY: its items and the room it has.  An insertion that does not fit   *)
(* asks realloc() for twice the new size, so only then it can fail.        *)
EmptyArray == [items |-> <<>>, alloc |-> 0]
Fits(a, n) == Len(a.items) + n <= a.alloc

(* Mutant of array_append: the new size of the block is not stored. *)
array_append_unsized(a, x) == [items |-> Append(a.items, x), alloc |-> a.alloc]

array_append(a, x) ==
  [items |-> Append(a.items, x),
   alloc |-> IF Fits(a, 1) THEN a.alloc ELSE 2 * (Len(a.items) + 1)]

-----------------------------------------------------------------------------
(* The file system *)

Dot    == Cmd!Text(<<".">>)
DotDot == Cmd!Text(<<"..">>)

(* "." and ".." are not among the entries: ReadDir adds them. *)
ASSUME EntriesType == \A d \in DOMAIN Entries : Entries[d] \cap {Dot, DotDot} = {}
ASSUME DirsFinite   == IsFiniteSet(DOMAIN Entries)
ASSUME MaxLinksType == MaxLinks \in Nat

Basename(path) == path[Len(path)]
Target(path)   == IF Basename(path) \in DOMAIN Links
                    THEN Links[Basename(path)] ELSE Basename(path)
FollowedLinks(path) == {k \in DOMAIN path : path[k] \in DOMAIN Links}

(* stat() fails on a path with too many links and path_is_dir() says no. *)
path_is_dir(path) ==
  /\ Cardinality(FollowedLinks(path)) <= MaxLinks
  /\ Target(path) \in DOMAIN Entries

-----------------------------------------------------------------------------
(* The output file: the chunks fwrite() took and those known to be stored. *)

NoJson == [path |-> Null, stream |-> <<>>, disk |-> <<>>]

(* What json_dom_dump() writes of a dictionary without members. *)
EmptyDict   == <<"{", "\n", "}", "\n">>
Dump(value) == IF value = "dict" THEN EmptyDict ELSE <<"null", "\n">>

-----------------------------------------------------------------------------
Init ==
  /\ Cmd!Init
  /\ pc = "options"
  /\ status = "running"
  /\ clang_opts = EmptyArray /\ argv_paths = EmptyArray
  /\ enabled_generators = {}
  /\ html_output_dir = DefaultHtmlDir /\ json_output_file = DefaultJsonFile
  /\ dry_run = FALSE
  /\ store = "null"
  /\ input = 0 /\ dirs = <<>> /\ n_processed_files = 0
  /\ file = <<>> /\ args = <<>> /\ index = FALSE /\ unit = FALSE
  /\ documented = {} /\ reported = {} /\ truncated = {}
  /\ html = Null /\ json = NoJson

Exit(how) == pc' = "exited" /\ status' = how
FATAL     == Exit("failure")
Goto(l)   == pc' = l /\ UNCHANGED status

(* -I, -D and -isystem take two places of clang_opts; the first item that  *)
(* needs a larger block may not get it.                                    *)
CxxOption(c) ==
  /\ c.id \in {"CXX_D", "CXX_I", "CXX_S"}
  /\ \/ /\ clang_opts' = array_append(array_append(clang_opts, CxxFlag(c.id)), c.arg)
        /\ Goto("options")
     \/ /\ ~Fits(clang_opts, 2)
        /\ UNCHANGED clang_opts
        /\ FATAL
  /\ UNCHANGED <<argv_paths, enabled_generators, html_output_dir, json_output_file, dry_run>>

HtmlOption(c) ==
  /\ c.id = "HTML_H"
  /\ enabled_generators' = enabled_generators \cup {"HTML"}
  /\ html_output_dir' = IF c.arg # NoArg THEN c.arg ELSE html_output_dir
  /\ Goto("options")
  /\ UNCHANGED <<clang_opts, argv_paths, json_output_file, dry_run>>

JsonOption(c) ==
  /\ c.id = "JSON_J"
  /\ enabled_generators' = enabled_generators \cup {"JSON"}
  /\ json_output_file' = IF c.arg # NoArg THEN c.arg ELSE json_output_file
  /\ Goto("options")
  /\ UNCHANGED <<clang_opts, argv_paths, html_output_dir, dry_run>>

DryRunOption(c) ==
  /\ c.id = "n"
  /\ dry_run' = TRUE
  /\ Goto("options")
  /\ UNCHANGED <<clang_opts, argv_paths, enabled_generators, html_output_dir, json_output_file>>

(* --verbose and --html-skin store a value that is only shown or not used. *)
OtherOption(c) ==
  /\ c.id \in {"v", "HTML_S"}
  /\ Goto("options")
  /\ UNCHANGED optvars

(* print_usage() and print_version() leave with exit(). *)
HelpOrVersion(c) ==
  /\ c.id \in {"h", "V"}
  /\ Exit("success")
  /\ UNCHANGED optvars

InputPath(c) ==
  /\ c.id = "NONE"
  /\ \/ argv_paths' = array_append(argv_paths, c.arg) /\ Goto("options")
     \/ ~Fits(argv_paths, 1) /\ UNCHANGED argv_paths /\ FATAL
  /\ UNCHANGED <<clang_opts, enabled_generators, html_output_dir, json_output_file, dry_run>>

(* Mutant of BadOption: an ERROR() message instead of FATAL(). *)
BadOptionTolerated(c) ==
  /\ c.id \in {"UNKNOWN", "MISSINGARG", "BOGUSARG"}
  /\ Goto("options")
  /\ UNCHANGED optvars

BadOption(c) ==
  /\ c.id \in {"UNKNOWN", "MISSINGARG", "BOGUSARG"}
  /\ FATAL
  /\ UNCHANGED optvars

cmdline_callback(c) ==
  \/ CxxOption(c) \/ HtmlOption(c) \/ JsonOption(c) \/ DryRunOption(c)
  \/ OtherOption(c) \/ HelpOrVersion(c) \/ InputPath(c) \/ BadOption(c)

-----------------------------------------------------------------------------
(* main(): options *)

ReadCommandLine ==
  /\ pc = "options"
  /\ \/ Cmd!Deliver(0) /\ cmdline_callback(calls'[Len(calls')])
     \/ Cmd!EndOfOptions /\ Goto("options") /\ UNCHANGED optvars
  /\ UNCHANGED <<walkvars, cxxvars, outvars, store>>

(* The result of this array_append() is not looked at. *)
EndOptions ==
  /\ pc = "options" /\ Cmd!Done
  /\ \/ clang_opts' = array_append(clang_opts, Null)
     \/ ~Fits(clang_opts, 1) /\ UNCHANGED clang_opts
  /\ enabled_generators' = IF enabled_generators = {} THEN {"HTML"} ELSE enabled_generators
  /\ Goto("store_init")
  /\ UNCHANGED <<cmdvars, argv_paths, html_output_dir, json_output_file, dry_run>>
  /\ UNCHANGED <<walkvars, cxxvars, outvars, store>>

StoreInit ==
  /\ pc = "store_init"
  /\ \/ store' = "dict" /\ Goto("walk")
     \/ store' = store /\ FATAL
  /\ UNCHANGED <<cmdvars, optvars, walkvars, cxxvars, outvars>>

-----------------------------------------------------------------------------
(* main(): the input files.  "walk" is the head of the loop of main() when *)
(* dirs is empty, else of the one in process_input_dir().                  *)

(* opendir() in process_input_dir(); stack are the directories open so far *)
OpenDir(path, stack) ==
  /\ path_is_dir(path)
  /\ \/ /\ dirs' = Append(stack, [path |-> path,
                                  left |-> Entries[Target(path)] \cup {Dot, DotDot}])
        /\ Goto("walk")
     \/ dirs' = stack /\ FATAL
  /\ UNCHANGED file

process_input_file(path, stack) ==
  /\ ~path_is_dir(path)
  /\ dirs' = stack
  /\ IF Basename(path) \in Headers
       THEN file' = [input |-> input', path |-> path] /\ Goto("parse_cxx")
       ELSE UNCHANGED file /\ Goto("walk")

process_input_path(path, stack) ==
  OpenDir(path, stack) \/ process_input_file(path, stack)

NextInput ==
  /\ pc = "walk" /\ dirs = <<>>
  /\ input < Len(argv_paths.items)
  /\ input' = input + 1
  /\ process_input_path(<<argv_paths.items[input + 1]>>, <<>>)
  /\ UNCHANGED <<cmdvars, optvars, outvars, store, n_processed_files, truncated>>
  /\ UNCHANGED <<args, index, unit, documented, reported>>

Innermost == dirs[Len(dirs)]

(* Mutant of ReadDir: the name is not joined to the path of the directory. *)
ReadDirUnjoined ==
  /\ pc = "walk" /\ dirs # <<>>
  /\ \E name \in Innermost.left :
       LET stack == [dirs EXCEPT ![Len(dirs)].left = @ \ {name}]
       IN IF name \in {Dot, DotDot}
            THEN dirs' = stack /\ Goto("walk") /\ UNCHANGED <<input, file>>
            ELSE UNCHANGED input /\ process_input_path(<<name>>, stack)
  /\ UNCHANGED <<cmdvars, optvars, outvars, store, n_processed_files, truncated>>
  /\ UNCHANGED <<args, index, unit, documented, reported>>

(* readdir() gives the entries in any order. *)
ReadDir ==
  /\ pc = "walk" /\ dirs # <<>>
  /\ \E name \in Innermost.left :
       LET stack == [dirs EXCEPT ![Len(dirs)].left = @ \ {name}]
       IN IF name \in {Dot, DotDot}
            THEN dirs' = stack /\ Goto("walk") /\ UNCHANGED <<input, file>>
            ELSE /\ UNCHANGED input
                 /\ process_input_path(Append(Innermost.path, name), stack)
  /\ UNCHANGED <<cmdvars, optvars, outvars, store, n_processed_files, truncated>>
  /\ UNCHANGED <<args, index, unit, documented, reported>>

(* Mutant of CloseDir: the loop goes on after the NULL. *)
CloseDirNever ==
  /\ pc = "walk" /\ dirs # <<>>
  /\ Innermost.left = {}
  /\ UNCHANGED vars

(* readdir() returns NULL at the end and on an error: path_readdir() does  *)
(* not tell the two apart.                                                 *)
CloseDir ==
  /\ pc = "walk" /\ dirs # <<>>
  /\ \/ Innermost.left = {} /\ UNCHANGED truncated
     \/ Innermost.left # {}
        /\ truncated' = truncated \cup {[input |-> input, path |-> Innermost.path]}
  /\ dirs' = SubSeq(dirs, 1, Len(dirs) - 1)
  /\ UNCHANGED <<pc, status, input, n_processed_files>>
  /\ UNCHANGED <<cmdvars, optvars, cxxvars, outvars, store>>

-----------------------------------------------------------------------------
(* parse_cxx() *)

(* The arguments before the first NULL; without one the loop that copies   *)
(* them runs off the end of the array.                                     *)
UpToNull(s)    == SubSeq(s, 1, (CHOOSE k \in DOMAIN s : s[k] = Null /\ \A j \in 1 .. k - 1 : s[j] # Null) - 1)
IsTerminated(s) == \E k \in DOMAIN s : s[k] = Null

BuildArgs ==
  /\ pc = "parse_cxx"
  /\ \/ /\ IsTerminated(clang_opts.items)
        /\ args' = <<DefineDocbaker, Sysincdir>> \o UpToNull(clang_opts.items) \o <<Null>>
        /\ Goto("createIndex")
     \/ /\ IsTerminated(clang_opts.items)
        /\ UNCHANGED args
        /\ FATAL
     \/ /\ ~IsTerminated(clang_opts.items)
        /\ UNCHANGED args
        /\ Exit("undefined")
  /\ UNCHANGED <<cmdvars, optvars, walkvars, outvars, store>>
  /\ UNCHANGED <<file, index, unit, documented, reported>>

CreateIndex ==
  /\ pc = "createIndex"
  /\ \/ index' = TRUE /\ UNCHANGED reported /\ Goto("parseTranslationUnit")
     \/ /\ index' = index /\ reported' = reported \cup {file}
        /\ Goto("err_createIndex")
  /\ UNCHANGED <<cmdvars, optvars, walkvars, outvars, store>>
  /\ UNCHANGED <<file, args, unit, documented>>

(* Mutant of ParseTranslationUnit: the error path jumps one label too far. *)
ParseTranslationUnitLeaking ==
  /\ pc = "parseTranslationUnit"
  /\ \/ unit' = TRUE /\ UNCHANGED reported /\ Goto("visit")
     \/ unit' = unit /\ reported' = reported \cup {file} /\ Goto("err_createIndex")
  /\ UNCHANGED <<cmdvars, optvars, walkvars, outvars, store>>
  /\ UNCHANGED <<file, args, index, documented>>

(* libclang is told of all the arguments but the NULL. *)
ParseTranslationUnit ==
  /\ pc = "parseTranslationUnit"
  /\ \/ unit' = TRUE /\ UNCHANGED reported /\ Goto("visit")
     \/ /\ unit' = unit /\ reported' = reported \cup {file}
        /\ Goto("err_parseTranslationUnit2")
  /\ UNCHANGED <<cmdvars, optvars, walkvars, outvars, store>>
  /\ UNCHANGED <<file, args, index, documented>>

(* The functions and macros found leave no trace: store_register_file()    *)
(* and store_register_function() are stubs.                                *)
VisitChildren ==
  /\ pc = "visit"
  /\ documented' = documented \cup {[at |-> file, args |-> SubSeq(args, 1, Len(args) - 1)]}
  /\ unit' = FALSE
  /\ Goto("err_parseTranslationUnit2")
  /\ UNCHANGED <<cmdvars, optvars, walkvars, outvars, store>>
  /\ UNCHANGED <<file, args, index, reported>>

DisposeIndex ==
  /\ pc = "err_parseTranslationUnit2"
  /\ index' = FALSE
  /\ Goto("err_createIndex")
  /\ UNCHANGED <<cmdvars, optvars, walkvars, outvars, store>>
  /\ UNCHANGED <<file, args, unit, documented, reported>>

(* The end of parse_cxx() and, back in process_input_file(), the count. *)
FileProcessed ==
  /\ pc = "err_createIndex"
  /\ args' = <<>> /\ file' = <<>>
  /\ n_processed_files' = n_processed_files + 1
  /\ Goto("walk")
  /\ UNCHANGED <<cmdvars, optvars, outvars, store, input, dirs, truncated>>
  /\ UNCHANGED <<index, unit, documented, reported>>

-----------------------------------------------------------------------------
(* main(): the output *)

(* Mutant of InputsDone: generate_output() does not look at dry_run. *)
InputsDoneNotDry ==
  /\ pc = "walk" /\ dirs = <<>> /\ input = Len(argv_paths.items)
  /\ IF n_processed_files = 0
       THEN FATAL /\ UNCHANGED <<argv_paths, clang_opts>>
       ELSE /\ argv_paths' = EmptyArray /\ clang_opts' = EmptyArray
            /\ Goto("gen_html")
  /\ UNCHANGED <<enabled_generators, html_output_dir, json_output_file, dry_run>>
  /\ UNCHANGED <<cmdvars, walkvars, cxxvars, outvars, store>>

(* Mutant of InputsDone: the test that a file was processed is missing. *)
InputsDoneUncounted ==
  /\ pc = "walk" /\ dirs = <<>> /\ input = Len(argv_paths.items)
  /\ argv_paths' = EmptyArray /\ clang_opts' = EmptyArray
  /\ Goto(IF dry_run THEN "store_fini" ELSE "gen_html")
  /\ UNCHANGED <<enabled_generators, html_output_dir, json_output_file, dry_run>>
  /\ UNCHANGED <<cmdvars, walkvars, cxxvars, outvars, store>>

InputsDone ==
  /\ pc = "walk" /\ dirs = <<>> /\ input = Len(argv_paths.items)
  /\ IF n_processed_files = 0
       THEN FATAL /\ UNCHANGED <<argv_paths, clang_opts>>
       ELSE /\ argv_paths' = EmptyArray /\ clang_opts' = EmptyArray
            /\ Goto(IF dry_run THEN "store_fini" ELSE "gen_html")
  /\ UNCHANGED <<enabled_generators, html_output_dir, json_output_file, dry_run>>
  /\ UNCHANGED <<cmdvars, walkvars, cxxvars, outvars, store>>

(* mkdir() may fail because the directory is there already. *)
GenHtml ==
  /\ pc = "gen_html"
  /\ IF "HTML" \in enabled_generators
       THEN \/ html' = html_output_dir /\ Goto("gen_json")
            \/ UNCHANGED html /\ FATAL
       ELSE UNCHANGED html /\ Goto("gen_json")
  /\ UNCHANGED <<cmdvars, optvars, walkvars, cxxvars, json, store>>

OpenJson ==
  /\ pc = "gen_json"
  /\ IF "JSON" \in enabled_generators
       THEN \/ /\ json' = [path |-> json_output_file, stream |-> <<>>, disk |-> <<>>]
               /\ Goto("dump")
            \/ UNCHANGED json /\ FATAL
       ELSE UNCHANGED json /\ Goto("store_fini")
  /\ UNCHANGED <<cmdvars, optvars, walkvars, cxxvars, html, store>>

(* One call of gen_json_callback() by json_dom_dump(). *)
WriteJson ==
  /\ pc = "dump" /\ json.stream # Dump(store)
  /\ \/ /\ json' = [json EXCEPT !.stream = Append(@, Dump(store)[Len(@) + 1])]
        /\ Goto("dump")
     \/ UNCHANGED json /\ FATAL
  /\ UNCHANGED <<cmdvars, optvars, walkvars, cxxvars, html, store>>

(* What stdio still holds goes to the disk now, or part of it on an error, *)
(* which fclose() returns to nobody.                                       *)
CloseJson ==
  /\ pc = "dump" /\ json.stream = Dump(store)
  /\ \E n \in 0 .. Len(json.stream) :
       json' = [json EXCEPT !.disk = SubSeq(json.stream, 1, n)]
  /\ Goto("store_fini")
  /\ UNCHANGED <<cmdvars, optvars, walkvars, cxxvars, html, store>>

StoreFini ==
  /\ pc = "store_fini"
  /\ store' = "null"
  /\ Exit("success")
  /\ UNCHANGED <<cmdvars, optvars, walkvars, cxxvars, outvars>>

-----------------------------------------------------------------------------
Next ==
  \/ ReadCommandLine \/ EndOptions \/ StoreInit
  \/ NextInput \/ ReadDir \/ CloseDir
  \/ BuildArgs \/ CreateIndex \/ ParseTranslationUnit \/ VisitChildren
  \/ DisposeIndex \/ FileProcessed
  \/ InputsDone \/ GenHtml \/ OpenJson \/ WriteJson \/ CloseJson \/ StoreFini

Spec == Init /\ [][Next]_vars

(* The program has one thread and each system or libclang call returns. *)
FairSpec == Spec /\ WF_vars(Next)

-----------------------------------------------------------------------------
(* Properties *)

(* What the command line asked for, read off the callback invocations. *)
InputCalls == {k \in DOMAIN calls : calls[k].id = "NONE"}
Asked(id)  == \E k \in DOMAIN calls : calls[k].id = id

LastPlace(id, default, place) ==
  LET named == {k \in DOMAIN calls : calls[k].id = id /\ calls[k].arg # NoArg}
  IN IF named = {} THEN place = default
     ELSE \E k \in named : place = calls[k].arg /\ \A j \in named : j <= k

(* The two words that a call for -D, -I or -isystem stands for. *)
CxxWords(c) ==
  IF c.id \in {"CXX_D", "CXX_I", "CXX_S"}
    THEN << [dashes |-> 1, toks |-> <<IF c.id = "CXX_D" THEN "D"
                                      ELSE IF c.id = "CXX_I" THEN "I" ELSE "isystem">>],
            c.arg >>
    ELSE <<>>

(* The file or directory that a positional argument stands for. *)
PathWords(c) == IF c.id = "NONE" THEN <<c.arg>> ELSE <<>>

WordsFor(c, array) == IF array = "clang_opts" THEN CxxWords(c) ELSE PathWords(c)

(* What the calls cs put into an array, in their order. *)
Gathered(cs, array) ==
  LET words[n \in 0 .. Len(cs)] ==
        IF n = 0 THEN <<>> ELSE words[n - 1] \o WordsFor(cs[n], array)
  IN words[Len(cs)]

CxxArgs(cs)    == Gathered(cs, "clang_opts")
InputPaths(cs) == Gathered(cs, "argv_paths")

IsPrefix(p, q) == Len(p) <= Len(q) /\ p = SubSeq(q, 1, Len(p))

(* A path from an input down: each name but the last one is a directory    *)
(* and the next name is in it.                                             *)
IsPathBelow(name, p) ==
  /\ p # <<>> /\ p[1] = name
  /\ \A k \in 2 .. Len(p) :
       LET dir == SubSeq(p, 1, k - 1)
       IN path_is_dir(dir) /\ p[k] \in Entries[Target(dir)]

IsHeaderBelow(name, p) ==
  IsPathBelow(name, p) /\ ~path_is_dir(p) /\ Basename(p) \in Headers

(* The same as a set: the paths of n names and then those of n + 1, to the *)
(* depth of a path that enters each directory once between two links.      *)
MaxDepth == Cardinality(DOMAIN Entries) * (MaxLinks + 1) + 1

HeadersBelow(name) ==
  LET paths[n \in 1 .. MaxDepth] ==
        IF n = 1 THEN {<<name>>}
        ELSE UNION {{Append(p, e) : e \in Entries[Target(p)]} :
                      p \in {q \in paths[n - 1] : path_is_dir(q)}}
  IN {p \in UNION {paths[n] : n \in 1 .. MaxDepth} :
        ~path_is_dir(p) /\ Basename(p) \in Headers}

AllHeaders ==
  LET inputs == InputPaths(calls)
  IN UNION {{[input |-> n, path |-> p] : p \in HeadersBelow(inputs[n])} : n \in DOMAIN inputs}

Handled   == {d.at : d \in documented} \cup reported
Published == {g \in {"HTML", "JSON"} :
                IF g = "HTML" THEN html # Null ELSE json.stream = EmptyDict}

Outputting == pc \in {"gen_html", "gen_json", "dump", "store_fini"}
HasOutput  == html # Null \/ json # NoJson

(* Only items with a room of their own are in an array, a path is in       *)
(* parse_cxx() exactly while its statements run, and the process has ended *)
(* exactly when its status says how.                                       *)
TypeOK ==
  /\ pc \in {"options", "store_init", "walk", "parse_cxx", "createIndex",
             "parseTranslationUnit", "visit", "err_parseTranslationUnit2",
             "err_createIndex", "gen_html", "gen_json", "dump", "store_fini", "exited"}
  /\ status \in {"running", "success", "failure", "undefined"}
  /\ pc = "exited" <=> status # "running"
  /\ Len(clang_opts.items) <= clang_opts.alloc
  /\ Len(argv_paths.items) <= argv_paths.alloc
  /\ enabled_generators \subseteq {"HTML", "JSON"}
  /\ dry_run \in BOOLEAN /\ index \in BOOLEAN /\ unit \in BOOLEAN
  /\ store \in {"null", "dict"}
  /\ input \in Nat /\ n_processed_files \in Nat

(* Output appears only after every input was walked to its end and a file  *)
(* was processed, never in a dry run, and where the last option that names *)
(* a place said; HTML output is made without being asked for only if       *)
(* nothing was.  A failure while the inputs are read leaves no output.     *)
OutputsJustified ==
  HasOutput =>
    /\ Outputting \/ pc = "exited"
    /\ ~dry_run
    /\ dirs = <<>>
    /\ input = Cardinality(InputCalls)
    /\ n_processed_files > 0
    /\ html # Null => LastPlace("HTML_H", DefaultHtmlDir, html) /\ (Asked("HTML_H") \/ ~Asked("JSON_J"))
    /\ json # NoJson => LastPlace("JSON_J", DefaultJsonFile, json.path) /\ Asked("JSON_J")

Refusals == {"h", "V"} \cup Cmd!ErrorIds

(* A command line with an error, --help or --version touches nothing, even *)
(* if the word comes last: all words are read before the first input.      *)
RejectedTouchesNothing ==
  (\E k \in DOMAIN calls : calls[k].id \in Refusals) =>
    input = 0 /\ documented = {} /\ ~HasOutput /\ status # "running"

(* When the output starts, each header below each input was visited or an  *)
(* error was printed for it, once per path that leads to it, unless the    *)
(* listing of a directory above it broke off; and nothing else was.        *)
NoHeaderLost ==
  Outputting =>
    /\ n_processed_files = Cardinality(Handled)
    /\ {d.at : d \in documented} \cap reported = {}
    /\ \A h \in Handled :
         /\ h.input \in DOMAIN InputPaths(calls)
         /\ IsHeaderBelow(InputPaths(calls)[h.input], h.path)
    /\ \A h \in AllHeaders \ Handled :
         \E t \in truncated : t.input = h.input /\ IsPrefix(t.path, h.path)

(* libclang gets -DDOCBAKER, the system include path and then every -D, -I *)
(* and -isystem of the whole command line in order, whether it stands      *)
(* before or after the file, and no NULL among them.  The NULL behind them *)
(* is missing only if the array was full and could not grow for it, which  *)
(* main() does not test.                                                   *)
OptionsInForce ==
  /\ \A d \in documented : d.args = <<DefineDocbaker, Sysincdir>> \o CxxArgs(calls)
  /\ pc = "parse_cxx" /\ ~IsTerminated(clang_opts.items) => ~Fits(clang_opts, 1)

(* The goto cleanup of parse_cxx() disposes of what it created on every    *)
(* path, and the open directories are those on the way to the current one. *)
HandlesBalanced ==
  /\ unit => index
  /\ pc \in {"walk", "err_createIndex"} \/ Outputting => ~index /\ ~unit
  /\ status = "success" => dirs = <<>> /\ ~index /\ ~unit /\ store = "null"
  /\ \A k \in 2 .. Len(dirs) :
       /\ IsPrefix(dirs[k - 1].path, dirs[k].path)
       /\ Len(dirs[k].path) = Len(dirs[k - 1].path) + 1

(* The program keeps the promise of a batch tool: the command line is      *)
(* settled before the first header is handled, output comes after the last *)
(* one, and only a run that wrote all that was asked for succeeds.         *)
Promise == INSTANCE Batch WITH
  Generators <- {"HTML", "JSON"}, Verdicts <- {"failure", "undefined"},
  wanted     <- IF dry_run THEN {} ELSE enabled_generators,
  handled    <- Handled, published <- Published, verdict <- status

KeepsPromise == Promise!Spec

(* The program ends on every file system, cyclic links included. *)
Terminates == <>(pc = "exited")

=============================================================================
