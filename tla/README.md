# docbaker in TLA+

docbaker reads C and C++ headers with libclang and writes documentation as HTML
or JSON. This directory holds TLA+ models of the program and of the libraries in
its tree, TLC configurations that check them on small instances, and theorems
that TLAPS checks for every value of the constants. Paths are relative to the
root of the repository; the program is in `src/src`, its libraries in
`src/src/3rd_party`.

## 1. The system

### Components

| component | code | state | operations | what makes it correct |
|---|---|---|---|---|
| command line reader | `3rd_party/cmdline.c` | cursor in `argv`, the group of short options, the "--" flag | `cmdline_read()`: one callback per option, letter, positional word or error | arguments as the table promises, no word lost, a stop is final |
| main program | `main.c`, `misc.h` | `argv_paths`, `clang_opts`, generators, places, `dry_run`, `n_processed_files` | option callback, input loop, recursive walk, output, `exit()` | options in force for all files; no header lost; output justified; no effect of a refused command line |
| C/C++ parsing | `parse_cxx.c` | argument array, libclang index and unit | `parse_cxx()` | handles released on each path, right arguments |
| paths and directories | `path_util.c` | one open directory per level | opendir, readdir, closedir, tests of names | each directory closed, a cyclic link ends |
| generators | `gen_html.c`, `gen_json.c` | HTML directory, JSON file | `gen_html()`, `gen_json()` | complete output at the place asked for |
| data store | `store.c` | one dictionary | `store_init()`, `store_fini()`; the registering functions are stubs | released at the end |
| array, buffer | `array.c`, `buffer.c` | block, size, room | append; also insert, remove, peek, pop, reserve, shrink, which nobody calls | a plain string of bytes; reserved room stays |
| value arrays | `value.c` | block, size, room | get, append, insert, remove, clean | a plain list; each value owned once |
| value dictionaries | `value.c` | red-black tree, order list, size | get, add, get_or_add, remove, walks, clean | balanced, sorted, list in order of insertion |
| JSON parser | `json.c` | `JSON_PARSER`: automaton, state, substate, nesting stack, buffer, positions, error | `json_init()`, `json_feed()`, `json_fini()` | what is accepted and reported does not depend on the chunks |
| JSON document model | `json-dom.c` | path of pointers to the open containers, pending key, root | builder callback, `json_dom_fini()`, dump | the tree is what the input means; nothing leaked; a dump reads back |
| scalar values | `value.c` | type byte, payload in place or in a block | initializers, conversions, `value_is_compatible()`, strings, `value_path()` | a conversion called compatible keeps the number; strings and blocks are kept |
| number utilities | `json.c` | none | analysis, conversion and dump of numbers | the first type that holds a number; round trip |
| hash, gettext, Windows variants, build | `fnv1a.c`, `misc.h`, `win32compat.h`, CMake | none | | not modelled, see section 6 |

### How they interact

`main()` runs in one thread. `cmdline_read()` calls back into
`cmdline_callback()`, which fills the arrays; then `process_input_path()` calls
itself through `process_input_dir()`, and `parse_cxx()` for each header; then the
generators run, and `gen_json()` calls `json_dom_dump()`, which calls back to
write. The value library and the JSON parser are libraries: their environment is
an application that makes any legal calls in any order. The parser gets its text
in chunks the application cuts, and calls back into it for each token. The
document builder is such a callback: it appends to arrays and dictionaries of the
value library and keeps pointers into them.

### What is hard

There are no threads and nothing is persisted. What is hard is (a) failure in
the middle: every allocation, system call and libclang call may fail, and three
ways to react are mixed (exit, message, ignored); (b) long sequences of legal
calls on a data structure with a delicate invariant (tree and order list, block
and room), and pointers into blocks that move; (c) where the chunks of a text
fall: in a number, an escape, a UTF-8 sequence, a CRLF; (d) boundaries: limits,
realloc to size zero, a path array of fixed length, widths of integers, rounding;
(e) order: options after files, output after all inputs.
`PROJECT.json` lists each such hazard with its line and the properties that
would notice it going wrong.

## 2. Modules

| module | models | state and actions against the code |
|---|---|---|
| `Cmdline` | `cmdline.c` | a step is one callback invocation, or "--". A word is the number of its dashes and the tokens the code cuts it into by comparison, so the two word buffers need no model |
| `Docbaker` | `main.c`, `parse_cxx.c`, `path_util.c`, `gen_*.c`, `store.c` | `pc` is the statement `main()` or `parse_cxx()` has come to; `dirs` is the recursion stack; each action is the code between two calls that can fail. It composes `Cmdline` (`INSTANCE`), whose callback is `cmdline_callback` |
| `Batch` | abstract | what any batch tool promises: settle what is wanted, handle inputs, publish, succeed only if what was wanted was published |
| `ValueArray` | `VALUE_ARRAY` | cells of a block, `realloc()` that may fail, sums in the width of `size_t` |
| `ValueList` | abstract | a sequence with insert, remove of a range, clear |
| `ValueDict` | `VALUE_DICT` | links and colors of the tree, the path array as a sequence, the order list. A case of the code and its mirror image are one definition with a side as parameter. A loop of the code is `Repeat`, so many rounds of what one does (`FixRemoveRound`, `Walked`, ...), as many as it can take at most; a round after a `break` changes nothing |
| `Dictionary` | abstract | the listing of the keys (sorted or in order of insertion) |
| `JsonParser` | the incremental parser | one action per kind of byte and automaton; the application decides after each byte whether the chunk ends, so every way to cut a text is a behaviour. Runs of plain bytes that the code handles in one tight loop are taken byte by byte: `parser.run` marks where they begin, which is what the code goes back to if there is no memory |
| `JsonBytes` | the character macros | bytes as numbers |
| `JsonGrammar` | reference | RFC 8259 as a declarative meaning of a text (the events of a document), and Unicode's recommended replacement of ill-formed UTF-8. It describes and does not scan, so that it shares nothing with the automata |
| `JsonEvents` | abstract | what `json.h` promises about the callbacks: one root, containers closed by their own kind, keys and values in turn |
| `JsonNumbers` | number utilities of `json.c`, `init_number()` | widths of the integer types and of the mantissa are parameters; a double is an exact multiple of 2^-`Fraction`. `strtod()` and `snprintf()` are what C promises of them, in the locale's decimal point |
| `ValueScalars` | one `VALUE` of a scalar type | initializers are actions, getters are operators of the state. Sums, casts and roundings are those of the widths, casts of doubles that do not fit those of x86-64 |
| `Buffer` | `buffer.c`, `buffer.h`, `array.c`, `array.h` | the bytes of the block, also behind `size`. Each call is an action; the stack and the array are calls on the same buffer |
| `ByteString` | abstract | a string of bytes with insertion and removal anywhere, read and pop |
| `JsonDom` | the builder of `json-dom.c` | a step is one callback, with events as `JsonEvents` allows them (`INSTANCE`), or `json_dom_fini()` at any time. Arrays and dictionaries are the lists that `ValueList` and `Dictionary` promise, and a pointer into an array names the room the array had, because growing moves its items: one that is used after that goes wild |
| `JsonDump` | `json_dump_string()`, `json_dom_dump()` | the calls of the writer and of `malloc()` in their order, of which any may fail. It uses `JsonNumbers` |
| `JsonDocument` | composition | `JsonDom` and `JsonDump` together, and `value_path()` over the tree that was built |
| `MC...` | | command lines, file systems, keys, texts and configurations for TLC |
| `RedBlackTrees` | | the invariant `Sound` of `ValueDict` and the predicates it and its proof are made of |
| `CmdlineProofs`, `DocbakerProofs`, `ValueArrayProofs`, `ValueDictProofs`, `BufferProofs`, `JsonParserProofs`, `JsonDomProofs`, `ValueScalarsProofs` | | theorems, section 4 |

Each operator named "Mutant of ..." changes one definition the way a plausible
bug would; the property it is listed for in `PROJECT.json` fails with it.

Data is abstracted to what the properties tell apart: names are tokens, a path
is the sequence of the names from a command line argument down, a value in an
array is its identity, a node of the tree is its key, the JSON output is its
sequence of written chunks. Messages, `verbose_level` and `html_skin`, which
decide nothing, are left out.

## 3. Runs

| run | question | bound | why it is enough |
|---|---|---|---|
| `cmdline` | Are options reported as the table promises, for every kind of option and word and a callback that may stop at any call? | lines of up to 3 of 16 kinds of words | an option reaches at most the next word; a third one follows "--" or a swallowed argument |
| `docbaker` | Does the whole program keep its promise on every command line, whatever fails? Is any header lost, any handle leaked, does the walk end? | lines of up to 3 of 17 words with three inputs; three command lines over a tree of two directories with a cyclic link and a dangling one, `MaxLinks` = 1 | the properties relate at most two options and one input, with every failure of memory, libclang and files; entries come in any order, a listing may break off anywhere, the same directory is met by two paths |
| `value_array` | Is the block a list, each value owned once, through all growth, shrinking and failures? | six values, indexes 0..7, `Width` = 6 bits | sizes 0 to 6 with rooms 1, 2, 4, 8 meet each growth and each shrink; the indexes go beyond the size |
| `value_dict` | Is every tree that calls can build balanced and searchable, does the path array have room, does it all behave as a dictionary, over a whole run and call by call? | ten keys without order list, `Bits` = 4; five keys, two of them equal, with it | every case of rebalancing after a removal, with a node above it, needs black height 3; head, middle and tail of the list, both cases of a removal by exchange. The view drops values, on which the shape does not depend |
| `json_parser` | Does the parser read just the documents, report tokens properly and count places right, however the text is cut? Are ill-formed strings repaired, is an error final? | any text of 6 bytes over 12, or of 7 over 8 with small limits; 25 documents and near misses, 29 x 29 pairs of units of strings, strings of up to 6 bytes at the edges of UTF-8 | objects and arrays nested in each other, number states, line ends cut by chunks, every limit reached and passed; a unit's substate ends with it, so that only its neighbour can meet it |
| `json_document` | Is the tree what the text means, with each policy for used keys? Is it all released on every way out? Does a path find its place and only that? Does a dump read back, and what if the writer fails? | 8 events, two keys (one empty), three scalars, `InitialAlloc` = 1, 42 paths, 3 formats, each document dumped | an object of two or three members, or one in an object whose array of keys is still held; an array grows three times while a container in it is open or just closed; a used key replaces a container; the path grows with each level, so that memory may fail at each |
| `scalars` | Which conversions keep a number? Which type does a JSON number get, and is its size right? Do strings keep their length and blocks their owner? Does what is dumped read back? | all integers of 6 and 10 bits; doubles of 8 and floats of 4 significant bits up to 20000 sixteenths; texts of up to 4 digits; headers of two bits a byte, so that 20 bytes have three; a decimal comma | every boundary of every type and both sides of it, numbers that are whole or not and too wide for the mantissa, the carry of a rounding, strings at both sides of the 16 bytes |
| `buffer` | Is the buffer a plain string, also as a stack and as an array, through growth, shrinking and failures? | 2 byte values, up to 6 bytes, counts 0..3, items of 2 bytes | an insertion before, within and behind the contents, with and without growth; a removal that more, as many, fewer or no bytes follow, near the end of the block too |
| `value_array_emptied`, `json_used_keys`, `scalars_integers`, `json_unfinished` | findings, section 5 | as above, small | |

`CHECK_DEADLOCK FALSE` stands in all of them because each of these programs
stops: the process exits, `argv` ends, the text ends, the bounded values and
keys are used up.

What the properties say is written above each of them. The ones that carry most:

* `KeepsPromise`: the program implements `Batch`. It relates the option
  variables, the visited headers, the output and the exit code over the whole
  run.
* `NoHeaderLost`: at the start of the output each header below each input was
  visited or complained about once per path, unless the listing of a directory
  above it broke off. `readdir()` gives NULL at the end and on an error alike,
  so that exception is the strongest statement the code allows.
* `IsList`, `IsDictionary`: the two containers implement the plain ones. `IsDictionary`
  speaks of the listing over the whole run; `EachCallKept` of the effect and the answer
  of each call on a dictionary with an order list (the view of the run drops what else
  an answer depends on), where a `value_dict_add()` may, other than `value.h` says, answer a
  value again that is still new (`GivesNewAgain`, section 5).
* `RedBlack`, `PathFits`: the invariant of `value_dict_verify()` and what the
  fixed length of `path[]` relies on.
* `ReadsDocuments`: for a text that ends with a complete token, or in a number at
  the root, accepted means being a document within the limits, with the events of
  `JsonGrammar`, for every cut. `OwnVerdict` excludes a stop by the application and
  lack of memory.
* `IsEventStream`: at any moment, also where parsing fails, the callbacks so far
  begin an event stream of `JsonEvents`.
* `PlacesRight`: line and column are those of the offset, with CRLF one line.
* `PathFollowsNesting`, `BuildsDocument`, `NothingLeaked`: the builder's pointers are
  alive and are the containers open in the text; the tree is at any time what a
  declarative reading of the events says; whatever fails, every container belongs
  to the tree and the pending key is released.
* `DumpReadsBack`: the dump of a document, read with the grammar the parser is
  checked against, has the events of the document in the order asked for; if the
  n-th call of the writer fails, for every n, the dump is a prefix, the error is
  returned and each array of keys is freed.
* `CompatibleKeepsNumber`, `NumbersKept`, `ReadsBack`: stated with exact integers and
  rationals, which the code, with its widths, texts and roundings, has to meet.
* `IsString`: insertion in front of, within and behind, growth and failure of
  `realloc()`, and removals of any size anywhere, by calls of the buffer, the stack and
  the array in any order. One case is excepted by name: a removal that more bytes
  follow than it takes away is `MovesTooFew`, which says what the code does to the string
  then (section 5).

In `json_document` containers under a used key with `JSON_DOM_DUPKEY_USEFIRST` are left
out (`NestsUsed` = FALSE), because the first of them ends in wild memory: that is the
run `json_used_keys`. In `json_parser` four inputs are left out on which its properties fail (section 5): an
escape behind a surrogate pair, a limit of zero on strings or keys, a line end in a text
that is too long, a container that may not be the root.

**Fairness.** Only `Docbaker` has any: `WF_vars(Next)` in `FairSpec`, for
`Terminates`. There is one thread and it never waits for anything but system and
libclang calls, each of which returns. `Terminates` is then a statement about
loops and recursion: the walk ends although a link leads back up, because the
system refuses a path with more than `MaxLinks` links and `stat()` then fails.
The other modules have no liveness of their own: their calls return.

## 4. Proofs

All theorems hold for every value of the constants under the named ASSUMEs of the
modules, and where a theorem has a hypothesis of its own it stands in its statement.
TLAPS has no induction over data here. Where a proof needs one (along a path, a chunk, a
line or a tree) it takes the set of counterexamples, the least number in it
(`LeastNumber`, from the well-foundedness of <), and a contradiction; recursive
functions are unfolded after it was shown that a function with their equation exists.
The inductive invariants of the parser, the document builder and the containers were
also checked by TLC on the instance of their run.

**`CmdlineProofs`** (every table, command line and set of callback results).
`TypeCorrect`: the cursor stays within one past the end, though an option may take the
word after it. `CallbackContract`: if the table is `WellFormed` (a compiler-like option
has no short name, ids differ and are not reserved), no option that needs an argument is
reported with NULL and none without the flag gets one. The argument goes by the places
of the code that call back; `TypeOK` is inductive and `ArgContract` follows from it
because only the new call has to be examined. The assumption on short names is needed:
`cmdline_handle_short_opt_group()` does not look at that flag. The other three need no
assumption. `AbortFinal` (a callback that asks to stop is not called again) rests on
`GroupOpen`: letters are left only while the callback agrees. `NoWordIsLost` counts: of
the words passed so far, each one without a dash was reported at least as often as it
stood there (`EachReported`). `AfterDoubleDash` says which "--" ended the options: those
passed are one more than those reported (`DashesCounted`), and all words since that one
were reported in order.

**`DocbakerProofs`** (every set of command lines, tree of directories and links).
`TypeCorrect`, `OutputJustified`, `RefusedUntouched`, and `PromiseKept`: `Spec =>
Batch!Spec` under the mapping in `Docbaker`. `OutputsJustified` alone is not inductive:
that HTML goes to the place of the last `--html=` needs that the variable agreed with
the calls all the time, and that output begins after all inputs needs what each value of
`pc` says about what was done. The inductive invariant is

    IInv == Types /\ Settings /\ Walk /\ Output /\ OutputsJustified

with `Types` including the type invariant of `Cmdline` for the table of `main.c` (from
`CmdlineProofs`), `Settings` the agreement of the option variables with the calls,
`Walk` how far the inputs have come and `Output` what exists at each output statement.
One lemma per action preserves it; the refinement then maps each action to `Ask`,
`Handle`, `Publish`, `Succeed`, `GiveUp` or a stutter.

`HandlesReleased`: the directories on the stack are each one below another (`Nested`),
so that a directory is closed where it was opened, and `Created` says which libclang
objects exist at each `goto` label. `OptionsReachLibclang`: `InForce` gives, for each
statement, the options as a function of all calls so far, with the NULL behind them
unless there was no room for it; the copying loop of `parse_cxx()` then ends at that
NULL and at no other.

`EveryHeaderHandled`, that no header is lost, for every file system, paths of any length and every order in which `readdir()` gives the entries. A
path is *pending* if it goes through an entry that some directory on the stack has still
to give. The invariant `Searched` says that each header below an input so far was
handled, lies below a listing that broke off, is the one in `parse_cxx()`, or is pending
(`Accounted`); that what is pending is handled by nobody yet (`SoFar`), so that nothing
is handled twice; and that the stack is one way down whose directories are not pending
themselves (`Located`). At the end the stack is empty, and nothing is pending. The
ASSUMEs say that listings are given without "." and ".." (the model adds them), that
there are finitely many directories, and that `MaxLinks` is a number.

**`ValueArrayProofs`** (any values, indexes and width). `TypeCorrect`, `OwnedOnce` and
`ListImplemented` (the block implements `ValueList`), whether `realloc(p, 0)` frees or
not, under `RangesFit`: no sum of an index and a count passes the width of `size_t`.
That is what all callers respect and the code does not test; without it the range test
at `value.c:767` passes for a wrapped sum. `Inv == TypeOK /\ EachOwnedOnce` is
inductive: the cells after an insertion or removal are computed by two lemmas and the
rest follows cell by cell. That the block is alive is not claimed: with a `realloc(p, 0)`
that frees it is false (section 5).

**`ValueDictProofs`** (any keys, any comparison with its
classes of equal keys, any width of a pointer, any calls, every failure of memory).
`DictTypeOK`, `DictRedBlack`, `DictSearchable`, `DictSortedWalk`, `DictOrderLinked`,
`DictPathFits`, `DictImplementsDictionary`: `Spec => Dictionary!Spec`, and
`DictCallsKept`: each get_or_add, add and remove is the abstract call of that name, with
the exception of `CallKept`. For `Dictionary!Spec` an add that answers a value again
is a `GetOrAdd`. None of the
six invariants is inductive: a rebalancing starts and climbs with a tree that breaks
one of the rules at one place, and finding a node needs more than that nodes are found.
The inductive invariant `Sound` (module `RedBlackTrees`) says that the nodes are linked to a tree that is
`Balanced` and, if there is an order list, to one that is `InOrder`:

    Balanced(t, N, D, Rank, B) == Sorted /\ Bare /\ Even /\ RedApart /\ the root is black

It takes two functions as witnesses, so that no induction over the tree is needed: `D`
gives the set of nodes below each node, `B` the number of black nodes on the ways down.
`Sorted` then says of each node alone that what is below its left child is what is below
it and less; `Even` that its black height is that of both children and its own color.
The first half of the module shows what one rotation, exchange, hanging or cutting does to both
functions, that a round of either repair moves the one place where a rule is broken up
the path or mends it (`InsertState`, `RemoveState`: black nodes are missing below one
link only), and that the rounds suffice. The second half adds the search (`Way`), the
walk, whose stack and keys together cover the tree (`Walking`), the list, and the bound
on the depth: a tree of black height h has at least 2^h - 1 nodes (`Populous`), and a way
down at most 2h (`WayDepth`). For the refinement, an insertion puts the key into the
listing at one place, a removal drops it at one (`Put`, `Drop`); since there is only one
ascending listing of a set (`SameEnumeration`) the rebalancing cannot show. TLC cannot
choose the witnesses; it checks the six invariants, of which `Sound` is the conjunction
made local. The ASSUMEs say that `Key` is finite, with fewer than 2^`Bits` members, which
is what memory has room for.

**`BufferProofs`** (any bytes, any sizes and positions of the calls, items of any size
that is one of them, every failure of `realloc()`). `TypeCorrect`: the bytes in use were
written and lie in the block, and so does the room that `buffer_reserve()` promised,
though removals and insertions come in between. `StringImplemented`: `Spec =>
String!Spec`, where the string is what is read of the bytes in use. `TypeOK` is
inductive by itself. Four lemmas compute the bytes after a resize, an insertion, a
removal and a `buffer_realloc()`; each action of the stack and the array is then one of
these with its own position and size, and maps to `Insert`, `Remove`, `CutAt`, `Read`,
`Pop` or `Keep`. A removal in the middle needs a comparison of sizes: if no more bytes
follow than it takes away, those that follow all move, with others behind them that are
no longer in use, and it maps to `Remove`; otherwise it is `MovesTooFew`, the exception in
`IsString` (section 5). No hypothesis is needed.

**`JsonParserProofs`** (any text, any cut into chunks, any configuration, any answer of
the callback). `TypeCorrect`; `EventStreamKept`: `Spec => JsonEvents!Spec`, that is, the
callbacks are at any time the beginning of a proper stream of events; `ErrorFinal`:
nothing is reported after the first error, and it stays. The refinement needs that the
state of the main automaton, a single byte in the code, always fits the nesting stack
and the last event:

    IInv == TypeOK /\ Control      Control == no error => Fits(parser)

`Fits` has the depth of the stack equal to that of the events, `StateFits` what each
state knows of the last event and the top of the stack, and `AutomatonFits` where each
automaton for a value may be active and what `buf` and `substate` hold then. Each action
of the automata is one lemma, and the callback another, used by all of them.

`PlacesCorrect`, that lines and columns are right for every text and every cut: `Sound` relates what the parser counts to a declarative count of the line
ends before an offset: where `pos` is, that `last_cl_offset` knows whether the byte
before it was `\r` (so that a CRLF cut by chunks, or behind a value, counts once), and
that a run of bytes not yet in `buf` is in one line. The theorem has two hypotheses, for
the two places where the code counts otherwise (section 5): no configuration refuses a
container as root (`json.c:190`), and a chunk refused for its length as a whole has no
line ends (`json.c:791`). The configurations and texts of the run satisfy both.

**`JsonDomProofs`** (any scalars, keys and policies, any failure of memory, documents of
any size). `PathFollowsText`: the pointers of the builder's path are alive and are the
containers open in the text. `AllReleased`: what is allocated is the tree, no key is
lost, a failure releases everything. Both hold if no container comes under a used key
that is kept (`~NestsUsed`); without this the path is wrong, see section 5.
`PathFollowsNesting` is not inductive: that a growing array or a replaced value leaves
the path alone needs that they are not above it. The invariant

    DomInv == DomTypes /\ IsTree(root, store, Len(events)) /\ KeyInTurn /\ PathFollowsNesting /\ ...

says that the store is a tree in which each container is younger than the one it is in
(`Younger`), is in one only (`OneOwner`), and is the root or in one (`Owned`). Then the
containers on the path get younger one by one, all writes go to the youngest or to
something in it, and the addresses above it keep their block (`PathKept`). For a value
that is replaced, `Pruned` shows that exactly what was in it goes: `Within` is the least
closed set, so a container that had another owner could be left out of it. `AllWithin`
shows with the least container outside that a store that is such a tree has nothing else
in it. `KeyInTurn` is what the builder owes to the order of the events.
`DocumentBuilt` (same hypothesis) says that after every event the tree is what the events
mean, with the reference definition of `JsonDom` (`Members`), which counts depths and
knows no path. Its invariant `DocInv` adds to `DomInv` that the containers on the path
are the events that are open at their depth (`InText`), and that the waiting key is that
of the event before (`KeyRead`). The argument is about a sequence of events and the same
with one more (`Grown`): only the innermost open container gets a child, which is the
last of its list (`OrderGrows`). Among the children of an object those of one key form a
class; the new one joins a class, of which the first and the last child are what counts
(`ClassesMore`), or makes one, and the policy picks accordingly (`KeyListsGrow`). The other
half shows that each callback changes just that list of the tree (`Became`, `Fitted`).

**`ValueScalarsProofs`** (any widths of the integer types, of `int`, `size_t` and a group
of the header, any significant bits of float and double, any texts). The provers know
nothing of powers: 2^n is the number of subsets of 1..n (`FS_SUBSET`), which gives its
sum and its order (`PowerSum`, `PowerGrows`).
`StringsKept`: the header of a string is a chain of quotients whose groups carry a flag up
to the last (`Groups`); reading adds the groups up to the length again, and neither the
shift as an `int` nor the sum wraps for a length below 2^(`IntBits` - 1), the bound of
`Lengths`. The invariant `BlockInv` also has that a value is malloced exactly if its
payload, with the byte of the type, exceeds the VALUE.
`CompatibleKept`: the invariant `NumberInv` says that a payload is a number of its type
(`Holds`), also one read from JSON (`ReadIs`). Between integer types the comparisons of
`value_is_compatible()` are then the ranges. From a double or float, the code converts
to the integer type and back and compares; the argument is that nothing which got lost
could come back. A number is `Exact` if it is a multiple of a power of two with few
enough bits; rounding makes an exact number and leaves one alone (`NearestExact`,
`ExactStays`), and cutting off the fraction, keeping the low bits and the least value that
stands for overflow keep it exact (`TruncatedExact`, `LowBitsExact`, `MinExact`). So the
way back does not round, unless a negative number became an unsigned one, whose sign
differs (`ToIntegerExact`). The ASSUMEs say that an `int` is no wider than a `size_t`
and that `Doubles` are doubles.

**Only model-checked:**

* `Terminates`, because liveness under fairness is out of the prover's reach.
* `ReadsDocuments`, `StringsRepaired`: what is read from a text is what it means. The
  reference definition recurs over the text (`JsonGrammar`).
* `PathsFind`, `DumpReadsBack`: the dump (`JsonDump`) is a RECURSIVE operator, which takes
  away the SMT prover from each module above it. For containers under a used key that is kept,
  `BuildsDocument` is false (section 5).
* `NumbersKept`, `ReadsBack`: the number that a decimal text means, for every text, is an
  induction over its digits on both sides, and `%lg` writes the nearest decimal number of
  six digits. `CompatibleKept` needs of a text only that it gives a number of its type.

## 5. Findings

The runs with expectation "violation" show, with the line the code departs from
quoted in `PROJECT.json`:

* `value_array_emptied`: removing the only item shrinks the block to zero.
  `realloc()` frees it and returns NULL, which is taken for a failure; the array
  keeps the freed pointer.
* `json_used_keys`: with `JSON_DOM_DUPKEY_USEFIRST` the builder returns before it pushes a
  container under a used key on its path. The members of that container go into the
  object around it, and its end pops that object.
* `scalars_integers`: the loop that makes the digits of an integer makes none for 0,
  and for -5 the character in front of `0`, because `%` keeps the sign.
* `json_unfinished`: a text that ends in a number or literal inside a container (`[1`)
  is accepted, since `json_fini()` looks at the nesting only if no value is being read,
  and so is half a literal (`n` for `null`), since `json_literal_automaton()` does not
  look at how much of it was read when the text ends.

Known differences between code and comments that have no run of their own. The
models follow the code in all of them:

* `cmdline.c:82`: `fast_optarg_decision` never becomes 0, so a compiler-like option
  whose name has no dash is not found (`cmdline.h:45`). `main.c` has none.
* `cmdline.c:53`: a group of letters finds compiler-like options by their short
  name, which `cmdline.h:40` says is ignored. `WellFormed` excludes it.
* `gen_json.c:46`: the result of `fclose()` is ignored, so a full disk may end in
  success. `json.disk` in the model is what arrived; nothing is claimed of it.
* `value.c:1067`: `value_dict_add()` refuses a key only if its value was initialized;
  `value.h:308` says if it is used. `Dictionary` follows the header; `CallKept` names the
  case, and `DictCallsKept` shows that such a call always answers the item.
* `main.c:266`: the append of the NULL that ends `clang_opts` is the one whose result
  nobody tests. `OptionsInForce` says that the NULL is missing only if there was no
  room and no memory for it; `parse_cxx()` then runs past the array.
* `json.c:690`: after a surrogate pair the high surrogate is not forgotten (it is reset
  only for an orphan, 681 and 723), so that a `\u` escape later in the text is refused,
  which the comment at 656 does not say. The texts of the run have none there.
* `json.c:475`, `479`: `max_key_len` and `max_string_len` of zero allow only
  empty strings instead of any (`json.h:111`). The runs use other limits.
* `json.c:791`: when the whole text is too long, the lines are counted from the
  bytes behind those that are passed. The texts with limits have no line ends.
* `json.c:190`: a container that may not be the root is reported at line 0. The
  configuration of the limits forbids a number as root instead.
* `json.c:213`: a stop by the application leaves `err_pos` at line 0.
* `json.c:1231`: the loop for old `snprintf()` implementations prints into the old
  block and never stores the new one, and `json.c:1263` searches again what it removed.
  Neither is reached with the C library of today and `%lg`, and both are left out.
* `json.c:1194`: infinities and NaN, which no JSON text makes, are dumped as `inf.0`
  and `nan.0`. `%lg` writes six digits, so a double that is read again is another one
  that is dumped alike; that is what `ReadsBack` says.
* `value.h:81`: the half that is added for rounding is lost or carried in odd whole
  doubles from 2^52 on (floats from 2^23), which are then called incompatible with
  integer types that hold them. `CompatibleKeepsNumber` claims only the other
  direction for doubles.
* `value.c:207`: the cast of a double that does not fit is undefined in C. The model
  takes what x86-64 does; with it no conversion that changes the number is allowed.
* `value.c:657`: a group of the length is shifted as an `int`, so the length of a string
  of 2 GiB or more is wrong. `Lengths` stays below.
* `value.h:100`: a path has no way to name an empty key, and an index too large for
  `size_t` wraps. `PathsFind` claims nothing of them.
* `value.c:767`: `index + count` wraps for huge ranges, which then pass the test. The
  runs and theorems have ranges that fit (`RangesFit`).
* `buffer.c:81`: a removal in the middle moves as many bytes as it removes instead of all
  that follow. If more follow, those behind the ones that moved stay where they were, so
  that an array of three items is wrong after its first was removed. The model takes all
  these calls; the case is the exception `MovesTooFew` of `IsString`, and the theorem
  `RemovalLeavesStale` says that each such call is the wrong removal unless the bytes
  repeat. The program itself only clears its arrays. If fewer bytes follow, the string is right, but `memmove()` reads
  behind what is in use, and behind the block too if that is nearly full (`Garbage`).
* `buffer.c:48`, `65`: the sums and the doubling wrap at the width of `size_t`, which no
  block of memory reaches.

## 6. Not modelled

* Truncation of paths at `PATH_MAX` by `snprintf()` in the walk: it takes a path of 4096
  bytes. Names have no length in the model.
* `gettext`, `fnv1a.c` (linked and never called), the Windows branches, the
  build: no behaviour of this program.
* The sizes of the parser's buffer and nesting stack: any append may run out of
  memory in the model, which includes the ones that have room.
* The body of the cursor visitor in `parse_cxx.c`: the store functions it calls
  are stubs, so it leaves no trace.
* The exponent range of a double, its infinities and NaN, and the sign of a zero.
* The parser below the document builder in `json_document`: the builder is composed with
  `JsonEvents`, which the parser was shown to keep to (`IsEventStream`).

## 7. Plan

Done: the program with its command line, the containers, the parser, the document
model, the scalars, the buffer; theorems about all of them. Next:

1. `NumbersKept` for integers: that `json_analyze_number()`, which compares texts, picks the
   range a number is in.
2. `PATH_MAX` in the walk, with a bound on the length of a path.
