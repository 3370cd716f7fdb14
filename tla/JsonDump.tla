------------------------------ MODULE JsonDump ------------------------------
(***************************************************************************)
(* json_dump_string() of src/3rd_party/json.c and json_dom_dump() of       *)
(* json-dom.c.  The state of a dump is what was written, how many calls    *)
(* of the writing function and of malloc() are still to succeed, the       *)
(* arrays of keys that are allocated, and the result.  What follows a      *)
(* failed call does nothing, which is what the returns in the code are for.*)
(*                                                                         *)
(* A tree is a scalar, a number as init_number() makes it, an array with   *)
(* its items, or an object with its members in order of insertion.         *)
(***************************************************************************)
EXTENDS JsonNumbers

CONSTANTS TabsRun, SpacesRun     \* the tabs or spaces written by one call

Flags == {"MINIMIZE", "FORCECLRF", "INDENTWITHSPACES", "PREFERDICTORDER"}

Start(calls) == [out |-> <<>>, left |-> calls, held |-> 0, ret |-> 0]

(* A call that may fail, and what it does to the rest if it succeeds *)
Try(w, after) ==
  IF w.ret # 0 THEN w
  ELSE IF w.left = 0 THEN [w EXCEPT !.ret = -1]
  ELSE [after EXCEPT !.left = w.left - 1]

write_func(w, bytes) == Try(w, [w EXCEPT !.out = @ \o bytes])
malloc(w)            == Try(w, [w EXCEPT !.held = @ + 1])

-----------------------------------------------------------------------------
(* Strings *)

xdigit(n) == IF n < 10 THEN Zero + n ELSE 65 + n - 10

json_control_to_hex(ch) ==
  <<BackSlash, SmallU, Zero, Zero, xdigit(ch \div 16), xdigit(ch % 16)>>

Escaped(ch) ==
  CASE ch \in {QuoteMark, BackSlash} -> <<BackSlash, ch>>
    [] ch = 8 -> <<BackSlash, 98>>  [] ch = 12 -> <<BackSlash, 102>> [] ch = NewLine -> <<BackSlash, 110>>
    [] ch = Return -> <<BackSlash, 114>> [] ch = 9 -> <<BackSlash, 116>>
    [] OTHER  -> json_control_to_hex(ch)

IsEscaped(ch) == ch \in CONTROL \cup {QuoteMark, BackSlash}

(* What is written by each call: an escape, or plain bytes up to the next. *)
Chunks(str) ==
  LET End(k) == CHOOSE m \in k .. Len(str) + 1 :
                  /\ \A j \in k .. m - 1 : ~IsEscaped(str[j])
                  /\ m <= Len(str) => IsEscaped(str[m])
      from[k \in 1 .. Len(str) + 1] ==
        IF k > Len(str) THEN <<>>
        ELSE IF IsEscaped(str[k]) THEN <<Escaped(str[k])>> \o from[k + 1]
        ELSE <<SubSeq(str, k, End(k) - 1)>> \o from[End(k)]
  IN from[1]

json_dump_string(w, str) ==
  FoldLeft(write_func, w, <<<<QuoteMark>>>> \o Chunks(str) \o <<<<QuoteMark>>>>)

-----------------------------------------------------------------------------
(* Trees; p holds the flags and the width of a tab. *)

json_dom_dump_indent(w, nest_level, p) ==
  LET spaces == "INDENTWITHSPACES" \in p.flags
      n   == IF spaces THEN nest_level * p.tab_width ELSE nest_level
      run == IF spaces THEN SpacesRun ELSE TabsRun
      Blank(i) == [k \in 1 .. (IF run > n - i THEN n - i ELSE run) |-> IF spaces THEN Space ELSE 9]
  IN IF "MINIMIZE" \in p.flags \/ nest_level = 0 THEN w
     ELSE FoldLeft(write_func, w, [k \in 1 .. (n + run - 1) \div run |-> Blank((k - 1) * run)])

json_dom_dump_newline(w, p) ==
  CASE "MINIMIZE" \in p.flags -> w
    [] "MINIMIZE" \notin p.flags /\ "FORCECLRF" \in p.flags -> write_func(w, <<Return, NewLine>>)
    [] OTHER -> write_func(w, <<NewLine>>)

(* value_dict_default_cmp(): by bytes, a prefix first *)
KeyLess(s, t) == IsStrictPrefix(s, t) \/ \E k \in DOMAIN s \cap DOMAIN t :
                   s[k] < t[k] /\ \A j \in 1 .. k - 1 : s[j] = t[j]

InDumpOrder(node, p) ==
  IF "PREFERDICTORDER" \in p.flags /\ node.ordered THEN node.members
  ELSE SortSeq(node.members, LAMBDA m, n : KeyLess(m.key, n.key))

(* Mutant of Released: an error leaves at once. *)
ReleasedUnlessError(w, before) == IF w.ret = 0 THEN [w EXCEPT !.held = @ - 1] ELSE w

(* free() of the array of keys, if it was allocated *)
Released(w, before) == IF before.ret = 0 THEN [w EXCEPT !.held = @ - 1] ELSE w

RECURSIVE json_dom_dump_helper(_, _, _, _)

DumpScalar(w, node) ==
  CASE node.type \in DOMAIN Literals -> write_func(w, Literals[node.type])
    [] node.type = "STRING"          -> json_dump_string(w, node.data)
    [] OTHER                         -> write_func(w, DumpedNumber(node))

Separated(w, i, n, p) ==
  json_dom_dump_newline(IF i < n THEN write_func(w, <<Comma>>) ELSE w, p)

DumpArray(w, node, level, p) ==
  LET n == Len(node.items)
      Item(u, i) == Separated(json_dom_dump_helper(u, node.items[i], level + 1, p), i, n, p)
      opened == json_dom_dump_newline(write_func(w, <<OpenArray>>), p)
      filled == FoldLeft(Item, opened, [i \in 1 .. n |-> i])
  IN write_func(json_dom_dump_indent(filled, level, p), <<CloseArray>>)

DumpObject(w, node, level, p) ==
  LET n == Len(node.members)
      keys == InDumpOrder(node, p)
      colon == IF "MINIMIZE" \in p.flags THEN <<Colon>> ELSE <<Colon, Space>>
      Pair(u, i) ==
        LET k == json_dom_dump_helper(u, [type |-> "STRING", data |-> keys[i].key], level + 1, p)
        IN Separated(json_dom_dump_helper(write_func(k, colon), keys[i].value, -(level + 1), p), i, n, p)
      opened == json_dom_dump_newline(write_func(w, <<OpenObject>>), p)
      held   == malloc(opened)
      filled == IF n = 0 THEN opened
                ELSE Released(FoldLeft(Pair, held, [i \in 1 .. n |-> i]), held)
  IN write_func(json_dom_dump_indent(filled, level, p), <<CloseObject>>)

(* A negative level is that of a value behind its key. *)
json_dom_dump_helper(w, node, nest_level, p) ==
  LET begun == IF nest_level >= 0 THEN json_dom_dump_indent(w, nest_level, p) ELSE w
  IN CASE node.type = "ARRAY"  -> DumpArray(begun, node, Abs(nest_level), p)
       [] node.type = "OBJECT" -> DumpObject(begun, node, Abs(nest_level), p)
       [] OTHER                -> DumpScalar(begun, node)

json_dom_dump(root, p, calls) ==
  json_dom_dump_newline(json_dom_dump_helper(Start(calls), root, 0, p), p)

=============================================================================
