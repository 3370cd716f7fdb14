---------------------------- MODULE JsonDocument ----------------------------
(***************************************************************************)
(* A document from its events to the application and out again: the tree   *)
(* that json-dom.c has built, looked at with value_path() of value.c and   *)
(* written by json_dom_dump().                                             *)
(***************************************************************************)
EXTENDS JsonDom, JsonDump

CONSTANTS
  Formats,       \* flags and tab widths of the dumps
  Ordered,       \* JSON_DOM_MAINTAINDICTORDER
  PathTexts,     \* paths the application asks for
  DumpedEvents   \* bound: the events of a document that is dumped

(* The tree as the dump meets it *)
Tree ==
  LET tree[id \in DOMAIN store \cup {0}] ==
        LET Sub(value) ==
              CASE IsContainer(value)    -> tree[value.data[1]]
                [] value.type = "NUMBER" -> init_number(value.data)
                [] OTHER                 -> value
            items == store[id].items
        IN IF id = 0 THEN Sub(root)
           ELSE IF store[id].kind = "ARRAY"
             THEN [type |-> "ARRAY", items |-> [k \in DOMAIN items |-> Sub(items[k].value)]]
           ELSE [type |-> "OBJECT", ordered |-> Ordered,
                 members |-> [k \in DOMAIN items |-> Member(items[k].key, Sub(items[k].value))]]
  IN tree[0]

-----------------------------------------------------------------------------
(* value_path() *)

Slash == 47
Nothing == Value("NOTHING", <<>>)     \* the pointer NULL

(* Mutant of IsIndex: an index has two digits at least. *)
IsLongIndex(token) == Len(token) > 3 /\ token[1] = OpenArray /\ token[Len(token)] = CloseArray

IsIndex(token) == Len(token) > 2 /\ token[1] = OpenArray /\ token[Len(token)] = CloseArray

value_array_get(value, index) ==
  IF value.type = "ARRAY" /\ index < Len(store[value.data[1]].items)
    THEN store[value.data[1]].items[index + 1].value ELSE Nothing

value_dict_get_(value, k) ==
  IF value.type # "OBJECT" THEN Nothing
  ELSE LET found == SelectSeq(store[value.data[1]].items, LAMBDA m : m.key = k)
       IN IF found = <<>> THEN Nothing ELSE found[1].value

Stepped(value, token) ==
  IF IsIndex(token)
    THEN LET digits == SelectInSeq(Rest(token), LAMBDA c : c \notin DIGIT) - 1
         IN IF token[digits + 2] # CloseArray THEN Nothing
            ELSE value_array_get(value, Natural(SubSeq(token, 2, digits + 1)))
    ELSE IF token # <<>> THEN value_dict_get_(value, token) ELSE value

(* The texts between the slashes *)
Tokens(text) ==
  LET End(k) == CHOOSE m \in k .. Len(text) + 1 :
                  /\ \A j \in k .. m - 1 : text[j] # Slash
                  /\ m <= Len(text) => text[m] = Slash
      from[k \in 1 .. Len(text) + 2] ==
        IF k > Len(text) + 1 THEN <<>> ELSE <<SubSeq(text, k, End(k) - 1)>> \o from[End(k) + 1]
  IN from[1]

value_path(text) ==
  FoldLeft(LAMBDA value, token : IF value = Nothing THEN Nothing ELSE Stepped(value, token),
           root, Tokens(text))

-----------------------------------------------------------------------------
(* Properties *)

Succeeded == phase = "done" /\ ret = "OK"
IsComplete == Succeeded /\ open = <<>>

(* The places of the tree by the words of value.h: an index in brackets,   *)
(* or a key that has no slash or bracket, and is not empty.                *)
Bracketed(n) == <<OpenArray>> \o Digits(n) \o <<CloseArray>>
IsPlainKey(k) == k # <<>> /\ \A j \in DOMAIN k : k[j] \notin {Slash, OpenArray, CloseArray}

TreePlaces ==
  LET places[id \in DOMAIN store] ==
        LET c == store[id]
            Word(j) == IF c.kind = "ARRAY" THEN Bracketed(j - 1) ELSE c.items[j].key
            Below(value) == IF IsContainer(value) THEN places[value.data[1]] ELSE {}
        IN UNION {{<<Word(j), c.items[j].value>>}
                    \cup {<<Word(j) \o <<Slash>> \o p[1], p[2]>> : p \in Below(c.items[j].value)} :
                    j \in {j \in DOMAIN c.items : c.kind = "ARRAY" \/ IsPlainKey(c.items[j].key)}}
  IN {<<<<>>, root>>} \cup (IF IsContainer(root) THEN places[root.data[1]] ELSE {})

(* value.h: value_path() gets the value at a place, "if any of those is    *)
(* not fulfilled, then NULL is returned".                                  *)
PathsFind ==
  Succeeded =>
    /\ \A place \in TreePlaces : value_path(place[1]) = place[2]
    /\ \A text \in PathTexts \ {place[1] : place \in TreePlaces} : value_path(text) = Nothing

(* The events of the tree, with the members of objects in one order *)
Listing(p) ==
  LET list[id \in DOMAIN store] ==
        LET c == store[id]
            members == IF c.kind = "ARRAY" THEN c.items
                       ELSE InDumpOrder([ordered |-> Ordered, members |-> c.items], p)
            Sub(value) == IF IsContainer(value) THEN list[value.data[1]] ELSE <<value>>
            Part(m) == (IF c.kind = "ARRAY" THEN <<>> ELSE <<Value("KEY", m.key)>>) \o Sub(m.value)
        IN <<Value(Parser!Beginning(c.kind), <<>>)>>
             \o FoldLeft(LAMBDA s, m : s \o Part(m), <<>>, members)
             \o <<Value(Parser!Ending(c.kind), <<>>)>>
  IN IF IsContainer(root) THEN list[root.data[1]] ELSE <<root>>

(* A dump of the tree is the text of a document with the same data, in the *)
(* order asked for; if a call fails, what was written is a beginning of    *)
(* it, the error is returned, and each array of keys is freed.             *)
DumpReadsBack ==
  IsComplete /\ Len(events) <= DumpedEvents =>
    \A tree \in {Tree}, p \in Formats :
      LET whole == json_dom_dump(tree, p, 99)
      IN /\ whole.ret = 0 /\ whole.held = 0
         /\ Document(whole.out) = {Listing(p)}
         /\ \A calls \in 0 .. 98 - whole.left :
              LET part == json_dom_dump(tree, p, calls)
              IN part.ret # 0 /\ part.held = 0 /\ IsPrefix(part.out, whole.out)

=============================================================================
