------------------------------ MODULE JsonDom ------------------------------
(***************************************************************************)
(* The builder of src/3rd_party/json-dom.c: it turns the events of the     *)
(* parser, which come as module JsonEvents says, into a tree of values.    *)
(* A container is named by the number of the event that began it, arrays   *)
(* and dictionaries are lists of members as ValueList and Dictionary       *)
(* promise them, and a number is known by its text (see JsonNumbers).      *)
(***************************************************************************)
EXTENDS Integers, Sequences, FiniteSets

CONSTANTS
  Scalars,       \* the events of values that are no containers
  Keys,          \* the data of the events of keys
  Policies,      \* for a key that is used again
  NestsUsed,     \* whether a container may come under a used key
  InitialAlloc,  \* of the path, 32 in the code
  MaxEvents      \* bound: the number of events

ASSUME DomAssumption ==
  /\ Policies \subseteq {"ABORT", "USEFIRST", "USELAST"} /\ NestsUsed \in BOOLEAN
  /\ InitialAlloc \in Nat \ {0} /\ MaxEvents \in Nat

VARIABLES
  events, open, keyed,   \* what the parser has called back, see JsonEvents
  policy,
  root,                  \* the value at the root
  store,                 \* containers that are allocated: kind and members
  path, path_alloc,      \* addresses of the open containers
  key,                   \* the key that waits for its value, if any
  ret, phase,            \* result so far, and whether json_dom_fini() was called
  leaked                 \* a key was overwritten that was not released

vars == <<events, open, keyed, policy, root, store, path, path_alloc, key, ret, phase, leaked>>

Types == [k \in DOMAIN events |-> events[k].type]

Parser == INSTANCE JsonEvents WITH types <- Types

ASSUME ScalarsType == \A event \in Scalars : event.type \in Parser!ScalarTypes

-----------------------------------------------------------------------------
(* Values and where they are *)

Value(type, data) == [type |-> type, data |-> data]

Null == Value("NULL", <<>>)
New  == Value("NEW", <<>>)      \* VALUE_NULL with the flag IS_NEW
Container(kind, id) == Value(kind, <<id>>)

IsContainer(value) == value.type \in Parser!Kinds

Member(k, value) == [key |-> k, value |-> value]

Init ==
  /\ events = <<>> /\ Parser!Init
  /\ policy \in Policies
  /\ root = Null /\ store = [id \in {} |-> Null]
  /\ path = <<>> /\ path_alloc = 0 /\ key = <<>>
  /\ ret = "OK" /\ phase = "parsing" /\ leaked = FALSE

(* The room of an array that got n items, one after the other; growing     *)
(* moves the items.                                                        *)
Capacity(n) ==
  IF n = 0 THEN 0
  ELSE CHOOSE c \in {2 ^ e : e \in 0 .. n} : c >= n /\ \A d \in {2 ^ e : e \in 0 .. n} : d >= n => c <= d

Block(container) == IF container.kind = "ARRAY" THEN Capacity(Len(container.items)) ELSE 0

(* An address is a place in a container and the block it was in.           *)
Address(home, at, block) == [home |-> home, at |-> at, block |-> block]
RootAddress == Address(0, 0, 0)

Alive(a) ==
  \/ a = RootAddress
  \/ /\ a.home \in DOMAIN store /\ a.at \in DOMAIN store[a.home].items
     /\ a.block = Block(store[a.home])

At(a) == IF a = RootAddress THEN root ELSE store[a.home].items[a.at].value

(* Writes a value at an address of a store. *)
Write(a, value, containers) ==
  IF a = RootAddress THEN root' = value /\ store' = containers
  ELSE store' = [containers EXCEPT ![a.home].items[a.at].value = value] /\ UNCHANGED root

(* The containers in a value: the least set that holds its own and, with a *)
(* container, those of the members.                                        *)
Within(value, containers) ==
  LET IsClosed(S) ==
        \A id \in S : \A j \in DOMAIN containers[id].items :
          LET member == containers[id].items[j].value
          IN IsContainer(member) => member.data[1] \in S
  IN IF IsContainer(value)
       THEN {id \in DOMAIN containers :
               \A S \in SUBSET DOMAIN containers : value.data[1] \in S /\ IsClosed(S) => id \in S}
       ELSE {}

value_fini(value, containers) ==
  [id \in DOMAIN containers \ Within(value, containers) |-> containers[id]]

-----------------------------------------------------------------------------
(* json_dom_process() *)

Top == path[Len(path)]
Parent == store[At(Top).data[1]]

Result(code) == ret' = code

Push(a) ==
  \/ /\ path' = Append(path, a)
     /\ path_alloc' = IF Len(path) < path_alloc THEN path_alloc
                      ELSE IF path_alloc = 0 THEN InitialAlloc ELSE 2 * path_alloc
     /\ UNCHANGED ret
  \/ /\ Len(path) >= path_alloc      \* no memory
     /\ Result("OUTOFMEMORY") /\ UNCHANGED <<path, path_alloc>>

KindOf(event) == IF event.type = "ARRAY_BEG" THEN "ARRAY" ELSE "OBJECT"

(* The new value at an address of a store gets what the event says.        *)
Initialize(event, a, old, containers) ==
  \/ /\ event.type \in Parser!ScalarTypes
     /\ Write(a, event, containers)
     /\ UNCHANGED <<path, path_alloc, ret>>
  \/ /\ event.type \in {Parser!Beginning(kind) : kind \in Parser!Kinds}
     /\ LET id == Len(events) + 1
            begun == [kind |-> KindOf(event), items |-> <<>>]
        IN Write(a, Container(KindOf(event), id),
                 [i \in DOMAIN containers \cup {id} |-> IF i = id THEN begun ELSE containers[i]])
     /\ Push(a)
  \/ /\ event.type \notin {"NULL", "FALSE", "TRUE"}      \* no memory
     /\ Write(a, IF event.type = "NUMBER" THEN old ELSE Null, containers)
     /\ Result("OUTOFMEMORY")
     /\ UNCHANGED <<path, path_alloc>>

NoMemory ==
  Result("OUTOFMEMORY") /\ UNCHANGED <<root, store, path, path_alloc>>

WithMember(id, m) == [store EXCEPT ![id].items = Append(@, m)]

AddToArray(event) ==
  LET id == At(Top).data[1]
      n  == Len(Parent.items) + 1
  IN /\ \/ Initialize(event, Address(id, n, Capacity(n)), New, WithMember(id, Member(<<>>, New)))
        \/ NoMemory
     /\ UNCHANGED <<key, leaked>>

(* Without a key the string of VALUE_NULL is used, which is empty. *)
KeyData == IF key = <<>> THEN <<>> ELSE key[1]
Places(k) == {j \in DOMAIN Parent.items : Parent.items[j].key = k}

(* Mutant of UsedKey: the bits of the policy are not told apart. *)
UsedKeyUnmasked(event, id, j) ==
  IF policy # "ABORT" THEN UNCHANGED <<root, store, path, path_alloc, ret>>
  ELSE Result("DUPKEY") /\ UNCHANGED <<root, store, path, path_alloc>>

(* With USEFIRST nothing more is done, also if a container begins. *)
UsedKey(event, id, j) ==
  CASE policy = "USEFIRST" -> UNCHANGED <<root, store, path, path_alloc, ret>>
    [] policy = "USELAST"  ->
         Initialize(event, Address(id, j, 0), Null,
                    value_fini(Parent.items[j].value, [store EXCEPT ![id].items[j].value = Null]))
    [] policy = "ABORT"    -> Result("DUPKEY") /\ UNCHANGED <<root, store, path, path_alloc>>

AddToDict(event) ==
  LET id   == At(Top).data[1]
      used == {j \in Places(KeyData) : Parent.items[j].value # New}
  IN /\ \/ \E j \in used : UsedKey(event, id, j)
        \/ /\ used = {}
           /\ \/ Initialize(event, Address(id, Len(Parent.items) + 1, 0), New,
                            WithMember(id, Member(KeyData, New)))
              \/ NoMemory
     /\ key' = <<>> /\ UNCHANGED leaked

(* The parent is no container any more: value_dict_get_or_add_() refuses   *)
(* a value of another type.                                                *)
AddToOther == NoMemory /\ key' = <<>> /\ UNCHANGED leaked

AddValue(event) ==
  CASE path = <<>>  -> Initialize(event, RootAddress, root, store) /\ UNCHANGED <<key, leaked>>
    [] path # <<>> /\ At(Top).type = "ARRAY"  -> AddToArray(event)
    [] path # <<>> /\ At(Top).type = "OBJECT" -> AddToDict(event)
    [] OTHER -> AddToOther

StoreKey(event) ==
  /\ \/ key' = <<event.data>> /\ leaked' = (leaked \/ key # <<>>) /\ UNCHANGED ret
     \/ Result("OUTOFMEMORY") /\ UNCHANGED <<key, leaked>>
  /\ UNCHANGED <<root, store, path, path_alloc>>

(* Mutant of PopPath: the end of an object leaves its path. *)
PopPathOfArray(event) ==
  /\ path' = IF event.type = "ARRAY_END" THEN SubSeq(path, 1, Len(path) - 1) ELSE path
  /\ UNCHANGED <<root, store, path_alloc, key, ret, leaked>>

(* Below an empty path is memory of something else. *)
PopPath(event) ==
  /\ IF path = <<>> THEN Result("WILD") /\ UNCHANGED path
     ELSE path' = SubSeq(path, 1, Len(path) - 1) /\ UNCHANGED ret
  /\ UNCHANGED <<root, store, path_alloc, key, leaked>>

Ends == {Parser!Ending(kind) : kind \in Parser!Kinds}

json_dom_process(event) ==
  IF path # <<>> /\ event.type \notin Ends \cup {"KEY"} /\ ~Alive(Top)
    THEN Result("WILD") /\ UNCHANGED <<root, store, path, path_alloc, key, leaked>>
    ELSE CASE event.type \in Ends  -> PopPath(event)
           [] event.type = "KEY"   -> StoreKey(event)
           [] OTHER                -> AddValue(event)

-----------------------------------------------------------------------------
AllEvents ==
  Scalars \cup {Value("KEY", k) : k \in Keys}
    \cup {Value(type, <<>>) : type \in Ends \cup {Parser!Beginning(kind) : kind \in Parser!Kinds}}

(* The keys of the object that is open, of which one is used a second time *)
NestsUnderUsed(event) ==
  /\ event.type \in {Parser!Beginning(kind) : kind \in Parser!Kinds}
  /\ policy = "USEFIRST" /\ Parser!InObject /\ path # <<>> /\ Places(KeyData) # {}

Process(event) ==
  /\ phase = "parsing" /\ ret = "OK" /\ Len(events) < MaxEvents
  /\ NestsUsed \/ ~NestsUnderUsed(event)
  /\ events' = Append(events, event)
  /\ Parser!Next
  /\ json_dom_process(event)
  /\ UNCHANGED <<policy, phase>>

(* json_fini() may accept a text that ends in a number or literal inside   *)
(* of a container, and may refuse whatever stands behind a document.       *)
MayAccept ==
  /\ ret = "OK" /\ events # <<>>
  /\ open = <<>> \/ events[Len(events)].type \in {"NUMBER", "NULL", "FALSE", "TRUE"}

(* Mutant of json_dom_fini: the key is released on success only. *)
json_dom_fini_keeping ==
  /\ phase = "parsing" /\ phase' = "done"
  /\ \/ MayAccept /\ key' = <<>> /\ UNCHANGED <<root, store, ret>>
     \/ /\ root' = Null /\ store' = value_fini(root, store)
        /\ ret' = IF ret = "OK" THEN "SYNTAX" ELSE ret
        /\ UNCHANGED key
  /\ path' = <<>> /\ path_alloc' = 0
  /\ UNCHANGED <<events, open, keyed, policy, leaked>>

json_dom_fini ==
  /\ phase = "parsing" /\ phase' = "done"
  /\ \/ MayAccept /\ UNCHANGED <<root, store, ret>>
     \/ /\ root' = Null /\ store' = value_fini(root, store)
        /\ ret' = IF ret = "OK" THEN "SYNTAX" ELSE ret
  /\ key' = <<>> /\ path' = <<>> /\ path_alloc' = 0
  /\ UNCHANGED <<events, open, keyed, policy, leaked>>

Next == (\E event \in AllEvents : Process(event)) \/ json_dom_fini

Spec == Init /\ [][Next]_vars

-----------------------------------------------------------------------------
(* Properties *)

(* The path holds the containers that are open in the text, each in the    *)
(* one before, by addresses that no growing of an array and no replacing   *)
(* of a value has made stale.                                              *)
PathFollowsNesting ==
  phase = "parsing" /\ ret = "OK" =>
    /\ Len(path) = Len(open)
    /\ \A k \in DOMAIN path :
         /\ Alive(path[k]) /\ At(path[k]).type = open[k]
         /\ path[k].home = IF k = 1 THEN 0 ELSE At(path[k - 1]).data[1]

(* What the events mean: each belongs to the last container that was begun *)
(* before it and not ended.                                                *)
Begins(j) == Types[j] \in {"ARRAY_BEG", "OBJECT_BEG"}
Depth(k) == Cardinality({j \in 1 .. k - 1 : Begins(j)}) - Cardinality({j \in 1 .. k - 1 : Types[j] \in Ends})

IsChild(k, j) ==
  /\ Types[k] \notin Ends \cup {"KEY"} /\ j < k /\ Depth(k) = Depth(j) + 1
  /\ \A i \in j + 1 .. k : Depth(i) > Depth(j)

Meant(k) == IF Begins(k) THEN Container(KindOf(events[k]), k) ELSE events[k]

(* The k that satisfy a condition, in order *)
InOrder(S) == [n \in 1 .. Cardinality(S) |-> CHOOSE k \in S : Cardinality({j \in S : j < k}) = n - 1]

Members(j) ==
  LET children == {k \in DOMAIN events : IsChild(k, j)}
      SameKey(k) == {i \in children : events[i - 1].data = events[k - 1].data}
      First(S) == InOrder(S)[1]
      Last(S)  == InOrder(S)[Cardinality(S)]
      firsts == InOrder({k \in children : k = First(SameKey(k))})
      listed == InOrder(children)
  IN IF Types[j] = "ARRAY_BEG" THEN [n \in DOMAIN listed |-> Member(<<>>, Meant(listed[n]))]
     ELSE [n \in DOMAIN firsts |->
             Member(events[firsts[n] - 1].data,
                    Meant(IF policy = "USELAST" THEN Last(SameKey(firsts[n])) ELSE firsts[n]))]

(* json-dom.h: the value "contains all the data from the JSON input".  At  *)
(* any time the tree is what the events so far mean, with the policy for   *)
(* keys that come again.                                                   *)
BuildsDocument ==
  ret = "OK" =>
    /\ events # <<>> => root = Meant(1)
    /\ \A id \in DOMAIN store : store[id].kind = KindOf(events[id]) /\ store[id].items = Members(id)

(* Every container is part of the tree, on each way out of an error too,   *)
(* and no key is left: json-dom.h: "free any resources associated with     *)
(* the parser", and "the value pointed by p_dom is initialized to          *)
(* VALUE_NULL" on failure.                                                 *)
NothingLeaked ==
  /\ DOMAIN store = Within(root, store)
  /\ ~leaked
  /\ phase = "done" => key = <<>> /\ (ret # "OK" => root = Null /\ store = [id \in {} |-> Null])

=============================================================================
