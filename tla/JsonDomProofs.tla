---------------------------- MODULE JsonDomProofs ---------------------------
(***************************************************************************)
(* Proofs about JsonDom, for every document and every call that runs out   *)
(* of memory, if no container comes under a used key: the builder's path   *)
(* holds living addresses of the containers open in the text, every        *)
(* container is released or part of the tree, and the tree is what the     *)
(* events mean. The shape of the tree comes first, then what each write    *)
(* leaves of it, then the steps; the second half is about the meaning, for *)
(* any sequence of events and one that has an event more.                  *)
(***************************************************************************)
EXTENDS JsonDom, SequenceTheorems, FiniteSetTheorems, WellFoundedInduction, TLAPS

LEMMA LeastNumber ==
  ASSUME NEW T, T \subseteq Nat, T # {}
  PROVE  \E n \in T : \A m \in T : n <= m
<1> DEFINE R == {ss \in Nat \X Nat : ss[1] < ss[2]}
<1>1. IsWellFoundedOn(R, Nat)
  BY NatLessThanWellFounded DEF OpToRel
<1>2. \A x, y \in Nat : x < y => <<x, y>> \in R
  OBVIOUS
<1> HIDE DEF R
<1>3. PICK n \in T : \A m \in T : ~ (<<m, n>> \in R)
  BY <1>1, WFMin
<1>4. ASSUME NEW m \in T
      PROVE  n <= m
  <2>1. ~ (m < n)
    BY <1>2, <1>3
  <2> QED
    BY <2>1
<1> QED
  BY <1>3, <1>4

-----------------------------------------------------------------------------
(* The tree *)

Id == Nat \ {0}
Val == Scalars \cup {Null, New} \cup {Container(kind, id) : kind \in Parser!Kinds, id \in Id}
Item == [key : {<<>>} \cup Keys, value : Val]
Content == [kind : Parser!Kinds, items : Seq(Item)]

ValueAt(S, c, j) == S[c].items[j].value
Slots(S, c) == DOMAIN S[c].items
Held(S, c, j) == IF IsContainer(ValueAt(S, c, j)) THEN ValueAt(S, c, j).data[1] ELSE 0

(* A member that is a container is a younger one of that kind.             *)
Younger(S) ==
  \A c \in DOMAIN S : \A j \in Slots(S, c) : Held(S, c, j) # 0 =>
    /\ Held(S, c, j) \in DOMAIN S /\ c < Held(S, c, j)
    /\ S[Held(S, c, j)].kind = ValueAt(S, c, j).type

OneOwner(S) ==
  \A c, d \in DOMAIN S : \A i \in Slots(S, c), j \in Slots(S, d) :
    Held(S, c, i) # 0 /\ Held(S, c, i) = Held(S, d, j) => c = d /\ i = j

(* Every container is the root or a member of another.                     *)
Owned(r, S) ==
  \A w \in DOMAIN S :
    (w = 1 /\ IsContainer(r)) \/ \E c \in DOMAIN S : \E j \in Slots(S, c) : Held(S, c, j) = w

IsTree(r, S, n) ==
  /\ S \in [DOMAIN S -> Content] /\ DOMAIN S \subseteq 1 .. n
  /\ r \in Val
  /\ IsContainer(r) => r.data[1] = 1 /\ 1 \in DOMAIN S /\ S[1].kind = r.type
  /\ Younger(S) /\ OneOwner(S) /\ Owned(r, S)

Addresses == {Address(home, at, block) : home \in Nat, at \in Nat, block \in {0} \cup {Capacity(n) : n \in Nat}}

(* A key waits only for the value that takes it. *)
KeyInTurn ==
  /\ keyed => Parser!InObject
  /\ key # <<>> => keyed

DomTypes ==
  /\ policy \in Policies
  /\ events \in Seq(AllEvents) /\ open \in Seq(Parser!Kinds) /\ path \in Seq(Addresses)
  /\ key = <<>> \/ \E k \in Keys : key = <<k>>

Released == key = <<>> /\ (ret # "OK" => root = Null /\ store = [id \in {} |-> Null])

(* The inductive invariant *)
DomInv ==
  /\ DomTypes
  /\ IsTree(root, store, Len(events))
  /\ phase = "parsing" /\ ret = "OK" => KeyInTurn
  /\ PathFollowsNesting
  /\ ~leaked
  /\ phase = "done" => Released

-----------------------------------------------------------------------------
(* Values and members *)

LEMMA ValueFacts ==
  /\ Null \in Val /\ New \in Val /\ ~IsContainer(Null) /\ ~IsContainer(New)
  /\ \A v \in Val : IsContainer(v) =>
       v.data[1] \in Id /\ v.type \in Parser!Kinds /\ v = Container(v.type, v.data[1])
  /\ \A v \in Scalars : v \in Val /\ ~IsContainer(v)
  /\ \A kind \in Parser!Kinds : \A id \in Id :
       LET v == Container(kind, id)
       IN v \in Val /\ IsContainer(v) /\ v.type = kind /\ v.data[1] = id
<1>1. Null.type = "NULL" /\ New.type = "NEW"
  BY DEF Null, New, Value
<1>2. /\ Null \in Val /\ New \in Val /\ ~IsContainer(Null) /\ ~IsContainer(New)
  BY <1>1 DEF Val, IsContainer, Parser!Kinds
<1>3. \A v \in Scalars : v \in Val /\ ~IsContainer(v)
  BY ScalarsType DEF Val, IsContainer, Parser!Kinds, Parser!ScalarTypes
<1>4. ASSUME NEW kind \in Parser!Kinds, NEW id \in Id
      PROVE  LET v == Container(kind, id)
             IN v \in Val /\ IsContainer(v) /\ v.type = kind /\ v.data[1] = id
  BY DEF Val, IsContainer, Container, Value
<1>5. ASSUME NEW v \in Val, IsContainer(v)
      PROVE  v.data[1] \in Id /\ v.type \in Parser!Kinds /\ v = Container(v.type, v.data[1])
  <2>1. PICK kind \in Parser!Kinds, id \in Id : v = Container(kind, id)
    BY <1>2, <1>3, <1>5 DEF Val
  <2>2. v.type = kind /\ v.data[1] = id
    BY <2>1, <1>4
  <2> QED
    BY <2>1, <2>2
<1> QED
  BY <1>2, <1>3, <1>4, <1>5

(* A store in terms of its members. *)
LEMMA StoreFacts ==
  ASSUME NEW S, S \in [DOMAIN S -> Content], NEW c \in DOMAIN S
  PROVE  /\ S[c].kind \in Parser!Kinds /\ S[c].items \in Seq(Item)
         /\ Len(S[c].items) \in Nat /\ Slots(S, c) = 1 .. Len(S[c].items)
         /\ \A j \in Slots(S, c) : S[c].items[j] \in Item /\ ValueAt(S, c, j) \in Val
<1>1. S[c] \in Content
  OBVIOUS
<1>2. S[c].kind \in Parser!Kinds /\ S[c].items \in Seq(Item)
  BY <1>1 DEF Content
<1>3. Len(S[c].items) \in Nat /\ Slots(S, c) = 1 .. Len(S[c].items)
      /\ \A j \in 1 .. Len(S[c].items) : S[c].items[j] \in Item
  BY <1>2, LenProperties, ElementOfSeq DEF Slots
<1>4. \A i \in Item : i.value \in Val
  BY DEF Item
<1> QED
  BY <1>2, <1>3, <1>4 DEF ValueAt

LEMMA HeldFacts ==
  ASSUME NEW S, S \in [DOMAIN S -> Content], NEW c \in DOMAIN S, NEW j \in Slots(S, c)
  PROVE  /\ Held(S, c, j) \in Nat
         /\ Held(S, c, j) # 0 <=> IsContainer(ValueAt(S, c, j))
         /\ IsContainer(ValueAt(S, c, j)) => Held(S, c, j) = ValueAt(S, c, j).data[1]
BY StoreFacts, ValueFacts DEF Held, Id

-----------------------------------------------------------------------------
(* Writes into a store *)

Writes(S, h, at, v) == [S EXCEPT ![h].items[at].value = v]

LEMMA WrittenStore ==
  ASSUME NEW S, S \in [DOMAIN S -> Content], NEW h \in DOMAIN S, NEW at \in Slots(S, h), NEW v \in Val
  PROVE  LET W == Writes(S, h, at, v)
         IN /\ DOMAIN W = DOMAIN S /\ W \in [DOMAIN W -> Content]
            /\ \A c \in DOMAIN S : c # h => W[c] = S[c]
            /\ W[h].kind = S[h].kind /\ Len(W[h].items) = Len(S[h].items) /\ Slots(W, h) = Slots(S, h)
            /\ \A j \in Slots(S, h) : ValueAt(W, h, j) = IF j = at THEN v ELSE ValueAt(S, h, j)
<1> DEFINE items == S[h].items
           item  == items[at]
           item2 == [item EXCEPT !.value = v]
           items2 == [items EXCEPT ![at] = item2]
           content2 == [S[h] EXCEPT !.items = items2]
           W == Writes(S, h, at, v)
<1>1. W = [S EXCEPT ![h] = content2]
  BY DEF Writes
<1>2. S[h] \in Content /\ items \in Seq(Item) /\ at \in 1 .. Len(items) /\ item \in Item
      /\ Slots(S, h) = 1 .. Len(items)
  BY StoreFacts
<1>3. item2 \in Item /\ item2.value = v
  BY <1>2 DEF Item
<1> HIDE DEF item2
<1>4. /\ items2 \in Seq(Item) /\ Len(items2) = Len(items) /\ DOMAIN items2 = 1 .. Len(items)
      /\ \A j \in 1 .. Len(items) : items2[j] = IF j = at THEN item2 ELSE items[j]
  BY <1>2, <1>3, ExceptSeq
<1> HIDE DEF items2
<1>5. content2 \in Content /\ content2.kind = S[h].kind /\ content2.items = items2
  BY <1>2, <1>4 DEF Content
<1> HIDE DEF content2
<1>6. /\ DOMAIN W = DOMAIN S /\ W \in [DOMAIN S -> Content] /\ W[h] = content2
      /\ \A c \in DOMAIN S : c # h => W[c] = S[c]
  BY <1>1, <1>5
<1> HIDE DEF W
<1>7. \A j \in Slots(S, h) : ValueAt(W, h, j) = IF j = at THEN v ELSE ValueAt(S, h, j)
  BY <1>2, <1>3, <1>4, <1>5, <1>6 DEF ValueAt
<1>8. W[h].kind = S[h].kind /\ Len(W[h].items) = Len(S[h].items) /\ Slots(W, h) = Slots(S, h)
  BY <1>2, <1>4, <1>5, <1>6 DEF Slots
<1> QED
  BY <1>6, <1>7, <1>8 DEF W

Appends(S, h, m) == [S EXCEPT ![h].items = Append(@, m)]

LEMMA AppendedStore ==
  ASSUME NEW S, S \in [DOMAIN S -> Content], NEW h \in DOMAIN S, NEW m \in Item
  PROVE  LET W == Appends(S, h, m)
             n == Len(S[h].items)
         IN /\ DOMAIN W = DOMAIN S /\ W \in [DOMAIN W -> Content]
            /\ \A c \in DOMAIN S : c # h => W[c] = S[c]
            /\ W[h].kind = S[h].kind /\ Len(W[h].items) = n + 1 /\ Slots(W, h) = 1 .. n + 1
            /\ \A j \in 1 .. n : ValueAt(W, h, j) = ValueAt(S, h, j)
            /\ ValueAt(W, h, n + 1) = m.value
<1> DEFINE items == S[h].items
           n == Len(items)
           items2 == Append(items, m)
           content2 == [S[h] EXCEPT !.items = items2]
           W == Appends(S, h, m)
<1>1. W = [S EXCEPT ![h] = content2]
  BY DEF Appends
<1>2. S[h] \in Content /\ items \in Seq(Item) /\ n \in Nat
  BY StoreFacts
<1>3. /\ items2 \in Seq(Item) /\ Len(items2) = n + 1 /\ DOMAIN items2 = 1 .. n + 1
      /\ \A j \in 1 .. n : items2[j] = items[j]
      /\ items2[n + 1] = m
  BY <1>2, AppendProperties, LenProperties
<1> HIDE DEF items2
<1>4. content2 \in Content /\ content2.kind = S[h].kind /\ content2.items = items2
  BY <1>2, <1>3 DEF Content
<1> HIDE DEF content2
<1>5. /\ DOMAIN W = DOMAIN S /\ W \in [DOMAIN S -> Content] /\ W[h] = content2
      /\ \A c \in DOMAIN S : c # h => W[c] = S[c]
  BY <1>1, <1>4
<1> HIDE DEF W
<1> QED
  BY <1>3, <1>4, <1>5 DEF ValueAt, Slots, W

-----------------------------------------------------------------------------
(* What a write leaves of the tree *)

(* A store whose containers hold what they did in another. *)
SameHolding(S, T) ==
  /\ T \in [DOMAIN T -> Content] /\ DOMAIN T = DOMAIN S
  /\ \A c \in DOMAIN S :
       /\ T[c].kind = S[c].kind
       /\ \A j \in Slots(S, c) :
            j \in Slots(T, c) /\ Held(T, c, j) = Held(S, c, j)
            /\ (Held(S, c, j) # 0 => ValueAt(T, c, j) = ValueAt(S, c, j))
       /\ \A j \in Slots(T, c) : Held(T, c, j) # 0 => j \in Slots(S, c)

LEMMA SameTree ==
  ASSUME NEW r, NEW S, NEW T, NEW n, IsTree(r, S, n), SameHolding(S, T)
  PROVE  IsTree(r, T, n)
<1>1. /\ S \in [DOMAIN S -> Content] /\ DOMAIN S \subseteq 1 .. n /\ r \in Val
      /\ Younger(S) /\ OneOwner(S) /\ Owned(r, S)
      /\ IsContainer(r) => r.data[1] = 1 /\ 1 \in DOMAIN S /\ S[1].kind = r.type
  BY DEF IsTree
<1>2. Younger(T)
  BY <1>1 DEF SameHolding, Younger
<1>3. OneOwner(T)
  BY <1>1 DEF SameHolding, OneOwner
<1>4. Owned(r, T)
  BY <1>1 DEF SameHolding, Owned
<1> QED
  BY <1>1, <1>2, <1>3, <1>4 DEF IsTree, SameHolding

(* A value that is no container takes the place of another such. *)
LEMMA PlainWrite ==
  ASSUME NEW r, NEW S, NEW n, IsTree(r, S, n),
         NEW h \in DOMAIN S, NEW at \in Slots(S, h), NEW v \in Val,
         ~IsContainer(v), ~IsContainer(ValueAt(S, h, at))
  PROVE  IsTree(r, Writes(S, h, at, v), n)
<1> DEFINE W == Writes(S, h, at, v)
<1>1. S \in [DOMAIN S -> Content]
  BY DEF IsTree
<1>2. /\ DOMAIN W = DOMAIN S /\ W \in [DOMAIN W -> Content]
      /\ \A c \in DOMAIN S : c # h => W[c] = S[c]
      /\ W[h].kind = S[h].kind /\ Slots(W, h) = Slots(S, h)
      /\ \A j \in Slots(S, h) : ValueAt(W, h, j) = IF j = at THEN v ELSE ValueAt(S, h, j)
  BY <1>1, WrittenStore
<1> HIDE DEF W
<1>3. \A c \in DOMAIN S : c # h => Slots(W, c) = Slots(S, c) /\ \A j \in Slots(S, c) : ValueAt(W, c, j) = ValueAt(S, c, j)
  BY <1>2 DEF Slots, ValueAt
<1>4. \A c \in DOMAIN S : \A j \in Slots(S, c) : Held(W, c, j) = Held(S, c, j)
  BY <1>2, <1>3 DEF Held
<1>5. Held(S, h, at) = 0
  BY DEF Held
<1>6. SameHolding(S, W)
  BY <1>2, <1>3, <1>4, <1>5 DEF SameHolding
<1> QED
  BY <1>6, SameTree DEF W

(* A member that is no container comes to the end of a container. *)
LEMMA PlainAppend ==
  ASSUME NEW r, NEW S, NEW n, IsTree(r, S, n), NEW h \in DOMAIN S, NEW m \in Item, ~IsContainer(m.value)
  PROVE  IsTree(r, Appends(S, h, m), n)
<1> DEFINE W == Appends(S, h, m)
           k == Len(S[h].items)
<1>1. S \in [DOMAIN S -> Content]
  BY DEF IsTree
<1>2. /\ DOMAIN W = DOMAIN S /\ W \in [DOMAIN W -> Content]
      /\ \A c \in DOMAIN S : c # h => W[c] = S[c]
      /\ W[h].kind = S[h].kind /\ Slots(W, h) = 1 .. k + 1
      /\ \A j \in 1 .. k : ValueAt(W, h, j) = ValueAt(S, h, j)
      /\ ValueAt(W, h, k + 1) = m.value
  BY <1>1, AppendedStore
<1>3. k \in Nat /\ Slots(S, h) = 1 .. k
  BY <1>1, StoreFacts
<1> HIDE DEF W, k
<1>4. \A c \in DOMAIN S : c # h => Slots(W, c) = Slots(S, c) /\ \A j \in Slots(S, c) : ValueAt(W, c, j) = ValueAt(S, c, j)
  BY <1>2 DEF Slots, ValueAt
<1>5. \A c \in DOMAIN S : \A j \in Slots(S, c) : Held(W, c, j) = Held(S, c, j)
  BY <1>2, <1>3, <1>4 DEF Held
<1>6. Held(W, h, k + 1) = 0
  BY <1>2 DEF Held
<1>7. \A j \in Slots(W, h) : j \in Slots(S, h) \/ j = k + 1
  BY <1>2, <1>3
<1>8. \A j \in Slots(S, h) : j \in Slots(W, h)
  BY <1>2, <1>3
<1>9. \A c \in DOMAIN S : c # h => \A j \in Slots(S, c) : j \in Slots(W, c) /\ ValueAt(W, c, j) = ValueAt(S, c, j)
  BY <1>4
<1>10. \A j \in Slots(S, h) : ValueAt(W, h, j) = ValueAt(S, h, j)
  BY <1>2, <1>3
<1>11. SameHolding(S, W)
  <2>1. ASSUME NEW c \in DOMAIN S
        PROVE  /\ W[c].kind = S[c].kind
               /\ \A j \in Slots(S, c) :
                    j \in Slots(W, c) /\ Held(W, c, j) = Held(S, c, j)
                    /\ (Held(S, c, j) # 0 => ValueAt(W, c, j) = ValueAt(S, c, j))
               /\ \A j \in Slots(W, c) : Held(W, c, j) # 0 => j \in Slots(S, c)
    <3>1. CASE c = h
      BY <1>2, <1>5, <1>6, <1>7, <1>8, <1>10, <3>1
    <3>2. CASE c # h
      BY <1>2, <1>4, <1>5, <3>2
    <3> QED
      BY <3>1, <3>2
  <2> QED
    BY <1>2, <2>1 DEF SameHolding
<1> QED
  BY <1>11, SameTree DEF W

(* The container that begins is the youngest. *)
Began(S, id, kind) ==
  [i \in DOMAIN S \cup {id} |-> IF i = id THEN [kind |-> kind, items |-> <<>>] ELSE S[i]]

LEMMA BeganStore ==
  ASSUME NEW S, S \in [DOMAIN S -> Content], NEW id, id \notin DOMAIN S, NEW kind \in Parser!Kinds
  PROVE  LET W == Began(S, id, kind)
         IN /\ DOMAIN W = DOMAIN S \cup {id} /\ W \in [DOMAIN W -> Content]
            /\ \A c \in DOMAIN S : W[c] = S[c] /\ Slots(W, c) = Slots(S, c)
                                   /\ \A j \in Slots(S, c) : ValueAt(W, c, j) = ValueAt(S, c, j)
            /\ W[id].kind = kind /\ Slots(W, id) = {}
<1> DEFINE begun == [kind |-> kind, items |-> <<>>]
           W == Began(S, id, kind)
<1>1. <<>> \in Seq(Item) /\ DOMAIN <<>> = {}
  BY EmptySeq
<1>2. begun \in Content /\ begun.kind = kind /\ begun.items = <<>>
  BY <1>1 DEF Content
<1> HIDE DEF begun
<1>3. W = [i \in DOMAIN S \cup {id} |-> IF i = id THEN begun ELSE S[i]]
  BY DEF Began, begun
<1>4. /\ DOMAIN W = DOMAIN S \cup {id} /\ W[id] = begun
      /\ \A c \in DOMAIN S : W[c] = S[c]
  BY <1>3
<1>5. W \in [DOMAIN S \cup {id} -> Content]
  BY <1>2, <1>3
<1> HIDE DEF W
<1> QED
  BY <1>1, <1>2, <1>4, <1>5 DEF Slots, ValueAt, W

LEMMA BeginsInTree ==
  ASSUME NEW r, NEW S, NEW n \in Nat, IsTree(r, S, n),
         NEW h \in DOMAIN S, NEW at \in Slots(S, h), ~IsContainer(ValueAt(S, h, at)), NEW kind \in Parser!Kinds
  PROVE  LET W == Writes(Began(S, n + 1, kind), h, at, Container(kind, n + 1))
         IN /\ IsTree(r, W, n + 1)
            /\ h < n + 1
            /\ \A c \in DOMAIN S : c # h => c \in DOMAIN W /\ W[c] = S[c]
            /\ h \in DOMAIN W /\ W[h].kind = S[h].kind /\ Len(W[h].items) = Len(S[h].items)
            /\ at \in Slots(W, h) /\ ValueAt(W, h, at) = Container(kind, n + 1)
<1> DEFINE id == n + 1
           B == Began(S, id, kind)
           v == Container(kind, id)
           W == Writes(B, h, at, v)
<1>1. /\ S \in [DOMAIN S -> Content] /\ DOMAIN S \subseteq 1 .. n /\ r \in Val
      /\ Younger(S) /\ OneOwner(S) /\ Owned(r, S)
      /\ IsContainer(r) => r.data[1] = 1 /\ 1 \in DOMAIN S /\ S[1].kind = r.type
  BY DEF IsTree
<1>2. id \in Id /\ id \notin DOMAIN S /\ h \in 1 .. n
  BY <1>1 DEF Id
<1>3. v \in Val /\ IsContainer(v) /\ v.type = kind /\ v.data[1] = id
  BY <1>2, ValueFacts
<1> HIDE DEF v
<1>4. /\ DOMAIN B = DOMAIN S \cup {id} /\ B \in [DOMAIN B -> Content]
      /\ \A c \in DOMAIN S : B[c] = S[c] /\ Slots(B, c) = Slots(S, c)
                             /\ \A j \in Slots(S, c) : ValueAt(B, c, j) = ValueAt(S, c, j)
      /\ B[id].kind = kind /\ Slots(B, id) = {}
  BY <1>1, <1>2, BeganStore
<1> HIDE DEF B
<1>5. /\ DOMAIN W = DOMAIN B /\ W \in [DOMAIN W -> Content]
      /\ \A c \in DOMAIN B : c # h => W[c] = B[c]
      /\ W[h].kind = B[h].kind /\ Len(W[h].items) = Len(B[h].items) /\ Slots(W, h) = Slots(B, h)
      /\ \A j \in Slots(B, h) : ValueAt(W, h, j) = IF j = at THEN v ELSE ValueAt(B, h, j)
  BY <1>3, <1>4, WrittenStore
<1> HIDE DEF W
<1>6. \A c \in DOMAIN W : c # h => W[c] = B[c] /\ Slots(W, c) = Slots(B, c) /\ \A j \in Slots(B, c) : ValueAt(W, c, j) = ValueAt(B, c, j)
  BY <1>5 DEF Slots, ValueAt
<1>7. /\ DOMAIN W = DOMAIN S \cup {id}
      /\ \A c \in DOMAIN S : Slots(W, c) = Slots(S, c) /\ W[c].kind = S[c].kind
      /\ W[id].kind = kind /\ Slots(W, id) = {}
      /\ \A c \in DOMAIN S : \A j \in Slots(S, c) :
           ValueAt(W, c, j) = IF c = h /\ j = at THEN v ELSE ValueAt(S, c, j)
  BY <1>2, <1>4, <1>5, <1>6
<1>8. \A c \in DOMAIN S : \A j \in Slots(S, c) :
        Held(W, c, j) = IF c = h /\ j = at THEN id ELSE Held(S, c, j)
  BY <1>3, <1>7 DEF Held
<1>9. Held(S, h, at) = 0 /\ id # 0
  BY <1>2 DEF Held
<1>10. \A c \in DOMAIN S : \A j \in Slots(S, c) : Held(S, c, j) # id
  BY <1>1, <1>2, <1>9 DEF Younger
<1>11. Younger(W)
  <2> SUFFICES ASSUME NEW c \in DOMAIN W, NEW j \in Slots(W, c), Held(W, c, j) # 0
               PROVE  /\ Held(W, c, j) \in DOMAIN W /\ c < Held(W, c, j)
                      /\ W[Held(W, c, j)].kind = ValueAt(W, c, j).type
    BY DEF Younger
  <2>1. c \in DOMAIN S /\ j \in Slots(S, c)
    BY <1>7
  <2>2. CASE c = h /\ j = at
    BY <1>2, <1>3, <1>7, <1>8, <2>1, <2>2
  <2>3. CASE ~(c = h /\ j = at)
    <3>1. Held(W, c, j) = Held(S, c, j) /\ ValueAt(W, c, j) = ValueAt(S, c, j)
      BY <1>7, <1>8, <2>1, <2>3
    <3>2. Held(S, c, j) \in DOMAIN S /\ c < Held(S, c, j) /\ S[Held(S, c, j)].kind = ValueAt(S, c, j).type
      BY <1>1, <2>1, <3>1 DEF Younger
    <3> QED
      BY <1>7, <3>1, <3>2
  <2> QED
    BY <2>2, <2>3
<1>12. OneOwner(W)
  <2> SUFFICES ASSUME NEW c \in DOMAIN W, NEW d \in DOMAIN W, NEW i \in Slots(W, c), NEW j \in Slots(W, d),
                      Held(W, c, i) # 0, Held(W, c, i) = Held(W, d, j)
               PROVE  c = d /\ i = j
    BY DEF OneOwner
  <2>1. c \in DOMAIN S /\ i \in Slots(S, c) /\ d \in DOMAIN S /\ j \in Slots(S, d)
    BY <1>7
  <2> QED
    BY <1>1, <1>8, <1>10, <2>1 DEF OneOwner
<1>13. Owned(r, W)
  <2> SUFFICES ASSUME NEW w \in DOMAIN W, ~(w = 1 /\ IsContainer(r))
               PROVE  \E c \in DOMAIN W : \E j \in Slots(W, c) : Held(W, c, j) = w
    BY DEF Owned
  <2>1. CASE w = id
    BY <1>7, <1>8, <2>1
  <2>2. CASE w # id
    <3>1. PICK c \in DOMAIN S : \E j \in Slots(S, c) : Held(S, c, j) = w
      BY <1>1, <1>7, <2>2 DEF Owned
    <3>2. PICK j \in Slots(S, c) : Held(S, c, j) = w
      BY <3>1
    <3>3. w # 0
      BY <1>1, <1>7, <2>2
    <3>4. ~(c = h /\ j = at)
      BY <1>9, <3>2, <3>3
    <3> QED
      BY <1>7, <1>8, <3>2, <3>4
  <2> QED
    BY <2>1, <2>2
<1>14. IsTree(r, W, id)
  <2>1. DOMAIN W \subseteq 1 .. id
    BY <1>1, <1>2, <1>7
  <2>2. IsContainer(r) => r.data[1] = 1 /\ 1 \in DOMAIN W /\ W[1].kind = r.type
    BY <1>1, <1>7
  <2> QED
    BY <1>1, <1>5, <1>11, <1>12, <1>13, <2>1, <2>2 DEF IsTree
<1>15. \A c \in DOMAIN S : c # h => c \in DOMAIN W /\ W[c] = S[c]
  BY <1>4, <1>5, <1>6
<1>16. h \in DOMAIN W /\ W[h].kind = S[h].kind /\ Len(W[h].items) = Len(S[h].items)
       /\ at \in Slots(W, h) /\ ValueAt(W, h, at) = v /\ h < id
  BY <1>1, <1>2, <1>4, <1>5, <1>7
<1> QED
  BY <1>14, <1>15, <1>16 DEF W, B, v

(* The root comes first, when there is nothing yet. *)
LEMMA EmptyTree ==
  ASSUME NEW r, NEW S, IsTree(r, S, 0)
  PROVE  /\ DOMAIN S = {} /\ ~IsContainer(r)
         /\ \A v \in Val : ~IsContainer(v) => IsTree(v, S, 1)
         /\ \A kind \in Parser!Kinds : IsTree(Container(kind, 1), Began(S, 1, kind), 1)
<1>1. DOMAIN S = {} /\ ~IsContainer(r) /\ S \in [DOMAIN S -> Content]
  BY DEF IsTree
<1>2. ASSUME NEW v \in Val, ~IsContainer(v) PROVE IsTree(v, S, 1)
  BY <1>1, <1>2 DEF IsTree, Younger, OneOwner, Owned
<1>3. ASSUME NEW kind \in Parser!Kinds PROVE IsTree(Container(kind, 1), Began(S, 1, kind), 1)
  <2> DEFINE v == Container(kind, 1)
             W == Began(S, 1, kind)
  <2>1. v \in Val /\ IsContainer(v) /\ v.type = kind /\ v.data[1] = 1
    BY ValueFacts DEF Id
  <2>2. DOMAIN W = {1} /\ W \in [DOMAIN W -> Content] /\ W[1].kind = kind /\ Slots(W, 1) = {}
    <3>1. /\ DOMAIN W = DOMAIN S \cup {1} /\ W \in [DOMAIN W -> Content]
          /\ \A c \in DOMAIN S : W[c] = S[c] /\ Slots(W, c) = Slots(S, c)
                                 /\ \A j \in Slots(S, c) : ValueAt(W, c, j) = ValueAt(S, c, j)
          /\ W[1].kind = kind /\ Slots(W, 1) = {}
      BY <1>1, BeganStore
    <3> HIDE DEF W
    <3> QED
      BY <1>1, <3>1
  <2> HIDE DEF v, W
  <2>3. Younger(W) /\ OneOwner(W) /\ Owned(v, W)
    BY <2>1, <2>2 DEF Younger, OneOwner, Owned
  <2>4. IsTree(v, W, 1)
    BY <2>1, <2>2, <2>3 DEF IsTree
  <2> QED
    BY <2>4 DEF v, W
<1> QED
  BY <1>1, <1>2, <1>3

LEMMA TreeGrows ==
  ASSUME NEW r, NEW S, NEW n \in Nat, IsTree(r, S, n)
  PROVE  IsTree(r, S, n + 1)
<1>1. DOMAIN S \subseteq 1 .. n + 1
  BY DEF IsTree
<1> QED
  BY <1>1 DEF IsTree

-----------------------------------------------------------------------------
(* What belongs to a container *)

ClosedIn(X, S) == \A c \in X : \A j \in Slots(S, c) : Held(S, c, j) # 0 => Held(S, c, j) \in X

LEMMA WithinFacts ==
  ASSUME NEW v, NEW S, S \in [DOMAIN S -> Content], IsContainer(v)
  PROVE  /\ Within(v, S) \subseteq DOMAIN S
         /\ v.data[1] \in DOMAIN S => v.data[1] \in Within(v, S)
         /\ ClosedIn(DOMAIN S, S) => ClosedIn(Within(v, S), S)
         /\ \A X \in SUBSET DOMAIN S : v.data[1] \in X /\ ClosedIn(X, S) => Within(v, S) \subseteq X
<1> DEFINE IsClosed(X) ==
             \A id \in X : \A j \in DOMAIN S[id].items :
               LET member == S[id].items[j].value
               IN IsContainer(member) => member.data[1] \in X
           R == Within(v, S)
<1>1. R = {id \in DOMAIN S : \A X \in SUBSET DOMAIN S : v.data[1] \in X /\ IsClosed(X) => id \in X}
  BY DEF Within
<1>2. ASSUME NEW X \in SUBSET DOMAIN S PROVE IsClosed(X) <=> ClosedIn(X, S)
  BY HeldFacts DEF ClosedIn, Slots, ValueAt
<1> HIDE DEF IsClosed, R
<1>3. \A id \in DOMAIN S :
        id \in R <=> \A X \in SUBSET DOMAIN S : v.data[1] \in X /\ ClosedIn(X, S) => id \in X
  BY <1>1, <1>2
<1>4. R \subseteq DOMAIN S
  BY <1>1
<1>5. ASSUME ClosedIn(DOMAIN S, S), NEW c \in R, NEW j \in Slots(S, c), Held(S, c, j) # 0
      PROVE  Held(S, c, j) \in R
  <2>1. Held(S, c, j) \in DOMAIN S
    BY <1>4, <1>5 DEF ClosedIn
  <2>2. ASSUME NEW X \in SUBSET DOMAIN S, v.data[1] \in X, ClosedIn(X, S)
        PROVE  Held(S, c, j) \in X
    <3>1. c \in X
      BY <1>3, <1>4, <2>2
    <3> QED
      BY <1>5, <2>2, <3>1 DEF ClosedIn
  <2> QED
    BY <1>3, <2>1, <2>2
<1>6. v.data[1] \in DOMAIN S => v.data[1] \in R
  BY <1>3
<1>7. ASSUME NEW X \in SUBSET DOMAIN S, v.data[1] \in X, ClosedIn(X, S) PROVE R \subseteq X
  BY <1>3, <1>4, <1>7
<1> QED
  BY <1>4, <1>5, <1>6, <1>7 DEF ClosedIn, R

(* Nothing but the tree is allocated. *)
LEMMA AllWithin ==
  ASSUME NEW r, NEW S, NEW n \in Nat, IsTree(r, S, n)
  PROVE  DOMAIN S = Within(r, S)
<1>1. /\ S \in [DOMAIN S -> Content] /\ DOMAIN S \subseteq Nat
      /\ Younger(S) /\ Owned(r, S)
      /\ IsContainer(r) => r.data[1] = 1 /\ 1 \in DOMAIN S
  BY DEF IsTree
<1>2. ASSUME NEW X, X \subseteq DOMAIN S, IsContainer(r) => 1 \in X, ClosedIn(X, S)
      PROVE  DOMAIN S \subseteq X
  <2> DEFINE Bad == DOMAIN S \ X
  <2>1. SUFFICES ASSUME Bad # {} PROVE FALSE
    OBVIOUS
  <2>2. Bad \subseteq Nat
    BY <1>1
  <2> HIDE DEF Bad
  <2>3. PICK w \in Bad : \A m \in Bad : w <= m
    BY <2>1, <2>2, LeastNumber
  <2>4. w \in DOMAIN S /\ w \notin X
    BY DEF Bad
  <2>5. ~(w = 1 /\ IsContainer(r))
    BY <1>2, <2>4
  <2>6. PICK c \in DOMAIN S : \E j \in Slots(S, c) : Held(S, c, j) = w
    BY <1>1, <2>4, <2>5 DEF Owned
  <2>7. PICK j \in Slots(S, c) : Held(S, c, j) = w
    BY <2>6
  <2>8. CASE w = 0
    <3>1. ~IsContainer(r) \/ 1 \in X
      BY <1>2
    <3>2. 0 \notin DOMAIN S
      BY DEF IsTree
    <3> QED
      BY <2>4, <2>8, <3>2
  <2>9. CASE w # 0
    <3>1. c < w /\ c \in Nat /\ w \in Nat
      BY <1>1, <2>4, <2>7, <2>9 DEF Younger
    <3>2. c \notin Bad
      BY <2>3, <3>1
    <3>3. c \in X
      BY <3>2 DEF Bad
    <3> QED
      BY <1>2, <2>4, <2>7, <2>9, <3>3 DEF ClosedIn
  <2> QED
    BY <2>8, <2>9
<1>3. CASE IsContainer(r)
  <2>1. ClosedIn(DOMAIN S, S)
    BY <1>1 DEF ClosedIn, Younger
  <2>2. Within(r, S) \subseteq DOMAIN S /\ 1 \in Within(r, S) /\ ClosedIn(Within(r, S), S)
    BY <1>1, <1>3, <2>1, WithinFacts
  <2> QED
    BY <1>2, <2>2
<1>4. CASE ~IsContainer(r)
  <2>1. Within(r, S) = {}
    BY <1>4 DEF Within
  <2>2. ClosedIn({}, S)
    BY DEF ClosedIn
  <2>3. DOMAIN S \subseteq {}
    BY <1>2, <1>4, <2>2
  <2> QED
    BY <2>1, <2>3
<1> QED
  BY <1>3, <1>4

(* A value that is replaced takes with it what it holds, which is younger  *)
(* than the container it was in, and nothing else.                         *)
LEMMA Pruned ==
  ASSUME NEW r, NEW S, NEW n \in Nat, IsTree(r, S, n), NEW h \in DOMAIN S, NEW at \in Slots(S, h)
  PROVE  LET W == Writes(S, h, at, Null)
             T == value_fini(ValueAt(S, h, at), W)
         IN /\ IsTree(r, T, n)
            /\ h \in DOMAIN T /\ T[h].kind = S[h].kind /\ Len(T[h].items) = Len(S[h].items)
            /\ at \in Slots(T, h) /\ ValueAt(T, h, at) = Null
            /\ \A c \in DOMAIN S : c < h => c \in DOMAIN T /\ T[c] = S[c]
<1> DEFINE v == ValueAt(S, h, at)
           W == Writes(S, h, at, Null)
           R == Within(v, W)
           T == value_fini(v, W)
<1>1. /\ S \in [DOMAIN S -> Content] /\ DOMAIN S \subseteq 1 .. n /\ r \in Val
      /\ Younger(S) /\ OneOwner(S) /\ Owned(r, S)
      /\ IsContainer(r) => r.data[1] = 1 /\ 1 \in DOMAIN S /\ S[1].kind = r.type
  BY DEF IsTree
<1>2. /\ DOMAIN W = DOMAIN S /\ W \in [DOMAIN W -> Content]
      /\ \A c \in DOMAIN S : c # h => W[c] = S[c]
      /\ W[h].kind = S[h].kind /\ Len(W[h].items) = Len(S[h].items) /\ Slots(W, h) = Slots(S, h)
      /\ \A j \in Slots(S, h) : ValueAt(W, h, j) = IF j = at THEN Null ELSE ValueAt(S, h, j)
  BY <1>1, ValueFacts, WrittenStore
<1>3. T = [id \in DOMAIN W \ R |-> W[id]]
  BY DEF value_fini
<1>4. DOMAIN T = DOMAIN S \ R /\ \A c \in DOMAIN T : T[c] = W[c]
  BY <1>2, <1>3
<1>5. T \in [DOMAIN T -> Content]
  BY <1>2, <1>3
<1>6. v = ValueAt(S, h, at)
  OBVIOUS
<1> HIDE DEF v, W, T, R
<1>7. /\ \A c \in DOMAIN S : W[c].kind = S[c].kind /\ Slots(W, c) = Slots(S, c)
      /\ \A c \in DOMAIN S : \A j \in Slots(S, c) :
           ValueAt(W, c, j) = IF c = h /\ j = at THEN Null ELSE ValueAt(S, c, j)
  <2>1. \A c \in DOMAIN S : c # h =>
          W[c].kind = S[c].kind /\ Slots(W, c) = Slots(S, c) /\ \A j \in Slots(S, c) : ValueAt(W, c, j) = ValueAt(S, c, j)
    BY <1>2 DEF Slots, ValueAt
  <2> QED
    BY <1>2, <2>1
<1>8. \A c \in DOMAIN S : \A j \in Slots(S, c) :
        Held(W, c, j) = IF c = h /\ j = at THEN 0 ELSE Held(S, c, j)
  BY <1>7, ValueFacts DEF Held
<1>9. \A c \in DOMAIN T : Slots(T, c) = Slots(S, c) /\ T[c].kind = S[c].kind
                          /\ \A j \in Slots(S, c) : ValueAt(T, c, j) = ValueAt(W, c, j) /\ Held(T, c, j) = Held(W, c, j)
  BY <1>4, <1>7 DEF Slots, ValueAt, Held
<1>10. ClosedIn(DOMAIN W, W)
  BY <1>1, <1>2, <1>7, <1>8 DEF ClosedIn, Younger
<1>11. ASSUME IsContainer(v)
       PROVE  /\ Held(S, h, at) \in R /\ ClosedIn(R, W) /\ R \subseteq DOMAIN S
              /\ \A x \in R : h < x
              /\ \A c \in DOMAIN S \ R : \A j \in Slots(S, c) : Held(W, c, j) # 0 => Held(W, c, j) \notin R
  <2> DEFINE w == v.data[1]
  <2>1. Held(S, h, at) = w /\ w # 0 /\ w \in DOMAIN S /\ h < w
    BY <1>1, <1>6, <1>11, HeldFacts DEF Younger
  <2> HIDE DEF w
  <2>2. /\ R \subseteq DOMAIN S /\ w \in R /\ ClosedIn(R, W)
        /\ \A X \in SUBSET DOMAIN S : w \in X /\ ClosedIn(X, W) => R \subseteq X
    BY <1>2, <1>10, <1>11, <2>1, WithinFacts DEF w, R
  <2>3. \A x \in R : h < x
    <3> DEFINE X == {x \in DOMAIN S : h < x}
    <3>1. \A x, y \in DOMAIN S : h < x /\ x < y => h < y
      BY <1>1
    <3>2. ClosedIn(X, W)
      BY <1>1, <1>7, <1>8, <3>1 DEF ClosedIn, Younger
    <3>3. R \subseteq X
      BY <2>1, <2>2, <3>2
    <3> QED
      BY <3>3
  <2>4. ASSUME NEW c \in DOMAIN S \ R, NEW j \in Slots(S, c), Held(W, c, j) # 0
        PROVE  Held(W, c, j) \notin R
    <3> DEFINE x == Held(W, c, j)
               X == R \ {x}
    <3>1. SUFFICES ASSUME x \in R PROVE FALSE
      OBVIOUS
    <3>2. ~(c = h /\ j = at) /\ x = Held(S, c, j) /\ x # 0
      BY <1>8, <2>4
    <3>3. x # w
      BY <1>1, <2>1, <3>2 DEF OneOwner
    <3>4. \A d \in R : \A i \in Slots(S, d) : Held(W, d, i) # x
      <4> SUFFICES ASSUME NEW d \in R, NEW i \in Slots(S, d), Held(W, d, i) = x PROVE FALSE
        OBVIOUS
      <4>1. Held(S, d, i) = x /\ d \in DOMAIN S
        BY <1>8, <2>2, <3>2
      <4>2. d = c
        BY <1>1, <2>4, <3>2, <4>1 DEF OneOwner
      <4> QED
        BY <2>4, <4>2
    <3> HIDE DEF x
    <3>5. ClosedIn(X, W)
      BY <1>7, <2>2, <3>4 DEF ClosedIn
    <3>6. R \subseteq X
      BY <2>2, <3>3, <3>5
    <3> QED
      BY <3>1, <3>6
  <2> QED
    BY <2>1, <2>2, <2>3, <2>4
<1>12. /\ R \subseteq DOMAIN S /\ h \notin R
       /\ \A c \in R : h < c
       /\ \A c \in R : \A j \in Slots(S, c) : Held(W, c, j) # 0 => Held(W, c, j) \in R
       /\ \A c \in DOMAIN S \ R : \A j \in Slots(S, c) : Held(W, c, j) # 0 => Held(W, c, j) \notin R
       /\ Held(S, h, at) = 0 \/ Held(S, h, at) \in R
  <2>1. CASE IsContainer(v)
    <3>1. \A c \in R : \A j \in Slots(S, c) : Held(W, c, j) # 0 => Held(W, c, j) \in R
      BY <1>7, <1>11, <2>1 DEF ClosedIn
    <3>2. h \notin R
      BY <1>1, <1>11, <2>1
    <3> QED
      BY <1>11, <2>1, <3>1, <3>2
  <2>2. CASE ~IsContainer(v)
    <3>1. R = {}
      BY <2>2 DEF R, Within
    <3>2. Held(S, h, at) = 0
      BY <1>6, <2>2 DEF Held
    <3> QED
      BY <3>1, <3>2
  <2> QED
    BY <2>1, <2>2
<1>13. Younger(T)
  <2> SUFFICES ASSUME NEW c \in DOMAIN T, NEW j \in Slots(T, c), Held(T, c, j) # 0
               PROVE  /\ Held(T, c, j) \in DOMAIN T /\ c < Held(T, c, j)
                      /\ T[Held(T, c, j)].kind = ValueAt(T, c, j).type
    BY DEF Younger
  <2> DEFINE x == Held(S, c, j)
  <2>1. c \in DOMAIN S \ R /\ j \in Slots(S, c) /\ Held(T, c, j) = Held(W, c, j)
    BY <1>4, <1>9
  <2>2. Held(W, c, j) = x /\ x # 0 /\ ValueAt(T, c, j) = ValueAt(S, c, j)
    BY <1>7, <1>8, <1>9, <2>1
  <2>3. x \in DOMAIN S /\ c < x /\ S[x].kind = ValueAt(S, c, j).type
    BY <1>1, <2>1, <2>2 DEF Younger
  <2>4. x \in DOMAIN T
    BY <1>4, <1>12, <2>1, <2>2, <2>3
  <2> HIDE DEF x
  <2> QED
    BY <1>9, <2>1, <2>2, <2>3, <2>4
<1>14. OneOwner(T)
  <2> SUFFICES ASSUME NEW c \in DOMAIN T, NEW d \in DOMAIN T, NEW i \in Slots(T, c), NEW j \in Slots(T, d),
                      Held(T, c, i) # 0, Held(T, c, i) = Held(T, d, j)
               PROVE  c = d /\ i = j
    BY DEF OneOwner
  <2>1. c \in DOMAIN S /\ i \in Slots(S, c) /\ d \in DOMAIN S /\ j \in Slots(S, d)
    BY <1>4, <1>9
  <2>2. Held(S, c, i) = Held(T, c, i) /\ Held(S, d, j) = Held(T, d, j)
    BY <1>8, <1>9, <2>1
  <2> QED
    BY <1>1, <2>1, <2>2 DEF OneOwner
<1>15. Owned(r, T)
  <2> SUFFICES ASSUME NEW w \in DOMAIN T, ~(w = 1 /\ IsContainer(r))
               PROVE  \E c \in DOMAIN T : \E j \in Slots(T, c) : Held(T, c, j) = w
    BY DEF Owned
  <2>1. PICK c \in DOMAIN S : \E j \in Slots(S, c) : Held(S, c, j) = w
    BY <1>1, <1>4 DEF Owned
  <2>2. PICK j \in Slots(S, c) : Held(S, c, j) = w
    BY <2>1
  <2>3. w # 0 /\ w \notin R
    BY <1>1, <1>4
  <2>4. Held(W, c, j) = w
    BY <1>8, <1>12, <2>2, <2>3
  <2>5. c \in DOMAIN T
    BY <1>4, <1>12, <2>2, <2>3, <2>4
  <2> QED
    BY <1>9, <2>2, <2>4, <2>5
<1>16. \A c \in DOMAIN S : c <= h => c \in DOMAIN T
  BY <1>1, <1>4, <1>12
<1>17. IsTree(r, T, n)
  <2>1. IsContainer(r) => r.data[1] = 1 /\ 1 \in DOMAIN T /\ T[1].kind = r.type
    <3>1. 1 <= h
      BY <1>1
    <3> QED
      BY <1>1, <1>9, <1>16, <3>1
  <2>2. DOMAIN T \subseteq 1 .. n
    BY <1>1, <1>4
  <2> QED
    BY <1>1, <1>5, <1>13, <1>14, <1>15, <2>1, <2>2 DEF IsTree
<1>18. \A c \in DOMAIN S : c < h => c \in DOMAIN T /\ T[c] = S[c]
  BY <1>1, <1>2, <1>4, <1>16
<1>19. h \in DOMAIN T /\ T[h] = W[h]
  BY <1>1, <1>4, <1>16
<1>20. at \in Slots(T, h) /\ ValueAt(T, h, at) = Null
  BY <1>7, <1>9, <1>19
<1> QED
  BY <1>2, <1>17, <1>18, <1>19, <1>20 DEF T, W, v

-----------------------------------------------------------------------------
(* Addresses and the path *)

Living(a, S) ==
  \/ a = RootAddress
  \/ a.home \in DOMAIN S /\ a.at \in Slots(S, a.home) /\ a.block = Block(S[a.home])

ValueOf(a, r, S) == IF a = RootAddress THEN r ELSE ValueAt(S, a.home, a.at)

(* What PathFollowsNesting says, of any path and tree. *)
Follows(p, o, r, S) ==
  /\ Len(p) = Len(o)
  /\ \A k \in DOMAIN p :
       /\ Living(p[k], S) /\ ValueOf(p[k], r, S).type = o[k]
       /\ p[k].home = IF k = 1 THEN 0 ELSE ValueOf(p[k - 1], r, S).data[1]

LEMMA PathMeaning ==
  /\ \A a : Alive(a) <=> Living(a, store)
  /\ \A a : At(a) = ValueOf(a, root, store)
  /\ PathFollowsNesting <=> (phase = "parsing" /\ ret = "OK" => Follows(path, open, root, store))
BY DEF PathFollowsNesting, Alive, At, Living, ValueOf, Follows, Slots, ValueAt

LEMMA PathMeaningPrimed ==
  PathFollowsNesting' <=> (phase' = "parsing" /\ ret' = "OK" => Follows(path', open', root', store'))
BY DEF PathFollowsNesting, Alive, At, Living, ValueOf, Follows, Slots, ValueAt

LEMMA AddressFacts ==
  /\ RootAddress.home = 0
  /\ \A h, at, b : LET a == Address(h, at, b) IN a.home = h /\ a.at = at /\ a.block = b
  /\ \A h, at, b : h # 0 => Address(h, at, b) # RootAddress
BY DEF RootAddress, Address

(* The containers on the path, each younger than the one before.           *)
LEMMA PathDown ==
  ASSUME NEW r, NEW S, NEW n \in Nat, IsTree(r, S, n),
         NEW p \in Seq(Addresses), NEW o \in Seq(Parser!Kinds), Follows(p, o, r, S)
  PROVE  /\ \A k \in DOMAIN p :
              LET c == ValueOf(p[k], r, S).data[1]
              IN /\ c \in DOMAIN S /\ S[c].kind = o[k] /\ p[k].home < c
                 /\ IF k = 1 THEN p[k] = RootAddress ELSE p[k] # RootAddress /\ p[k].home \in DOMAIN S
         /\ \A k \in DOMAIN p : \A i \in 1 .. k - 1 :
              ValueOf(p[i], r, S).data[1] < ValueOf(p[k], r, S).data[1]
<1> DEFINE C(k) == ValueOf(p[k], r, S).data[1]
<1>1. /\ S \in [DOMAIN S -> Content] /\ DOMAIN S \subseteq 1 .. n /\ r \in Val /\ Younger(S)
      /\ IsContainer(r) => r.data[1] = 1 /\ 1 \in DOMAIN S /\ S[1].kind = r.type
  BY DEF IsTree
<1>2. /\ Len(p) \in Nat /\ DOMAIN p = 1 .. Len(p) /\ DOMAIN o = 1 .. Len(p)
      /\ \A k \in 1 .. Len(p) : o[k] \in Parser!Kinds
  BY LenProperties, ElementOfSeq DEF Follows
<1>3. \A k \in DOMAIN p :
        /\ Living(p[k], S) /\ ValueOf(p[k], r, S).type = o[k]
        /\ p[k].home = IF k = 1 THEN 0 ELSE C(k - 1)
  BY DEF Follows
<1>4. ASSUME NEW k \in DOMAIN p, p[k] = RootAddress
      PROVE  C(k) = 1 /\ C(k) \in DOMAIN S /\ S[C(k)].kind = o[k] /\ p[k].home < C(k)
  <2>1. ValueOf(p[k], r, S) = r /\ p[k].home = 0
    BY <1>4, AddressFacts DEF ValueOf
  <2>2. IsContainer(r)
    BY <1>2, <1>3, <2>1 DEF IsContainer
  <2> QED
    BY <1>1, <1>3, <2>1, <2>2
<1>5. ASSUME NEW k \in DOMAIN p, p[k] # RootAddress
      PROVE  C(k) \in DOMAIN S /\ S[C(k)].kind = o[k] /\ p[k].home < C(k) /\ p[k].home \in DOMAIN S
  <2> DEFINE h == p[k].home
             j == p[k].at
  <2>1. h \in DOMAIN S /\ j \in Slots(S, h) /\ ValueOf(p[k], r, S) = ValueAt(S, h, j)
    BY <1>3, <1>5 DEF Living, ValueOf
  <2>2. IsContainer(ValueAt(S, h, j)) /\ ValueAt(S, h, j).type = o[k]
    BY <1>2, <1>3, <2>1 DEF IsContainer
  <2>3. Held(S, h, j) = C(k) /\ Held(S, h, j) # 0
    BY <1>1, <2>1, <2>2, HeldFacts
  <2> QED
    BY <1>1, <2>1, <2>2, <2>3 DEF Younger
<1> HIDE DEF C
<1>6. ASSUME NEW k \in DOMAIN p
      PROVE  IF k = 1 THEN p[k] = RootAddress ELSE p[k] # RootAddress
  <2>1. 0 \notin DOMAIN S
    BY <1>1
  <2>2. CASE k = 1
    BY <1>3, <1>5, <2>1, <2>2
  <2>3. CASE k # 1
    <3>1. k - 1 \in DOMAIN p /\ p[k].home = C(k - 1)
      BY <1>2, <1>3, <2>3
    <3>2. C(k - 1) # 0
      BY <1>4, <1>5, <2>1, <3>1
    <3> QED
      BY <2>3, <3>1, <3>2, AddressFacts
  <2> QED
    BY <2>2, <2>3
<1>7. \A k \in DOMAIN p : C(k) \in Nat /\ (k # 1 => k - 1 \in DOMAIN p /\ C(k - 1) < C(k))
  <2> TAKE k \in DOMAIN p
  <2>1. C(k) \in DOMAIN S /\ p[k].home < C(k)
    BY <1>4, <1>5
  <2> QED
    BY <1>1, <1>2, <1>3, <2>1
<1>8. \A k \in DOMAIN p : \A i \in 1 .. k - 1 : C(i) < C(k)
  <2> DEFINE Bad == {k \in DOMAIN p : \E i \in 1 .. k - 1 : ~(C(i) < C(k))}
  <2>1. SUFFICES ASSUME Bad # {} PROVE FALSE
    OBVIOUS
  <2>2. Bad \subseteq Nat
    BY <1>2
  <2>3. \A k \in DOMAIN p : k \notin Bad => \A i \in 1 .. k - 1 : C(i) < C(k)
    OBVIOUS
  <2>4. \A k \in Bad : k \in DOMAIN p /\ \E i \in 1 .. k - 1 : ~(C(i) < C(k))
    OBVIOUS
  <2> HIDE DEF Bad
  <2>5. PICK k \in Bad : \A m \in Bad : k <= m
    BY <2>1, <2>2, LeastNumber
  <2>6. PICK i \in 1 .. k - 1 : ~(C(i) < C(k))
    BY <2>4
  <2>7. k \in DOMAIN p /\ k \in Nat /\ k # 1 /\ i \in Nat /\ i <= k - 1
    BY <1>2, <2>2, <2>4
  <2>8. k - 1 \in DOMAIN p /\ C(k - 1) < C(k) /\ k - 1 \notin Bad
    BY <1>7, <2>5, <2>7
  <2>9. CASE i = k - 1
    BY <2>6, <2>8, <2>9
  <2>10. CASE i # k - 1
    <3>1. i \in 1 .. (k - 1) - 1 /\ i \in DOMAIN p
      BY <1>2, <2>7, <2>10
    <3>2. C(i) < C(k - 1)
      BY <2>3, <2>8, <3>1
    <3>3. C(i) \in Nat /\ C(k - 1) \in Nat /\ C(k) \in Nat
      BY <1>7, <2>7, <2>8, <3>1
    <3> QED
      BY <2>6, <2>8, <3>2, <3>3
  <2> QED
    BY <2>9, <2>10
<1>9. \A k \in DOMAIN p :
        /\ C(k) \in DOMAIN S /\ S[C(k)].kind = o[k] /\ p[k].home < C(k)
        /\ IF k = 1 THEN p[k] = RootAddress ELSE p[k] # RootAddress /\ p[k].home \in DOMAIN S
  BY <1>4, <1>5, <1>6
<1> QED
  BY <1>8, <1>9 DEF C

(* What is written into the innermost container leaves the path alone. *)
LEMMA PathKept ==
  ASSUME NEW r, NEW S, NEW n \in Nat, IsTree(r, S, n),
         NEW p \in Seq(Addresses), NEW o \in Seq(Parser!Kinds), Follows(p, o, r, S), p # <<>>,
         NEW T, \A c \in DOMAIN S : c < ValueOf(p[Len(p)], r, S).data[1] => c \in DOMAIN T /\ T[c] = S[c]
  PROVE  /\ Follows(p, o, r, T)
         /\ \A k \in DOMAIN p : ValueOf(p[k], r, T) = ValueOf(p[k], r, S)
<1> DEFINE C(k) == ValueOf(p[k], r, S).data[1]
           L == Len(p)
<1>1. DOMAIN S \subseteq 1 .. n /\ L \in Nat /\ DOMAIN p = 1 .. L /\ L \in DOMAIN p
  BY LenProperties, EmptySeq DEF IsTree
<1>2. /\ \A k \in DOMAIN p :
           /\ C(k) \in DOMAIN S /\ p[k].home < C(k)
           /\ IF k = 1 THEN p[k] = RootAddress ELSE p[k] # RootAddress /\ p[k].home \in DOMAIN S
      /\ \A k \in DOMAIN p : \A i \in 1 .. k - 1 : C(i) < C(k)
  BY PathDown
<1>3. \A c \in DOMAIN S : c < C(L) => c \in DOMAIN T /\ T[c] = S[c]
  OBVIOUS
<1> HIDE DEF C
<1>4. ASSUME NEW k \in DOMAIN p
      PROVE  Living(p[k], T) /\ ValueOf(p[k], r, T) = ValueOf(p[k], r, S)
  <2>1. CASE k = 1
    BY <1>2, <2>1 DEF Living, ValueOf
  <2>2. CASE k # 1
    <3>1. p[k] # RootAddress /\ p[k].home \in DOMAIN S
      BY <1>2, <2>2
    <3>2. p[k].home < C(L)
      <4>1. CASE k = L
        BY <1>2, <4>1
      <4>2. CASE k # L
        <5>1. k \in 1 .. L - 1
          BY <1>1, <4>2
        <5>2. C(k) < C(L) /\ C(k) \in Nat /\ C(L) \in Nat /\ p[k].home \in Nat
          BY <1>1, <1>2, <3>1, <5>1
        <5> QED
          BY <1>2, <5>2
      <4> QED
        BY <4>1, <4>2
    <3>3. p[k].home \in DOMAIN T /\ T[p[k].home] = S[p[k].home]
      BY <1>3, <3>1, <3>2
    <3>4. Living(p[k], S)
      BY DEF Follows
    <3> QED
      BY <3>1, <3>3, <3>4 DEF Living, ValueOf, Slots, ValueAt
  <2> QED
    BY <2>1, <2>2
<1>5. ASSUME NEW k \in DOMAIN p
      PROVE  p[k].home = IF k = 1 THEN 0 ELSE ValueOf(p[k - 1], r, T).data[1]
  <2>1. p[k].home = IF k = 1 THEN 0 ELSE ValueOf(p[k - 1], r, S).data[1]
    BY DEF Follows
  <2>2. k # 1 => k - 1 \in DOMAIN p
    BY <1>1
  <2> QED
    BY <1>4, <2>1, <2>2
<1>6. Len(p) = Len(o) /\ \A k \in DOMAIN p : ValueOf(p[k], r, S).type = o[k]
  BY DEF Follows
<1> QED
  BY <1>4, <1>5, <1>6 DEF Follows

LEMMA PathPushed ==
  ASSUME NEW r, NEW S, NEW p \in Seq(Addresses), NEW o \in Seq(Parser!Kinds), Follows(p, o, r, S),
         NEW a \in Addresses, NEW kind \in Parser!Kinds, Living(a, S), ValueOf(a, r, S).type = kind,
         a.home = IF p = <<>> THEN 0 ELSE ValueOf(p[Len(p)], r, S).data[1]
  PROVE  Follows(Append(p, a), Append(o, kind), r, S)
<1> DEFINE q == Append(p, a)
           u == Append(o, kind)
           L == Len(p)
<1>1. /\ L \in Nat /\ DOMAIN p = 1 .. L /\ Len(o) = L
      /\ p = <<>> <=> L = 0
  BY LenProperties, EmptySeq DEF Follows
<1>2. /\ Len(q) = L + 1 /\ DOMAIN q = 1 .. L + 1 /\ Len(u) = L + 1
      /\ q[L + 1] = a /\ \A k \in 1 .. L : q[k] = p[k]
      /\ u[L + 1] = kind /\ \A k \in 1 .. L : u[k] = o[k]
  BY <1>1, AppendProperties, LenProperties
<1> HIDE DEF q, u
<1>3. \A k \in 1 .. L :
        /\ Living(p[k], S) /\ ValueOf(p[k], r, S).type = o[k]
        /\ p[k].home = IF k = 1 THEN 0 ELSE ValueOf(p[k - 1], r, S).data[1]
  BY <1>1 DEF Follows
<1>4. ASSUME NEW k \in 1 .. L
      PROVE  /\ Living(q[k], S) /\ ValueOf(q[k], r, S).type = u[k]
             /\ q[k].home = IF k = 1 THEN 0 ELSE ValueOf(q[k - 1], r, S).data[1]
  <2>1. k # 1 => k - 1 \in 1 .. L
    BY <1>1
  <2> QED
    BY <1>2, <1>3, <2>1
<1>5. /\ Living(q[L + 1], S) /\ ValueOf(q[L + 1], r, S).type = u[L + 1]
      /\ q[L + 1].home = IF L + 1 = 1 THEN 0 ELSE ValueOf(q[(L + 1) - 1], r, S).data[1]
  <2>1. (L + 1 = 1 <=> L = 0) /\ (L + 1) - 1 = L /\ (L # 0 => L \in 1 .. L)
    BY <1>1
  <2> QED
    BY <1>1, <1>2, <2>1
<1>6. \A k \in DOMAIN q : k \in 1 .. L \/ k = L + 1
  BY <1>1, <1>2
<1>7. \A k \in DOMAIN q :
        /\ Living(q[k], S) /\ ValueOf(q[k], r, S).type = u[k]
        /\ q[k].home = IF k = 1 THEN 0 ELSE ValueOf(q[k - 1], r, S).data[1]
  BY <1>4, <1>5, <1>6
<1> QED
  BY <1>2, <1>7 DEF Follows, q, u

LEMMA PathPopped ==
  ASSUME NEW r, NEW S, NEW p \in Seq(Addresses), NEW o \in Seq(Parser!Kinds), Follows(p, o, r, S), p # <<>>
  PROVE  Follows(SubSeq(p, 1, Len(p) - 1), SubSeq(o, 1, Len(o) - 1), r, S)
<1> DEFINE q == SubSeq(p, 1, Len(p) - 1)
           u == SubSeq(o, 1, Len(o) - 1)
           L == Len(p)
<1>1. L \in Nat /\ DOMAIN p = 1 .. L /\ Len(o) = L /\ L # 0
  BY LenProperties, EmptySeq DEF Follows
<1>2. /\ Len(q) = L - 1 /\ DOMAIN q = 1 .. L - 1 /\ Len(u) = L - 1
      /\ \A k \in 1 .. L - 1 : q[k] = p[k] /\ u[k] = o[k]
  BY <1>1, SubSeqProperties, LenProperties
<1> HIDE DEF q, u
<1>3. \A k \in 1 .. L :
        /\ Living(p[k], S) /\ ValueOf(p[k], r, S).type = o[k]
        /\ p[k].home = IF k = 1 THEN 0 ELSE ValueOf(p[k - 1], r, S).data[1]
  BY <1>1 DEF Follows
<1>4. ASSUME NEW k \in 1 .. L - 1
      PROVE  /\ Living(q[k], S) /\ ValueOf(q[k], r, S).type = u[k]
             /\ q[k].home = IF k = 1 THEN 0 ELSE ValueOf(q[k - 1], r, S).data[1]
  <2>1. k \in 1 .. L /\ (k # 1 => k - 1 \in 1 .. L - 1)
    BY <1>1
  <2> QED
    BY <1>2, <1>3, <2>1
<1> QED
  BY <1>2, <1>4 DEF Follows, q, u

-----------------------------------------------------------------------------
(* The events *)

Beginnings == {Parser!Beginning(kind) : kind \in Parser!Kinds}

LEMMA TypesOfEvents ==
  /\ Beginnings = {"ARRAY_BEG", "OBJECT_BEG"} /\ Ends = {"ARRAY_END", "OBJECT_END"}
  /\ \A kind \in Parser!Kinds : \A event : event.type = Parser!Beginning(kind) => KindOf(event) = kind
  /\ \A event \in AllEvents :
       \/ event \in Scalars /\ event.type \in Parser!ScalarTypes
       \/ event.type = "KEY" /\ event.data \in Keys
       \/ event.type \in Ends \cup Beginnings
<1>1. Beginnings = {"ARRAY_BEG", "OBJECT_BEG"}
  BY DEF Beginnings, Parser!Beginning, Parser!Kinds
<1>2. Ends = {"ARRAY_END", "OBJECT_END"}
  BY DEF Ends, Parser!Ending, Parser!Kinds
<1>3. \A kind \in Parser!Kinds : \A event : event.type = Parser!Beginning(kind) => KindOf(event) = kind
  BY DEF KindOf, Parser!Beginning, Parser!Kinds
<1>4. ASSUME NEW event \in AllEvents
      PROVE  \/ event \in Scalars /\ event.type \in Parser!ScalarTypes
             \/ event.type = "KEY" /\ event.data \in Keys
             \/ event.type \in Ends \cup Beginnings
  <2>1. CASE event \in Scalars
    BY <2>1, ScalarsType
  <2>2. CASE event \in {Value("KEY", k) : k \in Keys}
    BY <2>2 DEF Value
  <2>3. CASE event \in {Value(type, <<>>) : type \in Ends \cup Beginnings}
    BY <2>3 DEF Value
  <2> QED
    BY <2>1, <2>2, <2>3 DEF AllEvents, Beginnings
<1> QED
  BY <1>1, <1>2, <1>3, <1>4

(* What JsonEvents says about the next event, by its type. *)
TakesScalar(event) ==
  event.type \in Parser!ScalarTypes /\ Parser!MayTakeValue /\ keyed' = FALSE /\ open' = open
TakesKey(event) ==
  event.type = "KEY" /\ Parser!InObject /\ ~keyed /\ keyed' = TRUE /\ open' = open
TakesBeginning(event, kind) ==
  /\ event.type = Parser!Beginning(kind) /\ Parser!MayTakeValue
  /\ open' = Append(open, kind) /\ keyed' = FALSE
TakesEnding(event, kind) ==
  /\ event.type = Parser!Ending(kind) /\ open # <<>> /\ ~keyed
  /\ open' = SubSeq(open, 1, Len(open) - 1) /\ keyed' = keyed

LEMMA EventStep ==
  ASSUME events \in Seq(AllEvents), NEW event \in AllEvents, events' = Append(events, event), Parser!Next
  PROVE  /\ events' \in Seq(AllEvents) /\ Len(events') = Len(events) + 1
         /\ \/ TakesScalar(event) \/ TakesKey(event)
            \/ \E kind \in Parser!Kinds : TakesBeginning(event, kind) \/ TakesEnding(event, kind)
<1> DEFINE n == Len(events)
           All == {e.type : e \in AllEvents}
<1>1. /\ n \in Nat /\ DOMAIN events = 1 .. n /\ \A k \in 1 .. n : events[k] \in AllEvents
      /\ events' \in Seq(AllEvents) /\ Len(events') = n + 1 /\ DOMAIN events' = 1 .. n + 1
      /\ events'[n + 1] = event
  BY LenProperties, ElementOfSeq, AppendProperties
<1>2. Types' = [k \in 1 .. n + 1 |-> events'[k].type]
  BY <1>1 DEF Types
<1>3. Types = [k \in 1 .. n |-> events[k].type]
  BY <1>1 DEF Types
<1>4. Types'[n + 1] = event.type
  BY <1>1, <1>2
<1>5. Types \in Seq(All) /\ Len(Types) = n
  <2>1. \A k \in 1 .. n : events[k].type \in All
    BY <1>1
  <2> HIDE DEF All
  <2>2. Types \in [1 .. n -> All]
    BY <1>3, <2>1
  <2> QED
    BY <1>1, <1>3, <2>2, LenProperties, IsASeq
<1>6. \A t : Types' = Append(Types, t) => t = event.type
  <2> TAKE t
  <2>1. HAVE Types' = Append(Types, t)
  <2>2. Append(Types, t)[n + 1] = t
    <3>1. Types \in Seq(All \cup {t})
      BY <1>1, <1>3, <1>5 
    <3> QED
      BY <1>5, <3>1, AppendProperties
  <2> QED
    BY <1>4, <2>1, <2>2
<1>7. CASE Parser!Scalar
  BY <1>6, <1>7 DEF Parser!Scalar, Parser!Emit, TakesScalar
<1>8. CASE Parser!Key
  BY <1>6, <1>8 DEF Parser!Key, Parser!Emit, TakesKey
<1>9. ASSUME NEW kind \in Parser!Kinds, Parser!Begin(kind)
      PROVE  TakesBeginning(event, kind)
  BY <1>6, <1>9 DEF Parser!Begin, Parser!Emit, TakesBeginning
<1>10. ASSUME NEW kind \in Parser!Kinds, Parser!End(kind)
       PROVE  TakesEnding(event, kind)
  BY <1>6, <1>10 DEF Parser!End, Parser!Emit, TakesEnding
<1> QED
  BY <1>1, <1>7, <1>8, <1>9, <1>10 DEF Parser!Next

(* The root comes before all other events. *)
LEMMA NothingOpen ==
  ASSUME events \in Seq(AllEvents), Parser!MayTakeValue, open = <<>>
  PROVE  Len(events) = 0
<1>1. Types = <<>> /\ DOMAIN Types = DOMAIN events
  BY DEF Parser!MayTakeValue, Types
<1>2. DOMAIN events = {}
  BY <1>1
<1> QED
  BY <1>2, LenProperties

-----------------------------------------------------------------------------
(* A value comes *)

IsValueEvent(event) ==
  event \in AllEvents /\ event.type \in Parser!ScalarTypes \cup Beginnings

LEMMA ScalarEvent ==
  ASSUME NEW event, event \in AllEvents, event.type \in Parser!ScalarTypes
  PROVE  event \in Val /\ ~IsContainer(event) /\ event.type \notin Beginnings
<1>1. event.type \notin {"KEY"} \cup Ends \cup Beginnings
  BY TypesOfEvents DEF Parser!ScalarTypes
<1> QED
  BY <1>1, TypesOfEvents, ValueFacts

(* After a value: the tree is one again, and the path goes on to a         *)
(* container that began if nothing failed.                                 *)
Arrived(event, a, n) ==
  /\ IsTree(root', store', n + 1)
  /\ path' \in {path, Append(path, a)}
  /\ ret' = ret =>
       \/ event.type \in Parser!ScalarTypes /\ path' = path
       \/ \E kind \in Parser!Kinds :
            /\ event.type = Parser!Beginning(kind) /\ path' = Append(path, a)
            /\ Living(a, store') /\ ValueOf(a, root', store').type = kind

LEMMA InitializeMember ==
  ASSUME NEW event, IsValueEvent(event), NEW C, NEW n \in Nat, n = Len(events), IsTree(root, C, n), ret = "OK",
         NEW id \in DOMAIN C, NEW at \in Slots(C, id), ~IsContainer(ValueAt(C, id, at)),
         NEW old \in Val, ~IsContainer(old),
         Initialize(event, Address(id, at, Block(C[id])), old, C)
  PROVE  /\ root' = root
         /\ Arrived(event, Address(id, at, Block(C[id])), n)
         /\ \A c \in DOMAIN C : c < id => c \in DOMAIN store' /\ store'[c] = C[c]
<1> DEFINE a == Address(id, at, Block(C[id]))
<1>1. C \in [DOMAIN C -> Content] /\ DOMAIN C \subseteq 1 .. n
  BY DEF IsTree
<1>2. a # RootAddress /\ a.home = id /\ a.at = at /\ a.block = Block(C[id])
  BY <1>1, AddressFacts
<1> HIDE DEF a
<1>3. \A v, S : Write(a, v, S) => root' = root /\ store' = Writes(S, id, at, v)
  BY <1>2 DEF Write, Writes
<1>4. ASSUME NEW v \in Val, ~IsContainer(v), Write(a, v, C)
      PROVE  /\ root' = root /\ IsTree(root', store', n + 1)
             /\ \A c \in DOMAIN C : c < id => c \in DOMAIN store' /\ store'[c] = C[c]
  <2>1. root' = root /\ store' = Writes(C, id, at, v)
    BY <1>3, <1>4
  <2>2. IsTree(root, store', n)
    BY <1>4, <2>1, PlainWrite
  <2>3. \A c \in DOMAIN C : c # id => c \in DOMAIN store' /\ store'[c] = C[c]
    BY <1>1, <1>4, <2>1, WrittenStore
  <2>4. \A c \in DOMAIN C : c < id => c # id
    BY <1>1
  <2>5. IsTree(root, store', n + 1)
    BY <2>2, TreeGrows
  <2> QED
    BY <2>1, <2>3, <2>4, <2>5
<1>5. CASE /\ event.type \in Parser!ScalarTypes /\ Write(a, event, C)
           /\ UNCHANGED <<path, path_alloc, ret>>
  <2>1. event \in Val /\ ~IsContainer(event)
    BY <1>5, ScalarEvent DEF IsValueEvent
  <2> QED
    BY <1>4, <1>5, <2>1 DEF Arrived, a
<1>6. CASE /\ event.type \in Beginnings
           /\ Write(a, Container(KindOf(event), n + 1), Began(C, n + 1, KindOf(event)))
           /\ Push(a)
  <2>1. PICK kind \in Parser!Kinds : event.type = Parser!Beginning(kind)
    BY <1>6 DEF Beginnings
  <2>2. KindOf(event) = kind
    BY <2>1, TypesOfEvents
  <2>3. root' = root /\ store' = Writes(Began(C, n + 1, kind), id, at, Container(kind, n + 1))
    BY <1>3, <1>6, <2>2
  <2>4. /\ IsTree(root, store', n + 1)
        /\ \A c \in DOMAIN C : c # id => c \in DOMAIN store' /\ store'[c] = C[c]
        /\ id \in DOMAIN store' /\ store'[id].kind = C[id].kind /\ Len(store'[id].items) = Len(C[id].items)
        /\ at \in Slots(store', id) /\ ValueAt(store', id, at) = Container(kind, n + 1)
    BY <2>3, BeginsInTree
  <2>5. \A c \in DOMAIN C : c < id => c # id
    BY <1>1
  <2>6. Living(a, store')
    BY <1>2, <2>4 DEF Living, Block
  <2>7. ValueOf(a, root', store').type = kind
    BY <1>2, <2>4 DEF ValueOf, Container, Value
  <2>8. path' = Append(path, a) \/ (path' = path /\ ret' = "OUTOFMEMORY")
    BY <1>6 DEF Push, Result
  <2> QED
    BY <2>1, <2>3, <2>4, <2>5, <2>6, <2>7, <2>8 DEF Arrived, a
<1>7. CASE /\ Write(a, IF event.type = "NUMBER" THEN old ELSE Null, C)
           /\ Result("OUTOFMEMORY") /\ UNCHANGED <<path, path_alloc>>
  <2>1. (IF event.type = "NUMBER" THEN old ELSE Null) \in Val
        /\ ~IsContainer(IF event.type = "NUMBER" THEN old ELSE Null)
    BY ValueFacts
  <2> QED
    BY <1>4, <1>7, <2>1 DEF Arrived, Result, a
<1>8. Initialize(event, a, old, C)
  BY DEF a
<1> QED
  BY <1>5, <1>6, <1>7, <1>8 DEF Initialize, Began, Beginnings, a

LEMMA InitializeRoot ==
  ASSUME NEW event, IsValueEvent(event), Len(events) = 0, IsTree(root, store, 0), ret = "OK",
         Initialize(event, RootAddress, root, store)
  PROVE  Arrived(event, RootAddress, 0)
<1>1. \A v, S : Write(RootAddress, v, S) => root' = v /\ store' = S
  BY DEF Write
<1>2. /\ ~IsContainer(root) /\ root \in Val
      /\ \A v \in Val : ~IsContainer(v) => IsTree(v, store, 1)
      /\ \A kind \in Parser!Kinds : IsTree(Container(kind, 1), Began(store, 1, kind), 1)
  BY EmptyTree DEF IsTree
<1>3. CASE /\ event.type \in Parser!ScalarTypes /\ Write(RootAddress, event, store)
           /\ UNCHANGED <<path, path_alloc, ret>>
  <2>1. event \in Val /\ ~IsContainer(event)
    BY <1>3, ScalarEvent DEF IsValueEvent
  <2> QED
    BY <1>1, <1>2, <1>3, <2>1 DEF Arrived
<1>4. CASE /\ event.type \in Beginnings
           /\ Write(RootAddress, Container(KindOf(event), 1), Began(store, 1, KindOf(event)))
           /\ Push(RootAddress)
  <2>1. PICK kind \in Parser!Kinds : event.type = Parser!Beginning(kind)
    BY <1>4 DEF Beginnings
  <2>2. KindOf(event) = kind
    BY <2>1, TypesOfEvents
  <2>3. root' = Container(kind, 1) /\ store' = Began(store, 1, kind)
    BY <1>1, <1>4, <2>2
  <2>4. path' = Append(path, RootAddress) \/ (path' = path /\ ret' = "OUTOFMEMORY")
    BY <1>4 DEF Push, Result
  <2>5. Living(RootAddress, store') /\ ValueOf(RootAddress, root', store').type = kind
    BY <2>3 DEF Living, ValueOf, Container, Value
  <2> QED
    BY <1>2, <2>1, <2>3, <2>4, <2>5 DEF Arrived
<1>5. CASE /\ Write(RootAddress, IF event.type = "NUMBER" THEN root ELSE Null, store)
           /\ Result("OUTOFMEMORY") /\ UNCHANGED <<path, path_alloc>>
  <2>1. (IF event.type = "NUMBER" THEN root ELSE Null) \in Val
        /\ ~IsContainer(IF event.type = "NUMBER" THEN root ELSE Null)
    BY <1>2, ValueFacts
  <2> QED
    BY <1>1, <1>2, <1>5, <2>1 DEF Arrived, Result
<1> QED
  BY <1>3, <1>4, <1>5 DEF Initialize, Began, Beginnings

(* What a value has to leave, wherever it was put. *)
Settled(n) ==
  /\ IsTree(root', store', n + 1)
  /\ path' \in Seq(Addresses)
  /\ ret' = "OK" => Follows(path', open', root', store')

(* The path at the moment of a call. *)
Ready(n) ==
  /\ n \in Nat /\ n = Len(events) /\ events \in Seq(AllEvents)
  /\ IsTree(root, store, n) /\ ret = "OK"
  /\ path \in Seq(Addresses) /\ open \in Seq(Parser!Kinds)
  /\ Follows(path, open, root, store)

(* What JsonEvents allows where a value comes. *)
TakesValue(event) ==
  IsValueEvent(event) /\ (TakesScalar(event) \/ \E kind \in Parser!Kinds : TakesBeginning(event, kind))

LEMMA PathAfterValue ==
  ASSUME NEW n, Ready(n), NEW event, TakesValue(event), NEW a \in Addresses, Arrived(event, a, n),
         ret' = "OK" => Follows(path, open, root', store'),
         a.home = IF path = <<>> THEN 0 ELSE ValueOf(path[Len(path)], root', store').data[1]
  PROVE  Settled(n)
<1>1. path' \in Seq(Addresses)
  <2>1. Append(path, a) \in Seq(Addresses)
    BY AppendProperties DEF Ready
  <2> QED
    BY <2>1 DEF Arrived, Ready
<1>2. ASSUME ret' = "OK" PROVE Follows(path', open', root', store')
  <2>1. CASE event.type \in Parser!ScalarTypes /\ path' = path
    <3>1. event.type \notin Beginnings
      BY <2>1, ScalarEvent DEF TakesValue, IsValueEvent
    <3>2. open' = open
      BY <3>1 DEF TakesValue, TakesScalar, TakesBeginning, Beginnings
    <3> QED
      BY <1>2, <2>1, <3>2
  <2>2. ASSUME NEW kind \in Parser!Kinds, event.type = Parser!Beginning(kind), path' = Append(path, a),
               Living(a, store'), ValueOf(a, root', store').type = kind
        PROVE  Follows(path', open', root', store')
    <3>1. event.type \in Beginnings
      BY <2>2 DEF Beginnings
    <3>2. event.type \notin Parser!ScalarTypes
      BY <3>1, TypesOfEvents DEF Parser!ScalarTypes
    <3>3. PICK other \in Parser!Kinds : event.type = Parser!Beginning(other) /\ open' = Append(open, other)
      BY <3>2 DEF TakesValue, TakesScalar, TakesBeginning
    <3>4. other = kind
      BY <2>2, <3>3 DEF Parser!Beginning, Parser!Kinds
    <3> QED
      BY <1>2, <2>2, <3>3, <3>4, PathPushed DEF Ready
  <2>3. ret' = ret
    BY <1>2 DEF Ready
  <2> QED
    BY <2>1, <2>2, <2>3 DEF Arrived
<1> QED
  BY <1>1, <1>2 DEF Settled, Arrived

LEMMA RootArrives ==
  ASSUME NEW n, Ready(n), NEW event, TakesValue(event), path = <<>>,
         Initialize(event, RootAddress, root, store)
  PROVE  Settled(n)
<1>1. open = <<>> /\ Len(path) = 0 /\ Len(open) = 0
  BY EmptySeq, LenProperties DEF Ready, Follows
<1>2. n = 0
  BY <1>1, NothingOpen DEF Ready, TakesValue, TakesScalar, TakesBeginning
<1>3. Arrived(event, RootAddress, n)
  BY <1>2, InitializeRoot DEF Ready, TakesValue
<1>4. Follows(path, open, root', store')
  BY <1>1 DEF Follows, Ready
<1>5. RootAddress \in Addresses /\ RootAddress.home = 0
  <2>1. \A h, at \in Nat : Address(h, at, 0) \in Addresses
    BY DEF Addresses
  <2> QED
    BY <2>1, AddressFacts DEF RootAddress
<1> QED
  BY <1>3, <1>4, <1>5, PathAfterValue

(* The container at the end of the path. *)
LEMMA TopFacts ==
  ASSUME NEW n, Ready(n), path # <<>>
  PROVE  /\ Alive(Top) /\ At(Top) = ValueOf(path[Len(path)], root, store)
         /\ At(Top).data[1] \in DOMAIN store
         /\ store[At(Top).data[1]].kind = At(Top).type
         /\ open # <<>> /\ At(Top).type = open[Len(open)] /\ At(Top).type \in Parser!Kinds
<1>1. /\ Len(path) \in Nat /\ Len(path) \in DOMAIN path /\ Len(open) = Len(path)
      /\ open # <<>> /\ open[Len(path)] \in Parser!Kinds
  BY LenProperties, EmptySeq, ElementOfSeq DEF Ready, Follows
<1>2. Living(Top, store) /\ ValueOf(Top, root, store).type = open[Len(path)]
  BY <1>1 DEF Ready, Follows, Top
<1>3. LET c == ValueOf(Top, root, store).data[1] IN c \in DOMAIN store /\ store[c].kind = open[Len(path)]
  BY <1>1, PathDown DEF Ready, Top
<1> QED
  BY <1>1, <1>2, <1>3, PathMeaning DEF Top

LEMMA MemberArrives ==
  ASSUME NEW n, Ready(n), NEW event, TakesValue(event), path # <<>>,
         NEW id, id = At(Top).data[1],
         NEW C, IsTree(root, C, n), id \in DOMAIN C,
         \A c \in DOMAIN store : c < id => c \in DOMAIN C /\ C[c] = store[c],
         NEW at \in Slots(C, id), ~IsContainer(ValueAt(C, id, at)),
         NEW old \in Val, ~IsContainer(old),
         Initialize(event, Address(id, at, Block(C[id])), old, C)
  PROVE  Settled(n)
<1> DEFINE a == Address(id, at, Block(C[id]))
<1>1. /\ root' = root /\ Arrived(event, a, n)
      /\ \A c \in DOMAIN C : c < id => c \in DOMAIN store' /\ store'[c] = C[c]
  BY InitializeMember DEF Ready, TakesValue
<1>2. \A c \in DOMAIN store : c < id => c \in DOMAIN store' /\ store'[c] = store[c]
  BY <1>1
<1>3. id = ValueOf(path[Len(path)], root, store).data[1]
  BY TopFacts
<1>4. /\ Follows(path, open, root, store')
      /\ \A k \in DOMAIN path : ValueOf(path[k], root, store') = ValueOf(path[k], root, store)
  BY <1>2, <1>3, PathKept DEF Ready
<1>5. Len(path) \in DOMAIN path
  BY LenProperties, EmptySeq DEF Ready
<1>6. a.home = id
  BY AddressFacts
<1>7. a \in Addresses
  <2>1. C \in [DOMAIN C -> Content] /\ id \in Nat
    BY DEF IsTree
  <2>2. at \in Nat /\ Len(C[id].items) \in Nat
    BY <2>1, StoreFacts
  <2>3. Block(C[id]) \in {0} \cup {Capacity(m) : m \in Nat}
    BY <2>2 DEF Block
  <2> QED
    BY <2>1, <2>2, <2>3 DEF Addresses
<1> HIDE DEF a
<1> QED
  BY <1>1, <1>3, <1>4, <1>5, <1>6, <1>7, PathAfterValue

LEMMA NoMemorySettles ==
  ASSUME NEW n, Ready(n), root' = root, store' = store, path' = path, ret' # "OK" \/ open' = open
  PROVE  Settled(n)
BY TreeGrows DEF Ready, Settled

-----------------------------------------------------------------------------
(* json_dom_process() *)

LEMMA ArrayStep ==
  ASSUME NEW n, Ready(n), KeyInTurn, NEW event, TakesValue(event), path # <<>>, At(Top).type = "ARRAY",
         AddToArray(event)
  PROVE  Settled(n) /\ key' = <<>> /\ leaked' = leaked
<1> DEFINE id == At(Top).data[1]
           m  == Len(Parent.items) + 1
           C  == Appends(store, id, Member(<<>>, New))
<1>1. /\ id \in DOMAIN store /\ store[id].kind = "ARRAY" /\ Parent = store[id]
      /\ open # <<>> /\ open[Len(open)] = "ARRAY"
  BY TopFacts DEF Parent
<1>2. key' = <<>> /\ leaked' = leaked
  BY <1>1 DEF AddToArray, KeyInTurn, Parser!InObject
<1>3. Member(<<>>, New) \in Item /\ Member(<<>>, New).value = New
  BY ValueFacts DEF Member, Item
<1>4. store \in [DOMAIN store -> Content] /\ IsTree(root, store, n)
  BY DEF Ready, IsTree
<1>5. /\ DOMAIN C = DOMAIN store
      /\ \A c \in DOMAIN store : c # id => C[c] = store[c]
      /\ C[id].kind = store[id].kind /\ Len(C[id].items) = m /\ Slots(C, id) = 1 .. m
      /\ ValueAt(C, id, m) = New
  <2> DEFINE k == Len(store[id].items)
           new == Member(<<>>, New)
  <2> HIDE DEF new
  <2>1. /\ DOMAIN C = DOMAIN store /\ C \in [DOMAIN C -> Content]
        /\ \A c \in DOMAIN store : c # id => C[c] = store[c]
        /\ C[id].kind = store[id].kind /\ Len(C[id].items) = k + 1 /\ Slots(C, id) = 1 .. k + 1
        /\ \A j \in 1 .. k : ValueAt(C, id, j) = ValueAt(store, id, j)
        /\ ValueAt(C, id, k + 1) = New
    <3>1. new \in Item /\ new.value = New /\ C = Appends(store, id, new)
      BY <1>3 DEF new
    <3> QED
      BY <1>1, <1>4, <3>1, AppendedStore
  <2>2. m = k + 1
    BY <1>1
  <2> QED
    BY <2>1, <2>2
<1>6. IsTree(root, C, n)
  BY <1>1, <1>3, <1>4, PlainAppend, ValueFacts
<1>7. m \in Slots(C, id) /\ Block(C[id]) = Capacity(m)
  <2>1. Len(store[id].items) \in Nat
    BY <1>1, <1>4, StoreFacts
  <2> QED
    BY <1>1, <1>5, <2>1 DEF Block
<1>8. C = WithMember(id, Member(<<>>, New))
  BY DEF WithMember, Appends
<1>9. id \in Nat /\ DOMAIN store \subseteq Nat
  BY <1>1, <1>4 DEF IsTree
<1>10. CASE Initialize(event, Address(id, m, Capacity(m)), New, C)
  <2>1. \A c \in DOMAIN store : c < id => c \in DOMAIN C /\ C[c] = store[c]
    BY <1>5, <1>9
  <2> HIDE DEF C, m, id
  <2>2. Initialize(event, Address(id, m, Block(C[id])), New, C)
    BY <1>7, <1>10
  <2>3. id = At(Top).data[1] /\ id \in DOMAIN C /\ ~IsContainer(ValueAt(C, id, m))
    BY <1>1, <1>5, ValueFacts DEF id
  <2>4. Settled(n)
    BY <1>6, <1>7, <2>1, <2>2, <2>3, ValueFacts, MemberArrives
  <2> QED
    BY <1>2, <2>4
<1>11. CASE NoMemory
  BY <1>2, <1>11, NoMemorySettles DEF NoMemory, Result
<1> HIDE DEF C, m, id
<1>12. Initialize(event, Address(id, m, Capacity(m)), New, C) \/ NoMemory
  BY <1>8 DEF AddToArray, id, m
<1> QED
  BY <1>10, <1>11, <1>12

(* With NestsUsed = FALSE no container comes under a used key that is kept. *)
LEMMA ObjectStep ==
  ASSUME NEW n, Ready(n), KeyInTurn, NEW event, TakesValue(event), path # <<>>, At(Top).type = "OBJECT",
         key = <<>> \/ \E k \in Keys : key = <<k>>, policy \in Policies, ~NestsUnderUsed(event),
         AddToDict(event)
  PROVE  Settled(n) /\ key' = <<>> /\ leaked' = leaked
<1> DEFINE id == At(Top).data[1]
           m  == Len(Parent.items) + 1
           used == {j \in Places(KeyData) : Parent.items[j].value # New}
           C  == Appends(store, id, Member(KeyData, New))
<1>1. /\ id \in DOMAIN store /\ store[id].kind = "OBJECT" /\ Parent = store[id]
      /\ open # <<>> /\ open[Len(open)] = "OBJECT"
  BY TopFacts DEF Parent
<1>2. key' = <<>> /\ leaked' = leaked
  BY DEF AddToDict
<1>3. store \in [DOMAIN store -> Content] /\ IsTree(root, store, n) /\ DOMAIN store \subseteq Nat /\ id \in Nat
  BY <1>1 DEF Ready, IsTree
<1>4. ASSUME NEW j \in used, UsedKey(event, id, j)
      PROVE  Settled(n)
  <2>1. j \in Slots(store, id) /\ Parent.items[j].value = ValueAt(store, id, j)
    BY <1>1 DEF Places, Slots, ValueAt
  <2>2. CASE policy = "USEFIRST"
    <3>1. root' = root /\ store' = store /\ path' = path
      BY <1>4, <2>2 DEF UsedKey
    <3>2. Places(KeyData) # {} /\ Parser!InObject
      BY <1>1 DEF Parser!InObject
    <3>3. event.type \notin Beginnings
      BY <2>2, <3>2 DEF NestsUnderUsed, Beginnings
    <3>4. open' = open
      BY <3>3 DEF TakesValue, TakesScalar, TakesBeginning, Beginnings
    <3> QED
      BY <3>1, <3>4, NoMemorySettles
  <2>3. CASE policy = "USELAST"
    <3> DEFINE T == value_fini(ValueAt(store, id, j), Writes(store, id, j, Null))
    <3>1. Initialize(event, Address(id, j, 0), Null, T)
      BY <1>4, <2>1, <2>3 DEF UsedKey, Writes
    <3>2. /\ IsTree(root, T, n)
          /\ id \in DOMAIN T /\ T[id].kind = store[id].kind /\ j \in Slots(T, id) /\ ValueAt(T, id, j) = Null
          /\ \A c \in DOMAIN store : c < id => c \in DOMAIN T /\ T[c] = store[c]
      BY <1>1, <1>3, <2>1, Pruned DEF Ready
    <3> HIDE DEF T, id
    <3>3. Block(T[id]) = 0
      BY <1>1, <3>2 DEF Block
    <3>4. Initialize(event, Address(id, j, Block(T[id])), Null, T)
      BY <3>1, <3>3
    <3>5. id = At(Top).data[1]
      BY DEF id
    <3> QED
      BY <3>2, <3>4, <3>5, ValueFacts, MemberArrives
  <2>4. CASE policy = "ABORT"
    BY <1>4, <2>4, NoMemorySettles DEF UsedKey, Result
  <2> QED
    BY <2>2, <2>3, <2>4, DomAssumption
<1>5. Member(KeyData, New) \in Item /\ Member(KeyData, New).value = New
  <2>1. KeyData \in {<<>>} \cup Keys
    BY DEF KeyData
  <2> QED
    BY <2>1, ValueFacts DEF Member, Item
<1>6. /\ DOMAIN C = DOMAIN store
      /\ \A c \in DOMAIN store : c # id => C[c] = store[c]
      /\ C[id].kind = store[id].kind /\ Slots(C, id) = 1 .. m
      /\ ValueAt(C, id, m) = New
  BY <1>1, <1>3, <1>5, AppendedStore
<1>7. IsTree(root, C, n)
  BY <1>1, <1>3, <1>5, PlainAppend, ValueFacts
<1>8. m \in Slots(C, id) /\ Block(C[id]) = 0
  <2>1. Len(store[id].items) \in Nat
    BY <1>1, <1>3, StoreFacts
  <2> QED
    BY <1>1, <1>6, <2>1 DEF Block
<1>9. C = WithMember(id, Member(KeyData, New))
  BY DEF WithMember, Appends
<1>10. CASE Initialize(event, Address(id, m, 0), New, C)
  <2>1. \A c \in DOMAIN store : c < id => c \in DOMAIN C /\ C[c] = store[c]
    BY <1>3, <1>6
  <2> HIDE DEF C, m, id
  <2>2. Initialize(event, Address(id, m, Block(C[id])), New, C)
    BY <1>8, <1>10
  <2>3. id = At(Top).data[1] /\ id \in DOMAIN C /\ ~IsContainer(ValueAt(C, id, m))
    BY <1>1, <1>6, ValueFacts DEF id
  <2>4. Settled(n)
    BY <1>7, <1>8, <2>1, <2>2, <2>3, ValueFacts, MemberArrives
  <2> QED
    BY <1>2, <2>4
<1>11. CASE NoMemory
  BY <1>2, <1>11, NoMemorySettles DEF NoMemory, Result
<1> HIDE DEF C, m, id, used
<1>12. (\E j \in used : UsedKey(event, id, j)) \/ Initialize(event, Address(id, m, 0), New, C) \/ NoMemory
  BY <1>9 DEF AddToDict, id, m, used
<1> QED
  BY <1>2, <1>4, <1>10, <1>11, <1>12

LEMMA ValueStep ==
  ASSUME NEW n, Ready(n), KeyInTurn, NEW event, TakesValue(event),
         key = <<>> \/ \E k \in Keys : key = <<k>>, policy \in Policies, ~NestsUnderUsed(event),
         AddValue(event)
  PROVE  Settled(n) /\ key' = <<>> /\ leaked' = leaked
<1>1. CASE path = <<>>
  <2>1. Initialize(event, RootAddress, root, store) /\ key' = key /\ leaked' = leaked
    BY <1>1 DEF AddValue
  <2>2. open = <<>>
    BY <1>1, EmptySeq, LenProperties DEF Ready, Follows
  <2>3. key = <<>>
    BY <2>2 DEF KeyInTurn, Parser!InObject
  <2> QED
    BY <1>1, <2>1, <2>3, RootArrives
<1>2. CASE path # <<>> /\ At(Top).type = "ARRAY"
  BY <1>2, ArrayStep DEF AddValue
<1>3. CASE path # <<>> /\ At(Top).type = "OBJECT"
  BY <1>3, ObjectStep DEF AddValue
<1>4. path # <<>> => At(Top).type \in {"ARRAY", "OBJECT"}
  BY TopFacts DEF Parser!Kinds
<1> QED
  BY <1>1, <1>2, <1>3, <1>4

-----------------------------------------------------------------------------
(* The steps *)

LEMMA Starts ==
  ASSUME Init
  PROVE  DomInv
<1>1. /\ events = <<>> /\ open = <<>> /\ keyed = FALSE /\ policy \in Policies /\ root = Null
      /\ store = [id \in {} |-> Null] /\ path = <<>> /\ key = <<>> /\ phase = "parsing" /\ leaked = FALSE
  BY DEF Init, Parser!Init
<1>2. DomTypes
  BY <1>1, EmptySeq DEF DomTypes
<1>3. IsTree(root, store, Len(events))
  <2>1. root \in Val /\ ~IsContainer(root)
    BY <1>1, ValueFacts
  <2>2. DOMAIN store = {} /\ store \in [DOMAIN store -> Content]
    BY <1>1
  <2> QED
    BY <2>1, <2>2 DEF IsTree, Younger, OneOwner, Owned
<1>4. KeyInTurn
  BY <1>1 DEF KeyInTurn
<1>5. PathFollowsNesting
  BY <1>1, EmptySeq DEF PathFollowsNesting
<1> QED
  BY <1>1, <1>2, <1>3, <1>4, <1>5 DEF DomInv

LEMMA ProcessKeeps ==
  ASSUME ~NestsUsed, DomInv, NEW event \in AllEvents, Process(event)
  PROVE  DomInv'
<1> DEFINE n == Len(events)
<1>1. /\ phase = "parsing" /\ phase' = "parsing" /\ ret = "OK" /\ ~NestsUnderUsed(event)
      /\ events' = Append(events, event) /\ Parser!Next /\ json_dom_process(event) /\ policy' = policy
  BY DEF Process
<1>2. /\ policy \in Policies /\ events \in Seq(AllEvents) /\ open \in Seq(Parser!Kinds)
      /\ path \in Seq(Addresses) /\ (key = <<>> \/ \E k \in Keys : key = <<k>>)
      /\ IsTree(root, store, n) /\ KeyInTurn /\ PathFollowsNesting /\ ~leaked
  BY <1>1 DEF DomInv, DomTypes
<1>3. Ready(n)
  BY <1>1, <1>2, PathMeaning, LenProperties DEF Ready
<1>4. events' \in Seq(AllEvents) /\ Len(events') = n + 1
      /\ (TakesScalar(event) \/ TakesKey(event)
          \/ \E kind \in Parser!Kinds : TakesBeginning(event, kind) \/ TakesEnding(event, kind))
  BY <1>1, <1>2, EventStep
<1>5. path # <<>> => Alive(Top)
  BY <1>3, TopFacts
<1>6. open' \in Seq(Parser!Kinds)
  <2>1. \A kind \in Parser!Kinds : Append(open, kind) \in Seq(Parser!Kinds)
    BY <1>2, AppendProperties
  <2>2. open # <<>> => SubSeq(open, 1, Len(open) - 1) \in Seq(Parser!Kinds)
    BY <1>2, SubSeqProperties, LenProperties, ElementOfSeq, EmptySeq
  <2> QED
    BY <1>2, <1>4, <2>1, <2>2 DEF TakesScalar, TakesKey, TakesBeginning, TakesEnding
(* What is left to show of a step that settles the tree and the key. *)
<1>7. ASSUME Settled(n), leaked' <=> leaked, key' = <<>> \/ (\E k \in Keys : key' = <<k>>),
             ret' = "OK" => KeyInTurn'
      PROVE  DomInv'
  <2>1. DomTypes'
    BY <1>1, <1>2, <1>4, <1>6, <1>7 DEF DomTypes, Settled
  <2>2. IsTree(root, store, Len(events))'
    BY <1>4, <1>7 DEF Settled, IsTree, Younger, OneOwner, Owned, Held, ValueAt, Slots
  <2>3. PathFollowsNesting'
    BY <1>7, PathMeaningPrimed DEF Settled
  <2> QED
    BY <1>1, <1>2, <1>7, <2>1, <2>2, <2>3 DEF DomInv
<1>8. CASE event.type \in Ends
  <2>1. PICK kind \in Parser!Kinds : TakesEnding(event, kind)
    BY <1>4, <1>8, TypesOfEvents
       DEF TakesScalar, TakesKey, TakesBeginning, Beginnings, Parser!ScalarTypes
  <2>2. path # <<>>
    BY <1>2, <1>3, <2>1, EmptySeq, LenProperties DEF TakesEnding, Ready, Follows
  <2>3. PopPath(event)
    <3>1. event.type # "KEY"
      BY <1>8, TypesOfEvents
    <3> QED
      BY <1>1, <1>8, <3>1 DEF json_dom_process
  <2>4. /\ path' = SubSeq(path, 1, Len(path) - 1) /\ ret' = ret
        /\ root' = root /\ store' = store /\ key' = key /\ leaked' = leaked
    BY <2>2, <2>3 DEF PopPath
  <2>5. path' \in Seq(Addresses)
    <3>1. \A q \in Seq(Addresses) : q # <<>> => SubSeq(q, 1, Len(q) - 1) \in Seq(Addresses)
      BY SubSeqProperties, LenProperties, ElementOfSeq, EmptySeq
    <3> QED
      BY <1>2, <2>2, <2>4, <3>1
  <2>6. Follows(path', open', root', store')
    BY <1>3, <2>1, <2>2, <2>4, PathPopped DEF Ready, TakesEnding
  <2>7. IsTree(root', store', n + 1)
    BY <1>3, <2>4, TreeGrows DEF Ready
  <2>8. KeyInTurn'
    BY <1>2, <2>1, <2>4 DEF KeyInTurn, TakesEnding
  <2> QED
    BY <1>2, <1>7, <2>4, <2>5, <2>6, <2>7, <2>8 DEF Settled
<1>9. CASE event.type = "KEY"
  <2>1. event.type \notin Ends \cup Beginnings \cup Parser!ScalarTypes
    BY <1>9, TypesOfEvents DEF Parser!ScalarTypes
  <2>2. TakesKey(event)
    BY <1>4, <2>1 DEF TakesScalar, TakesBeginning, TakesEnding, Beginnings, Ends
  <2>3. event.data \in Keys
    BY <2>1, TypesOfEvents
  <2>4. StoreKey(event)
    BY <1>1, <1>9, <2>1 DEF json_dom_process
  <2>5. /\ root' = root /\ store' = store /\ path' = path
        /\ \/ key' = <<event.data>> /\ leaked' = (leaked \/ key # <<>>)
           \/ ret' = "OUTOFMEMORY" /\ key' = key /\ leaked' = leaked
    BY <2>4 DEF StoreKey, Result
  <2>6. Settled(n)
    BY <1>3, <2>2, <2>5, NoMemorySettles DEF TakesKey
  <2>7. key = <<>>
    BY <1>2, <2>2 DEF KeyInTurn, TakesKey
  <2>8. (leaked' <=> leaked) /\ (key' = <<>> \/ \E k \in Keys : key' = <<k>>)
    <3>1. ASSUME key' = <<event.data>>, leaked' = (leaked \/ key # <<>>)
          PROVE  (leaked' <=> leaked) /\ \E k \in Keys : key' = <<k>>
      BY <2>3, <2>7, <3>1
    <3> QED
      BY <1>2, <2>5, <2>7, <3>1
  <2>9. KeyInTurn'
    BY <2>2, <2>5, <2>7 DEF KeyInTurn, TakesKey, Parser!InObject
  <2> QED
    BY <1>7, <2>6, <2>8, <2>9
<1>10. CASE event.type \notin Ends \cup {"KEY"}
  <2>1. IsValueEvent(event)
    BY <1>10, TypesOfEvents DEF IsValueEvent
  <2>2. TakesValue(event)
    BY <1>4, <1>10, <2>1 DEF TakesValue, TakesKey, TakesEnding, Ends
  <2>3. AddValue(event)
    BY <1>1, <1>5, <1>10 DEF json_dom_process
  <2>4. Settled(n) /\ key' = <<>> /\ leaked' = leaked
    BY <1>1, <1>2, <1>3, <2>2, <2>3, ValueStep
  <2>5. keyed' = FALSE
    BY <2>2 DEF TakesValue, TakesScalar, TakesBeginning
  <2>6. KeyInTurn'
    BY <2>4, <2>5 DEF KeyInTurn
  <2> QED
    BY <1>7, <2>4, <2>6
<1> QED
  BY <1>8, <1>9, <1>10

LEMMA FiniKeeps ==
  ASSUME DomInv, json_dom_fini
  PROVE  DomInv'
<1>1. /\ phase = "parsing" /\ phase' = "done" /\ key' = <<>> /\ path' = <<>>
      /\ events' = events /\ open' = open /\ policy' = policy /\ leaked' = leaked
  BY DEF json_dom_fini
<1>2. IsTree(root, store, Len(events)) /\ DomTypes /\ Len(events) \in Nat
  BY LenProperties DEF DomInv, DomTypes
<1>3. DomTypes'
  BY <1>1, <1>2, EmptySeq DEF DomTypes
<1>4. CASE ret = "OK" /\ ret' = ret /\ root' = root /\ store' = store
  <2>1. IsTree(root, store, Len(events))'
    BY <1>1, <1>2, <1>4 DEF IsTree, Younger, OneOwner, Owned, Held, ValueAt, Slots
  <2> QED
    BY <1>1, <1>3, <1>4, <2>1 DEF DomInv, Released, PathFollowsNesting
<1>5. CASE root' = Null /\ store' = value_fini(root, store)
  <2>1. DOMAIN store = Within(root, store)
    BY <1>2, AllWithin
  <2>2. store' = [id \in {} |-> store[id]]
    <3>1. DOMAIN store \ Within(root, store) = {}
      BY <2>1
    <3> QED
      BY <1>5, <3>1 DEF value_fini
  <2>3. store' = [id \in {} |-> Null]
    BY <2>2
  <2>4. IsTree(root, store, Len(events))'
    <3>1. Null \in Val /\ ~IsContainer(Null)
      BY ValueFacts
    <3>2. IsTree(root', store', Len(events))
      <4>1. DOMAIN store' = {} /\ store' \in [DOMAIN store' -> Content]
        BY <2>3
      <4> QED
        BY <1>5, <3>1, <4>1 DEF IsTree, Younger, OneOwner, Owned
    <3> QED
      BY <1>1, <3>2 DEF IsTree, Younger, OneOwner, Owned, Held, ValueAt, Slots
  <2> QED
    BY <1>1, <1>3, <1>5, <2>3, <2>4 DEF DomInv, Released, PathFollowsNesting
<1> QED
  BY <1>4, <1>5 DEF json_dom_fini, MayAccept

LEMMA UnchangedKeeps ==
  ASSUME DomInv, UNCHANGED vars
  PROVE  DomInv'
<1>1. DomTypes' /\ (phase' = "parsing" /\ ret' = "OK" => KeyInTurn') /\ ~leaked'
  BY DEF vars, DomInv, DomTypes, KeyInTurn, Parser!InObject
<1>2. IsTree(root, store, Len(events))'
  BY DEF vars, DomInv, IsTree, Younger, OneOwner, Owned, Held, ValueAt, Slots
<1>3. PathFollowsNesting'
  BY DEF vars, DomInv, PathFollowsNesting, ValueAt, Alive, At, Block
<1>4. phase' = "done" => Released'
  BY DEF vars, DomInv, Released
<1> QED
  BY <1>1, <1>2, <1>3, <1>4 DEF DomInv

LEMMA DomInductive == ~NestsUsed => (Spec => []DomInv)
<1> SUFFICES ASSUME ~NestsUsed PROVE Spec => []DomInv
  OBVIOUS
<1>1. Init => DomInv
  BY Starts
<1>2. DomInv /\ [Next]_vars => DomInv'
  BY ProcessKeeps, FiniKeeps, UnchangedKeeps DEF Next
<1> QED
  BY <1>1, <1>2, PTL DEF Spec

(* The pointers of the builder's path are never stale, and the containers  *)
(* they point to are those that are open in the text, whichever array grew *)
(* and whichever value was replaced meanwhile.                             *)
THEOREM PathFollowsText == ~NestsUsed => (Spec => []PathFollowsNesting)
<1>1. DomInv => PathFollowsNesting
  BY DEF DomInv
<1> QED
  BY <1>1, DomInductive, PTL

(* On every way out, with every value that was replaced and every call     *)
(* without memory, what is allocated is the tree, and no key is lost.      *)
THEOREM AllReleased == ~NestsUsed => (Spec => []NothingLeaked)
<1>1. DomInv => NothingLeaked
  <2> SUFFICES ASSUME DomInv PROVE NothingLeaked
    OBVIOUS
  <2>1. DOMAIN store = Within(root, store)
    BY AllWithin, LenProperties DEF DomInv, DomTypes
  <2> QED
    BY <2>1 DEF DomInv, Released, NothingLeaked
<1> QED
  BY <1>1, DomInductive, PTL

-----------------------------------------------------------------------------
(* A set of numbers in order *)

Below(S, k) == {j \in S : j < k}

LEMMA NumbersFinite ==
  ASSUME NEW N \in Nat, NEW S \in SUBSET (1 .. N)
  PROVE  IsFiniteSet(S) /\ Cardinality(S) \in Nat /\ S \subseteq Nat
<1>1. IsFiniteSet(1 .. N)
  BY FS_Interval
<1>2. IsFiniteSet(S)
  BY <1>1, FS_Subset
<1> QED
  BY <1>2, FS_CardinalityType

LEMMA BelowFacts ==
  ASSUME NEW S, IsFiniteSet(S), S \subseteq Nat, NEW k \in S
  PROVE  /\ Cardinality(Below(S, k)) \in Nat
         /\ Cardinality(Below(S, k)) < Cardinality(S)
<1> DEFINE B == Below(S, k)
<1>1. B \in SUBSET S /\ k \notin B
  BY DEF Below
<1> HIDE DEF B
<1>2. IsFiniteSet(B) /\ Cardinality(B) <= Cardinality(S) /\ (Cardinality(S) = Cardinality(B) => S = B)
  BY <1>1, FS_Subset
<1>3. Cardinality(B) \in Nat /\ Cardinality(S) \in Nat
  BY <1>2, FS_CardinalityType
<1>4. Cardinality(B) # Cardinality(S)
  BY <1>1, <1>2
<1>5. Cardinality(B) \in Nat /\ Cardinality(B) < Cardinality(S)
  BY <1>2, <1>3, <1>4
<1> QED
  BY <1>5 DEF B

LEMMA BelowDiffers ==
  ASSUME NEW S, IsFiniteSet(S), S \subseteq Nat, NEW k \in S, NEW l \in S,
         Cardinality(Below(S, k)) = Cardinality(Below(S, l))
  PROVE  k = l
<1>1. ASSUME NEW x \in S, NEW y \in S, x < y
      PROVE  Cardinality(Below(S, x)) < Cardinality(Below(S, y))
  <2> DEFINE B == Below(S, y)
  <2>1. B \in SUBSET S /\ x \in B
    BY <1>1 DEF Below
  <2>2. Below(S, x) = Below(B, x)
    <3>1. x \in Nat /\ y \in Nat /\ \A z \in S : z \in Nat
      OBVIOUS
    <3>2. \A z \in S : z < x => z < y
      BY <1>1, <3>1
    <3> QED
      BY <3>2 DEF Below
  <2> HIDE DEF B
  <2>3. IsFiniteSet(B) /\ B \subseteq Nat
    BY <2>1, FS_Subset
  <2>4. Cardinality(Below(B, x)) < Cardinality(B)
    BY <2>1, <2>3, BelowFacts
  <2> QED
    BY <2>2, <2>4 DEF B
<1>2. Cardinality(Below(S, k)) \in Nat
  BY BelowFacts
<1>3. ~(k < l) /\ ~(l < k)
  BY <1>1, <1>2
<1> QED
  BY <1>3

(* The element with so many below it *)
LEMMA BelowReached ==
  ASSUME NEW N \in Nat, NEW S \in SUBSET (1 .. N), NEW n \in 0 .. Cardinality(S) - 1
  PROVE  \E k \in S : Cardinality(Below(S, k)) = n
<1> DEFINE Bad == {c \in Nat : \E A \in SUBSET (1 .. N) : Cardinality(A) = c
                               /\ \E i \in 0 .. c - 1 : \A k \in A : Cardinality(Below(A, k)) # i}
<1>1. \A A \in SUBSET (1 .. N) : IsFiniteSet(A) /\ Cardinality(A) \in Nat /\ A \subseteq Nat
  BY NumbersFinite
<1>2. Bad = {}
  <2> SUFFICES ASSUME Bad # {} PROVE FALSE
    OBVIOUS
  <2>1. Bad \subseteq Nat /\ \A c \in Bad : \E A \in SUBSET (1 .. N) : Cardinality(A) = c
                               /\ \E i \in 0 .. c - 1 : \A k \in A : Cardinality(Below(A, k)) # i
    OBVIOUS
  <2>2. \A A \in SUBSET (1 .. N) : Cardinality(A) \notin Bad =>
          \A i \in 0 .. Cardinality(A) - 1 : \E k \in A : Cardinality(Below(A, k)) = i
    BY <1>1
  <2> HIDE DEF Bad
  <2>3. PICK c \in Bad : \A m \in Bad : c <= m
    BY <2>1, LeastNumber
  <2>4. PICK A \in SUBSET (1 .. N) : Cardinality(A) = c /\ \E i \in 0 .. c - 1 : \A k \in A : Cardinality(Below(A, k)) # i
    BY <2>1
  <2>5. PICK i \in 0 .. c - 1 : \A k \in A : Cardinality(Below(A, k)) # i
    BY <2>4
  <2>6. c \in Nat /\ c # 0 /\ i \in Nat /\ i <= c - 1 /\ A # {}
    <3>1. c \in Nat /\ c # 0 /\ i \in Nat /\ i <= c - 1
      BY <2>1, <2>5
    <3> QED
      BY <2>4, <3>1, FS_EmptySet
  <2>7. PICK m \in A : \A x \in A : x <= m
    <3> DEFINE D == {N - x : x \in A}
    <3>1. D \subseteq Nat /\ D # {}
      <4>1. \A x \in 1 .. N : N - x \in Nat
        OBVIOUS
      <4> QED
        BY <2>6, <4>1
    <3>2. \A x \in A : N - x \in D
      OBVIOUS
    <3>3. \A d \in D : \E x \in A : d = N - x
      OBVIOUS
    <3> HIDE DEF D
    <3>4. PICK d \in D : \A e \in D : d <= e
      BY <3>1, LeastNumber
    <3>5. PICK m \in A : d = N - m
      BY <3>3
    <3>6. \A x \in A : N - m <= N - x
      BY <3>2, <3>4, <3>5
    <3> QED
      BY <3>6
  <2> DEFINE R == A \ {m}
  <2>8. R \in SUBSET (1 .. N) /\ Cardinality(R) = c - 1
    BY <1>1, <2>4, FS_RemoveElement
  <2>9. \A k \in R : Below(R, k) = Below(A, k) /\ k \in A
    <3>1. \A k \in R : k <= m /\ k \in Nat /\ m \in Nat /\ ~(m < k)
      BY <1>1, <2>7
    <3> QED
      BY <3>1 DEF Below
  <2>10. Below(A, m) = R
    <3>1. \A x \in A : x <= m /\ x \in Nat /\ m \in Nat
      BY <1>1, <2>7
    <3>2. \A x \in A : x < m <=> x # m
      BY <3>1
    <3> QED
      BY <3>2 DEF Below
  <2> HIDE DEF R
  <2>11. Cardinality(R) \notin Bad
    BY <2>3, <2>6, <2>8
  <2>12. i # c - 1
    BY <2>5, <2>8, <2>10
  <2>13. i \in 0 .. Cardinality(R) - 1
    BY <2>6, <2>8, <2>12
  <2>14. PICK k \in R : Cardinality(Below(R, k)) = i
    BY <2>2, <2>8, <2>11, <2>13
  <2> QED
    BY <2>5, <2>9, <2>14
<1>3. Cardinality(S) \in Nat
  BY <1>1
<1> QED
  BY <1>2, <1>3

LEMMA OrderFacts ==
  ASSUME NEW N \in Nat, NEW S \in SUBSET (1 .. N)
  PROVE  /\ Cardinality(S) \in Nat /\ DOMAIN InOrder(S) = 1 .. Cardinality(S)
         /\ \A n \in 1 .. Cardinality(S) :
              InOrder(S)[n] \in S /\ Cardinality(Below(S, InOrder(S)[n])) = n - 1
<1>1. IsFiniteSet(S) /\ Cardinality(S) \in Nat
  BY NumbersFinite
<1>2. ASSUME NEW n \in 1 .. Cardinality(S)
      PROVE  InOrder(S)[n] \in S /\ Cardinality(Below(S, InOrder(S)[n])) = n - 1
  <2>1. InOrder(S)[n] = CHOOSE k \in S : Cardinality(Below(S, k)) = n - 1
    BY DEF InOrder, Below
  <2>2. n - 1 \in 0 .. Cardinality(S) - 1
    BY <1>1
  <2>3. \E k \in S : Cardinality(Below(S, k)) = n - 1
    BY <2>2, BelowReached
  <2> QED
    BY <2>1, <2>3
<1>3. DOMAIN InOrder(S) = 1 .. Cardinality(S)
  BY DEF InOrder
<1> QED
  BY <1>1, <1>2, <1>3

LEMMA OrderReaches ==
  ASSUME NEW N \in Nat, NEW S \in SUBSET (1 .. N), NEW k \in S
  PROVE  \E n \in 1 .. Cardinality(S) : InOrder(S)[n] = k
<1> DEFINE n == Cardinality(Below(S, k)) + 1
<1>1. IsFiniteSet(S) /\ Cardinality(S) \in Nat /\ S \subseteq Nat
  BY NumbersFinite
<1>2. Cardinality(Below(S, k)) \in Nat /\ Cardinality(Below(S, k)) < Cardinality(S)
  BY <1>1, BelowFacts
<1>3. n \in 1 .. Cardinality(S) /\ n - 1 = Cardinality(Below(S, k))
  BY <1>1, <1>2
<1> HIDE DEF n
<1>4. InOrder(S)[n] \in S /\ Cardinality(Below(S, InOrder(S)[n])) = n - 1
  BY <1>3, OrderFacts
<1>5. InOrder(S)[n] = k
  BY <1>1, <1>3, <1>4, BelowDiffers
<1> QED
  BY <1>3, <1>5

LEMMA OrderInjective ==
  ASSUME NEW N \in Nat, NEW S \in SUBSET (1 .. N),
         NEW a \in 1 .. Cardinality(S), NEW b \in 1 .. Cardinality(S), InOrder(S)[a] = InOrder(S)[b]
  PROVE  a = b
<1>1. Cardinality(Below(S, InOrder(S)[a])) = a - 1 /\ Cardinality(Below(S, InOrder(S)[b])) = b - 1
      /\ Cardinality(S) \in Nat
  BY OrderFacts
<1>2. a - 1 = b - 1 /\ a \in Nat /\ b \in Nat
  BY <1>1
<1> QED
  BY <1>2

(* A number above all others comes last. *)
LEMMA OrderGrows ==
  ASSUME NEW N \in Nat, NEW S \in SUBSET (1 .. N), NEW A, A = S \cup {N + 1}
  PROVE  /\ A \in SUBSET (1 .. N + 1) /\ Cardinality(A) = Cardinality(S) + 1
         /\ \A n \in 1 .. Cardinality(S) : InOrder(A)[n] = InOrder(S)[n]
         /\ InOrder(A)[Cardinality(S) + 1] = N + 1
<1> DEFINE c == Cardinality(S)
<1>1. IsFiniteSet(S) /\ c \in Nat /\ N + 1 \notin S
  <2>1. N + 1 \notin 1 .. N
    OBVIOUS
  <2> QED
    BY <2>1, NumbersFinite
<1>2. A \in SUBSET (1 .. N + 1) /\ A \subseteq Nat /\ N + 1 \in Nat
  OBVIOUS
<1>3. IsFiniteSet(A) /\ Cardinality(A) = c + 1
  BY <1>1, FS_AddElement
<1>4. Below(A, N + 1) = S
  <2>1. \A x \in S : x < N + 1
    OBVIOUS
  <2>2. ~(N + 1 < N + 1)
    OBVIOUS
  <2> QED
    BY <2>1, <2>2 DEF Below
<1>5. \A k \in S : Below(A, k) = Below(S, k)
  <2>1. \A k \in S : ~(N + 1 < k)
    OBVIOUS
  <2> QED
    BY <2>1 DEF Below
<1>6. \A n \in 1 .. Cardinality(A) : InOrder(A)[n] \in A /\ Cardinality(Below(A, InOrder(A)[n])) = n - 1
  BY <1>2, OrderFacts
<1>7. \A n \in 1 .. c : InOrder(S)[n] \in S /\ Cardinality(Below(S, InOrder(S)[n])) = n - 1
  BY OrderFacts
<1>8. ASSUME NEW n \in 1 .. c PROVE InOrder(A)[n] = InOrder(S)[n]
  <2>1. n \in 1 .. Cardinality(A)
    BY <1>1, <1>3
  <2> DEFINE x == InOrder(S)[n]
             y == InOrder(A)[n]
  <2>2. x \in A /\ Cardinality(Below(A, x)) = n - 1
    BY <1>5, <1>7
  <2>3. y \in A /\ Cardinality(Below(A, y)) = n - 1
    BY <1>6, <2>1
  <2> HIDE DEF x, y
  <2>4. y = x
    BY <1>2, <1>3, <2>2, <2>3, BelowDiffers
  <2> QED
    BY <2>4 DEF x, y
<1>9. InOrder(A)[c + 1] = N + 1
  <2>1. c + 1 \in 1 .. Cardinality(A) /\ (c + 1) - 1 = c
    BY <1>1, <1>3
  <2>2. N + 1 \in A /\ Cardinality(Below(A, N + 1)) = c
    BY <1>4
  <2>3. InOrder(A)[c + 1] \in A /\ Cardinality(Below(A, InOrder(A)[c + 1])) = c
    BY <1>6, <2>1
  <2> DEFINE x == InOrder(A)[c + 1]
             m == N + 1
  <2>4. x \in A /\ m \in A /\ Cardinality(Below(A, x)) = Cardinality(Below(A, m))
    BY <2>2, <2>3
  <2> HIDE DEF x, m
  <2>5. x = m
    BY <1>2, <1>3, <2>4, BelowDiffers
  <2> QED
    BY <2>5 DEF x, m
<1> QED
  BY <1>2, <1>3, <1>8, <1>9

-----------------------------------------------------------------------------
(* What the events mean, for any sequence of them *)

TypesOf(E) == [k \in DOMAIN E |-> E[k].type]
Starting(E, j) == TypesOf(E)[j] \in {"ARRAY_BEG", "OBJECT_BEG"}
Closing(E, j) == TypesOf(E)[j] \in Ends
DepthIn(E, k) == Cardinality({j \in 1 .. k - 1 : Starting(E, j)}) - Cardinality({j \in 1 .. k - 1 : Closing(E, j)})
ChildIn(E, k, j) ==
  /\ TypesOf(E)[k] \notin Ends \cup {"KEY"} /\ j < k /\ DepthIn(E, k) = DepthIn(E, j) + 1
  /\ \A i \in j + 1 .. k : DepthIn(E, i) > DepthIn(E, j)
Children(E, j) == {k \in DOMAIN E : ChildIn(E, k, j)}

(* F has one event more than E. *)
Grown(E, F, n, e) ==
  /\ n \in Nat /\ n = Len(E) /\ e \in AllEvents
  /\ E \in Seq(AllEvents) /\ F \in Seq(AllEvents)
  /\ DOMAIN E = 1 .. n /\ DOMAIN F = 1 .. n + 1
  /\ \A k \in 1 .. n : F[k] = E[k] /\ E[k] \in AllEvents /\ TypesOf(E)[k] = E[k].type /\ TypesOf(F)[k] = E[k].type
  /\ F[n + 1] = e /\ TypesOf(F)[n + 1] = e.type

LEMMA AppendGrows ==
  ASSUME NEW E \in Seq(AllEvents), NEW e \in AllEvents, NEW F, F = Append(E, e), NEW n, n = Len(E)
  PROVE  Grown(E, F, n, e)
<1>1. n \in Nat /\ DOMAIN E = 1 .. n /\ \A k \in 1 .. n : E[k] \in AllEvents
  BY LenProperties, ElementOfSeq
<1>2. /\ F \in Seq(AllEvents) /\ Len(F) = n + 1 /\ DOMAIN F = 1 .. n + 1
      /\ F[n + 1] = e /\ \A k \in 1 .. n : F[k] = E[k]
  BY <1>1, AppendProperties, LenProperties
<1>3. n + 1 \in DOMAIN F /\ \A k \in 1 .. n : k \in DOMAIN F
  BY <1>1, <1>2
<1>4. \A k \in DOMAIN E : TypesOf(E)[k] = E[k].type
  BY DEF TypesOf
<1>5. \A k \in DOMAIN F : TypesOf(F)[k] = F[k].type
  BY DEF TypesOf
<1>6. \A k \in 1 .. n : F[k] = E[k] /\ E[k] \in AllEvents /\ TypesOf(E)[k] = E[k].type /\ TypesOf(F)[k] = E[k].type
  BY <1>1, <1>2, <1>3, <1>4, <1>5
<1>7. TypesOf(F)[n + 1] = e.type
  BY <1>2, <1>3, <1>5
<1> QED
  BY <1>1, <1>2, <1>6, <1>7 DEF Grown

LEMMA DepthKept ==
  ASSUME NEW E, NEW F, NEW n, NEW e, Grown(E, F, n, e), NEW k \in 1 .. n + 1
  PROVE  DepthIn(F, k) = DepthIn(E, k) /\ DepthIn(E, k) \in Int
<1>1. n \in Nat /\ k \in Nat /\ \A j \in 1 .. k - 1 : j \in 1 .. n
  BY DEF Grown
<1>2. \A j \in 1 .. n : (Starting(F, j) <=> Starting(E, j)) /\ (Closing(F, j) <=> Closing(E, j))
  BY DEF Grown, Starting, Closing
<1> DEFINE A == {j \in 1 .. k - 1 : Starting(E, j)}
           B == {j \in 1 .. k - 1 : Closing(E, j)}
<1>3. A = {j \in 1 .. k - 1 : Starting(F, j)} /\ B = {j \in 1 .. k - 1 : Closing(F, j)}
  BY <1>1, <1>2
<1>4. DepthIn(E, k) = Cardinality(A) - Cardinality(B)
  BY DEF DepthIn
<1>5. DepthIn(F, k) = Cardinality(A) - Cardinality(B)
  BY <1>3 DEF DepthIn
<1>6. A \in SUBSET (1 .. k - 1) /\ B \in SUBSET (1 .. k - 1) /\ k - 1 \in Nat
  BY <1>1
<1> HIDE DEF A, B
<1>7. Cardinality(A) \in Nat /\ Cardinality(B) \in Nat
  BY <1>6, NumbersFinite
<1> QED
  BY <1>4, <1>5, <1>7

(* Where the next event will be *)
LEMMA DepthNext ==
  ASSUME NEW E, NEW F, NEW n, NEW e, Grown(E, F, n, e)
  PROVE  DepthIn(F, n + 2) =
           IF e.type \in Beginnings THEN DepthIn(E, n + 1) + 1
           ELSE IF e.type \in Ends THEN DepthIn(E, n + 1) - 1 ELSE DepthIn(E, n + 1)
<1> DEFINE A == {j \in 1 .. n : Starting(F, j)}
           B == {j \in 1 .. n : Closing(F, j)}
           m == n + 1
<1>1. n \in Nat /\ (n + 1) - 1 = n /\ (n + 2) - 1 = m /\ n + 1 \in 1 .. n + 1 /\ m \notin 1 .. n
  BY DEF Grown
<1>2. DepthIn(E, n + 1) = Cardinality(A) - Cardinality(B)
  <2>1. DepthIn(F, n + 1) = Cardinality(A) - Cardinality(B)
    BY <1>1 DEF DepthIn
  <2> QED
    BY <1>1, <2>1, DepthKept
<1>3. DepthIn(F, n + 2) = Cardinality({j \in 1 .. m : Starting(F, j)}) - Cardinality({j \in 1 .. m : Closing(F, j)})
  BY <1>1 DEF DepthIn
<1>4. (Starting(F, m) <=> e.type \in Beginnings) /\ (Closing(F, m) <=> e.type \in Ends)
  BY TypesOfEvents DEF Grown, Starting, Closing
<1>5. \A j : j \in 1 .. m <=> j \in 1 .. n \/ j = m
  BY <1>1
<1>6. A \in SUBSET (1 .. n) /\ B \in SUBSET (1 .. n)
  OBVIOUS
<1>7. {j \in 1 .. m : Starting(F, j)} = IF e.type \in Beginnings THEN A \cup {m} ELSE A
  BY <1>4, <1>5
<1>8. {j \in 1 .. m : Closing(F, j)} = IF e.type \in Ends THEN B \cup {m} ELSE B
  BY <1>4, <1>5
<1> HIDE DEF A, B, m
<1>9. IsFiniteSet(A) /\ IsFiniteSet(B) /\ Cardinality(A) \in Nat /\ Cardinality(B) \in Nat /\ m \notin A /\ m \notin B
  BY <1>1, <1>6, NumbersFinite
<1>10. Cardinality(A \cup {m}) = Cardinality(A) + 1 /\ Cardinality(B \cup {m}) = Cardinality(B) + 1
  BY <1>9, FS_AddElement
<1>11. ~(e.type \in Beginnings /\ e.type \in Ends)
  BY TypesOfEvents
<1>12. CASE e.type \in Beginnings
  BY <1>2, <1>3, <1>7, <1>8, <1>9, <1>10, <1>11, <1>12
<1>13. CASE e.type \in Ends
  <2>1. e.type \notin Beginnings
    BY <1>11, <1>13
  <2>2. DepthIn(F, n + 2) = Cardinality(A) - Cardinality(B \cup {m})
    BY <1>3, <1>7, <1>8, <1>13, <2>1
  <2>3. DepthIn(F, n + 2) = DepthIn(E, n + 1) - 1
    BY <1>2, <1>9, <1>10, <2>2
  <2> QED
    BY <1>13, <2>1, <2>3
<1>14. CASE e.type \notin Beginnings /\ e.type \notin Ends
  BY <1>2, <1>3, <1>7, <1>8, <1>14
<1> QED
  BY <1>11, <1>12, <1>13, <1>14

LEMMA ChildKept ==
  ASSUME NEW E, NEW F, NEW n, NEW e, Grown(E, F, n, e), NEW k \in 1 .. n, NEW j \in 1 .. n
  PROVE  ChildIn(F, k, j) <=> ChildIn(E, k, j)
<1>1. n \in Nat /\ TypesOf(F)[k] = TypesOf(E)[k]
  BY DEF Grown
<1>2. \A i \in 1 .. n + 1 : DepthIn(F, i) = DepthIn(E, i)
  BY DepthKept
<1>3. k \in 1 .. n + 1 /\ j \in 1 .. n + 1 /\ \A i \in j + 1 .. k : i \in 1 .. n + 1
  BY <1>1
<1>4. DepthIn(F, k) = DepthIn(E, k) /\ DepthIn(F, j) = DepthIn(E, j)
  BY <1>2, <1>3
<1>5. \A i \in j + 1 .. k : DepthIn(F, i) = DepthIn(E, i)
  BY <1>2, <1>3
<1> QED
  BY <1>1, <1>4, <1>5 DEF ChildIn

LEMMA ChildrenGrow ==
  ASSUME NEW E, NEW F, NEW n, NEW e, Grown(E, F, n, e), NEW j \in 1 .. n
  PROVE  /\ Children(E, j) \in SUBSET (1 .. n)
         /\ ChildIn(F, n + 1, j) => Children(F, j) = Children(E, j) \cup {n + 1}
         /\ ~ChildIn(F, n + 1, j) => Children(F, j) = Children(E, j)
<1>1. n \in Nat /\ DOMAIN E = 1 .. n /\ DOMAIN F = 1 .. n + 1
  BY DEF Grown
<1>2. \A k : k \in 1 .. n + 1 <=> k \in 1 .. n \/ k = n + 1
  BY <1>1
<1>3. \A k \in 1 .. n : ChildIn(F, k, j) <=> ChildIn(E, k, j)
  BY ChildKept
<1>4. \A k : k \in Children(E, j) <=> k \in 1 .. n /\ ChildIn(E, k, j)
  BY <1>1 DEF Children
<1>5. \A k : k \in Children(F, j) <=> k \in 1 .. n + 1 /\ ChildIn(F, k, j)
  BY <1>1 DEF Children
<1>6. n + 1 \notin 1 .. n
  BY <1>1
<1> QED
  BY <1>2, <1>3, <1>4, <1>5, <1>6

LEMMA NoChildYet ==
  ASSUME NEW E, NEW F, NEW n, NEW e, Grown(E, F, n, e)
  PROVE  Children(F, n + 1) = {}
<1>1. n \in Nat /\ DOMAIN F = 1 .. n + 1
  BY DEF Grown
<1>2. \A k \in 1 .. n + 1 : ~(n + 1 < k)
  BY <1>1
<1> QED
  BY <1>1, <1>2 DEF Children, ChildIn

(* What the depths say of the containers that are open, by their number.   *)
OpenInText(E, n, c, L) ==
  /\ DepthIn(E, n + 1) = L
  /\ \A k \in 1 .. L : c[k] \in 1 .. n /\ DepthIn(E, c[k]) = k - 1 /\ \A i \in c[k] + 1 .. n + 1 : DepthIn(E, i) >= k

(* A value belongs to the innermost open container. *)
LEMMA ChildOfTop ==
  ASSUME NEW E, NEW F, NEW n, NEW e, Grown(E, F, n, e), e.type \notin Ends \cup {"KEY"},
         NEW c, NEW L \in Nat \ {0}, OpenInText(E, n, c, L), NEW j \in 1 .. n
  PROVE  ChildIn(F, n + 1, j) <=> j = c[L]
<1>1. n \in Nat /\ TypesOf(F)[n + 1] = e.type
  BY DEF Grown
<1>2. /\ L \in 1 .. L /\ c[L] \in 1 .. n /\ DepthIn(E, c[L]) = L - 1 /\ DepthIn(E, n + 1) = L
      /\ \A i \in c[L] + 1 .. n + 1 : DepthIn(E, i) >= L
  BY DEF OpenInText
<1>3. \A i \in 1 .. n + 1 : DepthIn(F, i) = DepthIn(E, i) /\ DepthIn(E, i) \in Int
  BY DepthKept
<1>4. c[L] \in Nat /\ j \in Nat /\ j \in 1 .. n + 1 /\ c[L] \in 1 .. n + 1 /\ n + 1 \in 1 .. n + 1 /\ j < n + 1
  BY <1>1, <1>2
<1>5. ASSUME j = c[L] PROVE ChildIn(F, n + 1, j)
  <2>1. DepthIn(F, j) = L - 1 /\ DepthIn(F, n + 1) = L
    BY <1>2, <1>3, <1>4, <1>5
  <2>2. ASSUME NEW i \in j + 1 .. n + 1 PROVE DepthIn(F, i) > DepthIn(F, j)
    <3>1. i \in 1 .. n + 1
      BY <1>1, <1>4
    <3>2. DepthIn(F, i) = DepthIn(E, i) /\ DepthIn(E, i) \in Int
      BY <1>3, <3>1
    <3>3. DepthIn(E, i) >= L
      BY <1>2, <1>5
    <3> QED
      BY <2>1, <3>2, <3>3
  <2>3. DepthIn(F, n + 1) = DepthIn(F, j) + 1
    BY <2>1
  <2> QED
    BY <1>1, <1>4, <2>2, <2>3 DEF ChildIn
<1>6. ASSUME ChildIn(F, n + 1, j), j # c[L] PROVE FALSE
  <2>1. DepthIn(F, n + 1) = DepthIn(F, j) + 1 /\ \A i \in j + 1 .. n + 1 : DepthIn(F, i) > DepthIn(F, j)
    BY <1>6 DEF ChildIn
  <2>2. DepthIn(F, n + 1) = L /\ DepthIn(F, j) \in Int /\ DepthIn(F, j) = DepthIn(E, j) /\ DepthIn(F, c[L]) = L - 1
    BY <1>2, <1>3, <1>4
  <2>3. DepthIn(F, j) = L - 1
    BY <2>1, <2>2
  <2>4. CASE j < c[L]
    <3>1. c[L] \in j + 1 .. n + 1
      BY <1>2, <1>4, <2>4
    <3> QED
      BY <2>1, <2>2, <2>3, <3>1
  <2>5. CASE c[L] < j
    <3>1. j \in c[L] + 1 .. n + 1
      BY <1>2, <1>4, <2>5
    <3>2. DepthIn(E, j) >= L
      BY <1>2, <3>1
    <3> QED
      BY <2>2, <2>3, <3>2
  <2> QED
    BY <1>4, <1>6, <2>4, <2>5
<1> QED
  BY <1>5, <1>6

-----------------------------------------------------------------------------
(* The members that events mean *)

MeantIn(E, k) == IF Starting(E, k) THEN Container(KindOf(E[k]), k) ELSE E[k]
KeyIn(E, k) == E[k - 1].data
SameKeys(E, C, k) == {i \in C : KeyIn(E, i) = KeyIn(E, k)}
FirstOf(S) == InOrder(S)[1]
LastOf(S) == InOrder(S)[Cardinality(S)]
FirstsOf(E, C) == {k \in C : k = FirstOf(SameKeys(E, C, k))}
Picked(E, p, C, k) == IF p = "USELAST" THEN LastOf(SameKeys(E, C, k)) ELSE k

ItemsOf(E, p, j) ==
  LET C == Children(E, j)
      firsts == InOrder(FirstsOf(E, C))
      listed == InOrder(C)
  IN IF TypesOf(E)[j] = "ARRAY_BEG" THEN [i \in DOMAIN listed |-> Member(<<>>, MeantIn(E, listed[i]))]
     ELSE [i \in DOMAIN firsts |-> Member(KeyIn(E, firsts[i]), MeantIn(E, Picked(E, p, C, firsts[i])))]

(* The same, member by member *)
Lists(s, E, C) ==
  /\ DOMAIN s = 1 .. Cardinality(C)
  /\ \A i \in 1 .. Cardinality(C) : s[i] = Member(<<>>, MeantIn(E, InOrder(C)[i]))
KeyLists(s, E, p, C) ==
  LET firsts == InOrder(FirstsOf(E, C))
  IN /\ DOMAIN s = 1 .. Cardinality(FirstsOf(E, C))
     /\ \A i \in DOMAIN s : s[i] = Member(KeyIn(E, firsts[i]), MeantIn(E, Picked(E, p, C, firsts[i])))

LEMMA ItemsListed ==
  ASSUME NEW E, NEW p, NEW j, NEW T, NEW s \in Seq(T)
  PROVE  /\ TypesOf(E)[j] = "ARRAY_BEG" => (s = ItemsOf(E, p, j) <=> Lists(s, E, Children(E, j)))
         /\ TypesOf(E)[j] # "ARRAY_BEG" => (s = ItemsOf(E, p, j) <=> KeyLists(s, E, p, Children(E, j)))
<1> DEFINE C == Children(E, j)
           firsts == InOrder(FirstsOf(E, C))
           listed == InOrder(C)
           L(i) == Member(<<>>, MeantIn(E, listed[i]))
           K(i) == Member(KeyIn(E, firsts[i]), MeantIn(E, Picked(E, p, C, firsts[i])))
<1>1. s = [i \in DOMAIN s |-> s[i]]
  BY LenProperties
<1>2. DOMAIN listed = 1 .. Cardinality(C) /\ DOMAIN firsts = 1 .. Cardinality(FirstsOf(E, C))
  BY DEF InOrder
<1>3. TypesOf(E)[j] = "ARRAY_BEG" => ItemsOf(E, p, j) = [i \in DOMAIN listed |-> L(i)]
  BY DEF ItemsOf
<1>4. TypesOf(E)[j] # "ARRAY_BEG" => ItemsOf(E, p, j) = [i \in DOMAIN firsts |-> K(i)]
  BY DEF ItemsOf
<1>5. Lists(s, E, C) <=> DOMAIN s = DOMAIN listed /\ \A i \in DOMAIN listed : s[i] = L(i)
  BY <1>2 DEF Lists
<1>6. KeyLists(s, E, p, C) <=> DOMAIN s = DOMAIN firsts /\ \A i \in DOMAIN s : s[i] = K(i)
  BY <1>2 DEF KeyLists
<1> HIDE DEF C, firsts, listed, L, K
<1>7. s = [i \in DOMAIN listed |-> L(i)] <=> DOMAIN s = DOMAIN listed /\ \A i \in DOMAIN listed : s[i] = L(i)
  BY <1>1
<1>8. s = [i \in DOMAIN firsts |-> K(i)] <=> DOMAIN s = DOMAIN firsts /\ \A i \in DOMAIN firsts : s[i] = K(i)
  BY <1>1
<1>9. s = [i \in DOMAIN firsts |-> K(i)] <=> DOMAIN s = DOMAIN firsts /\ \A i \in DOMAIN s : s[i] = K(i)
  BY <1>8
<1>10. TypesOf(E)[j] = "ARRAY_BEG" => (s = ItemsOf(E, p, j) <=> Lists(s, E, C))
  BY <1>3, <1>5, <1>7
<1>11. TypesOf(E)[j] # "ARRAY_BEG" => (s = ItemsOf(E, p, j) <=> KeyLists(s, E, p, C))
  BY <1>4, <1>6, <1>9
<1> QED
  BY <1>10, <1>11 DEF C

LEMMA MeantKept ==
  ASSUME NEW E, NEW F, NEW n, NEW e, Grown(E, F, n, e)
  PROVE  /\ \A k \in 1 .. n : MeantIn(F, k) = MeantIn(E, k) /\ MeantIn(E, k) # New
         /\ MeantIn(F, n + 1) = IF e.type \in Beginnings THEN Container(KindOf(e), n + 1) ELSE e
<1>1. /\ \A k \in 1 .. n : F[k] = E[k] /\ E[k] \in AllEvents /\ TypesOf(E)[k] = E[k].type /\ TypesOf(F)[k] = E[k].type
      /\ F[n + 1] = e /\ TypesOf(F)[n + 1] = e.type
  BY DEF Grown
<1>2. \A a \in AllEvents : a.type # "NEW"
  BY TypesOfEvents DEF Parser!ScalarTypes
<1>3. New.type = "NEW"
  BY DEF New, Value
<1>4. \A a, k : Container(KindOf(a), k).type # "NEW"
  BY DEF Container, Value, KindOf
<1>5. Beginnings = {"ARRAY_BEG", "OBJECT_BEG"}
  BY TypesOfEvents
<1>6. ASSUME NEW k \in 1 .. n PROVE MeantIn(F, k) = MeantIn(E, k) /\ MeantIn(E, k) # New
  <2>1. MeantIn(F, k) = MeantIn(E, k)
    BY <1>1 DEF MeantIn, Starting
  <2>2. MeantIn(E, k).type # "NEW"
    BY <1>1, <1>2, <1>4 DEF MeantIn
  <2> QED
    BY <1>3, <2>1, <2>2
<1>7. MeantIn(F, n + 1) = IF e.type \in Beginnings THEN Container(KindOf(e), n + 1) ELSE e
  BY <1>1, <1>5 DEF MeantIn, Starting
<1> QED
  BY <1>6, <1>7

LEMMA ListsKept ==
  ASSUME NEW E, NEW F, NEW n, NEW e, Grown(E, F, n, e), NEW C \in SUBSET (1 .. n), NEW s
  PROVE  Lists(s, F, C) <=> Lists(s, E, C)
<1>1. \A i \in 1 .. Cardinality(C) : InOrder(C)[i] \in 1 .. n
  BY OrderFacts DEF Grown
<1>2. \A i \in 1 .. Cardinality(C) : MeantIn(F, InOrder(C)[i]) = MeantIn(E, InOrder(C)[i])
  BY <1>1, MeantKept
<1> QED
  BY <1>2 DEF Lists

(* What a container of keys and values is made of *)
LEMMA KeyClasses ==
  ASSUME NEW E, NEW n \in Nat, NEW C \in SUBSET (1 .. n)
  PROVE  /\ FirstsOf(E, C) \in SUBSET C /\ FirstsOf(E, C) \in SUBSET (1 .. n)
         /\ \A k \in C :
              /\ k \in SameKeys(E, C, k) /\ SameKeys(E, C, k) \in SUBSET (1 .. n)
              /\ Cardinality(SameKeys(E, C, k)) \in Nat \ {0}
              /\ FirstOf(SameKeys(E, C, k)) \in SameKeys(E, C, k) /\ LastOf(SameKeys(E, C, k)) \in SameKeys(E, C, k)
              /\ FirstOf(SameKeys(E, C, k)) \in FirstsOf(E, C)
         /\ \A k, l \in FirstsOf(E, C) : KeyIn(E, k) = KeyIn(E, l) => k = l
<1>1. \A k, l \in C : KeyIn(E, k) = KeyIn(E, l) => SameKeys(E, C, k) = SameKeys(E, C, l)
  BY DEF SameKeys
<1>2. FirstsOf(E, C) \in SUBSET C /\ FirstsOf(E, C) \in SUBSET (1 .. n)
  BY DEF FirstsOf
<1>3. ASSUME NEW k \in C
      PROVE  /\ k \in SameKeys(E, C, k) /\ SameKeys(E, C, k) \in SUBSET (1 .. n)
             /\ Cardinality(SameKeys(E, C, k)) \in Nat \ {0}
             /\ FirstOf(SameKeys(E, C, k)) \in SameKeys(E, C, k) /\ LastOf(SameKeys(E, C, k)) \in SameKeys(E, C, k)
             /\ FirstOf(SameKeys(E, C, k)) \in FirstsOf(E, C)
  <2> DEFINE S == SameKeys(E, C, k)
  <2>1. k \in S /\ S \in SUBSET (1 .. n) /\ S \in SUBSET C
    BY DEF SameKeys
  <2>2. \A l \in S : SameKeys(E, C, l) = S
    BY <1>1 DEF SameKeys
  <2> HIDE DEF S
  <2>3. IsFiniteSet(S) /\ Cardinality(S) \in Nat
    BY <2>1, NumbersFinite
  <2>4. Cardinality(S) # 0
    BY <2>1, <2>3, FS_EmptySet
  <2>5. 1 \in 1 .. Cardinality(S) /\ Cardinality(S) \in 1 .. Cardinality(S)
    BY <2>3, <2>4
  <2>6. FirstOf(S) \in S /\ LastOf(S) \in S
    BY <2>1, <2>5, OrderFacts DEF FirstOf, LastOf
  <2>7. FirstOf(S) \in C /\ SameKeys(E, C, FirstOf(S)) = S
    BY <2>1, <2>2, <2>6
  <2>8. FirstOf(S) \in FirstsOf(E, C)
    BY <2>7 DEF FirstsOf
  <2> QED
    BY <2>1, <2>3, <2>4, <2>6, <2>8 DEF S
<1>4. ASSUME NEW k \in FirstsOf(E, C), NEW l \in FirstsOf(E, C), KeyIn(E, k) = KeyIn(E, l)
      PROVE  k = l
  <2>1. k \in C /\ l \in C /\ k = FirstOf(SameKeys(E, C, k)) /\ l = FirstOf(SameKeys(E, C, l))
    BY DEF FirstsOf
  <2>2. SameKeys(E, C, k) = SameKeys(E, C, l)
    BY <1>1, <1>4, <2>1
  <2> QED
    BY <2>1, <2>2
<1> QED
  BY <1>2, <1>3, <1>4

LEMMA KeyListsKept ==
  ASSUME NEW E, NEW F, NEW n, NEW e, Grown(E, F, n, e), NEW C \in SUBSET (2 .. n), NEW p, NEW s
  PROVE  KeyLists(s, F, p, C) <=> KeyLists(s, E, p, C)
<1>1. n \in Nat /\ C \in SUBSET (1 .. n) /\ \A k \in C : k \in 1 .. n /\ k - 1 \in 1 .. n
  BY DEF Grown
<1>2. \A k \in C : KeyIn(F, k) = KeyIn(E, k)
  BY <1>1 DEF Grown, KeyIn
<1>3. \A k \in C : SameKeys(F, C, k) = SameKeys(E, C, k)
  BY <1>2 DEF SameKeys
<1>4. FirstsOf(F, C) = FirstsOf(E, C)
  BY <1>3 DEF FirstsOf
<1> DEFINE firsts == InOrder(FirstsOf(E, C))
           c == Cardinality(FirstsOf(E, C))
<1>5. ASSUME NEW i \in 1 .. c
      PROVE  /\ KeyIn(F, firsts[i]) = KeyIn(E, firsts[i])
             /\ MeantIn(F, Picked(F, p, C, firsts[i])) = MeantIn(E, Picked(E, p, C, firsts[i]))
  <2> DEFINE k == firsts[i]
  <2>1. k \in C
    <3>1. FirstsOf(E, C) \in SUBSET C /\ FirstsOf(E, C) \in SUBSET (1 .. n)
      BY <1>1, KeyClasses
    <3> QED
      BY <1>1, <3>1, OrderFacts
  <2> HIDE DEF firsts, k
  <2>2. Picked(F, p, C, k) = Picked(E, p, C, k)
    BY <1>3, <2>1 DEF Picked
  <2>3. Picked(E, p, C, k) \in C
    <3>1. LastOf(SameKeys(E, C, k)) \in SameKeys(E, C, k)
      BY <1>1, <2>1, KeyClasses
    <3> QED
      BY <2>1, <3>1 DEF Picked, SameKeys
  <2>4. MeantIn(F, Picked(E, p, C, k)) = MeantIn(E, Picked(E, p, C, k))
    <3>1. Picked(E, p, C, k) \in 1 .. n
      BY <1>1, <2>3
    <3>2. \A x \in 1 .. n : MeantIn(F, x) = MeantIn(E, x)
      BY MeantKept
    <3> QED
      BY <3>1, <3>2
  <2> QED
    BY <1>2, <2>1, <2>2, <2>4 DEF k
<1>6. KeyLists(s, E, p, C) <=>
        DOMAIN s = 1 .. c /\ \A i \in DOMAIN s : s[i] = Member(KeyIn(E, firsts[i]), MeantIn(E, Picked(E, p, C, firsts[i])))
  BY DEF KeyLists
<1>7. KeyLists(s, F, p, C) <=>
        DOMAIN s = 1 .. c /\ \A i \in DOMAIN s : s[i] = Member(KeyIn(F, firsts[i]), MeantIn(F, Picked(F, p, C, firsts[i])))
  BY <1>4 DEF KeyLists
<1> HIDE DEF firsts, c
<1> QED
  BY <1>5, <1>6, <1>7

More(C, n) == C \cup {n + 1}

(* A value that comes to an array is the last of it. *)
LEMMA ListsGrow ==
  ASSUME NEW E, NEW n \in Nat, NEW C \in SUBSET (1 .. n), NEW D, D = More(C, n), NEW s, Lists(s, E, C),
         NEW t, DOMAIN t = 1 .. Cardinality(C) + 1, \A i \in 1 .. Cardinality(C) : t[i] = s[i],
         t[Cardinality(C) + 1] = Member(<<>>, MeantIn(E, n + 1))
  PROVE  Lists(t, E, D)
<1> DEFINE c == Cardinality(C)
<1>1. /\ Cardinality(D) = c + 1 /\ InOrder(D)[c + 1] = n + 1
      /\ \A i \in 1 .. c : InOrder(D)[i] = InOrder(C)[i]
  <2>1. D = C \cup {n + 1}
    BY DEF More
  <2>2. /\ Cardinality(C \cup {n + 1}) = c + 1 /\ InOrder(C \cup {n + 1})[c + 1] = n + 1
        /\ \A i \in 1 .. c : InOrder(C \cup {n + 1})[i] = InOrder(C)[i]
    BY OrderGrows
  <2> QED
    BY <2>1, <2>2
<1>2. c \in Nat
  BY NumbersFinite
<1>3. \A i \in 1 .. c : t[i] = Member(<<>>, MeantIn(E, InOrder(C)[i]))
  BY DEF Lists
<1>4. t[c + 1] = Member(<<>>, MeantIn(E, n + 1))
  OBVIOUS
<1>5. \A i \in 1 .. c + 1 : i \in 1 .. c \/ i = c + 1
  BY <1>2
<1>6. DOMAIN t = 1 .. c + 1
  OBVIOUS
<1> HIDE DEF c
<1>7. \A i \in 1 .. c + 1 : t[i] = Member(<<>>, MeantIn(E, InOrder(D)[i]))
  BY <1>1, <1>3, <1>4, <1>5
<1> QED
  BY <1>1, <1>6, <1>7 DEF Lists

(* The keys when one more value has come *)
ClassesMore(E, C, D, Q, m) ==
  /\ \A k \in C : SameKeys(E, D, k) = IF k \in Q THEN SameKeys(E, C, k) \cup {m} ELSE SameKeys(E, C, k)
  /\ SameKeys(E, D, m) = Q \cup {m}
  /\ \A k \in Q : LastOf(SameKeys(E, D, k)) = m
  /\ Q = {} => FirstsOf(E, D) = FirstsOf(E, C) \cup {m} /\ LastOf(SameKeys(E, D, m)) = m
  /\ Q # {} => FirstsOf(E, D) = FirstsOf(E, C)

LEMMA ClassesGrow ==
  ASSUME NEW E, NEW n \in Nat, NEW C \in SUBSET (1 .. n), NEW D, D = More(C, n),
         NEW Q, Q = SameKeys(E, C, n + 1)
  PROVE  ClassesMore(E, C, D, Q, n + 1)
<1> DEFINE m == n + 1
<1>0. D = C \cup {m}
  BY DEF More
<1>1. m \notin C /\ m \in D /\ m \notin 1 .. n
  BY <1>0
<1>q. \A i : i \in Q <=> i \in C /\ KeyIn(E, i) = KeyIn(E, m)
  BY DEF SameKeys
<1>2. \A k \in C : SameKeys(E, D, k) = IF k \in Q THEN SameKeys(E, C, k) \cup {m} ELSE SameKeys(E, C, k)
  <2> TAKE k \in C
  <2>1. k \in Q <=> KeyIn(E, m) = KeyIn(E, k)
    BY <1>q
  <2> HIDE DEF m
  <2>2. \A i : i \in D <=> i \in C \/ i = m
    BY <1>0
  <2>3. \A i : i \in SameKeys(E, D, k) <=> i \in D /\ KeyIn(E, i) = KeyIn(E, k)
    BY DEF SameKeys
  <2>4. \A i : i \in SameKeys(E, C, k) <=> i \in C /\ KeyIn(E, i) = KeyIn(E, k)
    BY DEF SameKeys
  <2>5. CASE k \in Q
    <3>1. \A i : i \in SameKeys(E, D, k) <=> i \in SameKeys(E, C, k) \cup {m}
      BY <2>1, <2>2, <2>3, <2>4, <2>5
    <3> QED
      BY <2>5, <3>1
  <2>6. CASE k \notin Q
    <3>1. \A i : i \in SameKeys(E, D, k) <=> i \in SameKeys(E, C, k)
      BY <2>1, <2>2, <2>3, <2>4, <2>6
    <3> QED
      BY <2>6, <3>1
  <2> QED
    BY <2>5, <2>6
<1>3. SameKeys(E, D, m) = Q \cup {m}
  <2>1. \A i : i \in SameKeys(E, D, m) <=> i \in Q \cup {m}
    BY <1>0, <1>q DEF SameKeys
  <2> QED
    BY <2>1
<1>4. ASSUME NEW k \in C PROVE FirstOf(SameKeys(E, D, k)) = FirstOf(SameKeys(E, C, k))
  <2> DEFINE S == SameKeys(E, C, k)
  <2>1. S \in SUBSET (1 .. n) /\ Cardinality(S) \in Nat \ {0}
    BY KeyClasses
  <2> HIDE DEF S
  <2>2. 1 \in 1 .. Cardinality(S)
    BY <2>1
  <2>3. ASSUME NEW A, A = S \cup {m} PROVE InOrder(A)[1] = InOrder(S)[1]
    BY <2>1, <2>2, <2>3, OrderGrows
  <2>4. SameKeys(E, D, k) = S \cup {m} \/ SameKeys(E, D, k) = S
    BY <1>2 DEF S
  <2>5. FirstOf(SameKeys(E, D, k)) = FirstOf(S)
    BY <2>3, <2>4 DEF FirstOf
  <2> QED
    BY <2>5 DEF S
<1>5. ASSUME NEW k \in Q PROVE LastOf(SameKeys(E, D, k)) = m
  <2> DEFINE S == SameKeys(E, C, k)
             A == SameKeys(E, D, k)
  <2>1. S \in SUBSET (1 .. n) /\ A = S \cup {m}
    BY <1>2, <1>q, KeyClasses
  <2> HIDE DEF S, A
  <2>2. Cardinality(A) = Cardinality(S) + 1 /\ InOrder(A)[Cardinality(S) + 1] = m
    BY <2>1, OrderGrows
  <2>3. LastOf(A) = m
    BY <2>2 DEF LastOf
  <2> QED
    BY <2>3 DEF A
<1>6. \A k \in C : k \in FirstsOf(E, D) <=> k \in FirstsOf(E, C)
  BY <1>0, <1>4 DEF FirstsOf
<1>7. FirstsOf(E, D) \subseteq D /\ FirstsOf(E, C) \subseteq C
  BY DEF FirstsOf
<1>8. m \in FirstsOf(E, D) <=> m = FirstOf(SameKeys(E, D, m))
  BY <1>1 DEF FirstsOf
<1>9. ASSUME Q = {} PROVE FirstsOf(E, D) = FirstsOf(E, C) \cup {m} /\ LastOf(SameKeys(E, D, m)) = m
  <2> DEFINE Z == {}
             A == SameKeys(E, D, m)
  <2>1. Z \in SUBSET (1 .. n) /\ A = Z \cup {m} /\ Cardinality(Z) = 0
    BY <1>3, <1>9, FS_EmptySet
  <2> HIDE DEF Z, A
  <2>2. Cardinality(A) = Cardinality(Z) + 1 /\ InOrder(A)[Cardinality(Z) + 1] = m
    BY <2>1, OrderGrows
  <2>3. Cardinality(A) = 1 /\ InOrder(A)[1] = m
    BY <2>1, <2>2
  <2>4. FirstOf(A) = m /\ LastOf(A) = m
    BY <2>3 DEF FirstOf, LastOf
  <2>5. m \in FirstsOf(E, D)
    BY <1>8, <2>4 DEF A
  <2>6. D = C \cup {m}
    BY <1>0
  <2> HIDE DEF m
  <2> QED
    BY <1>6, <1>7, <2>4, <2>5, <2>6 DEF A
<1>10. ASSUME Q # {} PROVE FirstsOf(E, D) = FirstsOf(E, C)
  <2> DEFINE A == SameKeys(E, D, m)
  <2>1. Q \in SUBSET (1 .. n) /\ A = Q \cup {m}
    BY <1>3, <1>q
  <2> HIDE DEF A
  <2>2. Cardinality(Q) \in Nat /\ Cardinality(Q) # 0
    <3>1. IsFiniteSet(Q) /\ Cardinality(Q) \in Nat
      BY <2>1, NumbersFinite
    <3> QED
      BY <1>10, <3>1, FS_EmptySet
  <2>3. 1 \in 1 .. Cardinality(Q)
    BY <2>2
  <2>4. InOrder(A)[1] = InOrder(Q)[1] /\ InOrder(Q)[1] \in Q
    <3>1. InOrder(A)[1] = InOrder(Q)[1]
      BY <2>1, <2>3, OrderGrows
    <3> QED
      BY <2>1, <2>3, <3>1, OrderFacts
  <2>5. FirstOf(A) # m
    BY <1>1, <2>1, <2>4 DEF FirstOf
  <2>6. m \notin FirstsOf(E, D)
    BY <1>8, <2>5 DEF A
  <2>7. D = C \cup {m}
    BY <1>0
  <2> HIDE DEF m
  <2> QED
    BY <1>6, <1>7, <2>6, <2>7
<1>11. ClassesMore(E, C, D, Q, m)
  <2> HIDE DEF m
  <2> QED
    BY <1>2, <1>3, <1>5, <1>9, <1>10 DEF ClassesMore
<1> QED
  BY <1>11

(* The members of an object, by the first value of each key *)
KeyedBy(s, E, p, C, c, f) ==
  /\ f \in [1 .. c -> C]
  /\ c = Cardinality(FirstsOf(E, C)) /\ DOMAIN s = 1 .. c
  /\ \A i \in 1 .. c : /\ f[i] = InOrder(FirstsOf(E, C))[i]
                       /\ s[i] = Member(KeyIn(E, f[i]), MeantIn(E, Picked(E, p, C, f[i])))
                       /\ s[i].key = KeyIn(E, f[i])
                       /\ Picked(E, p, C, f[i]) \in C
  /\ \A i, j \in 1 .. c : s[i].key = s[j].key => i = j
  /\ \A k \in C : \E i \in 1 .. c : s[i].key = KeyIn(E, k)

LEMMA KeyListFacts ==
  ASSUME NEW E, NEW n \in Nat, NEW C \in SUBSET (1 .. n), NEW p, NEW s, KeyLists(s, E, p, C)
  PROVE  \E c \in Nat : \E f : KeyedBy(s, E, p, C, c, f)
<1> DEFINE Fi == FirstsOf(E, C)
           c  == Cardinality(Fi)
           f  == [i \in 1 .. c |-> InOrder(Fi)[i]]
<1>1. Fi \in SUBSET C /\ Fi \in SUBSET (1 .. n)
  BY KeyClasses
<1>2. c \in Nat /\ \A i \in 1 .. c : InOrder(Fi)[i] \in Fi
  BY <1>1, OrderFacts
<1>3. f \in [1 .. c -> C] /\ \A i \in 1 .. c : f[i] = InOrder(Fi)[i] /\ f[i] \in Fi /\ f[i] \in C
  BY <1>1, <1>2
<1>4. /\ DOMAIN s = 1 .. c
      /\ \A i \in 1 .. c : s[i] = Member(KeyIn(E, InOrder(Fi)[i]), MeantIn(E, Picked(E, p, C, InOrder(Fi)[i])))
  BY DEF KeyLists
<1>5. \A k \in C : Picked(E, p, C, k) \in C
  <2> TAKE k \in C
  <2>1. LastOf(SameKeys(E, C, k)) \in SameKeys(E, C, k)
    BY KeyClasses
  <2> QED
    BY <2>1 DEF Picked, SameKeys
<1>6. \A k, l \in Fi : KeyIn(E, k) = KeyIn(E, l) => k = l
  BY KeyClasses
<1>7. ASSUME NEW k \in C PROVE \E i \in 1 .. c : KeyIn(E, InOrder(Fi)[i]) = KeyIn(E, k)
  <2>1. FirstOf(SameKeys(E, C, k)) \in SameKeys(E, C, k) /\ FirstOf(SameKeys(E, C, k)) \in Fi
    BY KeyClasses
  <2>2. KeyIn(E, FirstOf(SameKeys(E, C, k))) = KeyIn(E, k)
    BY <2>1 DEF SameKeys
  <2>3. \E i \in 1 .. c : InOrder(Fi)[i] = FirstOf(SameKeys(E, C, k))
    BY <1>1, <2>1, OrderReaches
  <2> QED
    BY <2>2, <2>3
<1>8. \A i, j \in 1 .. c : InOrder(Fi)[i] = InOrder(Fi)[j] => i = j
  BY <1>1, OrderInjective
<1>9. c = Cardinality(FirstsOf(E, C)) /\ Fi = FirstsOf(E, C)
  OBVIOUS
<1>10. \A k, v : Member(k, v).key = k
  BY DEF Member
<1> HIDE DEF c, f, Fi
<1>11. \A i \in 1 .. c : /\ f[i] = InOrder(FirstsOf(E, C))[i]
                         /\ s[i] = Member(KeyIn(E, f[i]), MeantIn(E, Picked(E, p, C, f[i])))
                         /\ s[i].key = KeyIn(E, f[i])
                         /\ Picked(E, p, C, f[i]) \in C
  <2> TAKE i \in 1 .. c
  <2>1. f[i] = InOrder(FirstsOf(E, C))[i] /\ f[i] \in C
    BY <1>3, <1>9
  <2>2. s[i] = Member(KeyIn(E, f[i]), MeantIn(E, Picked(E, p, C, f[i])))
    BY <1>4, <1>9, <2>1
  <2> QED
    BY <1>5, <1>10, <2>1, <2>2
<1>12. \A i, j \in 1 .. c : s[i].key = s[j].key => i = j
  BY <1>3, <1>6, <1>8, <1>11
<1>13. \A k \in C : \E i \in 1 .. c : s[i].key = KeyIn(E, k)
  BY <1>3, <1>7, <1>11
<1> QED
  BY <1>2, <1>3, <1>4, <1>9, <1>11, <1>12, <1>13 DEF KeyedBy

(* A value whose key is new *)
LEMMA KeyListsGrow ==
  ASSUME NEW E, NEW n \in Nat, NEW C \in SUBSET (1 .. n), NEW D, D = More(C, n), NEW p,
         NEW s, KeyLists(s, E, p, C), \A i \in DOMAIN s : s[i].key # KeyIn(E, n + 1),
         NEW c \in Nat, DOMAIN s = 1 .. c,
         NEW t, DOMAIN t = 1 .. c + 1, \A i \in 1 .. c : t[i] = s[i],
         t[c + 1] = Member(KeyIn(E, n + 1), MeantIn(E, n + 1))
  PROVE  KeyLists(t, E, p, D)
<1> DEFINE Q == SameKeys(E, C, n + 1)
<1>p. PICK d \in Nat : \E f : KeyedBy(s, E, p, C, d, f)
  BY KeyListFacts
<1>f. PICK f : KeyedBy(s, E, p, C, d, f)
  BY <1>p
<1>1. /\ f \in [1 .. d -> C]
      /\ d = Cardinality(FirstsOf(E, C)) /\ DOMAIN s = 1 .. d
      /\ \A i \in 1 .. d : /\ f[i] = InOrder(FirstsOf(E, C))[i]
                           /\ s[i] = Member(KeyIn(E, f[i]), MeantIn(E, Picked(E, p, C, f[i])))
                           /\ s[i].key = KeyIn(E, f[i])
                           /\ Picked(E, p, C, f[i]) \in C
      /\ \A i, j \in 1 .. d : s[i].key = s[j].key => i = j
      /\ \A k \in C : \E i \in 1 .. d : s[i].key = KeyIn(E, k)
  BY <1>f DEF KeyedBy
<1>2. d = c
  <2>1. 1 .. c = 1 .. d
    BY <1>1
  <2> QED
    BY <2>1
<1>3. Q = {}
  <2>1. \A k \in C : KeyIn(E, k) # KeyIn(E, n + 1)
    BY <1>1
  <2> QED
    BY <2>1 DEF SameKeys
<1>q. Q = SameKeys(E, C, n + 1)
  OBVIOUS
<1> HIDE DEF Q
<1>4. /\ \A k \in C : SameKeys(E, D, k) = IF k \in Q THEN SameKeys(E, C, k) \cup {n + 1} ELSE SameKeys(E, C, k)
      /\ FirstsOf(E, D) = FirstsOf(E, C) \cup {n + 1} /\ LastOf(SameKeys(E, D, n + 1)) = n + 1
  <2>1. ClassesMore(E, C, D, Q, n + 1)
    BY <1>q, ClassesGrow
  <2> QED
    BY <1>3, <2>1 DEF ClassesMore
<1> DEFINE G == FirstsOf(E, D)
           B == FirstsOf(E, C)
           m == n + 1
<1>5. B \in SUBSET (1 .. n) /\ G = B \cup {m} /\ Cardinality(B) = c
  BY <1>1, <1>2, <1>4, KeyClasses
<1> HIDE DEF G, B
<1>6. Cardinality(G) = c + 1 /\ InOrder(G)[c + 1] = m /\ \A i \in 1 .. c : InOrder(G)[i] = InOrder(B)[i]
  BY <1>5, OrderGrows
<1>7. \A k \in C : Picked(E, p, D, k) = Picked(E, p, C, k)
  BY <1>3, <1>4 DEF Picked
<1>8. Picked(E, p, D, m) = m
  BY <1>4 DEF Picked
<1>9. \A i \in 1 .. c + 1 : i \in 1 .. c \/ i = c + 1
  OBVIOUS
<1>10. DOMAIN t = 1 .. Cardinality(G)
  BY <1>6
<1>11. \A i \in 1 .. c : t[i] = Member(KeyIn(E, InOrder(G)[i]), MeantIn(E, Picked(E, p, D, InOrder(G)[i])))
  <2> TAKE i \in 1 .. c
  <2>1. f[i] = InOrder(G)[i] /\ f[i] \in C /\ t[i] = Member(KeyIn(E, f[i]), MeantIn(E, Picked(E, p, C, f[i])))
    BY <1>1, <1>2, <1>6 DEF B
  <2> QED
    BY <1>7, <2>1
<1>12. t[c + 1] = Member(KeyIn(E, m), MeantIn(E, m))
  OBVIOUS
<1> HIDE DEF m
<1>13. t[c + 1] = Member(KeyIn(E, InOrder(G)[c + 1]), MeantIn(E, Picked(E, p, D, InOrder(G)[c + 1])))
  BY <1>6, <1>8, <1>12
<1>14. \A i \in DOMAIN t : t[i] = Member(KeyIn(E, InOrder(G)[i]), MeantIn(E, Picked(E, p, D, InOrder(G)[i])))
  BY <1>9, <1>11, <1>13
<1> QED
  BY <1>10, <1>14 DEF KeyLists, G

(* A value whose key is used: the first or the last one counts. *)
LEMMA KeyListsUsed ==
  ASSUME NEW E, NEW n \in Nat, NEW C \in SUBSET (1 .. n), NEW D, D = More(C, n), NEW p,
         NEW s, KeyLists(s, E, p, C), NEW j \in DOMAIN s, s[j].key = KeyIn(E, n + 1),
         NEW t, DOMAIN t = DOMAIN s, \A i \in DOMAIN s : i # j => t[i] = s[i],
         t[j] = IF p = "USELAST" THEN Member(KeyIn(E, n + 1), MeantIn(E, n + 1)) ELSE s[j]
  PROVE  KeyLists(t, E, p, D)
<1> DEFINE Q == SameKeys(E, C, n + 1)
           m == n + 1
<1>p. PICK d \in Nat : \E f : KeyedBy(s, E, p, C, d, f)
  BY KeyListFacts
<1>f. PICK f : KeyedBy(s, E, p, C, d, f)
  BY <1>p
<1>1. /\ f \in [1 .. d -> C]
      /\ d = Cardinality(FirstsOf(E, C)) /\ DOMAIN s = 1 .. d
      /\ \A i \in 1 .. d : /\ f[i] = InOrder(FirstsOf(E, C))[i]
                           /\ s[i] = Member(KeyIn(E, f[i]), MeantIn(E, Picked(E, p, C, f[i])))
                           /\ s[i].key = KeyIn(E, f[i])
                           /\ Picked(E, p, C, f[i]) \in C
      /\ \A i, l \in 1 .. d : s[i].key = s[l].key => i = l
      /\ \A k \in C : \E i \in 1 .. d : s[i].key = KeyIn(E, k)
  BY <1>f DEF KeyedBy
<1>2. j \in 1 .. d /\ f[j] \in Q /\ Q # {}
  BY <1>1 DEF SameKeys
<1>3. /\ \A k \in C : SameKeys(E, D, k) = IF k \in Q THEN SameKeys(E, C, k) \cup {m} ELSE SameKeys(E, C, k)
      /\ FirstsOf(E, D) = FirstsOf(E, C)
      /\ \A k \in Q : LastOf(SameKeys(E, D, k)) = m
  <2>1. Q = SameKeys(E, C, n + 1)
    OBVIOUS
  <2> HIDE DEF Q
  <2>2. ClassesMore(E, C, D, Q, n + 1)
    BY <2>1, ClassesGrow
  <2> QED
    BY <1>2, <2>2 DEF ClassesMore
<1>4. \A k : k \in Q <=> k \in C /\ KeyIn(E, k) = KeyIn(E, m)
  BY DEF SameKeys
<1>5. s[j].key = KeyIn(E, m) /\ t[j] = IF p = "USELAST" THEN Member(KeyIn(E, m), MeantIn(E, m)) ELSE s[j]
  OBVIOUS
<1> HIDE DEF Q, m
<1>6. ASSUME NEW i \in 1 .. d
      PROVE  t[i] = Member(KeyIn(E, f[i]), MeantIn(E, Picked(E, p, D, f[i])))
  <2>1. f[i] \in C
    BY <1>1
  <2>2. CASE i = j
    <3>1. CASE p = "USELAST"
      <4>1. Picked(E, p, D, f[j]) = m
        BY <1>2, <1>3, <3>1 DEF Picked
      <4>2. KeyIn(E, f[j]) = KeyIn(E, m)
        BY <1>2, <1>4
      <4> QED
        BY <1>5, <2>2, <3>1, <4>1, <4>2
    <3>2. CASE p # "USELAST"
      <4>1. Picked(E, p, D, f[i]) = f[i] /\ Picked(E, p, C, f[i]) = f[i]
        BY <3>2 DEF Picked
      <4> QED
        BY <1>1, <1>5, <2>2, <3>2, <4>1
    <3> QED
      BY <3>1, <3>2
  <2>3. CASE i # j
    <3>1. f[i] \notin Q
      <4>1. s[i].key # s[j].key
        BY <1>1, <1>2, <2>3
      <4> QED
        BY <1>1, <1>4, <1>5, <4>1
    <3>2. Picked(E, p, D, f[i]) = Picked(E, p, C, f[i])
      BY <1>3, <2>1, <3>1 DEF Picked
    <3>3. t[i] = s[i]
      BY <1>1, <2>3
    <3> QED
      BY <1>1, <3>2, <3>3
  <2> QED
    BY <2>2, <2>3
<1>7. DOMAIN t = 1 .. Cardinality(FirstsOf(E, D)) /\ DOMAIN t = 1 .. d
  BY <1>1, <1>3
<1>8. \A i \in DOMAIN t : t[i] = Member(KeyIn(E, InOrder(FirstsOf(E, D))[i]), MeantIn(E, Picked(E, p, D, InOrder(FirstsOf(E, D))[i])))
  <2> TAKE i \in DOMAIN t
  <2>1. i \in 1 .. d /\ f[i] = InOrder(FirstsOf(E, D))[i]
    BY <1>1, <1>3, <1>7
  <2> QED
    BY <1>6, <2>1
<1> QED
  BY <1>7, <1>8 DEF KeyLists

-----------------------------------------------------------------------------
(* What a value that comes changes in the store *)

NewValue(event, n) == IF event.type \in Beginnings THEN Container(KindOf(event), n + 1) ELSE event
Widened(C, event, n) == IF event.type \in Beginnings THEN Began(C, n + 1, KindOf(event)) ELSE C

(* The container h is another, and one may be new. *)
Became(S, W, h, event, n) ==
  /\ h \in DOMAIN W /\ W[h].kind = S[h].kind
  /\ \A c \in DOMAIN W : c # h =>
       \/ c \in DOMAIN S /\ W[c] = S[c]
       \/ c = n + 1 /\ event.type \in Beginnings /\ W[c].kind = KindOf(event) /\ W[c].items = <<>>

Added(s, t, m) ==
  /\ DOMAIN t = 1 .. Len(s) + 1
  /\ t[Len(s) + 1] = m /\ \A i \in 1 .. Len(s) : t[i] = s[i]

Replaced(s, t, j, v) ==
  /\ DOMAIN t = DOMAIN s
  /\ t[j] = Member(s[j].key, v) /\ \A i \in DOMAIN s : i # j => t[i] = s[i]

LEMMA InitializeDone ==
  ASSUME NEW event, IsValueEvent(event), NEW n, n = Len(events), NEW a, NEW old, NEW C,
         Initialize(event, a, old, C), ret' = "OK"
  PROVE  /\ path' = IF event.type \in Beginnings THEN Append(path, a) ELSE path
         /\ a = RootAddress => root' = NewValue(event, n) /\ store' = Widened(C, event, n)
         /\ a # RootAddress => root' = root
              /\ store' = Writes(Widened(C, event, n), a.home, a.at, NewValue(event, n))
<1>1. \A v, S : Write(a, v, S) =>
        /\ a = RootAddress => root' = v /\ store' = S
        /\ a # RootAddress => root' = root /\ store' = Writes(S, a.home, a.at, v)
  BY DEF Write, Writes
<1>2. CASE /\ event.type \in Parser!ScalarTypes /\ Write(a, event, C)
           /\ UNCHANGED <<path, path_alloc, ret>>
  <2>1. event.type \notin Beginnings
    BY <1>2, ScalarEvent DEF IsValueEvent
  <2> QED
    BY <1>1, <1>2, <2>1 DEF NewValue, Widened
<1>3. CASE /\ event.type \in Beginnings
           /\ Write(a, Container(KindOf(event), n + 1), Began(C, n + 1, KindOf(event)))
           /\ Push(a)
  <2>1. path' = Append(path, a)
    BY <1>3 DEF Push, Result
  <2> QED
    BY <1>1, <1>3, <2>1 DEF NewValue, Widened
<1>4. CASE Result("OUTOFMEMORY")
  BY <1>4 DEF Result
<1> QED
  BY <1>2, <1>3, <1>4 DEF Initialize, Began, Beginnings

LEMMA WriteEffect ==
  ASSUME NEW S, S \in [DOMAIN S -> Content], NEW h \in DOMAIN S, NEW at \in Slots(S, h), NEW v,
         NEW W, W = Writes(S, h, at, v)
  PROVE  /\ DOMAIN W = DOMAIN S /\ W[h].kind = S[h].kind /\ \A c \in DOMAIN S : c # h => W[c] = S[c]
         /\ Replaced(S[h].items, W[h].items, at, v)
<1> DEFINE items == S[h].items
           item  == items[at]
           item2 == [item EXCEPT !.value = v]
           items2 == [items EXCEPT ![at] = item2]
           content2 == [S[h] EXCEPT !.items = items2]
<1>1. W = [S EXCEPT ![h] = content2]
  BY DEF Writes
<1>2. S[h] \in Content /\ items \in Seq(Item) /\ at \in DOMAIN items /\ item \in Item
  <2>1. at \in DOMAIN items
    BY DEF Slots
  <2> QED
    BY <2>1, StoreFacts DEF Slots
<1>3. item2 = Member(item.key, v)
  BY <1>2 DEF Item, Member
<1> HIDE DEF item2
<1>4. DOMAIN items2 = DOMAIN items /\ \A j \in DOMAIN items : items2[j] = IF j = at THEN item2 ELSE items[j]
  OBVIOUS
<1> HIDE DEF items2
<1>5. content2.kind = S[h].kind /\ content2.items = items2
  BY <1>2 DEF Content
<1> HIDE DEF content2
<1>6. DOMAIN W = DOMAIN S /\ W[h] = content2 /\ \A c \in DOMAIN S : c # h => W[c] = S[c]
  BY <1>1
<1>7. Replaced(items, items2, at, v)
  BY <1>2, <1>3, <1>4 DEF Replaced
<1> QED
  BY <1>5, <1>6, <1>7

LEMMA WidenedFacts ==
  ASSUME NEW C, C \in [DOMAIN C -> Content], NEW event, IsValueEvent(event), NEW n, n + 1 \notin DOMAIN C,
         NEW W, W = Widened(C, event, n)
  PROVE  /\ W \in [DOMAIN W -> Content] /\ DOMAIN C \subseteq DOMAIN W
         /\ \A c \in DOMAIN C : W[c] = C[c] /\ Slots(W, c) = Slots(C, c)
         /\ \A c \in DOMAIN W : c \notin DOMAIN C =>
              c = n + 1 /\ event.type \in Beginnings /\ W[c].kind = KindOf(event) /\ W[c].items = <<>>
<1>1. CASE event.type \in Beginnings
  <2>1. PICK kind \in Parser!Kinds : event.type = Parser!Beginning(kind)
    BY <1>1 DEF Beginnings
  <2>2. KindOf(event) = kind
    BY <2>1, TypesOfEvents
  <2> DEFINE id == n + 1
  <2>3. W = Began(C, id, kind) /\ id \notin DOMAIN C
    BY <1>1, <2>2 DEF Widened
  <2> HIDE DEF id
  <2>4. /\ DOMAIN W = DOMAIN C \cup {id} /\ W \in [DOMAIN W -> Content]
        /\ \A c \in DOMAIN C : W[c] = C[c] /\ Slots(W, c) = Slots(C, c)
        /\ W[id].kind = kind
    <3> DEFINE V == Began(C, id, kind)
    <3>1. /\ DOMAIN V = DOMAIN C \cup {id} /\ V \in [DOMAIN V -> Content]
          /\ \A c \in DOMAIN C : V[c] = C[c] /\ Slots(V, c) = Slots(C, c)
                                 /\ \A j \in Slots(C, c) : ValueAt(V, c, j) = ValueAt(C, c, j)
          /\ V[id].kind = kind /\ Slots(V, id) = {}
      BY <2>3, BeganStore
    <3>2. W = V
      BY <2>3
    <3> HIDE DEF V
    <3> QED
      BY <3>1, <3>2
  <2>5. W[id].items = <<>>
    <3> DEFINE begun == [kind |-> kind, items |-> <<>>]
    <3>1. W[id] = begun
      BY <2>3 DEF Began
    <3> QED
      BY <3>1
  <2>6. \A c \in DOMAIN W : c \notin DOMAIN C => c = id
    BY <2>4
  <2>7. \A c \in DOMAIN W : c \notin DOMAIN C => c = id /\ W[c].kind = kind /\ W[c].items = <<>>
    BY <2>4, <2>5, <2>6
  <2> QED
    BY <1>1, <2>2, <2>4, <2>7 DEF id
<1>2. CASE event.type \notin Beginnings
  BY <1>2 DEF Widened
<1> QED
  BY <1>1, <1>2

(* A member at the end of a container gets its value. *)
LEMMA MemberAdded ==
  ASSUME NEW S, S \in [DOMAIN S -> Content], NEW event, IsValueEvent(event), NEW n, n + 1 \notin DOMAIN S,
         NEW h \in DOMAIN S, NEW k, Member(k, New) \in Item, NEW v,
         NEW C, C = Appends(S, h, Member(k, New)),
         NEW at, at = Len(S[h].items) + 1,
         NEW W, W = Writes(Widened(C, event, n), h, at, v)
  PROVE  Became(S, W, h, event, n) /\ Added(S[h].items, W[h].items, Member(k, v))
<1> DEFINE new == Member(k, New)
           s == S[h].items
           B == Widened(C, event, n)
<1>1. new \in Item /\ new.key = k /\ new.value = New
  BY DEF Member
<1>2. C = Appends(S, h, new) /\ new = Member(k, New)
  OBVIOUS
<1> HIDE DEF new
<1>3. /\ DOMAIN C = DOMAIN S /\ C \in [DOMAIN C -> Content]
      /\ \A c \in DOMAIN S : c # h => C[c] = S[c]
      /\ C[h].kind = S[h].kind /\ Len(C[h].items) = Len(S[h].items) + 1 /\ Slots(C, h) = 1 .. Len(S[h].items) + 1
  BY <1>1, <1>2, AppendedStore
<1>4. s \in Seq(Item) /\ Len(s) \in Nat /\ at = Len(s) + 1 /\ DOMAIN s = 1 .. Len(s)
  BY StoreFacts, LenProperties
<1>5. C[h].items = Append(s, new)
  <2>1. S[h] \in Content
    OBVIOUS
  <2> DEFINE t == Append(s, new)
             d == [S[h] EXCEPT !.items = t]
  <2>2. C = [S EXCEPT ![h] = d]
    BY <1>2 DEF Appends
  <2>3. d.items = t
    BY <2>1 DEF Content
  <2> HIDE DEF d, t
  <2>4. C[h].items = t
    BY <2>2, <2>3
  <2> QED
    BY <2>4 DEF t
<1>6. /\ DOMAIN C[h].items = 1 .. Len(s) + 1
      /\ C[h].items[Len(s) + 1] = new /\ \A i \in 1 .. Len(s) : C[h].items[i] = s[i]
  <2>1. Len(C[h].items) = Len(s) + 1 /\ C[h].items \in Seq(Item)
    BY <1>1, <1>4, <1>5, AppendProperties
  <2> QED
    BY <1>1, <1>4, <1>5, <2>1, AppendProperties, LenProperties
<1>7. /\ B \in [DOMAIN B -> Content] /\ DOMAIN C \subseteq DOMAIN B
      /\ \A c \in DOMAIN C : B[c] = C[c] /\ Slots(B, c) = Slots(C, c)
      /\ \A c \in DOMAIN B : c \notin DOMAIN C =>
           c = n + 1 /\ event.type \in Beginnings /\ B[c].kind = KindOf(event) /\ B[c].items = <<>>
  BY <1>3, WidenedFacts
<1>8. W = Writes(B, h, at, v)
  OBVIOUS
<1> HIDE DEF B, s
<1>9. h \in DOMAIN B /\ at \in Slots(B, h) /\ B[h] = C[h]
  <2>1. h \in DOMAIN C /\ at \in Slots(C, h)
    BY <1>3, <1>4 DEF s
  <2> QED
    BY <1>7, <2>1
<1>10. /\ DOMAIN W = DOMAIN B /\ W[h].kind = B[h].kind /\ \A c \in DOMAIN B : c # h => W[c] = B[c]
       /\ Replaced(B[h].items, W[h].items, at, v)
  BY <1>7, <1>8, <1>9, WriteEffect
<1>11. Became(S, W, h, event, n)
  BY <1>3, <1>7, <1>9, <1>10 DEF Became
<1>12. Added(s, W[h].items, Member(k, v))
  <2> DEFINE t == W[h].items
             u == C[h].items
  <2>1. Replaced(u, t, at, v)
    BY <1>9, <1>10
  <2>2. DOMAIN u = 1 .. Len(s) + 1 /\ u[Len(s) + 1] = new /\ \A i \in 1 .. Len(s) : u[i] = s[i]
    BY <1>6
  <2> HIDE DEF t, u
  <2>3. DOMAIN t = 1 .. Len(s) + 1 /\ t[at] = Member(u[at].key, v) /\ \A i \in 1 .. Len(s) + 1 : i # at => t[i] = u[i]
    BY <2>1, <2>2 DEF Replaced
  <2>4. u[at].key = k
    BY <1>1, <1>4, <2>2
  <2>5. \A i \in 1 .. Len(s) : i \in 1 .. Len(s) + 1 /\ i # at
    BY <1>4
  <2>6. Added(s, t, Member(k, v))
    BY <1>4, <2>2, <2>3, <2>4, <2>5 DEF Added
  <2> QED
    BY <2>6 DEF t
<1> QED
  BY <1>11, <1>12 DEF s

(* A member's value is released and another put in its place. *)
LEMMA MemberReplaced ==
  ASSUME NEW S, S \in [DOMAIN S -> Content], NEW event, IsValueEvent(event), NEW n, n + 1 \notin DOMAIN S,
         NEW h \in DOMAIN S, NEW j \in Slots(S, h), NEW v, NEW old,
         NEW T, T = value_fini(old, Writes(S, h, j, Null)), T \in [DOMAIN T -> Content], h \in DOMAIN T,
         NEW W, W = Writes(Widened(T, event, n), h, j, v)
  PROVE  Became(S, W, h, event, n) /\ Replaced(S[h].items, W[h].items, j, v)
<1> DEFINE N == Writes(S, h, j, Null)
           B == Widened(T, event, n)
<1>1. /\ DOMAIN N = DOMAIN S /\ N[h].kind = S[h].kind /\ \A c \in DOMAIN S : c # h => N[c] = S[c]
      /\ Replaced(S[h].items, N[h].items, j, Null)
  BY WriteEffect
<1>2. T = [id \in DOMAIN N \ Within(old, N) |-> N[id]]
  BY DEF value_fini
<1> HIDE DEF N
<1>3. DOMAIN T \subseteq DOMAIN S /\ \A c \in DOMAIN T : T[c] = N[c]
  BY <1>1, <1>2
<1>4. /\ B \in [DOMAIN B -> Content] /\ DOMAIN T \subseteq DOMAIN B
      /\ \A c \in DOMAIN T : B[c] = T[c] /\ Slots(B, c) = Slots(T, c)
      /\ \A c \in DOMAIN B : c \notin DOMAIN T =>
           c = n + 1 /\ event.type \in Beginnings /\ B[c].kind = KindOf(event) /\ B[c].items = <<>>
  BY <1>3, WidenedFacts
<1>5. W = Writes(B, h, j, v)
  OBVIOUS
<1> HIDE DEF B
<1>6. h \in DOMAIN B /\ B[h] = N[h] /\ j \in Slots(B, h)
  <2>1. h \in DOMAIN B /\ B[h] = N[h]
    BY <1>3, <1>4
  <2>2. j \in DOMAIN N[h].items
    BY <1>1 DEF Replaced, Slots
  <2> QED
    BY <2>1, <2>2 DEF Slots
<1>7. /\ DOMAIN W = DOMAIN B /\ W[h].kind = B[h].kind /\ \A c \in DOMAIN B : c # h => W[c] = B[c]
      /\ Replaced(B[h].items, W[h].items, j, v)
  BY <1>4, <1>5, <1>6, WriteEffect
<1>8. Became(S, W, h, event, n)
  BY <1>1, <1>3, <1>4, <1>6, <1>7 DEF Became
<1>9. Replaced(S[h].items, W[h].items, j, v)
  <2> DEFINE s == S[h].items
             u == N[h].items
             t == W[h].items
  <2>1. Replaced(s, u, j, Null) /\ Replaced(u, t, j, v) /\ j \in DOMAIN s
    BY <1>1, <1>6, <1>7 DEF Slots
  <2> HIDE DEF s, u, t
  <2>2. Member(s[j].key, Null).key = s[j].key
    BY DEF Member
  <2>3. Replaced(s, t, j, v)
    BY <2>1, <2>2 DEF Replaced
  <2> QED
    BY <2>3 DEF s, t
<1> QED
  BY <1>8, <1>9

(* The open containers by their numbers *)
Ids(p, r, S) == [k \in DOMAIN p |-> ValueOf(p[k], r, S).data[1]]

Extends(p, q) == \A k \in DOMAIN p : k \in DOMAIN q /\ q[k] = p[k]
Stays(p, q, r, S, W) == \A k \in DOMAIN p : ValueOf(q[k], r, W) = ValueOf(p[k], r, S)

(* The path to a container that became another is the same. *)
LEMMA IdsKept ==
  ASSUME NEW r, NEW S, NEW n \in Nat, IsTree(r, S, n),
         NEW p \in Seq(Addresses), NEW o \in Seq(Parser!Kinds), Follows(p, o, r, S), p # <<>>,
         NEW event, NEW W, NEW h, h = ValueOf(p[Len(p)], r, S).data[1], Became(S, W, h, event, n),
         NEW q, NEW u, Follows(q, u, r, W), Extends(p, q)
  PROVE  Stays(p, q, r, S, W)
<1> DEFINE C(k) == ValueOf(p[k], r, S).data[1]
           L == Len(p)
<1>1. DOMAIN S \subseteq 1 .. n /\ L \in Nat /\ DOMAIN p = 1 .. L /\ L \in DOMAIN p
  BY LenProperties, EmptySeq DEF IsTree
<1>2. /\ \A k \in DOMAIN p :
           /\ C(k) \in DOMAIN S /\ p[k].home < C(k)
           /\ IF k = 1 THEN p[k] = RootAddress ELSE p[k] # RootAddress /\ p[k].home \in DOMAIN S
      /\ \A k \in DOMAIN p : \A i \in 1 .. k - 1 : C(i) < C(k)
  BY PathDown
<1>3. Became(S, W, C(L), event, n)
  OBVIOUS
<1> HIDE DEF C
<1>4. ASSUME NEW k \in DOMAIN p PROVE ValueOf(q[k], r, W) = ValueOf(p[k], r, S)
  <2>1. q[k] = p[k] /\ Living(p[k], W)
    BY DEF Follows, Extends
  <2>2. CASE k = 1
    BY <1>2, <2>1, <2>2 DEF ValueOf
  <2>3. CASE k # 1
    <3>1. p[k] # RootAddress /\ p[k].home \in DOMAIN S /\ p[k].home \in DOMAIN W
      BY <1>2, <2>1, <2>3 DEF Living
    <3>2. C(k) \in Nat /\ C(L) \in Nat /\ p[k].home \in Nat /\ p[k].home < C(k)
      BY <1>1, <1>2, <3>1
    <3>3. k = L \/ C(k) < C(L)
      BY <1>1, <1>2
    <3>4. p[k].home # C(L)
      BY <3>2, <3>3
    <3>5. p[k].home # n + 1
      BY <1>1, <3>1
    <3>6. W[p[k].home] = S[p[k].home]
      BY <1>3, <3>1, <3>4, <3>5 DEF Became
    <3> QED
      BY <2>1, <3>1, <3>6 DEF ValueOf, ValueAt
  <2> QED
    BY <2>2, <2>3
<1> QED
  BY <1>4 DEF Stays

-----------------------------------------------------------------------------
(* A tree that is what the events mean *)

Documented(E, p, r, S) ==
  /\ E # <<>> => r = MeantIn(E, 1)
  /\ \A id \in DOMAIN S : S[id].kind = KindOf(E[id]) /\ S[id].items = ItemsOf(E, p, id)

LEMMA ChildrenLater ==
  ASSUME NEW E, NEW n \in Nat, DOMAIN E = 1 .. n, NEW j \in 1 .. n
  PROVE  Children(E, j) \in SUBSET (2 .. n) /\ Children(E, j) \in SUBSET (1 .. n)
<1>1. \A k \in 1 .. n : j < k => k \in 2 .. n
  OBVIOUS
<1>2. \A k \in Children(E, j) : k \in 1 .. n /\ j < k
  BY DEF Children, ChildIn
<1> QED
  BY <1>1, <1>2

LEMMA ItemsKept ==
  ASSUME NEW E, NEW F, NEW n, NEW e, Grown(E, F, n, e), NEW j \in 1 .. n, ~ChildIn(F, n + 1, j),
         NEW p, NEW T, NEW s \in Seq(T), s = ItemsOf(E, p, j)
  PROVE  s = ItemsOf(F, p, j)
<1> DEFINE C == Children(E, j)
<1>1. n \in Nat /\ DOMAIN E = 1 .. n /\ TypesOf(F)[j] = TypesOf(E)[j]
  BY DEF Grown
<1>2. C \in SUBSET (2 .. n) /\ C \in SUBSET (1 .. n) /\ Children(F, j) = C
  BY <1>1, ChildrenLater, ChildrenGrow
<1>3. /\ TypesOf(E)[j] = "ARRAY_BEG" => (s = ItemsOf(E, p, j) <=> Lists(s, E, C))
      /\ TypesOf(E)[j] # "ARRAY_BEG" => (s = ItemsOf(E, p, j) <=> KeyLists(s, E, p, C))
  BY ItemsListed
<1>4. /\ TypesOf(F)[j] = "ARRAY_BEG" => (s = ItemsOf(F, p, j) <=> Lists(s, F, C))
      /\ TypesOf(F)[j] # "ARRAY_BEG" => (s = ItemsOf(F, p, j) <=> KeyLists(s, F, p, C))
  BY <1>2, ItemsListed
<1> HIDE DEF C
<1>5. Lists(s, F, C) <=> Lists(s, E, C)
  BY <1>2, ListsKept
<1>6. KeyLists(s, F, p, C) <=> KeyLists(s, E, p, C)
  BY <1>2, KeyListsKept
<1> QED
  BY <1>1, <1>3, <1>4, <1>5, <1>6

LEMMA NewItems ==
  ASSUME NEW E, NEW F, NEW n, NEW e, Grown(E, F, n, e), NEW p
  PROVE  ItemsOf(F, p, n + 1) = <<>>
<1> DEFINE Z == {}
           s == <<>>
<1>1. Children(F, n + 1) = Z
  BY NoChildYet
<1>2. s \in Seq(Nat) /\ DOMAIN s = 1 .. 0 /\ 1 .. 0 = {}
  BY EmptySeq
<1>3. Cardinality(Z) = 0
  BY FS_EmptySet
<1>4. FirstsOf(F, Z) = Z
  BY DEF FirstsOf
<1>5. /\ TypesOf(F)[n + 1] = "ARRAY_BEG" => (s = ItemsOf(F, p, n + 1) <=> Lists(s, F, Children(F, n + 1)))
      /\ TypesOf(F)[n + 1] # "ARRAY_BEG" => (s = ItemsOf(F, p, n + 1) <=> KeyLists(s, F, p, Children(F, n + 1)))
  <2> HIDE DEF s
  <2> QED
    BY <1>2, ItemsListed
<1> HIDE DEF s, Z
<1>6. Lists(s, F, Z)
  BY <1>2, <1>3 DEF Lists
<1>7. KeyLists(s, F, p, Z)
  BY <1>2, <1>3, <1>4 DEF KeyLists
<1>8. s = ItemsOf(F, p, n + 1)
  BY <1>1, <1>5, <1>6, <1>7
<1> QED
  BY <1>8 DEF s

LEMMA ValuesMeant ==
  ASSUME NEW E, NEW F, NEW n, NEW e, Grown(E, F, n, e), NEW j \in 1 .. n, TypesOf(E)[j] # "ARRAY_BEG",
         NEW p, NEW T, NEW s \in Seq(T), s = ItemsOf(E, p, j)
  PROVE  \A i \in DOMAIN s : s[i].value # New
<1> DEFINE C == Children(E, j)
<1>1. n \in Nat /\ DOMAIN E = 1 .. n
  BY DEF Grown
<1>2. C \in SUBSET (1 .. n)
  BY <1>1, ChildrenLater
<1>3. KeyLists(s, E, p, C)
  BY ItemsListed
<1> HIDE DEF C
<1>4. PICK c \in Nat : \E f : KeyedBy(s, E, p, C, c, f)
  BY <1>1, <1>2, <1>3, KeyListFacts
<1>5. PICK f : KeyedBy(s, E, p, C, c, f)
  BY <1>4
<1>6. ASSUME NEW i \in DOMAIN s PROVE s[i].value # New
  <2>1. s[i] = Member(KeyIn(E, f[i]), MeantIn(E, Picked(E, p, C, f[i]))) /\ Picked(E, p, C, f[i]) \in C
    BY <1>5 DEF KeyedBy
  <2>2. Picked(E, p, C, f[i]) \in 1 .. n
    BY <1>2, <2>1
  <2>3. MeantIn(E, Picked(E, p, C, f[i])) # New
    BY <2>2, MeantKept
  <2>4. \A k, v : Member(k, v).value = v
    BY DEF Member
  <2> QED
    BY <2>1, <2>3, <2>4
<1> QED
  BY <1>6

(* What the container gets that the value belongs to *)
LEMMA ArrayItems ==
  ASSUME NEW E, NEW F, NEW n, NEW e, Grown(E, F, n, e), NEW h \in 1 .. n, TypesOf(E)[h] = "ARRAY_BEG",
         ChildIn(F, n + 1, h), NEW p, NEW T, NEW s \in Seq(T), s = ItemsOf(E, p, h),
         NEW t \in Seq(T), NEW M, M = Member(<<>>, MeantIn(F, n + 1)), Added(s, t, M)
  PROVE  t = ItemsOf(F, p, h)
<1> DEFINE C == Children(E, h)
           D == Children(F, h)
<1>1. n \in Nat /\ DOMAIN E = 1 .. n /\ TypesOf(F)[h] = "ARRAY_BEG"
  BY DEF Grown
<1>2. C \in SUBSET (1 .. n) /\ D = More(C, n)
  BY <1>1, ChildrenLater, ChildrenGrow DEF More
<1>3. Lists(s, E, C) /\ (t = ItemsOf(F, p, h) <=> Lists(t, F, D))
  BY <1>1, ItemsListed
<1> HIDE DEF C, D
<1>4. Lists(s, F, C)
  BY <1>2, <1>3, ListsKept
<1>5. Len(s) = Cardinality(C) /\ Cardinality(C) \in Nat
  <2>1. Cardinality(C) \in Nat
    BY <1>1, <1>2, NumbersFinite
  <2>2. DOMAIN s = 1 .. Cardinality(C)
    BY <1>4 DEF Lists
  <2>3. Len(s) \in Nat /\ DOMAIN s = 1 .. Len(s)
    BY LenProperties
  <2> HIDE DEF C
  <2> QED
    BY <2>1, <2>2, <2>3
<1>6. /\ DOMAIN t = 1 .. Cardinality(C) + 1 /\ \A i \in 1 .. Cardinality(C) : t[i] = s[i]
      /\ t[Cardinality(C) + 1] = Member(<<>>, MeantIn(F, n + 1))
  BY <1>5 DEF Added
<1>7. Lists(t, F, D)
  BY <1>1, <1>2, <1>4, <1>6, ListsGrow
<1> QED
  BY <1>3, <1>7

LEMMA ObjectItems ==
  ASSUME NEW E, NEW F, NEW n, NEW e, Grown(E, F, n, e), NEW h \in 1 .. n, TypesOf(E)[h] # "ARRAY_BEG",
         ChildIn(F, n + 1, h), NEW p, NEW T, NEW s \in Seq(T), s = ItemsOf(E, p, h), NEW t \in Seq(T),
         NEW k, k = KeyIn(F, n + 1), NEW v, v = MeantIn(F, n + 1),
         \/ (\A i \in DOMAIN s : s[i].key # k) /\ Added(s, t, Member(k, v))
         \/ \E j \in DOMAIN s : s[j].key = k /\ IF p = "USELAST" THEN Replaced(s, t, j, v) ELSE t = s
  PROVE  t = ItemsOf(F, p, h)
<1> DEFINE C == Children(E, h)
           D == Children(F, h)
<1>1. n \in Nat /\ DOMAIN E = 1 .. n /\ TypesOf(F)[h] # "ARRAY_BEG"
  BY DEF Grown
<1>2. C \in SUBSET (2 .. n) /\ C \in SUBSET (1 .. n) /\ D = More(C, n)
  BY <1>1, ChildrenLater, ChildrenGrow DEF More
<1>3. KeyLists(s, E, p, C) /\ (t = ItemsOf(F, p, h) <=> KeyLists(t, F, p, D))
  BY <1>1, ItemsListed
<1> HIDE DEF C, D
<1>4. KeyLists(s, F, p, C)
  BY <1>2, <1>3, KeyListsKept
<1>5. Len(s) \in Nat /\ DOMAIN s = 1 .. Len(s)
  BY LenProperties
<1>6. CASE (\A i \in DOMAIN s : s[i].key # k) /\ Added(s, t, Member(k, v))
  <2>1. /\ DOMAIN t = 1 .. Len(s) + 1 /\ \A i \in 1 .. Len(s) : t[i] = s[i]
        /\ t[Len(s) + 1] = Member(KeyIn(F, n + 1), MeantIn(F, n + 1))
    BY <1>6 DEF Added
  <2>2. \A i \in DOMAIN s : s[i].key # KeyIn(F, n + 1)
    BY <1>6
  <2>3. KeyLists(t, F, p, D)
    <3>1. PICK c : c = Len(s)
      OBVIOUS
    <3>2. /\ c \in Nat /\ DOMAIN s = 1 .. c /\ DOMAIN t = 1 .. c + 1
          /\ \A i \in 1 .. c : t[i] = s[i]
          /\ t[c + 1] = Member(KeyIn(F, n + 1), MeantIn(F, n + 1))
      BY <1>5, <2>1, <3>1
    <3>3. n \in Nat /\ C \in SUBSET (1 .. n) /\ D = More(C, n)
      BY <1>1, <1>2
    <3> QED
      BY <1>4, <2>2, <3>2, <3>3, KeyListsGrow
  <2> QED
    BY <1>3, <2>3
<1>7. ASSUME NEW j \in DOMAIN s, s[j].key = k, IF p = "USELAST" THEN Replaced(s, t, j, v) ELSE t = s
      PROVE  t = ItemsOf(F, p, h)
  <2>1. /\ s[j].key = KeyIn(F, n + 1)
        /\ DOMAIN t = DOMAIN s /\ \A i \in DOMAIN s : i # j => t[i] = s[i]
        /\ t[j] = IF p = "USELAST" THEN Member(KeyIn(F, n + 1), MeantIn(F, n + 1)) ELSE s[j]
    BY <1>7 DEF Replaced
  <2>2. KeyLists(t, F, p, D)
    BY <1>1, <1>2, <1>4, <2>1, KeyListsUsed
  <2> QED
    BY <1>3, <2>2
<1> QED
  BY <1>6, <1>7

(* An event that is no value leaves the meaning of all that came before.   *)
LEMMA DocumentedStill ==
  ASSUME NEW E, NEW F, NEW n, NEW e, Grown(E, F, n, e), e.type \in Ends \cup {"KEY"}, n # 0,
         NEW p, NEW r, NEW S, IsTree(r, S, n), Documented(E, p, r, S)
  PROVE  Documented(F, p, r, S)
<1>1. n \in Nat /\ 1 \in 1 .. n /\ F[1] = E[1]
  BY DEF Grown
<1>2. r = MeantIn(F, 1)
  <2>1. E # <<>>
    BY <1>1, EmptySeq, LenProperties DEF Grown
  <2>2. MeantIn(F, 1) = MeantIn(E, 1)
    BY <1>1, MeantKept
  <2> QED
    BY <2>1, <2>2 DEF Documented
<1>3. ASSUME NEW id \in DOMAIN S PROVE S[id].kind = KindOf(F[id]) /\ S[id].items = ItemsOf(F, p, id)
  <2>1. id \in 1 .. n /\ S[id].items \in Seq(Item)
    BY StoreFacts DEF IsTree
  <2>2. S[id].kind = KindOf(E[id]) /\ S[id].items = ItemsOf(E, p, id)
    BY DEF Documented
  <2>3. F[id] = E[id]
    BY <2>1 DEF Grown
  <2>4. ~ChildIn(F, n + 1, id)
    BY DEF Grown, ChildIn
  <2>5. S[id].items = ItemsOf(F, p, id)
    BY <2>1, <2>2, <2>4, ItemsKept
  <2> QED
    BY <2>2, <2>3, <2>5
<1> QED
  BY <1>2, <1>3 DEF Documented

(* A value that comes changes the meaning of the innermost container.      *)
LEMMA DocumentedAfter ==
  ASSUME NEW E, NEW F, NEW n, NEW e, Grown(E, F, n, e), e.type \notin Ends \cup {"KEY"}, n # 0,
         NEW p, NEW r, NEW S, IsTree(r, S, n), Documented(E, p, r, S),
         NEW c, NEW L \in Nat \ {0}, OpenInText(E, n, c, L), NEW h \in DOMAIN S, h = c[L],
         NEW W, Became(S, W, h, e, n), W[h].items = ItemsOf(F, p, h)
  PROVE  Documented(F, p, r, W)
<1>1. n \in Nat /\ 1 \in 1 .. n /\ F[1] = E[1] /\ F[n + 1] = e
  BY DEF Grown
<1>2. r = MeantIn(F, 1)
  <2>1. E # <<>>
    BY <1>1, EmptySeq, LenProperties DEF Grown
  <2>2. MeantIn(F, 1) = MeantIn(E, 1)
    BY <1>1, MeantKept
  <2> QED
    BY <2>1, <2>2 DEF Documented
<1>3. ASSUME NEW id \in DOMAIN S
      PROVE  /\ id \in 1 .. n /\ S[id].kind = KindOf(F[id])
             /\ id # h => S[id].items = ItemsOf(F, p, id)
  <2>1. id \in 1 .. n /\ S[id].items \in Seq(Item)
    BY StoreFacts DEF IsTree
  <2>2. S[id].kind = KindOf(E[id]) /\ S[id].items = ItemsOf(E, p, id)
    BY DEF Documented
  <2>3. F[id] = E[id]
    BY <2>1 DEF Grown
  <2>4. ASSUME id # h PROVE S[id].items = ItemsOf(F, p, id)
    <3>1. ~ChildIn(F, n + 1, id)
      BY <2>1, <2>4, ChildOfTop
    <3> QED
      BY <2>1, <2>2, <3>1, ItemsKept
  <2> QED
    BY <2>1, <2>2, <2>3, <2>4
<1>4. ASSUME NEW id \in DOMAIN W PROVE W[id].kind = KindOf(F[id]) /\ W[id].items = ItemsOf(F, p, id)
  <2>1. CASE id = h
    BY <1>3, <2>1 DEF Became
  <2>2. CASE id \in DOMAIN S /\ W[id] = S[id] /\ id # h
    BY <1>3, <2>2
  <2>3. CASE id = n + 1 /\ W[id].kind = KindOf(e) /\ W[id].items = <<>>
    BY <1>1, <2>3, NewItems
  <2> QED
    BY <2>1, <2>2, <2>3 DEF Became
<1> QED
  BY <1>2, <1>4 DEF Documented

(* The first event *)
LEMMA DocumentedFirst ==
  ASSUME NEW E, NEW F, NEW n, NEW e, Grown(E, F, n, e), n = 0, IsValueEvent(e), NEW p,
         NEW S, DOMAIN S = {}, NEW W, W = Widened(S, e, n)
  PROVE  Documented(F, p, NewValue(e, n), W)
<1>1. F[n + 1] = e /\ n + 1 = 1
  BY DEF Grown
<1>2. MeantIn(F, n + 1) = NewValue(e, n)
  <2>1. MeantIn(F, n + 1) = IF e.type \in Beginnings THEN Container(KindOf(e), n + 1) ELSE e
    BY MeantKept
  <2> QED
    BY <2>1 DEF NewValue
<1>3. ItemsOf(F, p, n + 1) = <<>>
  BY NewItems
<1>4. \A c \in DOMAIN W : c = n + 1 /\ W[c].kind = KindOf(e) /\ W[c].items = <<>>
  <2>1. CASE e.type \in Beginnings
    <3> DEFINE begun == [kind |-> KindOf(e), items |-> <<>>]
               m == n + 1
    <3>1. W = [c \in DOMAIN S \cup {m} |-> IF c = m THEN begun ELSE S[c]]
      BY <2>1 DEF Widened, Began
    <3>2. begun.kind = KindOf(e) /\ begun.items = <<>>
      OBVIOUS
    <3> HIDE DEF begun, m
    <3>3. \A c \in DOMAIN W : c = m /\ W[c] = begun
      BY <3>1
    <3>4. \A c \in DOMAIN W : c = m /\ W[c].kind = KindOf(e) /\ W[c].items = <<>>
      BY <3>2, <3>3
    <3> QED
      BY <3>4 DEF m
  <2>2. CASE e.type \notin Beginnings
    BY <2>2 DEF Widened
  <2> QED
    BY <2>1, <2>2
<1> QED
  BY <1>1, <1>2, <1>3, <1>4 DEF Documented

-----------------------------------------------------------------------------
(* The open containers, after an event *)

LEMMA OpenAfter ==
  ASSUME NEW E, NEW F, NEW n, NEW e, Grown(E, F, n, e), NEW c, NEW L \in Nat, OpenInText(E, n, c, L),
         NEW d, NEW M \in Nat, M <= L + 1, \A k \in 1 .. M : k <= L => d[k] = c[k],
         DepthIn(F, n + 2) = M, M = L + 1 => d[M] = n + 1
  PROVE  OpenInText(F, n + 1, d, M)
<1>1. n \in Nat /\ (n + 1) + 1 = n + 2
  BY DEF Grown
<1>2. \A i \in 1 .. n + 1 : DepthIn(F, i) = DepthIn(E, i) /\ DepthIn(E, i) \in Int
  BY DepthKept
<1>3. /\ DepthIn(E, n + 1) = L
      /\ \A k \in 1 .. L : c[k] \in 1 .. n /\ DepthIn(E, c[k]) = k - 1 /\ \A i \in c[k] + 1 .. n + 1 : DepthIn(E, i) >= k
  BY DEF OpenInText
<1>4. ASSUME NEW k \in 1 .. M
      PROVE  /\ d[k] \in 1 .. n + 1 /\ DepthIn(F, d[k]) = k - 1
             /\ \A i \in d[k] + 1 .. (n + 1) + 1 : DepthIn(F, i) >= k
  <2>1. CASE k <= L
    <3>1. k \in 1 .. L /\ d[k] = c[k] /\ c[k] \in 1 .. n /\ DepthIn(E, c[k]) = k - 1
      BY <1>3, <2>1
    <3>2. d[k] \in 1 .. n + 1 /\ DepthIn(F, d[k]) = k - 1
      <4>1. c[k] \in 1 .. n + 1
        BY <1>1, <3>1
      <4> QED
        BY <1>2, <3>1, <4>1
    <3>3. ASSUME NEW i \in d[k] + 1 .. n + 2 PROVE DepthIn(F, i) >= k
      <4>1. CASE i = n + 2
        BY <4>1
      <4>2. CASE i # n + 2
        <5>1. i \in c[k] + 1 .. n + 1 /\ i \in 1 .. n + 1
          BY <1>1, <3>1, <4>2
        <5>2. DepthIn(E, i) >= k
          BY <1>3, <3>1, <5>1
        <5> QED
          BY <1>2, <5>1, <5>2
      <4> QED
        BY <4>1, <4>2
    <3> QED
      BY <1>1, <3>2, <3>3
  <2>2. CASE ~(k <= L)
    <3>1. k = M /\ M = L + 1 /\ d[k] = n + 1 /\ k - 1 = L
      BY <2>2
    <3>2. DepthIn(F, n + 1) = L
      <4>1. n + 1 \in 1 .. n + 1
        BY <1>1
      <4> QED
        BY <1>2, <1>3, <4>1
    <3>3. \A i \in d[k] + 1 .. n + 2 : i = n + 2
      BY <1>1, <3>1
    <3> QED
      BY <1>1, <3>1, <3>2, <3>3
  <2> QED
    BY <2>1, <2>2
<1>5. DepthIn(F, (n + 1) + 1) = M
  BY <1>1
<1> QED
  BY <1>4, <1>5 DEF OpenInText

-----------------------------------------------------------------------------
(* The tree and the path in terms of the events *)

InText == OpenInText(events, Len(events), Ids(path, root, store), Len(path))
KeyRead == keyed => events # <<>> /\ key = <<events[Len(events)].data>>

(* The inductive invariant *)
DocInv ==
  /\ DomInv
  /\ BuildsDocument
  /\ phase = "parsing" /\ ret = "OK" => InText /\ KeyRead

LEMMA DocumentMeaning ==
  BuildsDocument <=> (ret = "OK" => Documented(events, policy, root, store))
<1>1. \A j : Members(j) = ItemsOf(events, policy, j)
  BY DEF Members, ItemsOf, Children, ChildIn, DepthIn, Starting, Closing, TypesOf, FirstsOf, FirstOf, LastOf, SameKeys,
         Picked, KeyIn, MeantIn, IsChild, Depth, Begins, Types, Meant
<1>2. \A k : Meant(k) = MeantIn(events, k)
  BY DEF MeantIn, Meant, Begins, Starting, Types, TypesOf
<1> QED
  BY <1>1, <1>2 DEF BuildsDocument, Documented

LEMMA DocumentMeaningPrimed ==
  BuildsDocument' <=> (ret' = "OK" => Documented(events', policy', root', store'))
<1>1. \A j : Members(j)' = ItemsOf(events', policy', j)
  BY DEF Members, ItemsOf, Children, ChildIn, DepthIn, Starting, Closing, TypesOf, FirstsOf, FirstOf, LastOf, SameKeys,
         Picked, KeyIn, MeantIn, IsChild, Depth, Begins, Types, Meant
<1>2. \A k : Meant(k)' = MeantIn(events', k)
  BY DEF MeantIn, Meant, Begins, Starting, Types, TypesOf
<1> QED
  BY <1>1, <1>2 DEF BuildsDocument, Documented

LEMMA InTextPrimed ==
  InText' <=> OpenInText(events', Len(events'), Ids(path', root', store'), Len(path'))
BY DEF InText, OpenInText, DepthIn, Starting, Closing, TypesOf, Ids, ValueOf, ValueAt

-----------------------------------------------------------------------------
(* A value and the innermost container *)

(* What a value that was taken has changed below the root. *)
Fitted(event, n, id) ==
  /\ root' = root /\ Became(store, store', id, event, n)
  /\ store'[id].items = ItemsOf(events', policy, id)
  /\ event.type \notin Beginnings => path' = path
  /\ event.type \in Beginnings => \E a : /\ path' = Append(path, a) /\ a # RootAddress
                                         /\ ValueAt(store', a.home, a.at) = NewValue(event, n)

(* The container, before the value comes *)
Innermost(event, n, id) ==
  /\ id \in DOMAIN store /\ id \in 1 .. n /\ n \in Nat /\ n # 0 /\ n + 1 \notin DOMAIN store
  /\ store \in [DOMAIN store -> Content] /\ Parent = store[id]
  /\ store[id].items \in Seq(Item) /\ store[id].items = ItemsOf(events, policy, id)
  /\ ChildIn(events', n + 1, id)
  /\ TypesOf(events)[id] = "ARRAY_BEG" <=> At(Top).type = "ARRAY"
  /\ Len(path) \in Nat \ {0} /\ id = Ids(path, root, store)[Len(path)]

LEMMA InnermostFound ==
  ASSUME NEW n, Ready(n), path # <<>>, NEW event \in AllEvents, event.type \notin Ends \cup {"KEY"},
         Grown(events, events', n, event), InText, Documented(events, policy, root, store),
         NEW id, id = At(Top).data[1]
  PROVE  Innermost(event, n, id)
<1>1. /\ n \in Nat /\ n = Len(events) /\ path \in Seq(Addresses)
      /\ store \in [DOMAIN store -> Content] /\ DOMAIN store \subseteq 1 .. n
  BY DEF Ready, IsTree
<1>2. /\ id \in DOMAIN store /\ At(Top) = ValueOf(path[Len(path)], root, store)
      /\ store[id].kind = At(Top).type
  BY TopFacts
<1>3. id \in 1 .. n /\ n # 0 /\ n + 1 \notin DOMAIN store
  BY <1>1, <1>2
<1>4. Len(path) \in Nat \ {0} /\ Len(path) \in DOMAIN path
  BY <1>1, LenProperties, EmptySeq
<1>5. id = Ids(path, root, store)[Len(path)]
  BY <1>2, <1>4 DEF Ids
<1>6. ChildIn(events', n + 1, id)
  <2>1. OpenInText(events, n, Ids(path, root, store), Len(path))
    BY <1>1 DEF InText
  <2> QED
    BY <1>3, <1>4, <1>5, <2>1, ChildOfTop
<1>7. store[id].kind = KindOf(events[id]) /\ store[id].items = ItemsOf(events, policy, id)
  BY <1>2 DEF Documented
<1>8. TypesOf(events)[id] = "ARRAY_BEG" <=> At(Top).type = "ARRAY"
  <2>1. TypesOf(events)[id] = events[id].type
    BY <1>3 DEF Grown
  <2> QED
    BY <1>2, <1>7, <2>1 DEF KindOf
<1>9. store[id].items \in Seq(Item)
  BY <1>1, <1>2, StoreFacts
<1>10. Parent = store[id]
  BY DEF Parent
<1> QED
  BY <1>1, <1>2, <1>3, <1>4, <1>5, <1>6, <1>7, <1>8, <1>9, <1>10 DEF Innermost

(* A place that was added gets the value. *)
LEMMA FreshPlace ==
  ASSUME NEW n, n = Len(events), NEW event, IsValueEvent(event), NEW id, Innermost(event, n, id), ret' = "OK",
         NEW k, Member(k, New) \in Item, NEW m, m = Len(store[id].items) + 1, NEW b,
         NEW C, C = Appends(store, id, Member(k, New)),
         Initialize(event, Address(id, m, b), New, C)
  PROVE  /\ Became(store, store', id, event, n) /\ root' = root
         /\ Added(store[id].items, store'[id].items, Member(k, NewValue(event, n)))
         /\ event.type \notin Beginnings => path' = path
         /\ event.type \in Beginnings => \E a : /\ path' = Append(path, a) /\ a # RootAddress
                                                /\ ValueAt(store', a.home, a.at) = NewValue(event, n)
<1> DEFINE a == Address(id, m, b)
           v == NewValue(event, n)
<1>1. a # RootAddress /\ a.home = id /\ a.at = m
  BY AddressFacts DEF Innermost
<1>2. Initialize(event, a, New, C)
  OBVIOUS
<1> HIDE DEF a
<1>3. /\ path' = IF event.type \in Beginnings THEN Append(path, a) ELSE path
      /\ root' = root /\ store' = Writes(Widened(C, event, n), id, m, v)
  BY <1>1, <1>2, InitializeDone
<1> HIDE DEF v
<1>4. Became(store, store', id, event, n) /\ Added(store[id].items, store'[id].items, Member(k, v))
  BY <1>3, MemberAdded DEF Innermost
<1>5. ValueAt(store', id, m) = v
  <2>1. store'[id].items[m] = Member(k, v)
    BY <1>4 DEF Added
  <2> QED
    BY <2>1 DEF ValueAt, Member
<1> QED
  BY <1>1, <1>3, <1>4, <1>5 DEF v

LEMMA ArrayFits ==
  ASSUME NEW n, n = Len(events), NEW event, IsValueEvent(event), Grown(events, events', n, event),
         NEW id, id = At(Top).data[1], Innermost(event, n, id), At(Top).type = "ARRAY",
         store' \in [DOMAIN store' -> Content], ret' = "OK", AddToArray(event)
  PROVE  Fitted(event, n, id)
<1> DEFINE m == Len(store[id].items) + 1
           new == Member(<<>>, New)
           C == Appends(store, id, new)
<1>1. Initialize(event, Address(id, m, Capacity(m)), New, C)
  BY DEF AddToArray, NoMemory, Result, WithMember, Appends, Innermost
<1>2. new \in Item
  BY ValueFacts DEF Member, Item
<1>3. C = Appends(store, id, Member(<<>>, New)) /\ Member(<<>>, New) \in Item
  BY <1>2
<1> HIDE DEF m, C, new
<1>4. m = Len(store[id].items) + 1
  BY DEF m
<1>5. /\ Became(store, store', id, event, n) /\ root' = root
      /\ Added(store[id].items, store'[id].items, Member(<<>>, NewValue(event, n)))
      /\ event.type \notin Beginnings => path' = path
      /\ event.type \in Beginnings => \E a : /\ path' = Append(path, a) /\ a # RootAddress
                                             /\ ValueAt(store', a.home, a.at) = NewValue(event, n)
  BY <1>1, <1>3, <1>4, FreshPlace
<1>6. NewValue(event, n) = MeantIn(events', n + 1)
  <2>1. MeantIn(events', n + 1) = IF event.type \in Beginnings THEN Container(KindOf(event), n + 1) ELSE event
    BY MeantKept
  <2> QED
    BY <2>1 DEF NewValue
<1>7. store'[id].items = ItemsOf(events', policy, id)
  <2>1. store'[id].items \in Seq(Item)
    <3>1. id \in DOMAIN store'
      BY <1>5 DEF Became
    <3> QED
      BY <3>1, StoreFacts
  <2>2. /\ id \in 1 .. n /\ TypesOf(events)[id] = "ARRAY_BEG" /\ ChildIn(events', n + 1, id)
        /\ store[id].items \in Seq(Item) /\ store[id].items = ItemsOf(events, policy, id)
    BY DEF Innermost
  <2>3. Added(store[id].items, store'[id].items, Member(<<>>, MeantIn(events', n + 1)))
    BY <1>5, <1>6
  <2>4. PICK before, after, F : before = store[id].items /\ after = store'[id].items /\ F = events'
    OBVIOUS
  <2>5. /\ before \in Seq(Item) /\ before = ItemsOf(events, policy, id) /\ ChildIn(F, n + 1, id)
        /\ after \in Seq(Item) /\ Added(before, after, Member(<<>>, MeantIn(F, n + 1)))
    BY <2>1, <2>2, <2>3, <2>4
  <2>6. PICK M : M = Member(<<>>, MeantIn(F, n + 1))
    OBVIOUS
  <2>7. Grown(events, F, n, event) /\ Added(before, after, M)
    BY <2>4, <2>5, <2>6
  <2>8. after = ItemsOf(F, policy, id)
    BY <2>2, <2>5, <2>6, <2>7, ArrayItems
  <2> QED
    BY <2>4, <2>8
<1> QED
  BY <1>5, <1>7 DEF Fitted

(* The key that waits is that of the event before. *)
LEMMA KeyOfValue ==
  ASSUME NEW n, Ready(n), KeyInTurn, KeyRead, NEW event, TakesValue(event), path # <<>>, At(Top).type = "OBJECT",
         Grown(events, events', n, event), n # 0
  PROVE  KeyData = KeyIn(events', n + 1) /\ Parser!InObject
<1>1. open # <<>> /\ open[Len(open)] = "OBJECT"
  BY TopFacts
<1>2. Parser!InObject /\ keyed
  BY <1>1 DEF TakesValue, TakesScalar, TakesBeginning, Parser!MayTakeValue, Parser!InObject
<1>3. key = <<events[n].data>>
  BY <1>2 DEF KeyRead, Ready
<1>4. KeyData = events[n].data
  BY <1>3 DEF KeyData
<1>5. (n + 1) - 1 = n /\ events'[n] = events[n]
  <2>1. n \in 1 .. n
    BY DEF Ready
  <2> QED
    BY <2>1 DEF Grown, Ready
<1> QED
  BY <1>2, <1>4, <1>5 DEF KeyIn

LEMMA ObjectFits ==
  ASSUME NEW n, Ready(n), KeyInTurn, KeyRead, NEW event, TakesValue(event), path # <<>>, At(Top).type = "OBJECT",
         Grown(events, events', n, event), IsValueEvent(event),
         NEW id, id = At(Top).data[1], Innermost(event, n, id),
         key = <<>> \/ \E k \in Keys : key = <<k>>, policy \in Policies, ~NestsUnderUsed(event),
         store' \in [DOMAIN store' -> Content], ret' = "OK", AddToDict(event)
  PROVE  Fitted(event, n, id)
<1> DEFINE k == KeyData
           s == store[id].items
           m == Len(s) + 1
           new == Member(k, New)
           C == Appends(store, id, new)
           v == NewValue(event, n)
           used == {j \in Places(KeyData) : Parent.items[j].value # New}
<1>1. /\ id \in DOMAIN store /\ id \in 1 .. n /\ n \in Nat /\ n # 0 /\ n + 1 \notin DOMAIN store
      /\ store \in [DOMAIN store -> Content] /\ Parent = store[id] /\ s \in Seq(Item)
      /\ s = ItemsOf(events, policy, id) /\ ChildIn(events', n + 1, id) /\ TypesOf(events)[id] # "ARRAY_BEG"
  BY DEF Innermost
<1>2. k = KeyIn(events', n + 1) /\ Parser!InObject
  BY <1>1, KeyOfValue
<1>3. v = MeantIn(events', n + 1)
  <2>1. MeantIn(events', n + 1) = IF event.type \in Beginnings THEN Container(KindOf(event), n + 1) ELSE event
    BY MeantKept
  <2> QED
    BY <2>1 DEF NewValue
<1>4. \A i \in DOMAIN s : s[i].value # New
  <2> HIDE DEF s
  <2> QED
    BY <1>1, ValuesMeant
<1>5. used = {j \in DOMAIN s : s[j].key = k}
  <2>1. \A j : j \in used <=> j \in DOMAIN s /\ s[j].key = k
    BY <1>1, <1>4 DEF Places
  <2> QED
    BY <2>1
<1>6. new \in Item
  <2>1. KeyData \in {<<>>} \cup Keys
    BY DEF KeyData
  <2> QED
    BY <2>1, ValueFacts DEF Member, Item
(* The members follow when they are what the lemma about objects asks for. *)
<1>7. ASSUME id \in DOMAIN store',
             \/ (\A i \in DOMAIN s : s[i].key # k) /\ Added(s, store'[id].items, Member(k, v))
             \/ \E j \in DOMAIN s : s[j].key = k /\ IF policy = "USELAST" THEN Replaced(s, store'[id].items, j, v)
                                                    ELSE store'[id].items = s
      PROVE  store'[id].items = ItemsOf(events', policy, id)
  <2> DEFINE t == store'[id].items
  <2>1. t \in Seq(Item)
    BY <1>7, StoreFacts
  <2>2. \/ (\A i \in DOMAIN s : s[i].key # k) /\ Added(s, t, Member(k, v))
        \/ \E j \in DOMAIN s : s[j].key = k /\ IF policy = "USELAST" THEN Replaced(s, t, j, v) ELSE t = s
    BY <1>7
  <2> HIDE DEF s, t, k, v
  <2>3. t = ItemsOf(events', policy, id)
    BY <1>1, <1>2, <1>3, <2>1, <2>2, ObjectItems
  <2> QED
    BY <2>3 DEF t
<1>8. CASE Initialize(event, Address(id, m, 0), New, C) /\ used = {}
  <2>1. C = Appends(store, id, Member(k, New)) /\ Member(k, New) \in Item /\ m = Len(store[id].items) + 1
    BY <1>6
  <2>2. \A i \in DOMAIN s : s[i].key # k
    BY <1>5, <1>8
  <2> HIDE DEF m, C, new, used, k
  <2>3. /\ Became(store, store', id, event, n) /\ root' = root
        /\ Added(store[id].items, store'[id].items, Member(k, NewValue(event, n)))
        /\ event.type \notin Beginnings => path' = path
        /\ event.type \in Beginnings => \E a : /\ path' = Append(path, a) /\ a # RootAddress
                                               /\ ValueAt(store', a.home, a.at) = NewValue(event, n)
    BY <1>8, <2>1, FreshPlace DEF Ready
  <2>4. store'[id].items = ItemsOf(events', policy, id)
    BY <1>7, <2>2, <2>3 DEF Became
  <2> QED
    BY <2>3, <2>4 DEF Fitted
<1>9. ASSUME NEW j \in used, UsedKey(event, id, j)
      PROVE  Fitted(event, n, id)
  <2>1. j \in DOMAIN s /\ s[j].key = k /\ j \in Slots(store, id) /\ Parent.items[j].value = ValueAt(store, id, j)
    BY <1>1, <1>5 DEF Slots, ValueAt
  <2>2. CASE policy = "USEFIRST"
    <3>1. root' = root /\ store' = store /\ path' = path
      BY <1>9, <2>2 DEF UsedKey
    <3>2. event.type \notin Beginnings
      <4>1. Places(KeyData) # {}
        BY <1>9
      <4> QED
        BY <1>2, <2>2, <4>1 DEF NestsUnderUsed, Beginnings
    <3>3. Became(store, store', id, event, n)
      BY <1>1, <3>1 DEF Became
    <3>4. store'[id].items = ItemsOf(events', policy, id)
      BY <1>1, <1>7, <2>1, <2>2, <3>1
    <3> QED
      BY <3>1, <3>2, <3>3, <3>4 DEF Fitted
  <2>3. CASE policy = "USELAST"
    <3> DEFINE T == value_fini(ValueAt(store, id, j), Writes(store, id, j, Null))
               a == Address(id, j, 0)
    <3>1. Initialize(event, Address(id, j, 0), Null, T)
      BY <1>9, <2>1, <2>3 DEF UsedKey, Writes
    <3>2. /\ IsTree(root, T, n) /\ id \in DOMAIN T
      BY <1>1, <2>1, Pruned DEF Ready
    <3>3. T \in [DOMAIN T -> Content]
      BY <3>2 DEF IsTree
    <3>4. T = value_fini(ValueAt(store, id, j), Writes(store, id, j, Null))
      OBVIOUS
    <3>5. a # RootAddress /\ a.home = id /\ a.at = j
      BY <1>1, AddressFacts
    <3>6. Initialize(event, a, Null, T)
      BY <3>1
    <3> HIDE DEF T, a, s, k, v
    <3>7. n = Len(events)
      BY DEF Ready
    <3>8. /\ path' = IF event.type \in Beginnings THEN Append(path, a) ELSE path
          /\ root' = root /\ store' = Writes(Widened(T, event, n), a.home, a.at, NewValue(event, n))
      BY <3>5, <3>6, <3>7, InitializeDone
    <3>9. store' = Writes(Widened(T, event, n), id, j, NewValue(event, n))
      BY <3>5, <3>8
    <3>10. Became(store, store', id, event, n) /\ Replaced(store[id].items, store'[id].items, j, NewValue(event, n))
      BY <1>1, <2>1, <3>2, <3>3, <3>4, <3>9, MemberReplaced
    <3>11. Replaced(s, store'[id].items, j, v)
      BY <3>10 DEF s, v
    <3>12. store'[id].items = ItemsOf(events', policy, id)
      BY <1>7, <2>1, <2>3, <3>10, <3>11 DEF Became
    <3>13. ValueAt(store', id, j) = NewValue(event, n)
      BY <3>10 DEF Replaced, ValueAt, Member
    <3> QED
      BY <3>5, <3>8, <3>10, <3>12, <3>13 DEF Fitted
  <2>4. CASE policy = "ABORT"
    BY <1>9, <2>4 DEF UsedKey, Result
  <2> QED
    BY <2>2, <2>3, <2>4, DomAssumption
<1>10. Parent = store[id] /\ C = WithMember(id, Member(KeyData, New))
  BY <1>1 DEF WithMember, Appends
<1> HIDE DEF used, C
<1>11. (\E j \in used : UsedKey(event, id, j)) \/ (used = {} /\ Initialize(event, Address(id, m, 0), New, C)) \/ NoMemory
  BY <1>10 DEF AddToDict, used
<1>12. ~NoMemory
  BY DEF NoMemory, Result
<1> QED
  BY <1>8, <1>9, <1>11, <1>12

-----------------------------------------------------------------------------
(* The steps, with the document *)

LEMMA DocStarts ==
  ASSUME Init
  PROVE  DocInv
<1>1. /\ events = <<>> /\ keyed = FALSE /\ store = [id \in {} |-> Null] /\ path = <<>>
  BY DEF Init, Parser!Init
<1>2. Documented(events, policy, root, store)
  BY <1>1 DEF Documented
<1>3. KeyRead
  BY <1>1 DEF KeyRead
<1>4. InText
  <2>1. Len(events) = 0 /\ Len(path) = 0
    BY <1>1, EmptySeq
  <2>2. DepthIn(events, 0 + 1) = 0
    <3> DEFINE A == {j \in 1 .. (0 + 1) - 1 : Starting(events, j)}
               B == {j \in 1 .. (0 + 1) - 1 : Closing(events, j)}
    <3>1. A = {} /\ B = {}
      OBVIOUS
    <3>2. DepthIn(events, 0 + 1) = Cardinality(A) - Cardinality(B)
      BY DEF DepthIn
    <3> QED
      BY <3>1, <3>2, FS_EmptySet
  <2> QED
    BY <2>1, <2>2 DEF InText, OpenInText
<1> QED
  BY <1>2, <1>3, <1>4, Starts, DocumentMeaning DEF DocInv

(* A value that comes is part of the document, and open if it is a container. *)
LEMMA DocValue ==
  ASSUME NEW n, Ready(n), KeyInTurn, KeyRead, InText, Documented(events, policy, root, store),
         NEW event, TakesValue(event), IsValueEvent(event), event.type \notin Ends \cup {"KEY"},
         Grown(events, events', n, event), Len(events') = n + 1,
         key = <<>> \/ \E k \in Keys : key = <<k>>, policy \in Policies, ~NestsUnderUsed(event),
         AddValue(event), ret' = "OK",
         path' \in Seq(Addresses), open' \in Seq(Parser!Kinds), Follows(path', open', root', store'),
         IsTree(root', store', n + 1)
  PROVE  Documented(events', policy, root', store') /\ OpenInText(events', n + 1, Ids(path', root', store'), Len(path'))
<1> DEFINE c == Ids(path, root, store)
           d == Ids(path', root', store')
           L == Len(path)
           M == Len(path')
<1>1. /\ n \in Nat /\ n = Len(events) /\ path \in Seq(Addresses) /\ IsTree(root, store, n)
      /\ L \in Nat /\ DOMAIN path = 1 .. L /\ M \in Nat /\ DOMAIN path' = 1 .. M
      /\ store' \in [DOMAIN store' -> Content]
  BY LenProperties DEF Ready, IsTree
<1>2. OpenInText(events, n, c, L)
  BY <1>1 DEF InText
<1>3. DepthIn(events', n + 2) = IF event.type \in Beginnings THEN L + 1 ELSE L
  <2>1. DepthIn(events, n + 1) = L
    BY <1>2 DEF OpenInText
  <2> QED
    BY <2>1, DepthNext
(* What is left to show of the path *)
<1>4. ASSUME \A k \in 1 .. L : k \in 1 .. M /\ d[k] = c[k],
             event.type \notin Beginnings => M = L, event.type \in Beginnings => M = L + 1 /\ d[M] = n + 1
      PROVE  OpenInText(events', n + 1, d, M)
  <2>1. M <= L + 1 /\ (\A k \in 1 .. M : k <= L => d[k] = c[k]) /\ DepthIn(events', n + 2) = M
        /\ (M = L + 1 => d[M] = n + 1)
    <3> HIDE DEF c, d, L, M
    <3>1. L \in Nat /\ M \in Nat /\ (M = L \/ M = L + 1)
      BY <1>1, <1>4
    <3>2. \A k \in 1 .. M : k <= L => k \in 1 .. L
      BY <3>1
    <3>3. DepthIn(events', n + 2) = M
      BY <1>3, <1>4
    <3>4. M = L + 1 => d[M] = n + 1
      BY <1>4, <3>1
    <3> QED
      BY <1>4, <3>1, <3>2, <3>3, <3>4
  <2> HIDE DEF c, d, L, M
  <2> QED
    BY <1>1, <1>2, <2>1, OpenAfter
<1>5. event.type \in Beginnings => NewValue(event, n).data[1] = n + 1
  BY DEF NewValue, Container, Value
<1>6. CASE path = <<>>
  <2>1. Initialize(event, RootAddress, root, store)
    BY <1>6 DEF AddValue
  <2>2. /\ path' = IF event.type \in Beginnings THEN Append(path, RootAddress) ELSE path
        /\ root' = NewValue(event, n) /\ store' = Widened(store, event, n)
    BY <1>1, <2>1, InitializeDone
  <2>3. n = 0 /\ L = 0
    <3>1. open = <<>> /\ L = 0
      BY <1>6, EmptySeq, LenProperties DEF Ready, Follows
    <3> QED
      BY <1>1, <3>1, NothingOpen DEF Ready, TakesValue, TakesScalar, TakesBeginning
  <2>4. DOMAIN store = {}
    BY <1>1, <2>3 DEF IsTree
  <2>5. Documented(events', policy, root', store')
    BY <2>2, <2>3, <2>4, DocumentedFirst
  <2>6. CASE event.type \in Beginnings
    <3>1. path' = Append(path, RootAddress)
      BY <2>2, <2>6
    <3>2. M = 1 /\ path'[1] = RootAddress
      BY <1>1, <1>6, <2>3, <3>1
    <3>3. d[1] = n + 1
      BY <1>1, <1>5, <2>2, <2>6, <3>2 DEF Ids, ValueOf
    <3> QED
      BY <1>4, <2>3, <2>5, <2>6, <3>2, <3>3
  <2>7. CASE event.type \notin Beginnings
    BY <1>4, <2>2, <2>3, <2>5, <2>7
  <2> QED
    BY <2>6, <2>7
<1>7. CASE path # <<>>
  <2> DEFINE id == At(Top).data[1]
  <2>1. Innermost(event, n, id)
    BY <1>7, InnermostFound DEF IsValueEvent
  <2>2. At(Top).type \in {"ARRAY", "OBJECT"}
    BY <1>7, TopFacts DEF Parser!Kinds
  <2>3. Fitted(event, n, id)
    <3>1. CASE At(Top).type = "ARRAY"
      BY <1>1, <1>7, <2>1, <3>1, ArrayFits DEF AddValue
    <3>2. CASE At(Top).type = "OBJECT"
      BY <1>1, <1>7, <2>1, <3>2, ObjectFits DEF AddValue
    <3> QED
      BY <2>2, <3>1, <3>2
  <2>4. id = ValueOf(path[L], root, store).data[1]
    BY <1>7, TopFacts
  <2> HIDE DEF id
  <2>5. /\ id \in DOMAIN store /\ n # 0 /\ L \in Nat \ {0} /\ id = c[L]
    BY <2>1 DEF Innermost
  <2>6. /\ root' = root /\ Became(store, store', id, event, n) /\ store'[id].items = ItemsOf(events', policy, id)
    BY <2>3 DEF Fitted
  <2>7. Documented(events', policy, root', store')
    <3> HIDE DEF c, L
    <3> QED
      BY <1>1, <1>2, <2>5, <2>6, DocumentedAfter
  <2>8. /\ \A k \in 1 .. L : k \in 1 .. M /\ path'[k] = path[k]
        /\ event.type \notin Beginnings => M = L
        /\ event.type \in Beginnings => M = L + 1 /\ path'[M] # RootAddress
                                     /\ ValueAt(store', path'[M].home, path'[M].at) = NewValue(event, n)
    <3>1. CASE event.type \notin Beginnings
      <4>1. path' = path
        BY <2>3, <3>1 DEF Fitted
      <4> QED
        BY <3>1, <4>1
    <3>2. CASE event.type \in Beginnings
      <4>1. PICK a : path' = Append(path, a) /\ a # RootAddress /\ ValueAt(store', a.home, a.at) = NewValue(event, n)
        BY <2>3, <3>2 DEF Fitted
      <4>2. M = L + 1 /\ path'[L + 1] = a /\ \A k \in 1 .. L : path'[k] = path[k]
        BY <1>1, <4>1, AppendProperties
      <4>3. \A k \in 1 .. L : k \in 1 .. L + 1
        BY <1>1
      <4> QED
        BY <3>2, <4>1, <4>2, <4>3
    <3> QED
      BY <3>1, <3>2
  <2>9. \A k \in 1 .. L : d[k] = c[k]
    <3>1. \A k \in DOMAIN path : k \in DOMAIN path' /\ path'[k] = path[k]
      BY <1>1, <2>8
    <3>2. id = ValueOf(path[Len(path)], root, store).data[1] /\ Became(store, store', id, event, n)
      BY <2>4, <2>6
    <3>3. Follows(path', open', root, store') /\ Follows(path, open, root, store) /\ open \in Seq(Parser!Kinds)
      BY <2>6 DEF Ready
    <3>4. \A k \in DOMAIN path : ValueOf(path'[k], root, store') = ValueOf(path[k], root, store)
      <4>1. n \in Nat /\ IsTree(root, store, n) /\ path \in Seq(Addresses) /\ path # <<>>
        BY <1>1, <1>7
      <4> HIDE DEF c, d, L, M
      <4>2. Extends(path, path')
        BY <3>1 DEF Extends
      <4>3. Stays(path, path', root, store, store')
        BY <3>2, <3>3, <4>1, <4>2, IdsKept
      <4> QED
        BY <4>3 DEF Stays
    <3> QED
      BY <1>1, <2>6, <3>1, <3>4 DEF Ids
  <2>10. event.type \in Beginnings => d[M] = n + 1
    <3>1. M \in DOMAIN path' \/ event.type \notin Beginnings
      <4> HIDE DEF L, M
      <4>1. L \in Nat /\ DOMAIN path' = 1 .. M
        BY <1>1
      <4>2. M = L + 1 => M \in 1 .. M
        BY <4>1
      <4> QED
        BY <2>8, <4>1, <4>2
    <3> QED
      BY <1>5, <2>8, <3>1 DEF Ids, ValueOf
  <2> QED
    BY <1>4, <2>7, <2>8, <2>9, <2>10
<1> QED
  BY <1>6, <1>7

LEMMA DocProcess ==
  ASSUME ~NestsUsed, DocInv, NEW event \in AllEvents, Process(event)
  PROVE  DocInv'
<1> DEFINE n == Len(events)
           L == Len(path)
           M == Len(path')
           d == Ids(path', root', store')
<1>1. /\ phase = "parsing" /\ phase' = "parsing" /\ ret = "OK" /\ ~NestsUnderUsed(event)
      /\ events' = Append(events, event) /\ Parser!Next /\ json_dom_process(event) /\ policy' = policy
  BY DEF Process
<1>2. /\ policy \in Policies /\ events \in Seq(AllEvents) /\ path \in Seq(Addresses) /\ open \in Seq(Parser!Kinds)
      /\ (key = <<>> \/ \E k \in Keys : key = <<k>>) /\ KeyInTurn /\ DomInv
      /\ IsTree(root, store, n) /\ InText /\ KeyRead /\ n \in Nat /\ L \in Nat
  BY <1>1, LenProperties DEF DocInv, DomInv, DomTypes
<1>3. Ready(n)
  BY <1>1, <1>2, PathMeaning DEF Ready, DomInv
<1>4. events' \in Seq(AllEvents) /\ Len(events') = n + 1
      /\ (TakesScalar(event) \/ TakesKey(event)
          \/ \E kind \in Parser!Kinds : TakesBeginning(event, kind) \/ TakesEnding(event, kind))
  BY <1>1, <1>2, EventStep
<1>5. Grown(events, events', n, event)
  BY <1>1, <1>2, AppendGrows
<1>6. Documented(events, policy, root, store)
  BY <1>1, DocumentMeaning DEF DocInv
<1>7. path # <<>> => Alive(Top)
  BY <1>3, TopFacts
<1>8. DomInv'
  BY <1>2, ProcessKeeps
<1>9. OpenInText(events, n, Ids(path, root, store), L)
  BY <1>2 DEF InText
(* What is left to show when nothing failed *)
<1>10. ASSUME ret' = "OK" => /\ Documented(events', policy, root', store') /\ OpenInText(events', n + 1, d, M)
                             /\ KeyRead'
       PROVE  DocInv'
  <2>1. BuildsDocument'
    BY <1>1, <1>10, DocumentMeaningPrimed
  <2>2. ret' = "OK" => InText'
    BY <1>4, <1>10, InTextPrimed
  <2> QED
    BY <1>8, <1>10, <2>1, <2>2 DEF DocInv
(* An event that is no value *)
<1>11. ASSUME root' = root, store' = store, event.type \in Ends \cup {"KEY"}, n # 0,
              M \in Nat, M <= L, \A k \in 1 .. M : d[k] = Ids(path, root, store)[k],
              M = IF event.type \in Ends THEN L - 1 ELSE L
       PROVE  Documented(events', policy, root', store') /\ OpenInText(events', n + 1, d, M)
  <2> DEFINE c == Ids(path, root, store)
  <2>1. Documented(events', policy, root', store')
    BY <1>2, <1>5, <1>6, <1>11, DocumentedStill
  <2>2. DepthIn(events', n + 2) = M
    <3>1. DepthIn(events, n + 1) = L
      BY <1>9 DEF OpenInText
    <3>2. event.type \notin Beginnings
      BY <1>11, TypesOfEvents
    <3> QED
      BY <1>5, <1>11, <3>1, <3>2, DepthNext
  <2> HIDE DEF c, d, L, M, n
  <2>3. M <= L + 1 /\ \A k \in 1 .. M : k <= L => d[k] = c[k]
    BY <1>2, <1>11 DEF c
  <2>4. L \in Nat /\ M \in Nat /\ M # L + 1 /\ OpenInText(events, n, c, L)
    BY <1>2, <1>9, <1>11 DEF c
  <2>5. OpenInText(events', n + 1, d, M)
    BY <1>5, <2>2, <2>3, <2>4, OpenAfter
  <2> QED
    BY <2>1, <2>5
<1>12. open # <<>> => n # 0
  <2>1. ASSUME n = 0, path # <<>> PROVE FALSE
    BY <1>3, <2>1, TopFacts DEF Ready, IsTree
  <2> QED
    BY <1>3, <2>1, EmptySeq, LenProperties DEF Ready, Follows
<1>13. CASE event.type \in Ends
  <2>1. PICK kind \in Parser!Kinds : TakesEnding(event, kind)
    BY <1>4, <1>13, TypesOfEvents
       DEF TakesScalar, TakesKey, TakesBeginning, Beginnings, Parser!ScalarTypes
  <2>2. path # <<>> /\ n # 0
    BY <1>2, <1>3, <1>12, <2>1, EmptySeq, LenProperties DEF TakesEnding, Ready, Follows
  <2>3. PopPath(event)
    <3>1. event.type # "KEY"
      BY <1>13, TypesOfEvents
    <3> QED
      BY <1>1, <1>13, <3>1 DEF json_dom_process
  <2>4. path' = SubSeq(path, 1, L - 1) /\ root' = root /\ store' = store
    BY <2>2, <2>3 DEF PopPath
  <2>5. M = L - 1 /\ L # 0 /\ M \in Nat /\ DOMAIN path' = 1 .. M /\ DOMAIN path = 1 .. L
        /\ \A k \in 1 .. M : path'[k] = path[k]
    <3>1. L # 0
      BY <1>2, <2>2, EmptySeq, LenProperties
    <3>2. L - 1 \in Nat /\ \A i \in 1 .. L - 1 : path[i] \in Addresses
      BY <1>2, <3>1, ElementOfSeq, LenProperties
    <3>3. DOMAIN path = 1 .. L
      BY <1>2, LenProperties
    <3> QED
      BY <1>2, <2>4, <3>1, <3>2, <3>3
  <2>6. \A k \in 1 .. M : d[k] = Ids(path, root, store)[k]
    <3>1. \A k \in 1 .. M : k \in DOMAIN path /\ k \in DOMAIN path'
      BY <1>2, <2>5
    <3> QED
      BY <2>4, <2>5, <3>1 DEF Ids
  <2>7. ~keyed'
    BY <2>1 DEF TakesEnding
  <2>8. Documented(events', policy, root', store') /\ OpenInText(events', n + 1, d, M)
    BY <1>2, <1>11, <1>13, <2>2, <2>4, <2>5, <2>6
  <2>9. KeyRead'
    BY <2>7 DEF KeyRead
  <2> QED
    BY <1>10, <2>8, <2>9
<1>14. CASE event.type = "KEY"
  <2>1. event.type \notin Ends \cup Beginnings \cup Parser!ScalarTypes
    BY <1>14, TypesOfEvents DEF Parser!ScalarTypes
  <2>2. TakesKey(event)
    BY <1>4, <2>1 DEF TakesScalar, TakesBeginning, TakesEnding, Beginnings, Ends
  <2>3. StoreKey(event)
    BY <1>1, <1>14, <2>1 DEF json_dom_process
  <2>4. /\ root' = root /\ store' = store /\ path' = path
        /\ ret' = "OK" => key' = <<event.data>>
    BY <2>3 DEF StoreKey, Result
  <2>5. n # 0
    BY <1>12, <2>2 DEF TakesKey, Parser!InObject
  <2>6. Documented(events', policy, root', store') /\ OpenInText(events', n + 1, d, M)
    BY <1>2, <1>11, <1>14, <2>1, <2>4, <2>5
  <2>7. ret' = "OK" => KeyRead'
    <3>1. events' # <<>> /\ events'[Len(events')] = event
      <4>1. events'[n + 1] = event
        BY <1>5 DEF Grown
      <4>2. n + 1 # 0
        BY <1>2
      <4> QED
        BY <1>4, <4>1, <4>2, EmptySeq
    <3> QED
      BY <2>4, <3>1 DEF KeyRead
  <2> QED
    BY <1>10, <2>6, <2>7
<1>15. CASE event.type \notin Ends \cup {"KEY"}
  <2>1. IsValueEvent(event)
    BY <1>15, TypesOfEvents DEF IsValueEvent
  <2>2. TakesValue(event)
    BY <1>4, <1>15, <2>1 DEF TakesValue, TakesKey, TakesEnding, Ends
  <2>3. AddValue(event)
    BY <1>1, <1>7, <1>15 DEF json_dom_process
  <2>4. keyed' = FALSE
    BY <2>2 DEF TakesValue, TakesScalar, TakesBeginning
  <2>5. ASSUME ret' = "OK"
        PROVE  Documented(events', policy, root', store') /\ OpenInText(events', n + 1, d, M)
    <3>1. Settled(n)
      BY <1>1, <1>2, <1>3, <2>2, <2>3, ValueStep
    <3>2. /\ path' \in Seq(Addresses) /\ IsTree(root', store', n + 1) /\ Follows(path', open', root', store')
      BY <2>5, <3>1 DEF Settled
    <3>3. open' \in Seq(Parser!Kinds)
      BY <1>8 DEF DomInv, DomTypes
    <3> QED
      BY <1>1, <1>2, <1>3, <1>4, <1>5, <1>6, <1>15, <2>1, <2>2, <2>3, <2>5, <3>2, <3>3, DocValue
  <2>6. KeyRead'
    BY <2>4 DEF KeyRead
  <2> QED
    BY <1>10, <2>5, <2>6
<1> QED
  BY <1>13, <1>14, <1>15

LEMMA DocFini ==
  ASSUME DocInv, json_dom_fini
  PROVE  DocInv'
<1>1. DomInv'
  BY FiniKeeps DEF DocInv
<1>2. phase' = "done" /\ events' = events /\ policy' = policy
  BY DEF json_dom_fini
<1>3. ret' = "OK" => ret = "OK" /\ root' = root /\ store' = store
  BY DEF json_dom_fini, MayAccept
<1>4. BuildsDocument'
  BY <1>2, <1>3, DocumentMeaning, DocumentMeaningPrimed DEF DocInv
<1> QED
  BY <1>1, <1>2, <1>4 DEF DocInv

LEMMA DocStays ==
  ASSUME DocInv, UNCHANGED vars
  PROVE  DocInv'
<1>1. DomInv'
  BY UnchangedKeeps DEF DocInv
<1>2. /\ events' = events /\ keyed' = keyed /\ policy' = policy /\ root' = root /\ store' = store
      /\ path' = path /\ key' = key /\ ret' = ret /\ phase' = phase
  BY DEF vars
<1>3. BuildsDocument'
  BY <1>2, DocumentMeaning, DocumentMeaningPrimed DEF DocInv
<1>4. InText' <=> InText
  BY <1>2, InTextPrimed DEF InText
<1>5. KeyRead' <=> KeyRead
  BY <1>2 DEF KeyRead
<1> QED
  BY <1>1, <1>2, <1>3, <1>4, <1>5 DEF DocInv

(* The tree that is built is the document: after every event each          *)
(* container has the members that the events so far say, an array all of   *)
(* them in order, an object one for every key, with the value that the     *)
(* policy picks among those of the same key.                               *)
THEOREM DocumentBuilt == ~NestsUsed => (Spec => []BuildsDocument)
<1> SUFFICES ASSUME ~NestsUsed PROVE Spec => []BuildsDocument
  OBVIOUS
<1>1. Init => DocInv
  BY DocStarts
<1>2. DocInv /\ [Next]_vars => DocInv'
  BY DocProcess, DocFini, DocStays DEF Next
<1>3. DocInv => BuildsDocument
  BY DEF DocInv
<1> QED
  BY <1>1, <1>2, <1>3, PTL DEF Spec

=============================================================================
