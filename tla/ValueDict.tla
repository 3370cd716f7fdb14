------------------------------ MODULE ValueDict ------------------------------
(***************************************************************************)
(* VALUE_DICT of src/3rd_party/value.c: a red-black tree without parent    *)
(* pointers, whose operations keep the path from the root in an array, and *)
(* optionally a list of the nodes in the order they were added.            *)
(*                                                                         *)
(* A node is named by its key: two nodes never compare equal.  A pointer   *)
(* to a node that is not in "nodes" dangles.  left and right of the code   *)
(* are child["left"] and child["right"], so that a case of the code and    *)
(* its mirror image are one.                                               *)
(***************************************************************************)
EXTENDS Integers, Sequences, FiniteSets, SequencesExt

CONSTANTS
  Key,
  Rank,      \* key |-> its place under cmp_func; equal keys share one
  Uses(_),   \* the keys a dictionary may get, by whether it keeps their order
  NULL,
  Bits       \* of a pointer: there is room for fewer than 2^Bits nodes

Node == Key \cup {NULL}
Side == {"left", "right"}
Other(side) == IF side = "left" THEN "right" ELSE "left"
RBTREE_MAX_HEIGHT == 2 * Bits

Pow2[n \in Nat] == IF n = 0 THEN 1 ELSE 2 * Pow2[n - 1]

ASSUME KeyAssumption ==
  /\ NULL \notin Key /\ {0, -1} \cap Key = {}
  /\ Rank \in [Key -> Int]
  /\ \A b \in BOOLEAN : Uses(b) \subseteq Key
  /\ Bits \in Nat /\ IsFiniteSet(Key) /\ Cardinality(Key) < Pow2[Bits]

VARIABLES
  ordered,   \* HAS_ORDERLIST, never changed
  nodes,     \* the nodes that are allocated
  tree,      \* root, child and red: the links and colors of the tree
  order,     \* head, tail, prev and next: the order list
  size,
  fresh,     \* nodes whose value has the flag IS_NEW
  reply      \* what the last call returned

vars == <<ordered, nodes, tree, order, size, fresh, reply>>

Trees == [root : Node, child : [Side -> [Key -> Node]], red : SUBSET Key]

NoLinks == [k \in Key |-> NULL]
EmptyTree  == [root |-> NULL, child |-> [s \in Side |-> NoLinks], red |-> {}]
EmptyOrder == [head |-> NULL, tail |-> NULL, prev |-> NoLinks, next |-> NoLinks]

Init ==
  /\ ordered \in BOOLEAN
  /\ nodes = {} /\ tree = EmptyTree /\ order = EmptyOrder /\ size = 0
  /\ fresh = {} /\ reply = NULL

-----------------------------------------------------------------------------
(* Paths and walks *)

(* A loop of the code: n rounds of what one does.                          *)
Repeat(round, start, n) ==
  LET after[k \in Nat] == IF k = 0 THEN start ELSE round[after[k - 1]]
  IN after[n]

MaxRounds == Cardinality(Key)   \* no walk down a tree or list is longer

Ends(path, k) == path # <<>> /\ Rank[Last(path)] = Rank[k]

Turn(k, n) == IF Rank[k] < Rank[n] THEN "left" ELSE "right"

(* The nodes on the way to a key; the last one is its node or the parent   *)
(* it would have.                                                          *)
PathTo(t, k) ==
  LET Below(path) == IF path = <<>> THEN t.root ELSE t.child[Turn(k, Last(path))][Last(path)]
  IN Repeat([path \in Seq(Key) |-> IF Ends(path, k) \/ Below(path) = NULL THEN path
                                   ELSE Append(path, Below(path))], <<>>, MaxRounds)

value_dict_get_(k) ==
  LET path == PathTo(tree, k) IN IF Ends(path, k) THEN Last(path) ELSE NULL

value_dict_leftmost_path(t, node) ==
  LET Below(path) == IF path = <<>> THEN node ELSE t.child["left"][Last(path)]
  IN Repeat([path \in Seq(Key) |-> IF Below(path) = NULL THEN path ELSE Append(path, Below(path))],
            <<>>, MaxRounds)

(* Mutant of Walked: the right subtree is pushed without the way to its    *)
(* least node.                                                             *)
WalkedShallow(t, w) ==
  LET right == t.child["right"][Last(w.stack)]
  IN IF w.stack = <<>> THEN w
     ELSE [stack |-> Front(w.stack) \o (IF right = NULL THEN <<>> ELSE <<right>>),
           keys  |-> Append(w.keys, Last(w.stack))]

Walked(t, w) ==
  IF w.stack = <<>> THEN w
  ELSE [stack |-> Front(w.stack) \o value_dict_leftmost_path(t, t.child["right"][Last(w.stack)]),
        keys  |-> Append(w.keys, Last(w.stack))]

Walk(t, room) ==
  Repeat([w \in [stack : Seq(Key), keys : Seq(Key)] |-> Walked(t, w)],
         [stack |-> value_dict_leftmost_path(t, t.root), keys |-> <<>>], room)

value_dict_keys_sorted(room) == Walk(tree, room).keys

(* The order list from one end, along the links to the next node.          *)
Listed(end, links, room) ==
  LET Further(keys) == IF keys = <<>> THEN end ELSE links[Last(keys)]
  IN Repeat([keys \in Seq(Key) |-> IF Further(keys) = NULL THEN keys ELSE Append(keys, Further(keys))],
            <<>>, room)

value_dict_keys_ordered(room) == Listed(order.head, order.next, room)

-----------------------------------------------------------------------------
(* Rotations and colors *)

MakeBlack(t, ns) == [t EXCEPT !.red = @ \ ns]
MakeRed(t, ns)   == [t EXCEPT !.red = @ \cup ns]

SetRoot(t, to)           == [t EXCEPT !.root = to]
SetChild(t, side, n, to) == [t EXCEPT !.child[side][n] = to]

SideOf(t, parent, node) == IF t.child["left"][parent] = node THEN "left" ELSE "right"

(* The pointer of the parent (or the root) to one node gets another value. *)
Relink(t, parent, node, to) ==
  IF parent = NULL THEN SetRoot(t, to) ELSE SetChild(t, SideOf(t, parent, node), parent, to)

(* Mutant of Rotate: the root of the tree is not replaced. *)
RotateBelow(t, side, parent, node) ==
  LET tmp == t.child[Other(side)][node]
      turned == SetChild(SetChild(t, Other(side), node, t.child[side][tmp]), side, tmp, node)
  IN IF parent = NULL THEN turned ELSE Relink(turned, parent, node, tmp)

(* value_dict_rotate_left() for side = "left", else ..._rotate_right() *)
Rotate(t, side, parent, node) ==
  LET tmp == t.child[Other(side)][node]
  IN Relink(SetChild(SetChild(t, Other(side), node, t.child[side][tmp]), side, tmp, node),
            parent, node, tmp)

(* The n-th node from the end of the path, NULL above the root. *)
Up(path, n) == IF Len(path) > n THEN path[Len(path) - n] ELSE NULL

(* What a round of a loop over a path leaves; a break leaves no path.      *)
Climb(t, path) == [tree |-> t, path |-> path]
Break(t)       == Climb(t, <<>>)
Climbs         == [tree : Trees, path : Seq(Node)]

(* Mutant of value_dict_fix_after_insert: no rotation is ever made. *)
value_dict_fix_after_insert_flat(t, path) == MakeBlack(t, {t.root})

FixInsertRound(t, path) ==
  LET node   == Up(path, 0)
      parent == Up(path, 1)
      grandparent == Up(path, 2)
      side  == SideOf(t, grandparent, parent)
      uncle == t.child[Other(side)][grandparent]
      inner == t.child[Other(side)][parent] = node
      top   == IF inner THEN node ELSE parent
      bent  == IF inner THEN Rotate(t, side, grandparent, parent) ELSE t
  IN IF path = <<>> THEN Break(t)
     ELSE IF parent = NULL THEN Break(SetRoot(MakeBlack(t, {node}), node))
     ELSE IF parent \notin t.red THEN Break(t)
     ELSE IF uncle \in t.red
       THEN Climb(MakeRed(MakeBlack(t, {parent, uncle}), {grandparent}),
                  SubSeq(path, 1, Len(path) - 2))
     ELSE Break(MakeRed(MakeBlack(Rotate(bent, Other(side), Up(path, 3), grandparent), {top}),
                        {grandparent}))

value_dict_fix_after_insert(t, path) ==
  Repeat([c \in Climbs |-> FixInsertRound(c.tree, c.path)], Climb(t, path), Len(path)).tree

-----------------------------------------------------------------------------
(* Adding an item *)

(* Mutant of OrderAppend: the new node has no way back. *)
OrderAppendForward(k) ==
  [head |-> IF order.tail = NULL THEN k ELSE order.head,
   tail |-> k,
   prev |-> order.prev,
   next |-> IF order.tail = NULL THEN order.next ELSE [order.next EXCEPT ![order.tail] = k]]

OrderAppend(k) ==
  [head |-> IF order.tail = NULL THEN k ELSE order.head,
   tail |-> k,
   prev |-> [order.prev EXCEPT ![k] = order.tail],
   next |-> IF order.tail = NULL THEN order.next ELSE [order.next EXCEPT ![order.tail] = k]]

Inserted(k, path) ==
  LET side == Turn(k, Last(path))
      hung == IF path = <<>> THEN SetRoot(tree, k) ELSE SetChild(tree, side, Last(path), k)
  IN value_dict_fix_after_insert(MakeRed(hung, {k}), Append(path, k))

(* The node or the copy of a long key may find no memory. *)
NewNode(k, path) ==
  \/ /\ nodes' = nodes \cup {k}
     /\ tree' = Inserted(k, path)
     /\ order' = IF ordered THEN OrderAppend(k) ELSE order
     /\ size' = size + 1
     /\ fresh' = fresh \cup {k}
     /\ reply' = k
  \/ reply' = NULL /\ UNCHANGED <<nodes, tree, order, size, fresh>>

value_dict_get_or_add_(k) ==
  LET path == PathTo(tree, k)
  IN IF Ends(path, k) THEN reply' = Last(path) /\ UNCHANGED <<nodes, tree, order, size, fresh>>
                      ELSE NewNode(k, path)

(* Mutant of value_dict_add_: the item is not tested for being new. *)
value_dict_add_any(k) == value_dict_get_or_add_(k)

(* NULL for an item that is there, unless its value is still new. *)
value_dict_add_(k) ==
  LET path == PathTo(tree, k)
  IN IF Ends(path, k)
       THEN /\ reply' = IF Last(path) \in fresh THEN Last(path) ELSE NULL
            /\ UNCHANGED <<nodes, tree, order, size, fresh>>
       ELSE NewNode(k, path)

(* The application calls a value_init_...() function for a new value. *)
InitializeValue(k) ==
  /\ k \in fresh
  /\ fresh' = fresh \ {k}
  /\ UNCHANGED <<nodes, tree, order, size, reply>>

-----------------------------------------------------------------------------
(* Removing an item *)

(* The path ends with the subtree that is one black node short, which may  *)
(* be NULL.                                                                *)
FixRemoveRound(t, path) ==
  LET node    == Up(path, 0)
      parent  == Up(path, 1)
      grandparent == Up(path, 2)
      side    == SideOf(t, parent, node)
      sibling == t.child[Other(side)][parent]
      near    == t.child[side][sibling]
      far     == t.child[Other(side)][sibling]
      (* a red near child and a black far one: the near one goes up *)
      straight == IF far \in t.red THEN t
                  ELSE Rotate(MakeBlack(MakeRed(t, {sibling}), {near}),
                              Other(side), parent, sibling)
      top     == straight.child[Other(side)][parent]
      tinted  == IF parent \in t.red THEN MakeRed(straight, {top})
                                     ELSE MakeBlack(straight, {top})
  IN IF path = <<>> THEN Break(t)
     ELSE IF node \in t.red THEN Break(MakeBlack(t, {node}))
     ELSE IF parent = NULL THEN Break(t)
     ELSE IF sibling \in t.red
       THEN Climb(MakeRed(MakeBlack(Rotate(t, side, grandparent, parent), {sibling}), {parent}),
                  SubSeq(path, 1, Len(path) - 2) \o <<sibling, parent, node>>)
     ELSE IF {near, far} \cap t.red # {}
       THEN Break(Rotate(MakeBlack(tinted, {parent, tinted.child[Other(side)][top]}),
                         side, grandparent, parent))
     ELSE IF parent \in t.red THEN Break(MakeBlack(MakeRed(t, {sibling}), {parent}))
     ELSE Climb(MakeRed(t, {sibling}), Front(path))

value_dict_fix_after_remove(t, path) ==
  Repeat([c \in Climbs |-> FixRemoveRound(c.tree, c.path)], Climb(t, path), Len(path)).tree

SwapColors(t, a, b) ==
  [t EXCEPT !.red = {n \in Key : (CASE n = a -> b [] n = b -> a [] OTHER -> n) \in @}]

(* A node with two children changes places with its successor, the least   *)
(* node of its right subtree; the path then leads to its new place.        *)
Sunk(path) ==
  LET node  == Last(path)
      right == tree.child["right"][node]
      left  == tree.child["left"][node]
      way   == value_dict_leftmost_path(tree, right)
      successor == Last(way)
      below == tree.child["right"][successor]
      near  == SetChild(SetChild(tree, "right", node, below), "right", successor, node)
      far   == Relink(SetChild(SetChild(tree, "right", node, below), "right", successor, right),
                      Up(way, 1), successor, node)
      moved == IF Len(way) = 1 THEN near ELSE far
      lifted == Relink(SetChild(SetChild(moved, "left", successor, left), "left", node, NULL),
                       Up(path, 1), node, successor)
  IN IF right = NULL \/ (left = NULL /\ Len(way) = 1)
       THEN Climb(tree, path)
       ELSE Climb(SwapColors(lifted, node, successor),
                  Front(path) \o <<successor>> \o Front(way) \o <<node>>)

(* Nothing is left of a node that is freed. *)
Freed(t, node) ==
  [root  |-> t.root,
   child |-> [s \in Side |-> [t.child[s] EXCEPT ![node] = NULL]],
   red   |-> t.red \ {node}]

(* Mutant of Removed: the tree is not repaired after a black node. *)
RemovedUnfixed(path) ==
  LET sunk  == Sunk(path)
      node  == Last(path)
      child == IF sunk.tree.child["left"][node] # NULL
                 THEN sunk.tree.child["left"][node] ELSE sunk.tree.child["right"][node]
  IN Freed(Relink(sunk.tree, Up(sunk.path, 1), node, child), node)

(* The repair of the code comes before the free, but never meets the node. *)
Removed(path) ==
  LET sunk  == Sunk(path)
      node  == Last(path)
      child == IF sunk.tree.child["left"][node] # NULL
                 THEN sunk.tree.child["left"][node] ELSE sunk.tree.child["right"][node]
      cut   == Freed(Relink(sunk.tree, Up(sunk.path, 1), node, child), node)
  IN IF node \in sunk.tree.red THEN cut
     ELSE value_dict_fix_after_remove(cut, Append(Front(sunk.path), child))

(* Mutant of OrderRemove: the removal of the last node leaves the tail. *)
OrderRemoveTailed(node) ==
  LET prev == order.prev[node]
      next == order.next[node]
      linked == IF prev = NULL THEN order.next ELSE [order.next EXCEPT ![prev] = next]
      backed == IF next = NULL THEN order.prev ELSE [order.prev EXCEPT ![next] = prev]
  IN [head |-> IF prev = NULL THEN next ELSE order.head,
      tail |-> order.tail,
      prev |-> [backed EXCEPT ![node] = NULL],
      next |-> [linked EXCEPT ![node] = NULL]]

OrderRemove(node) ==
  LET prev == order.prev[node]
      next == order.next[node]
      linked == IF prev = NULL THEN order.next ELSE [order.next EXCEPT ![prev] = next]
      backed == IF next = NULL THEN order.prev ELSE [order.prev EXCEPT ![next] = prev]
  IN [head |-> IF prev = NULL THEN next ELSE order.head,
      tail |-> IF next = NULL THEN prev ELSE order.tail,
      prev |-> [backed EXCEPT ![node] = NULL],
      next |-> [linked EXCEPT ![node] = NULL]]

value_dict_remove_(k) ==
  LET path == PathTo(tree, k)
      node == Last(path)
  IN IF Ends(path, k)
       THEN /\ nodes' = nodes \ {node}
            /\ tree' = Removed(path)
            /\ order' = IF ordered THEN OrderRemove(node) ELSE order
            /\ size' = size - 1
            /\ fresh' = fresh \ {node}
            /\ reply' = 0
       ELSE reply' = -1 /\ UNCHANGED <<nodes, tree, order, size, fresh>>

(* Mutant of value_dict_clean: size still counts the freed nodes.       *)
value_dict_clean_counted ==
  /\ nodes' = {} /\ tree' = EmptyTree /\ order' = EmptyOrder
  /\ UNCHANGED <<size, fresh, reply>>

(* Frees the nodes in the order of a sorted walk. *)
value_dict_clean ==
  /\ nodes' = nodes \ {value_dict_keys_sorted(MaxRounds)[n] :
                         n \in DOMAIN value_dict_keys_sorted(MaxRounds)}
  /\ tree' = EmptyTree /\ order' = EmptyOrder /\ size' = 0
  /\ fresh' = {}
  /\ UNCHANGED reply

Next ==
  /\ \/ \E k \in Uses(ordered) :
          value_dict_get_or_add_(k) \/ value_dict_add_(k) \/ value_dict_remove_(k) \/ InitializeValue(k)
     \/ value_dict_clean
  /\ UNCHANGED ordered

Spec == Init /\ [][Next]_vars

-----------------------------------------------------------------------------
(* Properties *)

(* The links lead to allocated nodes only, and size counts them. *)
TypeOK ==
  /\ nodes \subseteq Key /\ tree \in Trees
  /\ size = Cardinality(nodes)
  /\ fresh \subseteq nodes
  /\ tree.root \in nodes \cup {NULL} /\ tree.red \subseteq nodes
  /\ \A k \in Key, s \in Side :
       tree.child[s][k] \in IF k \in nodes THEN nodes \cup {NULL} ELSE {NULL}
  /\ reply \in Node \cup {0, -1}

(* The rules value_dict_verify() tests: a black root, no red node below a  *)
(* red one, and the same number of black nodes on every way down.          *)
RedBlack ==
  LET child(n, s) == tree.child[s][n]
      height[n \in Node] ==
        IF n = NULL THEN {1}
        ELSE {h + (IF n \in tree.red THEN 0 ELSE 1) :
                h \in height[child(n, "left")] \cup height[child(n, "right")]}
  IN /\ tree.root \notin tree.red
     /\ \A n \in tree.red, s \in Side : child(n, s) \notin tree.red
     /\ \A n \in nodes : Cardinality(height[n]) = 1

(* Every item is found from every key that compares equal, and no other:   *)
(* after any sequence of rotations the search still meets each node.       *)
Searchable ==
  \A k \in Key :
    value_dict_get_(k) = LET same == {n \in nodes : Rank[n] = Rank[k]}
                         IN IF same = {} THEN NULL ELSE CHOOSE n \in same : TRUE

(* A walk over the keys gives each node once in the order of the keys, cut *)
(* at the end of the buffer.                                               *)
SortedWalk ==
  LET all == value_dict_keys_sorted(Cardinality(nodes))
  IN /\ ToSet(all) = nodes
     /\ \A m, n \in DOMAIN all : m < n => Rank[all[m]] < Rank[all[n]]
     /\ \A room \in 0 .. Cardinality(nodes) + 1 :
          value_dict_keys_sorted(room) = SubSeq(all, 1, Min({room, Len(all)}))

(* The order list has the same nodes forwards and backwards, whichever     *)
(* were removed from it, at either end or between.                         *)
OrderLinked ==
  LET forward  == value_dict_keys_ordered(MaxRounds)
      backward == Listed(order.tail, order.prev, MaxRounds)
  IN ordered => ToSet(forward) = nodes /\ backward = Reverse(forward)

(* "the following is guaranteed to be large enough": a way down is no more *)
(* than twice as long as the logarithm of the size allows, so the array    *)
(* path[] has room for it and for the node that is added to its end.       *)
PathFits ==
  \A k \in Key :
    LET depth == Len(PathTo(tree, k))
    IN /\ Pow2[depth] <= (size + 1) * (size + 1)
       /\ nodes # Uses(ordered) => depth + 1 <= RBTREE_MAX_HEIGHT

Dict == INSTANCE Dictionary WITH
  listing <- IF ordered THEN value_dict_keys_ordered(MaxRounds)
                        ELSE value_dict_keys_sorted(MaxRounds)

(* The tree and its list behave like the plain listing of value.h. *)
IsDictionary == Dict!Spec

(* An item that was never given a value is handed out once more. *)
GivesNewAgain(k) ==
  reply' \in Dict!Items(k) \cap fresh /\ UNCHANGED <<nodes, tree, order, size, fresh>>

(* A call with k does to the listing, and answers, what value.h says of    *)
(* it, but for one: value_dict_add() answers NULL for a key that is used   *)
(* only if its value was initialized.                                      *)
CallKept(k) ==
  /\ value_dict_get_or_add_(k) => Dict!GetOrAdd(k)
  /\ value_dict_add_(k) => IF Dict!Items(k) \cap fresh = {} THEN Dict!Add(k) ELSE GivesNewAgain(k)
  /\ value_dict_remove_(k) => Dict!Remove(k)

=============================================================================
