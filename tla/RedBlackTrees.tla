---------------------------- MODULE RedBlackTrees ----------------------------
(***************************************************************************)
(* What ValueDictProofs says of trees, paths, walks and lists, up to the   *)
(* inductive invariant Sound.  A tree is described by the set D[n] of the  *)
(* nodes at and below each node n, under an order R of the keys, and by    *)
(* the number B[n] of black nodes on every way down from it: both hold of  *)
(* each node by a condition on its two links alone.                        *)
(***************************************************************************)
EXTENDS ValueDict

-----------------------------------------------------------------------------
(* Loops *)

(* A function on the first numbers that agrees with the loop.              *)
Rounds(G, a, n, f) == f[0] = a /\ \A k \in Nat : k < n => f[k + 1] = G[f[k]]

-----------------------------------------------------------------------------
(* Search trees *)

Below(D, n) == IF n = NULL THEN {} ELSE D[n]

(* The nodes of S that are on one side of n.                               *)
Part(S, R, n, s) == {m \in S : IF s = "left" THEN R[m] < R[n] ELSE R[n] < R[m]}

Ranked(N, R) == N \subseteq Key /\ R \in [Key -> Int] /\ \A m, n \in N : R[m] = R[n] => m = n

(* The links of t make a search tree of the nodes N.                       *)
Sorted(t, N, D, R) ==
  /\ t \in Trees /\ t.red \subseteq N
  /\ Ranked(N, R)
  /\ t.root \in N \cup {NULL} /\ Below(D, t.root) = N
  /\ \A n \in N : n \in D[n] /\ D[n] \subseteq N
  /\ \A n \in N, s \in Side :
       t.child[s][n] \in N \cup {NULL} /\ Below(D, t.child[s][n]) = Part(D[n], R, n, s)
  /\ \A m, n \in N, r, s \in Side : t.child[r][m] = t.child[s][n] /\ t.child[s][n] # NULL => m = n

(* Nodes that are not in the tree have no links.                           *)
Bare(t, N) == \A k \in Key \ N, s \in Side : t.child[s][k] = NULL

(* The pointer to a node is in its parent, or in the root.                 *)
IsParent(t, N, parent, node) ==
  IF parent = NULL THEN t.root = node
  ELSE parent \in N /\ \E s \in Side : t.child[s][parent] = node

-----------------------------------------------------------------------------
(* Rotations *)

RotatedSets(D, R, side, node, tmp) ==
  [n \in Key |-> IF n = node THEN Part(D[node], R, tmp, side)
                 ELSE IF n = tmp THEN D[node] ELSE D[n]]

(* The links of r are those of t, turned at node.                          *)
Turned(t, r, side, parent, node, tmp) ==
  /\ r.root = IF parent = NULL THEN tmp ELSE t.root
  /\ \A s \in Side, m \in Key :
       r.child[s][m] = IF m = node /\ s = Other(side) THEN t.child[side][tmp]
                       ELSE IF m = tmp /\ s = side THEN node
                       ELSE IF m = parent /\ s = SideOf(t, parent, node) THEN tmp
                       ELSE t.child[s][m]

-----------------------------------------------------------------------------
(* Black nodes on the ways down *)

Height(B, n) == IF n = NULL THEN 0 ELSE B[n]

Ink(t, n) == IF n \in t.red THEN 0 ELSE 1

Missing(n, s, parent, side) == IF n = parent /\ s = side THEN 1 ELSE 0

(* Every way down from n has B[n] black nodes, where the tree below one    *)
(* link of parent counts one more than it has.                             *)
Even(t, N, B, parent, side) ==
  \A n \in N, s \in Side :
    /\ B[n] \in Nat
    /\ B[n] = Height(B, t.child[s][n]) + Ink(t, n) + Missing(n, s, parent, side)

(* No red node is the child of a red one, but perhaps one node.            *)
RedApart(t, N, node) ==
  \A n \in N, s \in Side : n \in t.red /\ t.child[s][n] \in t.red => t.child[s][n] = node

(* A rotation that lifts a red node and gives it the color of the black    *)
(* one above it.                                                           *)
SwappedHeights(B, N, node, tmp) ==
  [n \in N |-> IF n = tmp THEN B[node] ELSE IF n = node THEN B[tmp] ELSE B[n]]

-----------------------------------------------------------------------------
(* Paths *)

IsPath(t, N, path) ==
  /\ path \in Seq(Node) /\ path # <<>> /\ path[1] = t.root
  /\ \A i \in 1 .. Len(path) - 1 :
       path[i] \in N /\ \E s \in Side : t.child[s][path[i]] = path[i + 1]

-----------------------------------------------------------------------------
(* The repair after an insertion *)

(* What a round of the loop starts from: the last node of the path is red, *)
(* as its parent may be.                                                   *)
InsertState(t, N, D, R, B, path) ==
  /\ Sorted(t, N, D, R) /\ Bare(t, N) /\ Even(t, N, B, NULL, "left")
  /\ path = <<>> => RedApart(t, N, NULL) /\ t.root \notin t.red
  /\ path # <<>> => /\ IsPath(t, N, path)
                    /\ Up(path, 0) \in N /\ Up(path, 0) \in t.red
                    /\ RedApart(t, N, Up(path, 0))
                    /\ t.root \in t.red => Len(path) = 1

(* Two red nodes in line, low below high below top, and a black uncle.     *)
InLine(t, N, D, R, B, side, above, top, high, low) ==
  /\ Sorted(t, N, D, R) /\ Even(t, N, B, NULL, "left") /\ Bare(t, N) /\ RedApart(t, N, low)
  /\ top \in N /\ top \notin t.red /\ t.root \notin t.red
  /\ high \in N \cap t.red /\ low \in N \cap t.red
  /\ t.child[side][top] = high /\ t.child[side][high] = low
  /\ t.child[Other(side)][top] \notin t.red
  /\ above \in Node /\ IsParent(t, N, above, top)

Balanced(t, N, D, R, B) == InsertState(t, N, D, R, B, <<>>)

-----------------------------------------------------------------------------
(* The repair after a removal *)

(* The subtree at node, a black or no child of parent, is one black node   *)
(* short.                                                                  *)
Short(t, N, D, R, B, side, above, parent, node) ==
  /\ Sorted(t, N, D, R) /\ Bare(t, N) /\ Even(t, N, B, parent, side) /\ RedApart(t, N, NULL)
  /\ t.root \notin t.red /\ node \notin t.red
  /\ parent \in N /\ t.child[side][parent] = node
  /\ above \in Node /\ IsParent(t, N, above, parent)

(* What follows of the sibling and the heights.                            *)
ShortFacts(t, N, B, side, parent, node, sibling) ==
  /\ N \subseteq Key /\ NULL \notin N /\ t.red \subseteq N /\ t \in Trees
  /\ sibling \in N /\ sibling # NULL /\ sibling # parent /\ node # parent /\ node # sibling
  /\ node \in N \cup {NULL} /\ Height(B, node) \in Nat
  /\ B[sibling] = Height(B, node) + 1
  /\ B[parent] = Height(B, node) + 1 + Ink(t, parent)
  /\ \A n \in N : B[n] \in Nat /\ Ink(t, n) \in {0, 1}
  /\ \A n \in N, s \in Side : t.child[s][n] \in N \cup {NULL} /\ Height(B, t.child[s][n]) \in Nat
  /\ \A n \in N, s \in Side : n # parent => B[n] = Height(B, t.child[s][n]) + Ink(t, n)
  /\ SideOf(t, parent, node) = side

Redder(x, N, R, side, sibling, parent, node) ==
  /\ x \in Trees
  /\ \E E, A : Short(x, N, E, R, A, side, sibling, parent, node)
  /\ parent \in x.red /\ x.child[Other(side)][parent] \notin x.red

(* A black sibling with a red child on the far side: the sibling takes the *)
(* place and the color of the parent, and nothing is short any more.       *)
Repainted(t, x, parent, top, far) ==
  x.red = (t.red \ {parent, far}) \cup (IF parent \in t.red THEN {top} ELSE {})

TurnFacts(t, r, N, side, parent, node, tmp) ==
  /\ r.child[side][node] = t.child[side][node]
  /\ r.child[Other(side)][node] = t.child[side][tmp]
  /\ r.child[side][tmp] = node
  /\ \A n \in N, s \in Side : n # node /\ n # tmp =>
       \/ t.child[s][n] # node /\ t.child[s][n] # tmp /\ r.child[s][n] = t.child[s][n]
       \/ n = parent /\ s = SideOf(t, parent, node) /\ t.child[s][n] = node /\ r.child[s][n] = tmp

(* The tree z is the one the last rotation of the repair of t starts from. *)
Leaning(t, z, N, R, side, above, parent, node) ==
  /\ z \in Trees
  /\ \E E, A : Short(z, N, E, R, A, side, above, parent, node)
  /\ z.child[Other(side)][parent] \notin z.red
  /\ z.child[Other(side)][z.child[Other(side)][parent]] \in z.red
  /\ parent \in z.red <=> parent \in t.red

(* The last step of the repair in either case, as FixRemoveRound does it.  *)
EvenedOut(t, side, above, parent, sibling, near, far) ==
  LET straight == IF far \in t.red THEN t
                  ELSE Rotate(MakeBlack(MakeRed(t, {sibling}), {near}), Other(side), parent, sibling)
      top     == straight.child[Other(side)][parent]
      tinted  == IF parent \in t.red THEN MakeRed(straight, {top}) ELSE MakeBlack(straight, {top})
  IN Rotate(MakeBlack(tinted, {parent, tinted.child[Other(side)][top]}), side, above, parent)

(* What recoloring the sibling, and the parent if it is red, gives.        *)
Recolored(t, x, N, D, R, above, parent) ==
  /\ Sorted(x, N, D, R) /\ Bare(x, N) /\ RedApart(x, N, NULL)
  /\ x.root \notin x.red /\ parent \notin x.red
  /\ parent \in t.red => \E A : Even(x, N, A, NULL, "left")
  /\ parent \notin t.red => \E s \in Side : /\ above # NULL => x.child[s][above] = parent
                                            /\ \E A : Even(x, N, A, above, s)

(* What a round of the repair starts from: the subtree at the last node of *)
(* the path is one black node short.                                       *)
RemoveState(t, N, D, R, B, path) ==
  /\ Sorted(t, N, D, R) /\ Bare(t, N)
  /\ path = <<>> => Balanced(t, N, D, R, B)
  /\ path # <<>> =>
       /\ Up(path, 0) \in N \cup {NULL} /\ Up(path, 1) \in N \cup {NULL}
       /\ RedApart(t, N, Up(path, 0))
       /\ t.root \in t.red => Up(path, 1) = NULL
       /\ Up(path, 1) = NULL => t.root = Up(path, 0)
       /\ Up(path, 1) # NULL => Up(path, 2) \in Node /\ IsParent(t, N, Up(path, 2), Up(path, 1))
       /\ \E s \in Side : /\ Up(path, 1) # NULL => t.child[s][Up(path, 1)] = Up(path, 0)
                          /\ Even(t, N, B, Up(path, 1), s)

(* After a red sibling the repair ends with the next round.                *)
Settled(t, path) ==
  /\ Up(path, 0) \notin t.red /\ Up(path, 1) \in t.red
  /\ t.child[Other(SideOf(t, Up(path, 1), Up(path, 0)))][Up(path, 1)] \notin t.red

Prolong(path, a, b, c) == SubSeq(path, 1, Len(path) - 2) \o <<a, b, c>>

(* What a round leaves.                                                    *)
RemoveStep(c, t, N, R, path) ==
  /\ c \in Climbs
  /\ \E E, A : RemoveState(c.tree, N, E, R, A, c.path)
  /\ \/ c.path = <<>>
     \/ Len(path) > 1 /\ ~Settled(t, path) /\ Settled(c.tree, c.path)
     \/ /\ ~Settled(t, path) /\ IsPath(c.tree, N, c.path)
        /\ Len(c.path) \in Nat /\ Len(c.path) < Len(path)

-----------------------------------------------------------------------------
(* Walks down the tree *)

Longer(S, p, x, q) ==
  /\ q \in Seq(S) /\ q # <<>> /\ Len(p) \in Nat /\ Len(q) = Len(p) + 1
  /\ Last(q) = x /\ q[Len(p) + 1] = x
  /\ \A i \in 1 .. Len(p) : q[i] = p[i]

(* The node a walk comes to next, where turn[n] is the side it takes at n. *)
NextNode(t, start, turn, p) == IF p = <<>> THEN start ELSE t.child[turn[Last(p)]][Last(p)]

Stopped(t, start, turn, Stop, p) ==
  (p # <<>> /\ Last(p) \in Stop) \/ NextNode(t, start, turn, p) = NULL

(* A walk from one node that ends at a node of Stop or where there is none.*)
Descent(t, N, start, turn, Stop, p) ==
  /\ p \in Seq(N)
  /\ p # <<>> => p[1] = start
  /\ \A i \in 1 .. Len(p) - 1 : p[i] \notin Stop /\ p[i + 1] = t.child[turn[p[i]]][p[i]]

-----------------------------------------------------------------------------
(* Searches *)

Turns(k) == [n \in Key |-> Turn(k, n)]

(* What is known of the way to a key.                                      *)
Way(t, N, D, k, p) ==
  /\ p \in Seq(N) /\ Len(p) \in Nat
  /\ p # <<>> => p[1] = t.root
  /\ \A i \in 1 .. Len(p) - 1 : Rank[p[i]] # Rank[k] /\ p[i + 1] = t.child[Turn(k, p[i])][p[i]]
  /\ \A i \in 1 .. Len(p), m \in N : Rank[m] = Rank[k] => m \in D[p[i]]
  /\ Ends(p, k) <=> \E m \in N : Rank[m] = Rank[k]
  /\ ~ Ends(p, k) => IF p = <<>> THEN t.root = NULL /\ N = {}
                     ELSE /\ Rank[Last(p)] # Rank[k]
                          /\ t.child[Turn(k, Last(p))][Last(p)] = NULL

-----------------------------------------------------------------------------
(* Insertion *)

OnWay(p) == {p[i] : i \in 1 .. Len(p)}

Hung(t, k, p) == IF p = <<>> THEN SetRoot(t, k) ELSE SetChild(t, Turn(k, Last(p)), Last(p), k)

(* The sets of nodes with the new one below each node on its way.          *)
HungSets(N, D, k, p) ==
  [n \in N \cup {k} |-> IF n = k THEN {k} ELSE IF n \in OnWay(p) THEN D[n] \cup {k} ELSE D[n]]

HungHeights(N, B, k) == [n \in N \cup {k} |-> IF n = k THEN 0 ELSE B[n]]

HungIs(t, x, N, k, p) ==
  /\ x \in Trees /\ x.red = t.red \cup {k}
  /\ x.root = IF p = <<>> THEN k ELSE t.root
  /\ \A s \in Side, m \in Key :
       x.child[s][m] = IF p # <<>> /\ m = Last(p) /\ s = Turn(k, m) THEN k ELSE t.child[s][m]

HungOn(t, x, M, k, q) ==
  /\ IsPath(x, M, q) /\ q # <<>> /\ Up(q, 0) = k
  /\ x.root \in x.red /\ t.root \notin t.red => Len(q) = 1

-----------------------------------------------------------------------------
(* Removal *)

(* What is known of the way to the least node.                             *)
LeftWay(t, N, start, w) ==
  /\ w \in Seq(N) /\ Len(w) \in Nat
  /\ w = <<>> <=> start = NULL
  /\ w # <<>> => /\ w[1] = start /\ Last(w) = w[Len(w)] /\ Last(w) \in N
                 /\ Len(w) > 0 /\ t.child["left"][Last(w)] = NULL
  /\ \A i \in 1 .. Len(w) : w[i] \in N
  /\ \A i \in 1 .. Len(w) - 1 : w[i + 1] = t.child["left"][w[i]]

Swap(a, b) == [m \in Node |-> IF m = a THEN b ELSE IF m = b THEN a ELSE m]

(* The tree r is t with the two nodes renamed.                             *)
Swaps(t, r, f) ==
  /\ r \in Trees /\ r.root = f[t.root]
  /\ \A s \in Side, m \in Key : r.child[s][f[m]] = f[t.child[s][m]]
  /\ r.red = {m \in Key : f[m] \in t.red}

SwapFacts(N, f) ==
  /\ \A m \in Node : f[m] \in Node /\ f[f[m]] = m
  /\ \A m \in Key : f[m] \in Key
  /\ \A m \in N : f[m] \in N
  /\ \A m \in Key \ N : f[m] = m
  /\ f[NULL] = NULL

SwapHeights(N, B, f) == [n \in N |-> B[f[n]]]

Joined(S, p, w, z) ==
  /\ z \in Seq(S) /\ Len(p) \in Nat /\ Len(w) \in Nat /\ Len(z) = Len(p) + Len(w)
  /\ \A i \in 1 .. Len(p) : z[i] = p[i]
  /\ \A j \in 1 .. Len(w) : z[Len(p) + j] = w[j]

Shorter(S, p, q) ==
  /\ q \in Seq(S) /\ Len(p) \in Nat /\ Len(p) > 0 /\ Len(q) = Len(p) - 1 /\ Len(q) \in Nat
  /\ \A i \in 1 .. Len(p) - 1 : q[i] = p[i]

SunkPath(path, way, successor, node) == Front(path) \o <<successor>> \o Front(way) \o <<node>>

Renamed(q, path, way, successor, node) ==
  /\ q \in Seq(Node) /\ Len(q) = Len(path) + Len(way) /\ Len(path) \in Nat /\ Len(way) \in Nat
  /\ Len(path) > 0 /\ Len(way) > 0
  /\ \A i \in 1 .. Len(path) - 1 : q[i] = path[i]
  /\ q[Len(path)] = successor
  /\ \A j \in 1 .. Len(way) - 1 : q[Len(path) + j] = way[j]
  /\ q[Len(path) + Len(way)] = node

ColorsSwapped(t, x, a, b) ==
  /\ x \in Trees /\ x.root = t.root /\ x.child = t.child
  /\ x.red = {m \in Key : Swap(a, b)[m] \in t.red}

(* What a step of removing a node with two children starts from.           *)
Sinking(t, N, D, path, node, parent, right, left, way, successor, below) ==
  /\ N \subseteq Key /\ NULL \notin N /\ t \in Trees
  /\ node \in N /\ node # NULL /\ right \in N /\ right # NULL /\ right # node
  /\ right = t.child["right"][node] /\ left = t.child["left"][node]
  /\ left \in Node /\ left # node /\ left # successor
  /\ LeftWay(t, N, right, way) /\ way # <<>> /\ Len(way) > 0
  /\ successor = Last(way) /\ successor \in N /\ successor # NULL /\ successor # node
  /\ t.child["left"][successor] = NULL
  /\ below = t.child["right"][successor] /\ below \in Node /\ below # node /\ below # successor
  /\ IsPath(t, N, path) /\ node = Last(path) /\ Len(path) > 0
  /\ parent = Up(path, 1) /\ parent \in Node /\ IsParent(t, N, parent, node)
  /\ parent # node /\ parent # successor
  /\ parent # NULL => parent \in N

NearTree(t, node, below, successor) ==
  SetChild(SetChild(t, "right", node, below), "right", successor, node)

FarTree(t, node, below, successor, right, mid) ==
  Relink(SetChild(SetChild(t, "right", node, below), "right", successor, right), mid, successor, node)

LiftedTree(t, node, parent, successor, left) ==
  Relink(SetChild(SetChild(t, "left", successor, left), "left", node, NULL), parent, node, successor)

MovedIs(t, x, node, below, successor, right, mid) ==
  /\ x \in Trees /\ x.root = t.root /\ x.red = t.red
  /\ \A s \in Side, m \in Key :
       x.child[s][m] = IF s = "right" /\ m = successor THEN (IF right = successor THEN node ELSE right)
                       ELSE IF s = "right" /\ m = node THEN below
                       ELSE IF right # successor /\ s = "left" /\ m = mid THEN node
                       ELSE t.child[s][m]

LiftedIs(t, x, node, parent, successor, left, side) ==
  /\ x \in Trees /\ x.red = t.red /\ x.root = IF parent = NULL THEN successor ELSE t.root
  /\ \A s \in Side, m \in Key :
       x.child[s][m] = IF m = parent /\ s = side THEN successor
                       ELSE IF s = "left" /\ m = node THEN NULL
                       ELSE IF s = "left" /\ m = successor THEN left
                       ELSE t.child[s][m]

(* The parent of a successor that is not the child of the node.            *)
Middle(t, N, node, parent, right, way, successor, mid) ==
  IF right = successor THEN Len(way) = 1
  ELSE /\ Len(way) # 1 /\ mid \in N /\ t.child["left"][mid] = successor
       /\ mid # parent /\ mid # node /\ mid # successor

(* The tree and path after the change of places: the node has its old      *)
(* place in the order exchanged with the successor's, and no left child.   *)
SunkIs(t, N, path, node, successor, right, c) ==
  /\ node \in N /\ successor \in N /\ node # successor
  /\ Swaps(t, c.tree, Swap(node, successor)) /\ IsPath(c.tree, N, c.path) /\ Last(c.path) = node
  /\ c.tree.child["left"][node] = NULL

Sinks(node, way) == ~ (tree.child["right"][node] = NULL \/ (tree.child["left"][node] = NULL /\ Len(way) = 1))

FreedIs(t, x, node) ==
  /\ x \in Trees /\ x.root = t.root /\ x.red = t.red \ {node}
  /\ \A s \in Side, m \in Key : x.child[s][m] = IF m = node THEN NULL ELSE t.child[s][m]

CutTree(t, parent, node, child) == Freed(Relink(t, parent, node, child), node)

CutIs(t, x, parent, node, child) ==
  /\ x \in Trees /\ x.root = (IF parent = NULL THEN child ELSE t.root) /\ x.red = t.red \ {node}
  /\ \A s \in Side, m \in Key :
       x.child[s][m] = IF m = node THEN NULL
                       ELSE IF m = parent /\ s = SideOf(t, parent, node) THEN child
                       ELSE t.child[s][m]

(* A node with one child at most, below its parent.                        *)
Single(t, N, parent, node, child) ==
  /\ node \in N /\ parent \in Node /\ IsParent(t, N, parent, node)
  /\ \E s \in Side : t.child[s][node] = child /\ t.child[Other(s)][node] = NULL

CutSets(N, D, node) == [n \in N \ {node} |-> D[n] \ {node}]

(* A path that leads to the child instead of the node that has gone.       *)
Landed(x, M, path, parent, child, q) ==
  /\ IsPath(x, M, q) /\ q # <<>>
  /\ Up(q, 0) = child /\ Up(q, 1) = parent /\ Up(q, 2) = Up(path, 2)

-----------------------------------------------------------------------------
(* Walks over all nodes *)

(* The nodes of a subtree that a walk has still to visit at its top.       *)
Chunk(D, R, a) == {m \in D[a] : R[a] <= R[m]}

(* The keys are in the order of their ranks.                               *)
Ascending(p, R) == \A i, j \in 1 .. Len(p) : i < j => R[p[i]] < R[p[j]]

(* What holds during a walk: the nodes that are not yet listed are in the  *)
(* chunks of the stack, the last chunk first.                              *)
Walking(N, D, R, stack, keys) ==
  /\ stack \in Seq(N) /\ keys \in Seq(N)
  /\ Ascending(keys, R)
  /\ \A i \in 1 .. Len(stack), j \in 1 .. Len(keys) : \A m \in Chunk(D, R, stack[i]) : R[keys[j]] < R[m]
  /\ \A i, j \in 1 .. Len(stack) : i < j => \A m \in Chunk(D, R, stack[j]) : R[m] < R[stack[i]]
  /\ \A m \in N : \/ \E j \in 1 .. Len(keys) : keys[j] = m
                  \/ \E i \in 1 .. Len(stack) : m \in Chunk(D, R, stack[i])

(* The walk after n rounds.                                                *)
WalkAt(t, N, D, R, n) ==
  /\ Walk(t, n).stack \in Seq(N) /\ Walk(t, n).keys \in Seq(N)
  /\ Walk(t, n) \in [stack : Seq(Key), keys : Seq(Key)]
  /\ Walking(N, D, R, Walk(t, n).stack, Walk(t, n).keys)

(* A sequence with all the nodes in order, each once.                      *)
Enumerates(p, N, R) ==
  /\ p \in Seq(N) /\ Ascending(p, R)
  /\ \A m \in N : \E j \in 1 .. Len(p) : p[j] = m

Prefix(p, q) == Len(p) <= Len(q) /\ \A i \in 1 .. Len(p) : p[i] = q[i]

-----------------------------------------------------------------------------
(* Listings *)

(* A sequence with one more element, and with one less.                    *)
Put(p, place, k) == SubSeq(p, 1, place) \o <<k>> \o SubSeq(p, place + 1, Len(p))

Drop(p, n) == SubSeq(p, 1, n - 1) \o SubSeq(p, n + 1, Len(p))

PutIs(S, p, place, k, q) ==
  /\ q \in Seq(S) /\ Len(p) \in Nat /\ Len(q) = Len(p) + 1
  /\ \A i \in 1 .. place : q[i] = p[i]
  /\ q[place + 1] = k
  /\ \A i \in place + 1 .. Len(p) : q[i + 1] = p[i]

DropIs(S, p, n, q) ==
  /\ q \in Seq(S) /\ Len(p) \in Nat /\ Len(q) = Len(p) - 1 /\ Len(q) \in Nat
  /\ \A i \in 1 .. n - 1 : q[i] = p[i]
  /\ \A i \in n .. Len(p) - 1 : q[i] = p[i + 1]

(* Each place of a shorter sequence is one of the longer, but not the n-th.*)
Places(p, n, q) ==
  /\ \A i \in 1 .. Len(q) :
       \/ i \in 1 .. n - 1 /\ q[i] = p[i] /\ i \in 1 .. Len(p)
       \/ i \in n .. Len(p) - 1 /\ q[i] = p[i + 1] /\ i + 1 \in 1 .. Len(p)
  /\ \A j \in 1 .. Len(p) : j # n => \E i \in 1 .. Len(q) : q[i] = p[j]

-----------------------------------------------------------------------------
(* The order list *)

(* The list o links the nodes N as they follow each other in L.            *)
InOrder(o, N, L) ==
  /\ L \in Seq(N)
  /\ \A i, j \in 1 .. Len(L) : L[i] = L[j] => i = j
  /\ \A m \in N : \E i \in 1 .. Len(L) : L[i] = m
  /\ o.head = IF Len(L) = 0 THEN NULL ELSE L[1]
  /\ o.tail = IF Len(L) = 0 THEN NULL ELSE L[Len(L)]
  /\ o.next \in [Key -> Node] /\ o.prev \in [Key -> Node]
  /\ \A i \in 1 .. Len(L) : o.next[L[i]] = IF i = Len(L) THEN NULL ELSE L[i + 1]
  /\ \A i \in 1 .. Len(L) : o.prev[L[i]] = IF i = 1 THEN NULL ELSE L[i - 1]
  /\ \A n \in Key \ N : o.next[n] = NULL

(* The links lead from one end through all of p.                           *)
Chained(end, links, p) ==
  /\ end = IF Len(p) = 0 THEN NULL ELSE p[1]
  /\ \A i \in 1 .. Len(p) : links[p[i]] = IF i = Len(p) THEN NULL ELSE p[i + 1]

(* The first n of p, or all.                                               *)
Listing(p, n, x) ==
  /\ x \in Seq(Key) /\ Prefix(x, p)
  /\ Len(x) = IF n <= Len(p) THEN n ELSE Len(p)

-----------------------------------------------------------------------------
(* The inductive invariant and what follows *)

(* The links of a tree are those of a red-black tree of the nodes.         *)
TreeIs(t, N) == \E D, B : Balanced(t, N, D, Rank, B)

(* The height of RedBlack is a function that satisfies its equation.       *)
Heights(t, f) ==
  f = [n \in Node |->
         IF n = NULL THEN {1}
         ELSE {h + (IF n \in t.red THEN 0 ELSE 1) : h \in f[t.child["left"][n]] \cup f[t.child["right"][n]]}]

ListIs(o, N) == \E L : InOrder(o, N, L)

SoundIs(od, N, t, o, count, new, answer) ==
  /\ od \in BOOLEAN /\ N \subseteq Uses(od) /\ TreeIs(t, N)
  /\ od => ListIs(o, N)
  /\ count = Cardinality(N) /\ new \subseteq N
  /\ answer \in Node \cup {0, -1}

Sound == SoundIs(ordered, nodes, tree, order, size, fresh, reply)

(* What a search tells.                                                    *)
Found(t, N, k, path) ==
  /\ Ends(path, k) <=> \E m \in N : Rank[m] = Rank[k]
  /\ Ends(path, k) => Last(path) \in N /\ Rank[Last(path)] = Rank[k]

(* What a walk over the items gives.                                       *)
KeysOf(od, t, o) == IF od THEN Listed(o.head, o.next, MaxRounds) ELSE Walk(t, MaxRounds).keys

Keys == KeysOf(ordered, tree, order)

Lists(L, od, o, N) ==
  /\ L \in Seq(N)
  /\ \A m \in N : \E i \in 1 .. Len(L) : L[i] = m
  /\ od => InOrder(o, N, L)
  /\ ~od => Enumerates(L, N, Rank)

Placed(od, L, k, place) ==
  /\ od => place = Len(L)
  /\ ~od => /\ \A n \in 1 .. place : Rank[L[n]] < Rank[k]
            /\ \A n \in place + 1 .. Len(L) : Rank[k] < Rank[L[n]]

ItemsIn(L, k) == {L[n] : n \in {m \in DOMAIN L : Rank[L[m]] = Rank[k]}}

=============================================================================
