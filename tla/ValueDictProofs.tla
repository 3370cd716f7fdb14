---------------------------- MODULE ValueDictProofs ----------------------------
(***************************************************************************)
(* The dictionary of ValueDict stays a red-black tree in the order of its  *)
(* keys, for every set of keys and every sequence of calls.  The first     *)
(* half is what the operators of ValueDict do to a tree: searches, walks,  *)
(* rotations and the two repairs, each checked against the conditions on   *)
(* single links that RedBlackTrees states.  The second half is the calls.  *)
(***************************************************************************)
EXTENDS RedBlackTrees, SequenceTheorems, FiniteSetTheorems, WellFoundedInduction, TLAPS

LEMMA LeastNumber ==
  ASSUME NEW T, T \subseteq Nat, T # {}
  PROVE  \E n \in T : \A m \in T : n <= m
<1> DEFINE Order == {ss \in Nat \X Nat : ss[1] < ss[2]}
<1>1. IsWellFoundedOn(Order, Nat)
  BY NatLessThanWellFounded DEF OpToRel
<1>2. \A x, y \in Nat : x < y => <<x, y>> \in Order
  OBVIOUS
<1> HIDE DEF Order
<1>3. PICK n \in T : \A m \in T : ~ (<<m, n>> \in Order)
  BY <1>1, WFMin
<1>4. ASSUME NEW m \in T
      PROVE  n <= m
  <2>1. ~ (m < n)
    BY <1>2, <1>3
  <2> QED
    BY <2>1
<1> QED
  BY <1>3, <1>4

(* Induction: a set with zero and the successor of each of its numbers has *)
(* them all.                                                               *)
LEMMA AllNumbers ==
  ASSUME NEW T, 0 \in T, \A n \in Nat : n \in T => n + 1 \in T
  PROVE  Nat \subseteq T
<1> DEFINE Bad == Nat \ T
<1> SUFFICES ASSUME Bad # {} PROVE FALSE
  OBVIOUS
<1>1. PICK n \in Bad : \A m \in Bad : n <= m
  <2>1. Bad \subseteq Nat
    OBVIOUS
  <2> HIDE DEF Bad
  <2> QED
    BY <2>1, LeastNumber
<1>2. n # 0 /\ n \in Nat
  OBVIOUS
<1>3. n - 1 \in Nat /\ n - 1 \notin Bad
  BY <1>1, <1>2
<1>4. (n - 1) + 1 \in T
  BY <1>3
<1> QED
  BY <1>2, <1>4

LEMMA RoundsExist ==
  ASSUME NEW G, NEW a, NEW n \in Nat
  PROVE  \E f : Rounds(G, a, n, f)
<1> DEFINE T == {m \in Nat : \E f : Rounds(G, a, m, f)}
<1>1. 0 \in T
  <2>1. Rounds(G, a, 0, [k \in Nat |-> a])
    BY DEF Rounds
  <2> QED
    BY <2>1
<1>2. ASSUME NEW m \in Nat, m \in T
      PROVE  m + 1 \in T
  <2>1. PICK f : Rounds(G, a, m, f)
    BY <1>2
  <2> DEFINE g == [k \in Nat |-> IF k <= m THEN f[k] ELSE G[f[m]]]
  <2>2. g[0] = a
    BY <2>1 DEF Rounds
  <2>3. ASSUME NEW k \in Nat, k < m + 1
        PROVE  g[k + 1] = G[g[k]]
    <3>1. CASE k < m
      BY <3>1, <2>1 DEF Rounds
    <3>2. CASE k = m
      BY <3>2
    <3> QED
      BY <2>3, <3>1, <3>2
  <2>4. Rounds(G, a, m + 1, g)
    <3> HIDE DEF g
    <3> QED
      BY <2>2, <2>3 DEF Rounds
  <2> QED
    BY <2>4
<1>3. Nat \subseteq T
  <2> HIDE DEF T
  <2> QED
    BY <1>1, <1>2, AllNumbers
<1> QED
  BY <1>3

LEMMA RoundsAgree ==
  ASSUME NEW G, NEW a, NEW n \in Nat, NEW m \in Nat, NEW f, NEW g,
         Rounds(G, a, n, f), Rounds(G, a, m, g), NEW k \in Nat, k <= n, k <= m
  PROVE  f[k] = g[k]
<1> DEFINE T == {i \in Nat : i <= n /\ i <= m => f[i] = g[i]}
<1>1. 0 \in T
  BY DEF Rounds
<1>2. ASSUME NEW i \in Nat, i \in T
      PROVE  i + 1 \in T
  BY <1>2 DEF Rounds
<1>3. Nat \subseteq T
  <2> HIDE DEF T
  <2> QED
    BY <1>1, <1>2, AllNumbers
<1> QED
  BY <1>3

(* The loop does what it says: no round, and one round more.               *)
LEMMA RepeatRounds ==
  ASSUME NEW G, NEW a
  PROVE  /\ Repeat(G, a, 0) = a
         /\ \A n \in Nat : Repeat(G, a, n + 1) = G[Repeat(G, a, n)]
<1> DEFINE Row(n) == CHOOSE f : Rounds(G, a, n, f)
           h == [n \in Nat |-> Row(n)[n]]
           after == CHOOSE f : f = [n \in Nat |-> IF n = 0 THEN a ELSE G[f[n - 1]]]
<1>1. \A n \in Nat : Rounds(G, a, n, Row(n))
  BY RoundsExist
<1>2. h[0] = a
  BY <1>1 DEF Rounds
<1>3. ASSUME NEW n \in Nat
      PROVE  h[n + 1] = G[h[n]]
  <2>1. Rounds(G, a, n, Row(n)) /\ Rounds(G, a, n + 1, Row(n + 1))
    BY <1>1
  <2> HIDE DEF Row
  <2>2. Row(n)[n] = Row(n + 1)[n]
    BY <2>1, RoundsAgree
  <2>3. Row(n + 1)[n + 1] = G[Row(n + 1)[n]]
    BY <2>1 DEF Rounds
  <2> QED
    BY <2>2, <2>3
<1>4. h = [n \in Nat |-> IF n = 0 THEN a ELSE G[h[n - 1]]]
  <2>1. \A n \in Nat : h[n] = IF n = 0 THEN a ELSE G[h[n - 1]]
    <3> HIDE DEF h
    <3>1. ASSUME NEW n \in Nat, n # 0
          PROVE  h[n] = G[h[n - 1]]
      <4>1. n - 1 \in Nat /\ (n - 1) + 1 = n
        BY <3>1
      <4> QED
        BY <1>3, <4>1
    <3> QED
      BY <1>2, <3>1
  <2>2. h = [n \in Nat |-> h[n]]
    OBVIOUS
  <2> HIDE DEF h
  <2> QED
    BY <2>1, <2>2, Zenon
<1>5. after = [n \in Nat |-> IF n = 0 THEN a ELSE G[after[n - 1]]]
  <2> HIDE DEF h
  <2> QED
    BY <1>4
<1>6. \A n : Repeat(G, a, n) = after[n]
  BY DEF Repeat
<1> HIDE DEF after
<1>7. after[0] = a
  BY <1>5
<1>8. ASSUME NEW n \in Nat
      PROVE  after[n + 1] = G[after[n]]
  <2>1. n + 1 \in Nat /\ n + 1 # 0 /\ (n + 1) - 1 = n
    OBVIOUS
  <2>2. after[n + 1] = IF n + 1 = 0 THEN a ELSE G[after[(n + 1) - 1]]
    BY <1>5, <2>1
  <2> QED
    BY <2>1, <2>2
<1> QED
  BY <1>6, <1>7, <1>8

(* What holds before the first round, and after each if before it.         *)
LEMMA RepeatKeeps ==
  ASSUME NEW G, NEW a, NEW I, a \in I[0],
         \A n \in Nat : \A x \in I[n] : G[x] \in I[n + 1]
  PROVE  \A n \in Nat : Repeat(G, a, n) \in I[n]
<1> DEFINE T == {n \in Nat : Repeat(G, a, n) \in I[n]}
<1>1. 0 \in T
  BY RepeatRounds
<1>2. ASSUME NEW n \in Nat, n \in T
      PROVE  n + 1 \in T
  <2>1. Repeat(G, a, n + 1) = G[Repeat(G, a, n)]
    BY RepeatRounds
  <2> QED
    BY <1>2, <2>1
<1>3. Nat \subseteq T
  <2> HIDE DEF T
  <2> QED
    BY <1>1, <1>2, AllNumbers
<1> QED
  BY <1>3

-----------------------------------------------------------------------------
(* Trees and their links *)

LEMMA Sides ==
  /\ "left" \in Side /\ "right" \in Side /\ "left" # "right"
  /\ Other("left") = "right" /\ Other("right") = "left"
  /\ \A s \in Side : Other(s) \in Side /\ Other(s) # s /\ Other(Other(s)) = s
  /\ \A s, r \in Side : r = s \/ r = Other(s)
BY DEF Side, Other

LEMMA TreeParts ==
  ASSUME NEW t \in Trees
  PROVE  /\ t.root \in Node /\ t.red \subseteq Key
         /\ \A s \in Side, n \in Key : t.child[s][n] \in Node
BY DEF Trees

LEMMA SetRootIs ==
  ASSUME NEW t \in Trees, NEW to \in Node
  PROVE  /\ SetRoot(t, to) \in Trees
         /\ SetRoot(t, to).root = to
         /\ SetRoot(t, to).red = t.red
         /\ SetRoot(t, to).child = t.child
BY DEF Trees, SetRoot

LEMMA SetChildIs ==
  ASSUME NEW t \in Trees, NEW side \in Side, NEW n \in Key, NEW to \in Node
  PROVE  /\ SetChild(t, side, n, to) \in Trees
         /\ SetChild(t, side, n, to).root = t.root
         /\ SetChild(t, side, n, to).red = t.red
         /\ \A s \in Side, m \in Key :
              SetChild(t, side, n, to).child[s][m] =
                IF s = side /\ m = n THEN to ELSE t.child[s][m]
<1> DEFINE links == [t.child EXCEPT ![side][n] = to]
<1>1. t.child \in [Side -> [Key -> Node]]
  BY DEF Trees
<1>2. links \in [Side -> [Key -> Node]]
  BY <1>1
<1>3. \A s \in Side, m \in Key : links[s][m] = IF s = side /\ m = n THEN to ELSE t.child[s][m]
  BY <1>1
<1>4. SetChild(t, side, n, to) = [t EXCEPT !.child = links]
  BY DEF SetChild
<1> HIDE DEF links
<1> QED
  BY <1>2, <1>3, <1>4 DEF Trees

LEMMA MakeBlackIs ==
  ASSUME NEW t \in Trees, NEW ns
  PROVE  /\ MakeBlack(t, ns) \in Trees
         /\ MakeBlack(t, ns).root = t.root /\ MakeBlack(t, ns).child = t.child
         /\ MakeBlack(t, ns).red = t.red \ ns
BY DEF Trees, MakeBlack

LEMMA MakeRedIs ==
  ASSUME NEW t \in Trees, NEW ns \in SUBSET Key
  PROVE  /\ MakeRed(t, ns) \in Trees
         /\ MakeRed(t, ns).root = t.root /\ MakeRed(t, ns).child = t.child
         /\ MakeRed(t, ns).red = t.red \cup ns
BY DEF Trees, MakeRed

-----------------------------------------------------------------------------
(* Search trees *)

LEMMA NullIsNoKey == NULL \notin Key
BY KeyAssumption

LEMMA SortedParts ==
  ASSUME NEW t, NEW N, NEW D, NEW R, Sorted(t, N, D, R)
  PROVE  /\ t \in Trees /\ N \subseteq Key /\ R \in [Key -> Int] /\ NULL \notin N /\ t.red \subseteq N
         /\ \A n \in N : D[n] \subseteq N /\ n \in D[n] /\ R[n] \in Int
         /\ \A n \in N, s \in Side : t.child[s][n] \in N \cup {NULL}
BY NullIsNoKey DEF Sorted, Ranked

(* A child has just the part of its parent's nodes on its side.            *)
LEMMA ChildIs ==
  ASSUME NEW t, NEW N, NEW D, NEW R, Sorted(t, N, D, R), NEW n \in N, NEW s \in Side,
         NEW c, c = t.child[s][n], c # NULL
  PROVE  /\ c \in N /\ c \in D[n] /\ c # n /\ n \notin D[c] /\ c # t.root
         /\ D[c] = Part(D[n], R, n, s)
         /\ D[c] \subseteq D[n]
         /\ t.child[Other(s)][n] # c
         /\ \A r \in Side : t.child[r][c] # c /\ t.child[r][c] # n
<1>1. c \in N /\ D[c] = Part(D[n], R, n, s)
  BY DEF Sorted, Below
<1>2. c \in D[c] /\ R[n] \in Int /\ R[c] \in Int
  BY <1>1, SortedParts
<1>3. c \in D[n] /\ c # n /\ n \notin D[c] /\ D[c] \subseteq D[n]
  BY <1>1, <1>2 DEF Part
<1>4. c # t.root
  BY <1>1, <1>3 DEF Sorted, Below
<1>5. t.child[Other(s)][n] # c
  <2>1. SUFFICES ASSUME t.child[Other(s)][n] = c PROVE FALSE
    OBVIOUS
  <2>2. D[c] = Part(D[n], R, n, Other(s))
    BY <2>1, Sides DEF Sorted, Below
  <2> QED
    BY <1>1, <1>2, <2>2 DEF Part, Side, Other
<1>6. ASSUME NEW r \in Side
      PROVE  t.child[r][c] # c /\ t.child[r][c] # n
  <2>1. t.child[r][c] # n
    <3>1. SUFFICES ASSUME t.child[r][c] = n PROVE FALSE
      OBVIOUS
    <3>2. n # NULL
      BY SortedParts
    <3>3. D[n] = Part(D[c], R, c, r)
      BY <1>1, <3>1, <3>2 DEF Sorted, Below
    <3> QED
      BY <1>2, <1>3, <3>3 DEF Part
  <2>2. t.child[r][c] # c
    <3>1. SUFFICES ASSUME t.child[r][c] = c PROVE FALSE
      OBVIOUS
    <3>2. D[c] = Part(D[c], R, c, r)
      BY <1>1, <3>1 DEF Sorted, Below
    <3> QED
      BY <1>2, <3>2 DEF Part
  <2> QED
    BY <2>1, <2>2
<1> QED
  BY <1>1, <1>3, <1>4, <1>5, <1>6

(* No two pointers lead to one node.                                       *)
LEMMA OneParent ==
  ASSUME NEW t, NEW N, NEW D, NEW R, Sorted(t, N, D, R), NEW m \in N, NEW n \in N,
         NEW r \in Side, NEW s \in Side, t.child[r][m] = t.child[s][n], t.child[s][n] # NULL
  PROVE  m = n /\ r = s
<1>1. m = n
  BY DEF Sorted
<1>2. r = s
  BY <1>1, ChildIs, Sides
<1> QED
  BY <1>1, <1>2

LEMMA LinkIs ==
  ASSUME NEW t, NEW N, NEW D, NEW R, Sorted(t, N, D, R), NEW node \in N, NEW parent \in Node,
         IsParent(t, N, parent, node)
  PROVE  /\ parent = NULL <=> t.root = node
         /\ parent # node
         /\ parent # NULL => /\ parent \in N
                             /\ SideOf(t, parent, node) \in Side
                             /\ t.child[SideOf(t, parent, node)][parent] = node
         /\ \A n \in N, s \in Side :
              t.child[s][n] = node <=> n = parent /\ s = SideOf(t, parent, node)
<1>0. node # NULL
  BY SortedParts
<1>1. CASE parent = NULL
  <2>1. t.root = node
    BY <1>1 DEF IsParent
  <2>2. \A n \in N, s \in Side : t.child[s][n] # node
    BY <1>0, <2>1, ChildIs
  <2> QED
    BY <1>0, <1>1, <2>1, <2>2, SortedParts
<1>2. CASE parent # NULL
  <2>1. PICK s \in Side : parent \in N /\ t.child[s][parent] = node
    BY <1>2 DEF IsParent
  <2>2. t.root # node /\ parent # node
    BY <1>0, <2>1, ChildIs
  <2>3. \A n \in N, r \in Side : t.child[r][n] = node => n = parent /\ r = s
    BY <1>0, <2>1, OneParent
  <2>4. SideOf(t, parent, node) = s
    BY <2>1, <2>3 DEF SideOf, Side
  <2> QED
    BY <1>2, <2>1, <2>2, <2>3, <2>4
<1> QED
  BY <1>1, <1>2

-----------------------------------------------------------------------------
(* Rotations *)

(* The links after a rotation that lifts tmp, a child of node.             *)
LEMMA RotateIs ==
  ASSUME NEW t, NEW N, NEW D, NEW R, Sorted(t, N, D, R), NEW node \in N, NEW side \in Side,
         NEW parent \in Node, IsParent(t, N, parent, node),
         NEW tmp, tmp = t.child[Other(side)][node], tmp # NULL
  PROVE  LET r == Rotate(t, side, parent, node)
         IN /\ r \in Trees /\ r.red = t.red
            /\ r.root = IF parent = NULL THEN tmp ELSE t.root
            /\ \A s \in Side, m \in Key :
                 r.child[s][m] = IF m = node /\ s = Other(side) THEN t.child[side][tmp]
                                 ELSE IF m = tmp /\ s = side THEN node
                                 ELSE IF m = parent /\ s = SideOf(t, parent, node) THEN tmp
                                 ELSE t.child[s][m]
<1> DEFINE a == SetChild(t, Other(side), node, t.child[side][tmp])
           b == SetChild(a, side, tmp, node)
<1>0. t \in Trees /\ N \subseteq Key /\ Other(side) \in Side /\ Other(side) # side /\ NULL \notin N
  BY SortedParts, Sides
<1>1. tmp \in N /\ tmp # node /\ \A r \in Side : t.child[r][tmp] # tmp /\ t.child[r][tmp] # node
  BY <1>0, ChildIs
<1>2. t.child[side][tmp] \in Node
  BY <1>0, <1>1, TreeParts
<1>3. /\ a \in Trees /\ a.root = t.root /\ a.red = t.red
      /\ \A s \in Side, m \in Key :
           a.child[s][m] = IF s = Other(side) /\ m = node THEN t.child[side][tmp] ELSE t.child[s][m]
  BY <1>0, <1>2, SetChildIs
<1> HIDE DEF a
<1>4. /\ b \in Trees /\ b.root = t.root /\ b.red = t.red
      /\ \A s \in Side, m \in Key :
           b.child[s][m] = IF s = side /\ m = tmp THEN node ELSE a.child[s][m]
  <2>1. tmp \in Key /\ node \in Node
    BY <1>0, <1>1 DEF Node
  <2> QED
    BY <1>3, <2>1, SetChildIs
<1> HIDE DEF b
<1>5. Rotate(t, side, parent, node) = Relink(b, parent, node, tmp)
  BY DEF Rotate, a, b
<1>6. tmp \in Node
  BY <1>0, <1>1 DEF Node
<1>7. CASE parent = NULL
  <2>1. Rotate(t, side, parent, node) = SetRoot(b, tmp)
    BY <1>5, <1>7 DEF Relink
  <2>2. \A m \in Key : m # parent
    BY <1>7, NullIsNoKey
  <2>3. /\ SetRoot(b, tmp) \in Trees /\ SetRoot(b, tmp).root = tmp
        /\ SetRoot(b, tmp).red = b.red /\ SetRoot(b, tmp).child = b.child
    BY <1>4, <1>6, SetRootIs
  <2> QED
    BY <1>0, <1>3, <1>4, <1>7, <2>1, <2>2, <2>3
<1>8. CASE parent # NULL
  <2>1. parent \in N /\ parent # node /\ parent # tmp /\ SideOf(t, parent, node) \in Side
    BY <1>1, <1>8, LinkIs, SortedParts
  <2>2. \A s \in Side : b.child[s][parent] = t.child[s][parent]
    BY <1>0, <1>3, <1>4, <2>1
  <2>3. SideOf(b, parent, node) = SideOf(t, parent, node)
    BY <2>2, Sides DEF SideOf
  <2>4. Rotate(t, side, parent, node) = SetChild(b, SideOf(t, parent, node), parent, tmp)
    BY <1>5, <1>8, <2>3 DEF Relink
  <2> DEFINE q == SideOf(t, parent, node)
             c == SetChild(b, q, parent, tmp)
  <2>0. parent \in Key /\ q \in Side
    BY <1>0, <2>1
  <2> HIDE DEF q
  <2>5. /\ c \in Trees /\ c.root = b.root /\ c.red = b.red
        /\ \A s \in Side, m \in Key :
             c.child[s][m] = IF s = q /\ m = parent THEN tmp ELSE b.child[s][m]
    BY <1>4, <1>6, <2>0, SetChildIs
  <2>7. Rotate(t, side, parent, node) = c
    BY <2>4 DEF q
  <2> HIDE DEF c
  <2> QED
    BY <1>0, <1>3, <1>4, <1>8, <2>1, <2>5, <2>7 DEF q
<1> QED
  BY <1>7, <1>8

(* A rotation leaves a search tree, and only two nodes change what is      *)
(* below them.                                                             *)
LEMMA RotateSorts ==
  ASSUME NEW t, NEW N, NEW D, NEW R, Sorted(t, N, D, R), NEW node \in N, NEW side \in Side,
         NEW parent \in Node, IsParent(t, N, parent, node),
         NEW tmp, tmp = t.child[Other(side)][node], tmp # NULL
  PROVE  Sorted(Rotate(t, side, parent, node), N, RotatedSets(D, R, side, node, tmp), R)
<1> DEFINE r == Rotate(t, side, parent, node)
           E == RotatedSets(D, R, side, node, tmp)
           q == SideOf(t, parent, node)
           mid == t.child[side][tmp]
<1>0. /\ t \in Trees /\ N \subseteq Key /\ R \in [Key -> Int] /\ NULL \notin N
      /\ Other(side) \in Side /\ Other(side) # side
  BY SortedParts, Sides
<1>1. /\ tmp \in N /\ tmp # node /\ tmp # t.root /\ node \notin D[tmp] /\ tmp \in D[node]
      /\ D[tmp] = Part(D[node], R, node, Other(side))
      /\ \A s \in Side : t.child[s][tmp] # tmp /\ t.child[s][tmp] # node
  BY <1>0, ChildIs
<1>2. /\ r \in Trees /\ r.red = t.red
      /\ r.root = IF parent = NULL THEN tmp ELSE t.root
      /\ \A s \in Side, m \in Key :
           r.child[s][m] = IF m = node /\ s = Other(side) THEN mid
                           ELSE IF m = tmp /\ s = side THEN node
                           ELSE IF m = parent /\ s = q THEN tmp
                           ELSE t.child[s][m]
  BY RotateIs
<1>3. /\ parent = NULL <=> t.root = node
      /\ parent # node
      /\ parent # NULL => parent \in N /\ q \in Side /\ t.child[q][parent] = node
      /\ \A n \in N, s \in Side : t.child[s][n] = node <=> n = parent /\ s = q
  BY LinkIs
<1>4. /\ E[node] = Part(D[node], R, tmp, side) /\ E[tmp] = D[node]
      /\ \A n \in N : n # node /\ n # tmp => E[n] = D[n]
  BY <1>0, <1>1 DEF RotatedSets
<1>5. /\ mid \in N \cup {NULL} /\ Below(D, mid) = Part(D[tmp], R, tmp, side)
      /\ \A n \in N, s \in Side : t.child[s][n] = mid /\ mid # NULL => n = tmp /\ s = side
      /\ parent # tmp
  <2>1. mid \in N \cup {NULL} /\ Below(D, mid) = Part(D[tmp], R, tmp, side)
    BY <1>1 DEF Sorted
  <2>2. ASSUME NEW n \in N, NEW s \in Side, t.child[s][n] = mid, mid # NULL
        PROVE  n = tmp /\ s = side
    BY <1>1, <2>2, OneParent
  <2>3. parent # tmp
    BY <1>1, <1>3
  <2> QED
    BY <2>1, <2>2, <2>3
<1>6. \A n \in N, s \in Side : t.child[s][n] = tmp <=> n = node /\ s = Other(side)
  BY <1>0, <1>1, OneParent
<1>7. \A n \in N : R[n] \in Int /\ n \in D[n] /\ D[n] \subseteq N
  BY SortedParts
<1> HIDE DEF r, E, q, mid
<1>8. /\ r.root \in N \cup {NULL} /\ Below(E, r.root) = N
  <2>1. CASE parent = NULL
    BY <2>1, <1>0, <1>1, <1>2, <1>3, <1>4 DEF Sorted, Below
  <2>2. CASE parent # NULL
    <3>1. t.root # node /\ t.root # tmp
      BY <2>2, <1>1, <1>3
    <3> QED
      BY <2>2, <3>1, <1>0, <1>1, <1>2, <1>4 DEF Sorted, Below
  <2> QED
    BY <2>1, <2>2
<1>9. R[tmp] \in Int /\ R[node] \in Int /\ (IF side = "left" THEN R[node] < R[tmp] ELSE R[tmp] < R[node])
  <2>1. tmp \in Part(D[node], R, node, Other(side))
    BY <1>1, <1>7
  <2> QED
    BY <1>1, <1>7, <2>1 DEF Part, Other, Side
<1>10. ASSUME NEW n \in N
       PROVE  n \in E[n] /\ E[n] \subseteq N
  BY <1>1, <1>4, <1>7, <1>9 DEF Part
<1>11. ASSUME NEW n \in N, NEW s \in Side
       PROVE  r.child[s][n] \in N \cup {NULL} /\ Below(E, r.child[s][n]) = Part(E[n], R, n, s)
  <2>1. CASE n = node /\ s = Other(side)
    <3>1. r.child[s][n] = mid
      BY <2>1, <1>0, <1>2
    <3>2. Below(E, mid) = Below(D, mid)
      BY <1>1, <1>4, <1>5 DEF Below, mid
    <3>3. Part(Part(D[node], R, node, Other(side)), R, tmp, side)
            = Part(Part(D[node], R, tmp, side), R, node, Other(side))
      BY DEF Part
    <3> QED
      BY <2>1, <3>1, <3>2, <3>3, <1>1, <1>4, <1>5
  <2>2. CASE n = node /\ s = side
    <3>1. r.child[s][n] = t.child[s][n]
      BY <2>2, <1>0, <1>1, <1>2, <1>3
    <3>2. t.child[s][n] # node /\ t.child[s][n] # tmp
      BY <2>2, <1>0, <1>1, <1>3, <1>6
    <3>3. t.child[s][n] \in N \cup {NULL} /\ Below(D, t.child[s][n]) = Part(D[node], R, node, side)
      BY <2>2 DEF Sorted
    <3>4. Below(E, t.child[s][n]) = Below(D, t.child[s][n])
      BY <3>2, <3>3, <1>4 DEF Below
    <3>5. Part(E[node], R, node, side) = Part(D[node], R, node, side)
      <4>1. \A m \in D[node] : R[m] \in Int
        BY <1>7
      <4> QED
        BY <1>4, <1>9, <4>1 DEF Part
    <3> QED
      BY <2>2, <3>1, <3>3, <3>4, <3>5
  <2>3. CASE n = tmp /\ s = side
    <3>1. r.child[s][n] = node
      BY <2>3, <1>0, <1>1, <1>2
    <3> QED
      BY <2>3, <3>1, <1>0, <1>4 DEF Below
  <2>4. CASE n = tmp /\ s = Other(side)
    <3>1. r.child[s][n] = t.child[s][n]
      BY <2>4, <1>0, <1>1, <1>2, <1>5
    <3>2. t.child[s][n] # node /\ t.child[s][n] # tmp
      BY <2>4, <1>0, <1>1
    <3>3. t.child[s][n] \in N \cup {NULL} /\ Below(D, t.child[s][n]) = Part(D[tmp], R, tmp, Other(side))
      BY <2>4, <1>1 DEF Sorted
    <3>4. Below(E, t.child[s][n]) = Below(D, t.child[s][n])
      BY <3>2, <3>3, <1>4 DEF Below
    <3>5. Part(E[tmp], R, tmp, Other(side)) = Part(D[tmp], R, tmp, Other(side))
      <4>1. \A m \in D[node] : R[m] \in Int
        BY <1>7
      <4> QED
        BY <1>1, <1>4, <1>9, <4>1 DEF Part, Other, Side
    <3> QED
      BY <2>4, <3>1, <3>3, <3>4, <3>5
  <2>5. CASE n = parent /\ s = q
    <3>1. parent # NULL /\ n # node /\ n # tmp /\ t.child[s][n] = node
      BY <2>5, <1>0, <1>3, <1>5
    <3>2. r.child[s][n] = tmp
      BY <2>5, <3>1, <1>0, <1>2
    <3>3. D[node] = Part(D[n], R, n, s)
      BY <3>1, <1>0 DEF Sorted, Below
    <3> QED
      BY <3>1, <3>2, <3>3, <1>0, <1>1, <1>4 DEF Below
  <2>6. CASE n # node /\ n # tmp /\ ~ (n = parent /\ s = q)
    <3>1. r.child[s][n] = t.child[s][n]
      BY <2>6, <1>0, <1>2
    <3>2. t.child[s][n] # node /\ t.child[s][n] # tmp
      BY <2>6, <1>3, <1>6
    <3>3. t.child[s][n] \in N \cup {NULL} /\ Below(D, t.child[s][n]) = Part(D[n], R, n, s)
      BY DEF Sorted
    <3> QED
      BY <2>6, <3>1, <3>2, <3>3, <1>4 DEF Below
  <2> QED
    BY <2>1, <2>2, <2>3, <2>4, <2>5, <2>6, Sides
<1>12. ASSUME NEW m \in N, NEW n \in N, NEW u \in Side, NEW s \in Side,
              r.child[u][m] = r.child[s][n], r.child[s][n] # NULL
       PROVE  m = n
  <2> DEFINE Moved(x, y) == \/ x = node /\ y = Other(side)
                            \/ x = tmp /\ y = side
                            \/ x = parent /\ y = q
  <2>1. \A x \in N, y \in Side : ~Moved(x, y) =>
          r.child[y][x] = t.child[y][x] /\ t.child[y][x] # node /\ t.child[y][x] # tmp
                                        /\ (t.child[y][x] = mid => mid = NULL)
    <3>1. ASSUME NEW x \in N, NEW y \in Side, ~Moved(x, y)
          PROVE  /\ r.child[y][x] = t.child[y][x] /\ t.child[y][x] # node /\ t.child[y][x] # tmp
                 /\ t.child[y][x] = mid => mid = NULL
      <4>1. x \in Key
        BY <1>0
      <4>2. ~ (x = node /\ y = Other(side)) /\ ~ (x = tmp /\ y = side) /\ ~ (x = parent /\ y = q)
        BY <3>1
      <4>3. r.child[y][x] = t.child[y][x]
        BY <1>2, <4>1, <4>2
      <4>4. t.child[y][x] # node /\ t.child[y][x] # tmp
        BY <1>3, <1>6, <4>2
      <4>5. t.child[y][x] = mid => mid = NULL
        BY <1>5, <4>2
      <4> QED
        BY <4>3, <4>4, <4>5
    <3> QED
      BY <3>1
  <2>2. /\ r.child[Other(side)][node] = mid
        /\ r.child[side][tmp] = node
        /\ parent # NULL => r.child[q][parent] = tmp
        /\ mid # node /\ mid # tmp /\ parent \notin {node, tmp}
    BY <1>0, <1>1, <1>2, <1>3, <1>5 DEF mid
  <2>3. CASE ~Moved(m, u) /\ ~Moved(n, s)
    <3>1. t.child[u][m] = t.child[s][n] /\ t.child[s][n] # NULL
      BY <1>12, <2>1, <2>3
    <3> QED
      BY <3>1, OneParent
  <2>4. CASE Moved(m, u) /\ ~Moved(n, s)
    BY <1>0, <1>12, <2>1, <2>2, <2>4
  <2>5. CASE ~Moved(m, u) /\ Moved(n, s)
    BY <1>0, <1>12, <2>1, <2>2, <2>5
  <2>6. CASE Moved(m, u) /\ Moved(n, s)
    BY <1>0, <1>1, <1>12, <2>2, <2>6
  <2> QED
    BY <2>3, <2>4, <2>5, <2>6
<1>13. Ranked(N, R) /\ t.red \subseteq N
  BY DEF Sorted
<1> QED
  BY <1>2, <1>8, <1>10, <1>11, <1>12, <1>13 DEF Sorted, r, E

LEMMA RotateTurns ==
  ASSUME NEW t, NEW N, NEW D, NEW R, Sorted(t, N, D, R), NEW node \in N, NEW side \in Side,
         NEW parent \in Node, IsParent(t, N, parent, node),
         NEW tmp, tmp = t.child[Other(side)][node], tmp # NULL
  PROVE  /\ Rotate(t, side, parent, node) \in Trees
         /\ Rotate(t, side, parent, node).red = t.red
         /\ Turned(t, Rotate(t, side, parent, node), side, parent, node, tmp)
BY RotateIs DEF Turned

(* Colors do not matter to a search tree.                                  *)
LEMMA SameLinks ==
  ASSUME NEW t, NEW N, NEW D, NEW R, Sorted(t, N, D, R), NEW x \in Trees,
         x.root = t.root, x.child = t.child, x.red \subseteq N
  PROVE  /\ Sorted(x, N, D, R)
         /\ \A parent, node : IsParent(t, N, parent, node) => IsParent(x, N, parent, node)
         /\ \A parent, node : SideOf(x, parent, node) = SideOf(t, parent, node)
<1>1. Sorted(x, N, D, R)
  BY DEF Sorted
<1>2. \A parent, node : IsParent(t, N, parent, node) => IsParent(x, N, parent, node)
  BY DEF IsParent
<1>3. \A parent, node : SideOf(x, parent, node) = SideOf(t, parent, node)
  BY DEF SideOf
<1> QED
  BY <1>1, <1>2, <1>3

LEMMA TurnedLinks ==
  ASSUME NEW t, NEW N, NEW D, NEW R, Sorted(t, N, D, R), NEW node \in N, NEW side \in Side,
         NEW parent \in Node, IsParent(t, N, parent, node),
         NEW tmp, tmp = t.child[Other(side)][node], tmp # NULL,
         NEW r, Turned(t, r, side, parent, node, tmp)
  PROVE  /\ r.child[side][node] = t.child[side][node]
         /\ r.child[Other(side)][node] = t.child[side][tmp]
         /\ r.child[side][tmp] = node
         /\ r.child[Other(side)][tmp] = t.child[Other(side)][tmp]
         /\ IsParent(r, N, parent, tmp) /\ IsParent(r, N, tmp, node)
         /\ \A n \in N, s \in Side : n # node /\ n # tmp =>
              \/ t.child[s][n] # node /\ t.child[s][n] # tmp /\ r.child[s][n] = t.child[s][n]
              \/ n = parent /\ s = SideOf(t, parent, node) /\ t.child[s][n] = node /\ r.child[s][n] = tmp
<1>0. N \subseteq Key /\ Other(side) \in Side /\ Other(side) # side /\ NULL \notin N
  BY SortedParts, Sides
<1>1. tmp \in N /\ tmp # node /\ \A s \in Side : t.child[s][tmp] # node
  BY <1>0, ChildIs
<1>2. /\ parent # node
      /\ parent # NULL => parent \in N /\ SideOf(t, parent, node) \in Side
      /\ parent # NULL => t.child[SideOf(t, parent, node)][parent] = node
      /\ \A n \in N, s \in Side : t.child[s][n] = node <=> n = parent /\ s = SideOf(t, parent, node)
  BY LinkIs
<1>3. parent # tmp
  BY <1>0, <1>1, <1>2
<1>4. \A n \in N, s \in Side : t.child[s][n] = tmp => n = node
  BY <1>0, <1>1, OneParent
<1>5. node \in Key /\ tmp \in Key
  BY <1>0, <1>1
<1>6. /\ r.child[side][node] = t.child[side][node]
      /\ r.child[Other(side)][node] = t.child[side][tmp]
      /\ r.child[side][tmp] = node
      /\ r.child[Other(side)][tmp] = t.child[Other(side)][tmp]
  BY <1>0, <1>1, <1>2, <1>3, <1>5 DEF Turned
<1>7. IsParent(r, N, tmp, node)
  BY <1>0, <1>1, <1>6 DEF IsParent
<1>8. IsParent(r, N, parent, tmp)
  <2>1. CASE parent = NULL
    BY <2>1 DEF Turned, IsParent
  <2>2. CASE parent # NULL
    <3>1. parent \in N /\ parent \in Key /\ SideOf(t, parent, node) \in Side
      BY <1>0, <1>2, <2>2
    <3>2. r.child[SideOf(t, parent, node)][parent] = tmp
      BY <1>2, <1>3, <3>1 DEF Turned
    <3> QED
      BY <2>2, <3>1, <3>2 DEF IsParent
  <2> QED
    BY <2>1, <2>2
<1>9. ASSUME NEW n \in N, NEW s \in Side, n # node, n # tmp
      PROVE  \/ t.child[s][n] # node /\ t.child[s][n] # tmp /\ r.child[s][n] = t.child[s][n]
             \/ n = parent /\ s = SideOf(t, parent, node) /\ t.child[s][n] = node /\ r.child[s][n] = tmp
  <2>1. n \in Key
    BY <1>0
  <2>2. CASE n = parent /\ s = SideOf(t, parent, node)
    BY <1>2, <1>9, <2>1, <2>2 DEF Turned
  <2>3. CASE ~ (n = parent /\ s = SideOf(t, parent, node))
    <3>1. r.child[s][n] = t.child[s][n]
      BY <1>9, <2>1, <2>3 DEF Turned
    <3> QED
      BY <1>2, <1>4, <1>9, <2>3, <3>1
  <2> QED
    BY <2>2, <2>3
<1> QED
  BY <1>6, <1>7, <1>8, <1>9

LEMMA TurnedBare ==
  ASSUME NEW t, NEW N, NEW D, NEW R, Sorted(t, N, D, R), Bare(t, N), NEW node \in N, NEW side \in Side,
         NEW parent \in Node, IsParent(t, N, parent, node),
         NEW tmp, tmp = t.child[Other(side)][node], tmp # NULL,
         NEW r, Turned(t, r, side, parent, node, tmp)
  PROVE  Bare(r, N)
<1>1. tmp \in N /\ (parent # NULL => parent \in N)
  BY LinkIs, ChildIs, Sides
<1>2. NULL \notin Key
  BY NullIsNoKey
<1> QED
  BY <1>1, <1>2 DEF Bare, Turned

-----------------------------------------------------------------------------
(* Black nodes on the ways down *)

LEMMA SwapEven ==
  ASSUME NEW t, NEW N, NEW D, NEW R, Sorted(t, N, D, R), NEW node \in N, NEW side \in Side,
         NEW parent \in Node, IsParent(t, N, parent, node),
         NEW tmp, tmp = t.child[Other(side)][node], tmp # NULL,
         NEW r, Turned(t, r, side, parent, node, tmp),
         node \notin t.red, tmp \in t.red, r.red = (t.red \ {tmp}) \cup {node},
         NEW B, NEW dp, NEW ds, Even(t, N, B, dp, ds), dp # tmp, dp = node => ds = side
  PROVE  /\ Even(r, N, SwappedHeights(B, N, node, tmp), dp, ds)
<1> DEFINE A == SwappedHeights(B, N, node, tmp)
           mid == t.child[side][tmp]
<1>0. N \subseteq Key /\ Other(side) \in Side /\ Other(side) # side /\ NULL \notin N
      /\ t.red \subseteq N
  BY SortedParts, Sides
<1>1. tmp \in N /\ tmp # node /\ \A s \in Side : t.child[s][tmp] # node /\ t.child[s][tmp] # tmp
  BY <1>0, ChildIs
<1>2. /\ r.child[side][node] = t.child[side][node]
      /\ r.child[Other(side)][node] = mid
      /\ r.child[side][tmp] = node
      /\ r.child[Other(side)][tmp] = t.child[Other(side)][tmp]
      /\ \A n \in N, s \in Side : n # node /\ n # tmp =>
           \/ t.child[s][n] # node /\ t.child[s][n] # tmp /\ r.child[s][n] = t.child[s][n]
           \/ n = parent /\ s = SideOf(t, parent, node) /\ t.child[s][n] = node /\ r.child[s][n] = tmp
  BY TurnedLinks
<1>3. /\ A[tmp] = B[node] /\ A[node] = B[tmp] /\ \A n \in N : n # node /\ n # tmp => A[n] = B[n]
  BY <1>1 DEF SwappedHeights
<1>4. \A n \in N : B[n] \in Nat
  BY Sides DEF Even
<1>5. \A n \in N, s \in Side : t.child[s][n] \in N \cup {NULL}
  BY SortedParts
<1>6. /\ B[node] = B[tmp] + 1
      /\ B[tmp] = Height(B, mid) /\ B[tmp] = Height(B, t.child[Other(side)][tmp])
      /\ B[node] = Height(B, t.child[side][node]) + 1 + Missing(node, side, dp, ds)
  <2>1. B[node] = B[tmp] + Ink(t, node) + Missing(node, Other(side), dp, ds)
    BY <1>0, <1>1 DEF Even, Height
  <2>2. B[node] = Height(B, t.child[side][node]) + Ink(t, node) + Missing(node, side, dp, ds)
    BY DEF Even
  <2>3. \A s \in Side : B[tmp] = Height(B, t.child[s][tmp]) + Ink(t, tmp) + Missing(tmp, s, dp, ds)
    BY <1>1 DEF Even
  <2>4. Missing(node, Other(side), dp, ds) = 0 /\ \A s : Missing(tmp, s, dp, ds) = 0
    BY <1>0 DEF Missing
  <2>5. Ink(t, node) = 1 /\ Ink(t, tmp) = 0
    BY DEF Ink
  <2>6. B[tmp] = Height(B, mid) + 0 + 0 /\ B[tmp] = Height(B, t.child[Other(side)][tmp]) + 0 + 0
    BY <1>0, <2>3, <2>4, <2>5
  <2>7. Height(B, mid) \in Nat /\ Height(B, t.child[Other(side)][tmp]) \in Nat
    BY <1>0, <1>1, <1>4, <1>5 DEF Height
  <2> QED
    BY <1>1, <1>4, <2>1, <2>2, <2>4, <2>5, <2>6, <2>7
<1>7. \A n \in N : Ink(r, n) = IF n = tmp THEN 1 ELSE IF n = node THEN 0 ELSE Ink(t, n)
  BY <1>1 DEF Ink
<1>8. \A c \in N \cup {NULL} : c # node /\ c # tmp => Height(A, c) = Height(B, c)
  BY <1>3 DEF Height
<1> HIDE DEF A
<1>9. ASSUME NEW n \in N, NEW s \in Side
      PROVE  A[n] \in Nat /\ A[n] = Height(A, r.child[s][n]) + Ink(r, n) + Missing(n, s, dp, ds)
  <2>0. A[n] \in Nat
    BY <1>1, <1>3, <1>4
  <2>1. CASE n = node /\ s = side
    <3>1. t.child[s][n] # node /\ t.child[s][n] # tmp
      BY <2>1, <1>0, <1>1, ChildIs, OneParent
    <3>2. Height(A, r.child[s][n]) = Height(B, t.child[side][node])
      BY <2>1, <3>1, <1>2, <1>5, <1>8
    <3>3. Height(B, t.child[side][node]) \in Nat /\ Missing(node, side, dp, ds) \in Nat
      BY <1>4, <1>5 DEF Height, Missing
    <3> QED
      BY <2>0, <2>1, <3>2, <3>3, <1>1, <1>3, <1>4, <1>6, <1>7
  <2>2. CASE n = node /\ s = Other(side)
    <3>1. Height(A, r.child[s][n]) = Height(B, mid)
      BY <2>2, <1>0, <1>1, <1>2, <1>5, <1>8
    <3>2. Missing(n, s, dp, ds) = 0
      BY <2>2, <1>0 DEF Missing
    <3> QED
      BY <2>0, <2>2, <3>1, <3>2, <1>1, <1>3, <1>4, <1>6, <1>7
  <2>3. CASE n = tmp /\ s = side
    <3>1. Height(A, r.child[s][n]) = B[tmp]
      BY <2>3, <1>0, <1>2, <1>3 DEF Height
    <3>2. Missing(n, s, dp, ds) = 0
      BY <2>3 DEF Missing
    <3> QED
      BY <2>0, <2>3, <3>1, <3>2, <1>1, <1>3, <1>4, <1>6, <1>7
  <2>4. CASE n = tmp /\ s = Other(side)
    <3>1. Height(A, r.child[s][n]) = Height(B, t.child[Other(side)][tmp])
      BY <2>4, <1>0, <1>1, <1>2, <1>5, <1>8
    <3>2. Missing(n, s, dp, ds) = 0
      BY <2>4 DEF Missing
    <3> QED
      BY <2>0, <2>4, <3>1, <3>2, <1>1, <1>3, <1>4, <1>6, <1>7
  <2>5. CASE n # node /\ n # tmp
    <3>1. Height(A, r.child[s][n]) = Height(B, t.child[s][n])
      <4>1. CASE t.child[s][n] = node /\ r.child[s][n] = tmp
        BY <4>1, <1>0, <1>1, <1>3 DEF Height
      <4>2. CASE t.child[s][n] # node /\ t.child[s][n] # tmp /\ r.child[s][n] = t.child[s][n]
        BY <4>2, <1>5, <1>8
      <4> QED
        BY <2>5, <4>1, <4>2, <1>2
    <3>2. B[n] = Height(B, t.child[s][n]) + Ink(t, n) + Missing(n, s, dp, ds)
      BY DEF Even
    <3> QED
      BY <2>0, <2>5, <3>1, <3>2, <1>3, <1>7
  <2> QED
    BY <2>1, <2>2, <2>3, <2>4, <2>5, Sides
<1> QED
  BY <1>9 DEF Even, A

-----------------------------------------------------------------------------
(* Paths *)

LEMMA UpFacts ==
  ASSUME NEW t, NEW N, N \subseteq Key, NEW path, IsPath(t, N, path), NEW i \in Nat, i < Len(path)
  PROVE  /\ Len(path) \in Nat \ {0}
         /\ Up(path, i) = path[Len(path) - i]
         /\ Up(path, i) \in Node /\ Up(path, i + 1) \in Node
         /\ IsParent(t, N, Up(path, i + 1), Up(path, i))
         /\ Up(path, i + 1) = NULL <=> Len(path) = i + 1
         /\ i > 0 => Up(path, i) \in N
<1>1. path \in Seq(Node) /\ Len(path) \in Nat /\ Len(path) # 0
  BY DEF IsPath
<1>2. Up(path, i) = path[Len(path) - i] /\ Up(path, i) \in Node
  BY <1>1 DEF Up
<1>3. i > 0 => Up(path, i) \in N
  BY <1>1, <1>2 DEF IsPath
<1>4. CASE Len(path) = i + 1
  <2>1. Up(path, i + 1) = NULL /\ Up(path, i) = t.root
    BY <1>1, <1>2, <1>4 DEF Up, IsPath
  <2> QED
    BY <1>1, <1>2, <1>3, <1>4, <2>1 DEF IsParent, Node
<1>5. CASE Len(path) # i + 1
  <2> DEFINE j == Len(path) - (i + 1)
  <2>1. j \in 1 .. Len(path) - 1 /\ j + 1 = Len(path) - i
    BY <1>1, <1>5
  <2>2. Up(path, i + 1) = path[j]
    <3>1. Len(path) > i + 1
      BY <1>1, <1>5
    <3> HIDE DEF j
    <3>2. j = Len(path) - (i + 1)
      BY DEF j
    <3> QED
      BY <3>1, <3>2 DEF Up
  <2>3. path[j] \in N /\ \E s \in Side : t.child[s][path[j]] = path[j + 1]
    BY <2>1 DEF IsPath
  <2>4. path[j] # NULL /\ path[j] \in Node
    BY <2>3, NullIsNoKey DEF Node
  <2> QED
    BY <1>1, <1>2, <1>3, <1>5, <2>1, <2>2, <2>3, <2>4 DEF IsParent
<1> QED
  BY <1>4, <1>5

LEMMA UpIs ==
  ASSUME NEW t, NEW N, N \subseteq Key, NEW path, IsPath(t, N, path)
  PROVE  /\ Len(path) \in Nat \ {0}
         /\ Up(path, 0) \in Node /\ Up(path, 1) \in Node
         /\ Up(path, 2) \in Node /\ Up(path, 3) \in Node
         /\ IsParent(t, N, Up(path, 1), Up(path, 0))
         /\ Up(path, 1) = NULL <=> Len(path) = 1
         /\ Len(path) > 1 => /\ Up(path, 1) \in N
                             /\ IsParent(t, N, Up(path, 2), Up(path, 1))
                             /\ Up(path, 2) = NULL <=> Len(path) = 2
         /\ Len(path) > 2 => /\ Up(path, 2) \in N
                             /\ IsParent(t, N, Up(path, 3), Up(path, 2))
                             /\ Up(path, 3) = NULL <=> Len(path) = 3
<1>0. Len(path) \in Nat \ {0}
  BY DEF IsPath
<1>1. \A i \in Nat : i < Len(path) =>
        /\ Up(path, i) \in Node /\ Up(path, i + 1) \in Node
        /\ IsParent(t, N, Up(path, i + 1), Up(path, i))
        /\ Up(path, i + 1) = NULL <=> Len(path) = i + 1
        /\ i > 0 => Up(path, i) \in N
  BY UpFacts
<1>2. \A i \in Nat : ~ (i < Len(path)) => Up(path, i) = NULL
  BY <1>0 DEF Up
<1>3. /\ 0 \in Nat /\ 1 \in Nat /\ 2 \in Nat /\ 3 \in Nat
      /\ 0 + 1 = 1 /\ 1 + 1 = 2 /\ 2 + 1 = 3
  OBVIOUS
<1>4. /\ Up(path, 0) \in Node /\ Up(path, 1) \in Node
      /\ IsParent(t, N, Up(path, 1), Up(path, 0))
      /\ Up(path, 1) = NULL <=> Len(path) = 1
  <2>1. 0 < Len(path)
    BY <1>0
  <2> QED
    BY <1>1, <1>3, <2>1
<1>5. Len(path) > 1 => /\ Up(path, 1) \in N /\ Up(path, 2) \in Node
                       /\ IsParent(t, N, Up(path, 2), Up(path, 1))
                       /\ Up(path, 2) = NULL <=> Len(path) = 2
  <2>1. Len(path) > 1 => 1 < Len(path) /\ 1 > 0
    BY <1>0
  <2> QED
    BY <1>1, <1>3, <2>1
<1>6. Len(path) > 2 => /\ Up(path, 2) \in N /\ Up(path, 3) \in Node
                       /\ IsParent(t, N, Up(path, 3), Up(path, 2))
                       /\ Up(path, 3) = NULL <=> Len(path) = 3
  <2>1. Len(path) > 2 => 2 < Len(path) /\ 2 > 0
    BY <1>0
  <2> QED
    BY <1>1, <1>3, <2>1
<1>7. Up(path, 2) \in Node /\ Up(path, 3) \in Node
  <2>1. ~ (Len(path) > 2) => Up(path, 2) = NULL /\ Up(path, 3) = NULL
    BY <1>0, <1>2
  <2>2. NULL \in Node
    BY DEF Node
  <2> QED
    BY <1>0, <1>1, <1>5, <1>6, <2>1, <2>2
<1> QED
  BY <1>0, <1>4, <1>5, <1>6, <1>7

(* A path stays one when links and colors elsewhere change.                *)
LEMMA PathKept ==
  ASSUME NEW t, NEW N, NEW path, IsPath(t, N, path), NEW x, x.root = t.root, x.child = t.child,
         NEW n \in Nat, 0 < n, n <= Len(path)
  PROVE  /\ IsPath(x, N, SubSeq(path, 1, n)) /\ Len(SubSeq(path, 1, n)) = n
         /\ \A i \in 1 .. n : SubSeq(path, 1, n)[i] = path[i]
<1>1. path \in Seq(Node) /\ Len(path) \in Nat
  BY DEF IsPath
<1> DEFINE q == SubSeq(path, 1, n)
<1>4. \A i \in 1 .. Len(path) - 1 :
       path[i] \in N /\ \E s \in Side : x.child[s][path[i]] = path[i + 1]
  BY DEF IsPath
<1>2. q \in Seq(Node) /\ Len(q) = n /\ \A i \in 1 .. n : q[i] = path[i]
  BY <1>1
<1> HIDE DEF q
<1>3. q # <<>> /\ q[1] = x.root
  BY <1>2 DEF IsPath
<1>5. ASSUME NEW i \in 1 .. Len(q) - 1
      PROVE  q[i] \in N /\ \E s \in Side : x.child[s][q[i]] = q[i + 1]
  <2>1. i \in 1 .. Len(path) - 1 /\ q[i] = path[i] /\ q[i + 1] = path[i + 1]
    BY <1>1, <1>2
  <2> QED
    BY <1>4, <2>1
<1> QED
  BY <1>2, <1>3, <1>5 DEF IsPath, q

-----------------------------------------------------------------------------
(* The repair after an insertion *)

LEMMA NoMissing ==
  ASSUME NEW N, NULL \notin N, NEW n \in N, NEW s, NEW side
  PROVE  Missing(n, s, NULL, side) = 0
BY DEF Missing

LEMMA EvenParts ==
  ASSUME NEW t, NEW N, NULL \notin N, NEW B, NEW side, Even(t, N, B, NULL, side), NEW n \in N, NEW s \in Side
  PROVE  B[n] \in Nat /\ B[n] = Height(B, t.child[s][n]) + Ink(t, n) + 0
BY NoMissing DEF Even

LEMMA BlackRoot ==
  ASSUME NEW t, NEW N, NEW D, NEW R, NEW B, NEW path, InsertState(t, N, D, R, B, path),
         path # <<>>, Up(path, 1) = NULL
  PROVE  LET x == SetRoot(MakeBlack(t, {Up(path, 0)}), Up(path, 0))
         IN x \in Trees /\ \E A : InsertState(x, N, D, R, A, <<>>)
<1> DEFINE node == Up(path, 0)
           x == SetRoot(MakeBlack(t, {node}), node)
           A == [n \in N |-> IF n = node THEN B[n] + 1 ELSE B[n]]
<1>0. /\ Sorted(t, N, D, R) /\ Bare(t, N) /\ Even(t, N, B, NULL, "left") /\ IsPath(t, N, path)
      /\ node \in N /\ node \in t.red /\ RedApart(t, N, node)
  BY DEF InsertState
<1>1. N \subseteq Key /\ NULL \notin N /\ t.red \subseteq N /\ t \in Trees
  BY <1>0, SortedParts
<1>2. IsParent(t, N, NULL, node)
  BY <1>0, <1>1, UpIs
<1>3. t.root = node /\ \A n \in N, s \in Side : t.child[s][n] # node
  <2>1. t.root = node
    BY <1>2 DEF IsParent
  <2>2. \A n \in N, s \in Side : t.child[s][n] # node
    BY <1>0, <1>1, <2>1, ChildIs
  <2> QED
    BY <2>1, <2>2
<1> HIDE DEF node
<1>4. x \in Trees /\ x.root = t.root /\ x.child = t.child /\ x.red = t.red \ {node}
  <2> DEFINE y == MakeBlack(t, {node})
  <2>1. y \in Trees /\ y.root = t.root /\ y.child = t.child /\ y.red = t.red \ {node}
    BY <1>1, MakeBlackIs
  <2> HIDE DEF y
  <2>2. node \in Node
    BY <1>0, <1>1 DEF Node
  <2>3. /\ SetRoot(y, node) \in Trees /\ SetRoot(y, node).root = node
        /\ SetRoot(y, node).red = y.red /\ SetRoot(y, node).child = y.child
    BY <2>1, <2>2, SetRootIs
  <2> QED
    BY <1>3, <2>1, <2>3 DEF y
<1> HIDE DEF x
<1>5. Sorted(x, N, D, R)
  BY <1>0, <1>1, <1>4, SameLinks
<1>6. Bare(x, N)
  BY <1>0, <1>4 DEF Bare
<1>7. Even(x, N, A, NULL, "left")
  <2>1. \A n \in N : A[n] = IF n = node THEN B[n] + 1 ELSE B[n]
    OBVIOUS
  <2> HIDE DEF A
  <2>2. ASSUME NEW n \in N, NEW s \in Side
        PROVE  A[n] \in Nat /\ A[n] = Height(A, x.child[s][n]) + Ink(x, n) + Missing(n, s, NULL, "left")
    <3>1. B[n] \in Nat /\ B[n] = Height(B, t.child[s][n]) + Ink(t, n) + 0
      BY <1>0, <1>1, EvenParts
    <3>2. Missing(n, s, NULL, "left") = 0
      BY <1>1, NoMissing
    <3>3. t.child[s][n] \in N \cup {NULL} /\ t.child[s][n] # node
      BY <1>0, <1>3, SortedParts
    <3>4. Height(A, x.child[s][n]) = Height(B, t.child[s][n])
      BY <1>4, <2>1, <3>3 DEF Height
    <3>5. Ink(x, n) = IF n = node THEN 1 ELSE Ink(t, n)
      BY <1>4 DEF Ink
    <3>6. Ink(t, node) = 0
      BY <1>0 DEF Ink
    <3>7. Height(B, t.child[s][n]) \in Nat
      BY <1>0, <3>3, Sides DEF Height, Even
    <3> QED
      BY <2>1, <3>1, <3>2, <3>4, <3>5, <3>6, <3>7
  <2> QED
    BY <2>2 DEF Even
<1>8. RedApart(x, N, NULL) /\ x.root \notin x.red
  BY <1>0, <1>3, <1>4 DEF RedApart
<1>9. InsertState(x, N, D, R, A, <<>>)
  BY <1>5, <1>6, <1>7, <1>8 DEF InsertState
<1> QED
  BY <1>4, <1>9 DEF x, node

(* The parent and, unless it is the root, the grandparent of the red node. *)
LEMMA InsertPath ==
  ASSUME NEW t, NEW N, NEW D, NEW R, NEW B, NEW path, InsertState(t, N, D, R, B, path),
         path # <<>>, Up(path, 1) # NULL
  PROVE  /\ Sorted(t, N, D, R) /\ Even(t, N, B, NULL, "left") /\ RedApart(t, N, Up(path, 0))
         /\ Bare(t, N) /\ IsPath(t, N, path) /\ t.root \notin t.red
         /\ Len(path) > 1
         /\ Up(path, 0) \in N /\ Up(path, 0) \in t.red /\ Up(path, 1) \in N
         /\ IsParent(t, N, Up(path, 1), Up(path, 0))
         /\ Up(path, 1) \in t.red => /\ Up(path, 2) \in N /\ Len(path) > 2 /\ Up(path, 2) \notin t.red
                                     /\ Up(path, 3) \in Node
                                     /\ IsParent(t, N, Up(path, 2), Up(path, 1))
                                     /\ IsParent(t, N, Up(path, 3), Up(path, 2))
                                     /\ Up(path, 3) = NULL <=> Len(path) = 3
<1>0. /\ Sorted(t, N, D, R) /\ Bare(t, N) /\ Even(t, N, B, NULL, "left") /\ IsPath(t, N, path)
      /\ Up(path, 0) \in N /\ Up(path, 0) \in t.red /\ RedApart(t, N, Up(path, 0))
      /\ t.root \in t.red => Len(path) = 1
  BY DEF InsertState
<1>1. N \subseteq Key /\ NULL \notin N
  BY <1>0, SortedParts
<1>2. /\ Len(path) \in Nat \ {0}
      /\ Up(path, 1) \in Node /\ Up(path, 3) \in Node
      /\ IsParent(t, N, Up(path, 1), Up(path, 0))
      /\ Up(path, 1) = NULL <=> Len(path) = 1
      /\ Len(path) > 1 => /\ Up(path, 1) \in N
                          /\ IsParent(t, N, Up(path, 2), Up(path, 1))
                          /\ Up(path, 2) = NULL <=> Len(path) = 2
      /\ Len(path) > 2 => /\ Up(path, 2) \in N
                          /\ IsParent(t, N, Up(path, 3), Up(path, 2))
                          /\ Up(path, 3) = NULL <=> Len(path) = 3
  BY <1>0, <1>1, UpIs
<1>5. Len(path) \in Nat /\ Len(path) # 0
  BY <1>2
<1>6. Len(path) # 1
  BY <1>2
<1>7. Len(path) > 1
  BY <1>5, <1>6
<1>3. Len(path) > 1 /\ Up(path, 1) \in N /\ t.root \notin t.red
  BY <1>0, <1>2, <1>6, <1>7
<1>4. ASSUME Up(path, 1) \in t.red
      PROVE  /\ Up(path, 2) \in N /\ Len(path) > 2 /\ Up(path, 2) \notin t.red
             /\ Up(path, 3) \in Node
             /\ IsParent(t, N, Up(path, 2), Up(path, 1))
             /\ IsParent(t, N, Up(path, 3), Up(path, 2))
             /\ Up(path, 3) = NULL <=> Len(path) = 3
  <2>1. Up(path, 2) # NULL
    BY <1>2, <1>3, <1>4 DEF IsParent
  <2>6. Len(path) # 2
    BY <1>2, <1>7, <2>1
  <2>7. \A n \in Nat : n > 1 /\ n # 2 => n > 2
    OBVIOUS
  <2>2. Len(path) > 2
    BY <1>5, <1>7, <2>6, <2>7
  <2>3. PICK s \in Side : t.child[s][Up(path, 2)] = Up(path, 1)
    BY <1>2, <1>3, <2>1 DEF IsParent
  <2>4. Up(path, 1) # Up(path, 0)
    BY <1>0, <1>2, LinkIs
  <2>5. Up(path, 2) \notin t.red
    BY <1>0, <1>2, <1>4, <2>2, <2>3, <2>4 DEF RedApart
  <2> QED
    BY <1>2, <1>3, <2>2, <2>5
<1> QED
  BY <1>0, <1>2, <1>3, <1>4

LEMMA BlackParent ==
  ASSUME NEW t, NEW N, NEW D, NEW R, NEW B, NEW path, InsertState(t, N, D, R, B, path),
         path # <<>>, Up(path, 1) # NULL, Up(path, 1) \notin t.red
  PROVE  InsertState(t, N, D, R, B, <<>>)
<1>1. /\ Sorted(t, N, D, R) /\ Bare(t, N) /\ Even(t, N, B, NULL, "left") /\ RedApart(t, N, Up(path, 0))
      /\ t.root \notin t.red /\ Up(path, 0) \in N /\ Up(path, 1) \in N
      /\ IsParent(t, N, Up(path, 1), Up(path, 0))
  BY InsertPath
<1>2. Up(path, 1) \in Node
  BY <1>1, SortedParts DEF Node
<1>3. \A n \in N, s \in Side : t.child[s][n] = Up(path, 0) => n = Up(path, 1)
  BY <1>1, <1>2, LinkIs
<1>4. RedApart(t, N, NULL)
  BY <1>1, <1>3 DEF RedApart
<1> QED
  BY <1>1, <1>4 DEF InsertState

(* A red uncle: the parent and the uncle turn black, and the grandparent   *)
(* red.                                                                    *)
LEMMA RedUncle ==
  ASSUME NEW t, NEW N, NEW D, NEW R, NEW B, NEW path, InsertState(t, N, D, R, B, path),
         path # <<>>, Up(path, 1) # NULL, Up(path, 1) \in t.red,
         NEW uncle, uncle = t.child[Other(SideOf(t, Up(path, 2), Up(path, 1)))][Up(path, 2)],
         uncle \in t.red
  PROVE  LET x == MakeRed(MakeBlack(t, {Up(path, 1), uncle}), {Up(path, 2)})
             q == SubSeq(path, 1, Len(path) - 2)
         IN /\ x \in Trees /\ q \in Seq(Node) /\ q # <<>> /\ Len(q) = Len(path) - 2
            /\ \E A : InsertState(x, N, D, R, A, q)
<1> DEFINE node == Up(path, 0)
           parent == Up(path, 1)
           top == Up(path, 2)
           side == SideOf(t, top, parent)
           x == MakeRed(MakeBlack(t, {parent, uncle}), {top})
           q == SubSeq(path, 1, Len(path) - 2)
           A == [n \in N |-> IF n \in {parent, uncle} THEN B[n] + 1 ELSE B[n]]
<1>0. /\ Sorted(t, N, D, R) /\ Even(t, N, B, NULL, "left") /\ RedApart(t, N, node)
      /\ Bare(t, N) /\ IsPath(t, N, path) /\ t.root \notin t.red /\ Len(path) > 2
      /\ node \in N /\ parent \in N /\ top \in N /\ top \notin t.red
      /\ IsParent(t, N, parent, node) /\ IsParent(t, N, top, parent) /\ IsParent(t, N, Up(path, 3), top)
      /\ Up(path, 3) = NULL <=> Len(path) = 3
      /\ Up(path, 3) \in Node
  BY InsertPath
<1> HIDE DEF node, parent, top
<1>1. N \subseteq Key /\ NULL \notin N /\ t.red \subseteq N /\ t \in Trees
  BY <1>0, SortedParts
<1>2. top \in Node /\ parent \in Node
  BY <1>0, <1>1 DEF Node
<1>3. /\ side \in Side /\ Other(side) \in Side /\ Other(side) # side
      /\ t.child[side][top] = parent
      /\ \A n \in N, s \in Side : t.child[s][n] = parent <=> n = top /\ s = side
  BY <1>0, <1>1, <1>2, LinkIs, Sides
<1> HIDE DEF side
<1>4. uncle \in N /\ uncle # NULL /\ uncle = t.child[Other(side)][top] /\ parent \in t.red
  BY <1>1 DEF side, top, parent
<1>5. \A n \in N, s \in Side : t.child[s][n] = uncle => n = top /\ s = Other(side)
  BY <1>0, <1>3, <1>4, OneParent
<1>6. \A n \in N, s \in Side : t.child[s][n] = node => n = parent
  BY <1>0, <1>2, LinkIs
<1>7. parent # uncle /\ parent # top /\ uncle # top
  BY <1>0, <1>3, <1>4
<1>8. x \in Trees /\ x.root = t.root /\ x.child = t.child /\ x.red = (t.red \ {parent, uncle}) \cup {top}
  <2> DEFINE y == MakeBlack(t, {parent, uncle})
  <2>1. y \in Trees /\ y.root = t.root /\ y.child = t.child /\ y.red = t.red \ {parent, uncle}
    BY <1>1, MakeBlackIs
  <2> HIDE DEF y
  <2>2. {top} \in SUBSET Key
    BY <1>0, <1>1
  <2>3. /\ MakeRed(y, {top}) \in Trees /\ MakeRed(y, {top}).root = y.root
        /\ MakeRed(y, {top}).child = y.child /\ MakeRed(y, {top}).red = y.red \cup {top}
    BY <2>1, <2>2, MakeRedIs
  <2> QED
    BY <2>1, <2>3 DEF y
<1> HIDE DEF x
<1>9. Sorted(x, N, D, R) /\ Bare(x, N)
  <2>1. x.red \subseteq N
    BY <1>0, <1>1, <1>8
  <2> QED
    BY <1>0, <1>8, <2>1, SameLinks DEF Bare
<1>10. Even(x, N, A, NULL, "left")
  <2>1. \A n \in N : A[n] = IF n \in {parent, uncle} THEN B[n] + 1 ELSE B[n]
    OBVIOUS
  <2> HIDE DEF A
  <2>2. ASSUME NEW n \in N, NEW s \in Side
        PROVE  A[n] \in Nat /\ A[n] = Height(A, x.child[s][n]) + Ink(x, n) + Missing(n, s, NULL, "left")
    <3>1. B[n] \in Nat /\ B[n] = Height(B, t.child[s][n]) + Ink(t, n) + 0
      BY <1>0, <1>1, EvenParts
    <3>2. Missing(n, s, NULL, "left") = 0
      BY <1>1, NoMissing
    <3>3. t.child[s][n] \in N \cup {NULL} /\ (t.child[s][n] \in {parent, uncle} => n = top)
      BY <1>0, <1>3, <1>5, SortedParts
    <3>4. Height(B, t.child[s][n]) \in Nat
      BY <1>0, <3>3, Sides DEF Height, Even
    <3>5. Height(A, x.child[s][n]) = Height(B, t.child[s][n]) + (IF n = top THEN 1 ELSE 0)
      <4>1. CASE n = top
        <5>1. t.child[s][n] \in {parent, uncle}
          BY <1>3, <1>4, <4>1, Sides
        <5> QED
          BY <1>0, <1>1, <1>4, <1>8, <2>1, <4>1, <5>1 DEF Height
      <4>2. CASE n # top
        BY <1>8, <2>1, <3>3, <3>4, <4>2 DEF Height
      <4> QED
        BY <4>1, <4>2
    <3>6. /\ n = top => Ink(t, n) = 1 /\ Ink(x, n) = 0
          /\ n \in {parent, uncle} => Ink(t, n) = 0 /\ Ink(x, n) = 1
          /\ n # top /\ n \notin {parent, uncle} => Ink(t, n) = Ink(x, n)
      BY <1>0, <1>4, <1>7, <1>8 DEF Ink
    <3>7. Ink(t, n) \in Nat
      BY DEF Ink
    <3> QED
      BY <1>7, <2>1, <3>1, <3>2, <3>4, <3>5, <3>6, <3>7
  <2> QED
    BY <2>2 DEF Even
<1>11. RedApart(x, N, top)
  <2>1. ASSUME NEW n \in N, NEW s \in Side, n \in x.red, x.child[s][n] \in x.red, x.child[s][n] # top
        PROVE  FALSE
    <3>1. t.child[s][n] \in t.red /\ t.child[s][n] \notin {parent, uncle}
      BY <1>8, <2>1
    <3>2. n # top
      BY <1>3, <1>4, <3>1, Sides
    <3>3. n \in t.red /\ n # parent
      BY <1>8, <2>1, <3>2
    <3> QED
      BY <1>0, <1>6, <3>1, <3>3 DEF RedApart
  <2> QED
    BY <2>1 DEF RedApart
<1>12. /\ IsPath(x, N, q) /\ q # <<>> /\ Len(q) = Len(path) - 2 /\ q \in Seq(Node) /\ Up(q, 0) = top
  <2>1. Len(path) \in Nat
    BY <1>0 DEF IsPath
  <2>2. Len(path) - 2 \in Nat /\ 0 < Len(path) - 2 /\ Len(path) - 2 <= Len(path)
    BY <1>0, <2>1
  <2>3. IsPath(x, N, q) /\ Len(q) = Len(path) - 2 /\ \A i \in 1 .. Len(path) - 2 : q[i] = path[i]
    BY <1>0, <1>8, <2>2, PathKept
  <2> HIDE DEF q
  <2>4. Up(q, 0) = q[Len(path) - 2]
    BY <2>2, <2>3 DEF Up
  <2>5. top = path[Len(path) - 2]
    BY <1>0, <2>1 DEF Up, top
  <2>6. Len(path) - 2 \in 1 .. Len(path) - 2
    BY <2>2
  <2> QED
    BY <2>3, <2>4, <2>5, <2>6 DEF IsPath
<1>13. x.root \in x.red => Len(q) = 1
  <2>1. x.root \in x.red => t.root = top
    BY <1>0, <1>8
  <2>2. t.root = top => Up(path, 3) = NULL
    BY <1>0, LinkIs
  <2> QED
    BY <1>0, <1>12, <2>1, <2>2
<1> HIDE DEF q, A
<1>14. top \in x.red
  BY <1>8
<1>15. InsertState(x, N, D, R, A, q)
  BY <1>0, <1>9, <1>10, <1>11, <1>12, <1>13, <1>14 DEF InsertState
<1>16. x = MakeRed(MakeBlack(t, {Up(path, 1), uncle}), {Up(path, 2)})
  BY DEF x, parent, top
<1> QED
  BY <1>8, <1>12, <1>15, <1>16 DEF q

LEMMA Lifted ==
  ASSUME NEW t, NEW N, NEW D, NEW R, NEW B, NEW side \in Side, NEW above, NEW top, NEW high, NEW low,
         InLine(t, N, D, R, B, side, above, top, high, low)
  PROVE  LET x == MakeRed(MakeBlack(Rotate(t, Other(side), above, top), {high}), {top})
         IN x \in Trees /\ \E E, A : InsertState(x, N, E, R, A, <<>>)
<1> DEFINE r == Rotate(t, Other(side), above, top)
           x == MakeRed(MakeBlack(r, {high}), {top})
           E == RotatedSets(D, R, Other(side), top, high)
           A == SwappedHeights(B, N, top, high)
<1>0. /\ Sorted(t, N, D, R) /\ Even(t, N, B, NULL, "left") /\ Bare(t, N) /\ RedApart(t, N, low)
      /\ top \in N /\ top \notin t.red /\ t.root \notin t.red
      /\ high \in N /\ high \in t.red /\ low \in N /\ low \in t.red
      /\ t.child[side][top] = high /\ t.child[side][high] = low
      /\ t.child[Other(side)][top] \notin t.red
      /\ above \in Node /\ IsParent(t, N, above, top)
  BY DEF InLine
<1>1. N \subseteq Key /\ NULL \notin N /\ t.red \subseteq N /\ t \in Trees
  BY <1>0, SortedParts
<1>2. Other(side) \in Side /\ Other(side) # side /\ Other(Other(side)) = side
  BY Sides
<1>3. high = t.child[Other(Other(side))][top] /\ high # NULL
  BY <1>0, <1>1, <1>2
<1>4. r \in Trees /\ r.red = t.red /\ Turned(t, r, Other(side), above, top, high)
  BY <1>0, <1>2, <1>3, RotateTurns
<1>5. Sorted(r, N, E, R)
  BY <1>0, <1>2, <1>3, RotateSorts
<1>6. Bare(r, N)
  BY <1>0, <1>2, <1>3, <1>4, TurnedBare
<1> HIDE DEF r, E
<1>7. x \in Trees /\ x.root = r.root /\ x.child = r.child /\ x.red = (t.red \ {high}) \cup {top}
  <2> DEFINE y == MakeBlack(r, {high})
  <2>1. y \in Trees /\ y.root = r.root /\ y.child = r.child /\ y.red = t.red \ {high}
    BY <1>4, MakeBlackIs
  <2> HIDE DEF y
  <2>2. {top} \in SUBSET Key
    BY <1>0, <1>1
  <2>3. /\ MakeRed(y, {top}) \in Trees /\ MakeRed(y, {top}).root = y.root
        /\ MakeRed(y, {top}).child = y.child /\ MakeRed(y, {top}).red = y.red \cup {top}
    BY <2>1, <2>2, MakeRedIs
  <2> QED
    BY <2>1, <2>3 DEF y
<1> HIDE DEF x
<1>8. Turned(t, x, Other(side), above, top, high)
  BY <1>4, <1>7 DEF Turned
<1>9. Sorted(x, N, E, R) /\ Bare(x, N)
  <2>1. x.red \subseteq N
    BY <1>0, <1>1, <1>7
  <2> QED
    BY <1>5, <1>6, <1>7, <2>1, SameLinks DEF Bare
<1>10. Even(x, N, A, NULL, "left")
  <2>1. NULL # high /\ (NULL = top => "left" = Other(side))
    BY <1>0, <1>1
  <2> QED
    BY <1>0, <1>2, <1>3, <1>7, <1>8, <2>1, SwapEven
<1>11. /\ x.child[Other(side)][top] = t.child[Other(side)][top]
       /\ x.child[Other(Other(side))][top] = t.child[Other(side)][high]
       /\ x.child[Other(side)][high] = top
       /\ x.child[Other(Other(side))][high] = t.child[Other(Other(side))][high]
       /\ \A n \in N, s \in Side : n # top /\ n # high =>
              \/ t.child[s][n] # top /\ t.child[s][n] # high /\ x.child[s][n] = t.child[s][n]
              \/ n = above /\ s = SideOf(t, above, top) /\ t.child[s][n] = top /\ x.child[s][n] = high
  BY <1>0, <1>2, <1>3, <1>8, TurnedLinks
<1>12. RedApart(x, N, NULL)
  <2>1. ASSUME NEW n \in N, NEW s \in Side, n \in x.red, x.child[s][n] \in x.red
        PROVE  FALSE
    <3>1. n # high /\ high # top
      BY <1>0, <1>7, <2>1
    <3>2. CASE n = top
      <4>1. CASE s = Other(side)
        <5>1. t.child[Other(side)][top] # top
          BY <1>0, <1>1, <1>2, ChildIs
        <5> QED
          BY <1>0, <1>2, <1>7, <1>11, <2>1, <3>2, <4>1, <5>1
      <4>2. CASE s = side
        <5>1. x.child[s][n] = t.child[Other(side)][high]
          BY <1>2, <1>11, <3>2, <4>2
        <5>2. t.child[Other(side)][high] # low /\ t.child[Other(side)][high] # top
          BY <1>0, <1>1, <1>2, ChildIs
        <5>3. t.child[Other(side)][high] \in t.red
          BY <1>7, <2>1, <5>1, <5>2
        <5> QED
          BY <1>0, <1>2, <5>2, <5>3 DEF RedApart
      <4> QED
        BY <4>1, <4>2, Sides
    <3>3. CASE n # top
      <4>1. n \in t.red /\ x.child[s][n] = t.child[s][n] /\ t.child[s][n] # high /\ t.child[s][n] # top
        BY <1>7, <1>11, <2>1, <3>1, <3>3
      <4>2. t.child[s][n] = low
        BY <1>0, <1>7, <2>1, <4>1 DEF RedApart
      <4>3. n = high
        BY <1>0, <1>1, <4>2, OneParent
      <4> QED
        BY <3>1, <4>3
    <3> QED
      BY <3>2, <3>3
  <2> QED
    BY <2>1 DEF RedApart
<1>13. x.root \notin x.red
  <2>1. t.root = top <=> above = NULL
    BY <1>0, LinkIs
  <2>2. x.root = IF above = NULL THEN high ELSE t.root
    BY <1>8 DEF Turned
  <2> QED
    BY <1>0, <1>7, <2>1, <2>2
<1>14. InsertState(x, N, E, R, A, <<>>)
  BY <1>9, <1>10, <1>12, <1>13 DEF InsertState
<1> QED
  BY <1>7, <1>14 DEF x, r

(* A rotation of two red nodes changes no height.                          *)
LEMMA BendEven ==
  ASSUME NEW t, NEW N, NEW D, NEW R, Sorted(t, N, D, R), NEW node \in N, NEW side \in Side,
         NEW parent \in Node, IsParent(t, N, parent, node),
         NEW tmp, tmp = t.child[Other(side)][node], tmp # NULL,
         NEW r, Turned(t, r, side, parent, node, tmp), r.red = t.red,
         node \in t.red, tmp \in t.red, NEW B, Even(t, N, B, NULL, "left")
  PROVE  Even(r, N, B, NULL, "left")
<1> DEFINE mid == t.child[side][tmp]
<1>0. N \subseteq Key /\ Other(side) \in Side /\ Other(side) # side /\ NULL \notin N
  BY SortedParts, Sides
<1>1. tmp \in N /\ tmp # node
  BY <1>0, ChildIs
<1>2. /\ r.child[side][node] = t.child[side][node]
      /\ r.child[Other(side)][node] = mid
      /\ r.child[side][tmp] = node
      /\ r.child[Other(side)][tmp] = t.child[Other(side)][tmp]
      /\ \A n \in N, s \in Side : n # node /\ n # tmp =>
           \/ t.child[s][n] # node /\ t.child[s][n] # tmp /\ r.child[s][n] = t.child[s][n]
           \/ n = parent /\ s = SideOf(t, parent, node) /\ t.child[s][n] = node /\ r.child[s][n] = tmp
  BY TurnedLinks
<1>3. \A n \in N, s \in Side : B[n] \in Nat /\ B[n] = Height(B, t.child[s][n]) + Ink(t, n) + 0
  BY <1>0, EvenParts
<1>4. \A n \in N, s \in Side : Height(B, t.child[s][n]) \in Nat
  BY <1>3, SortedParts DEF Height
<1>5. Ink(t, node) = 0 /\ Ink(t, tmp) = 0 /\ \A n : Ink(r, n) = Ink(t, n)
  BY DEF Ink
<1>6. B[node] = B[tmp] /\ B[tmp] = Height(B, mid)
  <2>1. B[node] = Height(B, tmp) + Ink(t, node) + 0
    BY <1>0, <1>3
  <2>2. B[tmp] = Height(B, mid) + Ink(t, tmp) + 0
    BY <1>1, <1>3
  <2>3. Height(B, tmp) = B[tmp] /\ B[tmp] \in Nat /\ Height(B, mid) \in Nat
    BY <1>0, <1>1, <1>3, <1>4 DEF Height
  <2> QED
    BY <1>5, <2>1, <2>2, <2>3
<1> HIDE DEF mid
<1>7. ASSUME NEW n \in N, NEW s \in Side
      PROVE  Height(B, r.child[s][n]) = Height(B, t.child[s][n])
  <2>1. CASE n = node
    BY <2>1, <1>0, <1>1, <1>2, <1>6, Sides DEF Height
  <2>2. CASE n = tmp
    <3>1. Height(B, node) = B[node]
      BY <1>0 DEF Height
    <3>2. CASE s = side
      BY <2>2, <3>1, <3>2, <1>2, <1>6 DEF mid
    <3>3. CASE s = Other(side)
      BY <2>2, <3>3, <1>2
    <3> QED
      BY <3>2, <3>3, Sides
  <2>3. CASE n # node /\ n # tmp
    BY <2>3, <1>0, <1>1, <1>2, <1>6 DEF Height
  <2> QED
    BY <2>1, <2>2, <2>3
<1>8. ASSUME NEW n \in N, NEW s \in Side
      PROVE  B[n] \in Nat /\ B[n] = Height(B, r.child[s][n]) + Ink(r, n) + Missing(n, s, NULL, "left")
  BY <1>0, <1>3, <1>5, <1>7, NoMissing
<1> QED
  BY <1>8 DEF Even

(* A red node between its parent and grandparent is turned to their side.  *)
LEMMA Bent ==
  ASSUME NEW t, NEW N, NEW D, NEW R, Sorted(t, N, D, R), NEW B, Even(t, N, B, NULL, "left"), Bare(t, N),
         NEW node \in N, node \in t.red, RedApart(t, N, node), NEW parent \in N, parent \in t.red,
         NEW top \in N, top \notin t.red, NEW above \in Node, IsParent(t, N, above, top),
         NEW side \in Side, t.child[side][top] = parent, t.child[Other(side)][top] \notin t.red,
         t.child[Other(side)][parent] = node, t.root \notin t.red
  PROVE  LET r == Rotate(t, side, top, parent)
         IN \E E : InLine(r, N, E, R, B, side, above, top, node, parent)
<1> DEFINE r == Rotate(t, side, top, parent)
           E == RotatedSets(D, R, side, parent, node)
<1>1. N \subseteq Key /\ NULL \notin N /\ t.red \subseteq N /\ t \in Trees
  BY SortedParts
<1>2. Other(side) \in Side /\ Other(side) # side
  BY Sides
<1>3. top \in Node /\ node # NULL /\ parent # NULL /\ top # NULL
  BY <1>1 DEF Node
<1>4. IsParent(t, N, top, parent)
  BY <1>3 DEF IsParent
<1>5. SideOf(t, top, parent) = side /\ t.root # parent
  BY <1>3, <1>4, LinkIs
<1>6. r \in Trees /\ r.red = t.red /\ Turned(t, r, side, top, parent, node)
  BY <1>3, <1>4, RotateTurns
<1>7. Sorted(r, N, E, R)
  BY <1>3, <1>4, RotateSorts
<1>8. Bare(r, N)
  BY <1>3, <1>4, <1>6, TurnedBare
<1> HIDE DEF r, E
<1>9. Even(r, N, B, NULL, "left")
  BY <1>3, <1>4, <1>6, BendEven
<1>10. /\ r.child[side][parent] = t.child[side][parent]
       /\ r.child[Other(side)][parent] = t.child[side][node]
       /\ r.child[side][node] = parent
       /\ r.child[Other(side)][node] = t.child[Other(side)][node]
       /\ IsParent(r, N, top, node)
       /\ \A n \in N, s \in Side : n # parent /\ n # node =>
            \/ t.child[s][n] # parent /\ t.child[s][n] # node /\ r.child[s][n] = t.child[s][n]
            \/ n = top /\ s = SideOf(t, top, parent) /\ t.child[s][n] = parent /\ r.child[s][n] = node
  BY <1>3, <1>4, <1>6, TurnedLinks
<1>11. /\ top # parent /\ top # node /\ parent # node /\ node \in D[parent] /\ top \notin D[parent]
       /\ D[node] \subseteq D[parent] /\ parent \notin D[node]
       /\ \A s \in Side : t.child[s][node] # node /\ t.child[s][parent] # top
  <2>1. top # parent /\ top \notin D[parent] /\ \A s \in Side : t.child[s][parent] # top
    BY <1>3, ChildIs
  <2>2. parent # node /\ node \in D[parent] /\ D[node] \subseteq D[parent] /\ parent \notin D[node]
        /\ \A s \in Side : t.child[s][node] # node
    BY <1>2, <1>3, ChildIs
  <2> QED
    BY <2>1, <2>2
<1>12. r.child[side][top] = node /\ r.child[Other(side)][top] = t.child[Other(side)][top]
  BY <1>2, <1>5, <1>10, <1>11
<1>13. r.root = t.root
  BY <1>3, <1>6 DEF Turned
<1>14. RedApart(r, N, parent)
  <2>1. ASSUME NEW n \in N, NEW s \in Side, n \in t.red, r.child[s][n] \in t.red
        PROVE  r.child[s][n] = parent
    <3>1. CASE n = parent
      <4>1. t.child[side][parent] # node
        BY <1>2, <1>3, ChildIs
      <4>2. t.child[side][parent] \notin t.red
        BY <4>1 DEF RedApart
      <4>3. t.child[side][node] \notin t.red
        BY <1>11 DEF RedApart
      <4> QED
        BY <2>1, <3>1, <4>2, <4>3, <1>10, Sides
    <3>2. CASE n = node
      <4>1. t.child[Other(side)][node] \notin t.red
        BY <1>2, <1>11 DEF RedApart
      <4> QED
        BY <2>1, <3>2, <4>1, <1>10, Sides
    <3>3. CASE n # parent /\ n # node
      <4>1. t.child[s][n] # node /\ r.child[s][n] = t.child[s][n]
        BY <2>1, <3>3, <1>10
      <4> QED
        BY <2>1, <4>1 DEF RedApart
    <3> QED
      BY <3>1, <3>2, <3>3
  <2> QED
    BY <1>6, <2>1 DEF RedApart
<1>15. IsParent(r, N, above, top)
  <2>1. CASE above = NULL
    BY <2>1, <1>13 DEF IsParent
  <2>2. CASE above # NULL
    <3>1. PICK s \in Side : above \in N /\ t.child[s][above] = top
      BY <2>2 DEF IsParent
    <3>2. above # parent
      BY <3>1, <1>11
    <3>3. above # node
      <4>1. D[top] \subseteq D[above] /\ top \in D[top]
        BY <3>1, <1>3, ChildIs, SortedParts
      <4> QED
        BY <4>1, <1>11
    <3>4. r.child[s][above] = top
      BY <3>1, <3>2, <3>3, <1>10, <1>11
    <3> QED
      BY <2>2, <3>1, <3>4 DEF IsParent
  <2> QED
    BY <2>1, <2>2
<1>16. InLine(r, N, E, R, B, side, above, top, node, parent)
  BY <1>6, <1>7, <1>8, <1>9, <1>10, <1>12, <1>13, <1>14, <1>15 DEF InLine
<1> QED
  BY <1>16 DEF r

LEMMA BlackUncle ==
  ASSUME NEW t, NEW N, NEW D, NEW R, NEW B, NEW path, InsertState(t, N, D, R, B, path),
         path # <<>>, Up(path, 1) # NULL, Up(path, 1) \in t.red,
         t.child[Other(SideOf(t, Up(path, 2), Up(path, 1)))][Up(path, 2)] \notin t.red
  PROVE  LET node   == Up(path, 0)
             parent == Up(path, 1)
             grandparent == Up(path, 2)
             side  == SideOf(t, grandparent, parent)
             inner == t.child[Other(side)][parent] = node
             top   == IF inner THEN node ELSE parent
             bent  == IF inner THEN Rotate(t, side, grandparent, parent) ELSE t
             x == MakeRed(MakeBlack(Rotate(bent, Other(side), Up(path, 3), grandparent), {top}),
                          {grandparent})
         IN x \in Trees /\ \E E, A : InsertState(x, N, E, R, A, <<>>)
<1> DEFINE node   == Up(path, 0)
           parent == Up(path, 1)
           grandparent == Up(path, 2)
           above == Up(path, 3)
           side  == SideOf(t, grandparent, parent)
           inner == t.child[Other(side)][parent] = node
           top   == IF inner THEN node ELSE parent
           low   == IF inner THEN parent ELSE node
           bent  == IF inner THEN Rotate(t, side, grandparent, parent) ELSE t
<1>0. /\ Sorted(t, N, D, R) /\ Even(t, N, B, NULL, "left") /\ RedApart(t, N, node)
      /\ Bare(t, N) /\ t.root \notin t.red
      /\ node \in N /\ node \in t.red /\ parent \in N /\ parent \in t.red
      /\ grandparent \in N /\ grandparent \notin t.red
      /\ IsParent(t, N, parent, node) /\ IsParent(t, N, grandparent, parent)
      /\ IsParent(t, N, above, grandparent) /\ above \in Node
  BY InsertPath
<1>1. N \subseteq Key /\ NULL \notin N
  BY <1>0, SortedParts
<1> HIDE DEF node, parent, grandparent, above
<1>2. side \in Side /\ t.child[side][grandparent] = parent
  BY <1>0, <1>1, LinkIs DEF Node
<1>3. t.child[Other(side)][grandparent] \notin t.red
  BY DEF grandparent, parent
<1> HIDE DEF side
<1>4. \E E : InLine(bent, N, E, R, B, side, above, grandparent, top, low)
  <2>1. CASE inner
    BY <2>1, <1>0, <1>2, <1>3, Bent
  <2>2. CASE ~inner
    <3>1. t.child[side][parent] = node
      <4>1. \E s \in Side : t.child[s][parent] = node
        BY <1>0, <1>1 DEF IsParent
      <4> QED
        BY <1>2, <2>2, <4>1, Sides
    <3>2. InLine(t, N, D, R, B, side, above, grandparent, parent, node)
      BY <3>1, <1>0, <1>2, <1>3 DEF InLine
    <3> QED
      BY <2>2, <3>2
  <2> QED
    BY <2>1, <2>2
<1> HIDE DEF inner, top, low, bent
<1>5. PICK E : InLine(bent, N, E, R, B, side, above, grandparent, top, low)
  BY <1>4
<1> DEFINE x == MakeRed(MakeBlack(Rotate(bent, Other(side), above, grandparent), {top}), {grandparent})
<1>6. x \in Trees /\ \E F, A : InsertState(x, N, F, R, A, <<>>)
  BY <1>2, <1>5, Lifted
<1> QED
  BY <1>6 DEF node, parent, grandparent, above, side, inner, top, bent

(* A round of the loop, when the loop has not ended.                       *)
LEMMA InsertRound ==
  ASSUME NEW t, NEW N, NEW D, NEW R, NEW B, NEW path, InsertState(t, N, D, R, B, path), path # <<>>
  PROVE  LET c == FixInsertRound(t, path)
         IN /\ c \in Climbs
            /\ \E E, A : InsertState(c.tree, N, E, R, A, c.path)
            /\ c.path = <<>> \/ (Len(c.path) \in Nat /\ Len(c.path) < Len(path))
<1> DEFINE c == FixInsertRound(t, path)
           uncle == t.child[Other(SideOf(t, Up(path, 2), Up(path, 1)))][Up(path, 2)]
<1>0. t \in Trees /\ Len(path) \in Nat
  BY SortedParts DEF InsertState, IsPath
<1>1. ASSUME NEW x \in Trees, c = Break(x), \E E, A : InsertState(x, N, E, R, A, <<>>)
      PROVE  /\ c \in Climbs /\ c.path = <<>>
             /\ \E E, A : InsertState(c.tree, N, E, R, A, c.path)
  <2>1. c = [tree |-> x, path |-> <<>>]
    BY <1>1 DEF Break, Climb
  <2>2. <<>> \in Seq(Node)
    OBVIOUS
  <2> HIDE DEF c
  <2>3. c \in Climbs /\ c.tree = x /\ c.path = <<>>
    BY <2>1, <2>2 DEF Climbs
  <2> QED
    BY <1>1, <2>3
<1>2. CASE Up(path, 1) = NULL
  <2>1. c = Break(SetRoot(MakeBlack(t, {Up(path, 0)}), Up(path, 0)))
    BY <1>2 DEF FixInsertRound
  <2> HIDE DEF c
  <2>2. /\ SetRoot(MakeBlack(t, {Up(path, 0)}), Up(path, 0)) \in Trees
        /\ \E A : InsertState(SetRoot(MakeBlack(t, {Up(path, 0)}), Up(path, 0)), N, D, R, A, <<>>)
    BY <1>2, BlackRoot
  <2> QED
    BY <1>1, <2>1, <2>2 DEF c
<1>3. CASE Up(path, 1) # NULL /\ Up(path, 1) \notin t.red
  <2>1. c = Break(t)
    BY <1>3 DEF FixInsertRound
  <2> HIDE DEF c
  <2>2. InsertState(t, N, D, R, B, <<>>)
    BY <1>3, BlackParent
  <2> QED
    BY <1>0, <1>1, <2>1, <2>2 DEF c
<1>4. CASE Up(path, 1) # NULL /\ Up(path, 1) \in t.red /\ uncle \in t.red
  <2> DEFINE x == MakeRed(MakeBlack(t, {Up(path, 1), uncle}), {Up(path, 2)})
             q == SubSeq(path, 1, Len(path) - 2)
  <2>1. c = Climb(x, q)
    BY <1>4 DEF FixInsertRound
  <2>2. /\ x \in Trees /\ q \in Seq(Node) /\ q # <<>> /\ Len(q) = Len(path) - 2
        /\ \E A : InsertState(x, N, D, R, A, q)
    BY <1>4, RedUncle
  <2> HIDE DEF c, x, q
  <2>3. c = [tree |-> x, path |-> q]
    BY <2>1 DEF Climb
  <2>4. c \in Climbs /\ c.tree = x /\ c.path = q
    BY <2>2, <2>3 DEF Climbs
  <2>5. Len(q) \in Nat /\ Len(q) < Len(path)
    BY <1>0, <2>2
  <2> QED
    BY <2>2, <2>4, <2>5 DEF c
<1>5. CASE Up(path, 1) # NULL /\ Up(path, 1) \in t.red /\ uncle \notin t.red
  <2> DEFINE node   == Up(path, 0)
             parent == Up(path, 1)
             grandparent == Up(path, 2)
             side  == SideOf(t, grandparent, parent)
             inner == t.child[Other(side)][parent] = node
             top   == IF inner THEN node ELSE parent
             bent  == IF inner THEN Rotate(t, side, grandparent, parent) ELSE t
             x == MakeRed(MakeBlack(Rotate(bent, Other(side), Up(path, 3), grandparent), {top}),
                          {grandparent})
  <2>1. c = Break(x)
    BY <1>5 DEF FixInsertRound
  <2>2. x \in Trees /\ \E E, A : InsertState(x, N, E, R, A, <<>>)
    BY <1>5, BlackUncle
  <2> HIDE DEF x, c
  <2> QED
    BY <1>1, <2>1, <2>2 DEF c
<1> HIDE DEF c
<1> QED
  BY <1>2, <1>3, <1>4, <1>5 DEF c

(* The repair after an insertion: whatever the red node it starts from, it *)
(* ends with a search tree of the same nodes that is even, and has no red  *)
(* node below a red one nor at the root.                                   *)
LEMMA InsertFixed ==
  ASSUME NEW t, NEW N, NEW D, NEW R, NEW B, NEW path, InsertState(t, N, D, R, B, path), path # <<>>
  PROVE  \E E, A : InsertState(value_dict_fix_after_insert(t, path), N, E, R, A, <<>>)
<1> DEFINE G == [c \in Climbs |-> FixInsertRound(c.tree, c.path)]
           Good(n) == {c \in Climbs : /\ \E E, A : InsertState(c.tree, N, E, R, A, c.path)
                                      /\ c.path = <<>> \/ Len(c.path) + n <= Len(path)}
           I == [n \in Nat |-> Good(n)]
           a == Climb(t, path)
<1>0. t \in Trees /\ Len(path) \in Nat /\ path \in Seq(Node)
  BY SortedParts DEF InsertState, IsPath
<1>1. a \in I[0]
  <2>1. a = [tree |-> t, path |-> path]
    BY DEF Climb
  <2> HIDE DEF a
  <2>2. a \in Climbs /\ a.tree = t /\ a.path = path
    BY <1>0, <2>1 DEF Climbs
  <2>3. Len(path) + 0 <= Len(path)
    BY <1>0
  <2> QED
    BY <2>2, <2>3
<1>2. ASSUME NEW n \in Nat, NEW c \in I[n]
      PROVE  G[c] \in I[n + 1]
  <2>0. I[n + 1] = Good(n + 1)
    <3>1. n + 1 \in Nat
      OBVIOUS
    <3>2. \A k \in Nat : I[k] = Good(k)
      OBVIOUS
    <3> HIDE DEF I, Good
    <3> QED
      BY <3>1, <3>2
  <2>1. c \in Climbs /\ (c.path = <<>> \/ Len(c.path) + n <= Len(path))
    BY <1>2
  <2>2. PICK E, A : InsertState(c.tree, N, E, R, A, c.path)
    BY <1>2
  <2>3. G[c] = FixInsertRound(c.tree, c.path)
    BY <2>1
  <2>6. ASSUME NEW d \in Climbs, \E F, H : InsertState(d.tree, N, F, R, H, d.path),
               d.path = <<>> \/ Len(d.path) + (n + 1) <= Len(path)
        PROVE  d \in I[n + 1]
    BY <2>0, <2>6
  <2> HIDE DEF G, I
  <2>4. CASE c.path = <<>>
    <3>1. G[c] = [tree |-> c.tree, path |-> <<>>]
      BY <2>3, <2>4 DEF FixInsertRound, Break, Climb
    <3>2. c.tree \in Trees /\ <<>> \in Seq(Node)
      BY <2>1 DEF Climbs
    <3>3. G[c] \in Climbs /\ G[c].tree = c.tree /\ G[c].path = <<>>
      BY <3>1, <3>2 DEF Climbs
    <3>4. \E F, H : InsertState(G[c].tree, N, F, R, H, G[c].path)
      BY <2>2, <2>4, <3>3
    <3> QED
      BY <2>6, <3>3, <3>4
  <2>5. CASE c.path # <<>>
    <3> DEFINE d == FixInsertRound(c.tree, c.path)
    <3>1. /\ d \in Climbs
          /\ \E F, H : InsertState(d.tree, N, F, R, H, d.path)
          /\ d.path = <<>> \/ (Len(d.path) \in Nat /\ Len(d.path) < Len(c.path))
      BY <2>2, <2>5, InsertRound
    <3>2. Len(c.path) \in Nat /\ Len(c.path) + n <= Len(path)
      BY <2>1, <2>5 DEF Climbs
    <3> HIDE DEF d
    <3>3. d.path = <<>> \/ Len(d.path) + (n + 1) <= Len(path)
      <4>1. \A x, y, z \in Nat : x < y /\ y + n <= z => x + (n + 1) <= z
        OBVIOUS
      <4>2. CASE d.path # <<>>
        <5>1. Len(d.path) \in Nat /\ Len(d.path) < Len(c.path)
          BY <3>1, <4>2
        <5> QED
          BY <1>0, <3>2, <4>1, <5>1
      <4> QED
        BY <4>2
    <3> QED
      BY <2>3, <2>6, <3>1, <3>3 DEF d
  <2> QED
    BY <2>4, <2>5
<1> DEFINE e == Repeat(G, a, Len(path))
<1>3. e \in I[Len(path)]
  <2> HIDE DEF G, I, a
  <2> QED
    BY <1>0, <1>1, <1>2, RepeatKeeps
<1>4. e.tree = value_dict_fix_after_insert(t, path)
  BY DEF value_dict_fix_after_insert
<1> HIDE DEF e
<1>5. /\ \E E, A : InsertState(e.tree, N, E, R, A, e.path)
      /\ e.path = <<>> \/ Len(e.path) + Len(path) <= Len(path)
      /\ e \in Climbs
  BY <1>0, <1>3
<1>6. e.path = <<>>
  <2>1. Len(e.path) \in Nat /\ e.path \in Seq(Node)
    BY <1>5 DEF Climbs
  <2> QED
    BY <1>0, <1>5, <2>1
<1> QED
  BY <1>4, <1>5, <1>6

-----------------------------------------------------------------------------
(* The repair after a removal *)

LEMMA BalancedParts ==
  ASSUME NEW t, NEW N, NEW D, NEW R, NEW B
  PROVE  Balanced(t, N, D, R, B) <=>
           /\ Sorted(t, N, D, R) /\ Bare(t, N) /\ Even(t, N, B, NULL, "left")
           /\ RedApart(t, N, NULL) /\ t.root \notin t.red
BY DEF Balanced, InsertState

LEMMA ShortParts ==
  ASSUME NEW t, NEW N, NEW D, NEW R, NEW B, NEW side \in Side, NEW above, NEW parent, NEW node,
         Short(t, N, D, R, B, side, above, parent, node),
         NEW sibling, sibling = t.child[Other(side)][parent]
  PROVE  ShortFacts(t, N, B, side, parent, node, sibling)
<1>0. /\ Sorted(t, N, D, R) /\ Even(t, N, B, parent, side) /\ node \notin t.red
      /\ parent \in N /\ t.child[side][parent] = node
  BY DEF Short
<1>1. N \subseteq Key /\ NULL \notin N /\ t.red \subseteq N /\ t \in Trees
  BY <1>0, SortedParts
<1>2. Other(side) \in Side /\ Other(side) # side
  BY Sides
<1>3. \A n \in N : B[n] \in Nat /\ Ink(t, n) \in {0, 1}
  BY <1>0, <1>2 DEF Even, Ink
<1>4. \A n \in N, s \in Side : t.child[s][n] \in N \cup {NULL} /\ Height(B, t.child[s][n]) \in Nat
  BY <1>0, <1>3, SortedParts DEF Height
<1>5. \A n \in N, s \in Side : n # parent => B[n] = Height(B, t.child[s][n]) + Ink(t, n)
  <2>1. ASSUME NEW n \in N, NEW s \in Side, n # parent
        PROVE  B[n] = Height(B, t.child[s][n]) + Ink(t, n)
    <3>1. Missing(n, s, parent, side) = 0
      BY <2>1 DEF Missing
    <3>2. B[n] = Height(B, t.child[s][n]) + Ink(t, n) + 0
      BY <1>0, <3>1 DEF Even
    <3>3. Ink(t, n) \in {0, 1} /\ Height(B, t.child[s][n]) \in Nat
      BY <1>3, <1>4
    <3> QED
      BY <3>2, <3>3
  <2> QED
    BY <2>1
<1>6. Missing(parent, side, parent, side) = 1 /\ Missing(parent, Other(side), parent, side) = 0
  BY <1>2 DEF Missing
<1>7. B[parent] = Height(B, node) + Ink(t, parent) + 1
  BY <1>0, <1>6 DEF Even
<1>8. B[parent] = Height(B, sibling) + Ink(t, parent) + 0
  BY <1>0, <1>2, <1>6 DEF Even
<1>9. Height(B, node) \in Nat /\ Height(B, sibling) \in Nat /\ Ink(t, parent) \in {0, 1}
  BY <1>0, <1>2, <1>3, <1>4
<1>10. Height(B, sibling) = Height(B, node) + 1
  BY <1>7, <1>8, <1>9
<1>11. sibling # NULL
  BY <1>9, <1>10 DEF Height
<1>12. sibling \in N /\ B[sibling] = Height(B, sibling)
  BY <1>0, <1>2, <1>4, <1>11 DEF Height
<1>13. sibling # parent /\ node # sibling /\ node # parent
  <2>1. sibling # parent /\ t.child[side][parent] # sibling
    BY <1>0, <1>2, <1>11, ChildIs, Sides
  <2>2. node # NULL => node # parent
    BY <1>0, ChildIs
  <2> QED
    BY <1>0, <1>1, <2>1, <2>2
<1>14. SideOf(t, parent, node) = side
  <2>1. t.child[Other(side)][parent] # node
    BY <1>13
  <2> QED
    BY <1>0, <2>1 DEF SideOf, Other, Side
<1>15. B[parent] = Height(B, node) + 1 + Ink(t, parent)
  BY <1>7, <1>9
<1> QED
  BY <1>0, <1>1, <1>3, <1>4, <1>5, <1>9, <1>10, <1>11, <1>12, <1>13, <1>14, <1>15 DEF ShortFacts

LEMMA ShortNodes ==
  ASSUME NEW t, NEW N, NEW D, NEW R, NEW B, NEW side \in Side, NEW above, NEW parent, NEW node,
         Short(t, N, D, R, B, side, above, parent, node),
         NEW sibling, sibling = t.child[Other(side)][parent]
  PROVE  /\ N \subseteq Key /\ NULL \notin N /\ t.red \subseteq N /\ t \in Trees
         /\ sibling \in N /\ sibling # NULL /\ sibling # parent /\ node # parent /\ node # sibling
         /\ node \in N \cup {NULL}
<1>1. ShortFacts(t, N, B, side, parent, node, sibling)
  BY ShortParts
<1> QED
  BY <1>1 DEF ShortFacts

LEMMA MakeRedAfterBlack ==
  ASSUME NEW t \in Trees, NEW ns \in SUBSET Key, NEW ms, NEW x, x = MakeRed(MakeBlack(t, ms), ns)
  PROVE  x \in Trees /\ x.root = t.root /\ x.child = t.child /\ x.red = (t.red \ ms) \cup ns
<1> DEFINE a == MakeBlack(t, ms)
<1>1. a \in Trees /\ a.root = t.root /\ a.child = t.child /\ a.red = t.red \ ms
  BY MakeBlackIs
<1> HIDE DEF a
<1>2. /\ MakeRed(a, ns) \in Trees /\ MakeRed(a, ns).root = a.root /\ MakeRed(a, ns).child = a.child
      /\ MakeRed(a, ns).red = a.red \cup ns
  BY <1>1, MakeRedIs
<1> QED
  BY <1>1, <1>2 DEF a

LEMMA MakeBlackAfterRed ==
  ASSUME NEW t \in Trees, NEW ns \in SUBSET Key, NEW ms, NEW x, x = MakeBlack(MakeRed(t, ns), ms)
  PROVE  x \in Trees /\ x.root = t.root /\ x.child = t.child /\ x.red = (t.red \cup ns) \ ms
<1> DEFINE a == MakeRed(t, ns)
<1>1. a \in Trees /\ a.root = t.root /\ a.child = t.child /\ a.red = t.red \cup ns
  BY MakeRedIs
<1> HIDE DEF a
<1>2. /\ MakeBlack(a, ms) \in Trees /\ MakeBlack(a, ms).root = a.root
      /\ MakeBlack(a, ms).child = a.child /\ MakeBlack(a, ms).red = a.red \ ms
  BY <1>1, MakeBlackIs
<1> QED
  BY <1>1, <1>2 DEF a

(* A red sibling: after the rotation the same subtree is short, its parent *)
(* is red and its sibling black.                                           *)
LEMMA RedSibling ==
  ASSUME NEW t, NEW N, NEW D, NEW R, NEW B, NEW side \in Side, NEW above, NEW parent, NEW node,
         Short(t, N, D, R, B, side, above, parent, node),
         NEW sibling, sibling = t.child[Other(side)][parent], sibling \in t.red
  PROVE  Redder(MakeRed(MakeBlack(Rotate(t, side, above, parent), {sibling}), {parent}),
                N, R, side, sibling, parent, node)
<1> DEFINE r == Rotate(t, side, above, parent)
           x == MakeRed(MakeBlack(r, {sibling}), {parent})
           E == RotatedSets(D, R, side, parent, sibling)
           A == SwappedHeights(B, N, parent, sibling)
<1>0. /\ Sorted(t, N, D, R) /\ Bare(t, N) /\ Even(t, N, B, parent, side) /\ RedApart(t, N, NULL)
      /\ t.root \notin t.red /\ node \notin t.red
      /\ parent \in N /\ t.child[side][parent] = node
      /\ above \in Node /\ IsParent(t, N, above, parent)
  BY DEF Short
<1>1. /\ N \subseteq Key /\ NULL \notin N /\ t.red \subseteq N /\ t \in Trees
      /\ sibling \in N /\ sibling # NULL /\ sibling # parent /\ node # parent /\ node # sibling
  BY ShortNodes
<1>2. Other(side) \in Side /\ Other(side) # side
  BY Sides
<1>3. parent \notin t.red
  BY <1>0, <1>1, <1>2 DEF RedApart
<1>4. r \in Trees /\ r.red = t.red /\ Turned(t, r, side, above, parent, sibling)
  BY <1>0, <1>1, RotateTurns
<1>5. Sorted(r, N, E, R)
  BY <1>0, <1>1, RotateSorts
<1>6. Bare(r, N)
  BY <1>0, <1>1, <1>4, TurnedBare
<1> HIDE DEF r, E
<1>7. x \in Trees /\ x.root = r.root /\ x.child = r.child /\ x.red = (t.red \ {sibling}) \cup {parent}
  <2> DEFINE ns == {parent}
             ms == {sibling}
  <2>1. ns \in SUBSET Key
    BY <1>0, <1>1
  <2> HIDE DEF ns, ms, x
  <2>2. x = MakeRed(MakeBlack(r, ms), ns)
    BY DEF x, ns, ms
  <2>3. x \in Trees /\ x.root = r.root /\ x.child = r.child /\ x.red = (r.red \ ms) \cup ns
    BY <1>4, <2>1, <2>2, MakeRedAfterBlack
  <2> QED
    BY <1>4, <2>3 DEF ns, ms
<1> HIDE DEF x
<1>8. Turned(t, x, side, above, parent, sibling)
  BY <1>4, <1>7 DEF Turned
<1>9. Sorted(x, N, E, R) /\ Bare(x, N)
  <2>1. x.red \subseteq N
    BY <1>0, <1>1, <1>7
  <2> QED
    BY <1>5, <1>6, <1>7, <2>1, SameLinks DEF Bare
<1>10. Even(x, N, A, parent, side)
  BY <1>0, <1>1, <1>3, <1>7, <1>8, SwapEven
<1>11. /\ x.child[side][parent] = node
       /\ x.child[Other(side)][parent] = t.child[side][sibling]
       /\ x.child[side][sibling] = parent
       /\ x.child[Other(side)][sibling] = t.child[Other(side)][sibling]
       /\ IsParent(x, N, sibling, parent)
       /\ \A n \in N, s \in Side : n # parent /\ n # sibling =>
              \/ t.child[s][n] # parent /\ t.child[s][n] # sibling /\ x.child[s][n] = t.child[s][n]
              \/ n = above /\ s = SideOf(t, above, parent) /\ t.child[s][n] = parent /\ x.child[s][n] = sibling
  BY <1>0, <1>1, <1>8, TurnedLinks
<1>12. \A n \in N, s \in Side : n \in t.red => t.child[s][n] \notin t.red
  BY <1>0, <1>1 DEF RedApart
<1>13. t.child[side][sibling] # parent
  BY <1>0, <1>1, <1>2, ChildIs
<1>14. x.child[Other(side)][parent] \notin x.red /\ node \notin x.red
  BY <1>0, <1>1, <1>7, <1>11, <1>12, <1>13
<1>15. RedApart(x, N, NULL)
  <2>1. ASSUME NEW n \in N, NEW s \in Side, n \in x.red, x.child[s][n] \in x.red
        PROVE  FALSE
    <3>1. n # sibling
      BY <1>1, <1>7, <2>1
    <3>2. CASE n = parent
      BY <3>2, <2>1, <1>11, <1>14, Sides
    <3>3. CASE n # parent
      BY <3>1, <3>3, <2>1, <1>1, <1>7, <1>11, <1>12
    <3> QED
      BY <3>2, <3>3
  <2> QED
    BY <2>1 DEF RedApart
<1>16. x.root \notin x.red
  <2>1. t.root = parent <=> above = NULL
    BY <1>0, LinkIs
  <2>2. x.root = IF above = NULL THEN sibling ELSE t.root
    BY <1>8 DEF Turned
  <2> QED
    BY <1>0, <1>1, <1>7, <2>1, <2>2
<1>17. sibling \in Node
  BY <1>1 DEF Node
<1>18. Short(x, N, E, R, A, side, sibling, parent, node)
  BY <1>0, <1>9, <1>10, <1>11, <1>14, <1>15, <1>16, <1>17 DEF Short
<1>19. parent \in x.red
  BY <1>7
<1> QED
  <2>1. Redder(x, N, R, side, sibling, parent, node)
    BY <1>7, <1>14, <1>18, <1>19 DEF Redder
  <2> QED
    BY <2>1 DEF x, r

LEMMA FarEven ==
  ASSUME NEW t, NEW N, NEW D, NEW R, NEW B, NEW side \in Side, NEW above, NEW parent, NEW node,
         Short(t, N, D, R, B, side, above, parent, node),
         NEW top, top = t.child[Other(side)][parent], top \notin t.red,
         NEW far, far = t.child[Other(side)][top], far \in t.red,
         NEW x, Turned(t, x, side, above, parent, top),
         Repainted(t, x, parent, top, far)
  PROVE  \E A : Even(x, N, A, NULL, "left")
<1> DEFINE A == [n \in N |-> IF n = top THEN B[parent] ELSE IF n = parent THEN B[top]
                             ELSE IF n = far THEN B[far] + 1 ELSE B[n]]
           mid == t.child[side][top]
<1>0. /\ Sorted(t, N, D, R)
      /\ parent \in N /\ t.child[side][parent] = node
      /\ above \in Node /\ IsParent(t, N, above, parent)
  BY DEF Short
<1>1. ShortFacts(t, N, B, side, parent, node, top)
  BY ShortParts
<1>2. /\ N \subseteq Key /\ NULL \notin N /\ t.red \subseteq N /\ t \in Trees
      /\ top \in N /\ top # NULL /\ top # parent /\ node # parent /\ node # top
      /\ node \in N \cup {NULL} /\ Height(B, node) \in Nat
      /\ B[top] = Height(B, node) + 1
      /\ B[parent] = Height(B, node) + 1 + Ink(t, parent)
  BY <1>1 DEF ShortFacts
<1>3. /\ \A n \in N : B[n] \in Nat /\ Ink(t, n) \in {0, 1}
      /\ \A n \in N, s \in Side : t.child[s][n] \in N \cup {NULL} /\ Height(B, t.child[s][n]) \in Nat
      /\ \A n \in N, s \in Side : n # parent => B[n] = Height(B, t.child[s][n]) + Ink(t, n)
  BY <1>1 DEF ShortFacts
<1>4. Other(side) \in Side /\ Other(side) # side
  BY Sides
<1>5. /\ far \in N /\ far # top /\ far # parent /\ far # node
      /\ mid # parent /\ mid # top /\ mid # far
      /\ \A s \in Side : t.child[s][far] # far /\ t.child[s][far] # top
      /\ \A n \in N, s \in Side : t.child[s][n] = far => n = top
  <2>1. far \in N /\ far # NULL
    BY <1>2
  <2>2. far # top /\ mid # far /\ (\A s \in Side : t.child[s][far] # far /\ t.child[s][far] # top)
    BY <1>0, <1>2, <1>4, <2>1, ChildIs, Sides
  <2>3. far # parent /\ mid # parent
    BY <1>0, <1>2, <1>4, ChildIs
  <2>4. \A n \in N, s \in Side : t.child[s][n] = far => n = top
    BY <1>0, <1>2, <1>4, <2>1, OneParent
  <2>5. far # node
    BY <1>0, <1>2, <2>4
  <2>6. mid # top
    BY <1>0, <1>2, ChildIs
  <2> QED
    BY <2>1, <2>2, <2>3, <2>4, <2>5, <2>6
<1>6. /\ x.child[side][parent] = node
      /\ x.child[Other(side)][parent] = mid
      /\ x.child[side][top] = parent
      /\ x.child[Other(side)][top] = far
      /\ \A n \in N, s \in Side : n # parent /\ n # top =>
           \/ t.child[s][n] # parent /\ t.child[s][n] # top /\ x.child[s][n] = t.child[s][n]
           \/ n = above /\ s = SideOf(t, above, parent) /\ t.child[s][n] = parent /\ x.child[s][n] = top
  BY <1>0, <1>2, TurnedLinks
<1>7. \A n \in N : Ink(x, n) = IF n = top THEN Ink(t, parent) ELSE IF n \in {parent, far} THEN 1 ELSE Ink(t, n)
  BY <1>2, <1>5 DEF Ink, Repainted
<1>8. /\ A[top] = B[parent] /\ A[parent] = B[top] /\ A[far] = B[far] + 1
      /\ \A n \in N : n # top /\ n # parent /\ n # far => A[n] = B[n]
  BY <1>0, <1>2, <1>5
<1>9. \A c \in N \cup {NULL} : c # top /\ c # parent /\ c # far => Height(A, c) = Height(B, c)
  BY <1>8 DEF Height
<1>10. mid \in N \cup {NULL} /\ Height(A, mid) = Height(B, node) /\ Height(A, node) = Height(B, node)
  <2>1. mid \in N \cup {NULL} /\ Height(B, mid) \in Nat /\ B[top] = Height(B, mid) + Ink(t, top)
    BY <1>2, <1>3
  <2>2. Ink(t, top) = 1
    BY DEF Ink
  <2>3. Height(B, mid) = Height(B, node)
    BY <1>2, <2>1, <2>2
  <2> QED
    BY <1>2, <1>5, <1>9, <2>1, <2>3
<1>11. B[far] + 1 = B[top] /\ B[far] \in Nat
  <2>1. B[top] = Height(B, far) + Ink(t, top)
    BY <1>2, <1>3, <1>4
  <2>2. Ink(t, top) = 1 /\ Height(B, far) = B[far]
    BY <1>2, <1>5 DEF Ink, Height
  <2> QED
    BY <1>3, <1>5, <2>1, <2>2
<1> HIDE DEF A, mid
<1>12. ASSUME NEW n \in N, NEW s \in Side
       PROVE  A[n] \in Nat /\ A[n] = Height(A, x.child[s][n]) + Ink(x, n) + 0
  <2>1. CASE n = parent
    <3>1. Height(A, x.child[s][n]) = Height(B, node)
      BY <1>4, <1>6, <1>10, <2>1, Sides
    <3>2. Ink(x, n) = 1
      BY <1>2, <1>7, <2>1
    <3> QED
      BY <1>2, <1>8, <2>1, <3>1, <3>2
  <2>2. CASE n = top
    <3>1. Height(A, x.child[s][n]) = B[top]
      <4>1. Height(A, parent) = B[top] /\ Height(A, far) = B[top]
        BY <1>0, <1>2, <1>5, <1>8, <1>11 DEF Height
      <4> QED
        BY <1>4, <1>6, <2>2, <4>1, Sides
    <3>2. Ink(x, n) = Ink(t, parent) /\ Ink(t, parent) \in {0, 1}
      BY <1>0, <1>2, <1>3, <1>7, <2>2
    <3> QED
      BY <1>2, <1>8, <2>2, <3>1, <3>2
  <2>3. CASE n # parent /\ n # top
    <3>1. B[n] = Height(B, t.child[s][n]) + Ink(t, n) /\ Ink(t, n) \in {0, 1} /\ B[n] \in Nat
      BY <1>3, <2>3
    <3>2. Height(B, t.child[s][n]) \in Nat
      BY <1>3
    <3>3. Height(A, x.child[s][n]) = Height(B, t.child[s][n])
      <4>1. CASE t.child[s][n] = parent /\ x.child[s][n] = top
        BY <1>0, <1>2, <1>8, <4>1 DEF Height
      <4>2. CASE t.child[s][n] # parent /\ t.child[s][n] # top /\ x.child[s][n] = t.child[s][n]
        <5>1. t.child[s][n] # far
          BY <1>5, <2>3
        <5> QED
          BY <1>3, <1>9, <4>2, <5>1
      <4> QED
        BY <1>6, <2>3, <4>1, <4>2
    <3>4. CASE n = far
      <4>1. Ink(t, n) = 0 /\ Ink(x, n) = 1
        BY <1>5, <1>7, <3>4 DEF Ink
      <4> QED
        <5>1. A[far] = B[far] + 1 /\ B[far] = Height(B, t.child[s][n]) + 0
          BY <1>8, <3>1, <3>4, <4>1
        <5>2. Height(A, x.child[s][n]) + Ink(x, n) + 0 = Height(B, t.child[s][n]) + 1
          BY <3>2, <3>3, <4>1
        <5> QED
          BY <3>2, <3>4, <5>1, <5>2
    <3>5. CASE n # far
      <4>1. Ink(x, n) = Ink(t, n) /\ A[n] = B[n]
        BY <1>7, <1>8, <2>3, <3>5
      <4> QED
        BY <3>1, <3>2, <3>3, <4>1
    <3> QED
      BY <3>4, <3>5
  <2> QED
    BY <2>1, <2>2, <2>3
<1>13. Even(x, N, A, NULL, "left")
  BY <1>2, <1>12, NoMissing DEF Even
<1> QED
  BY <1>13

LEMMA FarRed ==
  ASSUME NEW t, NEW N, NEW D, NEW R, NEW B, NEW side \in Side, NEW above, NEW parent, NEW node,
         Short(t, N, D, R, B, side, above, parent, node),
         NEW top, top = t.child[Other(side)][parent], top \notin t.red,
         t.child[Other(side)][top] \in t.red
  PROVE  LET tinted == IF parent \in t.red THEN MakeRed(t, {top}) ELSE MakeBlack(t, {top})
             x == Rotate(MakeBlack(tinted, {parent, tinted.child[Other(side)][top]}), side, above, parent)
         IN x \in Trees /\ \E E, A : Balanced(x, N, E, R, A)
<1> DEFINE far == t.child[Other(side)][top]
           tinted == IF parent \in t.red THEN MakeRed(t, {top}) ELSE MakeBlack(t, {top})
           y == MakeBlack(tinted, {parent, tinted.child[Other(side)][top]})
           x == Rotate(y, side, above, parent)
           tint == IF parent \in t.red THEN {top} ELSE {}
           E == RotatedSets(D, R, side, parent, top)
<1>0. /\ Sorted(t, N, D, R) /\ Bare(t, N) /\ RedApart(t, N, NULL)
      /\ t.root \notin t.red /\ node \notin t.red
      /\ parent \in N /\ t.child[side][parent] = node
      /\ above \in Node /\ IsParent(t, N, above, parent)
  BY DEF Short
<1>1. /\ N \subseteq Key /\ NULL \notin N /\ t.red \subseteq N /\ t \in Trees
      /\ top \in N /\ top # NULL /\ top # parent /\ node # parent /\ node # top
      /\ node \in N \cup {NULL}
  BY ShortNodes
<1>2. Other(side) \in Side /\ Other(side) # side
  BY Sides
<1>3. far \in N /\ far # top /\ far # parent /\ far # node /\ far \in t.red
  <2>1. far \in N /\ far # NULL /\ far \in t.red
    BY <1>1
  <2>2. far # top
    BY <1>0, <1>1, <1>2, <2>1, ChildIs
  <2>3. far # parent
    BY <1>0, <1>1, <1>2, ChildIs
  <2>4. far # node
    BY <1>0, <1>1, <1>2, <2>1, OneParent
  <2> QED
    BY <2>1, <2>2, <2>3, <2>4
<1>4. tinted \in Trees /\ tinted.root = t.root /\ tinted.child = t.child /\ tinted.red = t.red \cup tint
  <2> DEFINE ns == {top}
  <2>1. ns \in SUBSET Key
    BY <1>1
  <2> HIDE DEF ns
  <2>2. CASE parent \in t.red
    <3>1. /\ MakeRed(t, ns) \in Trees /\ MakeRed(t, ns).root = t.root /\ MakeRed(t, ns).child = t.child
          /\ MakeRed(t, ns).red = t.red \cup ns
      BY <1>1, <2>1, MakeRedIs
    <3>2. tinted = MakeRed(t, ns) /\ tint = ns
      BY <2>2 DEF ns
    <3> HIDE DEF tinted, tint
    <3> QED
      BY <3>1, <3>2
  <2>3. CASE parent \notin t.red
    <3>1. /\ MakeBlack(t, ns) \in Trees /\ MakeBlack(t, ns).root = t.root
          /\ MakeBlack(t, ns).child = t.child /\ MakeBlack(t, ns).red = t.red \ ns
      BY <1>1, MakeBlackIs
    <3>2. tinted = MakeBlack(t, ns) /\ tint = {} /\ t.red \ ns = t.red
      BY <2>3 DEF ns
    <3> HIDE DEF tinted, tint
    <3> QED
      BY <3>1, <3>2
  <2> QED
    BY <2>2, <2>3
<1>5. tint \subseteq N /\ (top \in tint <=> parent \in t.red) /\ \A n \in tint : n = top
  BY <1>1
<1> HIDE DEF tinted, tint
<1>6. /\ y \in Trees /\ y.root = t.root /\ y.child = t.child
      /\ y.red = (t.red \ {parent, far}) \cup tint
  <2> DEFINE ms == {parent, tinted.child[Other(side)][top]}
  <2>1. ms = {parent, far}
    BY <1>4
  <2> HIDE DEF ms
  <2>2. /\ MakeBlack(tinted, ms) \in Trees /\ MakeBlack(tinted, ms).root = tinted.root
        /\ MakeBlack(tinted, ms).child = tinted.child
        /\ MakeBlack(tinted, ms).red = tinted.red \ ms
    BY <1>4, MakeBlackIs
  <2>3. y = MakeBlack(tinted, ms)
    BY DEF ms
  <2> HIDE DEF y
  <2>4. (t.red \cup tint) \ ms = (t.red \ {parent, far}) \cup tint
    BY <1>1, <1>3, <1>5, <2>1
  <2> QED
    BY <1>4, <2>2, <2>3, <2>4
<1> HIDE DEF y
<1>7. Sorted(y, N, D, R) /\ IsParent(y, N, above, parent) /\ SideOf(y, above, parent) = SideOf(t, above, parent)
  <2>1. y.red \subseteq N
    BY <1>1, <1>5, <1>6
  <2> QED
    BY <1>0, <1>6, <2>1, SameLinks
<1>8. top = y.child[Other(side)][parent]
  BY <1>6
<1>9. x \in Trees /\ x.red = y.red /\ Turned(y, x, side, above, parent, top)
  BY <1>0, <1>1, <1>7, <1>8, RotateTurns
<1>10. Sorted(x, N, E, R)
  BY <1>0, <1>1, <1>7, <1>8, RotateSorts
<1> HIDE DEF x, E
<1>11. Turned(t, x, side, above, parent, top)
  BY <1>6, <1>7, <1>9 DEF Turned
<1>12. Bare(x, N)
  BY <1>0, <1>1, <1>11, TurnedBare
<1>13. x.red = (t.red \ {parent, far}) \cup tint
  BY <1>6, <1>9
<1>14. \E A : Even(x, N, A, NULL, "left")
  <2> HIDE DEF far
  <2>1. far = t.child[Other(side)][top] /\ far \in t.red
    BY <1>3 DEF far
  <2>2. Repainted(t, x, parent, top, far)
    BY <1>13 DEF Repainted, tint
  <2> QED
    BY <1>11, <2>1, <2>2, FarEven
<1>15. /\ x.child[side][parent] = node
       /\ x.child[side][top] = parent
       /\ x.child[Other(side)][top] = far
       /\ \A n \in N, s \in Side : n # parent /\ n # top =>
            \/ t.child[s][n] # parent /\ t.child[s][n] # top /\ x.child[s][n] = t.child[s][n]
            \/ n = above /\ s = SideOf(t, above, parent) /\ t.child[s][n] = parent /\ x.child[s][n] = top
  BY <1>0, <1>1, <1>11, TurnedLinks
<1> HIDE DEF far
<1>16. \A n \in N, s \in Side : n \in t.red => t.child[s][n] \notin t.red
  BY <1>0, <1>1 DEF RedApart
<1>17. RedApart(x, N, NULL)
  <2>1. ASSUME NEW n \in N, NEW s \in Side, n \in x.red, x.child[s][n] \in x.red
        PROVE  FALSE
    <3>1. n # parent
      BY <1>1, <1>5, <1>13, <2>1
    <3>2. CASE n = top
      <4>1. x.child[s][n] \in {parent, far}
        BY <1>15, <3>2, Sides
      <4> QED
        BY <1>1, <1>3, <1>5, <1>13, <2>1, <4>1
    <3>3. CASE n # top
      <4>1. n \in t.red
        BY <1>5, <1>13, <2>1, <3>3
      <4>2. CASE t.child[s][n] = parent /\ x.child[s][n] = top
        <5>1. parent \in t.red
          BY <1>5, <1>13, <2>1, <4>2
        <5> QED
          BY <1>16, <4>1, <4>2, <5>1
      <4>3. CASE t.child[s][n] # top /\ x.child[s][n] = t.child[s][n]
        <5>1. t.child[s][n] \in t.red
          BY <1>5, <1>13, <2>1, <4>3
        <5> QED
          BY <1>16, <4>1, <5>1
      <4> QED
        BY <1>15, <3>1, <3>3, <4>2, <4>3
    <3> QED
      BY <3>2, <3>3
  <2> QED
    BY <2>1 DEF RedApart
<1>18. x.root \notin x.red
  <2>1. t.root = parent <=> above = NULL
    BY <1>0, LinkIs
  <2>2. x.root = IF above = NULL THEN top ELSE t.root
    BY <1>11 DEF Turned
  <2>3. CASE above = NULL
    BY <1>0, <1>1, <1>5, <1>13, <2>1, <2>2, <2>3
  <2>4. CASE above # NULL
    <3>1. t.root # top
      BY <1>0, <1>1, <1>2, ChildIs
    <3> QED
      BY <1>0, <1>5, <1>13, <2>2, <2>4, <3>1
  <2> QED
    BY <2>3, <2>4
<1>19. PICK A : Even(x, N, A, NULL, "left")
  BY <1>14
<1>20. Balanced(x, N, E, R, A)
  BY <1>10, <1>12, <1>17, <1>18, <1>19, BalancedParts
<1> QED
  BY <1>9, <1>20 DEF x, y, tinted

LEMMA TurnedFacts ==
  ASSUME NEW t, NEW N, NEW D, NEW R, Sorted(t, N, D, R), NEW node \in N, NEW side \in Side,
         NEW parent \in Node, IsParent(t, N, parent, node),
         NEW tmp, tmp = t.child[Other(side)][node], tmp # NULL,
         NEW r, Turned(t, r, side, parent, node, tmp)
  PROVE  TurnFacts(t, r, N, side, parent, node, tmp)
BY TurnedLinks DEF TurnFacts

(* A black sibling whose red child is on the near side: a rotation brings  *)
(* a red node to the far side.                                             *)
LEMMA NearRed ==
  ASSUME NEW t, NEW N, NEW D, NEW R, NEW B, NEW side \in Side, NEW above, NEW parent, NEW node,
         Short(t, N, D, R, B, side, above, parent, node),
         NEW sibling, sibling = t.child[Other(side)][parent], sibling \notin t.red,
         NEW near, near = t.child[side][sibling], near \in t.red,
         t.child[Other(side)][sibling] \notin t.red
  PROVE  Leaning(t, Rotate(MakeBlack(MakeRed(t, {sibling}), {near}), Other(side), parent, sibling),
                 N, R, side, above, parent, node)
<1> DEFINE o == Other(side)
           y == MakeBlack(MakeRed(t, {sibling}), {near})
           z == Rotate(y, o, parent, sibling)
           E == RotatedSets(D, R, o, sibling, near)
           A == SwappedHeights(B, N, sibling, near)
<1>0. /\ Sorted(t, N, D, R) /\ Bare(t, N) /\ Even(t, N, B, parent, side) /\ RedApart(t, N, NULL)
      /\ t.root \notin t.red /\ node \notin t.red
      /\ parent \in N /\ t.child[side][parent] = node
      /\ above \in Node /\ IsParent(t, N, above, parent)
  BY DEF Short
<1>1. /\ N \subseteq Key /\ NULL \notin N /\ t.red \subseteq N /\ t \in Trees
      /\ sibling \in N /\ sibling # NULL /\ sibling # parent /\ node # parent /\ node # sibling
      /\ node \in N \cup {NULL}
  BY ShortNodes
<1>2. o \in Side /\ o # side /\ Other(o) = side
  BY Sides
<1>3. /\ near \in N /\ near # NULL /\ near # sibling /\ near # parent /\ near # node
      /\ \A s \in Side : t.child[s][near] # near /\ t.child[s][near] # sibling /\ t.child[s][near] # parent
      /\ \A s \in Side : t.child[s][sibling] # parent /\ t.child[s][sibling] # sibling
  <2>1. near \in N /\ near # NULL
    BY <1>1
  <2>2. near # sibling /\ D[near] \subseteq D[sibling]
        /\ \A s \in Side : t.child[s][near] # near /\ t.child[s][near] # sibling
    BY <1>0, <1>1, <2>1, ChildIs
  <2>3. parent \notin D[sibling] /\ \A s \in Side : t.child[s][sibling] # parent /\ t.child[s][sibling] # sibling
    BY <1>0, <1>1, <1>2, ChildIs
  <2>4. near # node
    BY <1>0, <1>1, <2>1, OneParent
  <2>5. \A s \in Side : t.child[s][near] # parent
    <3>1. ASSUME NEW s \in Side, t.child[s][near] = parent PROVE FALSE
      <4>1. parent # NULL
        BY <1>0, <1>1
      <4>2. parent \in D[near]
        BY <1>0, <2>1, <3>1, <4>1, ChildIs
      <4> QED
        BY <2>2, <2>3, <4>2
    <3> QED
      BY <3>1
  <2>6. near # parent
    BY <2>3
  <2> QED
    BY <2>1, <2>2, <2>3, <2>4, <2>5, <2>6
<1>4. /\ y \in Trees /\ y.root = t.root /\ y.child = t.child
      /\ y.red = (t.red \ {near}) \cup {sibling}
  <2> DEFINE ns == {sibling}
             ms == {near}
  <2>1. ns \in SUBSET Key
    BY <1>1
  <2>2. (t.red \cup ns) \ ms = (t.red \ {near}) \cup {sibling}
    BY <1>3
  <2> HIDE DEF ns, ms, y
  <2>3. y = MakeBlack(MakeRed(t, ns), ms)
    BY DEF y, ns, ms
  <2>4. y \in Trees /\ y.root = t.root /\ y.child = t.child /\ y.red = (t.red \cup ns) \ ms
    BY <1>1, <2>1, <2>3, MakeBlackAfterRed
  <2> QED
    BY <2>2, <2>4
<1> HIDE DEF y
<1>5. IsParent(t, N, parent, sibling)
  BY <1>0, <1>1, <1>2 DEF IsParent
<1>6. parent \in Node
  BY <1>0, <1>1 DEF Node
<1>7. /\ Sorted(y, N, D, R) /\ IsParent(y, N, parent, sibling)
      /\ SideOf(y, parent, sibling) = SideOf(t, parent, sibling)
  <2>1. y.red \subseteq N
    BY <1>1, <1>4
  <2> QED
    BY <1>0, <1>4, <1>5, <2>1, SameLinks
<1>8. near = y.child[Other(o)][sibling]
  BY <1>2, <1>4
<1> HIDE DEF o
<1>26. near # NULL /\ sibling \in N /\ o \in Side /\ parent \in Node /\ near = t.child[Other(o)][sibling]
  BY <1>1, <1>2, <1>3, <1>6
<1>9. z \in Trees /\ z.red = y.red /\ Turned(y, z, o, parent, sibling, near)
  <2>1. z = Rotate(y, o, parent, sibling) /\ Sorted(y, N, D, R) /\ IsParent(y, N, parent, sibling)
    BY <1>7
  <2>2. near = y.child[Other(o)][sibling] /\ near # NULL /\ sibling \in N /\ o \in Side /\ parent \in Node
    BY <1>8, <1>26
  <2> HIDE DEF z, E, A
  <2>3. /\ Rotate(y, o, parent, sibling) \in Trees
        /\ Rotate(y, o, parent, sibling).red = y.red
        /\ Turned(y, Rotate(y, o, parent, sibling), o, parent, sibling, near)
    BY <2>1, <2>2, RotateTurns
  <2> QED
    BY <2>1, <2>3
<1>10. Sorted(z, N, E, R)
  BY <1>7, <1>8, <1>26, RotateSorts
<1> HIDE DEF z, E
<1>11. Turned(t, z, o, parent, sibling, near)
  <2>1. Turned(y, z, o, parent, sibling, near)
    BY <1>9
  <2>2. y.root = t.root /\ y.child = t.child /\ SideOf(y, parent, sibling) = SideOf(t, parent, sibling)
    BY <1>4, <1>7
  <2>3. z.root = IF parent = NULL THEN near ELSE t.root
    BY <2>1, <2>2 DEF Turned
  <2>4. \A s \in Side, m \in Key :
          z.child[s][m] = IF m = sibling /\ s = Other(o) THEN t.child[o][near]
                          ELSE IF m = near /\ s = o THEN sibling
                          ELSE IF m = parent /\ s = SideOf(t, parent, sibling) THEN near
                          ELSE t.child[s][m]
    BY <2>1, <2>2 DEF Turned
  <2> QED
    BY <2>3, <2>4 DEF Turned
<1>13. Bare(z, N)
  BY <1>0, <1>5, <1>11, <1>26, TurnedBare
<1>14. z.red = (t.red \ {near}) \cup {sibling}
  BY <1>4, <1>9
<1>15. Even(z, N, A, parent, side)
  <2>1. parent # near /\ (parent = sibling => side = o)
    BY <1>1, <1>3
  <2> QED
    BY <1>0, <1>3, <1>5, <1>11, <1>14, <1>26, <2>1, SwapEven
<1> HIDE DEF A
<1>12. TurnFacts(t, z, N, o, parent, sibling, near)
  BY <1>0, <1>5, <1>11, <1>26, TurnedFacts
<1>16. /\ z.child[o][sibling] = t.child[o][sibling]
       /\ z.child[side][sibling] = t.child[o][near]
       /\ z.child[o][near] = sibling
       /\ \A n \in N, s \in Side : n # sibling /\ n # near =>
            \/ t.child[s][n] # sibling /\ t.child[s][n] # near /\ z.child[s][n] = t.child[s][n]
            \/ n = parent /\ s = SideOf(t, parent, sibling) /\ t.child[s][n] = sibling /\ z.child[s][n] = near
  BY <1>2, <1>12 DEF TurnFacts
<1>17. t.child[o][parent] = sibling
  BY DEF o
<1>18. z.child[o][parent] = near /\ z.child[side][parent] = node
  BY <1>0, <1>1, <1>2, <1>3, <1>16, <1>17
<1>19. \A n \in N, s \in Side : n \in t.red => t.child[s][n] \notin t.red
  BY <1>0, <1>1 DEF RedApart
<1>20. RedApart(z, N, NULL)
  <2>1. ASSUME NEW n \in N, NEW s \in Side, n \in z.red, z.child[s][n] \in z.red
        PROVE  FALSE
    <3>1. n # near
      BY <1>3, <1>14, <2>1
    <3>2. CASE n = sibling
      <4>1. t.child[o][sibling] \notin t.red
        BY DEF o
      <4>2. t.child[o][near] \notin t.red
        BY <1>2, <1>3, <1>19
      <4>3. z.child[s][n] \notin t.red
        BY <1>2, <1>16, <3>2, <4>1, <4>2, Sides
      <4>4. z.child[s][n] # sibling
        <5>1. t.child[o][sibling] # sibling /\ t.child[o][near] # sibling
          BY <1>2, <1>3
        <5> QED
          <6>1. s = o \/ s = side
            BY <1>2, Sides
          <6> QED
            BY <1>16, <3>2, <5>1, <6>1
      <4> QED
        BY <1>14, <2>1, <4>3, <4>4
    <3>3. CASE n # sibling
      <4>1. n \in t.red
        BY <1>14, <2>1, <3>3
      <4>2. z.child[s][n] # near
        BY <1>3, <1>14, <2>1
      <4>3. t.child[s][n] # sibling /\ z.child[s][n] = t.child[s][n]
        BY <1>16, <3>1, <3>3, <4>2
      <4> QED
        BY <1>14, <1>19, <2>1, <4>1, <4>3
    <3> QED
      BY <3>2, <3>3
  <2> QED
    BY <2>1 DEF RedApart
<1>21. z.root = t.root
  BY <1>0, <1>1, <1>11 DEF Turned
<1>22. t.root # sibling
  BY <1>0, <1>1, <1>2, <1>17, ChildIs
<1>23. z.root \notin z.red /\ node \notin z.red /\ near \notin z.red /\ sibling \in z.red
       /\ (parent \in z.red <=> parent \in t.red)
  BY <1>0, <1>1, <1>3, <1>14, <1>21, <1>22
<1>24. IsParent(z, N, above, parent)
  <2>1. CASE above = NULL
    BY <1>0, <1>21, <2>1 DEF IsParent
  <2>2. CASE above # NULL
    <3>1. PICK s \in Side : above \in N /\ t.child[s][above] = parent
      BY <1>0, <2>2 DEF IsParent
    <3>2. above # sibling /\ above # near
      BY <1>3, <3>1
    <3>3. z.child[s][above] = parent
      BY <1>1, <1>16, <3>1, <3>2
    <3> QED
      BY <2>2, <3>1, <3>3 DEF IsParent
  <2> QED
    BY <2>1, <2>2
<1>25. Short(z, N, E, R, A, side, above, parent, node)
  BY <1>0, <1>10, <1>13, <1>15, <1>18, <1>20, <1>23, <1>24 DEF Short
<1> QED
  <2>1. Leaning(t, z, N, R, side, above, parent, node)
    BY <1>9, <1>16, <1>18, <1>23, <1>25 DEF Leaning, o
  <2> QED
    BY <2>1 DEF z, y, o

LEMMA RedNephew ==
  ASSUME NEW t, NEW N, NEW D, NEW R, NEW B, NEW side \in Side, NEW above, NEW parent, NEW node,
         Short(t, N, D, R, B, side, above, parent, node),
         NEW sibling, sibling = t.child[Other(side)][parent], sibling \notin t.red,
         NEW near, near = t.child[side][sibling],
         NEW far, far = t.child[Other(side)][sibling],
         near \in t.red \/ far \in t.red,
         NEW x, x = EvenedOut(t, side, above, parent, sibling, near, far)
  PROVE  x \in Trees /\ \E E, A : Balanced(x, N, E, R, A)
<1> DEFINE bent == Rotate(MakeBlack(MakeRed(t, {sibling}), {near}), Other(side), parent, sibling)
           Ready(z) == Leaning(t, z, N, R, side, above, parent, node)
           straight == IF far \in t.red THEN t ELSE bent
           Tint(z) == IF parent \in z.red THEN MakeRed(z, {z.child[Other(side)][parent]})
                                          ELSE MakeBlack(z, {z.child[Other(side)][parent]})
           Last2(z) == Rotate(MakeBlack(Tint(z), {parent, Tint(z).child[Other(side)][z.child[Other(side)][parent]]}),
                              side, above, parent)
<1>1. ASSUME NEW z, Ready(z)
      PROVE  Last2(z) \in Trees /\ \E E, A : Balanced(Last2(z), N, E, R, A)
  <2>1. PICK E, A : Short(z, N, E, R, A, side, above, parent, node)
    BY <1>1 DEF Leaning
  <2>2. z.child[Other(side)][parent] \notin z.red
        /\ z.child[Other(side)][z.child[Other(side)][parent]] \in z.red
    BY <1>1 DEF Leaning
  <2> HIDE DEF Ready
  <2> QED
    BY <2>1, <2>2, FarRed
<1>2. Ready(straight)
  <2>1. CASE far \in t.red
    <3>1. t \in Trees
      BY ShortNodes
    <3> QED
      BY <2>1, <3>1 DEF Leaning
  <2>2. CASE far \notin t.red
    <3>1. near \in t.red
      BY <2>2
    <3>2. Ready(bent)
      BY <2>2, <3>1, NearRed
    <3> QED
      BY <2>2, <3>2
  <2> QED
    BY <2>1, <2>2
<1>3. parent \in straight.red <=> parent \in t.red
  BY <1>2 DEF Leaning
<1>4. Last2(straight) \in Trees /\ \E E, A : Balanced(Last2(straight), N, E, R, A)
  <2> HIDE DEF Ready, Last2, straight
  <2> QED
    BY <1>1, <1>2
<1> HIDE DEF Ready
<1>5. x = Last2(straight)
  BY <1>3 DEF EvenedOut
<1> HIDE DEF Last2, straight
<1> QED
  BY <1>4, <1>5

(* A black sibling with black children turns red, which makes the tree     *)
(* below parent even.                                                      *)
LEMMA BlackNephews ==
  ASSUME NEW t, NEW N, NEW D, NEW R, NEW B, NEW side \in Side, NEW above, NEW parent, NEW node,
         Short(t, N, D, R, B, side, above, parent, node),
         NEW sibling, sibling = t.child[Other(side)][parent], sibling \notin t.red,
         t.child[side][sibling] \notin t.red, t.child[Other(side)][sibling] \notin t.red,
         NEW x \in Trees, x.root = t.root, x.child = t.child,
         \A n \in Key : n \in x.red <=> (n \in t.red \/ n = sibling) /\ n # parent
  PROVE  Recolored(t, x, N, D, R, above, parent)
<1> DEFINE h == Height(B, node)
           A == [n \in N |-> IF n = sibling THEN h ELSE IF n = parent THEN h + 1 ELSE B[n]]
<1>0. /\ Sorted(t, N, D, R) /\ Bare(t, N) /\ RedApart(t, N, NULL)
      /\ t.root \notin t.red /\ node \notin t.red
      /\ parent \in N /\ t.child[side][parent] = node
      /\ above \in Node /\ IsParent(t, N, above, parent)
  BY DEF Short
<1>1. ShortFacts(t, N, B, side, parent, node, sibling)
  BY ShortParts
<1>2. /\ N \subseteq Key /\ NULL \notin N /\ t.red \subseteq N /\ t \in Trees
      /\ sibling \in N /\ sibling # NULL /\ sibling # parent /\ node # parent /\ node # sibling
      /\ node \in N \cup {NULL} /\ Height(B, node) \in Nat
      /\ B[sibling] = Height(B, node) + 1
      /\ B[parent] = Height(B, node) + 1 + Ink(t, parent)
  BY <1>1 DEF ShortFacts
<1>3. /\ \A n \in N : B[n] \in Nat /\ Ink(t, n) \in {0, 1}
      /\ \A n \in N, s \in Side : t.child[s][n] \in N \cup {NULL} /\ Height(B, t.child[s][n]) \in Nat
      /\ \A n \in N, s \in Side : n # parent => B[n] = Height(B, t.child[s][n]) + Ink(t, n)
  BY <1>1 DEF ShortFacts
<1>4. Other(side) \in Side /\ Other(side) # side
  BY Sides
<1>5. /\ \A n \in N, s \in Side : t.child[s][n] = sibling => n = parent
      /\ \A s \in Side : t.child[s][sibling] # sibling /\ t.child[s][sibling] # parent
      /\ t.root # sibling
  <2>1. \A n \in N, s \in Side : t.child[s][n] = sibling => n = parent
    BY <1>0, <1>2, <1>4, OneParent
  <2>2. (\A s \in Side : t.child[s][sibling] # sibling /\ t.child[s][sibling] # parent) /\ t.root # sibling
    BY <1>0, <1>2, <1>4, ChildIs
  <2> QED
    BY <2>1, <2>2
<1>6. x.red \subseteq N /\ x.red \subseteq Key
  BY <1>2 DEF Trees
<1>7. Sorted(x, N, D, R) /\ Bare(x, N)
  BY <1>0, <1>6, SameLinks DEF Bare
<1>8. x.root \notin x.red /\ parent \notin x.red
  BY <1>0, <1>5, <1>6
<1>9. RedApart(x, N, NULL)
  <2>1. ASSUME NEW n \in N, NEW s \in Side, n \in x.red, t.child[s][n] \in x.red
        PROVE  FALSE
    <3>1. CASE n = sibling
      <4>1. t.child[s][n] \notin t.red
        BY <3>1, Sides
      <4> QED
        BY <1>5, <1>6, <2>1, <3>1, <4>1
    <3>2. CASE n # sibling
      <4>1. n \in t.red /\ n # parent
        BY <1>6, <2>1, <3>2
      <4>2. t.child[s][n] \in t.red
        BY <1>5, <1>6, <2>1, <4>1
      <4> QED
        BY <1>0, <1>2, <4>1, <4>2 DEF RedApart
    <3> QED
      BY <3>1, <3>2
  <2> QED
    BY <2>1 DEF RedApart
<1>10. /\ A[sibling] = h /\ A[parent] = h + 1 /\ h \in Nat
       /\ \A n \in N : n # sibling /\ n # parent => A[n] = B[n]
       /\ \A n \in N : A[n] \in Nat
       /\ Ink(t, parent) \in {0, 1}
  BY <1>0, <1>2, <1>3
<1>11. \A c \in N \cup {NULL} : c # sibling /\ c # parent => Height(A, c) = Height(B, c)
  BY <1>10 DEF Height
<1>12. /\ Ink(x, sibling) = 0 /\ Ink(x, parent) = 1 /\ Ink(t, sibling) = 1
       /\ \A n \in N : n # sibling /\ n # parent => Ink(x, n) = Ink(t, n)
  BY <1>0, <1>2 DEF Ink
<1> HIDE DEF A, h
<1>13. ASSUME NEW n \in N, NEW s \in Side
       PROVE  A[n] = Height(A, x.child[s][n]) + Ink(x, n)
                       + (IF t.child[s][n] = parent THEN Ink(t, parent) ELSE 0)
  <2>0. Height(B, t.child[s][n]) \in Nat /\ t.child[s][n] \in N \cup {NULL}
        /\ B[n] \in Nat /\ Ink(t, n) \in {0, 1}
    BY <1>3
  <2>1. CASE n = parent
    <3>1. t.child[s][n] \in {node, sibling}
      BY <1>0, <2>1, Sides
    <3>2. Height(A, x.child[s][n]) = h
      <4>1. Height(A, node) = h
        BY <1>2, <1>11 DEF h
      <4>2. Height(A, sibling) = h
        BY <1>2, <1>10 DEF Height
      <4> QED
        BY <3>1, <4>1, <4>2
    <3>3. t.child[s][n] # parent
      BY <1>2, <3>1
    <3> QED
      BY <1>10, <1>12, <2>1, <3>2, <3>3
  <2>2. CASE n = sibling
    <3>1. t.child[s][n] # sibling /\ t.child[s][n] # parent
      BY <1>5, <2>2
    <3>2. B[sibling] = Height(B, t.child[s][n]) + 1
      BY <1>2, <1>3, <1>12, <2>2
    <3>3. Height(A, x.child[s][n]) = Height(B, t.child[s][n])
      BY <1>11, <2>0, <3>1
    <3>4. B[sibling] = h + 1
      BY <1>2 DEF h
    <3> QED
      BY <1>10, <1>12, <2>0, <2>2, <3>1, <3>2, <3>3, <3>4
  <2>3. CASE n # parent /\ n # sibling
    <3>1. B[n] = Height(B, t.child[s][n]) + Ink(t, n) /\ Ink(x, n) = Ink(t, n) /\ A[n] = B[n]
      BY <1>3, <1>10, <1>12, <2>3
    <3>2. t.child[s][n] # sibling
      BY <1>5, <2>3
    <3>3. CASE t.child[s][n] = parent
      <4>1. Height(A, x.child[s][n]) = h + 1
        BY <1>0, <1>2, <1>10, <3>3 DEF Height
      <4>2. Height(B, t.child[s][n]) = h + 1 + Ink(t, parent)
        BY <1>0, <1>2, <3>3 DEF Height, h
      <4> QED
        BY <1>10, <2>0, <3>1, <3>3, <4>1, <4>2
    <3>4. CASE t.child[s][n] # parent
      <4>1. Height(A, x.child[s][n]) = Height(B, t.child[s][n])
        BY <1>11, <2>0, <3>2, <3>4
      <4> QED
        BY <2>0, <3>1, <3>4, <4>1
    <3> QED
      BY <3>3, <3>4
  <2> QED
    BY <2>1, <2>2, <2>3
<1>14. ASSUME parent \in t.red
       PROVE  Even(x, N, A, NULL, "left")
  <2>1. Ink(t, parent) = 0
    BY <1>14 DEF Ink
  <2>2. ASSUME NEW n \in N, NEW s \in Side
        PROVE  A[n] = Height(A, x.child[s][n]) + Ink(x, n) + Missing(n, s, NULL, "left")
    <3>1. Missing(n, s, NULL, "left") = 0
      BY <1>2, NoMissing
    <3> QED
      BY <1>13, <2>1, <3>1
  <2> QED
    BY <1>10, <2>2 DEF Even
<1>15. PICK q \in Side : \A n \in N, s \in Side : t.child[s][n] = parent <=> n = above /\ s = q
  <2>1. \A n \in N, s \in Side : t.child[s][n] = parent <=> n = above /\ s = SideOf(t, above, parent)
    BY <1>0, LinkIs
  <2>2. CASE above = NULL
    BY <1>2, <2>1, <2>2, Sides
  <2>3. CASE above # NULL
    <3>1. SideOf(t, above, parent) \in Side
      BY <1>0, <2>3, LinkIs
    <3> QED
      BY <2>1, <3>1
  <2> QED
    BY <2>2, <2>3
<1>16. above # NULL => x.child[q][above] = parent
  <2>1. above # NULL => above \in N
    BY <1>0 DEF IsParent
  <2> QED
    BY <1>15, <2>1
<1>17. ASSUME parent \notin t.red
       PROVE  Even(x, N, A, above, q)
  <2>1. Ink(t, parent) = 1
    BY <1>17 DEF Ink
  <2>2. ASSUME NEW n \in N, NEW s \in Side
        PROVE  A[n] = Height(A, x.child[s][n]) + Ink(x, n) + Missing(n, s, above, q)
    <3>1. Missing(n, s, above, q) = IF t.child[s][n] = parent THEN 1 ELSE 0
      BY <1>15 DEF Missing
    <3> QED
      BY <1>13, <2>1, <3>1
  <2> QED
    BY <1>10, <2>2 DEF Even
<1>18. parent \notin t.red => \E s \in Side : /\ above # NULL => x.child[s][above] = parent
                                              /\ \E H : Even(x, N, H, above, s)
  BY <1>16, <1>17
<1> QED
  BY <1>7, <1>8, <1>9, <1>14, <1>18 DEF Recolored

-----------------------------------------------------------------------------
(* The rounds of the repair after a removal *)

LEMMA RedEnd ==
  ASSUME NEW t, NEW N, NEW D, NEW R, NEW B, NEW path, RemoveState(t, N, D, R, B, path),
         path # <<>>, Up(path, 0) \in t.red
  PROVE  /\ MakeBlack(t, {Up(path, 0)}) \in Trees
         /\ \E A : Balanced(MakeBlack(t, {Up(path, 0)}), N, D, R, A)
<1> DEFINE node == Up(path, 0)
           parent == Up(path, 1)
           x == MakeBlack(t, {node})
           A == [n \in N |-> IF n = node THEN B[n] + 1 ELSE B[n]]
<1>0. /\ Sorted(t, N, D, R) /\ Bare(t, N) /\ RedApart(t, N, node)
      /\ t.root \in t.red => parent = NULL
      /\ parent = NULL => t.root = node
      /\ parent \in N \cup {NULL}
  BY DEF RemoveState
<1>1. PICK ds \in Side : /\ parent # NULL => t.child[ds][parent] = node
                         /\ Even(t, N, B, parent, ds)
  BY DEF RemoveState
<1> HIDE DEF node, parent
<1>2. N \subseteq Key /\ NULL \notin N /\ t.red \subseteq N /\ t \in Trees /\ node \in t.red
  BY <1>0, SortedParts DEF node
<1>3. node \in N /\ node # NULL
  BY <1>2
<1>4. /\ x \in Trees /\ x.root = t.root /\ x.child = t.child /\ x.red = t.red \ {node}
  <2> DEFINE ms == {node}
  <2> HIDE DEF ms
  <2>1. /\ MakeBlack(t, ms) \in Trees /\ MakeBlack(t, ms).root = t.root /\ MakeBlack(t, ms).child = t.child
        /\ MakeBlack(t, ms).red = t.red \ ms
    BY <1>2, MakeBlackIs
  <2> QED
    BY <2>1 DEF ms
<1> HIDE DEF x
<1>5. Sorted(x, N, D, R) /\ Bare(x, N)
  <2>1. x.red \subseteq N
    BY <1>2, <1>4
  <2> QED
    BY <1>0, <1>4, <2>1, SameLinks DEF Bare
<1>6. \A n \in N, s \in Side : t.child[s][n] = node => n = parent /\ s = ds
  <2>1. CASE parent = NULL
    <3>1. \A n \in N, s \in Side : t.child[s][n] # node
      BY <1>0, <1>3, <2>1, ChildIs
    <3> QED
      BY <3>1
  <2>2. CASE parent # NULL
    <3>1. parent \in N /\ t.child[ds][parent] = node
      BY <1>0, <1>1, <2>2
    <3> QED
      BY <1>0, <1>3, <3>1, OneParent
  <2> QED
    BY <2>1, <2>2
<1>7. \A n \in N : B[n] \in Nat /\ Ink(t, n) \in {0, 1}
  BY <1>1, Sides DEF Even, Ink
<1>8. \A n \in N, s \in Side : t.child[s][n] \in N \cup {NULL} /\ Height(B, t.child[s][n]) \in Nat
  BY <1>0, <1>7, SortedParts DEF Height
<1>9. \A n \in N : A[n] = IF n = node THEN B[n] + 1 ELSE B[n]
  OBVIOUS
<1> HIDE DEF A
<1>10. ASSUME NEW n \in N, NEW s \in Side
       PROVE  A[n] \in Nat /\ A[n] = Height(A, x.child[s][n]) + Ink(x, n) + Missing(n, s, NULL, "left")
  <2>1. Missing(n, s, NULL, "left") = 0
    BY <1>2, NoMissing
  <2>2. B[n] = Height(B, t.child[s][n]) + Ink(t, n) + Missing(n, s, parent, ds)
    BY <1>1 DEF Even
  <2>3. Ink(x, n) = IF n = node THEN 1 ELSE Ink(t, n)
    BY <1>4 DEF Ink
  <2>4. n = node => Ink(t, n) = 0
    BY <1>2 DEF Ink
  <2>5. Height(A, x.child[s][n]) = Height(B, t.child[s][n]) + Missing(n, s, parent, ds)
    <3>1. CASE t.child[s][n] = node
      <4>1. Missing(n, s, parent, ds) = 1
        BY <1>6, <3>1 DEF Missing
      <4>2. Height(A, node) = B[node] + 1 /\ Height(B, node) = B[node]
        BY <1>3, <1>9 DEF Height
      <4> QED
        BY <1>4, <3>1, <4>1, <4>2
    <3>2. CASE t.child[s][n] # node
      <4>1. Missing(n, s, parent, ds) = 0
        <5>1. ~ (n = parent /\ s = ds)
          BY <1>1, <1>2, <3>2
        <5> QED
          BY <5>1 DEF Missing
      <4>2. Height(A, t.child[s][n]) = Height(B, t.child[s][n])
        BY <1>8, <1>9, <3>2 DEF Height
      <4> QED
        BY <1>4, <1>8, <4>1, <4>2
    <3> QED
      BY <3>1, <3>2
  <2>6. B[n] \in Nat /\ Ink(t, n) \in {0, 1} /\ Height(B, t.child[s][n]) \in Nat
        /\ Missing(n, s, parent, ds) \in {0, 1}
    BY <1>7, <1>8 DEF Missing
  <2> QED
    BY <1>9, <2>1, <2>2, <2>3, <2>4, <2>5, <2>6
<1>11. Even(x, N, A, NULL, "left")
  BY <1>10 DEF Even
<1>12. RedApart(x, N, NULL)
  BY <1>0, <1>4 DEF RedApart
<1>13. x.root \notin x.red
  BY <1>0, <1>4
<1>14. Balanced(x, N, D, R, A)
  BY <1>5, <1>11, <1>12, <1>13, BalancedParts
<1> QED
  BY <1>4, <1>14 DEF x, node

LEMMA RootEnd ==
  ASSUME NEW t, NEW N, NEW D, NEW R, NEW B, NEW path, RemoveState(t, N, D, R, B, path),
         path # <<>>, Up(path, 0) \notin t.red, Up(path, 1) = NULL
  PROVE  Balanced(t, N, D, R, B)
<1>0. /\ Sorted(t, N, D, R) /\ Bare(t, N) /\ RedApart(t, N, Up(path, 0)) /\ t.root = Up(path, 0)
  BY DEF RemoveState
<1>1. N \subseteq Key /\ NULL \notin N
  BY <1>0, SortedParts
<1>2. PICK ds \in Side : Even(t, N, B, NULL, ds)
  BY DEF RemoveState
<1>3. Even(t, N, B, NULL, "left")
  BY <1>1, <1>2, NoMissing DEF Even
<1>4. RedApart(t, N, NULL)
  BY <1>0 DEF RedApart
<1> QED
  BY <1>0, <1>3, <1>4, BalancedParts

LEMMA ShortState ==
  ASSUME NEW t, NEW N, NEW D, NEW R, NEW B, NEW path, RemoveState(t, N, D, R, B, path),
         path # <<>>, Up(path, 0) \notin t.red, Up(path, 1) # NULL
  PROVE  /\ SideOf(t, Up(path, 1), Up(path, 0)) \in Side
         /\ Short(t, N, D, R, B, SideOf(t, Up(path, 1), Up(path, 0)), Up(path, 2), Up(path, 1), Up(path, 0))
<1>0. /\ Sorted(t, N, D, R) /\ Bare(t, N) /\ RedApart(t, N, Up(path, 0))
      /\ t.root \notin t.red /\ Up(path, 1) \in N
      /\ Up(path, 2) \in Node /\ IsParent(t, N, Up(path, 2), Up(path, 1))
  BY DEF RemoveState
<1>1. PICK s \in Side : t.child[s][Up(path, 1)] = Up(path, 0) /\ Even(t, N, B, Up(path, 1), s)
  BY DEF RemoveState
<1>2. RedApart(t, N, NULL)
  BY <1>0 DEF RedApart
<1>3. Short(t, N, D, R, B, s, Up(path, 2), Up(path, 1), Up(path, 0))
  BY <1>0, <1>1, <1>2 DEF Short
<1>4. ShortFacts(t, N, B, s, Up(path, 1), Up(path, 0), t.child[Other(s)][Up(path, 1)])
  BY <1>3, ShortParts
<1>5. SideOf(t, Up(path, 1), Up(path, 0)) = s
  BY <1>4 DEF ShortFacts
<1> QED
  BY <1>3, <1>5

LEMMA Prolonged ==
  ASSUME NEW path \in Seq(Node), Len(path) > 1, NEW a \in Node, NEW b \in Node, NEW c \in Node,
         NEW q, q = Prolong(path, a, b, c)
  PROVE  q \in Seq(Node) /\ q # <<>> /\ Up(q, 0) = c /\ Up(q, 1) = b /\ Up(q, 2) = a
<1> DEFINE p == SubSeq(path, 1, Len(path) - 2)
           z == <<a, b, c>>
<1>1. Len(path) \in Nat /\ Len(path) - 2 \in Nat
  <2>1. \A n \in Nat : n > 1 => n - 2 \in Nat
    OBVIOUS
  <2>2. Len(path) \in Nat
    OBVIOUS
  <2> QED
    BY <2>1, <2>2
<1>2. p \in Seq(Node) /\ Len(p) \in Nat
  BY <1>1
<1>3. z \in Seq(Node) /\ Len(z) = 3 /\ z[1] = a /\ z[2] = b /\ z[3] = c
  OBVIOUS
<1> HIDE DEF p, z
<1>4. q = p \o z
  BY DEF p, z, Prolong
<1>5. q \in Seq(Node) /\ Len(q) = Len(p) + 3
      /\ \A i \in 1 .. Len(p) + 3 : q[i] = IF i <= Len(p) THEN p[i] ELSE z[i - Len(p)]
  <2>1. /\ p \o z \in Seq(Node)
        /\ Len(p \o z) = Len(p) + Len(z)
        /\ \A i \in 1 .. Len(p) + Len(z) : (p \o z)[i] = IF i <= Len(p) THEN p[i] ELSE z[i - Len(p)]
    BY <1>2, <1>3, ConcatProperties
  <2> QED
    BY <1>3, <1>4, <2>1
<1> DEFINE m == Len(p)
<1>6. m \in Nat /\ Len(q) = m + 3
  BY <1>2, <1>5
<1>7. \A i \in 1 .. 3 : q[m + i] = z[i]
  <2>1. ASSUME NEW i \in 1 .. 3
        PROVE  q[m + i] = z[i]
    <3>1. m + i \in 1 .. m + 3 /\ ~ (m + i <= m) /\ (m + i) - m = i
      BY <1>6
    <3> QED
      BY <1>5, <3>1
  <2> QED
    BY <2>1
<1> HIDE DEF m
<1>8. m + 3 > 0 /\ m + 3 > 1 /\ m + 3 > 2 /\ (m + 3) - 0 = m + 3 /\ (m + 3) - 1 = m + 2 /\ (m + 3) - 2 = m + 1
  BY <1>6
<1>9. Up(q, 0) = q[m + 3] /\ Up(q, 1) = q[m + 2] /\ Up(q, 2) = q[m + 1]
  BY <1>6, <1>8 DEF Up
<1>10. q # <<>>
  <2>1. Len(<<>>) = 0 /\ m + 3 # 0
    BY <1>6
  <2> QED
    BY <1>6, <2>1
<1>11. q[m + 1] = a /\ q[m + 2] = b /\ q[m + 3] = c
  <2>1. 1 \in 1 .. 3 /\ 2 \in 1 .. 3 /\ 3 \in 1 .. 3
    OBVIOUS
  <2> QED
    BY <1>3, <1>7, <2>1
<1> QED
  BY <1>5, <1>9, <1>10, <1>11

LEMMA ShortIsState ==
  ASSUME NEW t, NEW N, NEW D, NEW R, NEW B, NEW side \in Side, NEW above, NEW parent, NEW node,
         Short(t, N, D, R, B, side, above, parent, node),
         parent \in t.red, t.child[Other(side)][parent] \notin t.red,
         NEW path, path # <<>>, Up(path, 0) = node, Up(path, 1) = parent, Up(path, 2) = above
  PROVE  RemoveState(t, N, D, R, B, path) /\ Settled(t, path)
<1>1. /\ Sorted(t, N, D, R) /\ Bare(t, N) /\ Even(t, N, B, parent, side) /\ RedApart(t, N, NULL)
      /\ t.root \notin t.red /\ node \notin t.red
      /\ parent \in N /\ t.child[side][parent] = node
      /\ above \in Node /\ IsParent(t, N, above, parent)
  BY DEF Short
<1>2. ShortFacts(t, N, B, side, parent, node, t.child[Other(side)][parent])
  BY ShortParts
<1>3. NULL \notin N /\ t.red \subseteq N /\ node \in N \cup {NULL} /\ SideOf(t, parent, node) = side
  BY <1>2 DEF ShortFacts
<1>4. RedApart(t, N, node)
  BY <1>1, <1>3 DEF RedApart
<1>5. \E s \in Side : (parent # NULL => t.child[s][parent] = node) /\ Even(t, N, B, parent, s)
  BY <1>1
<1>6. parent # NULL
  BY <1>1, <1>3
<1>7. RemoveState(t, N, D, R, B, path)
  BY <1>1, <1>3, <1>4, <1>5, <1>6 DEF RemoveState
<1>8. Settled(t, path)
  BY <1>1, <1>3 DEF Settled
<1> QED
  BY <1>7, <1>8

(* A path without its end.                                                 *)
LEMMA PathFront ==
  ASSUME NEW t, NEW N, N \subseteq Key, NEW path, IsPath(t, N, path), Up(path, 1) # NULL,
         NEW x, x.root = t.root, x.child = t.child
  PROVE  /\ IsPath(x, N, Front(path)) /\ Front(path) \in Seq(Node) /\ Front(path) # <<>>
         /\ Len(Front(path)) \in Nat /\ Len(Front(path)) < Len(path)
         /\ Up(Front(path), 0) = Up(path, 1) /\ Up(Front(path), 1) = Up(path, 2)
         /\ Up(Front(path), 1) = NULL => x.root = Up(path, 1)
         /\ Up(Front(path), 1) # NULL => /\ Up(Front(path), 1) \in N /\ Up(Front(path), 2) \in Node
                                         /\ IsParent(x, N, Up(Front(path), 2), Up(Front(path), 1))
<1> DEFINE q == SubSeq(path, 1, Len(path) - 1)
<1>1. Len(path) \in Nat \ {0} /\ Len(path) # 1
  BY UpIs
<1>2. Len(path) - 1 \in Nat /\ 0 < Len(path) - 1 /\ Len(path) - 1 <= Len(path) /\ Len(path) > 1
  <2>1. \A n \in Nat \ {0} : n # 1 => n - 1 \in Nat /\ 0 < n - 1 /\ n - 1 <= n /\ n > 1
    OBVIOUS
  <2> QED
    BY <1>1, <2>1
<1>3. /\ IsPath(x, N, q) /\ Len(q) = Len(path) - 1
      /\ \A i \in 1 .. Len(path) - 1 : q[i] = path[i]
  BY <1>2, PathKept
<1>4. q = Front(path)
  BY DEF Front
<1> HIDE DEF q
<1>5. Up(q, 0) = Up(path, 1)
  <2>1. Up(q, 0) = q[Len(path) - 1 - 0] /\ Up(path, 1) = path[Len(path) - 1]
    BY <1>2, <1>3 DEF Up
  <2>2. Len(path) - 1 - 0 = Len(path) - 1 /\ Len(path) - 1 \in 1 .. Len(path) - 1
    BY <1>2
  <2> QED
    BY <1>3, <2>1, <2>2
<1>6. Up(q, 1) = Up(path, 2)
  <2>1. CASE Len(path) = 2
    BY <1>3, <2>1 DEF Up
  <2>2. CASE Len(path) # 2
    <3>1. Len(path) > 2 /\ Len(path) - 1 > 1
      <4>1. \A n \in Nat \ {0} : n # 1 /\ n # 2 => n > 2 /\ n - 1 > 1
        OBVIOUS
      <4> QED
        BY <1>1, <2>2, <4>1
    <3>2. Up(q, 1) = q[Len(path) - 1 - 1] /\ Up(path, 2) = path[Len(path) - 2]
      BY <1>3, <3>1 DEF Up
    <3>3. Len(path) - 1 - 1 = Len(path) - 2 /\ Len(path) - 2 \in 1 .. Len(path) - 1
      BY <1>1, <3>1
    <3> QED
      BY <1>3, <3>2, <3>3
  <2> QED
    BY <2>1, <2>2
<1>7. /\ Len(q) \in Nat \ {0}
      /\ IsParent(x, N, Up(q, 1), Up(q, 0))
      /\ Up(q, 1) = NULL <=> Len(q) = 1
      /\ Up(q, 2) \in Node
      /\ Len(q) > 1 => /\ Up(q, 1) \in N
                       /\ IsParent(x, N, Up(q, 2), Up(q, 1))
  BY <1>3, UpIs
<1>8. Up(q, 1) = NULL => x.root = Up(path, 1)
  BY <1>5, <1>7 DEF IsParent
<1>9. Up(q, 1) # NULL => Up(q, 1) \in N /\ Up(q, 2) \in Node /\ IsParent(x, N, Up(q, 2), Up(q, 1))
  <2>1. \A n \in Nat \ {0} : n # 1 => n > 1
    OBVIOUS
  <2> QED
    BY <1>7, <2>1
<1>10. q \in Seq(Node) /\ q # <<>> /\ Len(q) \in Nat /\ Len(q) < Len(path)
  BY <1>2, <1>3 DEF IsPath
<1> QED
  BY <1>3, <1>4, <1>5, <1>6, <1>8, <1>9, <1>10

LEMMA RemoveBreak ==
  ASSUME NEW x, x \in Trees, NEW t, NEW N, NEW R, NEW path, \E E, A : Balanced(x, N, E, R, A)
  PROVE  RemoveStep(Break(x), t, N, R, path)
<1> DEFINE c == Break(x)
<1>1. PICK E, A : Balanced(x, N, E, R, A)
  OBVIOUS
<1>2. c = [tree |-> x, path |-> <<>>]
  BY DEF Break, Climb
<1>3. <<>> \in Seq(Node)
  OBVIOUS
<1> HIDE DEF c
<1>4. c \in Climbs /\ c.tree = x /\ c.path = <<>>
  BY <1>2, <1>3 DEF Climbs
<1>5. RemoveState(x, N, E, R, A, <<>>)
  BY <1>1, BalancedParts DEF RemoveState
<1>6. RemoveStep(c, t, N, R, path)
  BY <1>4, <1>5 DEF RemoveStep
<1> QED
  BY <1>6 DEF c

LEMMA RemoveRound ==
  ASSUME NEW t, NEW N, NEW D, NEW R, NEW B, NEW path, RemoveState(t, N, D, R, B, path), path # <<>>,
         path \in Seq(Node), IsPath(t, N, path) \/ Settled(t, path)
  PROVE  RemoveStep(FixRemoveRound(t, path), t, N, R, path)
<1> DEFINE c == FixRemoveRound(t, path)
           node    == Up(path, 0)
           parent  == Up(path, 1)
           grandparent == Up(path, 2)
           side    == SideOf(t, parent, node)
           sibling == t.child[Other(side)][parent]
           near    == t.child[side][sibling]
           far     == t.child[Other(side)][sibling]
<1>0. t \in Trees /\ N \subseteq Key /\ NULL \notin N
  BY SortedParts DEF RemoveState
<1>1. CASE node \in t.red
  <2>1. c = Break(MakeBlack(t, {node}))
    BY <1>1 DEF FixRemoveRound
  <2>2. MakeBlack(t, {node}) \in Trees /\ \E E, A : Balanced(MakeBlack(t, {node}), N, E, R, A)
    BY <1>1, RedEnd
  <2> HIDE DEF c
  <2> QED
    BY <2>1, <2>2, RemoveBreak DEF c
<1>2. CASE node \notin t.red /\ parent = NULL
  <2>1. c = Break(t)
    BY <1>2 DEF FixRemoveRound
  <2>2. Balanced(t, N, D, R, B)
    BY <1>2, RootEnd
  <2> HIDE DEF c
  <2> QED
    BY <1>0, <2>1, <2>2, RemoveBreak DEF c
<1>3. CASE node \notin t.red /\ parent # NULL
  <2>0. side \in Side /\ Short(t, N, D, R, B, side, grandparent, parent, node)
    BY <1>3, ShortState
  <2>1. /\ sibling \in N /\ sibling # NULL /\ sibling # parent /\ node # parent /\ node # sibling
        /\ node \in N \cup {NULL} /\ parent \in N
    BY <2>0, ShortNodes DEF Short
  <2>2. CASE sibling \in t.red
    <3> DEFINE x == MakeRed(MakeBlack(Rotate(t, side, grandparent, parent), {sibling}), {parent})
               q == SubSeq(path, 1, Len(path) - 2) \o <<sibling, parent, node>>
    <3>1. c = Climb(x, q)
      BY <1>3, <2>2 DEF FixRemoveRound
    <3> HIDE DEF c, node, parent, grandparent, side
    <3>11. Redder(x, N, R, side, sibling, parent, node)
      BY <2>0, <2>2, RedSibling
    <3>2. /\ x \in Trees
          /\ \E E, A : Short(x, N, E, R, A, side, sibling, parent, node)
          /\ parent \in x.red /\ x.child[Other(side)][parent] \notin x.red
      BY <3>11 DEF Redder
    <3> HIDE DEF x, sibling
    <3>3. PICK E, A : Short(x, N, E, R, A, side, sibling, parent, node)
      BY <3>2
    <3>4. Len(path) > 1
      <4>1. CASE IsPath(t, N, path)
        <5>1. Len(path) \in Nat \ {0} /\ (Up(path, 1) = NULL <=> Len(path) = 1)
          BY <1>0, <4>1, UpIs
        <5>2. Len(path) # 1
          BY <1>3, <5>1 DEF parent
        <5>3. \A n \in Nat \ {0} : n # 1 => n > 1
          OBVIOUS
        <5> QED
          BY <5>1, <5>2, <5>3
      <4>2. ~Settled(t, path)
        BY <2>2 DEF Settled, sibling, side, parent, node
      <4> QED
        BY <4>1, <4>2
    <3>5. q \in Seq(Node) /\ q # <<>> /\ Up(q, 0) = node /\ Up(q, 1) = parent /\ Up(q, 2) = sibling
      <4>1. sibling \in Node /\ parent \in Node /\ node \in Node
        BY <1>0, <2>1 DEF Node
      <4>2. q = Prolong(path, sibling, parent, node)
        BY DEF Prolong
      <4> HIDE DEF q
      <4> QED
        BY <3>4, <4>1, <4>2, Prolonged
    <3> HIDE DEF q
    <3>6. RemoveState(x, N, E, R, A, q) /\ Settled(x, q)
      BY <2>0, <3>2, <3>3, <3>5, ShortIsState
    <3>7. c = [tree |-> x, path |-> q]
      BY <3>1 DEF Climb
    <3>8. c \in Climbs /\ c.tree = x /\ c.path = q
      BY <3>2, <3>5, <3>7 DEF Climbs
    <3>9. ~Settled(t, path)
      BY <2>2 DEF Settled, sibling, side, parent, node
    <3>10. RemoveStep(c, t, N, R, path)
      BY <3>4, <3>6, <3>8, <3>9 DEF RemoveStep
    <3> QED
      BY <3>10 DEF c
  <2>3. CASE sibling \notin t.red /\ (near \in t.red \/ far \in t.red)
    <3> DEFINE straight == IF far \in t.red THEN t
                           ELSE Rotate(MakeBlack(MakeRed(t, {sibling}), {near}), Other(side), parent, sibling)
               top     == straight.child[Other(side)][parent]
               tinted  == IF parent \in t.red THEN MakeRed(straight, {top}) ELSE MakeBlack(straight, {top})
               x == Rotate(MakeBlack(tinted, {parent, tinted.child[Other(side)][top]}), side, grandparent, parent)
    <3>1. c = Break(x)
      BY <1>3, <2>3 DEF FixRemoveRound
    <3>3. x = EvenedOut(t, side, grandparent, parent, sibling, near, far)
      BY DEF EvenedOut
    <3>4. sibling = t.child[Other(side)][parent] /\ near = t.child[side][sibling] /\ far = t.child[Other(side)][sibling]
      OBVIOUS
    <3> HIDE DEF c, x, node, parent, grandparent, side, sibling, near, far
    <3>2. x \in Trees /\ \E E, A : Balanced(x, N, E, R, A)
      BY <2>0, <2>3, <3>3, <3>4, RedNephew
    <3> HIDE DEF x
    <3> QED
      BY <3>1, <3>2, RemoveBreak DEF c
  <2>4. CASE sibling \notin t.red /\ near \notin t.red /\ far \notin t.red /\ parent \in t.red
    <3> DEFINE ns == {sibling}
               ms == {parent}
               x == MakeBlack(MakeRed(t, ns), ms)
    <3>1. c = Break(x)
      BY <1>3, <2>4 DEF FixRemoveRound
    <3> HIDE DEF c, node, parent, grandparent, side
    <3>2. ns \in SUBSET Key
      BY <1>0, <2>1
    <3>3. \A n : (n \in ns <=> n = sibling) /\ (n \in ms <=> n = parent)
      OBVIOUS
    <3> HIDE DEF ns, ms
    <3>4. x \in Trees /\ x.root = t.root /\ x.child = t.child /\ x.red = (t.red \cup ns) \ ms
      BY <1>0, <3>2, MakeBlackAfterRed
    <3> HIDE DEF x
    <3>5. \A n \in Key : n \in x.red <=> (n \in t.red \/ n = sibling) /\ n # parent
      BY <3>3, <3>4
    <3>6. /\ Sorted(x, N, D, R) /\ Bare(x, N) /\ RedApart(x, N, NULL) /\ x.root \notin x.red
          /\ \E A : Even(x, N, A, NULL, "left")
      <4>1. Recolored(t, x, N, D, R, grandparent, parent)
        BY <2>0, <2>4, <3>4, <3>5, BlackNephews
      <4> QED
        BY <2>4, <4>1 DEF Recolored
    <3>7. \E A : Balanced(x, N, D, R, A)
      BY <3>6, BalancedParts
    <3> QED
      BY <3>1, <3>4, <3>7, RemoveBreak DEF c
  <2>5. CASE sibling \notin t.red /\ near \notin t.red /\ far \notin t.red /\ parent \notin t.red
    <3> DEFINE ns == {sibling}
               x == MakeRed(t, ns)
               q == Front(path)
    <3>1. c = Climb(x, q)
      BY <1>3, <2>5 DEF FixRemoveRound
    <3>2. ns \in SUBSET Key
      BY <1>0, <2>1
    <3>3. \A n : n \in ns <=> n = sibling
      OBVIOUS
    <3> HIDE DEF ns
    <3>4. x \in Trees /\ x.root = t.root /\ x.child = t.child /\ x.red = t.red \cup ns
      BY <1>0, <3>2, MakeRedIs
    <3> HIDE DEF x
    <3>5. \A n \in Key : n \in x.red <=> (n \in t.red \/ n = sibling) /\ n # parent
      BY <2>1, <2>5, <3>3, <3>4
    <3> HIDE DEF c, node, parent, grandparent, side
    <3>6. /\ Sorted(x, N, D, R) /\ Bare(x, N) /\ RedApart(x, N, NULL) /\ x.root \notin x.red
          /\ \E s \in Side : /\ grandparent # NULL => x.child[s][grandparent] = parent
                             /\ \E A : Even(x, N, A, grandparent, s)
      <4>1. Recolored(t, x, N, D, R, grandparent, parent)
        BY <2>0, <2>5, <3>4, <3>5, BlackNephews
      <4> QED
        BY <2>5, <4>1 DEF Recolored
    <3>17. PICK s \in Side : /\ grandparent # NULL => x.child[s][grandparent] = parent
                             /\ \E A : Even(x, N, A, grandparent, s)
      BY <3>6
    <3>7. PICK A : /\ grandparent # NULL => x.child[s][grandparent] = parent
                   /\ Even(x, N, A, grandparent, s)
      BY <3>17
    <3>8. ~Settled(t, path)
      BY <2>5 DEF Settled, parent
    <3>9. IsPath(t, N, path) /\ Up(path, 1) # NULL
      BY <1>3, <3>8 DEF parent
    <3>10. /\ IsPath(x, N, q) /\ q \in Seq(Node) /\ q # <<>>
           /\ Len(q) \in Nat /\ Len(q) < Len(path)
           /\ Up(q, 0) = parent /\ Up(q, 1) = grandparent
           /\ Up(q, 1) = NULL => x.root = parent
           /\ Up(q, 1) # NULL => /\ Up(q, 1) \in N /\ Up(q, 2) \in Node
                                 /\ IsParent(x, N, Up(q, 2), Up(q, 1))
      BY <1>0, <3>4, <3>9, PathFront DEF parent, grandparent
    <3> HIDE DEF q
    <3>11. RedApart(x, N, parent)
      <4>1. NULL \notin x.red
        BY <1>0, <3>6, SortedParts
      <4> QED
        BY <3>6, <4>1 DEF RedApart
    <3>12. \E r \in Side : /\ Up(q, 1) # NULL => x.child[r][Up(q, 1)] = Up(q, 0)
                           /\ Even(x, N, A, Up(q, 1), r)
      BY <3>7, <3>10
    <3>13. RemoveState(x, N, D, R, A, q)
      BY <2>1, <3>6, <3>10, <3>11, <3>12 DEF RemoveState
    <3>14. c = [tree |-> x, path |-> q]
      BY <3>1 DEF Climb
    <3>15. c \in Climbs /\ c.tree = x /\ c.path = q
      BY <3>4, <3>10, <3>14 DEF Climbs
    <3>16. RemoveStep(c, t, N, R, path)
      BY <3>8, <3>10, <3>13, <3>15 DEF RemoveStep
    <3> QED
      BY <3>16 DEF c
  <2> QED
    BY <2>2, <2>3, <2>4, <2>5
<1> QED
  BY <1>1, <1>2, <1>3

(* The repair after a removal ends with a search tree of the same nodes    *)
(* that is even, and has no red node below a red one nor at the root.      *)
LEMMA RemoveFixed ==
  ASSUME NEW t, NEW N, NEW D, NEW R, NEW B, NEW path, RemoveState(t, N, D, R, B, path), IsPath(t, N, path)
  PROVE  \E E, A : Balanced(value_dict_fix_after_remove(t, path), N, E, R, A)
<1> DEFINE G == [c \in Climbs |-> FixRemoveRound(c.tree, c.path)]
           L == Len(path)
           Good(n) == {c \in Climbs : /\ \E E, A : RemoveState(c.tree, N, E, R, A, c.path)
                                      /\ \/ c.path = <<>>
                                         \/ IsPath(c.tree, N, c.path) /\ Len(c.path) + n <= L
                                         \/ /\ Settled(c.tree, c.path) /\ n + 1 <= L}
           I == [n \in Nat |-> Good(n)]
           a == Climb(t, path)
<1>0. t \in Trees /\ L \in Nat /\ path \in Seq(Node) /\ path # <<>>
  BY SortedParts DEF RemoveState, IsPath
<1>1. a \in I[0]
  <2>1. a = [tree |-> t, path |-> path]
    BY DEF Climb
  <2> HIDE DEF a
  <2>2. a \in Climbs /\ a.tree = t /\ a.path = path
    BY <1>0, <2>1 DEF Climbs
  <2>3. Len(path) + 0 <= L
    BY <1>0
  <2> QED
    BY <2>2, <2>3
<1>2. ASSUME NEW n \in Nat, NEW c \in I[n]
      PROVE  G[c] \in I[n + 1]
  <2>0. I[n + 1] = Good(n + 1) /\ I[n] = Good(n)
    <3>1. n + 1 \in Nat
      OBVIOUS
    <3>2. \A k \in Nat : I[k] = Good(k)
      OBVIOUS
    <3> HIDE DEF I, Good
    <3> QED
      BY <3>1, <3>2
  <2>1. c \in Climbs /\ \/ c.path = <<>>
                        \/ IsPath(c.tree, N, c.path) /\ Len(c.path) + n <= L
                        \/ Settled(c.tree, c.path) /\ n + 1 <= L
    BY <1>2
  <2>2. PICK E, A : RemoveState(c.tree, N, E, R, A, c.path)
    BY <1>2
  <2>3. G[c] = FixRemoveRound(c.tree, c.path)
    BY <2>1
  <2>4. ASSUME NEW d \in Climbs, \E F, H : RemoveState(d.tree, N, F, R, H, d.path),
               \/ d.path = <<>>
               \/ IsPath(d.tree, N, d.path) /\ Len(d.path) + (n + 1) <= L
               \/ Settled(d.tree, d.path) /\ (n + 1) + 1 <= L
        PROVE  d \in I[n + 1]
    BY <2>0, <2>4
  <2> HIDE DEF G, I, Good, L
  <2>5. c.tree \in Trees /\ c.path \in Seq(Node) /\ Len(c.path) \in Nat
    BY <2>1 DEF Climbs
  <2>6. CASE c.path = <<>>
    <3>1. G[c] = [tree |-> c.tree, path |-> <<>>]
      BY <2>3, <2>6 DEF FixRemoveRound, Break, Climb
    <3>2. <<>> \in Seq(Node)
      OBVIOUS
    <3>3. G[c] \in Climbs /\ G[c].tree = c.tree /\ G[c].path = <<>>
      BY <2>5, <3>1, <3>2 DEF Climbs
    <3>4. \E F, H : RemoveState(G[c].tree, N, F, R, H, G[c].path)
      BY <2>2, <2>6, <3>3
    <3> DEFINE d == G[c]
    <3>5. d \in Climbs /\ d.path = <<>> /\ \E F, H : RemoveState(d.tree, N, F, R, H, d.path)
      BY <3>3, <3>4
    <3> HIDE DEF d
    <3>6. d \in I[n + 1]
      BY <2>4, <3>5
    <3> QED
      BY <3>6 DEF d
  <2>7. CASE c.path # <<>>
    <3> DEFINE d == FixRemoveRound(c.tree, c.path)
    <3>1. IsPath(c.tree, N, c.path) \/ Settled(c.tree, c.path)
      BY <2>1, <2>7
    <3>2. RemoveStep(d, c.tree, N, R, c.path)
      BY <2>2, <2>5, <2>7, <3>1, RemoveRound
    <3>8. G[c] = d
      BY <2>3
    <3> HIDE DEF d
    <3>3. /\ d \in Climbs
          /\ \E F, H : RemoveState(d.tree, N, F, R, H, d.path)
          /\ \/ d.path = <<>>
             \/ Len(c.path) > 1 /\ ~Settled(c.tree, c.path) /\ Settled(d.tree, d.path)
             \/ /\ ~Settled(c.tree, c.path) /\ IsPath(d.tree, N, d.path)
                /\ Len(d.path) \in Nat /\ Len(d.path) < Len(c.path)
      BY <3>2 DEF RemoveStep
    <3>4. ~Settled(c.tree, c.path) => Len(c.path) + n <= L
      BY <2>1, <2>7
    <3>5. CASE d.path = <<>>
      BY <2>4, <3>3, <3>5, <3>8
    <3>6. CASE d.path # <<>> /\ Len(c.path) > 1 /\ ~Settled(c.tree, c.path) /\ Settled(d.tree, d.path)
      <4>1. (n + 1) + 1 <= L
        <5>1. \A x, z \in Nat : x > 1 /\ x + n <= z => (n + 1) + 1 <= z
          OBVIOUS
        <5> QED
          BY <1>0, <2>5, <3>4, <3>6, <5>1
      <4> QED
        BY <2>4, <3>3, <3>6, <3>8, <4>1
    <3>7. CASE /\ ~Settled(c.tree, c.path) /\ IsPath(d.tree, N, d.path)
               /\ Len(d.path) \in Nat /\ Len(d.path) < Len(c.path)
      <4>1. Len(d.path) + (n + 1) <= L
        <5>1. \A x, y, z \in Nat : x < y /\ y + n <= z => x + (n + 1) <= z
          OBVIOUS
        <5> QED
          BY <1>0, <2>5, <3>4, <3>7, <5>1
      <4> QED
        BY <2>4, <3>3, <3>7, <3>8, <4>1
    <3> QED
      BY <3>3, <3>5, <3>6, <3>7
  <2> QED
    BY <2>6, <2>7
<1> DEFINE e == Repeat(G, a, L)
<1>3. e \in I[L]
  <2> HIDE DEF G, I, a, L
  <2> QED
    BY <1>0, <1>1, <1>2, RepeatKeeps
<1>4. e.tree = value_dict_fix_after_remove(t, path)
  BY DEF value_dict_fix_after_remove
<1> HIDE DEF e
<1>5. /\ \E E, A : RemoveState(e.tree, N, E, R, A, e.path)
      /\ \/ e.path = <<>>
         \/ IsPath(e.tree, N, e.path) /\ Len(e.path) + L <= L
         \/ L + 1 <= L
      /\ e \in Climbs
  BY <1>0, <1>3
<1>6. e.path = <<>>
  <2>1. Len(e.path) \in Nat /\ e.path \in Seq(Node)
    BY <1>5 DEF Climbs
  <2>2. IsPath(e.tree, N, e.path) => e.path # <<>>
    BY DEF IsPath
  <2> HIDE DEF L
  <2>3. \A x \in Nat : x + L <= L => x = 0
    BY <1>0
  <2>4. ~ (L + 1 <= L)
    BY <1>0
  <2>5. Len(e.path) = 0 => e.path = <<>>
    BY <2>1
  <2> QED
    BY <1>5, <2>1, <2>3, <2>4, <2>5
<1> QED
  BY <1>4, <1>5, <1>6 DEF RemoveState

-----------------------------------------------------------------------------
(* Walks down the tree *)

LEMMA Appended ==
  ASSUME NEW S, NEW p \in Seq(S), NEW x \in S
  PROVE  Longer(S, p, x, Append(p, x))
<1> DEFINE q == Append(p, x)
<1>1. q \in Seq(S) /\ q # <<>> /\ Len(q) = Len(p) + 1 /\ q[Len(p) + 1] = x
  BY AppendProperties
<1>2. \A i \in 1 .. Len(p) : q[i] = p[i]
  BY AppendProperties
<1>3. Last(q) = q[Len(q)]
  BY DEF Last
<1>4. Len(p) \in Nat
  OBVIOUS
<1> HIDE DEF q
<1>5. Longer(S, p, x, q)
  BY <1>1, <1>2, <1>3, <1>4 DEF Longer
<1> QED
  BY <1>5 DEF q

LEMMA LastIs ==
  ASSUME NEW S, NEW p \in Seq(S), p # <<>>
  PROVE  Len(p) \in Nat /\ Len(p) > 0 /\ Last(p) = p[Len(p)] /\ Last(p) \in S
<1>1. Len(p) \in Nat /\ Len(p) # 0
  OBVIOUS
<1>2. Len(p) > 0 /\ Len(p) \in 1 .. Len(p)
  BY <1>1
<1>3. Last(p) = p[Len(p)]
  BY DEF Last
<1> QED
  BY <1>1, <1>2, <1>3

LEMMA MoreKeys ==
  ASSUME NEW N, NEW M, N \subseteq M, NEW p \in Seq(N)
  PROVE  p \in Seq(M)
OBVIOUS

LEMMA SmallerBelow ==
  ASSUME NEW t, NEW N, NEW D, NEW R, Sorted(t, N, D, R), NEW n \in N, NEW s \in Side, t.child[s][n] # NULL
  PROVE  /\ IsFiniteSet(N) /\ IsFiniteSet(D[n]) /\ IsFiniteSet(D[t.child[s][n]])
         /\ Cardinality(D[t.child[s][n]]) + 1 <= Cardinality(D[n])
         /\ Cardinality(D[t.child[s][n]]) \in Nat /\ Cardinality(D[n]) \in Nat
<1> DEFINE c == t.child[s][n]
           X == D[n] \ {n}
<1>1. c \in N /\ D[c] \subseteq D[n] /\ n \notin D[c]
  BY ChildIs
<1>2. N \subseteq Key /\ D[n] \subseteq N /\ n \in D[n]
  BY SortedParts
<1> HIDE DEF c
<1>3. IsFiniteSet(N) /\ IsFiniteSet(D[n])
  BY <1>2, FS_Subset, KeyAssumption
<1>4. IsFiniteSet(X) /\ Cardinality(X) = Cardinality(D[n]) - 1
  BY <1>2, <1>3, FS_RemoveElement
<1>5. D[c] \in SUBSET X
  BY <1>1
<1> HIDE DEF X
<1>6. IsFiniteSet(D[c]) /\ Cardinality(D[c]) <= Cardinality(X)
  BY <1>4, <1>5, FS_Subset
<1>7. Cardinality(D[c]) \in Nat /\ Cardinality(D[n]) \in Nat
  BY <1>3, <1>6, FS_CardinalityType
<1> QED
  BY <1>3, <1>4, <1>6, <1>7 DEF c

(* Such a walk has ended after as many rounds as there are keys.           *)
LEMMA DescentEnds ==
  ASSUME NEW t, NEW N, NEW D, NEW R, Sorted(t, N, D, R), NEW start \in N \cup {NULL},
         NEW turn, \A n \in N : turn[n] \in Side, NEW Stop, NEW G,
         \A p \in Seq(N) : G[p] = IF Stopped(t, start, turn, Stop, p) THEN p
                                  ELSE Append(p, NextNode(t, start, turn, p))
  PROVE  /\ Descent(t, N, start, turn, Stop, Repeat(G, <<>>, MaxRounds))
         /\ Stopped(t, start, turn, Stop, Repeat(G, <<>>, MaxRounds))
<1> DEFINE Size(p) == Cardinality(D[Last(p)])
           Good(n) == {p \in Seq(N) : /\ Descent(t, N, start, turn, Stop, p)
                                      /\ p # <<>> => Size(p) + Len(p) <= MaxRounds + 1
                                      /\ Stopped(t, start, turn, Stop, p) \/ Len(p) = n}
           I == [n \in Nat |-> Good(n)]
<1>0. N \subseteq Key /\ NULL \notin N /\ \A n \in N : D[n] \subseteq N /\ n \in D[n]
  BY SortedParts
<1>1. IsFiniteSet(Key) /\ MaxRounds \in Nat
  BY KeyAssumption, FS_CardinalityType DEF MaxRounds
<1>2. \A n \in N : IsFiniteSet(D[n]) /\ Cardinality(D[n]) \in Nat /\ Cardinality(D[n]) > 0
                     /\ Cardinality(D[n]) <= MaxRounds
  <2>1. ASSUME NEW n \in N
        PROVE  IsFiniteSet(D[n]) /\ Cardinality(D[n]) \in Nat /\ Cardinality(D[n]) > 0
                 /\ Cardinality(D[n]) <= MaxRounds
    <3>1. D[n] \in SUBSET Key /\ D[n] # {}
      BY <1>0
    <3>2. IsFiniteSet(D[n]) /\ Cardinality(D[n]) <= MaxRounds
      BY <1>1, <3>1, FS_Subset DEF MaxRounds
    <3>3. Cardinality(D[n]) \in Nat /\ Cardinality(D[n]) # 0
      BY <3>1, <3>2, FS_CardinalityType, FS_EmptySet
    <3> QED
      BY <3>2, <3>3
  <2> QED
    BY <2>1
<1>3. ASSUME NEW p \in Seq(N), Descent(t, N, start, turn, Stop, p), ~Stopped(t, start, turn, Stop, p)
      PROVE  /\ NextNode(t, start, turn, p) \in N
             /\ p # <<>> => /\ Last(p) \in N
                            /\ Cardinality(D[NextNode(t, start, turn, p)]) + 1 <= Size(p)
  <2>1. NextNode(t, start, turn, p) # NULL
    BY <1>3 DEF Stopped
  <2>2. CASE p = <<>>
    BY <2>1, <2>2 DEF NextNode
  <2>3. CASE p # <<>>
    <3>1. Last(p) \in N
      BY <2>3, LastIs
    <3>2. NextNode(t, start, turn, p) = t.child[turn[Last(p)]][Last(p)]
      BY <2>3 DEF NextNode
    <3>3. turn[Last(p)] \in Side
      BY <3>1
    <3>4. t.child[turn[Last(p)]][Last(p)] \in N
      BY <2>1, <3>1, <3>2, <3>3, SortedParts
    <3>5. Cardinality(D[t.child[turn[Last(p)]][Last(p)]]) + 1 <= Cardinality(D[Last(p)])
      BY <1>0, <3>1, <3>3, <3>4, SmallerBelow
    <3> QED
      BY <3>1, <3>2, <3>4, <3>5
  <2> QED
    BY <2>2, <2>3
<1>4. <<>> \in I[0]
  <2>1. <<>> \in Seq(N) /\ Len(<<>>) = 0
    OBVIOUS
  <2>2. Descent(t, N, start, turn, Stop, <<>>)
    BY DEF Descent
  <2> QED
    BY <2>1, <2>2
<1>5. ASSUME NEW n \in Nat, NEW p \in I[n]
      PROVE  G[p] \in I[n + 1]
  <2>0. I[n + 1] = Good(n + 1) /\ I[n] = Good(n)
    <3>1. n + 1 \in Nat
      OBVIOUS
    <3>2. \A k \in Nat : I[k] = Good(k)
      OBVIOUS
    <3> HIDE DEF I, Good
    <3> QED
      BY <3>1, <3>2
  <2>1. /\ p \in Seq(N) /\ Descent(t, N, start, turn, Stop, p)
        /\ p # <<>> => Size(p) + Len(p) <= MaxRounds + 1
        /\ Stopped(t, start, turn, Stop, p) \/ Len(p) = n
    BY <1>5
  <2>2. ASSUME NEW q \in Seq(N), Descent(t, N, start, turn, Stop, q),
               q # <<>> => Size(q) + Len(q) <= MaxRounds + 1,
               Stopped(t, start, turn, Stop, q) \/ Len(q) = n + 1
        PROVE  q \in I[n + 1]
    BY <2>0, <2>2
  <2> HIDE DEF I, Good
  <2>3. CASE Stopped(t, start, turn, Stop, p)
    BY <2>1, <2>2, <2>3
  <2>4. CASE ~Stopped(t, start, turn, Stop, p)
    <3> DEFINE x == NextNode(t, start, turn, p)
               q == Append(p, x)
    <3>1. G[p] = q /\ Len(p) = n
      BY <2>1, <2>4
    <3>2. x \in N /\ (p # <<>> => Last(p) \in N /\ Cardinality(D[x]) + 1 <= Size(p))
      BY <1>3, <2>1, <2>4
    <3>3. x = IF p = <<>> THEN start ELSE t.child[turn[Last(p)]][Last(p)]
      BY DEF NextNode
    <3>10. p # <<>> => Last(p) \notin Stop
      BY <2>4 DEF Stopped
    <3>11. q = Append(p, x)
      OBVIOUS
    <3> HIDE DEF x, q
    <3>4. /\ q \in Seq(N) /\ q # <<>> /\ Len(q) = Len(p) + 1
          /\ Last(q) = x /\ q[Len(p) + 1] = x
          /\ \A i \in 1 .. Len(p) : q[i] = p[i]
      <4>1. p \in Seq(N) /\ x \in N
        BY <2>1, <3>2
      <4>2. Longer(N, p, x, Append(p, x))
        BY <4>1, Appended
      <4>3. Longer(N, p, x, q)
        BY <3>11, <4>2
      <4> QED
        BY <4>3 DEF Longer
    <3>5. q[1] = start
      <4>1. CASE p = <<>>
        BY <3>3, <3>4, <4>1
      <4>2. CASE p # <<>>
        <5>1. 1 \in 1 .. Len(p)
          BY <2>1, <4>2, LastIs
        <5> QED
          BY <2>1, <3>4, <4>2, <5>1 DEF Descent
      <4> QED
        BY <4>1, <4>2
    <3>6. ASSUME NEW i \in 1 .. Len(q) - 1
          PROVE  q[i] \notin Stop /\ q[i + 1] = t.child[turn[q[i]]][q[i]]
      <4>1. Len(p) \in Nat /\ i \in 1 .. Len(p) /\ q[i] = p[i]
        BY <2>1, <3>4
      <4>2. CASE i = Len(p)
        <5>1. p # <<>> /\ Last(p) = p[i]
          BY <2>1, <4>1, <4>2 DEF Last
        <5> QED
          BY <3>3, <3>4, <3>10, <4>1, <4>2, <5>1
      <4>3. CASE i # Len(p)
        <5>1. i \in 1 .. Len(p) - 1 /\ i + 1 \in 1 .. Len(p)
          BY <4>1, <4>3
        <5>2. p[i] \notin Stop /\ p[i + 1] = t.child[turn[p[i]]][p[i]]
          BY <2>1, <5>1 DEF Descent
        <5>3. q[i + 1] = p[i + 1]
          BY <3>4, <5>1
        <5> QED
          BY <4>1, <5>2, <5>3
      <4> QED
        BY <4>2, <4>3
    <3>7. Descent(t, N, start, turn, Stop, q)
      BY <3>4, <3>5, <3>6 DEF Descent
    <3>8. Size(q) + Len(q) <= MaxRounds + 1
      <4>1. Size(q) = Cardinality(D[x])
        BY <3>4
      <4>2. CASE p = <<>>
        <5>1. Len(q) = 1
          BY <3>4, <4>2
        <5> QED
          BY <1>1, <1>2, <3>2, <4>1, <5>1
      <4>3. CASE p # <<>>
        <5>1. Cardinality(D[x]) \in Nat /\ Size(p) \in Nat /\ Len(p) \in Nat
          BY <1>2, <2>1, <3>2, <4>3
        <5>2. \A u, v, w, m \in Nat : u + 1 <= v /\ v + w <= m + 1 => u + (w + 1) <= m + 1
          OBVIOUS
        <5> QED
          BY <1>1, <2>1, <3>2, <3>4, <4>1, <4>3, <5>1, <5>2
      <4> QED
        BY <4>2, <4>3
    <3>9. Len(q) = n + 1
      BY <3>1, <3>4
    <3> QED
      BY <2>2, <3>1, <3>4, <3>7, <3>8, <3>9
  <2> QED
    BY <2>3, <2>4
<1> DEFINE p == Repeat(G, <<>>, MaxRounds)
<1>6. p \in I[MaxRounds]
  <2> HIDE DEF I
  <2> QED
    BY <1>1, <1>4, <1>5, RepeatKeeps
<1> HIDE DEF p
<1>7. /\ p \in Seq(N) /\ Descent(t, N, start, turn, Stop, p)
      /\ p # <<>> => Size(p) + Len(p) <= MaxRounds + 1
      /\ Stopped(t, start, turn, Stop, p) \/ Len(p) = MaxRounds
  BY <1>1, <1>6
<1>8. Stopped(t, start, turn, Stop, p)
  <2> SUFFICES ASSUME ~Stopped(t, start, turn, Stop, p) PROVE FALSE
    OBVIOUS
  <2> DEFINE x == NextNode(t, start, turn, p)
  <2>1. x \in N /\ (p # <<>> => Last(p) \in N /\ Cardinality(D[x]) + 1 <= Size(p)) /\ Len(p) = MaxRounds
    BY <1>3, <1>7
  <2> HIDE DEF x
  <2>2. CASE p = <<>>
    <3>1. Cardinality(D[x]) > 0 /\ Cardinality(D[x]) <= MaxRounds /\ MaxRounds = 0
      BY <1>2, <2>1, <2>2
    <3> QED
      BY <1>2, <2>1, <3>1
  <2>3. CASE p # <<>>
    <3>1. Cardinality(D[x]) \in Nat /\ Cardinality(D[x]) > 0 /\ Size(p) \in Nat
      BY <1>2, <2>1, <2>3
    <3>2. \A u, v, m \in Nat : u > 0 /\ u + 1 <= v /\ v + m <= m + 1 => FALSE
      OBVIOUS
    <3> QED
      BY <1>1, <1>7, <2>1, <2>3, <3>1, <3>2
  <2> QED
    BY <2>2, <2>3
<1> QED
  BY <1>7, <1>8 DEF p

-----------------------------------------------------------------------------
(* Searches *)

LEMMA RankIs == Rank \in [Key -> Int]
BY KeyAssumption

LEMMA TurnIs ==
  \A k, n \in Key : /\ Turn(k, n) \in Side
                    /\ Turn(k, n) = "left" <=> Rank[k] < Rank[n]
                    /\ Rank[k] # Rank[n] => (Turn(k, n) = "right" <=> Rank[n] < Rank[k])
BY RankIs DEF Turn, Side

Same(k)  == {n \in Key : Rank[n] = Rank[k]}

LEMMA SearchDescends ==
  ASSUME NEW t, NEW N, NEW D, Sorted(t, N, D, Rank), NEW k \in Key
  PROVE  /\ Descent(t, N, t.root, Turns(k), Same(k), PathTo(t, k))
         /\ Stopped(t, t.root, Turns(k), Same(k), PathTo(t, k))
<1> DEFINE Next1(p) == IF p = <<>> THEN t.root ELSE t.child[Turn(k, Last(p))][Last(p)]
           G == [p \in Seq(Key) |-> IF Ends(p, k) \/ Next1(p) = NULL THEN p ELSE Append(p, Next1(p))]
           turn == Turns(k)
           Stop == Same(k)
           start == t.root
<1>1. PathTo(t, k) = Repeat(G, <<>>, MaxRounds)
  BY DEF PathTo
<1>2. start \in N \cup {NULL} /\ N \subseteq Key
  <2>1. N \subseteq Key
    BY SortedParts
  <2>2. start \in N \cup {NULL}
    BY DEF Sorted
  <2> QED
    BY <2>1, <2>2
<1>3. \A n \in N : turn[n] \in Side
  BY <1>2, TurnIs DEF Turns
<1>4. ASSUME NEW p \in Seq(N)
      PROVE  G[p] = IF Stopped(t, start, turn, Stop, p) THEN p
                    ELSE Append(p, NextNode(t, start, turn, p))
  <2>1. p \in Seq(Key)
    BY <1>2, MoreKeys
  <2>2. NextNode(t, start, turn, p) = Next1(p)
    <3>1. CASE p = <<>>
      BY <3>1 DEF NextNode
    <3>2. CASE p # <<>>
      <4>1. Last(p) \in Key
        BY <2>1, <3>2, LastIs
      <4> QED
        BY <3>2, <4>1 DEF NextNode, Turns
    <3> QED
      BY <3>1, <3>2
  <2>3. Ends(p, k) <=> p # <<>> /\ Last(p) \in Stop
    <3>1. p # <<>> => Last(p) \in Key
      BY <2>1, LastIs
    <3> QED
      BY <3>1 DEF Ends, Same
  <2> HIDE DEF Next1, turn, Stop, start
  <2>4. G[p] = IF Ends(p, k) \/ Next1(p) = NULL THEN p ELSE Append(p, Next1(p))
    BY <2>1
  <2> QED
    BY <2>2, <2>3, <2>4 DEF Stopped
<1> HIDE DEF G, turn, Stop, start
<1>5. /\ Descent(t, N, start, turn, Stop, Repeat(G, <<>>, MaxRounds))
      /\ Stopped(t, start, turn, Stop, Repeat(G, <<>>, MaxRounds))
  BY <1>2, <1>3, <1>4, DescentEnds
<1> QED
  BY <1>1, <1>5 DEF turn, Stop, start

LEMMA WayKeeps ==
  ASSUME NEW t, NEW N, NEW D, Sorted(t, N, D, Rank), NEW k \in Key, NEW n \in N, NEW m \in N,
         Rank[m] = Rank[k], m \in D[n], Rank[n] # Rank[k],
         NEW c, c = t.child[Turn(k, n)][n]
  PROVE  c \in N /\ m \in D[c]
<1>1. N \subseteq Key
  BY SortedParts
<1>2. Turn(k, n) \in Side
  BY <1>1, TurnIs
<1>3. m \in Part(D[n], Rank, n, Turn(k, n))
  BY <1>1, RankIs DEF Part, Turn
<1>4. c \in N \cup {NULL} /\ Below(D, c) = Part(D[n], Rank, n, Turn(k, n))
  BY <1>2 DEF Sorted
<1> QED
  BY <1>3, <1>4 DEF Below

LEMMA WayIs ==
  ASSUME NEW t, NEW N, NEW D, Sorted(t, N, D, Rank), NEW k \in Key
  PROVE  Way(t, N, D, k, PathTo(t, k))
<1> DEFINE p == PathTo(t, k)
<1>1. /\ Descent(t, N, t.root, Turns(k), Same(k), p)
      /\ Stopped(t, t.root, Turns(k), Same(k), p)
  BY SearchDescends
<1> HIDE DEF p
<1>2. N \subseteq Key /\ p \in Seq(N) /\ Len(p) \in Nat
  BY <1>1, SortedParts DEF Descent
<1>3. \A i \in 1 .. Len(p) : p[i] \in N
  BY <1>2
<1>4. p # <<>> => p[1] = t.root
  BY <1>1 DEF Descent
<1>5. \A i \in 1 .. Len(p) - 1 : Rank[p[i]] # Rank[k] /\ p[i + 1] = t.child[Turn(k, p[i])][p[i]]
  <2>1. ASSUME NEW i \in 1 .. Len(p) - 1
        PROVE  Rank[p[i]] # Rank[k] /\ p[i + 1] = t.child[Turn(k, p[i])][p[i]]
    <3>1. p[i] \in Key
      BY <1>2, <1>3
    <3>2. p[i] \notin Same(k) /\ p[i + 1] = t.child[Turns(k)[p[i]]][p[i]]
      BY <1>1 DEF Descent
    <3> QED
      BY <3>1, <3>2 DEF Same, Turns
  <2> QED
    BY <2>1
<1>6. ASSUME NEW m \in N, Rank[m] = Rank[k]
      PROVE  \A i \in 1 .. Len(p) : m \in D[p[i]]
  <2> DEFINE T == {i \in Nat : i + 1 <= Len(p) => m \in D[p[i + 1]]}
  <2>1. 0 \in T
    <3>1. CASE p = <<>>
      BY <3>1
    <3>2. CASE p # <<>>
      <4>1. 1 \in 1 .. Len(p)
        BY <1>2, <3>2, LastIs
      <4>2. p[1] \in N /\ p[1] = t.root
        BY <1>3, <1>4, <3>2, <4>1
      <4>5. p[1] # NULL
        BY <4>2, SortedParts
      <4>3. p[1] # NULL /\ Below(D, t.root) = N
        BY <4>5 DEF Sorted
      <4>4. m \in D[p[1]]
        BY <4>2, <4>3 DEF Below
      <4> QED
        BY <4>4
    <3> QED
      BY <3>1, <3>2
  <2>2. ASSUME NEW i \in Nat, i \in T
        PROVE  i + 1 \in T
    <3>1. SUFFICES ASSUME (i + 1) + 1 <= Len(p)
                   PROVE  m \in D[p[(i + 1) + 1]]
      OBVIOUS
    <3>2. i + 1 \in 1 .. Len(p) - 1 /\ i + 1 \in 1 .. Len(p) /\ i + 1 <= Len(p)
      BY <1>2, <3>1
    <3>3. m \in D[p[i + 1]] /\ p[i + 1] \in N
      BY <1>3, <2>2, <3>2
    <3>4. Rank[p[i + 1]] # Rank[k] /\ p[(i + 1) + 1] = t.child[Turn(k, p[i + 1])][p[i + 1]]
      BY <1>5, <3>2
    <3> QED
      BY <1>6, <3>3, <3>4, WayKeeps
  <2>3. Nat \subseteq T
    <3> HIDE DEF T
    <3> QED
      BY <2>1, <2>2, AllNumbers
  <2>4. ASSUME NEW i \in 1 .. Len(p)
        PROVE  m \in D[p[i]]
    <3>1. i - 1 \in Nat /\ (i - 1) + 1 = i /\ i <= Len(p)
      BY <1>2
    <3>2. i - 1 \in T
      BY <2>3, <3>1
    <3> QED
      BY <3>1, <3>2
  <2> QED
    BY <2>4
<1>7. ~ Ends(p, k) => IF p = <<>> THEN t.root = NULL /\ N = {}
                      ELSE /\ Rank[Last(p)] # Rank[k]
                           /\ t.child[Turn(k, Last(p))][Last(p)] = NULL
  <2>1. SUFFICES ASSUME ~ Ends(p, k)
                 PROVE  IF p = <<>> THEN t.root = NULL /\ N = {}
                      ELSE /\ Rank[Last(p)] # Rank[k]
                           /\ t.child[Turn(k, Last(p))][Last(p)] = NULL
    OBVIOUS
  <2>2. CASE p = <<>>
    <3>1. t.root = NULL
      BY <1>1, <2>2 DEF Stopped, NextNode
    <3>2. N = {}
      BY <3>1 DEF Sorted, Below
    <3> QED
      BY <2>2, <3>1, <3>2
  <2>3. CASE p # <<>>
    <3>1. Last(p) \in Key
      BY <1>2, <2>3, LastIs
    <3>2. Rank[Last(p)] # Rank[k]
      BY <2>1, <2>3 DEF Ends
    <3>3. NextNode(t, t.root, Turns(k), p) = NULL
      BY <1>1, <2>3, <3>2 DEF Stopped, Same
    <3> QED
      BY <2>3, <3>1, <3>2, <3>3 DEF NextNode, Turns
  <2> QED
    BY <2>2, <2>3
<1>8. ASSUME Ends(p, k)
      PROVE  \E m \in N : Rank[m] = Rank[k]
  BY <1>2, <1>8, LastIs DEF Ends
<1>9. ASSUME NEW m \in N, Rank[m] = Rank[k]
      PROVE  Ends(p, k)
  <2>1. SUFFICES ASSUME ~ Ends(p, k) PROVE FALSE
    OBVIOUS
  <2>2. p # <<>>
    BY <1>7, <2>1
  <2>3. Len(p) \in 1 .. Len(p) /\ Last(p) = p[Len(p)] /\ Last(p) \in N
    BY <1>2, <2>2, LastIs
  <2>4. m \in D[Last(p)]
    BY <1>6, <1>9, <2>3
  <2>5. Rank[Last(p)] # Rank[k] /\ t.child[Turn(k, Last(p))][Last(p)] = NULL
    BY <1>7, <2>1, <2>2
  <2>6. NULL \in N
    BY <1>9, <2>3, <2>4, <2>5, WayKeeps
  <2> QED
    BY <2>6, SortedParts
<1>10. Way(t, N, D, k, p)
  BY <1>2, <1>4, <1>5, <1>6, <1>7, <1>8, <1>9 DEF Way
<1> QED
  BY <1>10 DEF p

-----------------------------------------------------------------------------
(* Insertion *)

LEMMA WayParts ==
  ASSUME NEW t, NEW N, NEW D, NEW k, NEW p, Way(t, N, D, k, p)
  PROVE  /\ p \in Seq(N) /\ Len(p) \in Nat
         /\ \A i \in 1 .. Len(p) : p[i] \in N
         /\ p # <<>> => /\ p[1] = t.root /\ Last(p) = p[Len(p)] /\ Last(p) \in N
                        /\ Len(p) > 0 /\ Len(p) \in 1 .. Len(p) /\ 1 \in 1 .. Len(p)
<1>1. p \in Seq(N) /\ Len(p) \in Nat /\ (p # <<>> => p[1] = t.root)
  BY DEF Way
<1>2. p # <<>> => /\ Last(p) = p[Len(p)] /\ Last(p) \in N
                  /\ Len(p) > 0
  BY <1>1, LastIs
<1>3. p # <<>> => Len(p) \in 1 .. Len(p) /\ 1 \in 1 .. Len(p)
  BY <1>1, <1>2
<1>4. \A i \in 1 .. Len(p) : p[i] \in N
  BY <1>1
<1> QED
  BY <1>1, <1>2, <1>3, <1>4

(* A link to a node of the way is a link of the way.                       *)
LEMMA WayLinks ==
  ASSUME NEW t, NEW N, NEW D, Sorted(t, N, D, Rank), NEW k \in Key, NEW p, Way(t, N, D, k, p),
         NEW i \in 1 .. Len(p), NEW n \in N, NEW s \in Side, t.child[s][n] = p[i]
  PROVE  i - 1 \in 1 .. Len(p) - 1 /\ n = p[i - 1] /\ s = Turn(k, n)
<1>1. N \subseteq Key /\ NULL \notin N
  BY SortedParts
<1>2. Len(p) \in Nat /\ (\A j \in 1 .. Len(p) : p[j] \in N) /\ p[1] = t.root
  BY WayParts
<1>3. p[i] # NULL /\ p[i] \in N
  BY <1>1, <1>2
<1>4. i # 1
  BY <1>2, <1>3, ChildIs
<1>5. i - 1 \in 1 .. Len(p) - 1 /\ (i - 1) + 1 = i /\ i - 1 \in 1 .. Len(p)
  BY <1>2, <1>4
<1>6. p[(i - 1) + 1] = t.child[Turn(k, p[i - 1])][p[i - 1]]
  BY <1>5 DEF Way
<1>7. p[i - 1] \in N /\ Turn(k, p[i - 1]) \in Side
  BY <1>1, <1>2, <1>5, TurnIs
<1>8. n = p[i - 1] /\ s = Turn(k, p[i - 1])
  BY <1>3, <1>5, <1>6, <1>7, OneParent
<1> QED
  BY <1>5, <1>8

LEMMA WayIsPath ==
  ASSUME NEW t, NEW N, NEW D, Sorted(t, N, D, Rank), NEW k \in Key, NEW p, Way(t, N, D, k, p), p # <<>>
  PROVE  IsPath(t, N, p)
<1>1. N \subseteq Key
  BY SortedParts
<1>2. p \in Seq(N) /\ Len(p) \in Nat /\ (\A i \in 1 .. Len(p) : p[i] \in N) /\ p[1] = t.root
  BY WayParts
<1>3. p \in Seq(Node)
  BY <1>1, <1>2, MoreKeys DEF Node
<1>4. ASSUME NEW i \in 1 .. Len(p) - 1
      PROVE  p[i] \in N /\ \E s \in Side : t.child[s][p[i]] = p[i + 1]
  <2>1. i \in 1 .. Len(p)
    BY <1>2
  <2>2. p[i] \in N /\ Turn(k, p[i]) \in Side
    BY <1>1, <1>2, <2>1, TurnIs
  <2>3. p[i + 1] = t.child[Turn(k, p[i])][p[i]]
    BY DEF Way
  <2> QED
    BY <2>2, <2>3
<1> QED
  BY <1>2, <1>3, <1>4 DEF IsPath

LEMMA HungRanked ==
  ASSUME NEW N, Ranked(N, Rank), NEW k \in Key, \A m \in N : Rank[m] # Rank[k]
  PROVE  Ranked(N \cup {k}, Rank)
BY DEF Ranked

LEMMA HungFacts ==
  ASSUME NEW t, NEW N, NEW D, Sorted(t, N, D, Rank), NEW k \in Key, NEW p, Way(t, N, D, k, p),
         NEW x, x = MakeRed(Hung(t, k, p), {k})
  PROVE  HungIs(t, x, N, k, p)
<1>1. N \subseteq Key /\ t \in Trees
  BY SortedParts
<1>2. p # <<>> => Last(p) \in Key /\ Turn(k, Last(p)) \in Side
  BY <1>1, WayParts, TurnIs
<1> DEFINE h == Hung(t, k, p)
<1>3. /\ h \in Trees /\ h.red = t.red
      /\ h.root = IF p = <<>> THEN k ELSE t.root
      /\ \A s \in Side, m \in Key :
          h.child[s][m] = IF p # <<>> /\ m = Last(p) /\ s = Turn(k, m) THEN k ELSE t.child[s][m]
  <2>0. k \in Node
    BY DEF Node
  <2>1. CASE p = <<>>
    BY <1>1, <2>0, <2>1, SetRootIs DEF Hung
  <2>2. CASE p # <<>>
    <3>1. /\ h \in Trees /\ h.root = t.root /\ h.red = t.red
          /\ \A s \in Side, m \in Key :
               h.child[s][m] = IF s = Turn(k, Last(p)) /\ m = Last(p) THEN k ELSE t.child[s][m]
      BY <1>1, <1>2, <2>0, <2>2, SetChildIs DEF Hung
    <3> HIDE DEF h
    <3> QED
      BY <2>2, <3>1
  <2> QED
    BY <2>1, <2>2
<1> HIDE DEF h
<1> DEFINE ns == {k}
<1>4. ns \in SUBSET Key /\ x = MakeRed(h, ns)
  BY DEF h
<1>5. x \in Trees /\ x.root = h.root /\ x.child = h.child /\ x.red = h.red \cup ns
  <2> HIDE DEF ns
  <2>1. h \in Trees /\ ns \in SUBSET Key
    BY <1>3, <1>4
  <2>2. /\ MakeRed(h, ns) \in Trees /\ MakeRed(h, ns).root = h.root /\ MakeRed(h, ns).child = h.child
        /\ MakeRed(h, ns).red = h.red \cup ns
    BY <2>1, MakeRedIs
  <2> QED
    BY <1>4, <2>2
<1> QED
  BY <1>3, <1>5 DEF HungIs

(* A node hung at the end of its way is in order.                          *)
LEMMA HungSorts ==
  ASSUME NEW t, NEW N, NEW D, Sorted(t, N, D, Rank), Bare(t, N), NEW k \in Key,
         NEW p, Way(t, N, D, k, p), ~ Ends(p, k),
         NEW x, x = MakeRed(Hung(t, k, p), {k})
  PROVE  Sorted(x, N \cup {k}, HungSets(N, D, k, p), Rank)
<1> DEFINE M == N \cup {k}
           E == HungSets(N, D, k, p)
           W == OnWay(p)
<1>1. N \subseteq Key /\ NULL \notin N /\ t.red \subseteq N /\ NULL \notin Key
  BY SortedParts, NullIsNoKey
<1>2. /\ x \in Trees /\ x.red = t.red \cup {k}
      /\ x.root = IF p = <<>> THEN k ELSE t.root
      /\ \A s \in Side, m \in Key :
           x.child[s][m] = IF p # <<>> /\ m = Last(p) /\ s = Turn(k, m) THEN k ELSE t.child[s][m]
  <2>1. HungIs(t, x, N, k, p)
    BY HungFacts
  <2> QED
    BY <2>1 DEF HungIs
<1>3. \A m \in N : Rank[m] # Rank[k]
  BY DEF Way
<1>4. k \notin N /\ k # NULL
  BY <1>1, <1>3
<1>5. Ranked(M, Rank)
  BY <1>3, HungRanked DEF Sorted
<1>6. W \subseteq N
  BY WayParts DEF OnWay
<1>7. /\ E[k] = {k}
      /\ \A n \in N : n # k /\ E[n] = IF n \in W THEN D[n] \cup {k} ELSE D[n]
  BY <1>4 DEF HungSets
<1>8. \A n \in N : D[n] \subseteq N /\ n \in D[n]
  BY SortedParts
<1> HIDE DEF E, M
<1>9. x.root \in M \cup {NULL} /\ Below(E, x.root) = M
  <2>1. CASE p = <<>>
    <3>1. N = {} /\ x.root = k
      BY <1>2, <2>1 DEF Way
    <3> QED
      BY <1>4, <1>7, <3>1 DEF Below, M
  <2>2. CASE p # <<>>
    <3>1. x.root = t.root /\ p[1] = t.root /\ p[1] \in N /\ p[1] \in W
      BY <1>2, <2>2, WayParts DEF OnWay
    <3>2. Below(D, t.root) = N
      BY DEF Sorted
    <3>3. D[t.root] = N /\ t.root # NULL
      BY <1>1, <3>1, <3>2 DEF Below
    <3> QED
      BY <1>7, <3>1, <3>3 DEF Below, M
  <2> QED
    BY <2>1, <2>2
<1>10. \A n \in M : n \in E[n] /\ E[n] \subseteq M
  BY <1>7, <1>8 DEF M
<1>11. \A s \in Side : x.child[s][k] = NULL
  <2>1. \A s \in Side : t.child[s][k] = NULL
    BY <1>4 DEF Bare
  <2>2. p # <<>> => k # Last(p)
    BY <1>4, WayParts
  <2> QED
    BY <1>2, <2>1, <2>2
<1>12. ASSUME NEW n \in N, NEW s \in Side
       PROVE  \/ /\ p # <<>> /\ n = Last(p) /\ s = Turn(k, n)
                 /\ x.child[s][n] = k /\ t.child[s][n] = NULL
              \/ /\ ~ (p # <<>> /\ n = Last(p) /\ s = Turn(k, n))
                 /\ x.child[s][n] = t.child[s][n] /\ x.child[s][n] \in N \cup {NULL}
  <2>1. CASE p # <<>> /\ n = Last(p) /\ s = Turn(k, n)
    <3>1. t.child[s][n] = NULL
      BY <2>1 DEF Way
    <3> QED
      BY <1>1, <1>2, <2>1, <3>1
  <2>2. CASE ~ (p # <<>> /\ n = Last(p) /\ s = Turn(k, n))
    <3>1. t.child[s][n] \in N \cup {NULL}
      BY SortedParts
    <3>2. x.child[s][n] = t.child[s][n]
      BY <1>1, <1>2, <2>2
    <3> QED
      BY <2>2, <3>1, <3>2
  <2> QED
    BY <2>1, <2>2
<1>13. ASSUME NEW n \in N, NEW s \in Side
       PROVE  Part(E[n], Rank, n, s) =
                IF n \in W /\ s = Turn(k, n) THEN Part(D[n], Rank, n, s) \cup {k} ELSE Part(D[n], Rank, n, s)
  <2>1. n \in Key /\ Rank[n] \in Int /\ Rank[k] \in Int /\ Rank[n] # Rank[k]
    BY <1>1, <1>3, RankIs
  <2>2. \A X : Part(X \cup {k}, Rank, n, s) =
                 IF s = Turn(k, n) THEN Part(X, Rank, n, s) \cup {k} ELSE Part(X, Rank, n, s)
    BY <2>1 DEF Part, Turn, Side
  <2> QED
    BY <1>7, <2>2
<1>14. ASSUME NEW n \in N, NEW s \in Side
       PROVE  x.child[s][n] \in M \cup {NULL} /\ Below(E, x.child[s][n]) = Part(E[n], Rank, n, s)
  <2> DEFINE c == t.child[s][n]
  <2>0. c \in N \cup {NULL} /\ Below(D, c) = Part(D[n], Rank, n, s)
    BY DEF Sorted
  <2> HIDE DEF c
  <2>1. CASE p # <<>> /\ n = Last(p) /\ s = Turn(k, n)
    <3>1. x.child[s][n] = k /\ c = NULL
      BY <1>12, <2>1 DEF c
    <3>2. n \in W
      BY <2>1, WayParts DEF OnWay
    <3>3. Part(D[n], Rank, n, s) = {}
      BY <2>0, <3>1 DEF Below
    <3>4. Part(E[n], Rank, n, s) = {k}
      BY <1>13, <2>1, <3>2, <3>3
    <3> QED
      BY <1>4, <1>7, <3>1, <3>4 DEF Below, M
  <2>2. CASE ~ (p # <<>> /\ n = Last(p) /\ s = Turn(k, n))
    <3>1. x.child[s][n] = c
      BY <1>12, <2>2 DEF c
    <3>2. c # NULL => (c \in W <=> n \in W /\ s = Turn(k, n))
      <4>1. ASSUME c \in W
            PROVE  n \in W /\ s = Turn(k, n)
        <5>1. PICK i \in 1 .. Len(p) : p[i] = t.child[s][n]
          BY <4>1 DEF OnWay, c
        <5>2. i - 1 \in 1 .. Len(p) - 1 /\ n = p[i - 1] /\ s = Turn(k, n)
          BY <5>1, WayLinks
        <5>3. i - 1 \in 1 .. Len(p)
          BY <5>2, WayParts
        <5> QED
          BY <5>2, <5>3 DEF OnWay
      <4>2. ASSUME n \in W, s = Turn(k, n)
            PROVE  c \in W
        <5>1. PICK i \in 1 .. Len(p) : n = p[i]
          BY <4>2 DEF OnWay
        <5>2. Len(p) \in Nat /\ p # <<>> /\ Last(p) = p[Len(p)]
          BY <5>1, WayParts
        <5>3. i # Len(p)
          BY <2>2, <4>2, <5>1, <5>2
        <5>4. i \in 1 .. Len(p) - 1 /\ i + 1 \in 1 .. Len(p)
          BY <5>2, <5>3
        <5>5. p[i + 1] = t.child[Turn(k, p[i])][p[i]]
          BY <5>4 DEF Way
        <5> QED
          BY <4>2, <5>1, <5>4, <5>5 DEF OnWay, c
      <4> QED
        BY <4>1, <4>2
    <3>3. n \in W /\ s = Turn(k, n) => c # NULL
      <4>1. SUFFICES ASSUME n \in W, s = Turn(k, n)
                     PROVE  c # NULL
        OBVIOUS
      <4>2. PICK i \in 1 .. Len(p) : n = p[i]
        BY <4>1 DEF OnWay
      <4>3. Len(p) \in Nat /\ p # <<>> /\ Last(p) = p[Len(p)] /\ \A j \in 1 .. Len(p) : p[j] \in N
        BY <4>2, WayParts
      <4>4. i # Len(p)
        BY <2>2, <4>1, <4>2, <4>3
      <4>5. i \in 1 .. Len(p) - 1 /\ i + 1 \in 1 .. Len(p)
        BY <4>3, <4>4
      <4>6. p[i + 1] = t.child[Turn(k, p[i])][p[i]] /\ p[i + 1] \in N
        BY <4>3, <4>5 DEF Way
      <4> QED
        BY <1>1, <4>1, <4>2, <4>6 DEF c
    <3>4. Below(E, c) = IF n \in W /\ s = Turn(k, n) THEN Below(D, c) \cup {k} ELSE Below(D, c)
      <4>1. CASE c = NULL
        BY <3>3, <4>1 DEF Below
      <4>2. CASE c # NULL
        <5>1. c \in N
          BY <2>0, <4>2
        <5> QED
          BY <1>7, <3>2, <4>2, <5>1 DEF Below
      <4> QED
        BY <4>1, <4>2
    <3> QED
      BY <1>13, <2>0, <3>1, <3>4 DEF M
  <2> QED
    BY <2>1, <2>2
<1>15. \A n \in M, s \in Side :
         x.child[s][n] \in M \cup {NULL} /\ Below(E, x.child[s][n]) = Part(E[n], Rank, n, s)
  <2>1. \A s \in Side : Part(E[k], Rank, k, s) = {}
    <3>1. Rank[k] \in Int
      BY RankIs
    <3> QED
      BY <1>7, <3>1 DEF Part
  <2>2. \A s \in Side : x.child[s][k] \in M \cup {NULL} /\ Below(E, x.child[s][k]) = Part(E[k], Rank, k, s)
    BY <1>11, <2>1 DEF Below
  <2> QED
    BY <1>14, <2>2 DEF M
<1>16. ASSUME NEW m \in M, NEW n \in M, NEW r \in Side, NEW s \in Side,
              x.child[r][m] = x.child[s][n], x.child[s][n] # NULL
       PROVE  m = n
  <2>1. m \in N /\ n \in N
    BY <1>11, <1>16 DEF M
  <2>2. CASE x.child[s][n] = k
    <3>1. \A l \in N, u \in Side : x.child[u][l] = k => l = Last(p)
      <4>1. ASSUME NEW l \in N, NEW u \in Side, x.child[u][l] = k, l # Last(p) PROVE FALSE
        <5>1. x.child[u][l] \in N \cup {NULL}
          BY <1>12, <4>1
        <5> QED
          BY <1>1, <1>4, <4>1, <5>1
      <4> QED
        BY <4>1
    <3>2. m = Last(p) /\ n = Last(p)
      BY <1>16, <2>1, <2>2, <3>1
    <3> QED
      BY <3>2
  <2>3. CASE x.child[s][n] # k
    <3>1. t.child[r][m] = t.child[s][n] /\ t.child[s][n] # NULL
      BY <1>12, <1>16, <2>1, <2>3
    <3> QED
      BY <2>1, <3>1, OneParent
  <2> QED
    BY <2>2, <2>3
<1>17. x.red \subseteq M
  BY <1>1, <1>2 DEF M
<1>19. \A m, n \in M, r, s \in Side : x.child[r][m] = x.child[s][n] /\ x.child[s][n] # NULL => m = n
  BY <1>16
<1>20. x \in Trees
  BY <1>2
<1>18. Sorted(x, M, E, Rank)
  BY <1>5, <1>9, <1>10, <1>15, <1>17, <1>19, <1>20 DEF Sorted
<1> QED
  BY <1>18 DEF M, E

LEMMA HungBare ==
  ASSUME NEW t, NEW N, Bare(t, N), NEW k \in Key, k \notin N, NEW p, p # <<>> => Last(p) \in N,
         NEW x, HungIs(t, x, N, k, p)
  PROVE  Bare(x, N \cup {k})
BY DEF Bare, HungIs

(* A red node changes no number of black nodes.                            *)
LEMMA HungEven ==
  ASSUME NEW t, NEW N, NEW D, Sorted(t, N, D, Rank), Bare(t, N), NEW k \in Key, k \notin N,
         NEW p, Way(t, N, D, k, p), ~ Ends(p, k),
         NEW B, Even(t, N, B, NULL, "left"), NEW x, HungIs(t, x, N, k, p)
  PROVE  Even(x, N \cup {k}, HungHeights(N, B, k), NULL, "left")
<1> DEFINE M == N \cup {k}
           A == HungHeights(N, B, k)
<1>1. N \subseteq Key /\ NULL \notin N /\ NULL \notin Key /\ NULL \notin M
  BY SortedParts, NullIsNoKey
<1>2. A[k] = 0 /\ \A n \in N : A[n] = B[n] /\ n # k
  BY DEF HungHeights
<1>3. \A n \in N : Ink(x, n) = Ink(t, n)
  BY <1>2 DEF Ink, HungIs
<1>4. Ink(x, k) = 0
  BY DEF Ink, HungIs
<1>5. \A s \in Side : x.child[s][k] = NULL
  <2>1. p # <<>> => k # Last(p)
    BY WayParts
  <2>2. \A s \in Side : t.child[s][k] = NULL
    BY DEF Bare
  <2> QED
    BY <2>1, <2>2 DEF HungIs
<1> HIDE DEF A
<1>6. ASSUME NEW n \in N, NEW s \in Side
      PROVE  B[n] \in Nat /\ B[n] = Height(A, x.child[s][n]) + Ink(x, n) + 0
  <2>1. B[n] \in Nat /\ B[n] = Height(B, t.child[s][n]) + Ink(t, n) + 0
    BY <1>1, EvenParts
  <2>2. Height(A, x.child[s][n]) = Height(B, t.child[s][n])
    <3>1. CASE p # <<>> /\ n = Last(p) /\ s = Turn(k, n)
      <4>1. x.child[s][n] = k /\ t.child[s][n] = NULL
        BY <1>1, <3>1 DEF HungIs, Way
      <4> QED
        BY <1>1, <1>2, <4>1 DEF Height
    <3>2. CASE ~ (p # <<>> /\ n = Last(p) /\ s = Turn(k, n))
      <4>1. x.child[s][n] = t.child[s][n] /\ n \in Key
        BY <1>1, <3>2 DEF HungIs
      <4>2. t.child[s][n] \in N \cup {NULL}
        BY SortedParts
      <4> QED
        BY <1>2, <4>1, <4>2 DEF Height
    <3> QED
      BY <3>1, <3>2
  <2> QED
    BY <1>3, <2>1, <2>2
<1>7. \A s \in Side : A[k] = Height(A, x.child[s][k]) + Ink(x, k) + 0
  BY <1>2, <1>4, <1>5 DEF Height
<1>8. ASSUME NEW n \in M, NEW s \in Side
      PROVE  A[n] \in Nat /\ A[n] = Height(A, x.child[s][n]) + Ink(x, n) + Missing(n, s, NULL, "left")
  <2>1. Missing(n, s, NULL, "left") = 0
    BY <1>1 DEF Missing
  <2>2. CASE n = k
    BY <1>2, <1>7, <2>1, <2>2
  <2>3. CASE n # k
    <3>1. n \in N
      BY <2>3
    <3> QED
      BY <1>2, <1>6, <2>1, <3>1
  <2> QED
    BY <2>2, <2>3
<1>9. Even(x, M, A, NULL, "left")
  BY <1>8 DEF Even
<1> QED
  BY <1>9 DEF M, A

LEMMA HungApart ==
  ASSUME NEW t, NEW N, NEW D, Sorted(t, N, D, Rank), Bare(t, N), NEW k \in Key, k \notin N,
         NEW p, Way(t, N, D, k, p), RedApart(t, N, NULL), NEW x, HungIs(t, x, N, k, p)
  PROVE  RedApart(x, N \cup {k}, k)
<1>1. N \subseteq Key /\ NULL \notin N /\ NULL \notin Key /\ t.red \subseteq N
  BY SortedParts, NullIsNoKey
<1>2. ASSUME NEW n \in N, NEW s \in Side, n \in x.red, x.child[s][n] \in x.red, x.child[s][n] # k
      PROVE  FALSE
  <2>1. n \in Key /\ n # k
    BY <1>1
  <2>2. x.child[s][n] = t.child[s][n] /\ n \in t.red /\ t.child[s][n] \in t.red
    BY <1>2, <2>1 DEF HungIs
  <2>3. t.child[s][n] = NULL
    BY <2>2 DEF RedApart
  <2> QED
    BY <1>1, <2>2, <2>3
<1>3. \A s \in Side : x.child[s][k] = NULL
  <2>1. p # <<>> => k # Last(p)
    BY WayParts
  <2>2. \A s \in Side : t.child[s][k] = NULL
    BY DEF Bare
  <2> QED
    BY <2>1, <2>2 DEF HungIs
<1>4. NULL \notin x.red
  BY <1>1 DEF HungIs
<1> QED
  BY <1>2, <1>3, <1>4 DEF RedApart

LEMMA HungPath ==
  ASSUME NEW t, NEW N, NEW D, Sorted(t, N, D, Rank), NEW k \in Key, k \notin N,
         NEW p, Way(t, N, D, k, p), NEW x, HungIs(t, x, N, k, p), NEW q, q = Append(p, k)
  PROVE  HungOn(t, x, N \cup {k}, k, q)
<1> DEFINE M == N \cup {k}
<1>1. N \subseteq Key /\ M \subseteq Key /\ M \subseteq Node /\ NULL \notin N /\ NULL \notin Key
  BY SortedParts, NullIsNoKey DEF Node
<1>2. p \in Seq(N) /\ Len(p) \in Nat /\ \A i \in 1 .. Len(p) : p[i] \in N
  BY WayParts
<1>3. p # <<>> => p[1] = t.root /\ Last(p) = p[Len(p)] /\ Len(p) > 0
  BY WayParts
<1>4. p \in Seq(Node) /\ k \in Node
  BY <1>1, <1>2, MoreKeys
<1>5. Longer(Node, p, k, Append(p, k))
  BY <1>4, Appended
<1>6. /\ q \in Seq(Node) /\ q # <<>> /\ Len(q) = Len(p) + 1 /\ q[Len(p) + 1] = k
      /\ \A i \in 1 .. Len(p) : q[i] = p[i]
  BY <1>5 DEF Longer
<1> HIDE DEF M
<1>7. q[1] = x.root
  <2>1. CASE p = <<>>
    BY <1>6, <2>1 DEF HungIs
  <2>2. CASE p # <<>>
    <3>1. 1 \in 1 .. Len(p)
      BY <1>2, <1>3, <2>2
    <3> QED
      BY <1>3, <1>6, <2>2, <3>1 DEF HungIs
  <2> QED
    BY <2>1, <2>2
<1>8. ASSUME NEW i \in 1 .. Len(q) - 1
      PROVE  q[i] \in M /\ \E s \in Side : x.child[s][q[i]] = q[i + 1]
  <2>1. i \in 1 .. Len(p) /\ q[i] = p[i] /\ p[i] \in N /\ p # <<>>
    BY <1>2, <1>6
  <2>2. p[i] \in Key /\ Turn(k, p[i]) \in Side /\ p[i] \in M
    BY <1>1, <2>1, TurnIs DEF M
  <2>3. CASE i = Len(p)
    <3>1. p[i] = Last(p) /\ q[i + 1] = k
      BY <1>3, <1>6, <2>1, <2>3
    <3>2. x.child[Turn(k, p[i])][p[i]] = k
      BY <2>1, <2>2, <3>1 DEF HungIs
    <3> QED
      BY <2>1, <2>2, <3>1, <3>2
  <2>4. CASE i # Len(p)
    <3>1. i \in 1 .. Len(p) - 1 /\ i + 1 \in 1 .. Len(p)
      BY <1>2, <2>1, <2>4
    <3>2. q[i + 1] = t.child[Turn(k, p[i])][p[i]] /\ q[i + 1] \in N
      BY <1>2, <1>6, <3>1 DEF Way
    <3>3. x.child[Turn(k, p[i])][p[i]] = IF p[i] = Last(p) THEN k ELSE t.child[Turn(k, p[i])][p[i]]
      BY <2>1, <2>2 DEF HungIs
    <3>4. p[i] = Last(p) /\ ~ Ends(p, k) => t.child[Turn(k, p[i])][p[i]] = NULL
      BY <2>1 DEF Way
    <3>5. p[i] = Last(p) => ~ Ends(p, k)
      <4>1. Rank[p[i]] # Rank[k]
        BY <3>1 DEF Way
      <4> QED
        BY <4>1 DEF Ends
    <3>6. p[i] # Last(p)
      BY <1>1, <3>2, <3>4, <3>5
    <3> QED
      BY <2>1, <2>2, <3>2, <3>3, <3>6
  <2> QED
    BY <2>3, <2>4
<1>9. IsPath(x, M, q)
  BY <1>6, <1>7, <1>8 DEF IsPath
<1>10. Up(q, 0) = k
  <2>1. Len(q) > 0 /\ Len(q) - 0 = Len(p) + 1
    BY <1>2, <1>6
  <2> QED
    BY <1>6, <2>1 DEF Up
<1>11. x.root \in x.red /\ t.root \notin t.red => Len(q) = 1
  <2>1. SUFFICES ASSUME x.root \in x.red, t.root \notin t.red, p # <<>>
                 PROVE  FALSE
    BY <1>6
  <2>2. x.root = t.root /\ t.root = p[1] /\ 1 \in 1 .. Len(p)
    BY <1>2, <1>3, <2>1 DEF HungIs
  <2>3. t.root \in N /\ t.root # k
    BY <1>2, <2>2
  <2> QED
    BY <2>1, <2>2, <2>3 DEF HungIs
<1>12. HungOn(t, x, M, k, q)
  BY <1>6, <1>9, <1>10, <1>11 DEF HungOn
<1> QED
  BY <1>12 DEF M

(* The dictionary is balanced after an insertion.                          *)
LEMMA InsertedBalanced ==
  ASSUME NEW N, NEW D, NEW B, Balanced(tree, N, D, Rank, B), NEW k \in Key,
         ~ Ends(PathTo(tree, k), k)
  PROVE  k \notin N /\ \E E, A : Balanced(Inserted(k, PathTo(tree, k)), N \cup {k}, E, Rank, A)
<1> DEFINE p == PathTo(tree, k)
           x == MakeRed(Hung(tree, k, p), {k})
           q == Append(p, k)
           M == N \cup {k}
           E == HungSets(N, D, k, p)
           A == HungHeights(N, B, k)
<1>1. /\ Sorted(tree, N, D, Rank) /\ Bare(tree, N) /\ Even(tree, N, B, NULL, "left")
      /\ RedApart(tree, N, NULL) /\ tree.root \notin tree.red
  BY BalancedParts
<1>2. Way(tree, N, D, k, p)
  BY <1>1, WayIs
<1>3. Inserted(k, p) = value_dict_fix_after_insert(x, q)
  BY DEF Inserted, Hung
<1>15. ~ Ends(p, k)
  OBVIOUS
<1>4. x = MakeRed(Hung(tree, k, p), {k}) /\ q = Append(p, k)
  OBVIOUS
<1> HIDE DEF p, x, q
<1>5. k \notin N
  BY <1>2, <1>15 DEF Way
<1>6. HungIs(tree, x, N, k, p)
  BY <1>1, <1>2, <1>4, HungFacts
<1>7. Sorted(x, N \cup {k}, HungSets(N, D, k, p), Rank)
  BY <1>1, <1>2, <1>4, <1>15, HungSorts
<1>8. Bare(x, N \cup {k})
  <2>1. p # <<>> => Last(p) \in N
    BY <1>2, WayParts
  <2> QED
    BY <1>1, <1>5, <1>6, <2>1, HungBare
<1>9. Even(x, N \cup {k}, HungHeights(N, B, k), NULL, "left")
  BY <1>1, <1>2, <1>5, <1>6, <1>15, HungEven
<1>10. RedApart(x, N \cup {k}, k)
  BY <1>1, <1>2, <1>5, <1>6, HungApart
<1>19. HungOn(tree, x, N \cup {k}, k, q)
  BY <1>1, <1>2, <1>4, <1>5, <1>6, HungPath
<1>11. /\ IsPath(x, N \cup {k}, q) /\ q # <<>> /\ Up(q, 0) = k
       /\ x.root \in x.red /\ tree.root \notin tree.red => Len(q) = 1
  BY <1>19 DEF HungOn
<1>12. k \in M /\ k \in x.red
  BY <1>6 DEF HungIs
<1>16. Sorted(x, M, E, Rank) /\ Bare(x, M) /\ Even(x, M, A, NULL, "left") /\ RedApart(x, M, k)
  BY <1>7, <1>8, <1>9, <1>10
<1>17. IsPath(x, M, q)
  BY <1>11
<1> HIDE DEF M, E, A
<1>13. InsertState(x, M, E, Rank, A, q)
  BY <1>1, <1>11, <1>12, <1>16, <1>17 DEF InsertState
<1>14. \E F, C : InsertState(value_dict_fix_after_insert(x, q), M, F, Rank, C, <<>>)
  BY <1>11, <1>13, InsertFixed
<1>18. \E F, C : Balanced(Inserted(k, p), M, F, Rank, C)
  BY <1>3, <1>14 DEF Balanced
<1> QED
  BY <1>5, <1>18 DEF p, M

-----------------------------------------------------------------------------
(* The least node of a subtree *)

LEMMA LeftmostDescends ==
  ASSUME NEW t, NEW N, NEW D, NEW R, Sorted(t, N, D, R), NEW start \in N \cup {NULL}
  PROVE  /\ Descent(t, N, start, [n \in Key |-> "left"], {}, value_dict_leftmost_path(t, start))
         /\ Stopped(t, start, [n \in Key |-> "left"], {}, value_dict_leftmost_path(t, start))
<1> DEFINE Next1(p) == IF p = <<>> THEN start ELSE t.child["left"][Last(p)]
           G == [p \in Seq(Key) |-> IF Next1(p) = NULL THEN p ELSE Append(p, Next1(p))]
           turn == [n \in Key |-> "left"]
           Stop == {}
<1>1. value_dict_leftmost_path(t, start) = Repeat(G, <<>>, MaxRounds)
  BY DEF value_dict_leftmost_path
<1>2. N \subseteq Key
  BY SortedParts
<1>3. \A n \in N : turn[n] \in Side
  BY <1>2, Sides
<1>4. ASSUME NEW p \in Seq(N)
      PROVE  G[p] = IF Stopped(t, start, turn, Stop, p) THEN p
                    ELSE Append(p, NextNode(t, start, turn, p))
  <2>1. p \in Seq(Key)
    BY <1>2, MoreKeys
  <2>2. NextNode(t, start, turn, p) = Next1(p)
    <3>1. CASE p = <<>>
      BY <3>1 DEF NextNode
    <3>2. CASE p # <<>>
      <4>1. Last(p) \in Key
        BY <2>1, <3>2, LastIs
      <4> QED
        BY <3>2, <4>1 DEF NextNode
    <3> QED
      BY <3>1, <3>2
  <2>3. Last(p) \notin Stop
    OBVIOUS
  <2> HIDE DEF Next1, turn, Stop
  <2>4. G[p] = IF Next1(p) = NULL THEN p ELSE Append(p, Next1(p))
    BY <2>1
  <2> QED
    BY <2>2, <2>3, <2>4 DEF Stopped
<1> HIDE DEF G, turn, Stop
<1>5. /\ Descent(t, N, start, turn, Stop, Repeat(G, <<>>, MaxRounds))
      /\ Stopped(t, start, turn, Stop, Repeat(G, <<>>, MaxRounds))
  BY <1>2, <1>3, <1>4, DescentEnds
<1> QED
  BY <1>1, <1>5 DEF turn, Stop

LEMMA LeftWayIs ==
  ASSUME NEW t, NEW N, NEW D, NEW R, Sorted(t, N, D, R), NEW start \in N \cup {NULL},
         NEW w, w = value_dict_leftmost_path(t, start)
  PROVE  LeftWay(t, N, start, w)
<1> DEFINE turn == [n \in Key |-> "left"]
<1>1. Descent(t, N, start, turn, {}, w) /\ Stopped(t, start, turn, {}, w)
  BY LeftmostDescends
<1>2. N \subseteq Key /\ NULL \notin N /\ \A n \in N : turn[n] = "left"
  <2>1. N \subseteq Key /\ NULL \notin N
    BY SortedParts
  <2> QED
    BY <2>1
<1> HIDE DEF turn
<1>3. w \in Seq(N) /\ Len(w) \in Nat /\ \A i \in 1 .. Len(w) : w[i] \in N
  BY <1>1 DEF Descent
<1>4. w # <<>> => w[1] = start /\ Last(w) = w[Len(w)] /\ Last(w) \in N /\ Len(w) > 0
  <2>1. w # <<>> => Last(w) = w[Len(w)] /\ Last(w) \in N /\ Len(w) > 0
    BY <1>3, LastIs
  <2> QED
    BY <1>1, <2>1 DEF Descent
<1>5. NextNode(t, start, turn, w) = NULL
  BY <1>1 DEF Stopped
<1>6. w # <<>> => t.child["left"][Last(w)] = NULL
  BY <1>2, <1>4, <1>5 DEF NextNode
<1>7. w = <<>> <=> start = NULL
  <2>1. w = <<>> => start = NULL
    BY <1>5 DEF NextNode
  <2>2. w # <<>> => start \in N
    <3>1. w # <<>> => 1 \in 1 .. Len(w)
      BY <1>3, <1>4
    <3> QED
      BY <1>3, <1>4, <3>1
  <2> QED
    BY <1>2, <2>1, <2>2
<1>8. \A i \in 1 .. Len(w) - 1 : w[i + 1] = t.child["left"][w[i]]
  <2>1. ASSUME NEW i \in 1 .. Len(w) - 1
        PROVE  w[i + 1] = t.child["left"][w[i]]
    <3>1. i \in 1 .. Len(w)
      BY <1>3
    <3>2. turn[w[i]] = "left"
      BY <1>2, <1>3, <3>1
    <3> QED
      BY <1>1, <3>2 DEF Descent
  <2> QED
    BY <2>1
<1> QED
  BY <1>3, <1>4, <1>6, <1>7, <1>8 DEF LeftWay

(* A node that is less than the last one of the way, in the subtree, is    *)
(* not there: it would be below all of the way.                            *)
LEMMA LeftWayLeast ==
  ASSUME NEW t, NEW N, NEW D, NEW R, Sorted(t, N, D, R), NEW start \in N,
         NEW w, LeftWay(t, N, start, w), NEW m \in D[start]
  PROVE  /\ w # <<>> /\ Last(w) \in D[start]
         /\ R[Last(w)] <= R[m]
<1>1. N \subseteq Key /\ NULL \notin N /\ m \in N
  BY SortedParts
<1>2. /\ w \in Seq(N) /\ Len(w) \in Nat /\ w # <<>> /\ w[1] = start /\ Len(w) > 0
      /\ Last(w) = w[Len(w)] /\ Last(w) \in N /\ t.child["left"][Last(w)] = NULL
      /\ \A i \in 1 .. Len(w) : w[i] \in N
      /\ \A i \in 1 .. Len(w) - 1 : w[i + 1] = t.child["left"][w[i]]
  BY <1>1 DEF LeftWay
<1>3. "left" \in Side
  BY Sides
<1>4. \A n \in N : R[n] \in Int
  BY SortedParts
<1> DEFINE T == {i \in Nat : i + 1 <= Len(w) =>
                    /\ D[w[i + 1]] \subseteq D[start]
                    /\ m \in D[w[i + 1]] \/ \A x \in D[w[i + 1]] : R[x] <= R[m]}
<1>5. 0 \in T
  BY <1>2
<1>6. ASSUME NEW i \in Nat, i \in T
      PROVE  i + 1 \in T
  <2>1. SUFFICES ASSUME (i + 1) + 1 <= Len(w)
                 PROVE  /\ D[w[(i + 1) + 1]] \subseteq D[start]
                        /\ m \in D[w[(i + 1) + 1]] \/ \A x \in D[w[(i + 1) + 1]] : R[x] <= R[m]
    OBVIOUS
  <2> DEFINE n == w[i + 1]
             c == w[(i + 1) + 1]
  <2>2. i + 1 \in 1 .. Len(w) - 1 /\ i + 1 \in 1 .. Len(w) /\ (i + 1) + 1 \in 1 .. Len(w) /\ i + 1 <= Len(w)
    BY <1>2, <2>1
  <2>3. n \in N /\ c \in N /\ c = t.child["left"][n]
    BY <1>2, <2>2
  <2>4. D[n] \subseteq D[start] /\ (m \in D[n] \/ \A x \in D[n] : R[x] <= R[m])
    BY <1>6, <2>2
  <2> HIDE DEF n, c
  <2>5. D[c] = Part(D[n], R, n, "left")
    BY <1>1, <1>3, <2>3, ChildIs
  <2>6. n \in D[n] /\ D[n] \subseteq N
    BY <2>3, SortedParts
  <2>7. \A x \in D[c] : x \in D[n] /\ R[x] < R[n]
    BY <2>5 DEF Part
  <2>8. CASE m \in D[n] /\ R[m] < R[n]
    <3>1. m \in D[c]
      BY <2>5, <2>8 DEF Part
    <3> QED
      BY <2>4, <2>7, <3>1 DEF c
  <2>9. CASE ~ (m \in D[n] /\ R[m] < R[n])
    <3>1. \A x \in D[c] : R[x] <= R[m]
      <4>1. CASE m \in D[n]
        BY <1>1, <1>4, <2>3, <2>6, <2>7, <2>9, <4>1
      <4>2. CASE m \notin D[n]
        BY <2>4, <2>7, <4>2
      <4> QED
        BY <4>1, <4>2
    <3> QED
      BY <2>4, <2>7, <3>1 DEF c
  <2> QED
    BY <2>8, <2>9
<1>7. Nat \subseteq T
  <2> HIDE DEF T
  <2> QED
    BY <1>5, <1>6, AllNumbers
<1> DEFINE z == Last(w)
<1>8. D[z] \subseteq D[start] /\ (m \in D[z] \/ \A x \in D[z] : R[x] <= R[m])
  <2>1. Len(w) - 1 \in Nat /\ (Len(w) - 1) + 1 = Len(w) /\ Len(w) <= Len(w)
    BY <1>2
  <2>2. Len(w) - 1 \in T
    BY <1>7, <2>1
  <2> QED
    BY <1>2, <2>1, <2>2
<1> HIDE DEF z
<1>9. z \in N /\ t.child["left"][z] = NULL
  BY <1>2 DEF z
<1>10. z \in D[z] /\ D[z] \subseteq N
  BY <1>9, SortedParts
<1>11. Part(D[z], R, z, "left") = {}
  BY <1>3, <1>9 DEF Sorted, Below
<1>12. \A x \in D[z] : R[z] <= R[x]
  BY <1>4, <1>9, <1>10, <1>11 DEF Part
<1>13. R[z] <= R[m]
  BY <1>8, <1>10, <1>12
<1> QED
  BY <1>2, <1>8, <1>10, <1>13 DEF z

-----------------------------------------------------------------------------
(* Where the nodes of a subtree are *)

(* The last node of a path is on it only there.                            *)
LEMMA PathOnce ==
  ASSUME NEW t, NEW N, NEW D, NEW R, Sorted(t, N, D, R), NEW p, IsPath(t, N, p),
         NEW i \in 1 .. Len(p) - 1, NEW j \in 1 .. Len(p), i < j, p[j] # NULL
  PROVE  p[i] \in N /\ p[j] \in N /\ D[p[j]] \subseteq D[p[i]] /\ p[i] \notin D[p[j]] /\ p[i] # p[j]
<1>1. Len(p) \in Nat /\ \A a \in 1 .. Len(p) - 1 : p[a] \in N /\ \E s \in Side : t.child[s][p[a]] = p[a + 1]
  BY DEF IsPath
<1>2. \A n \in N : D[n] \subseteq N /\ n \in D[n] /\ n # NULL
  BY SortedParts
<1> DEFINE Good(a) == p[a] # NULL => /\ p[a] \in N /\ D[p[a]] \subseteq D[p[i]]
                                     /\ p[i] \notin D[p[a]]
           T == {d \in Nat : i + (d + 1) <= j => Good(i + (d + 1))}
<1>3. ASSUME NEW a \in 1 .. Len(p) - 1, D[p[a]] \subseteq D[p[i]], p[i] = p[a] \/ p[i] \notin D[p[a]]
      PROVE  Good(a + 1)
  <2> DEFINE n == p[a]
             c == p[a + 1]
  <2>1. SUFFICES ASSUME c # NULL
                 PROVE  c \in N /\ D[c] \subseteq D[p[i]] /\ p[i] \notin D[c]
    OBVIOUS
  <2>2. n \in N
    BY <1>1
  <2>3. PICK s \in Side : t.child[s][n] = c
    BY <1>1
  <2> HIDE DEF n, c
  <2>4. c \in N /\ D[c] \subseteq D[n] /\ n \notin D[c]
    BY <2>1, <2>2, <2>3, ChildIs
  <2> QED
    BY <1>3, <2>4 DEF n, c
<1> HIDE DEF Good
<1>4. 0 \in T
  <2>1. Good(i + 1)
    BY <1>3
  <2>2. i + (0 + 1) = i + 1
    OBVIOUS
  <2> QED
    BY <2>1, <2>2
<1>5. ASSUME NEW d \in Nat, d \in T
      PROVE  d + 1 \in T
  <2>1. SUFFICES ASSUME i + ((d + 1) + 1) <= j
                 PROVE  Good(i + ((d + 1) + 1))
    OBVIOUS
  <2> DEFINE a == i + (d + 1)
  <2>2. a \in 1 .. Len(p) - 1 /\ a <= j /\ a + 1 = i + ((d + 1) + 1)
    BY <1>1, <2>1
  <2>3. Good(a)
    BY <1>5, <2>2
  <2> HIDE DEF a
  <2>4. p[a] # NULL
    BY <1>1, <1>2, <2>2
  <2>5. D[p[a]] \subseteq D[p[i]] /\ p[i] \notin D[p[a]]
    BY <2>3, <2>4 DEF Good
  <2> QED
    BY <1>3, <2>2, <2>5
<1>6. Nat \subseteq T
  <2> HIDE DEF T
  <2> QED
    BY <1>4, <1>5, AllNumbers
<1>7. Good(j)
  <2>1. (j - i) - 1 \in Nat /\ i + (((j - i) - 1) + 1) = j /\ j <= j
    BY <1>1
  <2>2. (j - i) - 1 \in T
    BY <1>6, <2>1
  <2> QED
    BY <2>1, <2>2
<1> QED
  BY <1>1, <1>2, <1>7 DEF Good

(* The nodes of a subtree have no other between them.                      *)
LEMMA NoneBetween ==
  ASSUME NEW t, NEW N, NEW D, Sorted(t, N, D, Rank), NEW a \in N, NEW b \in D[a], NEW m \in N,
         Rank[a] < Rank[m], Rank[m] < Rank[b]
  PROVE  m \in D[a]
<1> DEFINE p == PathTo(t, a)
<1>1. N \subseteq Key /\ NULL \notin N /\ \A n \in N : D[n] \subseteq N /\ n \in D[n]
  BY SortedParts
<1>2. Way(t, N, D, a, p)
  BY <1>1, WayIs
<1> HIDE DEF p
<1>3. /\ Ends(p, a) /\ Len(p) \in Nat /\ Len(p) \in 1 .. Len(p) /\ 1 \in 1 .. Len(p) /\ p # <<>>
      /\ p[1] = t.root /\ Last(p) = p[Len(p)] /\ Last(p) \in N
      /\ \A i \in 1 .. Len(p) : p[i] \in N
  <2>1. Ends(p, a)
    BY <1>2 DEF Way
  <2>2. p # <<>>
    BY <2>1 DEF Ends
  <2> QED
    BY <1>2, <2>1, <2>2, WayParts
<1>4. Last(p) = a
  <2>1. Rank[Last(p)] = Rank[a]
    BY <1>3 DEF Ends
  <2> QED
    BY <1>3, <2>1 DEF Sorted, Ranked
<1>5. b \in N /\ Rank[a] \in Int /\ Rank[m] \in Int /\ Rank[b] \in Int
  BY <1>1, RankIs
<1> DEFINE T == {i \in Nat : i + 1 <= Len(p) => m \in D[p[i + 1]] /\ b \in D[p[i + 1]]}
<1>6. 0 \in T
  <2>1. t.root \in N /\ t.root # NULL /\ p[1] = t.root
    BY <1>1, <1>3
  <2>2. D[t.root] = N
    BY <2>1 DEF Sorted, Below
  <2> QED
    BY <1>5, <2>1, <2>2
<1>7. ASSUME NEW i \in Nat, i \in T
      PROVE  i + 1 \in T
  <2>1. SUFFICES ASSUME (i + 1) + 1 <= Len(p)
                 PROVE  m \in D[p[(i + 1) + 1]] /\ b \in D[p[(i + 1) + 1]]
    OBVIOUS
  <2> DEFINE n == p[i + 1]
             c == p[(i + 1) + 1]
             s == Turn(a, n)
  <2>2. i + 1 \in 1 .. Len(p) - 1 /\ i + 1 \in 1 .. Len(p) /\ (i + 1) + 1 \in 1 .. Len(p) /\ i + 1 <= Len(p)
    BY <1>3, <2>1
  <2>3. n \in N /\ c \in N /\ c = t.child[s][n] /\ Rank[n] # Rank[a]
    BY <1>2, <1>3, <2>2 DEF Way
  <2>4. m \in D[n] /\ b \in D[n] /\ a \in D[c]
    <3>1. a \in D[c]
      BY <1>2, <2>2 DEF Way
    <3> QED
      BY <1>7, <2>2, <3>1
  <2>5. s \in Side /\ (s = "left" <=> Rank[a] < Rank[n])
    BY <1>1, <2>3, TurnIs
  <2> HIDE DEF n, c, s
  <2>6. c # NULL /\ Rank[n] \in Int
    BY <1>1, <2>3, RankIs
  <2>7. D[c] = Part(D[n], Rank, n, s)
    BY <2>3, <2>5, <2>6, ChildIs
  <2>8. b \in D[c]
    <3>1. D[a] \subseteq D[c]
      <4>1. IsPath(t, N, p)
        <5>1. a \in Key
          BY <1>1
        <5> QED
          BY <1>2, <1>3, <5>1, WayIsPath
      <4>2. CASE (i + 1) + 1 = Len(p)
        BY <1>3, <1>4, <4>2 DEF c
      <4>3. CASE (i + 1) + 1 # Len(p)
        <5>1. (i + 1) + 1 \in 1 .. Len(p) - 1 /\ (i + 1) + 1 < Len(p)
          BY <1>3, <2>2, <4>3
        <5>2. p[Len(p)] # NULL
          BY <1>1, <1>3
        <5>3. D[p[Len(p)]] \subseteq D[p[(i + 1) + 1]]
          BY <1>3, <4>1, <5>1, <5>2, PathOnce
        <5> QED
          BY <1>3, <1>4, <5>3 DEF c
      <4> QED
        BY <4>2, <4>3
    <3> QED
      BY <3>1
  <2>9. m \in D[c]
    BY <1>5, <2>3, <2>4, <2>5, <2>6, <2>7, <2>8 DEF Part
  <2> QED
    BY <2>8, <2>9 DEF c
<1>8. Nat \subseteq T
  <2> HIDE DEF T
  <2> QED
    BY <1>6, <1>7, AllNumbers
<1>9. Len(p) - 1 \in Nat /\ (Len(p) - 1) + 1 = Len(p) /\ Len(p) <= Len(p)
  BY <1>3
<1>10. Len(p) - 1 \in T
  BY <1>8, <1>9
<1> QED
  BY <1>3, <1>4, <1>9, <1>10

-----------------------------------------------------------------------------
(* Two nodes that change places *)

LEMMA SwapIs ==
  ASSUME NEW N, N \subseteq Key, NEW a \in N, NEW b \in N
  PROVE  SwapFacts(N, Swap(a, b))
BY NullIsNoKey DEF SwapFacts, Swap, Node

SwapSets(N, D, f)    == [n \in N |-> {m \in N : f[m] \in D[f[n]]}]
SwapRanks(R, f)      == [n \in Key |-> R[f[n]]]

LEMMA SwapSorts ==
  ASSUME NEW t, NEW N, NEW D, NEW R, Sorted(t, N, D, R), NEW f, SwapFacts(N, f), NEW r, Swaps(t, r, f)
  PROVE  Sorted(r, N, SwapSets(N, D, f), SwapRanks(R, f))
<1> DEFINE E == SwapSets(N, D, f)
           Q == SwapRanks(R, f)
<1>1. N \subseteq Key /\ NULL \notin N /\ NULL \notin Key /\ t.red \subseteq N /\ R \in [Key -> Int]
  BY SortedParts, NullIsNoKey
<1>2. /\ \A m \in Node : f[m] \in Node /\ f[f[m]] = m
      /\ \A m \in Key : f[m] \in Key
      /\ \A m \in N : f[m] \in N
      /\ f[NULL] = NULL /\ \A m \in Key : m \in Node
      /\ \A m \in Key : f[f[m]] = m
      /\ \A m \in Key \ N : f[m] = m
  BY DEF SwapFacts, Node
<1>3. \A n \in N : E[n] = {m \in N : f[m] \in D[f[n]]}
  BY DEF SwapSets
<1>4. Q \in [Key -> Int] /\ \A n \in Key : Q[n] = R[f[n]]
  BY <1>1, <1>2 DEF SwapRanks
<1> HIDE DEF E, Q
<1>5. r \in Trees /\ r.root = f[t.root] /\ r.red \subseteq N
  <2>1. ASSUME NEW m \in Key, f[m] \in t.red
        PROVE  m \in N
    BY <1>1, <1>2, <2>1
  <2> QED
    BY <2>1 DEF Swaps
<1>6. \A s \in Side, m \in Key : r.child[s][m] = f[t.child[s][f[m]]]
  BY <1>2 DEF Swaps
<1>7. Ranked(N, Q)
  <2>1. ASSUME NEW m \in N, NEW n \in N, Q[m] = Q[n]
        PROVE  m = n
    <3>1. R[f[m]] = R[f[n]] /\ f[m] \in N /\ f[n] \in N
      BY <1>1, <1>2, <1>4, <2>1
    <3>2. f[m] = f[n]
      BY <3>1 DEF Sorted, Ranked
    <3>3. f[f[m]] = m /\ f[f[n]] = n
      BY <1>1, <1>2
    <3> QED
      BY <3>2, <3>3
  <2> QED
    BY <1>1, <1>4, <2>1 DEF Ranked
<1>8. \A n \in N : n \in E[n] /\ E[n] \subseteq N
  <2>1. \A n \in N : n \in D[n]
    BY SortedParts
  <2> QED
    BY <1>2, <1>3, <2>1
<1>9. ASSUME NEW c \in N \cup {NULL}
      PROVE  f[c] \in N \cup {NULL} /\ Below(E, f[c]) = {m \in N : f[m] \in Below(D, c)}
  <2>1. CASE c = NULL
    BY <1>2, <2>1 DEF Below
  <2>2. CASE c # NULL
    <3>1. c \in N /\ f[c] \in N /\ f[f[c]] = c /\ f[c] # NULL
      BY <1>1, <1>2, <2>2
    <3>2. E[f[c]] = {m \in N : f[m] \in D[c]}
      BY <1>3, <3>1
    <3> QED
      BY <2>2, <3>1, <3>2 DEF Below
  <2> QED
    BY <2>1, <2>2
<1>10. r.root \in N \cup {NULL} /\ Below(E, r.root) = N
  <2>1. t.root \in N \cup {NULL} /\ Below(D, t.root) = N
    BY DEF Sorted
  <2>2. Below(E, f[t.root]) = {m \in N : f[m] \in N} /\ f[t.root] \in N \cup {NULL}
    BY <1>9, <2>1
  <2> QED
    BY <1>2, <1>5, <2>2
<1>11. ASSUME NEW n \in N, NEW s \in Side
       PROVE  r.child[s][n] \in N \cup {NULL} /\ Below(E, r.child[s][n]) = Part(E[n], Q, n, s)
  <2> DEFINE h == f[n]
             c == t.child[s][h]
  <2>1. h \in N /\ r.child[s][n] = f[c] /\ n \in Key
    BY <1>1, <1>2, <1>6
  <2>2. c \in N \cup {NULL} /\ Below(D, c) = Part(D[h], R, h, s)
    BY <2>1 DEF Sorted
  <2>3. E[n] = {m \in N : f[m] \in D[h]}
    BY <1>3
  <2>4. \A m \in N : Q[m] = R[f[m]] /\ m \in Key
    BY <1>1, <1>4
  <2>5. Q[n] = R[h]
    BY <2>1, <2>4
  <2> HIDE DEF h, c
  <2>6. f[c] \in N \cup {NULL} /\ Below(E, f[c]) = {m \in N : f[m] \in Part(D[h], R, h, s)}
    BY <1>9, <2>2
  <2>7. Part(E[n], Q, n, s) = {m \in N : f[m] \in Part(D[h], R, h, s)}
    BY <2>3, <2>4, <2>5 DEF Part
  <2> QED
    BY <2>1, <2>6, <2>7
<1>12. \A m, n \in N, q, s \in Side : r.child[q][m] = r.child[s][n] /\ r.child[s][n] # NULL => m = n
  <2>1. ASSUME NEW m \in N, NEW n \in N, NEW q \in Side, NEW s \in Side,
               r.child[q][m] = r.child[s][n], r.child[s][n] # NULL
        PROVE  m = n
    <3>1. f[m] \in N /\ f[n] \in N /\ f[f[m]] = m /\ f[f[n]] = n
      BY <1>1, <1>2
    <3>2. f[t.child[q][f[m]]] = f[t.child[s][f[n]]] /\ f[t.child[s][f[n]]] # NULL
      BY <1>1, <1>6, <2>1
    <3>3. t.child[q][f[m]] \in Node /\ t.child[s][f[n]] \in Node
      <4>1. t.child[q][f[m]] \in N \cup {NULL} /\ t.child[s][f[n]] \in N \cup {NULL}
        BY <3>1, SortedParts
      <4> QED
        BY <1>1, <4>1 DEF Node
    <3>4. t.child[q][f[m]] = t.child[s][f[n]] /\ t.child[s][f[n]] # NULL
      BY <1>2, <3>2, <3>3
    <3>5. f[m] = f[n]
      BY <3>1, <3>4, OneParent
    <3> QED
      BY <3>1, <3>5
  <2> QED
    BY <2>1
<1>13. Sorted(r, N, E, Q)
  BY <1>5, <1>7, <1>8, <1>10, <1>11, <1>12 DEF Sorted
<1> QED
  BY <1>13 DEF E, Q

(* Colors and heights go with the places.                                  *)
LEMMA SwapBalances ==
  ASSUME NEW t, NEW N, NEW D, NEW R, NEW B, Balanced(t, N, D, R, B), NEW f, SwapFacts(N, f),
         NEW r, Swaps(t, r, f)
  PROVE  Balanced(r, N, SwapSets(N, D, f), SwapRanks(R, f), SwapHeights(N, B, f))
<1> DEFINE E == SwapSets(N, D, f)
           Q == SwapRanks(R, f)
           A == SwapHeights(N, B, f)
<1>1. /\ Sorted(t, N, D, R) /\ Bare(t, N) /\ Even(t, N, B, NULL, "left")
      /\ RedApart(t, N, NULL) /\ t.root \notin t.red
  BY BalancedParts
<1>2. Sorted(r, N, E, Q)
  BY <1>1, SwapSorts
<1>3. N \subseteq Key /\ NULL \notin N /\ NULL \notin Key /\ t.red \subseteq N
  BY <1>1, SortedParts, NullIsNoKey
<1>4. /\ \A m \in Node : f[m] \in Node /\ f[f[m]] = m
      /\ \A m \in N : f[m] \in N
      /\ f[NULL] = NULL /\ \A m \in Key : m \in Node /\ f[f[m]] = m /\ f[m] \in Key
      /\ \A m \in Key \ N : f[m] = m
  BY DEF SwapFacts, Node
<1>5. \A n \in N : A[n] = B[f[n]]
  BY DEF SwapHeights
<1> HIDE DEF E, Q, A
<1>6. \A s \in Side, m \in Key : r.child[s][m] = f[t.child[s][f[m]]]
  BY <1>4 DEF Swaps
<1>7. \A n \in N, s \in Side : t.child[s][n] \in N \cup {NULL} /\ t.child[s][n] \in Node
  <2>1. \A n \in N, s \in Side : t.child[s][n] \in N \cup {NULL}
    BY <1>1, SortedParts
  <2> QED
    BY <1>3, <2>1 DEF Node
<1>8. \A c \in Node : f[c] \in r.red <=> c \in t.red
  <2>1. ASSUME NEW c \in Node
        PROVE  f[c] \in r.red <=> c \in t.red
    <3>1. CASE c = NULL
      BY <1>3, <1>4, <3>1 DEF Swaps
    <3>2. CASE c # NULL
      <4>1. c \in Key /\ f[c] \in Key /\ f[f[c]] = c
        BY <1>4, <3>2 DEF Node
      <4> QED
        BY <4>1 DEF Swaps
    <3> QED
      BY <3>1, <3>2
  <2> QED
    BY <2>1
<1>9. \A n \in N : n \in r.red <=> f[n] \in t.red
  BY <1>3 DEF Swaps
<1>10. Bare(r, N)
  <2>1. ASSUME NEW k \in Key \ N, NEW s \in Side
        PROVE  r.child[s][k] = NULL
    <3>1. f[k] = k /\ t.child[s][k] = NULL
      BY <1>1, <1>4 DEF Bare
    <3> QED
      BY <1>4, <1>6, <3>1
  <2> QED
    BY <2>1 DEF Bare
<1>11. Even(r, N, A, NULL, "left")
  <2>1. ASSUME NEW n \in N, NEW s \in Side
        PROVE  A[n] \in Nat /\ A[n] = Height(A, r.child[s][n]) + Ink(r, n) + Missing(n, s, NULL, "left")
    <3> DEFINE h == f[n]
               c == t.child[s][h]
    <3>1. h \in N /\ r.child[s][n] = f[c] /\ A[n] = B[h]
      BY <1>3, <1>4, <1>5, <1>6
    <3>2. B[h] \in Nat /\ B[h] = Height(B, c) + Ink(t, h) + 0
      <4> HIDE DEF h
      <4> QED
        BY <1>1, <1>3, <3>1, EvenParts
    <3>3. Ink(r, n) = Ink(t, h)
      BY <1>9 DEF Ink
    <3>4. c \in N \cup {NULL}
      BY <1>7, <3>1
    <3> HIDE DEF h, c
    <3>5. Height(A, f[c]) = Height(B, c)
      <4>1. CASE c = NULL
        BY <1>4, <4>1 DEF Height
      <4>2. CASE c # NULL
        <5>1. c \in N /\ f[c] \in N /\ f[f[c]] = c
          BY <1>3, <1>4, <3>4, <4>2
        <5> QED
          BY <1>3, <1>5, <4>2, <5>1 DEF Height
      <4> QED
        BY <4>1, <4>2
    <3>6. Missing(n, s, NULL, "left") = 0
      BY <1>3, NoMissing
    <3> QED
      BY <3>1, <3>2, <3>3, <3>5, <3>6
  <2> QED
    BY <2>1 DEF Even
<1>12. RedApart(r, N, NULL)
  <2>1. ASSUME NEW n \in N, NEW s \in Side, n \in r.red, r.child[s][n] \in r.red
        PROVE  FALSE
    <3> DEFINE c == t.child[s][f[n]]
    <3>1. f[n] \in N /\ c \in Node /\ r.child[s][n] = f[c]
      BY <1>3, <1>4, <1>6, <1>7
    <3>2. f[n] \in t.red /\ c \in t.red
      BY <1>8, <1>9, <2>1, <3>1
    <3>3. c = NULL
      BY <1>1, <3>1, <3>2 DEF RedApart
    <3> QED
      BY <1>3, <3>2, <3>3
  <2> QED
    BY <2>1 DEF RedApart
<1>13. r.root \notin r.red
  <2>1. t.root \in Node /\ r.root = f[t.root]
    <3>1. t.root \in N \cup {NULL}
      BY <1>1 DEF Sorted
    <3> QED
      BY <1>3, <3>1 DEF Swaps, Node
  <2> QED
    BY <1>1, <1>8, <2>1
<1>14. Balanced(r, N, E, Q, A)
  BY <1>2, <1>10, <1>11, <1>12, <1>13, BalancedParts
<1> QED
  BY <1>14 DEF E, Q, A

LEMMA SwapPath ==
  ASSUME NEW t, NEW N, NEW D, NEW R, Sorted(t, N, D, R), NEW f, SwapFacts(N, f), NEW r, Swaps(t, r, f),
         NEW p, IsPath(t, N, p), NEW q \in Seq(Node), Len(q) = Len(p),
         \A i \in 1 .. Len(p) : q[i] = f[p[i]]
  PROVE  IsPath(r, N, q)
<1>1. N \subseteq Key /\ \A m \in N : f[m] \in N
  BY SortedParts DEF SwapFacts
<1>2. p \in Seq(Node) /\ p # <<>> /\ Len(p) \in Nat /\ Len(p) # 0 /\ p[1] = t.root
  BY DEF IsPath
<1>3. 1 \in 1 .. Len(p)
  BY <1>2
<1>4. q # <<>> /\ q[1] = r.root
  BY <1>2, <1>3 DEF Swaps
<1>5. ASSUME NEW i \in 1 .. Len(q) - 1
      PROVE  q[i] \in N /\ \E s \in Side : r.child[s][q[i]] = q[i + 1]
  <2>1. i \in 1 .. Len(p) - 1 /\ i \in 1 .. Len(p) /\ i + 1 \in 1 .. Len(p)
    BY <1>2
  <2>2. PICK s \in Side : p[i] \in N /\ t.child[s][p[i]] = p[i + 1]
    BY <2>1 DEF IsPath
  <2>3. r.child[s][f[p[i]]] = f[t.child[s][p[i]]]
    BY <1>1, <2>2 DEF Swaps
  <2> QED
    BY <1>1, <2>1, <2>2, <2>3
<1> QED
  BY <1>4, <1>5 DEF IsPath

-----------------------------------------------------------------------------
(* A node that changes places with its successor *)

LEMMA JoinedIs ==
  ASSUME NEW S, NEW p \in Seq(S), NEW w \in Seq(S)
  PROVE  Joined(S, p, w, p \o w)
<1> DEFINE z == p \o w
<1>1. /\ z \in Seq(S) /\ Len(z) = Len(p) + Len(w)
      /\ \A i \in 1 .. Len(p) + Len(w) : z[i] = IF i <= Len(p) THEN p[i] ELSE w[i - Len(p)]
  BY ConcatProperties
<1>2. Len(p) \in Nat /\ Len(w) \in Nat
  OBVIOUS
<1> HIDE DEF z
<1>3. \A i \in 1 .. Len(p) : z[i] = p[i]
  <2>1. ASSUME NEW i \in 1 .. Len(p)
        PROVE  z[i] = p[i]
    <3>1. i \in 1 .. Len(p) + Len(w) /\ i <= Len(p)
      BY <1>2
    <3> QED
      BY <1>1, <3>1
  <2> QED
    BY <2>1
<1>4. \A j \in 1 .. Len(w) : z[Len(p) + j] = w[j]
  <2>1. ASSUME NEW j \in 1 .. Len(w)
        PROVE  z[Len(p) + j] = w[j]
    <3>1. Len(p) + j \in 1 .. Len(p) + Len(w) /\ ~ (Len(p) + j <= Len(p)) /\ (Len(p) + j) - Len(p) = j
      BY <1>2
    <3> QED
      BY <1>1, <3>1
  <2> QED
    BY <2>1
<1>5. Joined(S, p, w, z)
  BY <1>1, <1>2, <1>3, <1>4 DEF Joined
<1> QED
  BY <1>5 DEF z

LEMMA FrontIs ==
  ASSUME NEW S, NEW p \in Seq(S), p # <<>>
  PROVE  Shorter(S, p, Front(p))
<1> DEFINE q == SubSeq(p, 1, Len(p) - 1)
<1>1. Len(p) \in Nat /\ Len(p) > 0
  BY LastIs
<1>2. Len(p) - 1 \in Nat /\ Len(p) - 1 <= Len(p)
  BY <1>1
<1>3. q \in Seq(S) /\ Len(q) = Len(p) - 1 /\ \A i \in 1 .. Len(p) - 1 : q[i] = p[i]
  <2> DEFINE n == Len(p) - 1
  <2>1. n \in Nat /\ n <= Len(p)
    BY <1>2
  <2> HIDE DEF n
  <2>2. /\ SubSeq(p, 1, n) \in Seq(S) /\ Len(SubSeq(p, 1, n)) = n
        /\ \A i \in 1 .. n : SubSeq(p, 1, n)[i] = p[i]
    BY <1>1, <2>1
  <2> QED
    BY <2>2 DEF n
<1>4. q = Front(p)
  BY DEF Front
<1> HIDE DEF q
<1> QED
  BY <1>1, <1>2, <1>3, <1>4 DEF Shorter

LEMMA SunkPathIs ==
  ASSUME NEW path \in Seq(Node), NEW way \in Seq(Node), path # <<>>, way # <<>>,
         NEW successor \in Node, NEW node \in Node,
         NEW q, q = SunkPath(path, way, successor, node)
  PROVE  Renamed(q, path, way, successor, node)
<1> DEFINE a == Front(path)
           b == Front(way)
           o == <<successor>>
           e == <<node>>
           ao  == a \o o
           aob == ao \o b
           z   == aob \o e
<1>1. q = z
  BY DEF SunkPath
<1>2. /\ o \in Seq(Node) /\ Len(o) = 1 /\ o[1] = successor
      /\ e \in Seq(Node) /\ Len(e) = 1 /\ e[1] = node
  OBVIOUS
<1>3. Shorter(Node, path, a) /\ Shorter(Node, way, b)
  BY FrontIs
<1>4. a \in Seq(Node) /\ b \in Seq(Node)
  BY <1>3 DEF Shorter
<1> HIDE DEF a, b, o, e
<1>5. Joined(Node, a, o, ao)
  BY <1>2, <1>4, JoinedIs
<1>6. ao \in Seq(Node)
  BY <1>5 DEF Joined
<1> HIDE DEF ao
<1>7. Joined(Node, ao, b, aob)
  BY <1>4, <1>6, JoinedIs
<1>8. aob \in Seq(Node)
  BY <1>7 DEF Joined
<1> HIDE DEF aob
<1>9. Joined(Node, aob, e, z)
  BY <1>2, <1>8, JoinedIs
<1> HIDE DEF z
<1> DEFINE L == Len(path)
           W == Len(way)
<1>10. L \in Nat /\ W \in Nat /\ L > 0 /\ W > 0 /\ Len(a) = L - 1 /\ Len(b) = W - 1
       /\ (\A i \in 1 .. L - 1 : a[i] = path[i]) /\ (\A j \in 1 .. W - 1 : b[j] = way[j])
  BY <1>3 DEF Shorter
<1> HIDE DEF L, W
<1>11. /\ Len(ao) = L /\ (\A i \in 1 .. L - 1 : ao[i] = path[i]) /\ ao[L] = successor
  <2>1. Len(ao) = (L - 1) + 1 /\ (L - 1) + 1 = L /\ 1 \in 1 .. 1
    BY <1>2, <1>5, <1>10 DEF Joined
  <2>2. ao[(L - 1) + 1] = o[1]
    BY <1>2, <1>5, <1>10, <2>1 DEF Joined
  <2>3. \A i \in 1 .. L - 1 : ao[i] = a[i]
    BY <1>5, <1>10 DEF Joined
  <2> QED
    BY <1>2, <1>10, <2>1, <2>2, <2>3
<1>12. /\ Len(aob) = L + (W - 1) /\ (\A i \in 1 .. L : aob[i] = ao[i])
       /\ \A j \in 1 .. W - 1 : aob[L + j] = way[j]
  BY <1>7, <1>10, <1>11 DEF Joined
<1>13. /\ Len(z) = (L + (W - 1)) + 1 /\ (\A i \in 1 .. L + (W - 1) : z[i] = aob[i])
       /\ z[(L + (W - 1)) + 1] = node
  BY <1>2, <1>9, <1>12 DEF Joined
<1>14. (L + (W - 1)) + 1 = L + W /\ L \in 1 .. L /\ L \in 1 .. L + (W - 1)
  BY <1>10
<1>15. \A i \in 1 .. L - 1 : z[i] = path[i]
  <2>1. ASSUME NEW i \in 1 .. L - 1
        PROVE  z[i] = path[i]
    <3>1. i \in 1 .. L /\ i \in 1 .. L + (W - 1)
      BY <1>10
    <3> QED
      BY <1>11, <1>12, <1>13, <3>1
  <2> QED
    BY <2>1
<1>16. \A j \in 1 .. W - 1 : z[L + j] = way[j]
  <2>1. ASSUME NEW j \in 1 .. W - 1
        PROVE  z[L + j] = way[j]
    <3>1. L + j \in 1 .. L + (W - 1)
      BY <1>10
    <3> QED
      BY <1>12, <1>13, <3>1
  <2> QED
    BY <2>1
<1>17. z[L] = successor
  BY <1>11, <1>12, <1>13, <1>14
<1>18. z \in Seq(Node)
  BY <1>9 DEF Joined
<1> QED
  BY <1>1, <1>10, <1>13, <1>14, <1>15, <1>16, <1>17, <1>18 DEF Renamed, L, W

LEMMA RelinkIs ==
  ASSUME NEW t \in Trees, NEW parent \in Node, NEW node, NEW to \in Node,
         NEW x, x = Relink(t, parent, node, to)
  PROVE  /\ x \in Trees /\ x.red = t.red
         /\ x.root = IF parent = NULL THEN to ELSE t.root
         /\ \A s \in Side, m \in Key :
              x.child[s][m] = IF m = parent /\ s = SideOf(t, parent, node) THEN to ELSE t.child[s][m]
<1>1. CASE parent = NULL
  <2>1. x = SetRoot(t, to)
    BY <1>1 DEF Relink
  <2> QED
    BY <1>1, <2>1, SetRootIs, NullIsNoKey
<1>2. CASE parent # NULL
  <2> DEFINE side == SideOf(t, parent, node)
  <2>1. side \in Side /\ parent \in Key
    BY <1>2 DEF SideOf, Side, Node
  <2>2. x = SetChild(t, side, parent, to)
    BY <1>2 DEF Relink
  <2> HIDE DEF side
  <2>3. /\ x \in Trees /\ x.root = t.root /\ x.red = t.red
        /\ \A s \in Side, m \in Key : x.child[s][m] = IF s = side /\ m = parent THEN to ELSE t.child[s][m]
    BY <2>1, <2>2, SetChildIs
  <2> QED
    BY <1>2, <2>3 DEF side
<1> QED
  BY <1>1, <1>2

LEMMA SwapColorsIs ==
  ASSUME NEW t \in Trees, NEW a \in Key, NEW b \in Key, NEW x, x = SwapColors(t, a, b)
  PROVE  ColorsSwapped(t, x, a, b)
<1>1. x = [t EXCEPT !.red = {n \in Key : (CASE n = a -> b [] n = b -> a [] OTHER -> n) \in t.red}]
  BY DEF SwapColors
<1>2. \A m \in Key : (CASE m = a -> b [] m = b -> a [] OTHER -> m) = Swap(a, b)[m]
  BY DEF Swap, Node
<1>3. {n \in Key : (CASE n = a -> b [] n = b -> a [] OTHER -> n) \in t.red} = {m \in Key : Swap(a, b)[m] \in t.red}
  BY <1>2
<1>4. x = [t EXCEPT !.red = {m \in Key : Swap(a, b)[m] \in t.red}]
  BY <1>1, <1>3
<1> DEFINE reds == {m \in Key : Swap(a, b)[m] \in t.red}
<1>5. reds \subseteq Key /\ x = [t EXCEPT !.red = reds]
  BY <1>4
<1> HIDE DEF reds
<1>6. x \in Trees /\ x.root = t.root /\ x.child = t.child /\ x.red = reds
  BY <1>5 DEF Trees
<1> QED
  BY <1>6 DEF reds, ColorsSwapped

(* The way to the least node stays in the subtree.                         *)
LEMMA LeftWayBelow ==
  ASSUME NEW t, NEW N, NEW D, NEW R, Sorted(t, N, D, R), NEW start \in N,
         NEW w, LeftWay(t, N, start, w), NEW j \in 1 .. Len(w)
  PROVE  D[w[j]] \subseteq D[start] /\ w[j] \in D[start]
<1>1. N \subseteq Key /\ NULL \notin N /\ \A n \in N : n \in D[n]
  BY SortedParts
<1>2. /\ Len(w) \in Nat /\ w # <<>> /\ w[1] = start /\ Len(w) > 0
      /\ \A i \in 1 .. Len(w) : w[i] \in N
      /\ \A i \in 1 .. Len(w) - 1 : w[i + 1] = t.child["left"][w[i]]
  BY <1>1 DEF LeftWay
<1> DEFINE T == {i \in Nat : i + 1 <= Len(w) => D[w[i + 1]] \subseteq D[start]}
<1>3. 0 \in T
  BY <1>2
<1>4. ASSUME NEW i \in Nat, i \in T
      PROVE  i + 1 \in T
  <2>1. SUFFICES ASSUME (i + 1) + 1 <= Len(w)
                 PROVE  D[w[(i + 1) + 1]] \subseteq D[start]
    OBVIOUS
  <2> DEFINE n == w[i + 1]
             c == w[(i + 1) + 1]
  <2>2. i + 1 \in 1 .. Len(w) - 1 /\ i + 1 \in 1 .. Len(w) /\ (i + 1) + 1 \in 1 .. Len(w) /\ i + 1 <= Len(w)
    BY <1>2, <2>1
  <2>3. n \in N /\ c \in N /\ c = t.child["left"][n] /\ D[n] \subseteq D[start]
    BY <1>2, <1>4, <2>2
  <2> HIDE DEF n, c
  <2>4. D[c] \subseteq D[n]
    BY <1>1, <2>3, ChildIs, Sides
  <2> QED
    BY <2>3, <2>4 DEF c
<1>5. Nat \subseteq T
  <2> HIDE DEF T
  <2> QED
    BY <1>3, <1>4, AllNumbers
<1>6. j - 1 \in Nat /\ (j - 1) + 1 = j /\ j <= Len(w)
  BY <1>2
<1>7. j - 1 \in T
  BY <1>5, <1>6
<1> QED
  BY <1>1, <1>2, <1>6, <1>7

LEMMA SinkingIs ==
  ASSUME NEW t, NEW N, NEW D, NEW R, Sorted(t, N, D, R), NEW path, IsPath(t, N, path),
         NEW node \in N, node = Last(path), NEW right, right = t.child["right"][node], right # NULL,
         NEW left, left = t.child["left"][node],
         NEW way, way = value_dict_leftmost_path(t, right),
         NEW successor, successor = Last(way), NEW below, below = t.child["right"][successor],
         NEW parent, parent = Up(path, 1)
  PROVE  Sinking(t, N, D, path, node, parent, right, left, way, successor, below)
<1>1. /\ N \subseteq Key /\ NULL \notin N /\ t \in Trees
      /\ \A n \in N : D[n] \subseteq N /\ n \in D[n]
      /\ \A n \in N, s \in Side : t.child[s][n] \in N \cup {NULL}
  BY SortedParts
<1>2. "left" \in Side /\ "right" \in Side /\ Other("right") = "left"
  BY Sides
<1>3. right \in N /\ right # node /\ node \notin D[right] /\ D[right] \subseteq D[node]
  BY <1>1, <1>2, ChildIs
<1>4. left \in N \cup {NULL} /\ left \in Node
  <2>1. left \in N \cup {NULL}
    BY <1>1, <1>2
  <2> QED
    BY <1>1, <2>1 DEF Node
<1>5. LeftWay(t, N, right, way)
  BY <1>3, LeftWayIs
<1>6. way # <<>> /\ Len(way) \in Nat /\ Len(way) > 0 /\ Last(way) = way[Len(way)] /\ Last(way) \in N
      /\ t.child["left"][Last(way)] = NULL /\ Len(way) \in 1 .. Len(way)
  <2>1. way # <<>>
    BY <1>1, <1>3, <1>5 DEF LeftWay
  <2>2. Len(way) \in Nat /\ Len(way) > 0 /\ Last(way) = way[Len(way)] /\ Last(way) \in N
      /\ t.child["left"][Last(way)] = NULL
    BY <1>5, <2>1 DEF LeftWay
  <2> QED
    BY <2>1, <2>2
<1>7. D[successor] \subseteq D[right] /\ successor \in D[right]
  BY <1>3, <1>5, <1>6, LeftWayBelow
<1>8. successor \in N /\ successor # NULL /\ successor # node
  BY <1>1, <1>3, <1>6, <1>7
<1>9. left # node /\ left # successor
  <2>1. left # NULL => left # node /\ t.child[Other("left")][node] # left /\ D[left] = Part(D[node], R, node, "left")
    BY <1>2, ChildIs
  <2>2. D[right] = Part(D[node], R, node, "right")
    BY <1>2, ChildIs
  <2>3. \A n \in N : R[n] \in Int
    BY SortedParts
  <2>4. left # successor
    <3>1. SUFFICES ASSUME left = successor PROVE FALSE
      OBVIOUS
    <3>2. left # NULL /\ left \in D[left]
      BY <1>1, <1>8, <3>1
    <3>3. R[left] < R[node] /\ R[node] < R[left]
      BY <1>7, <2>1, <2>2, <3>1, <3>2, Sides DEF Part
    <3> QED
      BY <1>8, <2>3, <3>1, <3>3
  <2> QED
    BY <1>1, <2>1, <2>4
<1>10. below \in N \cup {NULL} /\ below \in Node /\ below # successor /\ below # node
  <2>1. below \in N \cup {NULL}
    BY <1>1, <1>2, <1>8
  <2>2. below # NULL => below # successor /\ below \in D[successor]
    BY <1>2, <1>8, ChildIs
  <2> QED
    BY <1>1, <1>3, <1>7, <1>8, <2>1, <2>2 DEF Node
<1>11. /\ parent \in Node /\ IsParent(t, N, parent, Up(path, 0)) /\ Len(path) \in Nat /\ Len(path) > 0
  <2>1. /\ Len(path) \in Nat \ {0} /\ Up(path, 1) \in Node /\ IsParent(t, N, Up(path, 1), Up(path, 0))
    BY <1>1, UpIs
  <2> QED
    BY <2>1
<1>12. Up(path, 0) = node
  BY <1>11 DEF Up, Last
<1>13. /\ parent # node /\ parent # NULL => parent \in N
  BY <1>11, <1>12, LinkIs
<1>14. parent # successor
  <2>1. SUFFICES ASSUME parent = successor PROVE FALSE
    OBVIOUS
  <2>2. PICK s \in Side : t.child[s][successor] = node
    BY <1>8, <1>11, <1>12, <2>1 DEF IsParent
  <2>3. node \in D[successor]
    BY <1>1, <1>8, <2>2, ChildIs
  <2> QED
    BY <1>3, <1>7, <2>3
<1>15. parent # node /\ (parent # NULL => parent \in N)
  BY <1>11, <1>12, <1>13, LinkIs
<1>16. node # NULL
  BY <1>1
<1> QED
  BY <1>1, <1>3, <1>4, <1>5, <1>6, <1>8, <1>9, <1>10, <1>11, <1>12, <1>14, <1>15, <1>16 DEF Sinking

(* The path goes on to the successor.                                      *)
LEMMA SinkingPath ==
  ASSUME NEW t, NEW N, NEW D, NEW R, Sorted(t, N, D, R), NEW path, IsPath(t, N, path),
         NEW node \in N, node = Last(path),
         NEW way, LeftWay(t, N, t.child["right"][node], way), way # <<>>
  PROVE  IsPath(t, N, path \o way)
<1> DEFINE z == path \o way
<1>1. N \subseteq Key
  BY SortedParts
<1>2. path \in Seq(Node) /\ path # <<>> /\ path[1] = t.root
  BY DEF IsPath
<1>3. way \in Seq(N)
  BY DEF LeftWay
<1>4. way \in Seq(Node)
  <2>1. N \subseteq Node
    BY <1>1 DEF Node
  <2> QED
    BY <1>3, <2>1, MoreKeys
<1>5. Joined(Node, path, way, z)
  BY <1>2, <1>4, JoinedIs
<1> HIDE DEF z
<1> DEFINE L == Len(path)
           W == Len(way)
<1>6. L \in Nat /\ L > 0 /\ W \in Nat /\ W > 0 /\ node = path[L]
  BY <1>2, <1>4, LastIs
<1>7. /\ z \in Seq(Node) /\ Len(z) = L + W
      /\ \A i \in 1 .. L : z[i] = path[i]
      /\ \A j \in 1 .. W : z[L + j] = way[j]
  BY <1>5 DEF Joined
<1>8. \A i \in 1 .. L - 1 : path[i] \in N /\ \E s \in Side : t.child[s][path[i]] = path[i + 1]
  BY DEF IsPath
<1>9. /\ \A j \in 1 .. W : way[j] \in N
      /\ \A j \in 1 .. W - 1 : way[j + 1] = t.child["left"][way[j]]
      /\ way[1] = t.child["right"][node]
  BY DEF LeftWay
<1> HIDE DEF L, W
<1>10. "left" \in Side /\ "right" \in Side
  BY Sides
<1>11. ASSUME NEW i \in 1 .. Len(z) - 1
       PROVE  z[i] \in N /\ \E s \in Side : t.child[s][z[i]] = z[i + 1]
  <2>0. i \in 1 .. (L + W) - 1
    BY <1>7
  <2>1. CASE i < L
    <3>1. i \in 1 .. L /\ i + 1 \in 1 .. L /\ i \in 1 .. L - 1
      BY <1>6, <2>0, <2>1
    <3> QED
      BY <1>7, <1>8, <3>1
  <2>2. CASE i = L
    <3>1. L \in 1 .. L /\ 1 \in 1 .. W
      BY <1>6
    <3>2. z[i] = node /\ z[i + 1] = way[1]
      BY <1>6, <1>7, <2>2, <3>1
    <3> QED
      BY <1>9, <1>10, <3>2
  <2>3. CASE i > L
    <3>1. PICK j \in 1 .. W - 1 : i = L + j
      <4>1. i - L \in 1 .. W - 1 /\ i = L + (i - L)
        BY <1>6, <2>0, <2>3
      <4> QED
        BY <4>1
    <3>2. j \in 1 .. W /\ j + 1 \in 1 .. W /\ i + 1 = L + (j + 1)
      BY <1>6, <3>1
    <3>3. z[i] = way[j] /\ z[i + 1] = way[j + 1]
      BY <1>7, <3>1, <3>2
    <3> QED
      BY <1>9, <1>10, <3>2, <3>3
  <2> QED
    BY <1>6, <2>0, <2>1, <2>2, <2>3
<1>12. z # <<>>
  <2>1. Len(<<>>) = 0 /\ L + W # 0
    BY <1>6
  <2> QED
    BY <1>7, <2>1
<1>13. z[1] = t.root
  BY <1>2, <1>6, <1>7
<1>14. IsPath(t, N, z)
  BY <1>7, <1>11, <1>12, <1>13 DEF IsPath
<1> QED
  BY <1>14 DEF z

LEMMA NearIs ==
  ASSUME NEW t \in Trees, NEW node \in Key, NEW below \in Node, NEW successor \in Key, node # successor,
         NEW mid, NEW x, x = NearTree(t, node, below, successor)
  PROVE  MovedIs(t, x, node, below, successor, successor, mid)
<1> DEFINE a == SetChild(t, "right", node, below)
<1>0. "right" \in Side /\ node \in Node /\ successor \in Node
  BY Sides DEF Node
<1>1. /\ a \in Trees /\ a.root = t.root /\ a.red = t.red
      /\ \A s \in Side, m \in Key :
           a.child[s][m] = IF s = "right" /\ m = node THEN below ELSE t.child[s][m]
  BY <1>0, SetChildIs
<1> DEFINE b == SetChild(a, "right", successor, node)
<1>2. x = b
  BY DEF NearTree
<1> HIDE DEF a
<1>4. /\ b \in Trees /\ b.root = a.root /\ b.red = a.red
      /\ \A s \in Side, m \in Key :
           b.child[s][m] = IF s = "right" /\ m = successor THEN node ELSE a.child[s][m]
  BY <1>0, <1>1, SetChildIs
<1> HIDE DEF b
<1>3. /\ x \in Trees /\ x.root = a.root /\ x.red = a.red
      /\ \A s \in Side, m \in Key :
           x.child[s][m] = IF s = "right" /\ m = successor THEN node ELSE a.child[s][m]
  BY <1>2, <1>4
<1> QED
  BY <1>1, <1>3 DEF MovedIs

LEMMA FarIs ==
  ASSUME NEW t \in Trees, NEW node \in Key, NEW below \in Node, NEW successor \in Key, node # successor,
         NEW right \in Key, right # successor, NEW mid \in Key, t.child["left"][mid] = successor,
         NEW x, x = FarTree(t, node, below, successor, right, mid)
  PROVE  MovedIs(t, x, node, below, successor, right, mid)
<1> DEFINE a == SetChild(t, "right", node, below)
           b == SetChild(a, "right", successor, right)
<1>0. "right" \in Side /\ "left" \in Side /\ "left" # "right" /\ node \in Node /\ successor \in Node
      /\ right \in Node /\ mid \in Node /\ mid # NULL
  BY Sides, NullIsNoKey DEF Node
<1>1. /\ a \in Trees /\ a.root = t.root /\ a.red = t.red
      /\ \A s \in Side, m \in Key :
           a.child[s][m] = IF s = "right" /\ m = node THEN below ELSE t.child[s][m]
  BY <1>0, SetChildIs
<1>2. x = Relink(b, mid, successor, node)
  BY DEF FarTree
<1> HIDE DEF a
<1>3. /\ b \in Trees /\ b.root = a.root /\ b.red = a.red
      /\ \A s \in Side, m \in Key :
           b.child[s][m] = IF s = "right" /\ m = successor THEN right ELSE a.child[s][m]
  BY <1>0, <1>1, SetChildIs
<1> HIDE DEF b
<1>4. SideOf(b, mid, successor) = "left"
  BY <1>0, <1>1, <1>3 DEF SideOf
<1>5. /\ x \in Trees /\ x.root = b.root /\ x.red = b.red
      /\ \A s \in Side, m \in Key : x.child[s][m] = IF m = mid /\ s = "left" THEN node ELSE b.child[s][m]
  <2>1. /\ x \in Trees /\ x.red = b.red
        /\ x.root = IF mid = NULL THEN node ELSE b.root
        /\ \A s \in Side, m \in Key :
             x.child[s][m] = IF m = mid /\ s = SideOf(b, mid, successor) THEN node ELSE b.child[s][m]
    BY <1>0, <1>2, <1>3, RelinkIs
  <2> QED
    BY <1>0, <1>4, <2>1
<1> QED
  BY <1>0, <1>1, <1>3, <1>5 DEF MovedIs

LEMMA LiftIs ==
  ASSUME NEW t \in Trees, NEW node \in Key, NEW successor \in Key, node # successor,
         NEW parent \in Node, parent # node, parent # successor, NEW left \in Node,
         NEW side, parent # NULL => side = SideOf(t, parent, node),
         NEW x, x = LiftedTree(t, node, parent, successor, left)
  PROVE  LiftedIs(t, x, node, parent, successor, left, side)
<1> DEFINE a == SetChild(t, "left", successor, left)
           b == SetChild(a, "left", node, NULL)
<1>0. "left" \in Side /\ NULL \in Node /\ successor \in Node /\ NULL \notin Key
  BY Sides, NullIsNoKey DEF Node
<1>1. /\ a \in Trees /\ a.root = t.root /\ a.red = t.red
      /\ \A s \in Side, m \in Key :
           a.child[s][m] = IF s = "left" /\ m = successor THEN left ELSE t.child[s][m]
  BY <1>0, SetChildIs
<1>2. x = Relink(b, parent, node, successor)
  BY DEF LiftedTree
<1> HIDE DEF a
<1>3. /\ b \in Trees /\ b.root = a.root /\ b.red = a.red
      /\ \A s \in Side, m \in Key :
           b.child[s][m] = IF s = "left" /\ m = node THEN NULL ELSE a.child[s][m]
  BY <1>0, <1>1, SetChildIs
<1> HIDE DEF b
<1>4. parent # NULL => SideOf(b, parent, node) = side
  BY <1>0, <1>1, <1>3 DEF SideOf, Node
<1>5. /\ x \in Trees /\ x.red = b.red
      /\ x.root = IF parent = NULL THEN successor ELSE b.root
      /\ \A s \in Side, m \in Key :
           x.child[s][m] = IF m = parent /\ s = SideOf(b, parent, node) THEN successor ELSE b.child[s][m]
  BY <1>0, <1>2, <1>3, RelinkIs
<1> QED
  BY <1>0, <1>1, <1>3, <1>4, <1>5 DEF LiftedIs

LEMMA MiddleIs ==
  ASSUME NEW t, NEW N, NEW D, NEW R, Sorted(t, N, D, R), NEW path, NEW node, NEW parent, NEW right,
         NEW left, NEW way, NEW successor, NEW below,
         Sinking(t, N, D, path, node, parent, right, left, way, successor, below),
         NEW mid, mid = Up(way, 1)
  PROVE  Middle(t, N, node, parent, right, way, successor, mid)
<1>1. /\ N \subseteq Key /\ NULL \notin N /\ node \in N /\ right \in N /\ right # NULL /\ right # node
      /\ right = t.child["right"][node] /\ LeftWay(t, N, right, way) /\ way # <<>>
      /\ successor = Last(way) /\ successor \in N /\ successor # NULL
      /\ IsParent(t, N, parent, node) /\ successor # node
  BY DEF Sinking
<1>2. /\ Len(way) \in Nat /\ Len(way) > 0 /\ way[1] = right /\ Last(way) = way[Len(way)]
      /\ \A i \in 1 .. Len(way) : way[i] \in N
      /\ \A i \in 1 .. Len(way) - 1 : way[i + 1] = t.child["left"][way[i]]
  BY <1>1 DEF LeftWay
<1>3. "left" \in Side /\ "right" \in Side /\ "left" # "right"
  BY Sides
<1>4. CASE Len(way) = 1
  BY <1>1, <1>2, <1>4 DEF Middle
<1>5. CASE Len(way) # 1
  <2> DEFINE j == Len(way) - 1
  <2>1. Len(way) > 1 /\ j \in 1 .. Len(way) - 1 /\ j \in 1 .. Len(way) /\ j + 1 = Len(way)
    <3>1. \A n \in Nat : n > 0 /\ n # 1 => n > 1 /\ n - 1 \in 1 .. n - 1 /\ n - 1 \in 1 .. n /\ (n - 1) + 1 = n
      OBVIOUS
    <3>2. Len(way) \in Nat /\ Len(way) > 0 /\ Len(way) # 1
      BY <1>2, <1>5
    <3> QED
      BY <3>1, <3>2
  <2>2. mid = way[j]
    BY <2>1 DEF Up
  <2> HIDE DEF j
  <2>3. mid \in N /\ t.child["left"][mid] = successor
    BY <1>1, <1>2, <2>1, <2>2
  <2>4. right # successor
    <3>1. SUFFICES ASSUME right = successor PROVE FALSE
      OBVIOUS
    <3>2. t.child["left"][mid] = t.child["right"][node] /\ t.child["right"][node] # NULL
      BY <1>1, <2>3, <3>1
    <3>3. mid \in N /\ node \in N
      BY <1>1, <2>3
    <3>4. "left" = "right"
      BY <1>3, <3>2, <3>3, OneParent
    <3> QED
      BY <1>3, <3>4
  <2>5. mid \in D[right] /\ D[mid] \subseteq D[right]
    BY <1>1, <2>1, <2>2, LeftWayBelow
  <2>6. node \notin D[right]
    BY <1>1, <1>3, ChildIs
  <2>7. mid # node
    BY <1>1, <2>5, <2>6
  <2>8. mid # parent
    <3>1. SUFFICES ASSUME mid = parent PROVE FALSE
      OBVIOUS
    <3>2. PICK s \in Side : t.child[s][mid] = node
      BY <1>1, <2>3, <3>1 DEF IsParent
    <3>3. node # NULL
      BY <1>1
    <3>4. node \in D[mid]
      BY <2>3, <3>2, <3>3, ChildIs
    <3> QED
      BY <2>5, <2>6, <3>4
  <2>9. mid # successor
    BY <1>1, <1>3, <2>3, ChildIs
  <2> QED
    BY <1>5, <2>3, <2>4, <2>7, <2>8, <2>9 DEF Middle
<1> QED
  BY <1>4, <1>5

(* Whichever way it is done, the two nodes have changed places.            *)
LEMMA LiftSwaps ==
  ASSUME NEW t, NEW N, NEW D, NEW R, Sorted(t, N, D, R), Bare(t, N), NEW path, NEW node, NEW parent, NEW right,
         NEW left, NEW way, NEW successor, NEW below,
         Sinking(t, N, D, path, node, parent, right, left, way, successor, below),
         NEW mid, Middle(t, N, node, parent, right, way, successor, mid),
         NEW y, MovedIs(t, y, node, below, successor, right, mid),
         NEW x, x = LiftedTree(y, node, parent, successor, left)
  PROVE  Swaps(t, SwapColors(x, node, successor), Swap(node, successor))
<1> DEFINE f == Swap(node, successor)
           r == SwapColors(x, node, successor)
           side == SideOf(t, parent, node)
<1>1. /\ N \subseteq Key /\ NULL \notin N /\ t \in Trees /\ NULL \notin Key
      /\ node \in N /\ node # NULL /\ right \in N /\ right # NULL /\ right # node
      /\ right = t.child["right"][node] /\ left = t.child["left"][node]
      /\ left \in Node /\ left # node /\ left # successor
      /\ successor \in N /\ successor # NULL /\ successor # node
      /\ t.child["left"][successor] = NULL
      /\ below = t.child["right"][successor] /\ below \in Node /\ below # node /\ below # successor
      /\ parent \in Node /\ IsParent(t, N, parent, node)
      /\ parent # node /\ parent # successor
      /\ parent # NULL => parent \in N
  BY NullIsNoKey DEF Sinking
<1>2. /\ y \in Trees /\ y.root = t.root /\ y.red = t.red
      /\ \A s \in Side, m \in Key :
           y.child[s][m] = IF s = "right" /\ m = successor THEN (IF right = successor THEN node ELSE right)
                           ELSE IF s = "right" /\ m = node THEN below
                           ELSE IF right # successor /\ s = "left" /\ m = mid THEN node
                           ELSE t.child[s][m]
  BY DEF MovedIs
<1>3. /\ parent = NULL <=> t.root = node
      /\ parent # NULL => side \in Side /\ t.child[side][parent] = node
      /\ \A n \in N, s \in Side : t.child[s][n] = node <=> n = parent /\ s = side
  BY <1>1, LinkIs
<1>4. "left" \in Side /\ "right" \in Side /\ "left" # "right" /\ \A s \in Side : s = "left" \/ s = "right"
  BY DEF Side
<1>5. right # successor => mid \in N /\ mid # node /\ mid # successor /\ mid # parent
                           /\ t.child["left"][mid] = successor
  BY DEF Middle
<1>6. side = SideOf(t, parent, node) /\ f = Swap(node, successor) /\ r = SwapColors(x, node, successor)
  OBVIOUS
<1>15. node \in Key /\ successor \in Key /\ right \in Key /\ right \in Node /\ node \in Node /\ successor \in Node
  BY <1>1 DEF Node
<1>16. /\ f[node] = successor /\ f[successor] = node
       /\ \A m \in Node : m # node /\ m # successor => f[m] = m
  BY <1>15 DEF Swap
<1>17. \A m \in Key : m \in Node
  BY DEF Node
<1> HIDE DEF f, r, side
<1>7. parent # NULL => side = SideOf(y, parent, node)
  <2>1. SUFFICES ASSUME parent # NULL
                 PROVE  side = SideOf(y, parent, node)
    OBVIOUS
  <2>2. parent \in N /\ parent \in Key /\ parent # node /\ parent # successor
    BY <1>1, <2>1
  <2>3. y.child["left"][parent] = t.child["left"][parent]
    BY <1>2, <1>4, <1>5, <2>2
  <2> QED
    BY <1>6, <2>3 DEF SideOf
<1>8. LiftedIs(y, x, node, parent, successor, left, side)
  BY <1>1, <1>2, <1>7, <1>15, LiftIs
<1>9. x \in Trees /\ x.red = t.red
  BY <1>2, <1>8 DEF LiftedIs
<1>10. /\ r \in Trees /\ r.root = x.root /\ r.child = x.child
       /\ r.red = {m \in Key : f[m] \in t.red}
  <2>1. ColorsSwapped(x, r, node, successor)
    BY <1>6, <1>9, <1>15, SwapColorsIs
  <2> QED
    BY <1>6, <1>9, <2>1 DEF ColorsSwapped
<1>11. r.root = f[t.root]
  <2>1. t.root # successor
    <3>1. SUFFICES ASSUME t.root = successor PROVE FALSE
      OBVIOUS
    <3>2. right = successor => FALSE
      <4>1. t.child["right"][node] # t.root
        BY <1>1, <1>4, ChildIs
      <4> QED
        BY <1>1, <3>1, <4>1
    <3>3. right # successor => FALSE
      BY <1>1, <1>4, <1>5, <3>1, ChildIs
    <3> QED
      BY <3>2, <3>3
  <2>2. r.root = IF parent = NULL THEN successor ELSE t.root
    BY <1>2, <1>8, <1>10 DEF LiftedIs
  <2>3. t.root \in Node
    BY <1>1, TreeParts
  <2> QED
    BY <1>3, <1>16, <2>1, <2>2, <2>3
<1>12. \A s \in Side, m \in Key :
         r.child[s][m] = IF m = parent /\ s = side THEN successor
                         ELSE IF s = "left" /\ m = node THEN NULL
                         ELSE IF s = "left" /\ m = successor THEN left
                         ELSE y.child[s][m]
  BY <1>8, <1>10 DEF LiftedIs
<1>13. ASSUME NEW s \in Side, NEW m \in Key
       PROVE  r.child[s][f[m]] = f[t.child[s][m]]
  <2>0. NULL \in Node /\ NULL # node /\ NULL # successor
    BY <1>1 DEF Node
  <2>1. CASE m = node
    <3>1. f[m] = successor
      BY <1>16, <2>1
    <3>2. CASE s = "left"
      BY <1>1, <1>4, <1>12, <1>15, <1>16, <2>1, <3>1, <3>2
    <3>3. CASE s = "right"
      <4>1. r.child[s][successor] = y.child[s][successor]
        BY <1>1, <1>4, <1>12, <1>15, <3>3
      <4>2. y.child[s][successor] = IF right = successor THEN node ELSE right
        BY <1>2, <1>15, <3>3
      <4> QED
        BY <1>1, <1>15, <1>16, <2>1, <3>1, <3>3, <4>1, <4>2
    <3> QED
      BY <1>4, <3>2, <3>3
  <2>2. CASE m = successor
    <3>1. f[m] = node
      BY <1>16, <2>2
    <3>2. CASE s = "left"
      BY <1>1, <1>4, <1>12, <1>15, <1>16, <2>0, <2>2, <3>1, <3>2
    <3>3. CASE s = "right"
      <4>1. r.child[s][node] = y.child[s][node]
        BY <1>1, <1>4, <1>12, <1>15, <3>3
      <4>2. y.child[s][node] = below
        BY <1>1, <1>2, <1>15, <3>3
      <4> QED
        BY <1>1, <1>15, <1>16, <2>2, <3>1, <3>3, <4>1, <4>2
    <3> QED
      BY <1>4, <3>2, <3>3
  <2>3. CASE m # node /\ m # successor
    <3>1. f[m] = m
      BY <1>16, <1>17, <2>3
    <3>2. t.child[s][m] \in Node
      BY <1>1, TreeParts
    <3>3. CASE m = parent /\ s = side
      <4>1. r.child[s][m] = successor
        BY <1>12, <3>3
      <4>2. t.child[s][m] = node
        BY <1>1, <1>3, <3>3
      <4> QED
        BY <1>16, <3>1, <4>1, <4>2
    <3>4. CASE ~ (m = parent /\ s = side)
      <4>1. r.child[s][m] = y.child[s][m]
        BY <1>12, <2>3, <3>4
      <4>2. y.child[s][m] = IF right # successor /\ s = "left" /\ m = mid THEN node ELSE t.child[s][m]
        BY <1>2, <2>3
      <4>3. CASE right # successor /\ s = "left" /\ m = mid
        BY <1>5, <1>16, <3>1, <4>1, <4>2, <4>3
      <4>4. CASE ~ (right # successor /\ s = "left" /\ m = mid)
        <5>1. t.child[s][m] # node
          <6>1. CASE m \in N
            BY <1>3, <3>4, <6>1
          <6>2. CASE m \notin N
            BY <1>1, <6>2 DEF Bare
          <6> QED
            BY <6>1, <6>2
        <5>2. t.child[s][m] # successor
          <6>1. SUFFICES ASSUME t.child[s][m] = successor PROVE FALSE
            OBVIOUS
          <6>2. m \in N
            BY <1>1, <6>1 DEF Bare
          <6>3. right = successor => FALSE
            <7>1. SUFFICES ASSUME right = successor PROVE FALSE
              OBVIOUS
            <7>2. t.child[s][m] = t.child["right"][node] /\ t.child["right"][node] # NULL
              BY <1>1, <6>1, <7>1
            <7>3. m = node
              BY <1>1, <1>4, <6>2, <7>2, OneParent
            <7> QED
              BY <2>3, <7>3
          <6>4. right # successor => FALSE
            BY <1>1, <1>4, <1>5, <4>4, <6>1, <6>2, OneParent
          <6> QED
            BY <6>3, <6>4
        <5> QED
          BY <1>16, <3>1, <3>2, <4>1, <4>2, <4>4, <5>1, <5>2
      <4> QED
        BY <4>3, <4>4
    <3> QED
      BY <3>3, <3>4
  <2> QED
    BY <2>1, <2>2, <2>3
<1>14. Swaps(t, r, f)
  BY <1>10, <1>11, <1>13 DEF Swaps
<1> QED
  BY <1>6, <1>14

-----------------------------------------------------------------------------
(* The node that is removed *)

LEMMA SunkPlaces ==
  ASSUME NEW t, NEW N, NEW D, NEW R, Sorted(t, N, D, R), NEW path, IsPath(t, N, path),
         NEW node, NEW parent, NEW right, NEW left, NEW way, NEW successor, NEW below,
         Sinking(t, N, D, path, node, parent, right, left, way, successor, below),
         NEW r, Swaps(t, r, Swap(node, successor)),
         NEW q, q = SunkPath(path, way, successor, node)
  PROVE  /\ IsPath(r, N, q) /\ Last(q) = node /\ r.child["left"][node] = NULL
<1> DEFINE f == Swap(node, successor)
           z == path \o way
           L == Len(path)
           W == Len(way)
<1>1. /\ N \subseteq Key /\ NULL \notin N /\ node \in N /\ successor \in N /\ node # successor
      /\ LeftWay(t, N, right, way) /\ way # <<>> /\ successor = Last(way)
      /\ right = t.child["right"][node] /\ node = Last(path)
      /\ t.child["left"][successor] = NULL
  BY DEF Sinking
<1>2. IsPath(t, N, z)
  BY <1>1, SinkingPath
<1>3. SwapFacts(N, f)
  BY <1>1, SwapIs
<1>4. /\ node \in Node /\ successor \in Node /\ N \subseteq Node /\ NULL \in Node
  BY <1>1 DEF Node
<1>5. way \in Seq(Node) /\ path \in Seq(Node) /\ path # <<>>
  <2>1. way \in Seq(N)
    BY <1>1 DEF LeftWay
  <2> QED
    BY <1>4, <2>1, MoreKeys DEF IsPath
<1>6. Renamed(q, path, way, successor, node)
  BY <1>1, <1>4, <1>5, SunkPathIs
<1>7. Joined(Node, path, way, z)
  BY <1>5, JoinedIs
<1>8. /\ f[node] = successor /\ f[successor] = node /\ f[NULL] = NULL
      /\ \A m \in Node : m # node /\ m # successor => f[m] = m
  BY <1>1, <1>4 DEF Swap
<1> HIDE DEF z, f
<1>9. /\ q \in Seq(Node) /\ Len(q) = L + W /\ L \in Nat /\ W \in Nat
      /\ L > 0 /\ W > 0
      /\ \A i \in 1 .. L - 1 : q[i] = path[i]
      /\ q[L] = successor
      /\ \A j \in 1 .. W - 1 : q[L + j] = way[j]
      /\ q[L + W] = node
  BY <1>6 DEF Renamed
<1>10. /\ z \in Seq(Node) /\ Len(z) = L + W
       /\ \A i \in 1 .. L : z[i] = path[i]
       /\ \A j \in 1 .. W : z[L + j] = way[j]
  BY <1>7 DEF Joined
<1>11. path[L] = node /\ way[W] = successor
  BY <1>1 DEF Last
<1> HIDE DEF L, W
<1>12. z[L] = node /\ z[L + W] = successor /\ L \in 1 .. L + W /\ L + W \in 1 .. L + W /\ L \in 1 .. (L + W) - 1
  <2>1. L \in 1 .. L /\ W \in 1 .. W
    BY <1>9
  <2> QED
    BY <1>9, <1>10, <1>11, <2>1
<1>13. z[L] # NULL /\ z[L + W] # NULL
  BY <1>1, <1>12
<1>14. ASSUME NEW i \in 1 .. Len(z)
       PROVE  q[i] = f[z[i]]
  <2>0. i \in 1 .. L + W /\ z[i] \in Node
    BY <1>10
  <2>1. CASE i < L
    <3>1. i \in 1 .. L - 1 /\ i \in 1 .. L /\ i \in 1 .. Len(z) - 1 /\ i < L + W
          /\ L \in 1 .. Len(z) /\ L + W \in 1 .. Len(z)
      BY <1>9, <1>10, <2>0, <2>1
    <3>2. q[i] = path[i] /\ z[i] = path[i]
      BY <1>9, <1>10, <3>1
    <3>3. z[i] # z[L]
      BY <1>2, <1>13, <2>1, <3>1, PathOnce
    <3>4. z[i] # z[L + W]
      BY <1>2, <1>13, <3>1, PathOnce
    <3> QED
      BY <1>8, <1>12, <2>0, <3>2, <3>3, <3>4
  <2>2. CASE i = L
    BY <1>8, <1>9, <1>12, <2>2
  <2>3. CASE i > L /\ i < L + W
    <3>1. PICK j \in 1 .. W - 1 : i = L + j
      <4>1. i - L \in 1 .. W - 1 /\ i = L + (i - L)
        BY <1>9, <2>0, <2>3
      <4> QED
        BY <4>1
    <3>2. j \in 1 .. W
      BY <1>9
    <3>3. q[i] = way[j] /\ z[i] = way[j]
      BY <1>9, <1>10, <3>1, <3>2
    <3>4. i \in 1 .. Len(z) - 1 /\ L + W \in 1 .. Len(z) /\ L \in 1 .. Len(z) - 1 /\ i \in 1 .. Len(z)
      BY <1>9, <1>10, <2>3
    <3>5. z[i] # z[L + W]
      BY <1>2, <1>13, <2>3, <3>4, PathOnce
    <3>6. z[i] # NULL
      BY <1>1, <1>2, <3>4 DEF IsPath
    <3>7. z[L] # z[i]
      BY <1>2, <2>3, <3>4, <3>6, PathOnce
    <3> QED
      BY <1>8, <1>12, <2>0, <3>3, <3>5, <3>7
  <2>4. CASE i = L + W
    BY <1>8, <1>9, <1>12, <2>4
  <2> QED
    BY <1>9, <2>0, <2>1, <2>2, <2>3, <2>4
<1>15. Len(q) = Len(z) /\ q \in Seq(Node) /\ \A i \in 1 .. Len(z) : q[i] = f[z[i]]
  BY <1>9, <1>10, <1>14
<1>16. Swaps(t, r, f)
  BY DEF f
<1>17. IsPath(r, N, q)
  BY <1>2, <1>3, <1>15, <1>16, SwapPath
<1>18. Last(q) = node
  BY <1>9 DEF Last
<1>19. r.child["left"][node] = NULL
  <2>1. r.child["left"][f[successor]] = f[t.child["left"][successor]]
    BY <1>1, <1>16, Sides DEF Swaps
  <2> QED
    BY <1>1, <1>8, <2>1
<1> QED
  BY <1>17, <1>18, <1>19

LEMMA SunkSwaps ==
  ASSUME NEW N, NEW D, NEW R, Sorted(tree, N, D, R), Bare(tree, N), NEW path, IsPath(tree, N, path),
         NEW node \in N, node = Last(path),
         NEW way, way = value_dict_leftmost_path(tree, tree.child["right"][node]), Sinks(node, way),
         NEW right, right = tree.child["right"][node],
         NEW successor, successor = Last(way)
  PROVE  SunkIs(tree, N, path, node, successor, right, Sunk(path))
<1> DEFINE left   == tree.child["left"][node]
           below  == tree.child["right"][successor]
           parent == Up(path, 1)
           mid    == Up(way, 1)
           near   == NearTree(tree, node, below, successor)
           far    == FarTree(tree, node, below, successor, right, mid)
           moved  == IF Len(way) = 1 THEN near ELSE far
           lifted == LiftedTree(moved, node, parent, successor, left)
           q      == SunkPath(path, way, successor, node)
           r      == SwapColors(lifted, node, successor)
<1>1. right # NULL /\ ~ (right = NULL \/ (left = NULL /\ Len(way) = 1))
  BY DEF Sinks
<1>2. Sunk(path) = Climb(r, q)
  BY <1>1 DEF Sunk, NearTree, FarTree, LiftedTree, SunkPath
<1>3. Sinking(tree, N, D, path, node, parent, right, left, way, successor, below)
  BY <1>1, SinkingIs
<1>4. Middle(tree, N, node, parent, right, way, successor, mid)
  <2> HIDE DEF left, below, parent
  <2> QED
    BY <1>3, MiddleIs
<1>5. /\ N \subseteq Key /\ tree \in Trees /\ node \in Key /\ below \in Node /\ successor \in Key
      /\ node # successor /\ right \in Key /\ successor \in N
      /\ Middle(tree, N, node, parent, right, way, successor, mid)
  <2> HIDE DEF left, below, parent
  <2>1. /\ N \subseteq Key /\ tree \in Trees /\ below \in Node /\ successor \in N /\ node # successor /\ right \in N
    BY <1>3 DEF Sinking
  <2> QED
    BY <1>4, <2>1
<1>6. MovedIs(tree, moved, node, below, successor, right, mid)
  <2>1. CASE right = successor
    <3>1. moved = near
      BY <1>5, <2>1 DEF Middle
    <3>2. near = NearTree(tree, node, below, successor)
      OBVIOUS
    <3> HIDE DEF below, near, mid, moved, parent
    <3>3. MovedIs(tree, near, node, below, successor, successor, mid)
      BY <1>5, <3>2, NearIs
    <3> QED
      BY <2>1, <3>1, <3>3
  <2>2. CASE right # successor
    <3>1. moved = far /\ mid \in Key /\ tree.child["left"][mid] = successor
      BY <1>5, <2>2 DEF Middle
    <3>2. far = FarTree(tree, node, below, successor, right, mid)
      OBVIOUS
    <3> HIDE DEF below, far, mid, moved, parent
    <3>3. MovedIs(tree, far, node, below, successor, right, mid)
      BY <1>5, <2>2, <3>1, <3>2, FarIs
    <3> QED
      BY <3>1, <3>3
  <2> QED
    BY <2>1, <2>2
<1>7. lifted = LiftedTree(moved, node, parent, successor, left)
  OBVIOUS
<1>11. q = SunkPath(path, way, successor, node)
  OBVIOUS
<1>12. r = SwapColors(lifted, node, successor)
  OBVIOUS
<1> HIDE DEF left, below, parent, mid, moved, lifted, near, far, q, r
<1>8. Swaps(tree, SwapColors(lifted, node, successor), Swap(node, successor))
  BY <1>3, <1>4, <1>6, <1>7, LiftSwaps
<1>9. Swaps(tree, r, Swap(node, successor))
  BY <1>8, <1>12
<1>10. IsPath(r, N, q) /\ Last(q) = node /\ r.child["left"][node] = NULL
  BY <1>3, <1>9, <1>11, SunkPlaces
<1>13. Sunk(path).tree = r /\ Sunk(path).path = q
  BY <1>2 DEF Climb
<1> QED
  BY <1>5, <1>9, <1>10, <1>13 DEF SunkIs

LEMMA FreedFacts ==
  ASSUME NEW t \in Trees, NEW node \in Key
  PROVE  FreedIs(t, Freed(t, node), node)
<1> DEFINE links == [s \in Side |-> [t.child[s] EXCEPT ![node] = NULL]]
           reds  == t.red \ {node}
           x     == [root |-> t.root, child |-> links, red |-> reds]
<1>1. t.child \in [Side -> [Key -> Node]] /\ t.root \in Node /\ t.red \subseteq Key
  BY DEF Trees
<1>2. NULL \in Node
  BY DEF Node
<1>3. ASSUME NEW s \in Side
      PROVE  /\ links[s] \in [Key -> Node]
             /\ \A m \in Key : links[s][m] = IF m = node THEN NULL ELSE t.child[s][m]
  <2>1. t.child[s] \in [Key -> Node] /\ links[s] = [t.child[s] EXCEPT ![node] = NULL]
    BY <1>1
  <2> QED
    BY <1>2, <2>1
<1>4. links \in [Side -> [Key -> Node]]
  <2>1. links = [s \in Side |-> links[s]]
    OBVIOUS
  <2> HIDE DEF links
  <2> QED
    BY <1>3, <2>1
<1>5. \A s \in Side, m \in Key : links[s][m] = IF m = node THEN NULL ELSE t.child[s][m]
  BY <1>3
<1>6. reds \subseteq Key
  BY <1>1
<1>7. Freed(t, node) = x
  BY DEF Freed
<1> HIDE DEF links
<1>8. x \in Trees /\ x.root = t.root /\ x.red = t.red \ {node} /\ x.child = links
  BY <1>1, <1>4, <1>6 DEF Trees
<1> HIDE DEF x
<1>9. FreedIs(t, x, node)
  BY <1>5, <1>8 DEF FreedIs
<1> QED
  BY <1>7, <1>9

LEMMA CutFacts ==
  ASSUME NEW t \in Trees, NEW parent \in Node, NEW node \in Key, NEW child \in Node,
         NEW x, x = CutTree(t, parent, node, child)
  PROVE  CutIs(t, x, parent, node, child)
<1> DEFINE a == Relink(t, parent, node, child)
<1>1. /\ a \in Trees /\ a.red = t.red
      /\ a.root = IF parent = NULL THEN child ELSE t.root
      /\ \A s \in Side, m \in Key :
           a.child[s][m] = IF m = parent /\ s = SideOf(t, parent, node) THEN child ELSE t.child[s][m]
  BY RelinkIs
<1>2. x = Freed(a, node)
  BY DEF CutTree
<1> HIDE DEF a
<1>3. FreedIs(a, x, node)
  BY <1>1, <1>2, FreedFacts
<1> QED
  BY <1>1, <1>3 DEF FreedIs, CutIs

LEMMA SingleChild ==
  ASSUME NEW t, NEW N, NEW D, NEW R, Sorted(t, N, D, R), NEW parent, NEW node, NEW child,
         Single(t, N, parent, node, child)
  PROVE  /\ child \in N \cup {NULL} /\ child # node
         /\ Below(D, child) = D[node] \ {node}
         /\ \A n \in N, s \in Side : t.child[s][n] = child /\ child # NULL => n = node
         /\ child # NULL => child # t.root
<1>1. PICK s \in Side : t.child[s][node] = child /\ t.child[Other(s)][node] = NULL
  BY DEF Single
<1>2. node \in N /\ Other(s) \in Side /\ Other(s) # s
  BY Sides DEF Single
<1>3. NULL \notin N /\ D[node] \subseteq N /\ node \in D[node] /\ \A n \in N : R[n] \in Int
  BY <1>2, SortedParts
<1>4. child \in N \cup {NULL} /\ Below(D, child) = Part(D[node], R, node, s)
  BY <1>1, <1>2 DEF Sorted
<1>5. Part(D[node], R, node, Other(s)) = {}
  BY <1>1, <1>2 DEF Sorted, Below
<1>6. child # NULL => child # node /\ child # t.root
  BY <1>1, <1>2, ChildIs
<1>7. \A m \in D[node] : m # node => R[m] # R[node]
  BY <1>2, <1>3 DEF Sorted, Ranked
<1>8. Part(D[node], R, node, s) = D[node] \ {node}
  <2>1. \/ s = "left" /\ Other(s) = "right"
        \/ s = "right" /\ Other(s) = "left"
    BY DEF Side, Other
  <2>2. \A m \in D[node] : m # node => m \in Part(D[node], R, node, s)
    BY <1>2, <1>3, <1>5, <1>7, <2>1 DEF Part
  <2>3. node \notin Part(D[node], R, node, s)
    BY <1>2, <1>3 DEF Part
  <2>4. Part(D[node], R, node, s) \subseteq D[node]
    BY DEF Part
  <2> QED
    BY <2>2, <2>3, <2>4
<1>9. \A n \in N, q \in Side : t.child[q][n] = child /\ child # NULL => n = node
  BY <1>1, <1>2, OneParent
<1> QED
  BY <1>2, <1>3, <1>4, <1>6, <1>8, <1>9

LEMMA CutSorts ==
  ASSUME NEW t, NEW N, NEW D, NEW R, Sorted(t, N, D, R), NEW parent, NEW node, NEW child,
         Single(t, N, parent, node, child), NEW x, CutIs(t, x, parent, node, child)
  PROVE  Sorted(x, N \ {node}, CutSets(N, D, node), R)
<1> DEFINE M == N \ {node}
           E == CutSets(N, D, node)
           side == SideOf(t, parent, node)
<1>1. /\ N \subseteq Key /\ NULL \notin N /\ t.red \subseteq N
      /\ \A n \in N : D[n] \subseteq N /\ n \in D[n]
      /\ \A n \in N, s \in Side : t.child[s][n] \in N \cup {NULL}
  BY SortedParts
<1>2. node \in N /\ parent \in Node /\ IsParent(t, N, parent, node)
  BY DEF Single
<1>3. /\ child \in N \cup {NULL} /\ child # node
      /\ Below(D, child) = D[node] \ {node}
      /\ \A n \in N, s \in Side : t.child[s][n] = child /\ child # NULL => n = node
      /\ child # NULL => child # t.root
  BY SingleChild
<1>4. /\ parent = NULL <=> t.root = node
      /\ parent # node
      /\ parent # NULL => parent \in N /\ side \in Side /\ t.child[side][parent] = node
      /\ \A n \in N, s \in Side : t.child[s][n] = node <=> n = parent /\ s = side
  BY <1>2, LinkIs
<1>5. \A n \in M : E[n] = D[n] \ {node}
  BY DEF CutSets
<1>6. /\ x \in Trees /\ x.root = (IF parent = NULL THEN child ELSE t.root) /\ x.red = t.red \ {node}
      /\ \A s \in Side, m \in M :
           x.child[s][m] = IF m = parent /\ s = side THEN child ELSE t.child[s][m]
  BY <1>1 DEF CutIs
<1> HIDE DEF M, E, side
<1>7. \A n : n \in M <=> n \in N /\ n # node
  BY DEF M
<1>8. \A c \in N \cup {NULL} : c # node => c \in M \cup {NULL} /\ Below(E, c) = Below(D, c) \ {node}
  BY <1>1, <1>5, <1>7 DEF Below
<1>9. child \in M \cup {NULL} /\ Below(E, child) = D[node] \ {node}
  BY <1>3, <1>8
<1>10. Ranked(M, R)
  BY <1>7 DEF Sorted, Ranked
<1>11. x.root \in M \cup {NULL} /\ Below(E, x.root) = M
  <2>0. t.root \in N \cup {NULL} /\ Below(D, t.root) = N
    BY DEF Sorted
  <2>1. CASE parent = NULL
    <3>1. D[node] = N /\ x.root = child
      BY <1>1, <1>2, <1>4, <1>6, <2>0, <2>1 DEF Below
    <3> QED
      BY <1>9, <3>1 DEF M
  <2>2. CASE parent # NULL
    <3>1. x.root = t.root /\ t.root # node
      BY <1>4, <1>6, <2>2
    <3> QED
      BY <1>8, <2>0, <3>1 DEF M
  <2> QED
    BY <2>1, <2>2
<1>12. \A n \in M : n \in E[n] /\ E[n] \subseteq M
  BY <1>1, <1>5, <1>7
<1>13. ASSUME NEW n \in M, NEW s \in Side
       PROVE  x.child[s][n] \in M \cup {NULL} /\ Below(E, x.child[s][n]) = Part(E[n], R, n, s)
  <2> DEFINE c == t.child[s][n]
  <2>1. n \in N /\ n # node /\ E[n] = D[n] \ {node}
    BY <1>5, <1>7
  <2>2. c \in N \cup {NULL} /\ Below(D, c) = Part(D[n], R, n, s)
    BY <2>1 DEF Sorted
  <2>3. Part(E[n], R, n, s) = Below(D, c) \ {node}
    BY <2>1, <2>2 DEF Part
  <2>4. CASE n = parent /\ s = side
    <3>1. x.child[s][n] = child /\ c = node
      BY <1>1, <1>4, <1>6, <2>1, <2>4
    <3>2. Below(D, c) = D[node]
      BY <1>1, <1>2, <3>1 DEF Below
    <3> QED
      BY <1>9, <2>3, <3>1, <3>2
  <2>5. CASE ~ (n = parent /\ s = side)
    <3>1. x.child[s][n] = c /\ c # node
      BY <1>4, <1>6, <2>1, <2>5
    <3> QED
      BY <1>8, <2>2, <2>3, <3>1
  <2> QED
    BY <2>4, <2>5
<1>14. \A n \in M, s \in Side :
         x.child[s][n] \in M \cup {NULL} /\ Below(E, x.child[s][n]) = Part(E[n], R, n, s)
  BY <1>13
<1>15. \A m, n \in M, r, s \in Side : x.child[r][m] = x.child[s][n] /\ x.child[s][n] # NULL => m = n
  <2>1. ASSUME NEW m \in M, NEW n \in M, NEW r \in Side, NEW s \in Side,
               x.child[r][m] = x.child[s][n], x.child[s][n] # NULL
        PROVE  m = n
    <3>1. m \in N /\ m # node /\ n \in N /\ n # node
      BY <1>7
    <3>2. CASE x.child[s][n] = child
      <4>1. t.child[r][m] # child /\ t.child[s][n] # child
        BY <1>3, <2>1, <3>1, <3>2
      <4>2. m = parent /\ n = parent
        BY <1>6, <2>1, <3>2, <4>1
      <4> QED
        BY <4>2
    <3>3. CASE x.child[s][n] # child
      <4>1. t.child[r][m] = t.child[s][n] /\ t.child[s][n] # NULL
        BY <1>6, <2>1, <3>3
      <4> QED
        BY <3>1, <4>1, OneParent
    <3> QED
      BY <3>2, <3>3
  <2> QED
    BY <2>1
<1>16. x.red \subseteq M /\ x \in Trees
  BY <1>1, <1>6, <1>7
<1>17. Sorted(x, M, E, R)
  BY <1>10, <1>11, <1>12, <1>14, <1>15, <1>16 DEF Sorted
<1> QED
  BY <1>17 DEF M, E

LEMMA CutBare ==
  ASSUME NEW t, NEW N, N \subseteq Key, Bare(t, N), NEW parent, NEW node, NEW child,
         parent # NULL => parent \in N, NULL \notin Key, NEW x, CutIs(t, x, parent, node, child)
  PROVE  Bare(x, N \ {node})
<1>1. ASSUME NEW k \in Key, k \notin N \ {node}, NEW s \in Side
      PROVE  x.child[s][k] = NULL
  <2>1. CASE k = node
    BY <2>1 DEF CutIs
  <2>2. CASE k # node
    <3>1. k \notin N /\ k # parent
      BY <1>1, <2>2
    <3> QED
      BY <2>2, <3>1 DEF CutIs, Bare
  <2> QED
    BY <2>1, <2>2
<1> QED
  BY <1>1 DEF Bare

(* One black node is missing below the parent, if the node was black.      *)
LEMMA CutHeights ==
  ASSUME NEW t, NEW N, NEW D, NEW R, NEW B, Balanced(t, N, D, R, B), NEW parent, NEW node, NEW child,
         Single(t, N, parent, node, child), NEW x, CutIs(t, x, parent, node, child),
         NEW n \in N \ {node}, NEW s \in Side
  PROVE  /\ B[n] \in Nat /\ Height(B, x.child[s][n]) \in Nat
         /\ B[n] = Height(B, x.child[s][n]) + Ink(x, n)
                     + IF n = parent /\ s = SideOf(t, parent, node) THEN Ink(t, node) ELSE 0
<1> DEFINE side == SideOf(t, parent, node)
<1>0. /\ Sorted(t, N, D, R) /\ Even(t, N, B, NULL, "left")
  BY BalancedParts
<1>1. /\ N \subseteq Key /\ NULL \notin N /\ n \in N /\ n # node /\ n \in Key
      /\ \A m \in N, q \in Side : t.child[q][m] \in N \cup {NULL}
  BY <1>0, SortedParts
<1>2. node \in N /\ parent \in Node /\ IsParent(t, N, parent, node)
  BY DEF Single
<1>3. child \in N \cup {NULL}
  BY <1>0, SingleChild
<1>4. parent # NULL => parent \in N /\ side \in Side /\ t.child[side][parent] = node
  BY <1>0, <1>2, LinkIs
<1> HIDE DEF side
<1>5. PICK z \in Side : t.child[z][node] = child
  BY DEF Single
<1>12. NULL \notin N /\ n \in N /\ node \in N
  BY <1>1, <1>2
<1>13. Even(t, N, B, NULL, "left")
  BY <1>0
<1>6. B[node] \in Nat /\ B[node] = Height(B, child) + Ink(t, node) + 0
  <2>1. B[node] \in Nat /\ B[node] = Height(B, t.child[z][node]) + Ink(t, node) + 0
    BY <1>12, <1>13, EvenParts
  <2> QED
    BY <1>5, <2>1
<1>7. B[n] \in Nat /\ B[n] = Height(B, t.child[s][n]) + Ink(t, n) + 0
  BY <1>12, <1>13, EvenParts
<1>8. \A c \in N \cup {NULL} : Height(B, c) \in Nat
  <2>1. \A c \in N : B[c] \in Nat
    BY <1>0, Sides DEF Even
  <2> QED
    BY <2>1 DEF Height
<1>9. Ink(x, n) = Ink(t, n) /\ Ink(t, n) \in {0, 1} /\ Ink(t, node) \in {0, 1}
  BY <1>1 DEF Ink, CutIs
<1>10. CASE n = parent /\ s = side
  <2>1. x.child[s][n] = child /\ t.child[s][n] = node
    BY <1>1, <1>4, <1>10 DEF CutIs, side
  <2>2. Height(B, node) = B[node]
    BY <1>1, <1>2 DEF Height
  <2>3. Height(B, child) \in Nat /\ B[n] = (Height(B, child) + Ink(t, node) + 0) + Ink(t, n) + 0
    BY <1>3, <1>6, <1>7, <1>8, <2>1, <2>2
  <2> QED
    BY <1>7, <1>9, <1>10, <2>1, <2>3 DEF side
<1>11. CASE ~ (n = parent /\ s = side)
  <2>1. x.child[s][n] = t.child[s][n]
    BY <1>1, <1>11 DEF CutIs, side
  <2>2. Height(B, t.child[s][n]) \in Nat
    BY <1>1, <1>8
  <2> QED
    BY <1>7, <1>9, <1>11, <2>1, <2>2 DEF side
<1> QED
  BY <1>10, <1>11

LEMMA CutApart ==
  ASSUME NEW t, NEW N, NEW D, NEW R, NEW B, Balanced(t, N, D, R, B), NEW parent, NEW node, NEW child,
         Single(t, N, parent, node, child), NEW x, CutIs(t, x, parent, node, child)
  PROVE  /\ RedApart(x, N \ {node}, child)
         /\ node \in t.red => RedApart(x, N \ {node}, NULL)
<1> DEFINE side == SideOf(t, parent, node)
<1>0. Sorted(t, N, D, R) /\ RedApart(t, N, NULL)
  BY BalancedParts
<1>1. N \subseteq Key /\ NULL \notin N /\ t.red \subseteq N
  BY <1>0, SortedParts
<1>2. node \in N /\ parent \in Node /\ IsParent(t, N, parent, node)
  BY DEF Single
<1>3. parent # NULL => parent \in N /\ side \in Side /\ t.child[side][parent] = node
  BY <1>0, <1>2, LinkIs
<1>4. x.red = t.red \ {node}
  BY DEF CutIs
<1>5. ASSUME NEW n \in N \ {node}, NEW s \in Side, n \in x.red, x.child[s][n] \in x.red
      PROVE  n = parent /\ s = side /\ x.child[s][n] = child
  <2>1. n \in Key /\ n # node /\ n \in N /\ n \in t.red /\ x.child[s][n] \in t.red
    BY <1>1, <1>4, <1>5
  <2>2. CASE ~ (n = parent /\ s = side)
    <3>1. x.child[s][n] = t.child[s][n]
      BY <2>1, <2>2 DEF CutIs
    <3>2. t.child[s][n] = NULL
      BY <1>0, <2>1, <3>1 DEF RedApart
    <3> QED
      BY <1>1, <2>1, <3>1, <3>2
  <2>3. CASE n = parent /\ s = side
    BY <2>1, <2>3 DEF CutIs
  <2> QED
    BY <2>2, <2>3
<1>6. ASSUME NEW n \in N \ {node}, NEW s \in Side, n \in x.red, x.child[s][n] \in x.red, node \in t.red
      PROVE  FALSE
  <2>1. n = parent /\ s = side /\ n \in t.red /\ n \in N
    BY <1>4, <1>5, <1>6
  <2>2. t.child[s][n] = node
    BY <1>1, <1>3, <2>1
  <2> QED
    BY <1>0, <1>1, <1>2, <1>6, <2>1, <2>2 DEF RedApart
<1> QED
  BY <1>5, <1>6 DEF RedApart

LEMMA CutRed ==
  ASSUME NEW t, NEW N, NEW D, NEW R, NEW B, Balanced(t, N, D, R, B), NEW parent, NEW node, NEW child,
         Single(t, N, parent, node, child), NEW x, CutIs(t, x, parent, node, child), node \in t.red
  PROVE  Balanced(x, N \ {node}, CutSets(N, D, node), R, B)
<1> DEFINE M == N \ {node}
<1>0. Sorted(t, N, D, R) /\ Bare(t, N) /\ RedApart(t, N, NULL) /\ t.root \notin t.red
  BY BalancedParts
<1>1. N \subseteq Key /\ NULL \notin N /\ NULL \notin Key /\ NULL \notin M
  BY <1>0, SortedParts, NullIsNoKey
<1>2. node \in N /\ parent \in Node /\ IsParent(t, N, parent, node)
  BY DEF Single
<1>3. parent # NULL => parent \in N
  BY <1>2 DEF IsParent
<1>4. Sorted(x, M, CutSets(N, D, node), R)
  BY <1>0, CutSorts
<1>5. Bare(x, M)
  BY <1>0, <1>1, <1>3, CutBare
<1>6. RedApart(x, M, NULL)
  BY CutApart
<1>7. Even(x, M, B, NULL, "left")
  <2>1. ASSUME NEW n \in M, NEW s \in Side
        PROVE  B[n] \in Nat /\ B[n] = Height(B, x.child[s][n]) + Ink(x, n) + Missing(n, s, NULL, "left")
    <3>1. /\ B[n] \in Nat /\ Height(B, x.child[s][n]) \in Nat
          /\ B[n] = Height(B, x.child[s][n]) + Ink(x, n)
                     + IF n = parent /\ s = SideOf(t, parent, node) THEN Ink(t, node) ELSE 0
      BY CutHeights
    <3>2. Ink(t, node) = 0 /\ Missing(n, s, NULL, "left") = 0
      BY <1>1 DEF Ink, Missing
    <3> QED
      BY <3>1, <3>2
  <2> QED
    BY <2>1 DEF Even
<1>8. x.root \notin x.red
  <2>1. parent # NULL
    BY <1>0, <1>2 DEF IsParent
  <2> QED
    BY <1>0, <2>1 DEF CutIs
<1>9. Balanced(x, M, CutSets(N, D, node), R, B)
  BY <1>4, <1>5, <1>6, <1>7, <1>8, BalancedParts
<1> QED
  BY <1>9

(* The path to the child after the node has gone.                          *)
LEMMA CutPath ==
  ASSUME NEW t, NEW N, NEW D, NEW R, Sorted(t, N, D, R), NEW path, IsPath(t, N, path),
         NEW parent, parent = Up(path, 1), NEW node, node = Last(path), NEW child,
         Single(t, N, parent, node, child), NEW x, CutIs(t, x, parent, node, child),
         NEW q, q = Append(Front(path), child)
  PROVE  Landed(x, N \ {node}, path, parent, child, q)
<1> DEFINE M == N \ {node}
           L == Len(path)
           side == SideOf(t, parent, node)
           p == Front(path)
<1>1. N \subseteq Key /\ NULL \notin N
  BY SortedParts
<1>2. node \in N /\ parent \in Node /\ IsParent(t, N, parent, node)
  BY DEF Single
<1>3. child \in N \cup {NULL} /\ child \in Node
  <2>1. child \in N \cup {NULL}
    BY SingleChild
  <2> QED
    BY <1>1, <2>1 DEF Node
<1>4. path \in Seq(Node) /\ path # <<>> /\ path[1] = t.root
  BY DEF IsPath
<1>5. Shorter(Node, path, p)
  BY <1>4, FrontIs
<1>6. /\ p \in Seq(Node) /\ L \in Nat /\ L > 0 /\ Len(p) = L - 1 /\ Len(p) \in Nat
      /\ \A i \in 1 .. L - 1 : p[i] = path[i]
  BY <1>5 DEF Shorter
<1>7. Longer(Node, p, child, q)
  <2> HIDE DEF p
  <2>1. Longer(Node, p, child, Append(p, child))
    BY <1>3, <1>6, Appended
  <2> QED
    BY <2>1 DEF p
<1>8. /\ q \in Seq(Node) /\ q # <<>> /\ Len(q) = Len(p) + 1 /\ q[Len(p) + 1] = child
      /\ \A i \in 1 .. Len(p) : q[i] = p[i]
  BY <1>7 DEF Longer
<1>9. (L - 1) + 1 = L
  BY <1>6
<1>10. Len(q) = L /\ q[L] = child /\ \A i \in 1 .. L - 1 : q[i] = path[i]
  BY <1>6, <1>8, <1>9
<1>11. path[L] = node
  BY DEF Last
<1> HIDE DEF p, L, side, M
<1>12. L \in 1 .. L
  BY <1>6
<1>13. \A i \in 1 .. L - 1 : /\ path[i] \in N /\ path[i] # node
                            /\ \E s \in Side : t.child[s][path[i]] = path[i + 1]
  <2>1. ASSUME NEW i \in 1 .. L - 1
        PROVE  path[i] # node
    <3>1. path[L] # NULL /\ i < L /\ L \in 1 .. Len(path) /\ i \in 1 .. Len(path) - 1
      BY <1>1, <1>2, <1>6, <1>11, <1>12 DEF L
    <3> QED
      BY <1>11, <3>1, PathOnce
  <2> QED
    BY <2>1 DEF IsPath, L
<1>14. Up(path, 0) = node
  BY <1>6, <1>11 DEF Up, L
<1>15. \A n \in Nat : Up(path, n) = (IF L > n THEN path[L - n] ELSE NULL)
  BY DEF Up, L
<1>16. \A n \in Nat : Up(q, n) = (IF L > n THEN q[L - n] ELSE NULL)
  BY <1>10 DEF Up
<1>17. Up(q, 0) = child
  BY <1>6, <1>10, <1>16
<1>18. \A n \in Nat : n > 0 => Up(q, n) = Up(path, n)
  <2>1. ASSUME NEW n \in Nat, n > 0
        PROVE  Up(q, n) = Up(path, n)
    <3>1. CASE L > n
      <4>1. L - n \in 1 .. L - 1
        BY <1>6, <2>1, <3>1
      <4> QED
        BY <1>10, <1>15, <1>16, <4>1
    <3>2. CASE ~ (L > n)
      BY <1>15, <1>16, <3>2
    <3> QED
      BY <3>1, <3>2
  <2> QED
    BY <2>1
<1>19. Up(q, 1) = parent /\ Up(q, 2) = Up(path, 2)
  <2>1. 1 \in Nat /\ 2 \in Nat /\ 1 > 0 /\ 2 > 0
    OBVIOUS
  <2> QED
    BY <1>18, <2>1
<1>20. /\ parent = NULL <=> t.root = node
       /\ parent # NULL => parent \in N /\ side \in Side /\ t.child[side][parent] = node
       /\ \A n \in N, s \in Side : t.child[s][n] = node <=> n = parent /\ s = side
  BY <1>2, LinkIs DEF side
<1>21. /\ x.root = (IF parent = NULL THEN child ELSE t.root)
       /\ \A s \in Side, m \in N :
            m # node => x.child[s][m] = IF m = parent /\ s = side THEN child ELSE t.child[s][m]
  BY <1>1 DEF CutIs, side
<1>22. L = 1 => parent = NULL
  <2>1. 1 \in Nat
    OBVIOUS
  <2> QED
    BY <1>15, <2>1
<1>23. L # 1 => parent = path[L - 1] /\ L - 1 \in 1 .. L - 1
  <2>1. 1 \in Nat /\ (L # 1 => L > 1 /\ L - 1 \in 1 .. L - 1)
    BY <1>6
  <2> QED
    BY <1>15, <2>1
<1>24. q[1] = x.root
  <2>1. CASE L = 1
    BY <1>10, <1>21, <1>22, <2>1
  <2>2. CASE L # 1
    <3>1. parent # NULL /\ 1 \in 1 .. L - 1
      BY <1>1, <1>6, <1>13, <1>23, <2>2
    <3> QED
      BY <1>4, <1>10, <1>21, <3>1
  <2> QED
    BY <2>1, <2>2
<1>25. ASSUME NEW i \in 1 .. Len(q) - 1
       PROVE  q[i] \in M /\ \E s \in Side : x.child[s][q[i]] = q[i + 1]
  <2>0. i \in 1 .. L - 1 /\ q[i] = path[i] /\ path[i] \in N /\ path[i] # node
    BY <1>10, <1>13
  <2>1. q[i] \in M
    BY <2>0 DEF M
  <2>2. CASE i = L - 1
    <3>1. L # 1 /\ i + 1 = L
      BY <1>6, <2>0, <2>2
    <3>2. path[i] = parent /\ q[i + 1] = child
      BY <1>10, <1>23, <2>2, <3>1
    <3>3. parent # NULL
      BY <1>1, <2>0, <3>2
    <3>4. x.child[side][parent] = child /\ side \in Side
      BY <1>20, <1>21, <2>0, <3>2, <3>3
    <3> QED
      BY <2>0, <2>1, <3>2, <3>4
  <2>3. CASE i # L - 1
    <3>1. i + 1 \in 1 .. L - 1
      BY <1>6, <2>0, <2>3
    <3>2. q[i + 1] = path[i + 1] /\ path[i + 1] # node
      BY <1>10, <1>13, <3>1
    <3>3. PICK s \in Side : t.child[s][path[i]] = path[i + 1]
      BY <1>13, <2>0
    <3>4. ~ (path[i] = parent /\ s = side)
      BY <1>20, <2>0, <3>2, <3>3
    <3>5. x.child[s][path[i]] = path[i + 1]
      BY <1>21, <2>0, <3>3, <3>4
    <3> QED
      BY <2>0, <2>1, <3>2, <3>5
  <2> QED
    BY <2>2, <2>3
<1>26. IsPath(x, M, q)
  BY <1>8, <1>24, <1>25 DEF IsPath
<1> QED
  BY <1>8, <1>17, <1>19, <1>26 DEF M, Landed

LEMMA CutBlack ==
  ASSUME NEW t, NEW N, NEW D, NEW R, NEW B, Balanced(t, N, D, R, B), NEW path, IsPath(t, N, path),
         NEW parent, parent = Up(path, 1), NEW node, node = Last(path), NEW child,
         Single(t, N, parent, node, child), NEW x, CutIs(t, x, parent, node, child), node \notin t.red,
         NEW q, q = Append(Front(path), child)
  PROVE  RemoveState(x, N \ {node}, CutSets(N, D, node), R, B, q) /\ IsPath(x, N \ {node}, q)
<1>17. Landed(x, N \ {node}, path, parent, child, q)
  <2>1. Sorted(t, N, D, R)
    BY BalancedParts
  <2> QED
    BY <2>1, CutPath
<1> DEFINE M == N \ {node}
           E == CutSets(N, D, node)
           side == IF parent = NULL THEN "left" ELSE SideOf(t, parent, node)
<1>0. Sorted(t, N, D, R) /\ Bare(t, N) /\ RedApart(t, N, NULL) /\ t.root \notin t.red
  BY BalancedParts
<1>1. N \subseteq Key /\ NULL \notin N /\ NULL \notin Key /\ NULL \notin M /\ M \subseteq Key
  BY <1>0, SortedParts, NullIsNoKey
<1>2. node \in N /\ parent \in Node /\ IsParent(t, N, parent, node)
  BY DEF Single
<1>3. /\ parent = NULL <=> t.root = node
      /\ parent # node
      /\ parent # NULL => parent \in N /\ SideOf(t, parent, node) \in Side
  BY <1>0, <1>2, LinkIs
<1>4. Sorted(x, M, E, R)
  BY <1>0, CutSorts
<1>5. Bare(x, M)
  BY <1>0, <1>1, <1>3, CutBare
<1>6. RedApart(x, M, child)
  BY CutApart
<1>7. /\ IsPath(x, M, q) /\ q # <<>>
      /\ Up(q, 0) = child /\ Up(q, 1) = parent
  BY <1>17 DEF Landed
<1>8. child \in M \cup {NULL}
  BY <1>0, SingleChild
<1>9. parent \in M \cup {NULL}
  BY <1>3
<1>10. side \in Side /\ (parent # NULL => side = SideOf(t, parent, node))
  BY <1>3, Sides
<1> HIDE DEF M, E, side
<1>11. Even(x, M, B, parent, side)
  <2>1. ASSUME NEW n \in M, NEW s \in Side
        PROVE  B[n] \in Nat /\ B[n] = Height(B, x.child[s][n]) + Ink(x, n) + Missing(n, s, parent, side)
    <3>1. /\ B[n] \in Nat /\ Height(B, x.child[s][n]) \in Nat
          /\ B[n] = Height(B, x.child[s][n]) + Ink(x, n)
                     + IF n = parent /\ s = SideOf(t, parent, node) THEN Ink(t, node) ELSE 0
      BY CutHeights DEF M
    <3>2. Ink(t, node) = 1 /\ n # NULL
      BY <1>1 DEF Ink
    <3>3. Missing(n, s, parent, side) = IF n = parent /\ s = SideOf(t, parent, node) THEN Ink(t, node) ELSE 0
      BY <1>10, <3>2 DEF Missing
    <3> QED
      BY <3>1, <3>3
  <2> QED
    BY <2>1 DEF Even
<1>12. parent # NULL => x.child[side][parent] = child
  BY <1>1, <1>3, <1>10 DEF CutIs
<1>13. parent = NULL => x.root = child
  BY DEF CutIs
<1>14. x.root \in x.red => parent = NULL
  BY <1>0 DEF CutIs
<1>15. parent # NULL => Up(q, 2) \in Node /\ IsParent(x, M, Up(q, 2), parent)
  <2>1. /\ Len(q) \in Nat \ {0} /\ Up(q, 2) \in Node
        /\ Up(q, 1) = NULL <=> Len(q) = 1
        /\ Len(q) > 1 => IsParent(x, M, Up(q, 2), Up(q, 1))
    BY <1>1, <1>7, UpIs
  <2>2. \A n \in Nat \ {0} : n # 1 => n > 1
    OBVIOUS
  <2> QED
    BY <1>7, <2>1, <2>2
<1>16. RemoveState(x, M, E, R, B, q)
  BY <1>4, <1>5, <1>6, <1>7, <1>8, <1>9, <1>10, <1>11, <1>12, <1>13, <1>14, <1>15 DEF RemoveState
<1> QED
  BY <1>7, <1>16 DEF M, E

(* A node with one child at most is removed.                               *)
LEMMA Taken ==
  ASSUME NEW t, NEW N, NEW D, NEW R, NEW B, Balanced(t, N, D, R, B), NEW path, IsPath(t, N, path),
         NEW node \in N, node = Last(path),
         t.child["left"][node] = NULL \/ t.child["right"][node] = NULL,
         NEW child, child = IF t.child["left"][node] # NULL THEN t.child["left"][node] ELSE t.child["right"][node],
         NEW x, x = CutTree(t, Up(path, 1), node, child),
         NEW y, y = IF node \in t.red THEN x ELSE value_dict_fix_after_remove(x, Append(Front(path), child))
  PROVE  \E E, A : Balanced(y, N \ {node}, E, R, A)
<1> DEFINE parent == Up(path, 1)
           M == N \ {node}
<1>0. Sorted(t, N, D, R)
  BY BalancedParts
<1>1. N \subseteq Key /\ t \in Trees /\ node \in Key
  BY <1>0, SortedParts
<1>2. parent \in Node /\ IsParent(t, N, parent, node) /\ path # <<>>
  <2>1. Len(path) \in Nat \ {0} /\ Up(path, 1) \in Node /\ IsParent(t, N, Up(path, 1), Up(path, 0))
    BY <1>1, UpIs
  <2>2. Up(path, 0) = node
    BY <2>1 DEF Up, Last
  <2> QED
    BY <2>1, <2>2 DEF IsPath
<1>3. Single(t, N, parent, node, child)
  <2>1. \E s \in Side : t.child[s][node] = child /\ t.child[Other(s)][node] = NULL
    BY Sides
  <2> QED
    BY <1>2, <2>1 DEF Single
<1>4. child \in Node
  <2>1. child \in N \cup {NULL}
    BY <1>0, <1>3, SingleChild
  <2> QED
    BY <1>1, <2>1 DEF Node
<1> DEFINE q == Append(Front(path), child)
<1>5. parent = Up(path, 1) /\ q = Append(Front(path), child)
  OBVIOUS
<1> HIDE DEF parent, q
<1>6. CutIs(t, x, parent, node, child)
  BY <1>1, <1>2, <1>4, <1>5, CutFacts
<1>7. CASE node \in t.red
  <2>1. Balanced(x, N \ {node}, CutSets(N, D, node), R, B)
    BY <1>3, <1>6, <1>7, CutRed
  <2>2. y = x
    BY <1>7
  <2> QED
    BY <2>1, <2>2
<1>8. CASE node \notin t.red
  <2>1. RemoveState(x, N \ {node}, CutSets(N, D, node), R, B, q) /\ IsPath(x, N \ {node}, q)
    BY <1>3, <1>5, <1>6, <1>8, CutBlack
  <2>2. y = value_dict_fix_after_remove(x, q)
    BY <1>5, <1>8
  <2>3. RemoveState(x, M, CutSets(N, D, node), R, B, q) /\ IsPath(x, M, q)
    BY <2>1
  <2> HIDE DEF M
  <2>4. \E E, A : Balanced(value_dict_fix_after_remove(x, q), M, E, R, A)
    BY <2>3, RemoveFixed
  <2> QED
    BY <2>2, <2>4 DEF M
<1> QED
  BY <1>7, <1>8

(* Without the node, its successor's new place is right for it.            *)
LEMMA Adjacent ==
  ASSUME NEW t, NEW N, NEW D, Sorted(t, N, D, Rank), NEW node \in N,
         NEW right, right = t.child["right"][node], right # NULL,
         NEW way, LeftWay(t, N, right, way), NEW successor, successor = Last(way)
  PROVE  /\ successor \in N /\ Rank[node] < Rank[successor]
         /\ \A m \in N : ~ (Rank[node] < Rank[m] /\ Rank[m] < Rank[successor])
<1>1. N \subseteq Key /\ NULL \notin N /\ \A n \in N : D[n] \subseteq N /\ n \in D[n]
  BY SortedParts
<1>2. right \in N /\ D[right] = Part(D[node], Rank, node, "right")
  BY ChildIs, Sides
<1>3. \A n \in N : Rank[n] \in Int
  BY <1>1, RankIs
<1>4. \A m \in D[right] : successor \in D[right] /\ Rank[successor] <= Rank[m]
  BY <1>2, LeftWayLeast
<1>5. successor \in D[right] /\ successor \in N
  BY <1>1, <1>2, <1>4
<1>6. successor \in D[node] /\ Rank[node] < Rank[successor]
  BY <1>2, <1>5, Sides DEF Part
<1>7. ASSUME NEW m \in N, Rank[node] < Rank[m], Rank[m] < Rank[successor]
      PROVE  FALSE
  <2>1. m \in D[node]
    BY <1>6, <1>7, NoneBetween
  <2>2. m \in D[right]
    BY <1>2, <1>7, <2>1, Sides DEF Part
  <2>3. Rank[successor] <= Rank[m]
    BY <1>4, <2>2
  <2> QED
    BY <1>3, <1>5, <1>7, <2>3
<1> QED
  BY <1>5, <1>6, <1>7

LEMMA Reranked ==
  ASSUME NEW x, NEW M, NEW E, NEW R, NEW B, Balanced(x, M, E, R, B),
         NEW Q, Ranked(M, Q), \A m, n \in M : R[m] < R[n] <=> Q[m] < Q[n]
  PROVE  Balanced(x, M, E, Q, B)
<1>0. /\ Sorted(x, M, E, R) /\ Bare(x, M) /\ Even(x, M, B, NULL, "left")
      /\ RedApart(x, M, NULL) /\ x.root \notin x.red
  BY BalancedParts
<1>1. ASSUME NEW n \in M, NEW s \in Side
      PROVE  Part(E[n], Q, n, s) = Part(E[n], R, n, s)
  <2>1. E[n] \subseteq M
    BY <1>0, SortedParts
  <2> QED
    BY <2>1 DEF Part
<1>2. Sorted(x, M, E, Q)
  BY <1>0, <1>1 DEF Sorted
<1> QED
  BY <1>0, <1>2, BalancedParts

LEMMA SwapOrder ==
  ASSUME NEW t, NEW N, NEW D, Sorted(t, N, D, Rank), NEW node \in N, NEW successor \in N,
         Rank[node] < Rank[successor],
         \A m \in N : ~ (Rank[node] < Rank[m] /\ Rank[m] < Rank[successor]),
         NEW Q, Q = SwapRanks(Rank, Swap(node, successor))
  PROVE  \A m, n \in N \ {node} : Q[m] < Q[n] <=> Rank[m] < Rank[n]
<1>1. N \subseteq Key /\ \A n \in N : Rank[n] \in Int
  BY SortedParts, RankIs
<1>2. \A m, n \in N : Rank[m] = Rank[n] => m = n
  BY DEF Sorted, Ranked
<1>3. \A n \in N \ {node} : Q[n] = IF n = successor THEN Rank[node] ELSE Rank[n]
  <2>1. \A n \in Key : Q[n] = Rank[Swap(node, successor)[n]] /\ n \in Node
    BY DEF SwapRanks, Node
  <2>2. \A n \in N \ {node} : Swap(node, successor)[n] = IF n = successor THEN node ELSE n
    BY <1>1 DEF Swap, Node
  <2> QED
    BY <1>1, <2>1, <2>2
<1>4. \A n \in N \ {node} : n # successor =>
        /\ Rank[n] # Rank[node] /\ Rank[n] # Rank[successor]
        /\ ~ (Rank[node] < Rank[n] /\ Rank[n] < Rank[successor])
  BY <1>2
<1>5. ASSUME NEW m \in N \ {node}, NEW n \in N \ {node}
      PROVE  Q[m] < Q[n] <=> Rank[m] < Rank[n]
  <2>0. Rank[m] \in Int /\ Rank[n] \in Int /\ Rank[node] \in Int /\ Rank[successor] \in Int
    BY <1>1
  <2>1. CASE m = successor /\ n = successor
    BY <1>3, <2>0, <2>1
  <2>2. CASE m = successor /\ n # successor
    BY <1>3, <1>4, <2>0, <2>2
  <2>3. CASE m # successor /\ n = successor
    BY <1>3, <1>4, <2>0, <2>3
  <2>4. CASE m # successor /\ n # successor
    BY <1>3, <2>4
  <2> QED
    BY <2>1, <2>2, <2>3, <2>4
<1> QED
  BY <1>5

(* The dictionary is balanced after a removal.                             *)
LEMMA RemovedBalanced ==
  ASSUME NEW N, NEW D, NEW B, Balanced(tree, N, D, Rank, B), NEW path, IsPath(tree, N, path),
         NEW node \in N, node = Last(path)
  PROVE  \E E, A : Balanced(Removed(path), N \ {node}, E, Rank, A)
<1> DEFINE c == Sunk(path)
           child == IF c.tree.child["left"][node] # NULL THEN c.tree.child["left"][node]
                                                         ELSE c.tree.child["right"][node]
           x == CutTree(c.tree, Up(c.path, 1), node, child)
           y == IF node \in c.tree.red THEN x ELSE value_dict_fix_after_remove(x, Append(Front(c.path), child))
           way == value_dict_leftmost_path(tree, tree.child["right"][node])
           M == N \ {node}
<1>0. Sorted(tree, N, D, Rank) /\ Bare(tree, N)
  BY BalancedParts
<1>1. N \subseteq Key /\ NULL \notin N
  BY <1>0, SortedParts
<1>2. Removed(path) = y
  BY DEF Removed, CutTree
<1>3. child = (IF c.tree.child["left"][node] # NULL THEN c.tree.child["left"][node] ELSE c.tree.child["right"][node])
  OBVIOUS
<1>4. x = CutTree(c.tree, Up(c.path, 1), node, child)
  OBVIOUS
<1>5. y = (IF node \in c.tree.red THEN x ELSE value_dict_fix_after_remove(x, Append(Front(c.path), child)))
  OBVIOUS
<1>6. way = value_dict_leftmost_path(tree, tree.child["right"][node])
  OBVIOUS
<1>7. ~ Sinks(node, way) => c.tree = tree /\ c.path = path
  <2>1. ~ Sinks(node, way) => c = Climb(tree, path)
    BY DEF Sinks, Sunk
  <2> QED
    BY <2>1 DEF Climb
<1> HIDE DEF c, child, x, y, way
<1>8. CASE ~ Sinks(node, way)
  <2>1. tree.child["left"][node] = NULL \/ tree.child["right"][node] = NULL
    BY <1>8 DEF Sinks
  <2>2. c.tree = tree /\ c.path = path
    BY <1>7, <1>8
  <2>3. \E E, A : Balanced(y, N \ {node}, E, Rank, A)
    BY <1>3, <1>4, <1>5, <2>1, <2>2, Taken
  <2> QED
    BY <1>2, <2>3
<1>9. CASE Sinks(node, way)
  <2> DEFINE successor == Last(way)
             right == tree.child["right"][node]
             f == Swap(node, successor)
             Q == SwapRanks(Rank, f)
             E == SwapSets(N, D, f)
             A == SwapHeights(N, B, f)
  <2>0. right = tree.child["right"][node] /\ successor = Last(way) /\ f = Swap(node, successor)
        /\ Q = SwapRanks(Rank, f)
    OBVIOUS
  <2>13. Q = SwapRanks(Rank, Swap(node, successor))
    OBVIOUS
  <2>14. Balanced(c.tree, N, SwapSets(N, D, f), SwapRanks(Rank, f), SwapHeights(N, B, f))
           => Balanced(c.tree, N, E, Q, A)
    OBVIOUS
  <2> HIDE DEF successor, right, f, Q, E, A
  <2>1. SunkIs(tree, N, path, node, successor, right, c)
    BY <1>0, <1>6, <1>9, <2>0, SunkSwaps DEF c
  <2>2. /\ successor \in N /\ node # successor
        /\ Swaps(tree, c.tree, f) /\ IsPath(c.tree, N, c.path) /\ Last(c.path) = node
        /\ c.tree.child["left"][node] = NULL
    BY <2>0, <2>1 DEF SunkIs
  <2>3. SwapFacts(N, f)
    BY <1>1, <2>0, <2>2, SwapIs
  <2>4. Balanced(c.tree, N, SwapSets(N, D, f), SwapRanks(Rank, f), SwapHeights(N, B, f))
    BY <2>2, <2>3, SwapBalances
  <2>5. Balanced(c.tree, N, E, Q, A)
    BY <2>4, <2>14
  <2>6. \E F, C : Balanced(y, N \ {node}, F, Q, C)
    BY <1>3, <1>4, <1>5, <2>2, <2>5, Taken
  <2>7. right # NULL /\ right \in N /\ LeftWay(tree, N, right, way)
    <3>1. right # NULL
      BY <1>9, <2>0 DEF Sinks
    <3>2. right \in N
      BY <1>0, <2>0, <3>1, ChildIs, Sides
    <3> QED
      BY <1>0, <1>6, <2>0, <3>1, <3>2, LeftWayIs
  <2>8. /\ Rank[node] < Rank[successor]
        /\ \A m \in N : ~ (Rank[node] < Rank[m] /\ Rank[m] < Rank[successor])
    BY <1>0, <2>0, <2>7, Adjacent
  <2>9. \A m, n \in N \ {node} : Q[m] < Q[n] <=> Rank[m] < Rank[n]
    BY <1>0, <2>2, <2>8, <2>13, SwapOrder
  <2>10. Ranked(N \ {node}, Rank)
    BY <1>0 DEF Sorted, Ranked
  <2>11. \E F, C : Balanced(y, M, F, Q, C)
    BY <2>6
  <2>12. Ranked(M, Rank) /\ \A m, n \in M : Q[m] < Q[n] <=> Rank[m] < Rank[n]
    BY <2>9, <2>10
  <2> HIDE DEF M
  <2>15. \E F, C : Balanced(y, M, F, Rank, C)
    BY <2>11, <2>12, Reranked
  <2> QED
    BY <1>2, <2>15 DEF M
<1> QED
  BY <1>8, <1>9

-----------------------------------------------------------------------------
(* Walks *)

LEMMA LeftWayNested ==
  ASSUME NEW t, NEW N, NEW D, NEW R, Sorted(t, N, D, R), NEW start,
         NEW w, LeftWay(t, N, start, w), NEW i \in 1 .. Len(w), NEW j \in 1 .. Len(w), i < j
  PROVE  \A m \in D[w[j]] : m \in D[w[i]] /\ R[m] < R[w[i]]
<1>1. N \subseteq Key /\ NULL \notin N /\ \A n \in N : n \in D[n] /\ D[n] \subseteq N /\ R[n] \in Int
  BY SortedParts
<1>2. /\ Len(w) \in Nat
      /\ \A h \in 1 .. Len(w) : w[h] \in N
      /\ \A h \in 1 .. Len(w) - 1 : w[h + 1] = t.child["left"][w[h]]
  BY DEF LeftWay
<1>3. \A h \in 1 .. Len(w) - 1 : D[w[h + 1]] = Part(D[w[h]], R, w[h], "left")
  <2>1. ASSUME NEW h \in 1 .. Len(w) - 1
        PROVE  D[w[h + 1]] = Part(D[w[h]], R, w[h], "left")
    <3>1. h \in 1 .. Len(w) /\ h + 1 \in 1 .. Len(w)
      BY <1>2
    <3>2. w[h] \in N /\ w[h + 1] # NULL /\ w[h + 1] = t.child["left"][w[h]]
      BY <1>1, <1>2, <3>1
    <3> QED
      BY <3>2, ChildIs, Sides
  <2> QED
    BY <2>1
<1>4. \A h \in 1 .. Len(w) - 1 : \A m \in D[w[h + 1]] : m \in D[w[h]] /\ R[m] < R[w[h]]
  BY <1>3 DEF Part
<1> DEFINE T == {d \in Nat : i + d + 1 <= Len(w) =>
                   \A m \in D[w[i + d + 1]] : m \in D[w[i]] /\ R[m] < R[w[i]]}
<1>5. 0 \in T
  <2>1. i + 0 + 1 = i + 1 /\ (i + 1 <= Len(w) => i \in 1 .. Len(w) - 1)
    BY <1>2
  <2> QED
    BY <1>4, <2>1
<1>6. ASSUME NEW d \in Nat, d \in T
      PROVE  d + 1 \in T
  <2>1. SUFFICES ASSUME i + (d + 1) + 1 <= Len(w), NEW m \in D[w[i + (d + 1) + 1]]
                 PROVE  m \in D[w[i]] /\ R[m] < R[w[i]]
    OBVIOUS
  <2>2. i + d + 1 \in 1 .. Len(w) - 1 /\ i + d + 1 <= Len(w) /\ (i + d + 1) + 1 = i + (d + 1) + 1
    BY <1>2, <2>1
  <2>3. m \in D[w[i + d + 1]]
    BY <1>4, <2>1, <2>2
  <2> QED
    BY <1>6, <2>2, <2>3
<1>7. Nat \subseteq T
  <2> HIDE DEF T
  <2> QED
    BY <1>5, <1>6, AllNumbers
<1>8. j - i - 1 \in Nat /\ i + (j - i - 1) + 1 = j /\ j <= Len(w)
  BY <1>2
<1>9. j - i - 1 \in T
  BY <1>7, <1>8
<1> HIDE DEF T
<1>10. i + (j - i - 1) + 1 <= Len(w) =>
         \A m \in D[w[i + (j - i - 1) + 1]] : m \in D[w[i]] /\ R[m] < R[w[i]]
  BY <1>9 DEF T
<1> QED
  BY <1>8, <1>10

LEMMA LeftWayCovers ==
  ASSUME NEW t, NEW N, NEW D, NEW R, Sorted(t, N, D, R), NEW start \in N,
         NEW w, LeftWay(t, N, start, w), NEW m \in D[start]
  PROVE  \E j \in 1 .. Len(w) : m \in Chunk(D, R, w[j])
<1>1. N \subseteq Key /\ NULL \notin N /\ \A n \in N : n \in D[n] /\ D[n] \subseteq N /\ R[n] \in Int
  BY SortedParts
<1>2. /\ Len(w) \in Nat /\ Len(w) > 0 /\ w[1] = start /\ Last(w) = w[Len(w)]
      /\ t.child["left"][Last(w)] = NULL
      /\ \A h \in 1 .. Len(w) : w[h] \in N
      /\ \A h \in 1 .. Len(w) - 1 : w[h + 1] = t.child["left"][w[h]]
  BY <1>1 DEF LeftWay
<1> SUFFICES ASSUME \A j \in 1 .. Len(w) : m \notin Chunk(D, R, w[j]) PROVE FALSE
  OBVIOUS
<1>3. \A j \in 1 .. Len(w) : m \in D[w[j]] => m \in Part(D[w[j]], R, w[j], "left")
  BY <1>1, <1>2 DEF Chunk, Part
<1> DEFINE T == {i \in Nat : i + 1 <= Len(w) => m \in D[w[i + 1]]}
<1>4. 0 \in T
  BY <1>2
<1>5. ASSUME NEW i \in Nat, i \in T
      PROVE  i + 1 \in T
  <2>1. SUFFICES ASSUME (i + 1) + 1 <= Len(w)
                 PROVE  m \in D[w[(i + 1) + 1]]
    OBVIOUS
  <2>2. i + 1 \in 1 .. Len(w) - 1 /\ i + 1 \in 1 .. Len(w) /\ (i + 1) + 1 \in 1 .. Len(w) /\ i + 1 <= Len(w)
    BY <1>2, <2>1
  <2>3. /\ w[i + 1] \in N /\ w[(i + 1) + 1] # NULL
        /\ w[(i + 1) + 1] = t.child["left"][w[i + 1]] /\ m \in D[w[i + 1]]
    BY <1>1, <1>2, <1>5, <2>2
  <2>4. D[w[(i + 1) + 1]] = Part(D[w[i + 1]], R, w[i + 1], "left")
    BY <2>3, ChildIs, Sides
  <2> QED
    BY <1>3, <2>2, <2>3, <2>4
<1>6. Nat \subseteq T
  <2> HIDE DEF T
  <2> QED
    BY <1>4, <1>5, AllNumbers
<1>7. Len(w) - 1 \in Nat /\ (Len(w) - 1) + 1 = Len(w) /\ Len(w) \in 1 .. Len(w) /\ Len(w) <= Len(w)
  BY <1>2
<1>8. Len(w) - 1 \in T
  BY <1>6, <1>7
<1>9. m \in D[Last(w)] /\ Last(w) \in N
  BY <1>2, <1>7, <1>8
<1>10. m \in Part(D[Last(w)], R, Last(w), "left")
  BY <1>2, <1>3, <1>7, <1>9
<1>11. Part(D[Last(w)], R, Last(w), "left") = {}
  BY <1>2, <1>9, Sides DEF Sorted, Below
<1> QED
  BY <1>10, <1>11

(* At the start the way to the least node is the stack.                    *)
LEMMA WalkStarts ==
  ASSUME NEW t, NEW N, NEW D, NEW R, Sorted(t, N, D, R)
  PROVE  Walking(N, D, R, value_dict_leftmost_path(t, t.root), <<>>)
<1> DEFINE w == value_dict_leftmost_path(t, t.root)
<1>1. w = value_dict_leftmost_path(t, t.root)
  OBVIOUS
<1> HIDE DEF w
<1>2. t.root \in N \cup {NULL} /\ Below(D, t.root) = N
  BY DEF Sorted
<1>3. LeftWay(t, N, t.root, w)
  BY <1>1, <1>2, LeftWayIs
<1>4. w \in Seq(N) /\ Len(w) \in Nat /\ <<>> \in Seq(N) /\ Len(<<>>) = 0
  BY <1>3 DEF LeftWay
<1>5. \A i, j \in 1 .. Len(w) : i < j => \A m \in Chunk(D, R, w[j]) : R[m] < R[w[i]]
  <2>1. ASSUME NEW i \in 1 .. Len(w), NEW j \in 1 .. Len(w), i < j
        PROVE  \A m \in D[w[j]] : m \in D[w[i]] /\ R[m] < R[w[i]]
    BY <1>3, <2>1, LeftWayNested
  <2> QED
    BY <2>1 DEF Chunk
<1>6. \A m \in N : \E i \in 1 .. Len(w) : m \in Chunk(D, R, w[i])
  <2>1. ASSUME NEW m \in N
        PROVE  \E i \in 1 .. Len(w) : m \in Chunk(D, R, w[i])
    <3>1. t.root \in N /\ m \in D[t.root]
      BY <1>2 DEF Below
    <3> QED
      BY <1>3, <3>1, LeftWayCovers
  <2> QED
    BY <2>1
<1> DEFINE none == <<>>
<1>7. none \in Seq(N) /\ 1 .. Len(none) = {}
  BY <1>4
<1>8. none = <<>>
  OBVIOUS
<1> HIDE DEF none
<1>9. Walking(N, D, R, w, none)
  BY <1>4, <1>5, <1>6, <1>7 DEF Walking, Ascending
<1> QED
  BY <1>1, <1>8, <1>9

(* One round lists the last node of the stack.                             *)
LEMMA WalkGoes ==
  ASSUME NEW t, NEW N, NEW D, NEW R, Sorted(t, N, D, R),
         NEW stack, NEW keys, Walking(N, D, R, stack, keys), stack # <<>>,
         NEW a, a = Last(stack),
         NEW way, way = value_dict_leftmost_path(t, t.child["right"][a]),
         NEW new, new = Front(stack) \o way, NEW more, more = Append(keys, a)
  PROVE  Walking(N, D, R, new, more)
<1> DEFINE p == Front(stack)
           L == Len(stack)
           r == t.child["right"][a]
<1>1. /\ N \subseteq Key /\ NULL \notin N
      /\ \A n \in N : n \in D[n] /\ D[n] \subseteq N /\ R[n] \in Int
  BY SortedParts
<1>2. /\ stack \in Seq(N) /\ keys \in Seq(N)
      /\ Ascending(keys, R)
      /\ \A i \in 1 .. L, j \in 1 .. Len(keys) : \A m \in Chunk(D, R, stack[i]) : R[keys[j]] < R[m]
      /\ \A i, j \in 1 .. L : i < j => \A m \in Chunk(D, R, stack[j]) : R[m] < R[stack[i]]
      /\ \A m \in N : \/ \E j \in 1 .. Len(keys) : keys[j] = m
                      \/ \E i \in 1 .. L : m \in Chunk(D, R, stack[i])
  BY DEF Walking
<1>3. L \in Nat /\ L > 0 /\ a = stack[L] /\ a \in N /\ L \in 1 .. L
  BY <1>2, LastIs
<1>4. Shorter(N, stack, p)
  BY <1>2, FrontIs
<1>5. p \in Seq(N) /\ Len(p) = L - 1 /\ Len(p) \in Nat /\ \A i \in 1 .. L - 1 : p[i] = stack[i]
  BY <1>4 DEF Shorter
<1>6. r \in N \cup {NULL} /\ Below(D, r) = Part(D[a], R, a, "right")
  BY <1>3, Sides DEF Sorted
<1>7. LeftWay(t, N, r, way)
  BY <1>6, LeftWayIs
<1>8. way \in Seq(N) /\ Len(way) \in Nat
  BY <1>7 DEF LeftWay
<1>9. Joined(N, p, way, new)
  BY <1>5, <1>8, JoinedIs
<1>10. Longer(N, keys, a, more)
  BY <1>2, <1>3, Appended
<1> HIDE DEF p, L, r
<1>11. /\ new \in Seq(N) /\ Len(new) = Len(p) + Len(way)
       /\ \A i \in 1 .. Len(p) : new[i] = p[i]
       /\ \A i \in 1 .. Len(way) : new[Len(p) + i] = way[i]
  BY <1>9 DEF Joined
<1>12. /\ more \in Seq(N) /\ Len(keys) \in Nat /\ Len(more) = Len(keys) + 1
       /\ \A i \in 1 .. Len(keys) : more[i] = keys[i]
       /\ more[Len(keys) + 1] = a
  BY <1>2, <1>10 DEF Longer
<1>13. \A i \in 1 .. Len(new) :
         \/ i \in 1 .. L - 1 /\ new[i] = stack[i] /\ i \in 1 .. L
         \/ i - (L - 1) \in 1 .. Len(way) /\ new[i] = way[i - (L - 1)]
  <2>1. ASSUME NEW i \in 1 .. Len(new)
        PROVE  \/ i \in 1 .. L - 1 /\ new[i] = stack[i] /\ i \in 1 .. L
               \/ i - (L - 1) \in 1 .. Len(way) /\ new[i] = way[i - (L - 1)]
    <3>1. CASE i <= L - 1
      <4>1. i \in 1 .. L - 1 /\ i \in 1 .. L
        BY <1>3, <3>1
      <4>2. i \in 1 .. Len(p)
        BY <1>5, <4>1
      <4> QED
        BY <1>5, <1>11, <4>1, <4>2
    <3>2. CASE i > L - 1
      <4>1. i - (L - 1) \in 1 .. Len(way) /\ Len(p) + (i - (L - 1)) = i
        BY <1>3, <1>5, <1>8, <1>11, <3>2
      <4> QED
        BY <1>11, <4>1
    <3> QED
      BY <1>3, <3>1, <3>2
  <2> QED
    BY <2>1
<1>14. \A i \in 1 .. Len(way) : \A m \in Chunk(D, R, way[i]) : m \in Chunk(D, R, a) /\ R[a] < R[m] /\ m \in N
  <2>1. ASSUME NEW i \in 1 .. Len(way), NEW m \in Chunk(D, R, way[i])
        PROVE  m \in Chunk(D, R, a) /\ R[a] < R[m] /\ m \in N
    <3>1. r # NULL /\ r \in N
      BY <1>6, <1>7, <1>8, <2>1 DEF LeftWay
    <3>2. D[way[i]] \subseteq D[r]
      BY <1>7, <3>1, LeftWayBelow
    <3>3. m \in Part(D[a], R, a, "right")
      BY <1>6, <2>1, <3>1, <3>2 DEF Chunk, Below
    <3>4. m \in D[a] /\ R[a] < R[m]
      BY <3>3 DEF Part
    <3>5. R[a] <= R[m] /\ m \in N
      BY <1>1, <1>3, <3>4
    <3> QED
      BY <3>4, <3>5 DEF Chunk
  <2> QED
    BY <2>1
<1>15. a \in Chunk(D, R, a) /\ \A i \in 1 .. L : stack[i] \in N
  BY <1>1, <1>2, <1>3 DEF Chunk, L
<1>16. Ascending(more, R)
  <2>1. ASSUME NEW i \in 1 .. Len(more), NEW j \in 1 .. Len(more), i < j
        PROVE  R[more[i]] < R[more[j]]
    <3>1. i \in 1 .. Len(keys)
      BY <1>12, <2>1
    <3>2. CASE j = Len(keys) + 1
      BY <1>2, <1>3, <1>12, <1>15, <3>1, <3>2
    <3>3. CASE j # Len(keys) + 1
      <4>1. j \in 1 .. Len(keys)
        BY <1>12, <3>3
      <4> QED
        BY <1>2, <1>12, <2>1, <3>1, <4>1 DEF Ascending
    <3> QED
      BY <3>2, <3>3
  <2> QED
    BY <2>1 DEF Ascending
<1>17. ASSUME NEW i \in 1 .. Len(new), NEW j \in 1 .. Len(more), NEW m \in Chunk(D, R, new[i])
       PROVE  R[more[j]] < R[m]
  <2>1. CASE i \in 1 .. L - 1 /\ new[i] = stack[i] /\ i \in 1 .. L
    <3>1. CASE j = Len(keys) + 1
      <4>1. R[a] < R[stack[i]]
        BY <1>2, <1>3, <1>15, <2>1
      <4>2. R[stack[i]] <= R[m] /\ m \in N /\ stack[i] \in N
        BY <1>1, <1>15, <1>17, <2>1 DEF Chunk
      <4> QED
        BY <1>1, <1>3, <1>12, <3>1, <4>1, <4>2
    <3>2. CASE j # Len(keys) + 1
      <4>1. j \in 1 .. Len(keys)
        BY <1>12, <3>2
      <4> QED
        BY <1>2, <1>12, <1>17, <2>1, <4>1
    <3> QED
      BY <3>1, <3>2
  <2>2. CASE i - (L - 1) \in 1 .. Len(way) /\ new[i] = way[i - (L - 1)]
    <3>1. m \in Chunk(D, R, a) /\ R[a] < R[m]
      BY <1>14, <1>17, <2>2
    <3>2. CASE j = Len(keys) + 1
      BY <1>12, <3>1, <3>2
    <3>3. CASE j # Len(keys) + 1
      <4>1. j \in 1 .. Len(keys)
        BY <1>12, <3>3
      <4> QED
        BY <1>2, <1>3, <1>12, <3>1, <4>1
    <3> QED
      BY <3>2, <3>3
  <2> QED
    BY <1>13, <2>1, <2>2
<1>18. ASSUME NEW i \in 1 .. Len(new), NEW j \in 1 .. Len(new), i < j, NEW m \in Chunk(D, R, new[j])
       PROVE  R[m] < R[new[i]]
  <2>1. CASE i \in 1 .. L - 1 /\ new[i] = stack[i] /\ i \in 1 .. L
    <3>1. CASE j \in 1 .. L - 1 /\ new[j] = stack[j] /\ j \in 1 .. L
      BY <1>2, <1>18, <2>1, <3>1
    <3>2. CASE j - (L - 1) \in 1 .. Len(way) /\ new[j] = way[j - (L - 1)]
      <4>1. m \in Chunk(D, R, a)
        BY <1>14, <1>18, <3>2
      <4> QED
        BY <1>2, <1>3, <2>1, <4>1
    <3> QED
      BY <1>13, <3>1, <3>2
  <2>2. CASE i - (L - 1) \in 1 .. Len(way) /\ new[i] = way[i - (L - 1)]
    <3>1. j - (L - 1) \in 1 .. Len(way) /\ i - (L - 1) < j - (L - 1)
      BY <1>3, <1>8, <1>5, <1>11, <1>18, <2>2
    <3>2. Len(p) + (j - (L - 1)) = j
      BY <1>3, <1>5
    <3>3. new[j] = way[j - (L - 1)]
      BY <1>11, <3>1, <3>2
    <3> DEFINE x == i - (L - 1)
               y == j - (L - 1)
    <3>4. x \in 1 .. Len(way) /\ y \in 1 .. Len(way) /\ x < y /\ new[i] = way[x] /\ new[j] = way[y]
      BY <2>2, <3>1, <3>3
    <3> HIDE DEF x, y
    <3>5. \A z \in D[way[y]] : z \in D[way[x]] /\ R[z] < R[way[x]]
      BY <1>7, <3>4, LeftWayNested
    <3> QED
      BY <1>18, <3>4, <3>5 DEF Chunk
  <2> QED
    BY <1>13, <2>1, <2>2
<1>19. ASSUME NEW m \in N
       PROVE  \/ \E j \in 1 .. Len(more) : more[j] = m
              \/ \E i \in 1 .. Len(new) : m \in Chunk(D, R, new[i])
  <2>1. CASE \E j \in 1 .. Len(keys) : keys[j] = m
    <3>1. \A j \in 1 .. Len(keys) : j \in 1 .. Len(more)
      BY <1>12
    <3> QED
      BY <1>12, <2>1, <3>1
  <2>2. CASE m = a
    <3>1. Len(keys) + 1 \in 1 .. Len(more)
      BY <1>12
    <3> QED
      BY <1>12, <2>2, <3>1
  <2>3. CASE \E i \in 1 .. L : m \in Chunk(D, R, stack[i]) /\ m # a
    <3>1. PICK i \in 1 .. L : m \in Chunk(D, R, stack[i]) /\ m # a
      BY <2>3
    <3>2. CASE i # L
      <4>1. i \in 1 .. L - 1 /\ i \in 1 .. Len(p) /\ i \in 1 .. Len(new)
        BY <1>3, <1>5, <1>8, <1>11, <3>1, <3>2
      <4> QED
        BY <1>5, <1>11, <3>1, <4>1
    <3>3. CASE i = L
      <4>1. m \in D[a] /\ R[a] <= R[m]
        BY <1>3, <3>1, <3>3 DEF Chunk
      <4>2. R[a] # R[m]
        BY <1>3, <3>1 DEF Sorted, Ranked
      <4>3. m \in Part(D[a], R, a, "right")
        BY <1>1, <1>3, <4>1, <4>2 DEF Part
      <4>4. r \in N /\ m \in D[r]
        BY <1>6, <4>3 DEF Below
      <4>5. PICK j \in 1 .. Len(way) : m \in Chunk(D, R, way[j])
        BY <1>7, <4>4, LeftWayCovers
      <4>6. Len(p) + j \in 1 .. Len(new)
        BY <1>5, <1>8, <1>11
      <4> QED
        BY <1>11, <4>5, <4>6
    <3> QED
      BY <3>2, <3>3
  <2> QED
    BY <1>2, <2>1, <2>2, <2>3
<1> QED
  BY <1>11, <1>12, <1>16, <1>17, <1>18, <1>19 DEF Walking
LEMMA Distinct ==
  ASSUME NEW N, IsFiniteSet(N), NEW p \in Seq(N), \A i, j \in 1 .. Len(p) : p[i] = p[j] => i = j
  PROVE  /\ Cardinality(N) \in Nat /\ Len(p) \in Nat /\ Len(p) <= Cardinality(N)
         /\ Len(p) = Cardinality(N) <=> \A m \in N : \E i \in 1 .. Len(p) : p[i] = m
<1> DEFINE S == 1 .. Len(p)
<1>1. Len(p) \in Nat /\ p \in [S -> N]
  OBVIOUS
<1>2. IsFiniteSet(S) /\ Cardinality(S) = Len(p)
  <2>1. 1 \in Int /\ Len(p) \in Int
    BY <1>1
  <2>2. IsFiniteSet(1 .. Len(p)) /\ Cardinality(1 .. Len(p)) = IF 1 > Len(p) THEN 0 ELSE Len(p) - 1 + 1
    BY <2>1, FS_Interval
  <2>3. (IF 1 > Len(p) THEN 0 ELSE Len(p) - 1 + 1) = Len(p)
    BY <1>1
  <2> QED
    BY <2>2, <2>3
<1>3. \A i, j \in S : p[i] = p[j] => i = j
  OBVIOUS
<1> HIDE DEF S
<1>4. p \in Injection(S, N)
  BY <1>1, <1>3 DEF Injection, IsInjective
<1>5. Cardinality(S) <= Cardinality(N) /\ (Cardinality(S) = Cardinality(N) <=> p \in Surjection(S, N))
  BY <1>4, FS_Injection
<1>6. p \in Surjection(S, N) <=> \A m \in N : \E i \in S : p[i] = m
  BY <1>1 DEF Surjection
<1>7. Cardinality(N) \in Nat
  BY FS_CardinalityType
<1> QED
  BY <1>1, <1>2, <1>5, <1>6, <1>7 DEF S

LEMMA AscendingDistinct ==
  ASSUME NEW N, NEW R, \A n \in N : R[n] \in Int, NEW p \in Seq(N), Ascending(p, R)
  PROVE  \A i, j \in 1 .. Len(p) : p[i] = p[j] => i = j
<1>1. ASSUME NEW i \in 1 .. Len(p), NEW j \in 1 .. Len(p), i < j
      PROVE  p[i] # p[j]
  <2>1. R[p[i]] < R[p[j]] /\ p[i] \in N /\ p[j] \in N
    BY <1>1 DEF Ascending
  <2> QED
    BY <2>1
<1>2. ASSUME NEW i \in 1 .. Len(p), NEW j \in 1 .. Len(p), p[i] = p[j], i # j
      PROVE  FALSE
  <2>1. i < j \/ j < i
    BY <1>2
  <2> QED
    BY <1>1, <1>2, <2>1
<1> QED
  BY <1>2

LEMMA WalkRound ==
  ASSUME NEW t, NEW N, NEW D, NEW R, Sorted(t, N, D, R), NEW n \in Nat, WalkAt(t, N, D, R, n)
  PROVE  Walk(t, n + 1) = Walked(t, Walk(t, n))
<1> DEFINE G == [w \in [stack : Seq(Key), keys : Seq(Key)] |-> Walked(t, w)]
           a == [stack |-> value_dict_leftmost_path(t, t.root), keys |-> <<>>]
<1>1. \A m : Walk(t, m) = Repeat(G, a, m)
  BY DEF Walk
<1>2. Walk(t, n) \in [stack : Seq(Key), keys : Seq(Key)] => G[Walk(t, n)] = Walked(t, Walk(t, n))
  OBVIOUS
<1> HIDE DEF G, a
<1>3. Repeat(G, a, n + 1) = G[Repeat(G, a, n)]
  BY RepeatRounds
<1> QED
  BY <1>1, <1>2, <1>3 DEF WalkAt

LEMMA WalkNow ==
  ASSUME NEW t, NEW N, NEW D, NEW R, N \subseteq Key, NEW n, NEW stack, NEW keys,
         Walk(t, n) = [stack |-> stack, keys |-> keys], Walking(N, D, R, stack, keys)
  PROVE  WalkAt(t, N, D, R, n)
<1>1. stack \in Seq(N) /\ keys \in Seq(N)
  BY DEF Walking
<1>2. stack \in Seq(Key) /\ keys \in Seq(Key)
  BY <1>1, MoreKeys
<1>3. Walk(t, n).stack = stack /\ Walk(t, n).keys = keys
  OBVIOUS
<1>4. Walk(t, n) \in [stack : Seq(Key), keys : Seq(Key)]
  BY <1>2
<1> QED
  BY <1>1, <1>3, <1>4 DEF WalkAt

LEMMA WalkRounds ==
  ASSUME NEW t, NEW N, NEW D, NEW R, Sorted(t, N, D, R)
  PROVE  \A n \in Nat : WalkAt(t, N, D, R, n)
<1> DEFINE T == {n \in Nat : WalkAt(t, N, D, R, n)}
<1>0. N \subseteq Key
  BY SortedParts
<1>1. 0 \in T
  <2> DEFINE stack == value_dict_leftmost_path(t, t.root)
             keys == <<>>
             G == [w \in [stack : Seq(Key), keys : Seq(Key)] |-> Walked(t, w)]
             a == [stack |-> stack, keys |-> keys]
  <2>1. \A m : Walk(t, m) = Repeat(G, a, m)
    BY DEF Walk
  <2>2. stack = value_dict_leftmost_path(t, t.root) /\ keys = <<>>
    OBVIOUS
  <2>6. a = [stack |-> stack, keys |-> keys]
    OBVIOUS
  <2> HIDE DEF G, a, stack, keys
  <2>3. Repeat(G, a, 0) = a
    BY RepeatRounds
  <2>4. Walking(N, D, R, stack, keys)
    <3>1. Walking(N, D, R, value_dict_leftmost_path(t, t.root), <<>>)
      BY WalkStarts
    <3> QED
      BY <2>2, <3>1
  <2>5. Walk(t, 0) = [stack |-> stack, keys |-> keys]
    BY <2>1, <2>3, <2>6
  <2> QED
    BY <1>0, <2>4, <2>5, WalkNow
<1>2. ASSUME NEW n \in Nat, n \in T
      PROVE  n + 1 \in T
  <2> DEFINE w == Walk(t, n)
             stack == w.stack
             keys == w.keys
  <2>1. WalkAt(t, N, D, R, n)
    BY <1>2
  <2>2. Walk(t, n + 1) = Walked(t, w)
    BY <2>1, WalkRound
  <2>3. Walking(N, D, R, stack, keys)
    BY <2>1 DEF WalkAt
  <2>4. CASE stack = <<>>
    <3>1. Walk(t, n + 1) = Walk(t, n)
      BY <2>2, <2>4 DEF Walked
    <3>2. WalkAt(t, N, D, R, n + 1)
      BY <2>1, <3>1 DEF WalkAt
    <3> QED
      BY <3>2
  <2>5. CASE stack # <<>>
    <3> DEFINE last == Last(stack)
               way == value_dict_leftmost_path(t, t.child["right"][last])
               new == Front(stack) \o way
               more == Append(keys, last)
    <3>1. Walk(t, n + 1) = [stack |-> new, keys |-> more]
      BY <2>2, <2>5 DEF Walked
    <3>2. /\ last = Last(stack) /\ way = value_dict_leftmost_path(t, t.child["right"][last])
          /\ new = Front(stack) \o way /\ more = Append(keys, last)
      OBVIOUS
    <3> HIDE DEF last, way, new, more, w, stack, keys
    <3>3. Walking(N, D, R, new, more)
      BY <2>3, <2>5, <3>2, WalkGoes
    <3>4. WalkAt(t, N, D, R, n + 1)
      BY <1>0, <3>1, <3>3, WalkNow
    <3> QED
      BY <3>4
  <2> QED
    BY <2>4, <2>5
<1>3. Nat \subseteq T
  <2> HIDE DEF T
  <2> QED
    BY <1>1, <1>2, AllNumbers
<1> QED
  BY <1>3

LEMMA WalkCounts ==
  ASSUME NEW t, NEW N, NEW D, NEW R, Sorted(t, N, D, R), IsFiniteSet(N), NEW n \in Nat,
         NEW stack, stack = Walk(t, n).stack, NEW keys, keys = Walk(t, n).keys
  PROVE  /\ stack = <<>> => Len(keys) = Cardinality(N) /\ Enumerates(keys, N, R)
         /\ stack # <<>> => Len(keys) < Cardinality(N)
<1>1. \A m \in N : R[m] \in Int /\ m \in D[m]
  BY SortedParts
<1>2. Walking(N, D, R, stack, keys)
  BY WalkRounds DEF WalkAt
<1>3. stack \in Seq(N) /\ keys \in Seq(N) /\ Ascending(keys, R)
  BY <1>2 DEF Walking
<1>4. \A i, j \in 1 .. Len(keys) : keys[i] = keys[j] => i = j
  BY <1>1, <1>3, AscendingDistinct
<1>5. /\ Cardinality(N) \in Nat /\ Len(keys) \in Nat /\ Len(keys) <= Cardinality(N)
      /\ Len(keys) = Cardinality(N) <=> \A m \in N : \E i \in 1 .. Len(keys) : keys[i] = m
  BY <1>3, <1>4, Distinct
<1>6. CASE stack = <<>>
  <2>1. 1 .. Len(stack) = {}
    BY <1>6
  <2>2. \A m \in N : \E j \in 1 .. Len(keys) : keys[j] = m
    BY <1>2, <2>1 DEF Walking
  <2> QED
    BY <1>3, <1>5, <1>6, <2>2 DEF Enumerates
<1>7. CASE stack # <<>>
  <2> DEFINE a == Last(stack)
  <2>1. Len(stack) \in 1 .. Len(stack) /\ a = stack[Len(stack)] /\ a \in N
    BY <1>3, <1>7, LastIs
  <2>2. a \in Chunk(D, R, a)
    BY <1>1, <2>1 DEF Chunk
  <2>3. \A j \in 1 .. Len(keys) : R[keys[j]] < R[a]
    BY <1>2, <2>1, <2>2 DEF Walking
  <2>4. \A j \in 1 .. Len(keys) : keys[j] # a
    BY <1>1, <2>1, <2>3
  <2> QED
    BY <1>5, <1>7, <2>1, <2>4
<1> QED
  BY <1>6, <1>7

(* One round adds a key or leaves the walk as it is.                       *)
LEMMA WalkAdds ==
  ASSUME NEW t, NEW N, NEW D, NEW R, Sorted(t, N, D, R), NEW n \in Nat
  PROVE  /\ Walk(t, n).stack = <<>> => Walk(t, n + 1) = Walk(t, n)
         /\ Walk(t, n).stack # <<>> =>
              Len(Walk(t, n + 1).keys) = Len(Walk(t, n).keys) + 1
         /\ Prefix(Walk(t, n).keys, Walk(t, n + 1).keys)
<1> DEFINE w == Walk(t, n)
           x == Walk(t, n + 1)
<1>1. WalkAt(t, N, D, R, n)
  BY WalkRounds
<1>2. x = Walked(t, w)
  BY <1>1, WalkRound
<1>3. w.stack \in Seq(N) /\ w.keys \in Seq(N) /\ Len(w.keys) \in Nat
  BY <1>1 DEF WalkAt
<1>4. w.stack = <<>> => x = w
  BY <1>2 DEF Walked
<1>5. w.stack # <<>> => x.keys = Append(w.keys, Last(w.stack))
  BY <1>2 DEF Walked
<1> HIDE DEF w, x
<1>6. CASE w.stack = <<>>
  <2>1. Prefix(w.keys, x.keys)
    BY <1>3, <1>4, <1>6 DEF Prefix
  <2> QED
    BY <1>4, <1>6, <2>1 DEF w, x
<1>7. CASE w.stack # <<>>
  <2> DEFINE a == Last(w.stack)
  <2>1. a \in N
    BY <1>3, <1>7, LastIs
  <2>2. x.keys = Append(w.keys, a)
    BY <1>5, <1>7
  <2> HIDE DEF a
  <2>3. Longer(N, w.keys, a, Append(w.keys, a))
    BY <1>3, <2>1, Appended
  <2>4. Len(x.keys) = Len(w.keys) + 1 /\ \A i \in 1 .. Len(w.keys) : x.keys[i] = w.keys[i]
    BY <2>2, <2>3 DEF Longer
  <2>5. Prefix(w.keys, x.keys)
    BY <1>3, <2>4 DEF Prefix
  <2> QED
    BY <1>7, <2>4, <2>5 DEF w, x
<1> QED
  BY <1>6, <1>7

(* As many keys as there is room for, or all of them.                      *)
LEMMA WalkLength ==
  ASSUME NEW t, NEW N, NEW D, NEW R, Sorted(t, N, D, R), IsFiniteSet(N), NEW n \in Nat
  PROVE  /\ Cardinality(N) \in Nat
         /\ n <= Cardinality(N) => Len(Walk(t, n).keys) = n
         /\ n >= Cardinality(N) => Len(Walk(t, n).keys) = Cardinality(N) /\ Walk(t, n).stack = <<>>
<1> DEFINE L(k) == Len(Walk(t, k).keys)
           Empty(k) == Walk(t, k).stack = <<>>
           C == Cardinality(N)
           T == {k \in Nat : /\ ~ Empty(k) => L(k) = k
                             /\ Empty(k) => C <= k}
<1>1. C \in Nat
  BY FS_CardinalityType
<1>2. \A k \in Nat : (Empty(k) => L(k) = C) /\ (~ Empty(k) => L(k) < C)
  BY WalkCounts
<1>3. L(0) = 0
  <2> DEFINE G == [w \in [stack : Seq(Key), keys : Seq(Key)] |-> Walked(t, w)]
             a == [stack |-> value_dict_leftmost_path(t, t.root), keys |-> <<>>]
  <2>1. \A m : Walk(t, m) = Repeat(G, a, m)
    BY DEF Walk
  <2>2. Len(a.keys) = 0
    OBVIOUS
  <2> HIDE DEF G, a
  <2>3. Repeat(G, a, 0) = a
    BY RepeatRounds
  <2> QED
    BY <2>1, <2>2, <2>3
<1>4. 0 \in T
  BY <1>1, <1>2, <1>3
<1>5. \A k \in Nat : /\ Empty(k) => Empty(k + 1)
                     /\ ~ Empty(k) => L(k + 1) = L(k) + 1
  BY WalkAdds
<1> HIDE DEF L, Empty, C
<1>6. ASSUME NEW k \in Nat, k \in T
      PROVE  k + 1 \in T
  <2>1. CASE Empty(k)
    BY <1>1, <1>5, <1>6, <2>1
  <2>2. CASE ~ Empty(k)
    <3>1. L(k) = k /\ L(k + 1) = k + 1
      BY <1>5, <1>6, <2>2
    <3>2. Empty(k + 1) => k + 1 = C
      BY <1>2, <3>1
    <3> QED
      BY <1>1, <3>1, <3>2
  <2> QED
    BY <2>1, <2>2
<1>7. Nat \subseteq T
  <2> HIDE DEF T
  <2> QED
    BY <1>4, <1>6, AllNumbers
<1>8. (~ Empty(n) => L(n) = n) /\ (Empty(n) => C <= n)
  BY <1>7
<1>9. n <= C => L(n) = n
  BY <1>1, <1>2, <1>8
<1>10. n >= C => L(n) = C /\ Empty(n)
  BY <1>1, <1>2, <1>8
<1> QED
  BY <1>1, <1>9, <1>10 DEF L, Empty, C

LEMMA WalkPrefix ==
  ASSUME NEW t, NEW N, NEW D, NEW R, Sorted(t, N, D, R), NEW n \in Nat, NEW m \in Nat, n <= m
  PROVE  Prefix(Walk(t, n).keys, Walk(t, m).keys)
<1> DEFINE K(k) == Walk(t, k).keys
           T == {d \in Nat : Prefix(K(n), K(n + d))}
<1>1. \A k \in Nat : K(k) \in Seq(N) /\ Prefix(K(k), K(k + 1))
  BY WalkRounds, WalkAdds DEF WalkAt
<1> HIDE DEF K
<1>2. \A k \in Nat : Len(K(k)) \in Nat
  BY <1>1
<1>3. 0 \in T
  <2>1. n + 0 = n
    OBVIOUS
  <2> QED
    BY <1>2, <2>1 DEF Prefix
<1>4. ASSUME NEW d \in Nat, d \in T
      PROVE  d + 1 \in T
  <2>1. n + (d + 1) = (n + d) + 1 /\ n + d \in Nat /\ (n + d) + 1 \in Nat
    OBVIOUS
  <2>2. Prefix(K(n), K(n + d)) /\ Prefix(K(n + d), K((n + d) + 1))
    BY <1>1, <1>4, <2>1
  <2>3. Len(K(n)) \in Nat /\ Len(K(n + d)) \in Nat /\ Len(K((n + d) + 1)) \in Nat
    BY <1>2, <2>1
  <2>4. Prefix(K(n), K((n + d) + 1))
    BY <2>2, <2>3 DEF Prefix
  <2> QED
    BY <2>1, <2>4
<1>5. Nat \subseteq T
  <2> HIDE DEF T
  <2> QED
    BY <1>3, <1>4, AllNumbers
<1>6. m - n \in Nat /\ n + (m - n) = m
  OBVIOUS
<1>7. m - n \in T
  BY <1>5, <1>6
<1> HIDE DEF T
<1>8. Prefix(K(n), K(n + (m - n)))
  BY <1>7 DEF T
<1> QED
  BY <1>6, <1>8 DEF K

(* A part of a sequence from its start.                                    *)
LEMMA PrefixIs ==
  ASSUME NEW S, NEW p \in Seq(S), NEW q \in Seq(S), Prefix(p, q)
  PROVE  p = SubSeq(q, 1, Len(p))
<1> DEFINE n == Len(p)
           z == SubSeq(q, 1, n)
<1>1. n \in Nat /\ n <= Len(q) /\ Len(q) \in Nat /\ \A i \in 1 .. n : p[i] = q[i]
  BY DEF Prefix
<1> HIDE DEF n
<1>2. z \in Seq(S) /\ Len(z) = n /\ \A i \in 1 .. n : z[i] = q[i]
  BY <1>1
<1> HIDE DEF z
<1>3. p = z
  BY <1>1, <1>2 DEF n
<1> QED
  BY <1>3 DEF z, n

(* A walk gives the nodes in order, or as many of the first ones as there  *)
(* is room for.                                                            *)
LEMMA WalkIs ==
  ASSUME NEW t, NEW N, NEW D, NEW R, Sorted(t, N, D, R), IsFiniteSet(N),
         NEW all, all = Walk(t, Cardinality(N)).keys
  PROVE  /\ Enumerates(all, N, R) /\ Len(all) = Cardinality(N)
         /\ \A n \in Nat : n <= Cardinality(N) => Walk(t, n).keys = SubSeq(all, 1, n)
         /\ \A n \in Nat : n >= Cardinality(N) => Walk(t, n).keys = all
<1> DEFINE C == Cardinality(N)
           K(k) == Walk(t, k).keys
<1>1. C \in Nat
  BY FS_CardinalityType
<1>2. Len(all) = C /\ Enumerates(all, N, R) /\ all \in Seq(N)
  <2>1. C <= C
    BY <1>1
  <2>2. Len(all) = C /\ Walk(t, C).stack = <<>>
    BY <1>1, <2>1, WalkLength
  <2>3. Enumerates(all, N, R)
    BY <1>1, <2>2, WalkCounts
  <2> QED
    BY <2>2, <2>3 DEF Enumerates
<1>3. \A k \in Nat : K(k) \in Seq(N)
  BY WalkRounds DEF WalkAt
<1>4. \A k \in Nat : (k <= C => Len(K(k)) = k) /\ (k >= C => Len(K(k)) = C)
  BY WalkLength
<1>5. \A k \in Nat : k <= C => Prefix(K(k), all)
  BY <1>1, WalkPrefix
<1>6. \A k \in Nat : k >= C => Prefix(all, K(k))
  BY <1>1, WalkPrefix
<1> HIDE DEF C, K
<1>7. ASSUME NEW n \in Nat, n <= C
      PROVE  K(n) = SubSeq(all, 1, n)
  <2>1. K(n) \in Seq(N) /\ Prefix(K(n), all) /\ Len(K(n)) = n
    BY <1>3, <1>4, <1>5, <1>7
  <2> QED
    BY <1>2, <2>1, PrefixIs
<1>8. ASSUME NEW n \in Nat, n >= C
      PROVE  K(n) = all
  <2>1. K(n) \in Seq(N) /\ Prefix(all, K(n)) /\ Len(K(n)) = Len(all)
    BY <1>2, <1>3, <1>4, <1>6, <1>8
  <2> QED
    BY <1>2, <2>1 DEF Prefix
<1> QED
  BY <1>2, <1>7, <1>8 DEF C, K
-----------------------------------------------------------------------------
(* Listings *)

LEMMA SameEnumeration ==
  ASSUME NEW N, NEW R, \A n \in N : R[n] \in Int, NEW p, Enumerates(p, N, R), NEW q, Enumerates(q, N, R)
  PROVE  p = q
<1> DEFINE P == Len(p)
           Q == Len(q)
<1>1. p \in Seq(N) /\ q \in Seq(N)
  BY DEF Enumerates
<1>2. P \in Nat /\ Q \in Nat /\ (\A i \in 1 .. P : p[i] \in N) /\ (\A i \in 1 .. Q : q[i] \in N)
  BY <1>1
<1>3. /\ \A i, j \in 1 .. P : i < j => R[p[i]] < R[p[j]]
      /\ \A m \in N : \E j \in 1 .. P : p[j] = m
  BY DEF Enumerates, Ascending
<1>4. /\ \A i, j \in 1 .. Q : i < j => R[q[i]] < R[q[j]]
      /\ \A m \in N : \E j \in 1 .. Q : q[j] = m
  BY DEF Enumerates, Ascending
<1>5. P = Len(p) /\ Q = Len(q)
  OBVIOUS
<1> HIDE DEF P, Q
<1> DEFINE Bad == {i \in Nat : i \in 1 .. P /\ i \in 1 .. Q /\ p[i] # q[i]}
<1>6. ASSUME NEW i \in Bad, \A j \in Bad : i <= j
      PROVE  FALSE
  <2>1. i \in 1 .. P /\ i \in 1 .. Q /\ p[i] # q[i] /\ p[i] \in N /\ q[i] \in N
    BY <1>2, <1>6
  <2>2. \A j \in Nat : j \in 1 .. P /\ j < i => j \in 1 .. Q /\ p[j] = q[j]
    BY <1>2, <1>6, <2>1
  <2>7. \A j \in Nat : j \in 1 .. Q /\ j < i => j \in 1 .. P
    BY <1>2, <2>1
  <2>3. PICK j \in 1 .. Q : q[j] = p[i]
    BY <1>4, <2>1
  <2>4. PICK h \in 1 .. P : p[h] = q[i]
    BY <1>3, <2>1
  <2> HIDE DEF Bad
  <2>5. R[q[i]] < R[p[i]]
    <3>1. ASSUME j < i
          PROVE  FALSE
      <4>1. p[j] = p[i] /\ j \in 1 .. P
        BY <2>2, <2>3, <2>7, <3>1
      <4> QED
        BY <1>2, <1>3, <2>1, <3>1, <4>1
    <3>2. i < j
      BY <1>2, <2>1, <2>3, <3>1
    <3> QED
      BY <1>4, <2>1, <2>3, <3>2
  <2>6. R[p[i]] < R[q[i]]
    <3>1. ASSUME h < i
          PROVE  FALSE
      <4>1. q[h] = q[i] /\ h \in 1 .. Q
        BY <2>2, <2>4, <3>1
      <4> QED
        BY <1>2, <1>4, <2>1, <3>1, <4>1
    <3>2. i < h
      BY <1>2, <2>1, <2>4, <3>1
    <3> QED
      BY <1>3, <2>1, <2>4, <3>2
  <2> QED
    BY <2>1, <2>5, <2>6
<1>7. Bad = {}
  <2>1. Bad \subseteq Nat
    OBVIOUS
  <2> HIDE DEF Bad
  <2> SUFFICES ASSUME Bad # {} PROVE FALSE
    OBVIOUS
  <2>2. PICK i \in Bad : \A j \in Bad : i <= j
    BY <2>1, LeastNumber
  <2> QED
    BY <1>6, <2>2
<1>8. \A i \in Nat : i \in 1 .. P /\ i \in 1 .. Q => p[i] = q[i]
  BY <1>7
<1> HIDE DEF Bad
<1>9. ~ (P < Q)
  <2> SUFFICES ASSUME P < Q PROVE FALSE
    OBVIOUS
  <2>1. PICK n \in Nat : n = P + 1
    BY <1>2
  <2>2. n \in 1 .. Q
    BY <1>2, <2>1
  <2>3. PICK j \in 1 .. P : p[j] = q[n]
    BY <1>2, <1>3, <2>2
  <2>4. j \in 1 .. Q /\ j < n /\ j \in Nat
    BY <1>2, <2>1
  <2>5. q[j] = q[n] /\ q[j] \in N
    BY <1>2, <1>8, <2>3, <2>4
  <2>6. R[q[j]] < R[q[n]]
    BY <1>4, <2>2, <2>4
  <2> QED
    BY <2>5, <2>6
<1>10. ~ (Q < P)
  <2> SUFFICES ASSUME Q < P PROVE FALSE
    OBVIOUS
  <2>1. PICK n \in Nat : n = Q + 1
    BY <1>2
  <2>2. n \in 1 .. P
    BY <1>2, <2>1
  <2>3. PICK j \in 1 .. Q : q[j] = p[n]
    BY <1>2, <1>4, <2>2
  <2>4. j \in 1 .. P /\ j < n /\ j \in Nat
    BY <1>2, <2>1
  <2>5. p[j] = p[n] /\ p[j] \in N
    BY <1>2, <1>8, <2>3, <2>4
  <2>6. R[p[j]] < R[p[n]]
    BY <1>3, <2>2, <2>4
  <2> QED
    BY <2>5, <2>6
<1>11. P = Q
  BY <1>2, <1>9, <1>10
<1>12. \A i \in 1 .. P : p[i] = q[i]
  BY <1>2, <1>8, <1>11
<1>13. Len(p) = Len(q) /\ \A i \in 1 .. Len(p) : p[i] = q[i]
  BY <1>5, <1>11, <1>12
<1> QED
  BY <1>1, <1>13

LEMMA PartOf ==
  ASSUME NEW S, NEW p \in Seq(S), NEW m \in Nat, NEW n \in Nat, m > 0, n <= Len(p), m <= n + 1
  PROVE  /\ SubSeq(p, m, n) \in Seq(S) /\ Len(SubSeq(p, m, n)) = n - m + 1
         /\ \A i \in 1 .. n - m + 1 : SubSeq(p, m, n)[i] = p[m + i - 1]
<1>1. \A i \in m .. n : p[i] \in S
  <2>1. Len(p) \in Nat /\ \A i \in 1 .. Len(p) : p[i] \in S
    BY LenProperties, ElementOfSeq
  <2>2. \A i \in m .. n : i \in 1 .. Len(p)
    BY <2>1
  <2> QED
    BY <2>1, <2>2
<1>2. SubSeq(p, m, n) = [i \in 1 .. n - m + 1 |-> p[i + m - 1]]
  BY DEF SubSeq
<1>3. SubSeq(p, m, n) \in Seq(S) /\ Len(SubSeq(p, m, n)) = n - m + 1
  OBVIOUS
<1>4. \A i \in 1 .. n - m + 1 : i + m - 1 = m + i - 1
  OBVIOUS
<1> QED
  BY <1>2, <1>3, <1>4

LEMMA PutGives ==
  ASSUME NEW S, NEW p \in Seq(S), NEW place \in 0 .. Len(p), NEW k \in S
  PROVE  PutIs(S, p, place, k, Put(p, place, k))
<1> DEFINE a == SubSeq(p, 1, place)
           b == <<k>>
           c == SubSeq(p, place + 1, Len(p))
           L == Len(p)
<1>0. L \in Nat /\ place \in Nat /\ place <= L /\ L = Len(p)
  OBVIOUS
<1>1. a \in Seq(S) /\ Len(a) = place /\ \A i \in 1 .. place : a[i] = p[i]
  <2>1. 1 \in Nat /\ 1 > 0 /\ 1 <= place + 1 /\ place - 1 + 1 = place /\ \A i \in Nat : 1 + i - 1 = i
    BY <1>0
  <2>2. /\ SubSeq(p, 1, place) \in Seq(S) /\ Len(SubSeq(p, 1, place)) = place - 1 + 1
        /\ \A i \in 1 .. place - 1 + 1 : SubSeq(p, 1, place)[i] = p[1 + i - 1]
    BY <1>0, <2>1, PartOf
  <2> QED
    BY <2>1, <2>2
<1>2. b \in Seq(S) /\ Len(b) = 1 /\ b[1] = k
  OBVIOUS
<1>3. c \in Seq(S) /\ Len(c) = L - place /\ \A i \in 1 .. L - place : c[i] = p[place + i]
  <2>1. place + 1 \in Nat /\ place + 1 > 0 /\ L <= L /\ place + 1 <= L + 1 /\ L - (place + 1) + 1 = L - place
    BY <1>0
  <2>2. /\ SubSeq(p, place + 1, L) \in Seq(S) /\ Len(SubSeq(p, place + 1, L)) = L - (place + 1) + 1
        /\ \A i \in 1 .. L - (place + 1) + 1 : SubSeq(p, place + 1, L)[i] = p[(place + 1) + i - 1]
    BY <1>0, <2>1, PartOf
  <2>3. \A i \in Nat : (place + 1) + i - 1 = place + i
    BY <1>0
  <2>4. c = SubSeq(p, place + 1, L)
    OBVIOUS
  <2> HIDE DEF c, L
  <2>5. c \in Seq(S) /\ Len(c) = L - place /\ \A i \in 1 .. L - place : c[i] = p[(place + 1) + i - 1]
    BY <2>1, <2>2, <2>4
  <2>6. \A i \in 1 .. L - place : i \in Nat
    BY <1>0
  <2> QED
    BY <2>3, <2>5, <2>6
<1>4. Put(p, place, k) = (a \o b) \o c
  BY DEF Put
<1> HIDE DEF a, b, c, L
<1> DEFINE d == a \o b
           q == d \o c
<1>5. Joined(S, a, b, d)
  BY <1>1, <1>2, JoinedIs
<1>6. d \in Seq(S) /\ Len(d) = place + 1 /\ (\A i \in 1 .. place : d[i] = p[i]) /\ d[place + 1] = k
  <2>1. 1 \in 1 .. Len(b)
    BY <1>2
  <2> QED
    BY <1>1, <1>2, <1>5, <2>1 DEF Joined
<1> HIDE DEF d
<1>7. Joined(S, d, c, q)
  BY <1>3, <1>6, JoinedIs
<1> HIDE DEF q
<1>8. /\ q \in Seq(S) /\ Len(q) = (place + 1) + (L - place)
      /\ \A i \in 1 .. place + 1 : q[i] = d[i]
      /\ \A i \in 1 .. L - place : q[(place + 1) + i] = p[place + i]
  BY <1>3, <1>6, <1>7 DEF Joined
<1>9. \A i \in 1 .. place : q[i] = p[i]
  <2>1. \A i \in 1 .. place : i \in 1 .. place + 1
    BY <1>0
  <2> QED
    BY <1>6, <1>8, <2>1
<1>10. q[place + 1] = k
  <2>1. place + 1 \in 1 .. place + 1
    BY <1>0
  <2> QED
    BY <1>6, <1>8, <2>1
<1>11. \A i \in place + 1 .. L : q[i + 1] = p[i]
  <2>1. ASSUME NEW i \in place + 1 .. L
        PROVE  q[i + 1] = p[i]
    <3>1. i - place \in 1 .. L - place /\ (place + 1) + (i - place) = i + 1 /\ place + (i - place) = i
      BY <1>0
    <3> QED
      BY <1>8, <3>1
  <2> QED
    BY <2>1
<1>12. Len(q) = L + 1
  BY <1>0, <1>8
<1>13. PutIs(S, p, place, k, q)
  BY <1>0, <1>8, <1>9, <1>10, <1>11, <1>12 DEF PutIs
<1> QED
  BY <1>4, <1>13 DEF q, d

LEMMA DropGives ==
  ASSUME NEW S, NEW p \in Seq(S), NEW n \in 1 .. Len(p)
  PROVE  DropIs(S, p, n, Drop(p, n))
<1> DEFINE a == SubSeq(p, 1, n - 1)
           c == SubSeq(p, n + 1, Len(p))
           L == Len(p)
           q == a \o c
<1>0. L \in Nat /\ n \in Nat /\ n - 1 \in Nat /\ n <= L /\ L = Len(p)
  OBVIOUS
<1>1. a \in Seq(S) /\ Len(a) = n - 1 /\ \A i \in 1 .. n - 1 : a[i] = p[i]
  <2>1. /\ 1 \in Nat /\ 1 > 0 /\ 1 <= (n - 1) + 1 /\ (n - 1) - 1 + 1 = n - 1 /\ n - 1 <= L
        /\ \A i \in Nat : 1 + i - 1 = i
    BY <1>0
  <2>2. /\ SubSeq(p, 1, n - 1) \in Seq(S) /\ Len(SubSeq(p, 1, n - 1)) = (n - 1) - 1 + 1
        /\ \A i \in 1 .. (n - 1) - 1 + 1 : SubSeq(p, 1, n - 1)[i] = p[1 + i - 1]
    BY <1>0, <2>1, PartOf
  <2> QED
    BY <2>1, <2>2
<1>3. c \in Seq(S) /\ Len(c) = L - n /\ \A i \in 1 .. L - n : c[i] = p[n + i]
  <2>1. n + 1 \in Nat /\ n + 1 > 0 /\ L <= L /\ n + 1 <= L + 1 /\ L - (n + 1) + 1 = L - n
    BY <1>0
  <2>2. /\ SubSeq(p, n + 1, L) \in Seq(S) /\ Len(SubSeq(p, n + 1, L)) = L - (n + 1) + 1
        /\ \A i \in 1 .. L - (n + 1) + 1 : SubSeq(p, n + 1, L)[i] = p[(n + 1) + i - 1]
    BY <1>0, <2>1, PartOf
  <2>3. \A i \in Nat : (n + 1) + i - 1 = n + i
    BY <1>0
  <2>4. c = SubSeq(p, n + 1, L)
    OBVIOUS
  <2> HIDE DEF c, L
  <2>5. c \in Seq(S) /\ Len(c) = L - n /\ \A i \in 1 .. L - n : c[i] = p[(n + 1) + i - 1]
    BY <2>1, <2>2, <2>4
  <2>6. \A i \in 1 .. L - n : i \in Nat
    BY <1>0
  <2> QED
    BY <2>3, <2>5, <2>6
<1>4. Drop(p, n) = q
  BY DEF Drop
<1> HIDE DEF a, c, L
<1>5. Joined(S, a, c, q)
  BY <1>1, <1>3, JoinedIs
<1> HIDE DEF q
<1>6. /\ q \in Seq(S) /\ Len(q) = (n - 1) + (L - n)
      /\ \A i \in 1 .. n - 1 : q[i] = p[i]
      /\ \A i \in 1 .. L - n : q[(n - 1) + i] = p[n + i]
  BY <1>1, <1>3, <1>5 DEF Joined
<1>7. \A i \in n .. L - 1 : q[i] = p[i + 1]
  <2>1. ASSUME NEW i \in n .. L - 1
        PROVE  q[i] = p[i + 1]
    <3>1. i - (n - 1) \in 1 .. L - n /\ (n - 1) + (i - (n - 1)) = i /\ n + (i - (n - 1)) = i + 1
      BY <1>0
    <3> QED
      BY <1>6, <3>1
  <2> QED
    BY <2>1
<1>8. Len(q) = L - 1 /\ L - 1 \in Nat
  BY <1>0, <1>6
<1>9. DropIs(S, p, n, q)
  BY <1>0, <1>6, <1>7, <1>8 DEF DropIs
<1> QED
  BY <1>4, <1>9

(* A new key has a place in the sorted listing.                            *)
LEMMA PlaceExists ==
  ASSUME NEW N, NEW R, \A n \in N : R[n] \in Int, NEW p, Enumerates(p, N, R),
         NEW k, R[k] \in Int, \A n \in N : R[n] # R[k]
  PROVE  \E place \in 0 .. Len(p) :
           /\ \A n \in 1 .. place : R[p[n]] < R[k]
           /\ \A n \in place + 1 .. Len(p) : R[k] < R[p[n]]
<1> DEFINE L == Len(p)
           T == {n \in 0 .. L : \A i \in n + 1 .. L : R[k] < R[p[i]]}
<1>1. /\ p \in Seq(N) /\ L \in Nat /\ (\A i \in 1 .. L : p[i] \in N)
      /\ \A i, j \in 1 .. L : i < j => R[p[i]] < R[p[j]]
  BY DEF Enumerates, Ascending
<1> HIDE DEF L
<1>2. L \in T /\ T \subseteq Nat
  BY <1>1
<1>3. PICK n \in T : \A m \in T : n <= m
  <2> HIDE DEF T
  <2> QED
    BY <1>2, LeastNumber
<1>4. n \in 0 .. L /\ \A i \in n + 1 .. L : R[k] < R[p[i]]
  OBVIOUS
<1>5. n # 0 => R[p[n]] < R[k]
  <2> SUFFICES ASSUME n # 0, ~ (R[p[n]] < R[k]) PROVE FALSE
    OBVIOUS
  <2>1. n \in 1 .. L /\ n - 1 \in 0 .. L /\ \A i \in (n - 1) + 1 .. L : i = n \/ i \in n + 1 .. L
    BY <1>1, <1>4
  <2>2. R[k] < R[p[n]]
    BY <1>1, <2>1
  <2>3. \A i \in (n - 1) + 1 .. L : R[k] < R[p[i]]
    BY <1>4, <2>1, <2>2
  <2>4. n - 1 \in T
    BY <2>1, <2>3
  <2> HIDE DEF T
  <2>5. n <= n - 1
    BY <1>3, <2>4
  <2> QED
    BY <2>1, <2>5
<1>6. \A i \in 1 .. n : R[p[i]] < R[k]
  <2>1. ASSUME NEW i \in 1 .. n
        PROVE  R[p[i]] < R[k]
    <3>1. n # 0 /\ n \in 1 .. L /\ i \in 1 .. L
      BY <1>1, <1>4
    <3>2. R[p[i]] \in Int /\ R[p[n]] \in Int /\ R[p[n]] < R[k]
      BY <1>1, <1>5, <3>1
    <3>3. i = n \/ R[p[i]] < R[p[n]]
      BY <1>1, <1>4, <3>1
    <3> QED
      BY <3>2, <3>3
  <2> QED
    BY <2>1
<1> QED
  BY <1>4, <1>6 DEF L

LEMMA PutEnumerates ==
  ASSUME NEW N, NEW R, \A n \in N : R[n] \in Int, NEW p, Enumerates(p, N, R),
         NEW k, R[k] \in Int, NEW place \in 0 .. Len(p),
         \A n \in 1 .. place : R[p[n]] < R[k],
         \A n \in place + 1 .. Len(p) : R[k] < R[p[n]],
         NEW M, M = N \cup {k}
  PROVE  Enumerates(Put(p, place, k), M, R)
<1> DEFINE L == Len(p)
           q == Put(p, place, k)
<1>1. /\ p \in Seq(N) /\ L \in Nat /\ (\A i \in 1 .. L : p[i] \in N)
      /\ \A i, j \in 1 .. L : i < j => R[p[i]] < R[p[j]]
      /\ \A m \in N : \E j \in 1 .. L : p[j] = m
      /\ place \in 0 .. L
  BY DEF Enumerates, Ascending
<1>2. p \in Seq(M) /\ k \in M
  BY <1>1, MoreKeys
<1>3. PutIs(M, p, place, k, q)
  BY <1>2, PutGives
<1> HIDE DEF q
<1>4. /\ q \in Seq(M) /\ Len(q) = L + 1
      /\ \A i \in 1 .. place : q[i] = p[i]
      /\ q[place + 1] = k
      /\ \A i \in place + 1 .. L : q[i + 1] = p[i]
  BY <1>3 DEF PutIs
<1>5. \A i \in 1 .. place : R[p[i]] < R[k] /\ i \in 1 .. L
  BY <1>1
<1>6. \A i \in place + 1 .. L : R[k] < R[p[i]] /\ i \in 1 .. L
  BY <1>1
<1> HIDE DEF L
<1>7. \A i \in 1 .. L + 1 :
        \/ i \in 1 .. place /\ q[i] = p[i]
        \/ i = place + 1 /\ q[i] = k
        \/ i - 1 \in place + 1 .. L /\ q[i] = p[i - 1]
  <2>1. ASSUME NEW i \in 1 .. L + 1, ~ (i \in 1 .. place), i # place + 1
        PROVE  i - 1 \in place + 1 .. L /\ q[i] = p[i - 1]
    <3>1. i - 1 \in place + 1 .. L /\ (i - 1) + 1 = i
      BY <1>1, <2>1
    <3> QED
      BY <1>4, <3>1
  <2> QED
    BY <1>4, <2>1
<1>8. ASSUME NEW i \in 1 .. L + 1, NEW j \in 1 .. L + 1, i < j
      PROVE  R[q[i]] < R[q[j]]
  <2>1. CASE i \in 1 .. place /\ q[i] = p[i]
    <3>1. CASE j \in 1 .. place /\ q[j] = p[j]
      BY <1>1, <1>5, <1>8, <2>1, <3>1
    <3>2. CASE j = place + 1 /\ q[j] = k
      BY <1>5, <2>1, <3>2
    <3>3. CASE j - 1 \in place + 1 .. L /\ q[j] = p[j - 1]
      <4>1. i < j - 1 /\ i \in 1 .. L /\ j - 1 \in 1 .. L
        BY <1>1, <2>1, <3>3
      <4> QED
        BY <1>1, <2>1, <3>3, <4>1
    <3> QED
      BY <1>7, <3>1, <3>2, <3>3
  <2>2. CASE i = place + 1 /\ q[i] = k
    <3>1. j - 1 \in place + 1 .. L /\ (j - 1) + 1 = j
      BY <1>1, <1>8, <2>2
    <3>2. q[j] = p[j - 1]
      BY <1>4, <3>1
    <3> QED
      BY <1>6, <2>2, <3>1, <3>2
  <2>3. CASE i - 1 \in place + 1 .. L /\ q[i] = p[i - 1]
    <3>1. j - 1 \in place + 1 .. L /\ (j - 1) + 1 = j /\ i - 1 < j - 1
      BY <1>1, <1>8, <2>3
    <3>2. q[j] = p[j - 1]
      BY <1>4, <3>1
    <3>3. i - 1 \in 1 .. L /\ j - 1 \in 1 .. L
      BY <1>6, <2>3, <3>1
    <3> QED
      BY <1>1, <2>3, <3>1, <3>2, <3>3
  <2> QED
    BY <1>7, <2>1, <2>2, <2>3
<1>9. ASSUME NEW m \in M
      PROVE  \E j \in 1 .. L + 1 : q[j] = m
  <2>1. CASE m = k
    <3>1. place + 1 \in 1 .. L + 1
      BY <1>1
    <3> QED
      BY <1>4, <2>1, <3>1
  <2>2. CASE m \in N
    <3>1. PICK j \in 1 .. L : p[j] = m
      BY <1>1, <2>2
    <3>2. CASE j \in 1 .. place
      BY <1>1, <1>4, <3>1, <3>2
    <3>3. CASE j \notin 1 .. place
      <4>1. j \in place + 1 .. L /\ j + 1 \in 1 .. L + 1
        BY <1>1, <3>3
      <4> QED
        BY <1>4, <3>1, <4>1
    <3> QED
      BY <3>2, <3>3
  <2> QED
    BY <2>1, <2>2
<1>10. Ascending(q, R)
  BY <1>4, <1>8 DEF Ascending
<1>11. Enumerates(q, M, R)
  BY <1>4, <1>9, <1>10 DEF Enumerates
<1> QED
  BY <1>11 DEF q
LEMMA SequenceIn ==
  ASSUME NEW S, NEW p \in Seq(S), NEW M, \A i \in 1 .. Len(p) : p[i] \in M
  PROVE  p \in Seq(M)
OBVIOUS

LEMMA DropPlaces ==
  ASSUME NEW S, NEW p, NEW n \in 1 .. Len(p), NEW q, DropIs(S, p, n, q)
  PROVE  Places(p, n, q)
<1> DEFINE L == Len(p)
<1>1. /\ L \in Nat /\ Len(q) = L - 1 /\ n \in 1 .. L
      /\ \A i \in 1 .. n - 1 : q[i] = p[i]
      /\ \A i \in n .. L - 1 : q[i] = p[i + 1]
  BY DEF DropIs
<1> HIDE DEF L
<1>2. ASSUME NEW i \in 1 .. L - 1
      PROVE  \/ i \in 1 .. n - 1 /\ q[i] = p[i] /\ i \in 1 .. L
             \/ i \in n .. L - 1 /\ q[i] = p[i + 1] /\ i + 1 \in 1 .. L
  <2>1. CASE i < n
    <3>1. i \in 1 .. n - 1 /\ i \in 1 .. L
      BY <1>1, <2>1
    <3> QED
      BY <1>1, <3>1
  <2>2. CASE ~ (i < n)
    <3>1. i \in n .. L - 1 /\ i + 1 \in 1 .. L
      BY <1>1, <2>2
    <3> QED
      BY <1>1, <3>1
  <2> QED
    BY <2>1, <2>2
<1>3. ASSUME NEW j \in 1 .. L, j # n
      PROVE  \E i \in 1 .. L - 1 : q[i] = p[j]
  <2>1. CASE j < n
    <3>1. j \in 1 .. n - 1 /\ j \in 1 .. L - 1
      BY <1>1, <2>1
    <3> QED
      BY <1>1, <3>1
  <2>2. CASE ~ (j < n)
    <3>1. j - 1 \in n .. L - 1 /\ j - 1 \in 1 .. L - 1 /\ (j - 1) + 1 = j
      BY <1>1, <1>3, <2>2
    <3> QED
      BY <1>1, <3>1
  <2> QED
    BY <2>1, <2>2
<1> QED
  BY <1>1, <1>2, <1>3 DEF L, Places

LEMMA DropEnumerates ==
  ASSUME NEW N, NEW R, \A n \in N : R[n] \in Int, NEW p, Enumerates(p, N, R),
         NEW n \in 1 .. Len(p), NEW node, node = p[n], NEW M, M = N \ {node}
  PROVE  Enumerates(Drop(p, n), M, R)
<1> DEFINE L == Len(p)
           q == Drop(p, n)
<1>1. /\ p \in Seq(N) /\ L \in Nat /\ (\A i \in 1 .. L : p[i] \in N)
      /\ \A i, j \in 1 .. L : i < j => R[p[i]] < R[p[j]]
      /\ \A m \in N : \E j \in 1 .. L : p[j] = m
  BY DEF Enumerates, Ascending
<1>2. DropIs(N, p, n, q)
  BY <1>1, DropGives
<1> HIDE DEF q
<1>3. Places(p, n, q)
  BY <1>2, DropPlaces
<1>4. q \in Seq(N) /\ n \in 1 .. L /\ n \in Nat
  BY <1>2 DEF DropIs
<1>5. \A i \in 1 .. Len(q) :
        \/ i < n /\ q[i] = p[i] /\ i \in 1 .. L
        \/ n < i + 1 /\ q[i] = p[i + 1] /\ i + 1 \in 1 .. L
  <2>1. \A i \in 1 .. n - 1 : i < n
    BY <1>4
  <2>2. \A i \in n .. L - 1 : n < i + 1
    BY <1>1, <1>4
  <2>3. \A i \in 1 .. Len(q) :
          \/ i \in 1 .. n - 1 /\ q[i] = p[i] /\ i \in 1 .. L
          \/ i \in n .. L - 1 /\ q[i] = p[i + 1] /\ i + 1 \in 1 .. L
    BY <1>3 DEF Places
  <2> QED
    BY <2>1, <2>2, <2>3
<1>13. \A j \in 1 .. L : j # n => \E i \in 1 .. Len(q) : q[i] = p[j]
  BY <1>3 DEF Places
<1>6. \A i, j \in 1 .. L : p[i] = p[j] => i = j
  <2>1. p \in Seq(N) /\ Ascending(p, R) /\ \A m \in N : R[m] \in Int
    BY DEF Enumerates
  <2> HIDE DEF L
  <2>2. \A i, j \in 1 .. Len(p) : p[i] = p[j] => i = j
    BY <2>1, AscendingDistinct
  <2> QED
    BY <2>2 DEF L
<1> HIDE DEF L
<1>7. \A i \in 1 .. Len(q) : q[i] \in M
  <2>1. ASSUME NEW i \in 1 .. Len(q)
        PROVE  q[i] \in M
    <3>1. CASE i < n /\ q[i] = p[i] /\ i \in 1 .. L
      <4>1. i # n
        BY <1>4, <3>1
      <4> QED
        BY <1>1, <1>4, <1>6, <3>1, <4>1
    <3>2. CASE n < i + 1 /\ q[i] = p[i + 1] /\ i + 1 \in 1 .. L
      <4>1. i + 1 # n
        BY <1>4, <3>2
      <4> QED
        BY <1>1, <1>4, <1>6, <3>2, <4>1
    <3> QED
      BY <1>5, <3>1, <3>2
  <2> QED
    BY <2>1
<1>8. q \in Seq(M)
  BY <1>4, <1>7, SequenceIn
<1>9. ASSUME NEW i \in 1 .. Len(q), NEW j \in 1 .. Len(q), i < j
      PROVE  R[q[i]] < R[q[j]]
  <2>1. CASE i < n /\ q[i] = p[i] /\ i \in 1 .. L
    <3>1. CASE j < n /\ q[j] = p[j] /\ j \in 1 .. L
      BY <1>1, <1>9, <2>1, <3>1
    <3>2. CASE n < j + 1 /\ q[j] = p[j + 1] /\ j + 1 \in 1 .. L
      <4>1. i < j + 1
        BY <1>4, <1>9
      <4> QED
        BY <1>1, <2>1, <3>2, <4>1
    <3> QED
      BY <1>5, <3>1, <3>2
  <2>2. CASE n < i + 1 /\ q[i] = p[i + 1] /\ i + 1 \in 1 .. L
    <3>1. ~ (j < n) /\ i + 1 < j + 1
      BY <1>4, <1>9, <2>2
    <3>2. q[j] = p[j + 1] /\ j + 1 \in 1 .. L
      BY <1>5, <3>1
    <3> QED
      BY <1>1, <2>2, <3>1, <3>2
  <2> QED
    BY <1>5, <2>1, <2>2
<1>10. ASSUME NEW m \in M
       PROVE  \E i \in 1 .. Len(q) : q[i] = m
  <2>1. PICK j \in 1 .. L : p[j] = m
    BY <1>1, <1>10
  <2>2. j # n
    BY <1>10, <2>1
  <2> QED
    BY <1>13, <2>1, <2>2
<1>11. Ascending(q, R)
  BY <1>9 DEF Ascending
<1>12. Enumerates(q, M, R)
  BY <1>8, <1>10, <1>11 DEF Enumerates
<1> QED
  BY <1>12 DEF q

-----------------------------------------------------------------------------
(* The order list *)

LEMMA OrderAppended ==
  ASSUME NEW N, NEW L, InOrder(order, N, L), N \subseteq Key, NEW k \in Key, k \notin N,
         NEW M, M = N \cup {k}
  PROVE  InOrder(OrderAppend(k), M, Put(L, Len(L), k))
<1> DEFINE n == Len(L)
           q == Put(L, n, k)
           o == OrderAppend(k)
           tail == order.tail
<1>1. /\ L \in Seq(N) /\ n \in Nat /\ (\A i \in 1 .. n : L[i] \in N)
      /\ \A i, j \in 1 .. n : L[i] = L[j] => i = j
      /\ \A m \in N : \E i \in 1 .. n : L[i] = m
      /\ order.head = IF n = 0 THEN NULL ELSE L[1]
      /\ tail = IF n = 0 THEN NULL ELSE L[n]
      /\ order.next \in [Key -> Node] /\ order.prev \in [Key -> Node]
      /\ \A i \in 1 .. n : order.next[L[i]] = IF i = n THEN NULL ELSE L[i + 1]
      /\ \A i \in 1 .. n : order.prev[L[i]] = IF i = 1 THEN NULL ELSE L[i - 1]
      /\ \A m \in Key \ N : order.next[m] = NULL
  BY DEF InOrder
<1>2. NULL \notin Key /\ NULL \notin N
  BY NullIsNoKey
<1>3. PutIs(M, L, n, k, q)
  <2>1. L \in Seq(M) /\ k \in M /\ n \in 0 .. Len(L)
    BY <1>1, MoreKeys
  <2> QED
    BY <2>1, PutGives
<1> HIDE DEF q
<1>4. q \in Seq(M) /\ Len(q) = n + 1 /\ (\A i \in 1 .. n : q[i] = L[i]) /\ q[n + 1] = k
  BY <1>3 DEF PutIs
<1>5. /\ o.head = IF tail = NULL THEN k ELSE order.head
      /\ o.tail = k
      /\ o.prev = [order.prev EXCEPT ![k] = tail]
      /\ o.next = IF tail = NULL THEN order.next ELSE [order.next EXCEPT ![tail] = k]
  BY DEF OrderAppend
<1> HIDE DEF n, o, tail
<1>6. tail = NULL <=> n = 0
  <2>1. n # 0 => n \in 1 .. n
    BY <1>1
  <2> QED
    BY <1>1, <1>2, <2>1
<1>7. tail \in Node /\ (n # 0 => tail \in N)
  <2>1. n # 0 => n \in 1 .. n
    BY <1>1
  <2> QED
    BY <1>1, <2>1 DEF Node
<1>8. /\ o.prev \in [Key -> Node] /\ o.prev[k] = tail
      /\ \A m \in Key : m # k => o.prev[m] = order.prev[m]
  BY <1>1, <1>5, <1>7
<1>9. k \in Node
  BY DEF Node
<1>10. /\ o.next \in [Key -> Node]
       /\ tail # NULL => o.next[tail] = k
       /\ \A m \in Key : m # tail => o.next[m] = order.next[m]
  BY <1>1, <1>5, <1>6, <1>7, <1>9
<1>11. \A i \in 1 .. n + 1 : i \in 1 .. n \/ i = n + 1
  BY <1>1
<1>12. \A i, j \in 1 .. n + 1 : q[i] = q[j] => i = j
  BY <1>1, <1>4, <1>11
<1>13. \A m \in M : \E i \in 1 .. n + 1 : q[i] = m
  <2>1. (\A i \in 1 .. n : i \in 1 .. n + 1) /\ n + 1 \in 1 .. n + 1
    BY <1>1
  <2> QED
    BY <1>1, <1>4, <2>1
<1>14. o.head = q[1]
  <2>1. n = 0 => o.head = k /\ q[1] = k
    BY <1>4, <1>5, <1>6
  <2>2. n # 0 => 1 \in 1 .. n /\ o.head = L[1]
    BY <1>1, <1>5, <1>6
  <2> QED
    BY <1>4, <2>1, <2>2
<1>15. o.tail = q[n + 1]
  BY <1>4, <1>5
<1>16. ASSUME NEW i \in 1 .. n + 1
       PROVE  o.next[q[i]] = IF i = n + 1 THEN NULL ELSE q[i + 1]
  <2>1. CASE i = n + 1
    <3>1. k # tail
      BY <1>2, <1>6, <1>7
    <3> QED
      BY <1>1, <1>4, <1>10, <2>1, <3>1
  <2>2. CASE i \in 1 .. n /\ i = n
    <3>1. tail = L[n] /\ tail # NULL /\ i # n + 1
      BY <1>1, <1>6, <2>2
    <3> QED
      BY <1>4, <1>10, <2>2, <3>1
  <2>3. CASE i \in 1 .. n /\ i # n
    <3>1. n # 0 /\ n \in 1 .. n /\ i + 1 \in 1 .. n /\ i # n + 1
      BY <1>1, <2>3
    <3>2. L[i] # tail /\ L[i] \in Key
      BY <1>1, <2>3, <3>1
    <3>3. o.next[L[i]] = order.next[L[i]]
      BY <1>10, <3>2
    <3>4. order.next[L[i]] = L[i + 1]
      BY <1>1, <2>3
    <3>5. q[i] = L[i] /\ q[i + 1] = L[i + 1]
      BY <1>4, <2>3, <3>1
    <3> QED
      BY <3>1, <3>3, <3>4, <3>5
  <2> QED
    BY <1>11, <2>1, <2>2, <2>3
<1>17. ASSUME NEW i \in 1 .. n + 1
       PROVE  o.prev[q[i]] = IF i = 1 THEN NULL ELSE q[i - 1]
  <2>1. CASE i = n + 1
    <3>1. o.prev[q[i]] = tail
      BY <1>4, <1>8, <2>1
    <3>2. CASE n = 0
      BY <1>6, <2>1, <3>1, <3>2
    <3>3. CASE n # 0
      <4>1. i # 1 /\ i - 1 = n /\ n \in 1 .. n
        BY <1>1, <2>1, <3>3
      <4> QED
        <5>1. q[i - 1] = L[n] /\ tail = L[n]
          BY <1>1, <1>4, <1>6, <3>3, <4>1
        <5> QED
          BY <3>1, <4>1, <5>1
    <3> QED
      BY <3>2, <3>3
  <2>2. CASE i \in 1 .. n
    <3>1. L[i] # k /\ L[i] \in Key
      BY <1>1, <2>2
    <3>2. o.prev[q[i]] = order.prev[L[i]] /\ order.prev[L[i]] = IF i = 1 THEN NULL ELSE L[i - 1]
      BY <1>1, <1>4, <1>8, <2>2, <3>1
    <3>3. i # 1 => i - 1 \in 1 .. n
      BY <1>1, <2>2
    <3>4. i # 1 => q[i - 1] = L[i - 1]
      BY <1>4, <3>3
    <3> QED
      BY <3>2, <3>4
  <2> QED
    BY <1>11, <2>1, <2>2
<1>18. \A m \in Key \ M : o.next[m] = NULL
  <2>1. ASSUME NEW m \in Key \ M
        PROVE  o.next[m] = NULL
    <3>1. m # tail
      BY <1>2, <1>6, <1>7, <2>1
    <3> QED
      BY <1>1, <1>10, <2>1, <3>1
  <2> QED
    BY <2>1
<1>19. Len(q) # 0
  BY <1>1, <1>4
<1>20. InOrder(o, M, q)
  BY <1>4, <1>8, <1>10, <1>12, <1>13, <1>14, <1>15, <1>16, <1>17, <1>18, <1>19 DEF InOrder
<1> QED
  BY <1>20 DEF o, q, n
LEMMA OrderRemoved ==
  ASSUME NEW N, NEW L, InOrder(order, N, L), N \subseteq Key,
         NEW n \in 1 .. Len(L), NEW node, node = L[n], NEW M, M = N \ {node}
  PROVE  InOrder(OrderRemove(node), M, Drop(L, n))
<1> DEFINE c == Len(L)
           q == Drop(L, n)
           o == OrderRemove(node)
           prev == order.prev[node]
           next == order.next[node]
<1>1. /\ L \in Seq(N) /\ c \in Nat /\ (\A i \in 1 .. c : L[i] \in N) /\ n \in 1 .. c
      /\ \A i, j \in 1 .. c : L[i] = L[j] => i = j
      /\ \A m \in N : \E i \in 1 .. c : L[i] = m
      /\ order.head = IF c = 0 THEN NULL ELSE L[1]
      /\ order.tail = IF c = 0 THEN NULL ELSE L[c]
      /\ order.next \in [Key -> Node] /\ order.prev \in [Key -> Node]
      /\ \A i \in 1 .. c : order.next[L[i]] = IF i = c THEN NULL ELSE L[i + 1]
      /\ \A i \in 1 .. c : order.prev[L[i]] = IF i = 1 THEN NULL ELSE L[i - 1]
      /\ \A m \in Key \ N : order.next[m] = NULL
  BY DEF InOrder
<1>2. NULL \notin Key /\ NULL \notin N
  BY NullIsNoKey
<1>3. DropIs(N, L, n, q)
  BY <1>1, DropGives
<1> HIDE DEF q
<1>4. Places(L, n, q)
  BY <1>3, DropPlaces
<1>5. q \in Seq(N) /\ Len(q) = c - 1
  BY <1>3 DEF DropIs
<1>6. \A i \in 1 .. c - 1 :
        \/ i \in 1 .. n - 1 /\ q[i] = L[i] /\ i \in 1 .. c
        \/ i \in n .. c - 1 /\ q[i] = L[i + 1] /\ i + 1 \in 1 .. c
  BY <1>4, <1>5 DEF Places
<1>7. \A j \in 1 .. c : j # n => \E i \in 1 .. c - 1 : q[i] = L[j]
  BY <1>4, <1>5 DEF Places
<1>8. prev = IF n = 1 THEN NULL ELSE L[n - 1]
  BY <1>1
<1>9. next = IF n = c THEN NULL ELSE L[n + 1]
  BY <1>1
<1> DEFINE linked == IF prev = NULL THEN order.next ELSE [order.next EXCEPT ![prev] = next]
           backed == IF next = NULL THEN order.prev ELSE [order.prev EXCEPT ![next] = prev]
<1>10. /\ o.head = IF prev = NULL THEN next ELSE order.head
       /\ o.tail = IF next = NULL THEN prev ELSE order.tail
       /\ o.prev = [backed EXCEPT ![node] = NULL]
       /\ o.next = [linked EXCEPT ![node] = NULL]
  BY DEF OrderRemove
<1>11. prev \in Node /\ next \in Node /\ node \in Key /\ NULL \in Node
  BY <1>1 DEF Node
<1>12. linked = (IF prev = NULL THEN order.next ELSE [order.next EXCEPT ![prev] = next])
  OBVIOUS
<1>13. backed = (IF next = NULL THEN order.prev ELSE [order.prev EXCEPT ![next] = prev])
  OBVIOUS
<1> HIDE DEF c, o, prev, next, linked, backed
<1>14. /\ linked \in [Key -> Node]
       /\ \A m \in Key : linked[m] = IF m = prev THEN next ELSE order.next[m]
  <2>1. order.next \in [Key -> Node] /\ NULL \notin Key
    BY <1>1, <1>2
  <2>2. CASE prev = NULL
    BY <1>12, <2>1, <2>2
  <2>3. CASE prev # NULL
    <3>1. prev \in Key
      BY <1>11, <2>3 DEF Node
    <3> QED
      BY <1>11, <1>12, <2>1, <2>3, <3>1
  <2> QED
    BY <2>2, <2>3
<1>15. /\ backed \in [Key -> Node]
       /\ \A m \in Key : backed[m] = IF m = next THEN prev ELSE order.prev[m]
  <2>1. order.prev \in [Key -> Node] /\ NULL \notin Key
    BY <1>1, <1>2
  <2>2. CASE next = NULL
    BY <1>13, <2>1, <2>2
  <2>3. CASE next # NULL
    <3>1. next \in Key
      BY <1>11, <2>3 DEF Node
    <3> QED
      BY <1>11, <1>13, <2>1, <2>3, <3>1
  <2> QED
    BY <2>2, <2>3
<1>16. /\ o.next \in [Key -> Node] /\ o.prev \in [Key -> Node]
       /\ o.next[node] = NULL
       /\ \A m \in Key : m # node => o.next[m] = IF m = prev THEN next ELSE order.next[m]
       /\ \A m \in Key : m # node => o.prev[m] = IF m = next THEN prev ELSE order.prev[m]
  BY <1>10, <1>11, <1>14, <1>15
<1>17. \A i \in 1 .. c : i # n => L[i] # node /\ L[i] \in Key /\ L[i] # NULL
  BY <1>1, <1>2
<1>18. \A i \in 1 .. c : /\ L[i] = prev <=> i = n - 1
                         /\ L[i] = next <=> i = n + 1
  <2>1. ASSUME NEW i \in 1 .. c
        PROVE  /\ L[i] = prev <=> i = n - 1
               /\ L[i] = next <=> i = n + 1
    <3>1. n # 1 => n - 1 \in 1 .. c
      BY <1>1
    <3>2. n # c => n + 1 \in 1 .. c
      BY <1>1
    <3>3. L[i] # NULL /\ (n = 1 => i # n - 1) /\ (n = c => i # n + 1)
      BY <1>1, <1>2
    <3>4. L[i] = prev <=> i = n - 1
      BY <1>1, <1>8, <3>1, <3>3
    <3>5. L[i] = next <=> i = n + 1
      BY <1>1, <1>9, <3>2, <3>3
    <3> QED
      BY <3>4, <3>5
  <2> QED
    BY <2>1
<1>19. prev = NULL <=> n = 1
  <2>1. n # 1 => n - 1 \in 1 .. c
    BY <1>1
  <2> QED
    BY <1>1, <1>2, <1>8, <2>1
<1>20. next = NULL <=> n = c
  <2>1. n # c => n + 1 \in 1 .. c
    BY <1>1
  <2> QED
    BY <1>1, <1>2, <1>9, <2>1
<1>21. \A i \in 1 .. c : i # n =>
         /\ o.next[L[i]] = IF i = n - 1 THEN next ELSE IF i = c THEN NULL ELSE L[i + 1]
         /\ o.prev[L[i]] = IF i = n + 1 THEN prev ELSE IF i = 1 THEN NULL ELSE L[i - 1]
  <2>1. ASSUME NEW i \in 1 .. c, i # n
        PROVE  /\ o.next[L[i]] = IF i = n - 1 THEN next ELSE IF i = c THEN NULL ELSE L[i + 1]
               /\ o.prev[L[i]] = IF i = n + 1 THEN prev ELSE IF i = 1 THEN NULL ELSE L[i - 1]
    <3>1. L[i] # node /\ L[i] \in Key
      BY <1>17, <2>1
    <3>2. (L[i] = prev <=> i = n - 1) /\ (L[i] = next <=> i = n + 1)
      BY <1>18
    <3>3. /\ order.next[L[i]] = IF i = c THEN NULL ELSE L[i + 1]
          /\ order.prev[L[i]] = IF i = 1 THEN NULL ELSE L[i - 1]
      BY <1>1
    <3>4. /\ o.next[L[i]] = IF L[i] = prev THEN next ELSE order.next[L[i]]
          /\ o.prev[L[i]] = IF L[i] = next THEN prev ELSE order.prev[L[i]]
      BY <1>16, <3>1
    <3> QED
      BY <3>2, <3>3, <3>4
  <2> QED
    BY <2>1
<1>22. \A i \in 1 .. c - 1 : q[i] \in M
  <2>1. \A i \in 1 .. n - 1 : i # n
    BY <1>1
  <2>2. \A i \in n .. c - 1 : i + 1 # n
    BY <1>1
  <2>3. \A i \in 1 .. c : i # n => L[i] \in M
    BY <1>1, <1>17
  <2> QED
    BY <1>6, <2>1, <2>2, <2>3
<1>23. q \in Seq(M)
  BY <1>5, <1>22, SequenceIn
<1>24. ASSUME NEW i \in 1 .. c - 1, NEW j \in 1 .. c - 1, q[i] = q[j]
       PROVE  i = j
  <2> DEFINE F(l) == IF l <= n - 1 THEN l ELSE l + 1
  <2>1. \A l \in 1 .. c - 1 : F(l) \in 1 .. c /\ q[l] = L[F(l)]
    BY <1>1, <1>6
  <2>2. \A l, m \in 1 .. c - 1 : F(l) = F(m) => l = m
    <3>1. n \in Nat /\ c \in Nat
      BY <1>1
    <3>2. ASSUME NEW l \in Nat, NEW m \in Nat, F(l) = F(m)
          PROVE  l = m
      <4> HIDE DEF c
      <4> QED
        BY <3>1, <3>2
    <3> QED
      BY <3>1, <3>2
  <2> HIDE DEF F
  <2>3. F(i) \in 1 .. c /\ F(j) \in 1 .. c /\ L[F(i)] = L[F(j)]
    BY <1>24, <2>1
  <2>4. F(i) = F(j)
    BY <1>1, <2>3
  <2> QED
    BY <1>24, <2>2, <2>4
<1>25. ASSUME NEW m \in M
       PROVE  \E i \in 1 .. c - 1 : q[i] = m
  <2>1. PICK j \in 1 .. c : L[j] = m
    BY <1>1, <1>25
  <2> QED
    BY <1>7, <1>25, <2>1
<1>26. \A i \in 1 .. c - 1 : (i < n => q[i] = L[i]) /\ (~ (i < n) => q[i] = L[i + 1] /\ i + 1 \in 1 .. c)
  <2>1. ASSUME NEW i \in 1 .. c - 1
        PROVE  (i < n => q[i] = L[i]) /\ (~ (i < n) => q[i] = L[i + 1] /\ i + 1 \in 1 .. c)
    <3>1. i \in 1 .. n - 1 <=> i < n
      BY <1>1
    <3>2. i \in n .. c - 1 <=> ~ (i < n)
      BY <1>1
    <3> QED
      BY <1>6, <3>1, <3>2
  <2> QED
    BY <2>1
<1>27. o.head = IF c - 1 = 0 THEN NULL ELSE q[1]
  <2>1. CASE n = 1
    <3>1. o.head = next
      BY <1>10, <1>19, <2>1
    <3>2. c = 1 => next = NULL
      BY <1>20, <2>1
    <3>3. c # 1 => next = L[2] /\ q[1] = L[1 + 1] /\ 1 + 1 = 2
      <4>1. c # 1 => 1 \in 1 .. c - 1 /\ ~ (1 < n) /\ n # c /\ n + 1 = 2
        BY <1>1, <2>1
      <4> QED
        BY <1>9, <1>26, <4>1
    <3>4. c - 1 = 0 <=> c = 1
      BY <1>1
    <3> QED
      BY <3>1, <3>2, <3>3, <3>4
  <2>2. CASE n # 1
    <3>1. o.head = L[1] /\ c - 1 # 0 /\ 1 \in 1 .. c - 1 /\ 1 < n
      BY <1>1, <1>10, <1>19, <2>2
    <3> QED
      BY <1>26, <3>1
  <2> QED
    BY <2>1, <2>2
<1>28. o.tail = IF c - 1 = 0 THEN NULL ELSE q[c - 1]
  <2>1. CASE n = c
    <3>1. o.tail = prev
      BY <1>10, <1>20, <2>1
    <3>2. c - 1 = 0 <=> n = 1
      BY <1>1, <2>1
    <3>3. n # 1 => c - 1 \in 1 .. c - 1 /\ c - 1 < n
      BY <1>1, <2>1
    <3> QED
      BY <1>8, <1>26, <2>1, <3>1, <3>2, <3>3
  <2>2. CASE n # c
    <3>1. o.tail = L[c] /\ c - 1 # 0 /\ c - 1 \in 1 .. c - 1 /\ ~ (c - 1 < n) /\ (c - 1) + 1 = c
      BY <1>1, <1>10, <1>20, <2>2
    <3> QED
      BY <1>26, <3>1
  <2> QED
    BY <2>1, <2>2
<1>29. ASSUME NEW i \in 1 .. c - 1
       PROVE  o.next[q[i]] = IF i = c - 1 THEN NULL ELSE q[i + 1]
  <2>1. CASE i < n - 1
    <3>1. /\ i < n /\ i \in 1 .. c /\ i # n /\ i # n - 1 /\ i # c /\ i # c - 1
          /\ i + 1 \in 1 .. c - 1 /\ i + 1 < n
      <4>1. i \in Int /\ c \in Int /\ n \in Int /\ 1 <= i /\ i < n - 1 /\ n <= c
        BY <1>1, <2>1
      <4> QED
        BY <4>1
    <3>2. q[i] = L[i] /\ q[i + 1] = L[i + 1]
      BY <1>26, <3>1
    <3> QED
      BY <1>21, <3>1, <3>2
  <2>2. CASE i = n - 1
    <3>1. i < n /\ i \in 1 .. c /\ i # n /\ i + 1 = n /\ ~ (i + 1 < n) /\ (i = c - 1 <=> n = c)
      BY <1>1, <2>2
    <3>2. q[i] = L[i]
      BY <1>26, <3>1
    <3>3. o.next[q[i]] = next
      BY <1>21, <2>2, <3>1, <3>2
    <3>4. n # c => n \in 1 .. c - 1 /\ ~ (n < n)
      BY <1>1
    <3>5. n # c => q[n] = L[n + 1]
      BY <1>26, <3>4
    <3> QED
      BY <1>9, <3>1, <3>3, <3>5
  <2>3. CASE ~ (i < n)
    <3>1. i + 1 \in 1 .. c /\ i + 1 # n /\ i + 1 # n - 1 /\ (i + 1 = c <=> i = c - 1)
      BY <1>1, <2>3
    <3>2. q[i] = L[i + 1]
      BY <1>26, <2>3
    <3>3. o.next[q[i]] = IF i + 1 = c THEN NULL ELSE L[(i + 1) + 1]
      BY <1>21, <3>1, <3>2
    <3>4. i # c - 1 => i + 1 \in 1 .. c - 1 /\ ~ (i + 1 < n)
      BY <1>1, <2>3
    <3>5. i # c - 1 => q[i + 1] = L[(i + 1) + 1]
      BY <1>26, <3>4
    <3> QED
      BY <3>1, <3>3, <3>5
  <2> QED
    BY <1>1, <2>1, <2>2, <2>3
<1>30. ASSUME NEW i \in 1 .. c - 1
       PROVE  o.prev[q[i]] = IF i = 1 THEN NULL ELSE q[i - 1]
  <2>1. CASE i < n
    <3>1. /\ i \in 1 .. c /\ i # n /\ i # n + 1
          /\ i # 1 => i - 1 \in 1 .. c - 1 /\ i - 1 < n
      BY <1>1, <2>1
    <3>2. q[i] = L[i] /\ (i # 1 => q[i - 1] = L[i - 1])
      BY <1>26, <2>1, <3>1
    <3>3. o.prev[L[i]] = IF i = 1 THEN NULL ELSE L[i - 1]
      BY <1>21, <3>1
    <3> QED
      BY <3>2, <3>3
  <2>2. CASE i = n
    <3>1. i + 1 \in 1 .. c /\ i + 1 # n /\ i + 1 = n + 1 /\ ~ (i < n)
      BY <1>1, <2>2
    <3>2. q[i] = L[i + 1]
      BY <1>26, <3>1
    <3>3. o.prev[q[i]] = prev
      BY <1>21, <3>1, <3>2
    <3>4. n # 1 => n - 1 \in 1 .. c - 1 /\ n - 1 < n
      BY <1>1, <2>2
    <3>5. n # 1 => q[n - 1] = L[n - 1]
      BY <1>26, <3>4
    <3> QED
      BY <1>8, <2>2, <3>3, <3>5
  <2>3. CASE i > n
    <3>1. /\ i + 1 \in 1 .. c /\ i + 1 # n /\ i + 1 # n + 1 /\ i + 1 # 1 /\ (i + 1) - 1 = i /\ i # 1
          /\ i - 1 \in 1 .. c - 1 /\ ~ (i - 1 < n) /\ (i - 1) + 1 = i /\ ~ (i < n)
      BY <1>1, <2>3
    <3>2. q[i] = L[i + 1] /\ q[i - 1] = L[(i - 1) + 1]
      BY <1>26, <3>1
    <3>3. o.prev[L[i + 1]] = L[(i + 1) - 1]
      BY <1>21, <3>1
    <3> QED
      BY <3>1, <3>2, <3>3
  <2> QED
    BY <1>1, <2>1, <2>2, <2>3
<1>31. \A m \in Key \ M : o.next[m] = NULL
  <2>1. ASSUME NEW m \in Key \ M, m # node
        PROVE  o.next[m] = NULL
    <3>1. m \in Key \ N
      BY <2>1
    <3>2. prev # NULL => prev \in N
      <4>1. n # 1 => n - 1 \in 1 .. c
        BY <1>1
      <4> QED
        BY <1>1, <1>8, <4>1
    <3>3. m # prev
      BY <1>2, <3>1, <3>2
    <3> QED
      BY <1>1, <1>16, <2>1, <3>1, <3>3
  <2> QED
    BY <1>16, <2>1
<1>32. InOrder(o, M, q)
  BY <1>5, <1>16, <1>23, <1>24, <1>25, <1>27, <1>28, <1>29, <1>30, <1>31 DEF InOrder
<1> QED
  BY <1>32 DEF o, q

LEMMA ListedRounds ==
  ASSUME NEW p \in Seq(Key), NEW end, NEW links, Chained(end, links, p)
  PROVE  \A n \in Nat : Listing(p, n, Listed(end, links, n))
<1> DEFINE Further(x) == IF x = <<>> THEN end ELSE links[Last(x)]
           G == [x \in Seq(Key) |-> IF Further(x) = NULL THEN x ELSE Append(x, Further(x))]
           none == <<>>
           c == Len(p)
           T == {n \in Nat : Listing(p, n, Listed(end, links, n))}
<1>1. \A n : Listed(end, links, n) = Repeat(G, none, n)
  BY DEF Listed
<1>2. \A x \in Seq(Key) : G[x] = IF Further(x) = NULL THEN x ELSE Append(x, Further(x))
  OBVIOUS
<1>3. c \in Nat /\ \A i \in 1 .. c : p[i] \in Key /\ p[i] # NULL
  BY NullIsNoKey
<1>4. none = <<>> /\ none \in Seq(Key) /\ Len(none) = 0
  OBVIOUS
<1>5. c = Len(p)
  OBVIOUS
<1>6. /\ end = IF c = 0 THEN NULL ELSE p[1]
      /\ \A i \in 1 .. c : links[p[i]] = IF i = c THEN NULL ELSE p[i + 1]
  BY DEF Chained
<1> HIDE DEF G, none, c
<1>7. 0 \in T
  <2>1. Listed(end, links, 0) = none
    BY <1>1, RepeatRounds
  <2>2. Listing(p, 0, none)
    BY <1>3, <1>4, <1>5 DEF Listing, Prefix
  <2> QED
    BY <2>1, <2>2
<1>8. ASSUME NEW n \in Nat, n \in T
      PROVE  n + 1 \in T
  <2> DEFINE x == Listed(end, links, n)
             y == Listed(end, links, n + 1)
             k == Len(x)
  <2>1. y = G[x]
    <3>1. Repeat(G, none, n + 1) = G[Repeat(G, none, n)]
      BY RepeatRounds
    <3> QED
      BY <1>1, <3>1
  <2>2. Listing(p, n, x)
    BY <1>8
  <2>8. k = Len(x)
    OBVIOUS
  <2> HIDE DEF x, y, k
  <2>3. /\ x \in Seq(Key) /\ k \in Nat /\ k <= c /\ k = (IF n <= c THEN n ELSE c)
        /\ \A i \in 1 .. k : x[i] = p[i]
    BY <1>5, <2>2, <2>8 DEF Listing, Prefix
  <2>4. k = 0 => Further(x) = end
    <3>1. x \in Seq(Key) /\ Len(x) = k
      BY <2>3, <2>8
    <3>2. k = 0 => x = <<>>
      BY <3>1, EmptySeq
    <3> QED
      BY <3>2
  <2>5. k # 0 => Further(x) = links[p[k]] /\ k \in 1 .. c
    <3>1. k # 0 => x # <<>> /\ k \in 1 .. k /\ k \in 1 .. c
      BY <1>3, <2>3, <2>8
    <3>2. k # 0 => Last(x) = p[k]
      BY <2>3, <2>8, <3>1, LastIs
    <3> QED
      BY <3>1, <3>2
  <2>6. CASE k = c
    <3>1. Further(x) = NULL
      BY <1>6, <2>4, <2>5, <2>6
    <3>2. y = x
      BY <1>2, <2>1, <2>3, <3>1
    <3>3. k = IF n + 1 <= c THEN n + 1 ELSE c
      BY <1>3, <2>3, <2>6
    <3>4. Listing(p, n + 1, x)
      BY <1>5, <2>2, <2>8, <3>3 DEF Listing
    <3> QED
      BY <3>2, <3>4 DEF y
  <2>7. CASE k # c
    <3> DEFINE z == p[k + 1]
    <3>1. Further(x) = z
      <4>1. CASE k = 0
        BY <1>6, <2>4, <2>7, <4>1
      <4>2. CASE k # 0
        BY <1>6, <2>5, <2>7, <4>2
      <4> QED
        BY <4>1, <4>2
    <3>2. k + 1 \in 1 .. c
      BY <1>3, <2>3, <2>7
    <3>3. z \in Key /\ z # NULL
      BY <1>3, <3>2
    <3>4. y = Append(x, z)
      BY <1>2, <2>1, <2>3, <3>1, <3>3
    <3>9. z = p[k + 1]
      OBVIOUS
    <3> HIDE DEF z
    <3>5. Longer(Key, x, z, Append(x, z))
      BY <2>3, <3>3, Appended
    <3>6. y \in Seq(Key) /\ Len(y) = k + 1 /\ y[k + 1] = z /\ \A i \in 1 .. k : y[i] = x[i]
      BY <2>8, <3>4, <3>5 DEF Longer
    <3>7. \A i \in 1 .. k + 1 : y[i] = p[i]
      <4>1. \A i \in 1 .. k + 1 : i \in 1 .. k \/ i = k + 1
        BY <2>3
      <4> QED
        BY <2>3, <3>6, <3>9, <4>1
    <3>10. k + 1 = (IF n + 1 <= c THEN n + 1 ELSE c) /\ k + 1 <= c
      BY <1>3, <2>3, <2>7
    <3>8. Listing(p, n + 1, y)
      BY <1>5, <3>6, <3>7, <3>10 DEF Listing, Prefix
    <3> QED
      BY <3>8 DEF y
  <2> QED
    BY <2>6, <2>7
<1>9. Nat \subseteq T
  <2> HIDE DEF T
  <2> QED
    BY <1>7, <1>8, AllNumbers
<1> QED
  BY <1>9

LEMMA ListedIs ==
  ASSUME NEW p \in Seq(Key), NEW end, NEW links, Chained(end, links, p), NEW n \in Nat, n >= Len(p)
  PROVE  Listed(end, links, n) = p
<1> DEFINE x == Listed(end, links, n)
<1>1. Listing(p, n, x)
  BY ListedRounds
<1> HIDE DEF x
<1>2. x \in Seq(Key) /\ Prefix(x, p) /\ Len(x) = IF n <= Len(p) THEN n ELSE Len(p)
  BY <1>1 DEF Listing
<1>3. Len(x) = Len(p)
  BY <1>2
<1>4. x = p
  BY <1>2, <1>3 DEF Prefix
<1> QED
  BY <1>4 DEF x

(* The list is read in both directions.                                    *)
LEMMA OrderRead ==
  ASSUME NEW N, NEW L, InOrder(order, N, L), N \subseteq Key, NEW n \in Nat, n >= Len(L)
  PROVE  /\ value_dict_keys_ordered(n) = L
         /\ Listed(order.tail, order.prev, n) = Reverse(L)
<1> DEFINE c == Len(L)
           z == Reverse(L)
<1>1. L \in Seq(N) /\ L \in Seq(Key)
  <2>1. L \in Seq(N)
    BY DEF InOrder
  <2> QED
    BY <2>1, MoreKeys
<1>2. Chained(order.head, order.next, L)
  BY DEF InOrder, Chained
<1>3. Listed(order.head, order.next, n) = L
  BY <1>1, <1>2, ListedIs
<1>4. c \in Nat /\ \A i \in 1 .. c : c - i + 1 \in 1 .. c
  BY <1>1
<1>5. z = [i \in 1 .. c |-> L[c - i + 1]]
  BY DEF Reverse
<1>6. z \in Seq(Key) /\ Len(z) = c /\ \A i \in 1 .. c : z[i] = L[c - i + 1]
  BY <1>1, <1>4, <1>5
<1>7. /\ order.tail = IF c = 0 THEN NULL ELSE L[c]
      /\ \A i \in 1 .. c : order.prev[L[i]] = IF i = 1 THEN NULL ELSE L[i - 1]
  BY DEF InOrder
<1> HIDE DEF c, z
<1>8. order.tail = IF c = 0 THEN NULL ELSE z[1]
  <2>1. c # 0 => 1 \in 1 .. c /\ c - 1 + 1 = c
    BY <1>4
  <2>2. c # 0 => z[1] = L[c - 1 + 1]
    BY <1>6, <2>1
  <2> QED
    BY <1>7, <2>1, <2>2
<1>9. \A i \in 1 .. c : order.prev[z[i]] = IF i = c THEN NULL ELSE z[i + 1]
  <2>1. ASSUME NEW i \in 1 .. c
        PROVE  order.prev[z[i]] = IF i = c THEN NULL ELSE z[i + 1]
    <3>1. z[i] = L[c - i + 1] /\ c - i + 1 \in 1 .. c
      BY <1>4, <1>6
    <3>2. order.prev[z[i]] = IF c - i + 1 = 1 THEN NULL ELSE L[(c - i + 1) - 1]
      BY <1>7, <3>1
    <3>3. c - i + 1 = 1 <=> i = c
      BY <1>4
    <3>4. i # c => i + 1 \in 1 .. c /\ c - (i + 1) + 1 = (c - i + 1) - 1
      BY <1>4
    <3>5. i # c => z[i + 1] = L[c - (i + 1) + 1]
      BY <1>6, <3>4
    <3> QED
      BY <3>2, <3>3, <3>4, <3>5
  <2> QED
    BY <2>1
<1>10. Chained(order.tail, order.prev, z)
  BY <1>6, <1>8, <1>9 DEF Chained
<1>11. n >= Len(z)
  BY <1>6 DEF c
<1>12. Listed(order.tail, order.prev, n) = z
  BY <1>6, <1>10, <1>11, ListedIs
<1> QED
  BY <1>3, <1>12 DEF z, value_dict_keys_ordered
-----------------------------------------------------------------------------
(* How far down a tree of a certain size goes *)

LEMMA PowIs ==
  /\ Pow2[0] = 1
  /\ \A n \in Nat : Pow2[n + 1] = 2 * Pow2[n] /\ Pow2[n] \in Nat /\ Pow2[n] > 0
<1> DEFINE G == [x \in Nat |-> 2 * x]
           h == [n \in Nat |-> Repeat(G, 1, n)]
<1>1. Repeat(G, 1, 0) = 1 /\ \A n \in Nat : Repeat(G, 1, n + 1) = G[Repeat(G, 1, n)]
  <2> DEFINE a == 1
  <2>1. a = 1
    OBVIOUS
  <2> HIDE DEF G, a
  <2>2. Repeat(G, a, 0) = a /\ \A n \in Nat : Repeat(G, a, n + 1) = G[Repeat(G, a, n)]
    BY RepeatRounds
  <2> QED
    BY <2>1, <2>2
<1>2. h[0] = 1 /\ \A n \in Nat : h[n + 1] = G[h[n]]
  BY <1>1
<1>3. \A x \in Nat : G[x] = 2 * x
  OBVIOUS
<1>10. h = [n \in Nat |-> h[n]]
  OBVIOUS
<1> HIDE DEF G, h
<1> DEFINE T == {n \in Nat : h[n] \in Nat /\ h[n] > 0}
<1>4. 0 \in T
  BY <1>2
<1>5. ASSUME NEW n \in Nat, n \in T
      PROVE  n + 1 \in T
  <2>1. h[n + 1] = 2 * h[n] /\ h[n] \in Nat /\ h[n] > 0
    BY <1>2, <1>3, <1>5
  <2>2. h[n + 1] \in Nat /\ h[n + 1] > 0
    BY <2>1
  <2> QED
    BY <2>2
<1>6. Nat \subseteq T
  <2> HIDE DEF T
  <2> QED
    BY <1>4, <1>5, AllNumbers
<1>7. \A n \in Nat : h[n] \in Nat /\ h[n] > 0 /\ h[n + 1] = 2 * h[n]
  BY <1>2, <1>3, <1>6
<1>8. h = [n \in Nat |-> IF n = 0 THEN 1 ELSE 2 * h[n - 1]]
  <2>1. ASSUME NEW n \in Nat
        PROVE  h[n] = IF n = 0 THEN 1 ELSE 2 * h[n - 1]
    <3>1. CASE n = 0
      BY <1>2, <3>1
    <3>2. CASE n # 0
      <4>1. n - 1 \in Nat /\ (n - 1) + 1 = n
        BY <3>2
      <4>2. h[n] = 2 * h[n - 1]
        BY <1>7, <4>1
      <4> QED
        BY <3>2, <4>2
    <3> QED
      BY <3>1, <3>2
  <2>2. [n \in Nat |-> h[n]] = [n \in Nat |-> IF n = 0 THEN 1 ELSE 2 * h[n - 1]]
    BY <2>1, Zenon
  <2> QED
    BY <1>10, <2>2
<1> DEFINE p == CHOOSE f : f = [n \in Nat |-> IF n = 0 THEN 1 ELSE 2 * f[n - 1]]
<1>9. p = [n \in Nat |-> IF n = 0 THEN 1 ELSE 2 * p[n - 1]]
  BY <1>8, Zenon
<1>11. Pow2 = p
  BY Zenon DEF Pow2
<1> HIDE DEF p
<1>12. \A n \in Nat : p[n] = IF n = 0 THEN 1 ELSE 2 * p[n - 1]
  BY <1>9
<1>13. p[0] = 1
  BY <1>12
<1>14. \A n \in Nat : p[n + 1] = 2 * p[n]
  <2>1. ASSUME NEW n \in Nat
        PROVE  p[n + 1] = 2 * p[n]
    <3>1. n + 1 \in Nat /\ n + 1 # 0 /\ (n + 1) - 1 = n
      OBVIOUS
    <3> QED
      BY <1>12, <3>1
  <2> QED
    BY <2>1
<1> DEFINE U == {n \in Nat : p[n] = h[n]}
<1>15. 0 \in U
  BY <1>2, <1>13
<1>16. ASSUME NEW n \in Nat, n \in U
       PROVE  n + 1 \in U
  BY <1>7, <1>14, <1>16
<1>17. Nat \subseteq U
  <2> HIDE DEF U
  <2> QED
    BY <1>15, <1>16, AllNumbers
<1>18. \A n \in Nat : p[n] \in Nat /\ p[n] > 0
  BY <1>7, <1>17
<1> QED
  BY <1>11, <1>13, <1>14, <1>18

LEMMA PowGrows ==
  ASSUME NEW m \in Nat, NEW n \in Nat
  PROVE  /\ m <= n => Pow2[m] <= Pow2[n]
         /\ m < n => Pow2[m] < Pow2[n]
<1> DEFINE T == {d \in Nat : /\ Pow2[m] <= Pow2[m + d]
                             /\ d > 0 => Pow2[m] < Pow2[m + d]}
<1>1. 0 \in T
  BY PowIs
<1>2. ASSUME NEW d \in Nat, d \in T
      PROVE  d + 1 \in T
  <2>1. m + (d + 1) = (m + d) + 1 /\ m + d \in Nat
    OBVIOUS
  <2>2. Pow2[m + (d + 1)] = 2 * Pow2[m + d] /\ Pow2[m + d] \in Nat /\ Pow2[m + d] > 0 /\ Pow2[m] \in Nat
    BY <2>1, PowIs
  <2>3. Pow2[m] <= Pow2[m + d]
    BY <1>2
  <2>4. Pow2[m] < Pow2[m + (d + 1)]
    BY <2>2, <2>3
  <2> QED
    BY <2>2, <2>4
<1>3. Nat \subseteq T
  <2> HIDE DEF T
  <2> QED
    BY <1>1, <1>2, AllNumbers
<1>4. ASSUME m <= n
      PROVE  Pow2[m] <= Pow2[n] /\ (m < n => Pow2[m] < Pow2[n])
  <2>1. n - m \in Nat /\ m + (n - m) = n /\ (m < n => n - m > 0)
    BY <1>4
  <2>2. n - m \in T
    BY <1>3, <2>1
  <2>3. Pow2[m] <= Pow2[m + (n - m)] /\ (n - m > 0 => Pow2[m] < Pow2[m + (n - m)])
    BY <2>2
  <2> QED
    BY <2>1, <2>3
<1> QED
  BY <1>4

LEMMA PowDoubles ==
  \A n \in Nat : Pow2[n + n] = Pow2[n] * Pow2[n]
<1> DEFINE T == {n \in Nat : Pow2[n + n] = Pow2[n] * Pow2[n]}
<1>1. 0 \in T
  BY PowIs
<1>2. ASSUME NEW n \in Nat, n \in T
      PROVE  n + 1 \in T
  <2>1. (n + 1) + (n + 1) = ((n + n) + 1) + 1 /\ n + n \in Nat /\ (n + n) + 1 \in Nat
    OBVIOUS
  <2>2. Pow2[((n + n) + 1) + 1] = 2 * Pow2[(n + n) + 1] /\ Pow2[(n + n) + 1] = 2 * Pow2[n + n]
    BY <2>1, PowIs
  <2>3. Pow2[n + 1] = 2 * Pow2[n] /\ Pow2[n] \in Nat
    BY PowIs
  <2>4. Pow2[n + n] = Pow2[n] * Pow2[n]
    BY <1>2
  <2>5. \A a \in Nat : 2 * (2 * (a * a)) = (2 * a) * (2 * a)
    OBVIOUS
  <2>6. Pow2[(n + 1) + (n + 1)] = 2 * (2 * (Pow2[n] * Pow2[n]))
    BY <2>1, <2>2, <2>4
  <2>7. Pow2[n + 1] * Pow2[n + 1] = (2 * Pow2[n]) * (2 * Pow2[n])
    BY <2>3
  <2>8. Pow2[(n + 1) + (n + 1)] = Pow2[n + 1] * Pow2[n + 1]
    BY <2>3, <2>5, <2>6, <2>7
  <2> QED
    BY <2>8
<1>3. Nat \subseteq T
  <2> HIDE DEF T
  <2> QED
    BY <1>1, <1>2, AllNumbers
<1> QED
  BY <1>3

LEMMA Blacks ==
  ASSUME NEW t, NEW N, NEW D, NEW R, NEW B, Balanced(t, N, D, R, B), NEW n \in N, NEW s \in Side
  PROVE  /\ B[n] \in Nat /\ Height(B, t.child[s][n]) \in Nat /\ Ink(t, n) \in {0, 1}
         /\ B[n] = Height(B, t.child[s][n]) + Ink(t, n)
<1>1. Sorted(t, N, D, R) /\ Even(t, N, B, NULL, "left")
  BY BalancedParts
<1>2. NULL \notin N /\ t.child[s][n] \in N \cup {NULL}
  BY <1>1, SortedParts
<1>3. Missing(n, s, NULL, "left") = 0
  BY <1>2 DEF Missing
<1>4. Ink(t, n) \in {0, 1}
  BY DEF Ink
<1>5. B[n] \in Nat /\ B[n] = Height(B, t.child[s][n]) + Ink(t, n) + 0
  BY <1>1, <1>3 DEF Even
<1>6. Height(B, t.child[s][n]) \in Nat
  BY <1>1, <1>2 DEF Height, Even
<1> QED
  BY <1>4, <1>5, <1>6

LEMMA SubtreeSize ==
  ASSUME NEW t, NEW N, NEW D, NEW R, Sorted(t, N, D, R), NEW n \in N,
         NEW a, a = Below(D, t.child["left"][n]), NEW b, b = Below(D, t.child["right"][n])
  PROVE  /\ IsFiniteSet(D[n]) /\ IsFiniteSet(a) /\ IsFiniteSet(b)
         /\ Cardinality(a) \in Nat /\ Cardinality(b) \in Nat
         /\ Cardinality(D[n]) = Cardinality(a) + Cardinality(b) + 1
<1>1. /\ N \subseteq Key /\ D[n] \subseteq N /\ n \in D[n]
      /\ \A m \in N : R[m] \in Int
  BY SortedParts
<1>2. a = Part(D[n], R, n, "left") /\ b = Part(D[n], R, n, "right")
  BY Sides DEF Sorted
<1>3. \A m \in D[n] : m = n \/ R[m] # R[n]
  BY <1>1 DEF Sorted, Ranked
<1>4. D[n] = (a \cup b) \cup {n}
  BY <1>1, <1>2, <1>3, Sides DEF Part
<1>5. a \cap b = {} /\ n \notin a \cup b /\ a \subseteq D[n] /\ b \subseteq D[n]
  BY <1>1, <1>2, Sides DEF Part
<1>6. IsFiniteSet(Key) /\ D[n] \in SUBSET Key
  BY <1>1, KeyAssumption
<1>7. IsFiniteSet(D[n])
  BY <1>6, FS_Subset
<1>8. IsFiniteSet(a) /\ IsFiniteSet(b)
  BY <1>5, <1>7, FS_Subset
<1>9. Cardinality(a) \in Nat /\ Cardinality(b) \in Nat
  BY <1>8, FS_CardinalityType
<1>10. IsFiniteSet(a \cup b) /\ Cardinality(a \cup b) = Cardinality(a) + Cardinality(b) - Cardinality(a \cap b)
  BY <1>8, FS_Union
<1>11. Cardinality(a \cap b) = 0
  BY <1>5, FS_EmptySet
<1> DEFINE c == a \cup b
<1>12. IsFiniteSet(c) /\ Cardinality(c) = Cardinality(a) + Cardinality(b) /\ n \notin c
  BY <1>5, <1>9, <1>10, <1>11
<1>13. D[n] = c \cup {n}
  BY <1>4
<1> HIDE DEF c
<1>14. Cardinality(c \cup {n}) = Cardinality(c) + 1
  BY <1>12, FS_AddElement
<1> QED
  BY <1>7, <1>8, <1>9, <1>12, <1>13, <1>14

(* As many black nodes below each other need a subtree of that size.       *)
LEMMA Populous ==
  ASSUME NEW t, NEW N, NEW D, NEW R, NEW B, Balanced(t, N, D, R, B)
  PROVE  \A n \in N : Pow2[B[n]] <= Cardinality(D[n]) + 1
<1> DEFINE T == {c \in Nat : \A n \in N : Cardinality(D[n]) <= c => Pow2[B[n]] <= Cardinality(D[n]) + 1}
<1>0. Sorted(t, N, D, R)
  BY BalancedParts
<1>1. \A n \in N : /\ IsFiniteSet(D[n]) /\ Cardinality(D[n]) \in Nat /\ Cardinality(D[n]) > 0
                   /\ B[n] \in Nat
  <2>1. ASSUME NEW n \in N
        PROVE  /\ IsFiniteSet(D[n]) /\ Cardinality(D[n]) \in Nat /\ Cardinality(D[n]) > 0
               /\ B[n] \in Nat
    <3> DEFINE a == Below(D, t.child["left"][n])
               b == Below(D, t.child["right"][n])
    <3>1. a = Below(D, t.child["left"][n]) /\ b = Below(D, t.child["right"][n])
      OBVIOUS
    <3> HIDE DEF a, b
    <3>2. /\ IsFiniteSet(D[n])
          /\ Cardinality(a) \in Nat /\ Cardinality(b) \in Nat
          /\ Cardinality(D[n]) = Cardinality(a) + Cardinality(b) + 1
      BY <1>0, <3>1, SubtreeSize
    <3>3. B[n] \in Nat
      BY Blacks, Sides
    <3> QED
      BY <3>2, <3>3
  <2> QED
    BY <2>1
<1>2. 0 \in T
  BY <1>1
<1>3. ASSUME NEW c \in Nat, c \in T
      PROVE  c + 1 \in T
  <2>1. SUFFICES ASSUME NEW n \in N, Cardinality(D[n]) <= c + 1
                 PROVE  Pow2[B[n]] <= Cardinality(D[n]) + 1
    OBVIOUS
  <2> DEFINE x == t.child["left"][n]
             y == t.child["right"][n]
             a == Below(D, x)
             b == Below(D, y)
             h == Height(B, x)
  <2>2. a = Below(D, t.child["left"][n]) /\ b = Below(D, t.child["right"][n])
    OBVIOUS
  <2>3. /\ B[n] \in Nat /\ h \in Nat /\ Ink(t, n) \in {0, 1}
        /\ B[n] = h + Ink(t, n) /\ Height(B, y) \in Nat /\ B[n] = Height(B, y) + Ink(t, n)
    BY Blacks, Sides
  <2>4. h = Height(B, y)
    BY <2>3
  <2>5. x \in N \cup {NULL} /\ y \in N \cup {NULL}
    BY <1>0, SortedParts, Sides
  <2>12. /\ x # NULL => a = D[x] /\ h = B[x]
         /\ x = NULL => a = {} /\ h = 0
         /\ y # NULL => b = D[y] /\ Height(B, y) = B[y]
         /\ y = NULL => b = {} /\ Height(B, y) = 0
    BY DEF Below, Height
  <2> HIDE DEF a, b, T, x, y, h
  <2>6. /\ Cardinality(a) \in Nat /\ Cardinality(b) \in Nat
        /\ Cardinality(D[n]) = Cardinality(a) + Cardinality(b) + 1
    BY <1>0, <2>2, SubtreeSize
  <2>13. \A m \in N : Cardinality(D[m]) <= c => Pow2[B[m]] <= Cardinality(D[m]) + 1
    BY <1>3 DEF T
  <2>7. Pow2[h] <= Cardinality(a) + 1
    <3>1. CASE x = NULL
      <4>1. Cardinality(a) = 0 /\ h = 0
        BY <2>12, <3>1, FS_EmptySet
      <4> QED
        BY <4>1, PowIs
    <3>2. CASE x # NULL
      <4>1. x \in N /\ a = D[x] /\ h = B[x] /\ Cardinality(a) <= c
        BY <2>1, <2>5, <2>6, <2>12, <3>2
      <4> QED
        BY <2>13, <4>1
    <3> QED
      BY <3>1, <3>2
  <2>8. Pow2[h] <= Cardinality(b) + 1
    <3>1. CASE y = NULL
      <4>1. Cardinality(b) = 0 /\ h = 0
        BY <2>4, <2>12, <3>1, FS_EmptySet
      <4> QED
        BY <4>1, PowIs
    <3>2. CASE y # NULL
      <4>1. y \in N /\ b = D[y] /\ h = B[y] /\ Cardinality(b) <= c
        BY <2>1, <2>4, <2>5, <2>6, <2>12, <3>2
      <4> QED
        BY <2>13, <4>1
    <3> QED
      BY <3>1, <3>2
  <2>9. Pow2[B[n]] <= 2 * Pow2[h]
    <3>1. Pow2[h + 1] = 2 * Pow2[h] /\ Pow2[h] \in Nat
      BY <2>3, PowIs
    <3>2. B[n] = h \/ B[n] = h + 1
      BY <2>3
    <3> QED
      BY <3>1, <3>2
  <2>10. Pow2[h] \in Nat /\ Pow2[B[n]] \in Nat
    BY <2>3, PowIs
  <2> QED
    BY <2>6, <2>7, <2>8, <2>9, <2>10
<1>4. Nat \subseteq T
  <2> HIDE DEF T
  <2> QED
    BY <1>2, <1>3, AllNumbers
<1>5. ASSUME NEW n \in N
      PROVE  Pow2[B[n]] <= Cardinality(D[n]) + 1
  <2>1. Cardinality(D[n]) \in T /\ Cardinality(D[n]) <= Cardinality(D[n])
    BY <1>1, <1>4
  <2> QED
    BY <2>1
<1> QED
  BY <1>5

(* No way down is longer than twice the number of black nodes on it.       *)
LEMMA WayDepth ==
  ASSUME NEW t, NEW N, NEW D, NEW B, Balanced(t, N, D, Rank, B), NEW k \in Key,
         NEW p, Way(t, N, D, k, p)
  PROVE  /\ Len(p) \in Nat /\ Height(B, t.root) \in Nat
         /\ Len(p) <= Height(B, t.root) + Height(B, t.root)
<1>0. Sorted(t, N, D, Rank) /\ RedApart(t, N, NULL) /\ t.root \notin t.red
  BY BalancedParts
<1>1. N \subseteq Key /\ NULL \notin N /\ t.root \in N \cup {NULL} /\ t.red \subseteq N
  <2>1. N \subseteq Key /\ NULL \notin N /\ t.red \subseteq N
    BY <1>0, SortedParts
  <2>2. t.root \in N \cup {NULL}
    BY <1>0 DEF Sorted
  <2> QED
    BY <2>1, <2>2
<1>2. /\ Len(p) \in Nat /\ \A i \in 1 .. Len(p) : p[i] \in N
      /\ p # <<>> => p[1] = t.root /\ Len(p) > 0
  BY WayParts
<1>3. \A i \in 1 .. Len(p) - 1 : p[i + 1] = t.child[Turn(k, p[i])][p[i]]
  BY DEF Way
<1>4. \A n \in N : B[n] \in Nat /\ Ink(t, n) \in {0, 1}
  BY Blacks, Sides
<1>5. Height(B, t.root) \in Nat
  BY <1>1, <1>4 DEF Height
<1>6. CASE p = <<>>
  <2>1. Len(p) = 0
    BY <1>6
  <2> QED
    BY <1>5, <2>1
<1>7. CASE p # <<>>
  <2> DEFINE H == B[t.root]
             T == {i \in Nat : i + 1 <= Len(p) =>
                     (i + 1) + (B[p[i + 1]] + B[p[i + 1]]) - Ink(t, p[i + 1]) <= H + H}
  <2>1. p[1] = t.root /\ Len(p) > 0 /\ p[1] \in N /\ H \in Nat /\ H = Height(B, t.root)
    <3>1. p[1] = t.root /\ Len(p) > 0 /\ p[1] \in N
      BY <1>2, <1>7
    <3> QED
      BY <1>1, <1>4, <3>1 DEF Height
  <2>2. 0 \in T
    <3>1. Ink(t, t.root) = 1
      BY <1>0 DEF Ink
    <3> QED
      BY <2>1, <3>1
  <2>3. ASSUME NEW i \in Nat, i \in T
        PROVE  i + 1 \in T
    <3>1. SUFFICES ASSUME (i + 1) + 1 <= Len(p)
                   PROVE  ((i + 1) + 1) + (B[p[(i + 1) + 1]] + B[p[(i + 1) + 1]]) - Ink(t, p[(i + 1) + 1]) <= H + H
      OBVIOUS
    <3> DEFINE n == p[i + 1]
               m == p[(i + 1) + 1]
    <3>2. i + 1 \in 1 .. Len(p) - 1 /\ i + 1 \in 1 .. Len(p) /\ (i + 1) + 1 \in 1 .. Len(p) /\ i + 1 <= Len(p)
      BY <1>2, <3>1
    <3>3. n \in N /\ m \in N /\ m = t.child[Turn(k, n)][n]
      BY <1>2, <1>3, <3>2
    <3>4. (i + 1) + (B[n] + B[n]) - Ink(t, n) <= H + H
      BY <2>3, <3>2
    <3> HIDE DEF n, m, T, H
    <3>5. Turn(k, n) \in Side
      BY <1>1, <3>3, TurnIs
    <3>6. B[n] = Height(B, m) + Ink(t, n) /\ Height(B, m) = B[m]
      BY <1>1, <3>3, <3>5, Blacks DEF Height
    <3>7. ~ (Ink(t, n) = 0 /\ Ink(t, m) = 0)
      <4>1. SUFFICES ASSUME n \in t.red, m \in t.red PROVE FALSE
        BY DEF Ink
      <4>2. m = NULL
        BY <1>0, <3>3, <3>5, <4>1 DEF RedApart
      <4> QED
        BY <1>1, <3>3, <4>2
    <3>8. B[n] \in Nat /\ B[m] \in Nat /\ Ink(t, n) \in {0, 1} /\ Ink(t, m) \in {0, 1}
      BY <1>4, <3>3
    <3>9. ((i + 1) + 1) + (B[m] + B[m]) - Ink(t, m) <= H + H
      <4>1. B[n] = B[m] + Ink(t, n)
        BY <3>6
      <4>2. \A b, c, x, y, h \in Nat :
              /\ b = c + x /\ x \in {0, 1} /\ y \in {0, 1} /\ ~ (x = 0 /\ y = 0)
              /\ (i + 1) + (b + b) - x <= h + h
              => ((i + 1) + 1) + (c + c) - y <= h + h
        OBVIOUS
      <4>3. Ink(t, n) \in Nat /\ Ink(t, m) \in Nat
        BY <3>8
      <4> QED
        BY <2>1, <3>4, <3>7, <3>8, <4>1, <4>2, <4>3
    <3> QED
      BY <3>9 DEF m
  <2>4. Nat \subseteq T
    <3> HIDE DEF T
    <3> QED
      BY <2>2, <2>3, AllNumbers
  <2> DEFINE z == p[Len(p)]
  <2>5. Len(p) - 1 \in Nat /\ (Len(p) - 1) + 1 = Len(p) /\ Len(p) <= Len(p) /\ Len(p) \in 1 .. Len(p)
    BY <1>2, <2>1
  <2>6. Len(p) - 1 \in T
    BY <2>4, <2>5
  <2>7. Len(p) + (B[z] + B[z]) - Ink(t, z) <= H + H
    BY <2>5, <2>6
  <2>8. z \in N
    BY <1>2, <2>5
  <2> HIDE DEF z, T, H
  <2>9. B[z] \in Nat /\ Ink(t, z) \in {0, 1} /\ (Ink(t, z) = 1 => B[z] > 0)
    <3>1. B[z] \in Nat /\ Height(B, t.child["left"][z]) \in Nat /\ Ink(t, z) \in {0, 1}
          /\ B[z] = Height(B, t.child["left"][z]) + Ink(t, z)
      BY <2>8, Blacks, Sides
    <3> QED
      BY <3>1
  <2>10. Len(p) <= H + H
    BY <1>2, <2>1, <2>7, <2>9
  <2> QED
    BY <1>2, <1>5, <2>1, <2>10
<1> QED
  BY <1>6, <1>7
-----------------------------------------------------------------------------
(* What a balanced tree and a linked list give *)

LEMMA TreeFacts ==
  ASSUME NEW t, NEW N, TreeIs(t, N)
  PROVE  /\ t \in Trees /\ N \subseteq Key /\ NULL \notin N /\ IsFiniteSet(N)
         /\ t.root \in N \cup {NULL} /\ t.red \subseteq N
         /\ \A n \in N, s \in Side : t.child[s][n] \in N \cup {NULL}
         /\ \A k \in Key \ N, s \in Side : t.child[s][k] = NULL
         /\ \A m, n \in N : Rank[m] = Rank[n] => m = n
         /\ \A n \in N : Rank[n] \in Int
<1>1. PICK D, B : Balanced(t, N, D, Rank, B)
  BY DEF TreeIs
<1>2. Sorted(t, N, D, Rank) /\ Bare(t, N)
  BY <1>1, BalancedParts
<1>3. /\ t \in Trees /\ N \subseteq Key /\ NULL \notin N /\ t.red \subseteq N
      /\ \A n \in N, s \in Side : t.child[s][n] \in N \cup {NULL}
      /\ \A n \in N : Rank[n] \in Int
  BY <1>2, SortedParts
<1>4. t.root \in N \cup {NULL} /\ \A m, n \in N : Rank[m] = Rank[n] => m = n
  BY <1>2 DEF Sorted, Ranked
<1>5. IsFiniteSet(N)
  BY <1>3, KeyAssumption, FS_Subset
<1> QED
  BY <1>2, <1>3, <1>4, <1>5 DEF Bare

LEMMA FewerNodes ==
  ASSUME NEW N, N \subseteq Key
  PROVE  /\ IsFiniteSet(N) /\ Cardinality(N) \in Nat /\ MaxRounds \in Nat
         /\ Cardinality(N) <= MaxRounds
<1>1. IsFiniteSet(Key) /\ N \in SUBSET Key
  BY KeyAssumption
<1>2. IsFiniteSet(N) /\ Cardinality(N) <= Cardinality(Key)
  BY <1>1, FS_Subset
<1> QED
  BY <1>1, <1>2, FS_CardinalityType DEF MaxRounds

LEMMA HeightsExist ==
  ASSUME NEW t, NEW N, NEW D, NEW B, Balanced(t, N, D, Rank, B)
  PROVE  \E f : Heights(t, f)
<1> DEFINE f == [n \in Node |-> IF n = NULL THEN {1} ELSE IF n \in N THEN {B[n] + 1} ELSE {2}]
           Sum(n) == {h + (IF n \in t.red THEN 0 ELSE 1) : h \in f[t.child["left"][n]] \cup f[t.child["right"][n]]}
<1>0. Sorted(t, N, D, Rank) /\ Bare(t, N)
  BY BalancedParts
<1>1. N \subseteq Key /\ NULL \notin N /\ NULL \notin Key /\ t.red \subseteq N
  BY <1>0, SortedParts, NullIsNoKey
<1>2. /\ f[NULL] = {1}
      /\ \A n \in N : f[n] = {B[n] + 1}
      /\ \A n \in Key \ N : f[n] = {2}
  BY <1>1 DEF Node
<1>6. f = [n \in Node |-> f[n]]
  OBVIOUS
<1> HIDE DEF f
<1>3. ASSUME NEW n \in N, NEW s \in Side
      PROVE  f[t.child[s][n]] = {Height(B, t.child[s][n]) + 1}
  <2>1. t.child[s][n] \in N \cup {NULL}
    BY <1>0, SortedParts
  <2> QED
    BY <1>1, <1>2, <2>1 DEF Height
<1>4. ASSUME NEW n \in N
      PROVE  f[n] = Sum(n)
  <2> DEFINE x == Height(B, t.child["left"][n])
  <2>1. /\ x \in Nat /\ B[n] = x + Ink(t, n) /\ Height(B, t.child["right"][n]) \in Nat
        /\ B[n] = Height(B, t.child["right"][n]) + Ink(t, n) /\ Ink(t, n) \in {0, 1}
    BY Blacks, Sides
  <2>2. Height(B, t.child["right"][n]) = x
    BY <2>1
  <2>3. f[t.child["left"][n]] \cup f[t.child["right"][n]] = {x + 1}
    BY <1>3, <2>2, Sides
  <2> HIDE DEF x
  <2>4. Sum(n) = {(x + 1) + Ink(t, n)}
    BY <2>3 DEF Ink
  <2>5. (x + 1) + Ink(t, n) = B[n] + 1
    BY <2>1
  <2> QED
    BY <1>2, <2>4, <2>5
<1>5. ASSUME NEW n \in Key \ N
      PROVE  f[n] = Sum(n)
  <2>1. t.child["left"][n] = NULL /\ t.child["right"][n] = NULL /\ n \notin t.red
    BY <1>0, <1>1, Sides DEF Bare
  <2>2. f[t.child["left"][n]] \cup f[t.child["right"][n]] = {1}
    BY <1>2, <2>1
  <2>3. Sum(n) = {1 + 1}
    BY <2>1, <2>2
  <2> QED
    BY <1>2, <2>3
<1> HIDE DEF Sum
<1>7. \A n \in Node : f[n] = IF n = NULL THEN {1} ELSE Sum(n)
  <2>1. ASSUME NEW n \in Node
        PROVE  f[n] = IF n = NULL THEN {1} ELSE Sum(n)
    <3>1. CASE n = NULL
      BY <1>2, <3>1
    <3>2. CASE n \in N
      BY <1>1, <1>4, <3>2
    <3>3. CASE n \in Key \ N
      BY <1>1, <1>5, <3>3
    <3> QED
      BY <2>1, <3>1, <3>2, <3>3 DEF Node
  <2> QED
    BY <2>1
<1>8. [n \in Node |-> f[n]] = [n \in Node |-> IF n = NULL THEN {1} ELSE Sum(n)]
  BY <1>7, Zenon
<1>9. Heights(t, f)
  BY <1>6, <1>8, Zenon DEF Heights, Sum
<1> QED
  BY <1>9

LEMMA HeightsAre ==
  ASSUME NEW t, NEW N, NEW D, NEW B, Balanced(t, N, D, Rank, B), NEW f, Heights(t, f)
  PROVE  \A n \in N : f[n] = {B[n] + 1}
<1> DEFINE T == {c \in Nat : \A n \in N : Cardinality(D[n]) <= c => f[n] = {B[n] + 1}}
<1>0. Sorted(t, N, D, Rank)
  BY BalancedParts
<1>1. N \subseteq Key /\ NULL \notin N /\ NULL \notin Key
  BY <1>0, SortedParts, NullIsNoKey
<1>2. f[NULL] = {1}
  BY DEF Heights, Node
<1>3. \A n \in N : f[n] = {h + (IF n \in t.red THEN 0 ELSE 1) : h \in f[t.child["left"][n]] \cup f[t.child["right"][n]]}
  BY <1>1 DEF Heights, Node
<1>4. \A n \in N : Cardinality(D[n]) \in Nat /\ Cardinality(D[n]) > 0
  <2>1. ASSUME NEW n \in N
        PROVE  Cardinality(D[n]) \in Nat /\ Cardinality(D[n]) > 0
    <3> DEFINE a == Below(D, t.child["left"][n])
               b == Below(D, t.child["right"][n])
    <3>1. a = Below(D, t.child["left"][n]) /\ b = Below(D, t.child["right"][n])
      OBVIOUS
    <3> HIDE DEF a, b
    <3>2. /\ Cardinality(a) \in Nat /\ Cardinality(b) \in Nat
          /\ Cardinality(D[n]) = Cardinality(a) + Cardinality(b) + 1
      BY <1>0, <3>1, SubtreeSize
    <3> QED
      BY <3>2
  <2> QED
    BY <2>1
<1>5. 0 \in T
  BY <1>4
<1>6. ASSUME NEW c \in Nat, c \in T
      PROVE  c + 1 \in T
  <2>1. SUFFICES ASSUME NEW n \in N, Cardinality(D[n]) <= c + 1
                 PROVE  f[n] = {B[n] + 1}
    OBVIOUS
  <2>2. \A m \in N : Cardinality(D[m]) <= c => f[m] = {B[m] + 1}
    BY <1>6
  <2> HIDE DEF T
  <2>3. ASSUME NEW s \in Side
        PROVE  f[t.child[s][n]] = {Height(B, t.child[s][n]) + 1}
    <3>1. CASE t.child[s][n] = NULL
      BY <1>2, <3>1 DEF Height
    <3>2. CASE t.child[s][n] # NULL
      <4> DEFINE m == t.child[s][n]
      <4>1. m \in N
        BY <1>0, <3>2, SortedParts
      <4>2. /\ Cardinality(D[m]) + 1 <= Cardinality(D[n])
            /\ Cardinality(D[m]) \in Nat /\ Cardinality(D[n]) \in Nat
        BY <1>0, <3>2, SmallerBelow
      <4>3. Cardinality(D[m]) <= c
        BY <2>1, <4>2
      <4> QED
        BY <2>2, <3>2, <4>1, <4>3 DEF Height
    <3> QED
      BY <3>1, <3>2
  <2> DEFINE x == Height(B, t.child["left"][n])
  <2>4. /\ x \in Nat /\ B[n] = x + Ink(t, n) /\ Height(B, t.child["right"][n]) \in Nat
        /\ B[n] = Height(B, t.child["right"][n]) + Ink(t, n) /\ Ink(t, n) \in {0, 1}
    BY Blacks, Sides
  <2>5. Height(B, t.child["right"][n]) = x
    BY <2>4
  <2>6. f[t.child["left"][n]] \cup f[t.child["right"][n]] = {x + 1}
    BY <2>3, <2>5, Sides
  <2> HIDE DEF x
  <2>7. f[n] = {(x + 1) + Ink(t, n)}
    BY <1>3, <2>6 DEF Ink
  <2>8. (x + 1) + Ink(t, n) = B[n] + 1
    BY <2>4
  <2> QED
    BY <2>7, <2>8
<1>7. Nat \subseteq T
  <2> HIDE DEF T
  <2> QED
    BY <1>5, <1>6, AllNumbers
<1>8. ASSUME NEW n \in N
      PROVE  f[n] = {B[n] + 1}
  <2>1. Cardinality(D[n]) \in T /\ Cardinality(D[n]) <= Cardinality(D[n])
    BY <1>4, <1>7
  <2> QED
    BY <2>1
<1> QED
  BY <1>8

LEMMA TreeRedBlack ==
  ASSUME TreeIs(tree, nodes)
  PROVE  RedBlack
<1>1. PICK D, B : Balanced(tree, nodes, D, Rank, B)
  BY DEF TreeIs
<1>2. Sorted(tree, nodes, D, Rank) /\ RedApart(tree, nodes, NULL) /\ tree.root \notin tree.red
  BY <1>1, BalancedParts
<1>3. NULL \notin nodes /\ tree.red \subseteq nodes
  BY <1>2, SortedParts
<1>4. \A n \in tree.red, s \in Side : tree.child[s][n] \notin tree.red
  <2>1. ASSUME NEW n \in tree.red, NEW s \in Side, tree.child[s][n] \in tree.red
        PROVE  FALSE
    <3>1. tree.child[s][n] = NULL
      BY <1>2, <1>3, <2>1 DEF RedApart
    <3> QED
      BY <1>3, <2>1, <3>1
  <2> QED
    BY <2>1
<1> DEFINE height == CHOOSE f : f = [n \in Node |->
                       IF n = NULL THEN {1}
                       ELSE {h + (IF n \in tree.red THEN 0 ELSE 1) :
                               h \in f[tree.child["left"][n]] \cup f[tree.child["right"][n]]}]
<1>5. Heights(tree, height)
  <2>1. \E f : Heights(tree, f)
    BY <1>1, HeightsExist
  <2>2. \E f : f = [n \in Node |->
                       IF n = NULL THEN {1}
                       ELSE {h + (IF n \in tree.red THEN 0 ELSE 1) :
                               h \in f[tree.child["left"][n]] \cup f[tree.child["right"][n]]}]
    BY <2>1, Zenon DEF Heights
  <2>3. height = [n \in Node |->
                       IF n = NULL THEN {1}
                       ELSE {h + (IF n \in tree.red THEN 0 ELSE 1) :
                               h \in height[tree.child["left"][n]] \cup height[tree.child["right"][n]]}]
    BY <2>2, Zenon
  <2> QED
    BY <2>3, Zenon DEF Heights
<1>6. \A n \in nodes : height[n] = {B[n] + 1}
  <2> HIDE DEF height
  <2> QED
    BY <1>1, <1>5, HeightsAre
<1>7. \A n \in nodes : Cardinality(height[n]) = 1
  <2> HIDE DEF height
  <2> QED
    BY <1>6, FS_Singleton
<1> QED
  BY <1>2, <1>4, <1>7, Zenon DEF RedBlack

LEMMA TreeSearchable ==
  ASSUME TreeIs(tree, nodes)
  PROVE  Searchable
<1>1. PICK D, B : Balanced(tree, nodes, D, Rank, B)
  BY DEF TreeIs
<1>2. Sorted(tree, nodes, D, Rank)
  BY <1>1, BalancedParts
<1>3. \A m, n \in nodes : Rank[m] = Rank[n] => m = n
  BY TreeFacts
<1>4. ASSUME NEW k \in Key
      PROVE  value_dict_get_(k) = LET same == {n \in nodes : Rank[n] = Rank[k]}
                                  IN IF same = {} THEN NULL ELSE CHOOSE n \in same : TRUE
  <2> DEFINE p == PathTo(tree, k)
             same == {n \in nodes : Rank[n] = Rank[k]}
  <2>0. p = PathTo(tree, k)
    OBVIOUS
  <2>8. value_dict_get_(k) = IF Ends(p, k) THEN Last(p) ELSE NULL
    BY DEF value_dict_get_
  <2> HIDE DEF p
  <2>1. Way(tree, nodes, D, k, p)
    BY <1>2, <2>0, WayIs
  <2>2. Ends(p, k) <=> \E m \in nodes : Rank[m] = Rank[k]
    BY <2>1 DEF Way
  <2>3. CASE ~ Ends(p, k)
    BY <2>2, <2>3, <2>8
  <2>4. CASE Ends(p, k)
    <3>1. p # <<>> /\ Rank[Last(p)] = Rank[k]
      BY <2>4 DEF Ends
    <3>2. Last(p) \in nodes
      BY <2>1, <3>1, WayParts
    <3>3. Last(p) \in same
      BY <3>1, <3>2
    <3>4. \A n \in same : n = Last(p)
      BY <1>3, <3>1, <3>2
    <3> HIDE DEF same
    <3>5. (CHOOSE n \in same : TRUE) \in same
      BY <3>3
    <3>6. (CHOOSE n \in same : TRUE) = Last(p) /\ same # {}
      BY <3>3, <3>4, <3>5
    <3> QED
      BY <2>4, <2>8, <3>6 DEF same
  <2> QED
    BY <2>3, <2>4
<1> QED
  BY <1>4 DEF Searchable

(* A walk is the listing in the order of the keys.                         *)
LEMMA TreeWalk ==
  ASSUME NEW t, NEW N, TreeIs(t, N),
         NEW all, all = Walk(t, Cardinality(N)).keys
  PROVE  /\ Enumerates(all, N, Rank) /\ Len(all) = Cardinality(N)
         /\ \A n \in Nat : n <= Cardinality(N) => Walk(t, n).keys = SubSeq(all, 1, n)
         /\ \A n \in Nat : n >= Cardinality(N) => Walk(t, n).keys = all
<1>1. PICK D, B : Balanced(t, N, D, Rank, B)
  BY DEF TreeIs
<1>2. Sorted(t, N, D, Rank) /\ IsFiniteSet(N)
  BY <1>1, BalancedParts, TreeFacts
<1> QED
  BY <1>2, WalkIs

LEMMA TreeSortedWalk ==
  ASSUME TreeIs(tree, nodes)
  PROVE  SortedWalk
<1> DEFINE c == Cardinality(nodes)
           all == Walk(tree, c).keys
<1>0. all = Walk(tree, Cardinality(nodes)).keys
  OBVIOUS
<1>8. all = value_dict_keys_sorted(Cardinality(nodes))
  BY DEF value_dict_keys_sorted
<1> HIDE DEF all
<1>1. /\ Enumerates(all, nodes, Rank) /\ Len(all) = Cardinality(nodes)
      /\ \A n \in Nat : n <= Cardinality(nodes) => Walk(tree, n).keys = SubSeq(all, 1, n)
      /\ \A n \in Nat : n >= Cardinality(nodes) => Walk(tree, n).keys = all
  BY <1>0, TreeWalk
<1>2. c \in Nat /\ nodes \subseteq Key
  BY TreeFacts, FewerNodes
<1>3. /\ all \in Seq(nodes) /\ Len(all) = c /\ DOMAIN all = 1 .. c
      /\ \A i, j \in 1 .. c : i < j => Rank[all[i]] < Rank[all[j]]
      /\ \A m \in nodes : \E j \in 1 .. c : all[j] = m
      /\ \A j \in 1 .. c : all[j] \in nodes
  BY <1>1 DEF Enumerates, Ascending
<1>4. ToSet(all) = nodes
  BY <1>3 DEF ToSet
<1>5. ASSUME NEW room \in 0 .. c + 1
      PROVE  value_dict_keys_sorted(room) = SubSeq(all, 1, Min({room, Len(all)}))
  <2>1. value_dict_keys_sorted(room) = Walk(tree, room).keys
    BY DEF value_dict_keys_sorted
  <2>2. CASE room <= c
    <3> DEFINE low == Min({room, Len(all)})
    <3>1. \A y \in {room, Len(all)} : room <= y
      BY <1>2, <1>3, <2>2
    <3>2. low = CHOOSE x \in {room, Len(all)} : \A y \in {room, Len(all)} : x <= y
      BY DEF Min
    <3>3. low \in {room, Len(all)} /\ \A y \in {room, Len(all)} : low <= y
      BY <3>1, <3>2
    <3> HIDE DEF low
    <3>4. low = room
      BY <1>2, <1>3, <2>2, <3>3
    <3>5. Walk(tree, room).keys = SubSeq(all, 1, room)
      BY <1>1, <1>2, <2>2
    <3> QED
      BY <2>1, <3>4, <3>5 DEF low
  <2>3. CASE ~ (room <= c)
    <3> DEFINE low == Min({room, Len(all)})
    <3>1. \A y \in {room, Len(all)} : Len(all) <= y
      BY <1>2, <1>3, <2>3
    <3>2. low = CHOOSE x \in {room, Len(all)} : \A y \in {room, Len(all)} : x <= y
      BY DEF Min
    <3>3. low \in {room, Len(all)} /\ \A y \in {room, Len(all)} : low <= y
      BY <3>1, <3>2
    <3> HIDE DEF low
    <3>4. low = Len(all)
      BY <1>2, <1>3, <2>3, <3>3
    <3>5. Walk(tree, room).keys = all
      BY <1>1, <1>2, <2>3
    <3>6. SubSeq(all, 1, Len(all)) = all
      BY <1>3
    <3> QED
      BY <2>1, <3>4, <3>5, <3>6 DEF low
  <2> QED
    BY <2>2, <2>3
<1>6. \A m, n \in DOMAIN all : m < n => Rank[all[m]] < Rank[all[n]]
  BY <1>3
<1>7. \A room \in 0 .. c + 1 : value_dict_keys_sorted(room) = SubSeq(all, 1, Min({room, Len(all)}))
  BY <1>5
<1> QED
  BY <1>4, <1>6, <1>7, <1>8 DEF SortedWalk

LEMMA ListOrderLinked ==
  ASSUME nodes \subseteq Key, ordered => \E L : InOrder(order, nodes, L)
  PROVE  OrderLinked
<1>1. SUFFICES ASSUME ordered
               PROVE  /\ ToSet(value_dict_keys_ordered(MaxRounds)) = nodes
                      /\ Listed(order.tail, order.prev, MaxRounds) = Reverse(value_dict_keys_ordered(MaxRounds))
  BY DEF OrderLinked
<1>2. PICK L : InOrder(order, nodes, L)
  BY <1>1
<1>3. /\ L \in Seq(nodes)
      /\ \A i, j \in 1 .. Len(L) : L[i] = L[j] => i = j
      /\ \A m \in nodes : \E i \in 1 .. Len(L) : L[i] = m
  BY <1>2 DEF InOrder
<1>4. IsFiniteSet(nodes) /\ Cardinality(nodes) \in Nat /\ MaxRounds \in Nat /\ Cardinality(nodes) <= MaxRounds
  BY FewerNodes
<1>5. Len(L) \in Nat /\ Len(L) <= Cardinality(nodes)
  BY <1>3, <1>4, Distinct
<1>6. MaxRounds >= Len(L)
  BY <1>4, <1>5
<1>7. /\ value_dict_keys_ordered(MaxRounds) = L
      /\ Listed(order.tail, order.prev, MaxRounds) = Reverse(L)
  BY <1>2, <1>4, <1>6, OrderRead
<1>8. ToSet(L) = nodes
  BY <1>3 DEF ToSet
<1> QED
  BY <1>7, <1>8

LEMMA TreePathFits ==
  ASSUME TreeIs(tree, nodes), size = Cardinality(nodes), nodes \subseteq Uses(ordered), ordered \in BOOLEAN
  PROVE  PathFits
<1>1. PICK D, B : Balanced(tree, nodes, D, Rank, B)
  BY DEF TreeIs
<1> DEFINE H == Height(B, tree.root)
<1>2. Sorted(tree, nodes, D, Rank)
  BY <1>1, BalancedParts
<1>3. nodes \subseteq Key /\ IsFiniteSet(nodes) /\ Cardinality(nodes) \in Nat
  BY TreeFacts, FewerNodes
<1>4. Pow2[H] <= size + 1
  <2>1. CASE tree.root = NULL
    BY <1>3, <2>1, PowIs DEF Height
  <2>2. CASE tree.root # NULL
    <3>1. tree.root \in nodes /\ D[tree.root] = nodes
      BY <1>2, <2>2 DEF Sorted, Below
    <3>2. Pow2[B[tree.root]] <= Cardinality(D[tree.root]) + 1
      BY <1>1, <3>1, Populous
    <3> QED
      BY <2>2, <3>1, <3>2 DEF Height
  <2> QED
    BY <2>1, <2>2
<1>5. ASSUME NEW k \in Key, NEW depth, depth = Len(PathTo(tree, k))
      PROVE  /\ Pow2[depth] <= (size + 1) * (size + 1)
             /\ nodes # Uses(ordered) => depth + 1 <= RBTREE_MAX_HEIGHT
  <2>1. Way(tree, nodes, D, k, PathTo(tree, k))
    BY <1>2, WayIs
  <2>2. depth \in Nat /\ H \in Nat /\ depth <= H + H
    BY <1>1, <1>5, <2>1, WayDepth
  <2> HIDE DEF H
  <2>3. Pow2[depth] <= Pow2[H + H] /\ Pow2[H + H] = Pow2[H] * Pow2[H]
    BY <2>2, PowGrows, PowDoubles
  <2>4. Pow2[H] \in Nat /\ Pow2[depth] \in Nat /\ size \in Nat /\ size + 1 \in Nat
    BY <1>3, <2>2, PowIs
  <2>5. \A a, b \in Nat : a <= b => a * a <= b * b
    OBVIOUS
  <2>6. Pow2[H] * Pow2[H] <= (size + 1) * (size + 1)
    BY <1>4, <2>4, <2>5
  <2>11. \A a, b, c \in Nat : a <= b /\ b <= c => a <= c
    OBVIOUS
  <2>12. Pow2[H] * Pow2[H] \in Nat /\ (size + 1) * (size + 1) \in Nat
    BY <2>4
  <2>7. Pow2[depth] <= (size + 1) * (size + 1)
    BY <2>3, <2>4, <2>6, <2>11, <2>12
  <2>8. ASSUME nodes # Uses(ordered)
        PROVE  depth + 1 <= RBTREE_MAX_HEIGHT
    <3>1. Uses(ordered) \subseteq Key
      BY KeyAssumption
    <3>2. PICK x \in Uses(ordered) : x \notin nodes
      BY <2>8
    <3> DEFINE more == nodes \cup {x}
    <3>3. Cardinality(more) = size + 1
      BY <1>3, <3>2, FS_AddElement
    <3>4. more \subseteq Key
      BY <1>3, <3>1, <3>2
    <3> HIDE DEF more
    <3>5. Cardinality(more) <= Cardinality(Key) /\ Cardinality(Key) \in Nat
      BY <3>4, FewerNodes DEF MaxRounds
    <3>6. Bits \in Nat /\ Cardinality(Key) < Pow2[Bits]
      BY KeyAssumption
    <3>7. Pow2[H] < Pow2[Bits]
      <4>1. Pow2[Bits] \in Nat
        BY <3>6, PowIs
      <4> QED
        BY <1>4, <2>4, <3>3, <3>5, <3>6, <4>1
    <3>8. ~ (Bits <= H)
      <4>1. Bits <= H => Pow2[Bits] <= Pow2[H]
        BY <2>2, <3>6, PowGrows
      <4>2. Pow2[Bits] \in Nat
        BY <3>6, PowIs
      <4> QED
        BY <2>4, <3>7, <4>1, <4>2
    <3>9. H + 1 <= Bits
      BY <2>2, <3>6, <3>8
    <3> QED
      BY <2>2, <3>6, <3>9 DEF RBTREE_MAX_HEIGHT
  <2> QED
    BY <2>7, <2>8
<1> QED
  BY <1>5 DEF PathFits
-----------------------------------------------------------------------------
(* The inductive invariant *)

LEMMA SoundPrimed == Sound' <=> SoundIs(ordered', nodes', tree', order', size', fresh', reply')
BY DEF Sound

LEMMA UsesKeys == \A b \in BOOLEAN : Uses(b) \subseteq Key
BY KeyAssumption

LEMMA SearchFinds ==
  ASSUME NEW t, NEW N, TreeIs(t, N), NEW k \in Key
  PROVE  Found(t, N, k, PathTo(t, k))
<1>1. PICK D, B : Balanced(t, N, D, Rank, B)
  BY DEF TreeIs
<1>2. Sorted(t, N, D, Rank)
  BY <1>1, BalancedParts
<1> DEFINE p == PathTo(t, k)
<1>3. Way(t, N, D, k, p)
  BY <1>2, WayIs
<1> HIDE DEF p
<1>4. Ends(p, k) <=> \E m \in N : Rank[m] = Rank[k]
  BY <1>3 DEF Way
<1>5. Ends(p, k) => Last(p) \in N /\ Rank[Last(p)] = Rank[k]
  BY <1>3, WayParts DEF Ends
<1>6. Found(t, N, k, p)
  BY <1>4, <1>5 DEF Found
<1> QED
  BY <1>6 DEF p

LEMMA TreeAdds ==
  ASSUME NEW N, TreeIs(tree, N), NEW k \in Key, ~ Ends(PathTo(tree, k), k), NEW M, M = N \cup {k}
  PROVE  k \notin N /\ TreeIs(Inserted(k, PathTo(tree, k)), M)
<1>1. PICK D, B : Balanced(tree, N, D, Rank, B)
  BY DEF TreeIs
<1>2. k \notin N /\ \E E, A : Balanced(Inserted(k, PathTo(tree, k)), N \cup {k}, E, Rank, A)
  BY <1>1, InsertedBalanced
<1> QED
  BY <1>2 DEF TreeIs

LEMMA TreeRemoves ==
  ASSUME NEW N, TreeIs(tree, N), NEW k \in Key, NEW path, path = PathTo(tree, k), Ends(path, k),
         NEW M, M = N \ {Last(path)}
  PROVE  TreeIs(Removed(path), M)
<1>1. PICK D, B : Balanced(tree, N, D, Rank, B)
  BY DEF TreeIs
<1>2. Sorted(tree, N, D, Rank)
  BY <1>1, BalancedParts
<1>3. Way(tree, N, D, k, path)
  BY <1>2, WayIs
<1>4. path # <<>>
  BY DEF Ends
<1>5. IsPath(tree, N, path)
  BY <1>2, <1>3, <1>4, WayIsPath
<1>6. Last(path) \in N
  BY <1>3, <1>4, WayParts
<1>7. \E E, A : Balanced(Removed(path), N \ {Last(path)}, E, Rank, A)
  BY <1>1, <1>5, <1>6, RemovedBalanced
<1> QED
  BY <1>7 DEF TreeIs

LEMMA EmptyTreeIs == TreeIs(EmptyTree, {})
<1> DEFINE D == [n \in {} |-> {}]
           B == [n \in {} |-> 0]
<1>1. EmptyTree \in Trees /\ EmptyTree.root = NULL /\ EmptyTree.red = {}
      /\ \A k \in Key, s \in Side : EmptyTree.child[s][k] = NULL
  BY DEF EmptyTree, NoLinks, Trees, Node
<1>2. Sorted(EmptyTree, {}, D, Rank)
  BY <1>1, RankIs DEF Sorted, Ranked, Below
<1>3. Bare(EmptyTree, {}) /\ Even(EmptyTree, {}, B, NULL, "left") /\ RedApart(EmptyTree, {}, NULL)
  BY <1>1 DEF Bare, Even, RedApart
<1>4. Balanced(EmptyTree, {}, D, Rank, B)
  BY <1>1, <1>2, <1>3, BalancedParts
<1> QED
  BY <1>4 DEF TreeIs

LEMMA EmptyListIs == ListIs(EmptyOrder, {})
<1>1. /\ EmptyOrder.head = NULL /\ EmptyOrder.tail = NULL
      /\ EmptyOrder.next \in [Key -> Node] /\ EmptyOrder.prev \in [Key -> Node]
      /\ \A k \in Key : EmptyOrder.next[k] = NULL
  BY DEF EmptyOrder, NoLinks, Node
<1>2. <<>> \in Seq({}) /\ Len(<<>>) = 0
  BY EmptySeq
<1>3. InOrder(EmptyOrder, {}, <<>>)
  BY <1>1, <1>2 DEF InOrder
<1> QED
  BY <1>3 DEF ListIs

-----------------------------------------------------------------------------
(* Each action keeps it *)

LEMMA InitSound == Init => Sound
<1> SUFFICES ASSUME Init
             PROVE  Sound
  OBVIOUS
<1>1. /\ ordered \in BOOLEAN /\ nodes = {} /\ tree = EmptyTree /\ order = EmptyOrder /\ size = 0
      /\ fresh = {} /\ reply = NULL
  BY DEF Init
<1>2. Cardinality({}) = 0
  BY FS_EmptySet
<1>3. TreeIs(tree, nodes) /\ ListIs(order, nodes)
  BY <1>1, EmptyTreeIs, EmptyListIs
<1> QED
  BY <1>1, <1>2, <1>3 DEF Sound, SoundIs, Node

LEMMA KeptSound ==
  ASSUME Sound, UNCHANGED <<ordered, nodes, tree, order, size>>, fresh' \subseteq fresh,
         reply' \in Node \cup {0, -1}
  PROVE  Sound'
<1>1. SoundIs(ordered, nodes, tree, order, size, fresh, reply)
  BY DEF Sound
<1>2. SoundIs(ordered', nodes', tree', order', size', fresh', reply')
  BY <1>1 DEF SoundIs
<1> QED
  BY <1>2, SoundPrimed

LEMMA NewNodeSound ==
  ASSUME Sound, UNCHANGED ordered, NEW k \in Uses(ordered), ~ Ends(PathTo(tree, k), k),
         NewNode(k, PathTo(tree, k))
  PROVE  Sound'
<1>0. /\ ordered \in BOOLEAN /\ nodes \subseteq Uses(ordered) /\ TreeIs(tree, nodes)
      /\ ordered => ListIs(order, nodes)
      /\ size = Cardinality(nodes) /\ fresh \subseteq nodes
  BY DEF Sound, SoundIs
<1>1. k \in Key /\ nodes \subseteq Key
  BY <1>0, UsesKeys
<1> DEFINE M == nodes \cup {k}
<1>9. M = nodes \cup {k}
  OBVIOUS
<1>2. CASE /\ nodes' = M /\ tree' = Inserted(k, PathTo(tree, k))
           /\ order' = (IF ordered THEN OrderAppend(k) ELSE order)
           /\ size' = size + 1 /\ fresh' = fresh \cup {k} /\ reply' = k
  <2> HIDE DEF M
  <2>1. k \notin nodes /\ TreeIs(Inserted(k, PathTo(tree, k)), M)
    BY <1>0, <1>1, <1>9, TreeAdds
  <2>2. IsFiniteSet(nodes) /\ Cardinality(M) = Cardinality(nodes) + 1
    <3>1. IsFiniteSet(nodes)
      BY <1>1, FewerNodes
    <3> QED
      BY <1>9, <2>1, <3>1, FS_AddElement
  <2>3. ordered => ListIs(order', M)
    <3>1. SUFFICES ASSUME ordered
                   PROVE  ListIs(order', M)
      OBVIOUS
    <3>2. PICK L : InOrder(order, nodes, L)
      BY <1>0, <3>1 DEF ListIs
    <3>3. InOrder(OrderAppend(k), M, Put(L, Len(L), k))
      BY <1>1, <1>9, <2>1, <3>2, OrderAppended
    <3> QED
      BY <1>2, <3>1, <3>3 DEF ListIs
  <2>4. M \subseteq Uses(ordered) /\ fresh' \subseteq M /\ reply' \in Node
    BY <1>0, <1>1, <1>2, <1>9 DEF Node
  <2>5. SoundIs(ordered', nodes', tree', order', size', fresh', reply')
    BY <1>0, <1>2, <2>1, <2>2, <2>3, <2>4 DEF SoundIs
  <2> QED
    BY <2>5, SoundPrimed
<1>3. CASE reply' = NULL /\ UNCHANGED <<nodes, tree, order, size, fresh>>
  BY <1>3, KeptSound DEF Node
<1> QED
  BY <1>2, <1>3 DEF NewNode

LEMMA RemoveSound ==
  ASSUME Sound, UNCHANGED ordered, NEW k \in Uses(ordered), value_dict_remove_(k)
  PROVE  Sound'
<1>0. /\ ordered \in BOOLEAN /\ nodes \subseteq Uses(ordered) /\ TreeIs(tree, nodes)
      /\ ordered => ListIs(order, nodes)
      /\ size = Cardinality(nodes) /\ fresh \subseteq nodes
  BY DEF Sound, SoundIs
<1>1. k \in Key /\ nodes \subseteq Key
  BY <1>0, UsesKeys
<1> DEFINE path == PathTo(tree, k)
           node == Last(path)
           M == nodes \ {node}
<1>9. path = PathTo(tree, k) /\ node = Last(path) /\ M = nodes \ {node}
  OBVIOUS
<1>8. IF Ends(path, k)
      THEN /\ tree' = Removed(path)
           /\ order' = (IF ordered THEN OrderRemove(node) ELSE order)
           /\ nodes' = M
           /\ size' = size - 1
           /\ fresh' = fresh \ {node}
           /\ reply' = 0
      ELSE reply' = -1 /\ UNCHANGED <<nodes, tree, order, size, fresh>>
  BY DEF value_dict_remove_
<1> HIDE DEF path, node, M
<1>2. CASE Ends(path, k)
  <2>1. node \in nodes /\ Rank[node] = Rank[k]
    BY <1>0, <1>1, <1>2, <1>9, SearchFinds DEF Found
  <2>2. TreeIs(Removed(path), M)
    BY <1>0, <1>1, <1>2, <1>9, TreeRemoves
  <2>3. Cardinality(M) = Cardinality(nodes) - 1
    <3>1. IsFiniteSet(nodes)
      BY <1>1, FewerNodes
    <3> QED
      BY <1>9, <2>1, <3>1, FS_RemoveElement
  <2>4. ordered => ListIs(order', M)
    <3>1. SUFFICES ASSUME ordered
                   PROVE  ListIs(order', M)
      OBVIOUS
    <3>2. PICK L : InOrder(order, nodes, L)
      BY <1>0, <3>1 DEF ListIs
    <3>3. PICK n \in 1 .. Len(L) : L[n] = node
      BY <2>1, <3>2 DEF InOrder
    <3>4. InOrder(OrderRemove(node), M, Drop(L, n))
      BY <1>1, <1>9, <3>2, <3>3, OrderRemoved
    <3> QED
      BY <1>2, <1>8, <3>1, <3>4 DEF ListIs
  <2>5. M \subseteq Uses(ordered) /\ fresh' \subseteq M
    BY <1>0, <1>2, <1>8, <1>9
  <2>6. SoundIs(ordered', nodes', tree', order', size', fresh', reply')
    BY <1>0, <1>2, <1>8, <2>2, <2>3, <2>4, <2>5 DEF SoundIs
  <2> QED
    BY <2>6, SoundPrimed
<1>3. CASE ~ Ends(path, k)
  BY <1>3, <1>8, KeptSound
<1> QED
  BY <1>2, <1>3

LEMMA CleanSound ==
  ASSUME Sound, UNCHANGED ordered, value_dict_clean
  PROVE  Sound' /\ nodes' = {}
<1>0. /\ ordered \in BOOLEAN /\ nodes \subseteq Uses(ordered) /\ TreeIs(tree, nodes)
      /\ reply \in Node \cup {0, -1}
  BY DEF Sound, SoundIs
<1>1. nodes \subseteq Key
  BY <1>0, UsesKeys
<1> DEFINE all == Walk(tree, Cardinality(nodes)).keys
<1>2. all = Walk(tree, Cardinality(nodes)).keys
  OBVIOUS
<1> HIDE DEF all
<1>3. /\ Enumerates(all, nodes, Rank)
      /\ \A n \in Nat : n >= Cardinality(nodes) => Walk(tree, n).keys = all
  BY <1>0, <1>2, TreeWalk
<1>4. MaxRounds \in Nat /\ MaxRounds >= Cardinality(nodes)
  BY <1>1, FewerNodes
<1>5. value_dict_keys_sorted(MaxRounds) = all
  BY <1>3, <1>4 DEF value_dict_keys_sorted
<1>6. nodes' = {}
  <2>1. nodes' = nodes \ {all[n] : n \in DOMAIN all}
    BY <1>5 DEF value_dict_clean
  <2>2. all \in Seq(nodes) /\ \A m \in nodes : \E j \in 1 .. Len(all) : all[j] = m
    BY <1>3 DEF Enumerates
  <2>3. \A m \in nodes : m \in {all[n] : n \in DOMAIN all}
    BY <2>2
  <2> QED
    BY <2>1, <2>3
<1>7. tree' = EmptyTree /\ order' = EmptyOrder /\ size' = 0 /\ fresh' = {} /\ reply' = reply
  BY DEF value_dict_clean
<1>8. Cardinality({}) = 0
  BY FS_EmptySet
<1>9. TreeIs(tree', nodes') /\ ListIs(order', nodes')
  BY <1>6, <1>7, EmptyTreeIs, EmptyListIs
<1>10. SoundIs(ordered', nodes', tree', order', size', fresh', reply')
  BY <1>0, <1>6, <1>7, <1>8, <1>9 DEF SoundIs
<1> QED
  BY <1>6, <1>10, SoundPrimed

LEMMA StepSound ==
  ASSUME Sound, [Next]_vars
  PROVE  Sound'
<1>0. ordered \in BOOLEAN /\ nodes \subseteq Uses(ordered) /\ TreeIs(tree, nodes) /\ reply \in Node \cup {0, -1}
      /\ fresh \subseteq nodes
  BY DEF Sound, SoundIs
<1>1. nodes \subseteq Key
  BY <1>0, UsesKeys
<1>2. ASSUME UNCHANGED ordered, NEW k \in Uses(ordered), value_dict_get_or_add_(k)
      PROVE  Sound'
  <2>1. k \in Key
    BY <1>0, UsesKeys
  <2>2. CASE ~ Ends(PathTo(tree, k), k)
    BY <1>2, <2>2, NewNodeSound DEF value_dict_get_or_add_
  <2>3. CASE Ends(PathTo(tree, k), k)
    <3>1. Last(PathTo(tree, k)) \in nodes
      BY <1>0, <2>1, <2>3, SearchFinds DEF Found
    <3>2. reply' = Last(PathTo(tree, k)) /\ UNCHANGED <<nodes, tree, order, size, fresh>>
      BY <1>2, <2>3 DEF value_dict_get_or_add_
    <3> QED
      BY <1>1, <1>2, <3>1, <3>2, KeptSound DEF Node
  <2> QED
    BY <2>2, <2>3
<1>3. ASSUME UNCHANGED ordered, NEW k \in Uses(ordered), value_dict_add_(k)
      PROVE  Sound'
  <2>1. k \in Key
    BY <1>0, UsesKeys
  <2>2. CASE ~ Ends(PathTo(tree, k), k)
    BY <1>3, <2>2, NewNodeSound DEF value_dict_add_
  <2>3. CASE Ends(PathTo(tree, k), k)
    <3>1. Last(PathTo(tree, k)) \in nodes
      BY <1>0, <2>1, <2>3, SearchFinds DEF Found
    <3>2. /\ reply' = Last(PathTo(tree, k)) \/ reply' = NULL
          /\ UNCHANGED <<nodes, tree, order, size, fresh>>
      BY <1>3, <2>3 DEF value_dict_add_
    <3> QED
      BY <1>1, <1>3, <3>1, <3>2, KeptSound DEF Node
  <2> QED
    BY <2>2, <2>3
<1>4. ASSUME UNCHANGED ordered, NEW k \in Uses(ordered), InitializeValue(k)
      PROVE  Sound'
  BY <1>0, <1>4, KeptSound DEF InitializeValue
<1>5. ASSUME UNCHANGED vars
      PROVE  Sound'
  BY <1>0, <1>5, KeptSound DEF vars
<1> QED
  BY <1>2, <1>3, <1>4, <1>5, RemoveSound, CleanSound DEF Next

(* Whatever the calls, the nodes are linked to a red-black search tree of  *)
(* the right size, and to a list if there is one.                          *)
THEOREM StaysSound == Spec => []Sound
<1>1. Sound /\ [Next]_vars => Sound'
  BY StepSound
<1> QED
  BY <1>1, InitSound, PTL DEF Spec

-----------------------------------------------------------------------------
(* What follows for every state *)

(* The links lead to allocated nodes only, and size counts them: no call   *)
(* of value_dict_add() or value_dict_remove() leaves a dangling pointer.   *)
THEOREM DictTypeOK == Spec => []TypeOK
<1>1. Sound => TypeOK
  <2> SUFFICES ASSUME Sound
               PROVE  TypeOK
    OBVIOUS
  <2>0. /\ TreeIs(tree, nodes) /\ size = Cardinality(nodes) /\ fresh \subseteq nodes
        /\ reply \in Node \cup {0, -1}
    BY DEF Sound, SoundIs
  <2>1. /\ tree \in Trees /\ nodes \subseteq Key
        /\ tree.root \in nodes \cup {NULL} /\ tree.red \subseteq nodes
        /\ \A n \in nodes, s \in Side : tree.child[s][n] \in nodes \cup {NULL}
        /\ \A k \in Key \ nodes, s \in Side : tree.child[s][k] = NULL
    BY <2>0, TreeFacts
  <2>2. \A k \in Key, s \in Side : tree.child[s][k] \in IF k \in nodes THEN nodes \cup {NULL} ELSE {NULL}
    BY <2>1
  <2> QED
    BY <2>0, <2>1, <2>2 DEF TypeOK
<1> QED
  BY <1>1, StaysSound, PTL

(* The rules value_dict_verify() tests hold after every call: the repairs  *)
(* after an insertion and a removal restore them whatever the tree.        *)
THEOREM DictRedBlack == Spec => []RedBlack
<1>1. Sound => RedBlack
  BY TreeRedBlack DEF Sound, SoundIs
<1> QED
  BY <1>1, StaysSound, PTL

(* value_dict_get() finds the item of every key, and no other.             *)
THEOREM DictSearchable == Spec => []Searchable
<1>1. Sound => Searchable
  BY TreeSearchable DEF Sound, SoundIs
<1> QED
  BY <1>1, StaysSound, PTL

(* value_dict_keys_sorted() gives the keys in their order, cut where the   *)
(* buffer ends.                                                            *)
THEOREM DictSortedWalk == Spec => []SortedWalk
<1>1. Sound => SortedWalk
  BY TreeSortedWalk DEF Sound, SoundIs
<1> QED
  BY <1>1, StaysSound, PTL

(* The list that value_dict_keys_ordered() follows has every node, and the *)
(* same ones backwards.                                                    *)
THEOREM DictOrderLinked == Spec => []OrderLinked
<1>1. Sound => OrderLinked
  <2> SUFFICES ASSUME Sound
               PROVE  OrderLinked
    OBVIOUS
  <2>1. ordered \in BOOLEAN /\ nodes \subseteq Uses(ordered) /\ (ordered => \E L : InOrder(order, nodes, L))
    BY DEF Sound, SoundIs, ListIs
  <2>2. nodes \subseteq Key
    BY <2>1, UsesKeys
  <2> QED
    BY <2>1, <2>2, ListOrderLinked
<1> QED
  BY <1>1, StaysSound, PTL

(* The array path[RBTREE_MAX_HEIGHT] of the operations is large enough.    *)
THEOREM DictPathFits == Spec => []PathFits
<1>1. Sound => PathFits
  BY TreePathFits DEF Sound, SoundIs
<1> QED
  BY <1>1, StaysSound, PTL

-----------------------------------------------------------------------------
(* The dictionary implements the plain listing *)

LEMMA KeysPrimed == Keys' = KeysOf(ordered', tree', order')
BY DEF Keys

LEMMA KeysAreWalked ==
  ASSUME NEW t, NEW N, TreeIs(t, N)
  PROVE  Enumerates(Walk(t, MaxRounds).keys, N, Rank)
<1>1. N \subseteq Key
  BY TreeFacts
<1> DEFINE all == Walk(t, Cardinality(N)).keys
<1>2. all = Walk(t, Cardinality(N)).keys
  OBVIOUS
<1> HIDE DEF all
<1>3. /\ Enumerates(all, N, Rank)
      /\ \A n \in Nat : n >= Cardinality(N) => Walk(t, n).keys = all
  BY <1>2, TreeWalk
<1>4. MaxRounds \in Nat /\ MaxRounds >= Cardinality(N)
  BY <1>1, FewerNodes
<1>5. Walk(t, MaxRounds).keys = all
  BY <1>3, <1>4
<1> QED
  BY <1>3, <1>5

LEMMA KeysAreListed ==
  ASSUME NEW o, NEW N, NEW L, N \subseteq Key, InOrder(o, N, L)
  PROVE  Listed(o.head, o.next, MaxRounds) = L
<1>1. L \in Seq(N) /\ \A i, j \in 1 .. Len(L) : L[i] = L[j] => i = j
  BY DEF InOrder
<1>2. IsFiniteSet(N) /\ Cardinality(N) \in Nat /\ MaxRounds \in Nat /\ Cardinality(N) <= MaxRounds
  BY FewerNodes
<1>3. Len(L) \in Nat /\ Len(L) <= Cardinality(N)
  BY <1>1, <1>2, Distinct
<1>4. L \in Seq(Key) /\ MaxRounds >= Len(L)
  BY <1>1, <1>2, <1>3, MoreKeys
<1>5. Chained(o.head, o.next, L)
  BY DEF InOrder, Chained
<1> QED
  BY <1>2, <1>4, <1>5, ListedIs

LEMMA KeysAre ==
  ASSUME NEW od \in BOOLEAN, NEW t, NEW o, NEW N, TreeIs(t, N), od => ListIs(o, N)
  PROVE  Lists(KeysOf(od, t, o), od, o, N)
<1>1. N \subseteq Key
  BY TreeFacts
<1>2. CASE od
  <2>1. PICK L : InOrder(o, N, L)
    BY <1>2 DEF ListIs
  <2>2. KeysOf(od, t, o) = L
    BY <1>1, <1>2, <2>1, KeysAreListed DEF KeysOf
  <2>3. L \in Seq(N) /\ \A m \in N : \E i \in 1 .. Len(L) : L[i] = m
    BY <2>1 DEF InOrder
  <2> QED
    BY <1>2, <2>1, <2>2, <2>3 DEF Lists
<1>3. CASE ~od
  <2> DEFINE L == Walk(t, MaxRounds).keys
  <2>1. KeysOf(od, t, o) = L
    BY <1>3 DEF KeysOf
  <2>2. Enumerates(L, N, Rank)
    BY KeysAreWalked
  <2> HIDE DEF L
  <2>3. L \in Seq(N) /\ \A m \in N : \E i \in 1 .. Len(L) : L[i] = m
    BY <2>2 DEF Enumerates
  <2> QED
    BY <1>3, <2>1, <2>2, <2>3 DEF Lists
<1> QED
  BY <1>2, <1>3

(* No other sequence lists the nodes.                                      *)
LEMMA KeysEqual ==
  ASSUME NEW od \in BOOLEAN, NEW t, NEW o, NEW N, TreeIs(t, N), NEW L,
         od => InOrder(o, N, L), ~od => Enumerates(L, N, Rank)
  PROVE  KeysOf(od, t, o) = L
<1>1. N \subseteq Key /\ \A n \in N : Rank[n] \in Int
  BY TreeFacts
<1>2. CASE od
  BY <1>1, <1>2, KeysAreListed DEF KeysOf
<1>3. CASE ~od
  <2>1. Enumerates(Walk(t, MaxRounds).keys, N, Rank)
    BY KeysAreWalked
  <2>2. Walk(t, MaxRounds).keys = L
    BY <1>1, <1>3, <2>1, SameEnumeration
  <2> QED
    BY <1>3, <2>2 DEF KeysOf
<1> QED
  BY <1>2, <1>3

LEMMA SoundKeys ==
  ASSUME Sound
  PROVE  /\ ordered \in BOOLEAN /\ TreeIs(tree, nodes) /\ nodes \subseteq Key
         /\ Uses(ordered) \subseteq Key /\ fresh \subseteq nodes
         /\ Lists(Keys, ordered, order, nodes)
<1>1. /\ ordered \in BOOLEAN /\ TreeIs(tree, nodes) /\ nodes \subseteq Uses(ordered)
      /\ ordered => ListIs(order, nodes)
      /\ fresh \subseteq nodes
  BY DEF Sound, SoundIs
<1>2. Lists(Keys, ordered, order, nodes)
  BY <1>1, KeysAre DEF Keys
<1> QED
  BY <1>1, <1>2, UsesKeys

-----------------------------------------------------------------------------
(* The definitions of Dictionary, of the sequence of the keys *)

LEMMA DictItems == \A k : Dict!Items(k) = ItemsIn(Keys, k)
BY DEF Dict!Items, ItemsIn, Keys, KeysOf, value_dict_keys_ordered, value_dict_keys_sorted

LEMMA DictInsertion ==
  ASSUME NEW k, NEW place \in 0 .. Len(Keys), Placed(ordered, Keys, k, place),
         Keys' = Put(Keys, place, k)
  PROVE  Dict!Insertion(k)
BY DEF Dict!Insertion, Placed, Put, Keys, KeysOf, value_dict_keys_ordered, value_dict_keys_sorted

LEMMA DictUnchanged ==
  ASSUME UNCHANGED <<ordered, tree, order>>
  PROVE  Keys' = Keys
BY DEF Keys, KeysOf

(* The item a search finds is the one of the listing.                      *)
LEMMA ItemsFound ==
  ASSUME Sound, NEW k \in Key, NEW path, path = PathTo(tree, k)
  PROVE  /\ Ends(path, k) => Dict!Items(k) = {Last(path)}
         /\ ~ Ends(path, k) => Dict!Items(k) = {}
<1>1. /\ TreeIs(tree, nodes) /\ Lists(Keys, ordered, order, nodes)
  BY SoundKeys
<1>2. Found(tree, nodes, k, path)
  BY <1>1, SearchFinds
<1>3. \A m, n \in nodes : Rank[m] = Rank[n] => m = n
  BY <1>1, TreeFacts
<1>4. ItemsIn(Keys, k) = {m \in nodes : Rank[m] = Rank[k]}
  <2> HIDE DEF Keys
  <2>1. Keys \in Seq(nodes) /\ \A m \in nodes : \E i \in 1 .. Len(Keys) : Keys[i] = m
    BY <1>1 DEF Lists
  <2>2. DOMAIN Keys = 1 .. Len(Keys) /\ \A i \in 1 .. Len(Keys) : Keys[i] \in nodes
    BY <2>1
  <2> QED
    BY <2>1, <2>2 DEF ItemsIn
<1>5. CASE Ends(path, k)
  <2>1. Last(path) \in nodes /\ Rank[Last(path)] = Rank[k]
    BY <1>2, <1>5 DEF Found
  <2>2. {m \in nodes : Rank[m] = Rank[k]} = {Last(path)}
    BY <1>3, <2>1
  <2> QED
    BY <1>4, <1>5, <2>2, DictItems
<1>6. CASE ~ Ends(path, k)
  <2>1. {m \in nodes : Rank[m] = Rank[k]} = {}
    BY <1>2, <1>6 DEF Found
  <2> QED
    BY <1>4, <1>6, <2>1, DictItems
<1> QED
  BY <1>5, <1>6

-----------------------------------------------------------------------------
(* Each action is one of Dictionary *)

LEMMA NewNodeInserts ==
  ASSUME Sound, UNCHANGED ordered, NEW k \in Uses(ordered), ~ Ends(PathTo(tree, k), k),
         NewNode(k, PathTo(tree, k)), reply' # NULL
  PROVE  Dict!Insertion(k) /\ fresh' = fresh \cup {k} /\ reply' = k
<1>0. /\ ordered \in BOOLEAN /\ TreeIs(tree, nodes) /\ nodes \subseteq Key /\ k \in Key
      /\ Lists(Keys, ordered, order, nodes)
  BY SoundKeys
<1> DEFINE M == nodes \cup {k}
<1>9. M = nodes \cup {k}
  OBVIOUS
<1>1. /\ tree' = Inserted(k, PathTo(tree, k))
      /\ order' = (IF ordered THEN OrderAppend(k) ELSE order)
      /\ fresh' = fresh \cup {k} /\ reply' = k
  BY DEF NewNode
<1> HIDE DEF M
<1>2. k \notin nodes /\ TreeIs(tree', M)
  BY <1>0, <1>1, <1>9, TreeAdds
<1>3. \A n \in nodes : Rank[n] # Rank[k]
  BY <1>0, SearchFinds DEF Found
<1>4. Rank[k] \in Int /\ \A n \in nodes : Rank[n] \in Int
  BY <1>0, RankIs
<1>5. Keys \in Seq(nodes) /\ Len(Keys) \in Nat
  BY <1>0 DEF Lists
<1>6. \E place \in 0 .. Len(Keys) : /\ Placed(ordered, Keys, k, place)
                                    /\ Keys' = Put(Keys, place, k)
  <2>1. CASE ordered
    <3>1. InOrder(order, nodes, Keys)
      BY <1>0, <2>1 DEF Lists
    <3>2. InOrder(order', M, Put(Keys, Len(Keys), k))
      BY <1>0, <1>1, <1>2, <1>9, <2>1, <3>1, OrderAppended
    <3>3. KeysOf(ordered', tree', order') = Put(Keys, Len(Keys), k)
      BY <1>0, <1>2, <2>1, <3>2, KeysEqual
    <3>4. Placed(ordered, Keys, k, Len(Keys))
      BY <2>1 DEF Placed
    <3> QED
      BY <1>5, <3>3, <3>4, KeysPrimed
  <2>2. CASE ~ordered
    <3>1. Enumerates(Keys, nodes, Rank)
      BY <1>0, <2>2 DEF Lists
    <3>2. PICK place \in 0 .. Len(Keys) :
            /\ \A n \in 1 .. place : Rank[Keys[n]] < Rank[k]
            /\ \A n \in place + 1 .. Len(Keys) : Rank[k] < Rank[Keys[n]]
      BY <1>3, <1>4, <3>1, PlaceExists
    <3>3. Enumerates(Put(Keys, place, k), M, Rank)
      BY <1>4, <1>9, <3>1, <3>2, PutEnumerates
    <3>4. KeysOf(ordered', tree', order') = Put(Keys, place, k)
      BY <1>0, <1>2, <2>2, <3>3, KeysEqual
    <3>5. Placed(ordered, Keys, k, place)
      BY <2>2, <3>2 DEF Placed
    <3> QED
      BY <3>4, <3>5, KeysPrimed
  <2> QED
    BY <1>0, <2>1, <2>2
<1>7. Dict!Insertion(k)
  <2>1. PICK place \in 0 .. Len(Keys) : Placed(ordered, Keys, k, place) /\ Keys' = Put(Keys, place, k)
    BY <1>6
  <2> QED
    BY <2>1, DictInsertion
<1> QED
  BY <1>1, <1>7

LEMMA DictGetOrAdd ==
  ASSUME NEW k,
         \/ Dict!Items(k) # {} /\ reply' \in Dict!Items(k) /\ Keys' = Keys /\ fresh' = fresh
         \/ Dict!Items(k) = {} /\ Dict!Insertion(k) /\ fresh' = fresh \cup {k} /\ reply' = k
         \/ Dict!Items(k) = {} /\ reply' = NULL /\ Keys' = Keys /\ fresh' = fresh
  PROVE  Dict!GetOrAdd(k)
BY DEF Dict!GetOrAdd, Keys, KeysOf, value_dict_keys_ordered, value_dict_keys_sorted

LEMMA DictAdd ==
  ASSUME NEW k,
         \/ /\ Dict!Items(k) # {} /\ Keys' = Keys /\ fresh' = fresh
            /\ reply' = NULL
         \/ Dict!Items(k) = {} /\ Dict!GetOrAdd(k)
  PROVE  Dict!Add(k)
BY DEF Dict!Add, Keys, KeysOf, value_dict_keys_ordered, value_dict_keys_sorted

LEMMA DictRemove ==
  ASSUME NEW k,
         \/ Dict!Items(k) = {} /\ reply' = -1 /\ Keys' = Keys /\ fresh' = fresh
         \/ /\ Dict!Items(k) # {} /\ reply' = 0 /\ fresh' = fresh \ Dict!Items(k)
            /\ \E n \in DOMAIN Keys : Keys[n] \in Dict!Items(k) /\ Keys' = Drop(Keys, n)
  PROVE  Dict!Remove(k)
BY DEF Dict!Remove, Drop, Keys, KeysOf, value_dict_keys_ordered, value_dict_keys_sorted

LEMMA DictInitialize ==
  ASSUME NEW k \in fresh, fresh' = fresh \ {k}, Keys' = Keys, reply' = reply
  PROVE  Dict!Initialize
BY DEF Dict!Initialize, Keys, KeysOf, value_dict_keys_ordered, value_dict_keys_sorted

LEMMA DictClean ==
  ASSUME Keys' = <<>>, fresh' = {}, reply' = reply
  PROVE  Dict!Clean
BY DEF Dict!Clean, Keys, KeysOf, value_dict_keys_ordered, value_dict_keys_sorted

LEMMA DictStutter ==
  ASSUME UNCHANGED ordered, Keys' = Keys, fresh' = fresh, reply' = reply
  PROVE  UNCHANGED Dict!dvars
BY DEF Dict!dvars, Keys, KeysOf, value_dict_keys_ordered, value_dict_keys_sorted

LEMMA NewNodeGets ==
  ASSUME Sound, UNCHANGED ordered, NEW k \in Uses(ordered), ~ Ends(PathTo(tree, k), k),
         NewNode(k, PathTo(tree, k))
  PROVE  Dict!Items(k) = {} /\ Dict!GetOrAdd(k)
<1>1. k \in Key /\ NULL \notin Key
  BY SoundKeys, NullIsNoKey
<1>2. Dict!Items(k) = {}
  BY <1>1, ItemsFound
<1>3. CASE reply' # NULL
  BY <1>2, <1>3, NewNodeInserts, DictGetOrAdd
<1>4. CASE reply' = NULL
  <2>1. UNCHANGED <<nodes, tree, order, size, fresh>>
    BY <1>1, <1>4 DEF NewNode
  <2>2. Keys' = Keys
    BY <2>1, DictUnchanged
  <2> QED
    BY <1>2, <1>4, <2>1, <2>2, DictGetOrAdd
<1> QED
  BY <1>2, <1>3, <1>4

LEMMA GetOrAddRefines ==
  ASSUME Sound, UNCHANGED ordered, NEW k \in Uses(ordered), value_dict_get_or_add_(k)
  PROVE  Dict!GetOrAdd(k)
<1> DEFINE path == PathTo(tree, k)
<1>9. path = PathTo(tree, k)
  OBVIOUS
<1>1. CASE ~ Ends(path, k)
  BY <1>1, NewNodeGets DEF value_dict_get_or_add_
<1>2. CASE Ends(path, k)
  <2>1. reply' = Last(path) /\ UNCHANGED <<nodes, tree, order, size, fresh>>
    BY <1>2 DEF value_dict_get_or_add_
  <2> HIDE DEF path
  <2>2. Dict!Items(k) = {Last(path)}
    BY <1>2, <1>9, SoundKeys, ItemsFound
  <2>3. Keys' = Keys
    BY <2>1, DictUnchanged
  <2> QED
    BY <2>1, <2>2, <2>3, DictGetOrAdd
<1> QED
  BY <1>1, <1>2

LEMMA AddRefines ==
  ASSUME Sound, UNCHANGED ordered, NEW k \in Uses(ordered), value_dict_add_(k)
  PROVE  \/ Dict!Items(k) \cap fresh = {} /\ Dict!Add(k)
         \/ Dict!Items(k) \cap fresh # {} /\ GivesNewAgain(k) /\ Dict!GetOrAdd(k)
<1> DEFINE path == PathTo(tree, k)
<1>9. path = PathTo(tree, k)
  OBVIOUS
<1>1. CASE ~ Ends(path, k)
  BY <1>1, NewNodeGets, DictAdd DEF value_dict_add_
<1>2. CASE Ends(path, k)
  <2>1. /\ reply' = IF Last(path) \in fresh THEN Last(path) ELSE NULL
        /\ UNCHANGED <<nodes, tree, order, size, fresh>>
    BY <1>2 DEF value_dict_add_
  <2> HIDE DEF path
  <2>2. Dict!Items(k) = {Last(path)}
    BY <1>2, <1>9, SoundKeys, ItemsFound
  <2>3. Keys' = Keys
    BY <2>1, DictUnchanged
  <2>4. CASE Last(path) \in fresh
    <3>1. reply' \in Dict!Items(k) /\ reply' \in fresh
      BY <2>1, <2>2, <2>4
    <3>2. GivesNewAgain(k)
      BY <2>1, <3>1 DEF GivesNewAgain
    <3>3. Dict!GetOrAdd(k)
      BY <2>1, <2>2, <2>3, <3>1, DictGetOrAdd
    <3> QED
      BY <3>1, <3>2, <3>3
  <2>5. CASE Last(path) \notin fresh
    BY <2>1, <2>2, <2>3, <2>5, DictAdd
  <2> QED
    BY <2>4, <2>5
<1> QED
  BY <1>1, <1>2

LEMMA RemoveRefines ==
  ASSUME Sound, UNCHANGED ordered, NEW k \in Uses(ordered), value_dict_remove_(k)
  PROVE  Dict!Remove(k)
<1>0. /\ ordered \in BOOLEAN /\ TreeIs(tree, nodes) /\ nodes \subseteq Key /\ k \in Key
      /\ Lists(Keys, ordered, order, nodes)
  BY SoundKeys
<1> DEFINE path == PathTo(tree, k)
           node == Last(path)
           M == nodes \ {node}
<1>9. path = PathTo(tree, k) /\ node = Last(path) /\ M = nodes \ {node}
  OBVIOUS
<1>8. IF Ends(path, k)
      THEN /\ tree' = Removed(path)
           /\ order' = (IF ordered THEN OrderRemove(node) ELSE order)
           /\ fresh' = fresh \ {node}
           /\ reply' = 0
      ELSE reply' = -1 /\ UNCHANGED <<nodes, tree, order, size, fresh>>
  BY DEF value_dict_remove_
<1> HIDE DEF path, node, M
<1>1. CASE ~ Ends(path, k)
  <2>1. Dict!Items(k) = {}
    BY <1>0, <1>1, <1>9, ItemsFound
  <2>2. reply' = -1 /\ fresh' = fresh /\ Keys' = Keys
    BY <1>1, <1>8, DictUnchanged
  <2> QED
    BY <2>1, <2>2, DictRemove
<1>2. CASE Ends(path, k)
  <2>1. Dict!Items(k) = {node}
    BY <1>0, <1>2, <1>9, ItemsFound
  <2>2. node \in nodes
    BY <1>0, <1>2, <1>9, SearchFinds DEF Found
  <2>3. TreeIs(tree', M)
    BY <1>0, <1>2, <1>8, <1>9, TreeRemoves
  <2>4. \A n \in nodes : Rank[n] \in Int
    BY <1>0, TreeFacts
  <2>5. Keys \in Seq(nodes) /\ \A m \in nodes : \E i \in 1 .. Len(Keys) : Keys[i] = m
    BY <1>0 DEF Lists
  <2>6. PICK n \in 1 .. Len(Keys) : Keys[n] = node
    BY <2>2, <2>5
  <2>7. ordered => InOrder(order', M, Drop(Keys, n))
    <3>1. SUFFICES ASSUME ordered
                   PROVE  InOrder(OrderRemove(node), M, Drop(Keys, n))
      BY <1>2, <1>8
    <3>2. InOrder(order, nodes, Keys)
      BY <1>0, <3>1 DEF Lists
    <3> QED
      BY <1>0, <1>9, <2>6, <3>2, OrderRemoved
  <2>8. ~ordered => Enumerates(Drop(Keys, n), M, Rank)
    <3>1. SUFFICES ASSUME ~ordered
                   PROVE  Enumerates(Drop(Keys, n), M, Rank)
      OBVIOUS
    <3>2. Enumerates(Keys, nodes, Rank)
      BY <1>0, <3>1 DEF Lists
    <3> QED
      BY <1>9, <2>4, <2>6, <3>2, DropEnumerates
  <2>9. KeysOf(ordered, tree', order') = Drop(Keys, n)
    BY <1>0, <2>3, <2>7, <2>8, KeysEqual
  <2>10. Keys' = Drop(Keys, n)
    BY <2>9, KeysPrimed
  <2>11. n \in DOMAIN Keys
    BY <2>5, <2>6
  <2>12. fresh' = fresh \ Dict!Items(k) /\ Dict!Items(k) # {} /\ Keys[n] \in Dict!Items(k) /\ reply' = 0
    BY <1>2, <1>8, <2>1, <2>6
  <2> QED
    BY <2>10, <2>11, <2>12, DictRemove
<1> QED
  BY <1>1, <1>2

(* The keys of a dictionary without nodes.                                 *)
LEMMA NoKeys ==
  ASSUME NEW od \in BOOLEAN
  PROVE  KeysOf(od, EmptyTree, EmptyOrder) = <<>>
<1>1. Lists(KeysOf(od, EmptyTree, EmptyOrder), od, EmptyOrder, {})
  BY KeysAre, EmptyTreeIs, EmptyListIs
<1>2. KeysOf(od, EmptyTree, EmptyOrder) \in Seq({})
  BY <1>1 DEF Lists
<1> DEFINE L == KeysOf(od, EmptyTree, EmptyOrder)
<1> HIDE DEF L
<1>3. L \in Seq({}) => L = <<>>
  OBVIOUS
<1> QED
  BY <1>2, <1>3 DEF L

LEMMA CleanRefines ==
  ASSUME Sound, UNCHANGED ordered, value_dict_clean
  PROVE  Dict!Clean
<1>1. tree' = EmptyTree /\ order' = EmptyOrder /\ fresh' = {} /\ reply' = reply
  BY DEF value_dict_clean
<1>2. KeysOf(ordered', tree', order') = <<>>
  BY <1>1, SoundKeys, NoKeys
<1> QED
  BY <1>1, <1>2, KeysPrimed, DictClean

LEMMA InitializeRefines ==
  ASSUME Sound, UNCHANGED ordered, NEW k, InitializeValue(k)
  PROVE  Dict!Initialize
<1>1. k \in fresh /\ fresh' = fresh \ {k} /\ UNCHANGED <<nodes, tree, order, size, reply>>
  BY DEF InitializeValue
<1> QED
  BY <1>1, DictUnchanged, DictInitialize

LEMMA StepRefines ==
  ASSUME Sound, [Next]_vars
  PROVE  [Dict!Next]_(Dict!dvars)
<1>1. Uses(ordered) \subseteq Key
  BY SoundKeys
<1>2. ASSUME UNCHANGED ordered, NEW k \in Uses(ordered), value_dict_get_or_add_(k)
      PROVE  Dict!Next
  BY <1>1, <1>2, GetOrAddRefines DEF Dict!Next
<1>3. ASSUME UNCHANGED ordered, NEW k \in Uses(ordered), value_dict_add_(k)
      PROVE  Dict!Next
  BY <1>1, <1>3, AddRefines DEF Dict!Next
<1>4. ASSUME UNCHANGED ordered, NEW k \in Uses(ordered), value_dict_remove_(k)
      PROVE  Dict!Next
  BY <1>1, <1>4, RemoveRefines DEF Dict!Next
<1>5. ASSUME UNCHANGED ordered, NEW k \in Uses(ordered), InitializeValue(k)
      PROVE  Dict!Next
  BY <1>5, InitializeRefines DEF Dict!Next
<1>6. ASSUME UNCHANGED ordered, value_dict_clean
      PROVE  Dict!Next
  BY <1>6, CleanRefines DEF Dict!Next
<1>7. ASSUME UNCHANGED vars
      PROVE  UNCHANGED Dict!dvars
  BY <1>7, DictUnchanged, DictStutter DEF vars
<1>8. CASE Next
  <2>1. /\ \/ \E k \in Uses(ordered) :
                value_dict_get_or_add_(k) \/ value_dict_add_(k) \/ value_dict_remove_(k) \/ InitializeValue(k)
           \/ value_dict_clean
        /\ UNCHANGED ordered
    BY <1>8 DEF Next
  <2> QED
    BY <1>2, <1>3, <1>4, <1>5, <1>6, <2>1
<1> QED
  BY <1>7, <1>8

(* VALUE_DICT behaves like the plain listing value.h describes: whatever   *)
(* the rotations and the relinking, a walk gives the keys as if they stood *)
(* in one sequence, which each call changes in one place.                  *)
THEOREM DictImplementsDictionary == Spec => IsDictionary
<1>1. Init => Dict!Init
  <2> SUFFICES ASSUME Init
               PROVE  Dict!Init
    OBVIOUS
  <2>1. ordered \in BOOLEAN /\ tree = EmptyTree /\ order = EmptyOrder /\ fresh = {} /\ reply = NULL
    BY DEF Init
  <2>2. Keys = <<>>
    BY <2>1, NoKeys DEF Keys
  <2> QED
    BY <2>1, <2>2 DEF Dict!Init, Keys, KeysOf, value_dict_keys_ordered, value_dict_keys_sorted
<1>2. Sound /\ [Next]_vars => [Dict!Next]_(Dict!dvars)
  BY StepRefines
<1> QED
  BY <1>1, <1>2, StaysSound, PTL DEF Spec, IsDictionary, Dict!Spec

(* Each call does to the listing, and answers, what value.h says of that   *)
(* very call, but that value_dict_add() of a key whose item was never      *)
(* given a value always gives out this item, and never NULL.               *)
THEOREM DictCallsKept == Spec => [][\A k \in Uses(ordered) : CallKept(k)]_vars
<1>1. Sound /\ [Next]_vars => [\A k \in Uses(ordered) : CallKept(k)]_vars
  <2> SUFFICES ASSUME Sound, [Next]_vars, NEW k \in Uses(ordered)
               PROVE  CallKept(k)
    OBVIOUS
  <2>1. UNCHANGED ordered
    BY DEF Next, vars
  <2>2. ASSUME value_dict_add_(k)
        PROVE  IF Dict!Items(k) \cap fresh = {} THEN Dict!Add(k) ELSE GivesNewAgain(k)
    BY <2>1, <2>2, AddRefines
  <2> QED
    BY <2>1, <2>2, GetOrAddRefines, RemoveRefines DEF CallKept
<1> QED
  BY <1>1, StaysSound, PTL DEF Spec

=============================================================================
