-------------------------- MODULE ValueScalarsProofs --------------------------
(***************************************************************************)
(* Proofs about ValueScalars, for integers, floating numbers, headers and  *)
(* texts of any width: a string keeps its length and its block, and each   *)
(* conversion that value_is_compatible() allows keeps the number.  Powers  *)
(* of two come first, then strings, then what rounding does to a number.   *)
(***************************************************************************)
EXTENDS ValueScalars, FiniteSetTheorems, FunctionTheorems, SequenceTheorems,
        WellFoundedInduction, TLAPS

LEMMA LeastNumber ==
  ASSUME NEW T, T \subseteq Nat, T # {}
  PROVE  \E n \in T : \A m \in T : n <= m
<1> DEFINE Order == {ss \in Nat \X Nat : ss[1] < ss[2]}
<1>1. IsWellFoundedOn(Order, Nat)
  BY NatLessThanWellFounded DEF OpToRel
<1>2. \A x, y \in Nat : x < y => <<x, y>> \in Order
  OBVIOUS
<1> HIDE DEF Order
<1>3. PICK n \in T : \A m \in T : ~ (<<m, n>> \in Order)
  BY <1>1, WFMin
<1>4. ASSUME NEW m \in T
      PROVE  n <= m
  <2>1. ~ (m < n)
    BY <1>2, <1>3
  <2> QED
    BY <2>1
<1> QED
  BY <1>3, <1>4

(* Induction: a set with zero and the successor of each of its numbers has *)
(* them all.                                                               *)
LEMMA AllNumbers ==
  ASSUME NEW T, 0 \in T, \A n \in Nat : n \in T => n + 1 \in T
  PROVE  Nat \subseteq T
<1> DEFINE Bad == Nat \ T
<1> SUFFICES ASSUME Bad # {} PROVE FALSE
  OBVIOUS
<1>1. PICK n \in Bad : \A m \in Bad : n <= m
  <2>1. Bad \subseteq Nat
    OBVIOUS
  <2> HIDE DEF Bad
  <2> QED
    BY <2>1, LeastNumber
<1>2. n # 0 /\ n \in Nat /\ n \notin T
  OBVIOUS
<1>3. n - 1 \in Nat /\ n - 1 \notin Bad
  BY <1>1, <1>2
<1> QED
  BY <1>2, <1>3

-----------------------------------------------------------------------------
(* Powers of two: 2 ^ n is the number of sets of n things. *)

(* The subsets of n numbers *)
LEMMA PowerCounts ==
  ASSUME NEW n \in Nat
  PROVE  IsFiniteSet(SUBSET (1 .. n)) /\ Cardinality(SUBSET (1 .. n)) = 2 ^ n /\ 2 ^ n \in Nat
<1>1. IsFiniteSet(1 .. n) /\ Cardinality(1 .. n) = n
  BY FS_Interval
<1>2. IsFiniteSet(SUBSET (1 .. n)) /\ Cardinality(SUBSET (1 .. n)) = 2 ^ n
  <2>1. Cardinality(SUBSET (1 .. n)) = 2 ^ Cardinality(1 .. n)
    BY <1>1, FS_SUBSET
  <2> QED
    BY <1>1, <2>1, FS_SUBSET
<1> QED
  BY <1>2, FS_CardinalityType

LEMMA PowerZero == 2 ^ 0 = 1
<1>1. SUBSET (1 .. 0) = {{}}
  OBVIOUS
<1>2. Cardinality({{}}) = 1
  BY FS_Singleton
<1>3. Cardinality(SUBSET (1 .. 0)) = 2 ^ 0
  BY PowerCounts
<1> QED
  BY <1>1, <1>2, <1>3

LEMMA PowerDoubles ==
  ASSUME NEW n \in Nat
  PROVE  2 ^ (n + 1) = 2 * 2 ^ n
<1> DEFINE S == SUBSET (1 .. n)
           T == {A \cup {n + 1} : A \in S}
           f == [A \in S |-> A \cup {n + 1}]
<1>1. SUBSET (1 .. n + 1) = S \cup T
  <2>1. ASSUME NEW A \in SUBSET (1 .. n + 1)
        PROVE  A \in S \cup T
    <3>1. CASE n + 1 \in A
      <4>1. A \ {n + 1} \in S /\ A = (A \ {n + 1}) \cup {n + 1}
        BY <3>1
      <4> QED
        BY <4>1
    <3>2. CASE n + 1 \notin A
      BY <3>2
    <3> QED
      BY <3>1, <3>2
  <2>2. \A A \in S : A \in SUBSET (1 .. n + 1) /\ A \cup {n + 1} \in SUBSET (1 .. n + 1)
    OBVIOUS
  <2>3. \A B \in T : B \in SUBSET (1 .. n + 1)
    BY <2>2
  <2>4. \A A \in SUBSET (1 .. n + 1) : A \in S \cup T
    BY <2>1
  <2> QED
    <3> HIDE DEF S, T
    <3> QED
      BY <2>2, <2>3, <2>4, Zenon
<1>2. S \cap T = {}
  <2>1. ASSUME NEW A \in S
        PROVE  n + 1 \notin A
    OBVIOUS
  <2> QED
    BY <2>1
<1>3. ExistsBijection(S, T)
  <2>1. f \in [S -> T]
    BY Zenon
  <2>2. ASSUME NEW A \in S, NEW B \in S, f[A] = f[B]
        PROVE  A = B
    <3>1. n + 1 \notin A /\ n + 1 \notin B
      OBVIOUS
    <3>2. A \cup {n + 1} = B \cup {n + 1}
      BY <2>2
    <3>3. A = (A \cup {n + 1}) \ {n + 1} /\ B = (B \cup {n + 1}) \ {n + 1}
      BY <3>1
    <3> QED
      BY <3>2, <3>3, Zenon
  <2>3. \A B \in T : \E A \in S : f[A] = B
    BY Zenon
  <2> HIDE DEF S, T, f
  <2>4. f \in Injection(S, T)
    BY <2>1, <2>2, Fun_IsInj, Zenon
  <2>5. f \in Surjection(S, T)
    BY <2>1, <2>3, Zenon DEF Surjection
  <2>6. f \in Bijection(S, T)
    BY <2>4, <2>5 DEF Bijection
  <2> QED
    BY <2>6, Zenon DEF ExistsBijection
<1>4. IsFiniteSet(S) /\ Cardinality(S) = 2 ^ n /\ 2 ^ n \in Nat
  BY PowerCounts
<1>5. Cardinality(SUBSET (1 .. n + 1)) = 2 ^ (n + 1)
  BY PowerCounts
<1> HIDE DEF S, T, f
<1>6. IsFiniteSet(T) /\ Cardinality(T) = Cardinality(S)
  BY <1>3, <1>4, FS_Bijection
<1>7. Cardinality(S \cup T) = Cardinality(S) + Cardinality(T) - Cardinality({})
  BY <1>2, <1>4, <1>6, FS_Union
<1>8. Cardinality({}) = 0
  BY FS_EmptySet
<1>9. Cardinality(S \cup T) = 2 ^ (n + 1)
  BY <1>1, <1>5
<1> QED
  BY <1>4, <1>6, <1>7, <1>8, <1>9

LEMMA PowerSum ==
  ASSUME NEW a \in Nat, NEW b \in Nat
  PROVE  2 ^ (a + b) = 2 ^ a * 2 ^ b
<1> DEFINE T == {n \in Nat : 2 ^ (a + n) = 2 ^ a * 2 ^ n}
<1>1. 0 \in T
  <2>1. a + 0 = a
    OBVIOUS
  <2>2. 2 ^ a \in Nat
    BY PowerCounts
  <2> QED
    BY <2>1, <2>2, PowerZero
<1>2. ASSUME NEW n \in Nat, n \in T
      PROVE  n + 1 \in T
  <2>1. 2 ^ (a + n) = 2 ^ a * 2 ^ n
    BY <1>2
  <2>2. 2 ^ (n + 1) = 2 * 2 ^ n
    BY PowerDoubles
  <2>3. 2 ^ ((a + n) + 1) = 2 * 2 ^ (a + n)
    <3>1. a + n \in Nat
      OBVIOUS
    <3> QED
      BY <3>1, PowerDoubles
  <2>4. 2 ^ a \in Nat /\ 2 ^ n \in Nat
    BY PowerCounts
  <2>5. 2 * (2 ^ a * 2 ^ n) = 2 ^ a * (2 * 2 ^ n)
    <3> DEFINE x == 2 ^ a
               y == 2 ^ n
    <3>1. x \in Int /\ y \in Int
      BY <2>4
    <3> HIDE DEF x, y
    <3>2. 2 * (x * y) = x * (2 * y)
      BY <3>1
    <3> QED
      BY <3>2 DEF x, y
  <2>6. a + (n + 1) = (a + n) + 1
    OBVIOUS
  <2> QED
    BY <2>1, <2>2, <2>3, <2>5, <2>6
<1> HIDE DEF T
<1>3. Nat \subseteq T
  BY <1>1, <1>2, AllNumbers
<1> QED
  BY <1>3 DEF T

LEMMA PowerPositive ==
  ASSUME NEW n \in Nat
  PROVE  2 ^ n \in Nat /\ 2 ^ n >= 1
<1> DEFINE T == {k \in Nat : 2 ^ k >= 1}
<1>1. 0 \in T
  BY PowerZero
<1>2. ASSUME NEW k \in Nat, k \in T
      PROVE  k + 1 \in T
  <2>1. 2 ^ (k + 1) = 2 * 2 ^ k /\ 2 ^ k \in Nat /\ 2 ^ k >= 1
    BY <1>2, PowerDoubles, PowerCounts
  <2> QED
    BY <2>1
<1> HIDE DEF T
<1>3. Nat \subseteq T
  BY <1>1, <1>2, AllNumbers
<1> QED
  BY <1>3, PowerCounts DEF T

LEMMA PowerGrows ==
  ASSUME NEW a \in Nat, NEW b \in Nat, a <= b
  PROVE  2 ^ a <= 2 ^ b /\ (a < b => 2 * 2 ^ a <= 2 ^ b)
<1>1. ASSUME NEW c \in Nat, NEW d \in Nat
      PROVE  2 ^ c <= 2 ^ (c + d)
  <2>1. 2 ^ c \in Nat /\ 2 ^ d \in Nat /\ 2 ^ d >= 1 /\ 2 ^ (c + d) = 2 ^ c * 2 ^ d
    BY PowerSum, PowerPositive
  <2> DEFINE x == 2 ^ c
             y == 2 ^ d
  <2>2. x \in Nat /\ y \in Nat /\ y >= 1
    BY <2>1
  <2> HIDE DEF x, y
  <2>3. x <= x * y
    BY <2>2
  <2> QED
    BY <2>1, <2>3 DEF x, y
<1>2. 2 ^ a <= 2 ^ b
  <2>1. b - a \in Nat /\ a + (b - a) = b
    OBVIOUS
  <2> QED
    BY <1>1, <2>1
<1>3. ASSUME a < b
      PROVE  2 * 2 ^ a <= 2 ^ b
  <2>1. b - (a + 1) \in Nat /\ (a + 1) + (b - (a + 1)) = b /\ a + 1 \in Nat
    BY <1>3
  <2>2. 2 ^ (a + 1) <= 2 ^ b
    BY <1>1, <2>1
  <2> QED
    BY <2>2, PowerDoubles
<1> QED
  BY <1>2, <1>3

LEMMA FlagIs == Flag \in Nat /\ Flag >= 2
<1>1. GroupBits \in Nat /\ 1 <= GroupBits
  BY ScalarsAssumption
<1>2. 2 ^ 1 = 2
  <2>1. 2 ^ (0 + 1) = 2 * 2 ^ 0
    BY PowerDoubles
  <2> QED
    BY <2>1, PowerZero
<1>3. 2 ^ 1 <= 2 ^ GroupBits
  BY <1>1, PowerGrows
<1>4. 2 ^ GroupBits \in Nat
  BY <1>1, PowerPositive
<1> QED
  BY <1>2, <1>3, <1>4 DEF Flag

LEMMA DivMod ==
  ASSUME NEW a \in Nat, NEW d \in Nat, d >= 1
  PROVE  a = d * (a \div d) + (a % d) /\ a \div d \in Nat /\ a % d \in 0 .. d - 1
OBVIOUS

LEMMA MinIs ==
  ASSUME NEW I, I \subseteq Nat, I # {}
  PROVE  Min(I) \in I /\ \A i \in I : Min(I) <= i
<1>1. \E m \in I : \A i \in I : m <= i
  BY LeastNumber
<1> QED
  BY <1>1 DEF Min

-----------------------------------------------------------------------------
(* Strings *)

(* A header h of the number n: q are what is left of it, a group at a time *)
Groups(h, n, m, q) ==
  /\ m \in Nat /\ m >= 1 /\ q \in [1 .. m -> Nat] /\ q[1] = n
  /\ h \in Seq(Nat) /\ Len(h) = m
  /\ \A i \in 1 .. m - 1 : q[i] >= Flag /\ q[i + 1] = q[i] \div Flag /\ h[i] = Flag + (q[i] % Flag)
  /\ q[m] < Flag /\ h[m] = q[m]

HeadersBy(n, g) ==
  g = [k \in 0 .. n |-> IF k >= Flag THEN <<Flag + (k % Flag)>> \o g[k \div Flag] ELSE <<k>>]

LEMMA HeadersExist ==
  ASSUME NEW N \in Nat
  PROVE  \E g : HeadersBy(N, g)
<1> DEFINE T == {n \in Nat : \E g : HeadersBy(n, g)}
<1>1. 0 \in T
  <2>1. HeadersBy(0, [k \in 0 .. 0 |-> <<k>>])
    <3>1. \A k \in 0 .. 0 : ~ (k >= Flag)
      BY FlagIs
    <3> QED
      BY <3>1 DEF HeadersBy
  <2> QED
    BY <2>1
<1>2. ASSUME NEW n \in Nat, n \in T
      PROVE  n + 1 \in T
  <2>1. PICK g : HeadersBy(n, g)
    BY <1>2
  <2> DEFINE G == [k \in 0 .. n + 1 |->
                     IF k >= Flag THEN <<Flag + (k % Flag)>> \o g[k \div Flag] ELSE <<k>>]
  <2>2. ASSUME NEW k \in 0 .. n + 1, k >= Flag
        PROVE  k \div Flag \in 0 .. n
    <3>0. k \in Nat /\ Flag \in Nat /\ Flag >= 1
      BY FlagIs
    <3>1. k = Flag * (k \div Flag) + (k % Flag) /\ k \div Flag \in Nat /\ k % Flag \in 0 .. Flag - 1
      BY <3>0, DivMod
    <3> DEFINE d == k \div Flag
    <3>2. d \in Nat /\ Flag * d <= k
      BY <3>1, FlagIs
    <3> HIDE DEF d
    <3>3. 2 * d <= Flag * d
      BY <3>2, FlagIs
    <3>4. d <= n
      BY <3>2, <3>3, FlagIs
    <3> QED
      BY <3>2, <3>4 DEF d
  <2>3. \A k \in 0 .. n : G[k] = g[k]
    <3>1. \A k \in 0 .. n : g[k] = IF k >= Flag THEN <<Flag + (k % Flag)>> \o g[k \div Flag] ELSE <<k>>
      BY <2>1 DEF HeadersBy
    <3>2. \A k \in 0 .. n : k \in 0 .. n + 1
      OBVIOUS
    <3> QED
      BY <3>1, <3>2, Zenon
  <2>4. \A k \in 0 .. n + 1 :
          G[k] = IF k >= Flag THEN <<Flag + (k % Flag)>> \o G[k \div Flag] ELSE <<k>>
    <3>1. \A k \in 0 .. n + 1 : k >= Flag => G[k \div Flag] = g[k \div Flag]
      BY <2>2, <2>3
    <3> QED
      BY <3>1, Zenon
  <2>5. HeadersBy(n + 1, G)
    BY <2>4, Zenon DEF HeadersBy
  <2> QED
    BY <2>5
<1> HIDE DEF T
<1>3. Nat \subseteq T
  BY <1>1, <1>2, AllNumbers
<1> QED
  BY <1>3 DEF T

LEMMA HeaderIs ==
  ASSUME NEW n \in Nat
  PROVE  \E g : HeadersBy(n, g) /\ Header(n) = g[n]
<1> DEFINE f == CHOOSE g : g = [k \in 0 .. n |-> IF k >= Flag THEN <<Flag + (k % Flag)>> \o g[k \div Flag]
                                                 ELSE <<k>>]
<1>1. \E g : HeadersBy(n, g)
  BY HeadersExist
<1>2. HeadersBy(n, f)
  BY <1>1 DEF HeadersBy
<1>3. Header(n) = f[n]
  BY DEF Header
<1> QED
  BY <1>2, <1>3

LEMMA HeaderGroups ==
  ASSUME NEW n \in Nat
  PROVE  \E m, q : Groups(Header(n), n, m, q)
<1>1. PICK g : HeadersBy(n, g) /\ Header(n) = g[n]
  BY HeaderIs
<1> DEFINE Bad == {k \in 0 .. n : ~ \E m, q : Groups(g[k], k, m, q)}
<1>2. ASSUME Bad # {} PROVE FALSE
  <2>1. PICK k \in Bad : \A i \in Bad : k <= i
    <3>1. Bad \subseteq Nat
      OBVIOUS
    <3> HIDE DEF Bad
    <3> QED
      BY <1>2, <3>1, LeastNumber
  <2>2. k \in 0 .. n /\ k \in Nat /\ ~ \E m, q : Groups(g[k], k, m, q)
    OBVIOUS
  <2>3. g[k] = IF k >= Flag THEN <<Flag + (k % Flag)>> \o g[k \div Flag] ELSE <<k>>
    BY <1>1, <2>2 DEF HeadersBy
  <2>4. k >= Flag
    <3> SUFFICES ASSUME ~ (k >= Flag) PROVE FALSE
      OBVIOUS
    <3>1. g[k] = <<k>> /\ k < Flag
      BY <2>2, <2>3, FlagIs
    <3>2. Groups(<<k>>, k, 1, [i \in 1 .. 1 |-> k])
      BY <2>2, <3>1 DEF Groups
    <3> QED
      BY <2>2, <3>1, <3>2
  <2> DEFINE d == k \div Flag
  <2>5. d \in 0 .. n /\ d < k
    <3>0. k \in Nat /\ Flag \in Nat /\ Flag >= 1
      BY <2>2, FlagIs
    <3>1. k = Flag * d + (k % Flag) /\ d \in Nat /\ k % Flag \in 0 .. Flag - 1
      BY <3>0, DivMod
    <3> HIDE DEF d
    <3>2. 2 * d <= Flag * d /\ Flag * d <= k
      BY <3>1, FlagIs
    <3> QED
      BY <2>2, <2>4, <3>1, <3>2, FlagIs
  <2>6. PICK m, q : Groups(g[d], d, m, q)
    <3>1. d \notin Bad
      BY <2>1, <2>5, <2>2
    <3> QED
      BY <2>5, <3>1
  <2> DEFINE Q == [i \in 1 .. m + 1 |-> IF i = 1 THEN k ELSE q[i - 1]]
             c == Flag + (k % Flag)
             h == g[d]
  <2>7. /\ m \in Nat /\ m >= 1 /\ q \in [1 .. m -> Nat] /\ q[1] = d
        /\ h \in Seq(Nat) /\ Len(h) = m
        /\ \A i \in 1 .. m - 1 : q[i] >= Flag /\ q[i + 1] = q[i] \div Flag /\ h[i] = Flag + (q[i] % Flag)
        /\ q[m] < Flag /\ h[m] = q[m]
    BY <2>6 DEF Groups
  <2>8. c \in Nat /\ c >= Flag
    BY <2>2, FlagIs, DivMod
  <2>9. g[k] = <<c>> \o h
    BY <2>3, <2>4
  <2> HIDE DEF h, c, d
  <2>10. /\ <<c>> \o h \in Seq(Nat) /\ Len(<<c>> \o h) = m + 1 /\ (<<c>> \o h)[1] = c
         /\ \A i \in 2 .. m + 1 : (<<c>> \o h)[i] = h[i - 1]
    BY <2>7, <2>8
  <2>11. Q \in [1 .. m + 1 -> Nat] /\ Q[1] = k /\ \A i \in 2 .. m + 1 : Q[i] = q[i - 1]
    <3>1. \A i \in 1 .. m + 1 : i # 1 => i - 1 \in 1 .. m
      BY <2>7
    <3> QED
      BY <2>2, <2>7, <3>1
  <2> HIDE DEF Q
  <2>12. ASSUME NEW i \in 1 .. m
         PROVE  Q[i] >= Flag /\ Q[i + 1] = Q[i] \div Flag /\ (<<c>> \o h)[i] = Flag + (Q[i] % Flag)
    <3>1. CASE i = 1
      <4>1. Q[2] = d
        BY <2>7, <2>11
      <4> QED
        BY <2>4, <2>10, <2>11, <3>1, <4>1 DEF c, d
    <3>2. CASE i # 1
      <4>1. i - 1 \in 1 .. m - 1 /\ i \in 2 .. m + 1 /\ i + 1 \in 2 .. m + 1 /\ i + 1 - 1 = i /\ i - 1 + 1 = i
        BY <2>7, <3>2
      <4>2. Q[i] = q[i - 1] /\ Q[i + 1] = q[i] /\ (<<c>> \o h)[i] = h[i - 1]
        BY <2>10, <2>11, <4>1
      <4>3. q[i - 1] >= Flag /\ q[i] = q[i - 1] \div Flag /\ h[i - 1] = Flag + (q[i - 1] % Flag)
        BY <2>7, <4>1
      <4> QED
        BY <4>2, <4>3
    <3> QED
      BY <3>1, <3>2
  <2>13. Q[m + 1] < Flag /\ (<<c>> \o h)[m + 1] = Q[m + 1]
    <3>1. m + 1 \in 2 .. m + 1 /\ m + 1 - 1 = m
      BY <2>7
    <3> QED
      BY <2>7, <2>10, <2>11, <3>1
  <2>14. Groups(<<c>> \o h, k, m + 1, Q)
    <3> DEFINE w == m + 1
               x == <<c>> \o h
    <3>1. w \in Nat /\ w >= 1 /\ Q \in [1 .. w -> Nat] /\ Q[1] = k /\ x \in Seq(Nat) /\ Len(x) = w
      BY <2>7, <2>10, <2>11
    <3>2. \A i \in 1 .. w - 1 : Q[i] >= Flag /\ Q[i + 1] = Q[i] \div Flag /\ x[i] = Flag + (Q[i] % Flag)
      <4>1. w - 1 = m
        BY <2>7
      <4> QED
        BY <2>12, <4>1
    <3>3. Q[w] < Flag /\ x[w] = Q[w]
      BY <2>13
    <3> HIDE DEF w, x
    <3>4. Groups(x, k, w, Q)
      BY <3>1, <3>2, <3>3 DEF Groups
    <3> QED
      BY <3>4 DEF w, x
  <2> QED
    BY <2>2, <2>9, <2>14
<1>3. n \in 0 .. n
  OBVIOUS
<1> QED
  BY <1>1, <1>2, <1>3

(* What value_string_length() makes of the k-th byte of p, and its sums *)
AsInt(n) == ((n + 2 ^ (IntBits - 1)) % 2 ^ IntBits) - 2 ^ (IntBits - 1)
GroupAt(p, k) == AsInt((p[k] % Flag) * 2 ^ (GroupBits * (k - 1)))
SumsBy(p, n, g) == g = [k \in 0 .. n |-> IF k = 0 THEN 0 ELSE (g[k - 1] + GroupAt(p, k)) % 2 ^ SizeBits]

LEMMA SumsExist ==
  ASSUME NEW p, NEW N \in Nat
  PROVE  \E g : SumsBy(p, N, g)
<1> DEFINE T == {n \in Nat : \E g : SumsBy(p, n, g)}
<1>1. 0 \in T
  <2>1. SumsBy(p, 0, [k \in 0 .. 0 |-> 0])
    BY DEF SumsBy
  <2> QED
    BY <2>1
<1>2. ASSUME NEW n \in Nat, n \in T
      PROVE  n + 1 \in T
  <2>1. PICK g : SumsBy(p, n, g)
    BY <1>2
  <2> DEFINE G == [k \in 0 .. n + 1 |-> IF k = 0 THEN 0 ELSE (g[k - 1] + GroupAt(p, k)) % 2 ^ SizeBits]
  <2>2. \A k \in 0 .. n : G[k] = g[k]
    <3>1. \A k \in 0 .. n : g[k] = IF k = 0 THEN 0 ELSE (g[k - 1] + GroupAt(p, k)) % 2 ^ SizeBits
      BY <2>1 DEF SumsBy
    <3>2. \A k \in 0 .. n : k \in 0 .. n + 1
      OBVIOUS
    <3> QED
      BY <3>1, <3>2, Zenon
  <2>3. \A k \in 0 .. n + 1 : k # 0 => G[k - 1] = g[k - 1]
    <3>1. \A k \in 0 .. n + 1 : k # 0 => k - 1 \in 0 .. n
      OBVIOUS
    <3> QED
      BY <2>2, <3>1, Zenon
  <2>4. \A k \in 0 .. n + 1 : G[k] = IF k = 0 THEN 0 ELSE (G[k - 1] + GroupAt(p, k)) % 2 ^ SizeBits
    BY <2>3, Zenon
  <2>5. SumsBy(p, n + 1, G)
    BY <2>4, Zenon DEF SumsBy
  <2> QED
    BY <2>5
<1> HIDE DEF T
<1>3. Nat \subseteq T
  BY <1>1, <1>2, AllNumbers
<1> QED
  BY <1>3 DEF T

LEMMA LengthIs ==
  ASSUME HeaderLength \in Nat
  PROVE  \E g : SumsBy(v.payload, HeaderLength, g) /\ value_string_length = g[HeaderLength]
<1> DEFINE f == CHOOSE g : g = [k \in 0 .. HeaderLength |->
                                  IF k = 0 THEN 0 ELSE (g[k - 1] + GroupAt(v.payload, k)) % 2 ^ SizeBits]
<1>1. \E g : SumsBy(v.payload, HeaderLength, g)
  BY SumsExist
<1>2. SumsBy(v.payload, HeaderLength, f)
  BY <1>1 DEF SumsBy
<1>3. value_string_length = f[HeaderLength]
  BY DEF value_string_length, GroupAt, AsInt
<1> QED
  BY <1>2, <1>3

(* The header ends where it did when it was written. *)
LEMMA HeaderSeen ==
  ASSUME NEW h, NEW n, NEW m, NEW q, Groups(h, n, m, q), NEW s \in Seq(Nat), v.payload = h \o s
  PROVE  /\ HeaderLength = m /\ value_string = s
         /\ \A i \in 1 .. m : v.payload[i] = h[i]
<1> DEFINE p == h \o s
           I == {i \in 1 .. Len(p) : p[i] < Flag}
<1>1. /\ h \in Seq(Nat) /\ Len(h) = m /\ m \in Nat /\ m >= 1 /\ q \in [1 .. m -> Nat]
      /\ \A i \in 1 .. m - 1 : q[i] >= Flag /\ h[i] = Flag + (q[i] % Flag)
      /\ q[m] < Flag /\ h[m] = q[m]
  BY DEF Groups
<1>2. /\ p \in Seq(Nat) /\ Len(p) = m + Len(s) /\ Len(s) \in Nat
      /\ \A i \in 1 .. m : p[i] = h[i]
      /\ \A i \in 1 .. Len(s) : p[m + i] = s[i]
  <2>1. /\ p \in Seq(Nat) /\ Len(p) = Len(h) + Len(s) /\ Len(s) \in Nat
        /\ \A i \in 1 .. Len(h) + Len(s) : p[i] = IF i <= Len(h) THEN h[i] ELSE s[i - Len(h)]
    BY <1>1, ConcatProperties, LenProperties
  <2> HIDE DEF p
  <2>2. \A i \in 1 .. m : p[i] = h[i]
    BY <1>1, <2>1
  <2>3. ASSUME NEW i \in 1 .. Len(s)
        PROVE  p[m + i] = s[i]
    <3>1. PICK k : k = m + i
      OBVIOUS
    <3>2. k \in 1 .. Len(h) + Len(s) /\ ~ (k <= Len(h)) /\ k - Len(h) = i
      BY <1>1, <2>1, <3>1
    <3>3. p[k] = s[k - Len(h)]
      BY <2>1, <3>2
    <3> QED
      BY <3>1, <3>2, <3>3
  <2> QED
    BY <1>1, <2>1, <2>2, <2>3
<1>3. \A i \in 1 .. m - 1 : ~ (p[i] < Flag)
  <2>1. ASSUME NEW i \in 1 .. m - 1
        PROVE  ~ (p[i] < Flag)
    <3>1. i \in 1 .. m /\ q[i] \in Nat /\ Flag \in Nat /\ Flag >= 1
      BY <1>1, FlagIs
    <3>2. q[i] % Flag \in 0 .. Flag - 1
      BY <3>1, DivMod
    <3>3. p[i] = Flag + (q[i] % Flag)
      BY <1>1, <1>2, <3>1
    <3> QED
      BY <3>1, <3>2, <3>3
  <2> QED
    BY <2>1
<1>4. m \in I /\ I \subseteq Nat
  BY <1>1, <1>2
<1>5. \A i \in I : m <= i
  BY <1>1, <1>3
<1>6. HeaderLength = Min(I)
  BY <1>4 DEF HeaderLength, SelectInSeq
<1> HIDE DEF I
<1>7. Min(I) \in I /\ \A i \in I : Min(I) <= i
  BY <1>4, MinIs
<1>8. HeaderLength = m
  <2>1. Min(I) <= m /\ m <= Min(I) /\ Min(I) \in Nat /\ m \in Nat
    BY <1>1, <1>4, <1>5, <1>7
  <2> QED
    BY <1>6, <2>1
<1> HIDE DEF p
<1>9. SubSeq(p, m + 1, Len(p)) = s
  <2>1. /\ SubSeq(p, m + 1, Len(p)) \in Seq(Nat) /\ Len(SubSeq(p, m + 1, Len(p))) = Len(s)
        /\ \A i \in 1 .. Len(s) : SubSeq(p, m + 1, Len(p))[i] = p[m + i]
    <3>1. m + 1 \in 1 .. Len(p) + 1 /\ Len(p) \in m .. Len(p) /\ Len(p) \in Nat /\ m + 1 \in Nat
      BY <1>1, <1>2
    <3>0. m + 1 \in Int /\ Len(p) \in Int /\ \A i \in m + 1 .. Len(p) : p[i] \in Nat
      <4>1. \A i \in m + 1 .. Len(p) : i \in 1 .. Len(p)
        BY <1>1, <3>1
      <4> QED
        BY <1>2, <3>1, <4>1
    <3> DEFINE w == SubSeq(p, m + 1, Len(p))
    <3>2. /\ w \in Seq(Nat)
          /\ Len(w) = IF m + 1 <= Len(p) THEN Len(p) - (m + 1) + 1 ELSE 0
          /\ \A i \in 1 .. Len(p) - (m + 1) + 1 : w[i] = p[m + 1 + i - 1]
      BY <3>0, SubSeqProperties
    <3> HIDE DEF w
    <3>3. Len(w) = Len(s)
      BY <1>1, <1>2, <3>1, <3>2
    <3>4. ASSUME NEW i \in 1 .. Len(s)
          PROVE  w[i] = p[m + i]
      <4>1. i \in 1 .. Len(p) - (m + 1) + 1 /\ m + 1 + i - 1 = m + i
        BY <1>1, <1>2
      <4> QED
        BY <3>2, <4>1
    <3> QED
      BY <3>2, <3>3, <3>4 DEF w
  <2> QED
    BY <1>2, <2>1, SeqEqual
<1> QED
  BY <1>2, <1>8, <1>9 DEF value_string, p

LEMMA SmallMod ==
  ASSUME NEW a \in Nat, NEW d \in Nat, a < d
  PROVE  a % d = a
OBVIOUS

LEMMA IntKept ==
  ASSUME NEW a \in Nat, a < 2 ^ (IntBits - 1)
  PROVE  AsInt(a) = a /\ a < 2 ^ SizeBits
<1>1. IntBits \in Nat /\ IntBits >= 1 /\ SizeBits \in Nat /\ IntBits <= SizeBits
  BY ScalarsAssumption
<1>2. IntBits - 1 \in Nat /\ IntBits - 1 + 1 = IntBits
  BY <1>1
<1>3. 2 ^ IntBits = 2 * 2 ^ (IntBits - 1) /\ 2 ^ (IntBits - 1) \in Nat
  BY <1>2, PowerDoubles, PowerPositive
<1>4. 2 ^ (IntBits - 1) <= 2 ^ SizeBits /\ 2 ^ SizeBits \in Nat
  BY <1>1, <1>2, PowerGrows, PowerPositive
<1> DEFINE M == 2 ^ (IntBits - 1)
           W == 2 ^ IntBits
<1>5. M \in Nat /\ W = 2 * M /\ a < M
  BY <1>3
<1> HIDE DEF M, W
<1>6. a + M \in Nat /\ W \in Nat /\ a + M < W
  BY <1>5
<1>7. (a + M) % W = a + M
  BY <1>6, SmallMod
<1>8. AsInt(a) = ((a + M) % W) - M
  BY DEF AsInt, M, W
<1> QED
  BY <1>4, <1>5, <1>7, <1>8 DEF M

(* A byte of the header gives its group back, with the flag or without. *)
LEMMA GroupBack ==
  ASSUME NEW x \in Nat
  PROVE  (Flag + (x % Flag)) % Flag = x % Flag /\ (x < Flag => x % Flag = x)
<1>1. Flag \in Nat /\ Flag >= 1
  BY FlagIs
<1>2. x % Flag \in 0 .. Flag - 1
  BY <1>1, DivMod
<1>3. \A r \in 0 .. Flag - 1 : (Flag + r) % Flag = r
  BY <1>1
<1> QED
  BY <1>1, <1>2, <1>3, SmallMod

StartsAs(p, h, m) == \A i \in 1 .. m : p[i] = h[i]

LEMMA SumOfGroups ==
  ASSUME NEW h, NEW n \in Nat, NEW m, NEW q, Groups(h, n, m, q), n < 2 ^ (IntBits - 1),
         NEW p, StartsAs(p, h, m), NEW g, SumsBy(p, m, g)
  PROVE  g[m] = n
<1> DEFINE P(k) == 2 ^ (GroupBits * k)
           Known(k) == g[k] \in Nat /\ (IF k < m THEN g[k] + P(k) * q[k + 1] = n ELSE g[k] = n)
           T == {k \in Nat : k <= m => Known(k)}
<1>0. /\ m \in Nat /\ m >= 1 /\ q \in [1 .. m -> Nat] /\ q[1] = n
      /\ \A i \in 1 .. m - 1 : q[i] >= Flag /\ q[i + 1] = q[i] \div Flag /\ h[i] = Flag + (q[i] % Flag)
      /\ q[m] < Flag /\ h[m] = q[m]
  BY DEF Groups
<1>1. \A k \in 0 .. m : g[k] = IF k = 0 THEN 0 ELSE (g[k - 1] + GroupAt(p, k)) % 2 ^ SizeBits
  BY DEF SumsBy
<1>2. 0 \in T
  <2>1. g[0] = 0
    BY <1>0, <1>1
  <2>2. P(0) = 1
    <3>1. GroupBits * 0 = 0
      BY ScalarsAssumption
    <3> QED
      BY <3>1, PowerZero
  <2>3. 0 < m /\ q[0 + 1] = n
    BY <1>0
  <2> HIDE DEF P
  <2>4. Known(0)
    BY <2>1, <2>2, <2>3
  <2> QED
    BY <2>4
<1>3. ASSUME NEW k \in Nat, k \in T
      PROVE  k + 1 \in T
  <2> SUFFICES ASSUME k + 1 <= m PROVE Known(k + 1)
    OBVIOUS
  <2>1. k < m /\ k + 1 \in 1 .. m /\ k + 1 \in 0 .. m /\ k + 1 # 0 /\ k + 1 - 1 = k
    BY <1>0
  <2>2. g[k] \in Nat /\ g[k] + P(k) * q[k + 1] = n
    <3>1. k <= m
      BY <1>0, <2>1
    <3> HIDE DEF Known
    <3>2. Known(k)
      BY <1>3, <3>1
    <3> USE DEF Known
    <3> HIDE DEF P
    <3> QED
      BY <2>1, <3>2
  <2> DEFINE Q == q[k + 1]
             X == P(k)
             r == p[k + 1] % Flag
  <2>3. /\ P(k + 1) = X * Flag /\ X \in Nat
    <3>1. GroupBits \in Nat
      BY ScalarsAssumption
    <3>2. GroupBits * k \in Nat /\ GroupBits * (k + 1) = GroupBits * k + GroupBits
      BY <3>1
    <3> QED
      BY <3>1, <3>2, PowerSum, PowerPositive DEF Flag
  <2>4. Q \in Nat /\ r \in Nat /\ r <= Q /\ (IF k + 1 < m THEN Q = Flag * q[k + 2] + r /\ q[k + 2] \in Nat ELSE r = Q)
    <3>1. Q \in Nat /\ p[k + 1] = h[k + 1]
      BY <1>0, <2>1 DEF StartsAs
    <3>2. CASE k + 1 < m
      <4>1. k + 1 \in 1 .. m - 1 /\ k + 2 \in 1 .. m /\ k + 1 + 1 = k + 2
        BY <1>0, <2>1, <3>2
      <4>2. q[k + 2] = Q \div Flag /\ h[k + 1] = Flag + (Q % Flag) /\ q[k + 2] \in Nat
        BY <1>0, <4>1
      <4>3. r = Q % Flag
        BY <3>1, <4>2, GroupBack
      <4>4. Flag \in Nat /\ Flag >= 1
        BY FlagIs
      <4>5. Q = Flag * (Q \div Flag) + (Q % Flag) /\ Q \div Flag \in Nat /\ Q % Flag \in 0 .. Flag - 1
        BY <3>1, <4>4, DivMod
      <4> HIDE DEF Q, r
      <4>6. Flag * (Q \div Flag) \in Nat
        BY <4>4, <4>5
      <4> QED
        BY <3>1, <3>2, <4>2, <4>3, <4>5, <4>6
    <3>3. CASE ~ (k + 1 < m)
      <4>1. k + 1 = m
        BY <1>0, <2>1, <3>3
      <4>2. r = Q
        BY <1>0, <3>1, <4>1, GroupBack
      <4> QED
        BY <3>1, <3>3, <4>2
    <3> QED
      BY <3>2, <3>3
  <2>5. GroupAt(p, k + 1) = AsInt(r * X)
    BY <2>1 DEF GroupAt
  <2>6. g[k + 1] = (g[k] + GroupAt(p, k + 1)) % 2 ^ SizeBits
    BY <1>1, <2>1
  <2>7. g[k] + X * Q = n
    BY <2>2
  <2> HIDE DEF X, Q, r, P
  <2>8. r * X \in Nat /\ r * X <= X * Q /\ r * X <= n /\ g[k] + r * X <= n /\ g[k] + r * X \in Nat
    BY <2>2, <2>3, <2>4, <2>7
  <2>9. 2 ^ (IntBits - 1) \in Nat
    BY ScalarsAssumption, PowerPositive
  <2>10. r * X < 2 ^ (IntBits - 1) /\ g[k] + r * X < 2 ^ (IntBits - 1)
    BY <2>8, <2>9
  <2>11. AsInt(r * X) = r * X /\ g[k] + r * X < 2 ^ SizeBits
    BY <2>8, <2>10, IntKept
  <2>12. 2 ^ SizeBits \in Nat
    BY ScalarsAssumption, PowerPositive
  <2>13. g[k + 1] = g[k] + r * X
    BY <2>5, <2>6, <2>8, <2>11, <2>12, SmallMod
  <2>14. CASE k + 1 < m
    <3>1. Q = Flag * q[k + 2] + r /\ q[k + 2] \in Nat
      BY <2>4, <2>14
    <3>2. X * Q = (X * Flag) * q[k + 2] + r * X
      BY <2>3, <2>4, <3>1, FlagIs
    <3>3. k + 1 + 1 = k + 2
      OBVIOUS
    <3>4. g[k + 1] + P(k + 1) * q[k + 1 + 1] = n
      <4> DEFINE y == (X * Flag) * q[k + 2]
      <4>1. y \in Nat
        BY <2>3, <3>1, FlagIs
      <4>2. P(k + 1) * q[k + 1 + 1] = y
        BY <2>3, <3>3
      <4>3. X * Q = y + r * X
        BY <3>2
      <4> HIDE DEF y
      <4> QED
        BY <2>2, <2>7, <2>8, <2>13, <4>1, <4>2, <4>3
    <3> QED
      BY <2>8, <2>13, <2>14, <3>4
  <2>15. CASE ~ (k + 1 < m)
    <3>1. r = Q
      BY <2>4, <2>15
    <3>2. g[k + 1] = n
      BY <2>3, <2>4, <2>7, <2>13, <3>1
    <3> QED
      BY <2>15, <3>2
  <2> QED
    BY <2>14, <2>15
<1> HIDE DEF T
<1>4. m \in T
  BY <1>0, <1>2, <1>3, AllNumbers
<1> QED
  BY <1>0, <1>4 DEF T

(* What a string that is given is written as *)
Written(str) == Header(Len(str)) \o str \o <<0>>

BlockInv ==
  /\ v.malloced \in BOOLEAN
  /\ blocks = IF v.malloced THEN 1 ELSE 0
  /\ v.type = "NULL" => ~ v.malloced
  /\ v.type = "STRING" =>
       /\ given \in Strings /\ v.payload = Written(given)
       /\ (Len(v.payload) >= ValueSize) <=> v.malloced

LEMMA StringIs ==
  ASSUME NEW str \in Strings
  PROVE  str \in Seq(Nat) /\ Len(str) \in Nat /\ Len(str) < 2 ^ (IntBits - 1)
<1>1. PICK n \in Lengths : str = [k \in 1 .. n |-> 2 * Flag - 1]
  BY DEF Strings
<1>2. 2 ^ (IntBits - 1) \in Nat
  BY ScalarsAssumption, PowerPositive
<1>3. n \in Nat /\ n < 2 ^ (IntBits - 1)
  BY <1>2, ScalarsAssumption
<1>4. 2 * Flag - 1 \in Nat
  BY FlagIs
<1>5. str \in Seq(Nat) /\ Len(str) = n
  BY <1>1, <1>3, <1>4
<1> QED
  BY <1>3, <1>5

LEMMA StringBack ==
  ASSUME NEW str \in Strings, v.payload = Written(str)
  PROVE  value_string_length = Len(str) /\ value_string = Append(str, 0)
<1> DEFINE n == Len(str)
           h == Header(n)
           s == str \o <<0>>
<1>1. str \in Seq(Nat) /\ n \in Nat /\ n < 2 ^ (IntBits - 1)
  BY StringIs
<1>2. PICK m, q : Groups(h, n, m, q)
  BY <1>1, HeaderGroups
<1>3. h \in Seq(Nat) /\ m \in Nat
  BY <1>2 DEF Groups
<1>4. s \in Seq(Nat) /\ s = Append(str, 0)
  <2>1. <<0>> \in Seq(Nat)
    OBVIOUS
  <2> QED
    BY <1>1, <2>1, ConcatProperties, AppendIsConcat
<1>5. v.payload = h \o s
  <2>1. <<0>> \in Seq(Nat)
    OBVIOUS
  <2> HIDE DEF h
  <2>2. (h \o str) \o <<0>> = h \o s
    BY <1>1, <1>3, <2>1, ConcatAssociative
  <2> QED
    BY <2>2 DEF Written, h
<1> HIDE DEF n, h, s
<1>6. HeaderLength = m /\ value_string = s /\ \A i \in 1 .. m : v.payload[i] = h[i]
  BY <1>2, <1>4, <1>5, HeaderSeen
<1>7. PICK g : SumsBy(v.payload, m, g) /\ value_string_length = g[m]
  BY <1>3, <1>6, LengthIs
<1>8. g[m] = n
  <2>1. PICK p : p = v.payload
    OBVIOUS
  <2>2. StartsAs(p, h, m) /\ SumsBy(p, m, g)
    BY <1>6, <1>7, <2>1 DEF StartsAs
  <2> QED
    BY <1>1, <1>2, <2>2, SumOfGroups
<1> QED
  BY <1>4, <1>6, <1>7, <1>8 DEF n

LEMMA InitEx ==
  ASSUME v.type = "NULL", BlockInv, NEW type, type # "NULL", NEW size, NEW align, NEW payload,
         value_init_ex(type, size, align, payload)
  PROVE  /\ v'.malloced \in BOOLEAN /\ blocks' = IF v'.malloced THEN 1 ELSE 0
         /\ v'.type = "NULL" => ~ v'.malloced
         /\ v'.type = "NULL" \/ (v'.type = type /\ v'.payload = payload)
         /\ size \in Nat /\ align \in Nat /\ v'.type # "NULL" => (v'.malloced <=> size + align > ValueSize)
<1>1. blocks = 0
  BY DEF BlockInv
<1>2. CASE size + align <= ValueSize /\ v' = Value(type, FALSE, payload) /\ UNCHANGED blocks
  BY <1>1, <1>2, ScalarsAssumption DEF Value
<1>3. CASE size + align > ValueSize /\ v' = Value(type, TRUE, payload) /\ blocks' = blocks + 1
  BY <1>1, <1>3 DEF Value
<1>4. CASE size + align > ValueSize /\ v' = Value("NULL", FALSE, None) /\ UNCHANGED blocks
  BY <1>1, <1>4 DEF Value
<1> QED
  BY <1>2, <1>3, <1>4 DEF value_init_ex

(* Each value that is not a string *)
LEMMA OtherKeeps ==
  ASSUME v.type = "NULL", BlockInv, NEW type, type \notin {"NULL", "STRING"}, NEW size, NEW align, NEW payload,
         value_init_ex(type, size, align, payload)
  PROVE  BlockInv'
<1>1. /\ v'.malloced \in BOOLEAN /\ blocks' = IF v'.malloced THEN 1 ELSE 0
      /\ v'.type = "NULL" => ~ v'.malloced
      /\ v'.type # "STRING"
  BY InitEx
<1> QED
  BY <1>1 DEF BlockInv

LEMMA NumberTypes ==
  ASSUME NEW text
  PROVE  init_number(text).type \in IntTypes \cup {"DOUBLE"}
BY DEF init_number, Number, IntTypes

LEMMA BlockNext ==
  ASSUME BlockInv, Next
  PROVE  BlockInv'
<1>1. CASE v.type # "NULL" /\ value_fini
  BY <1>1 DEF BlockInv, value_fini, Value
<1>2. ASSUME v.type = "NULL", NEW type \in IntTypes \cup {"DOUBLE", "FLOAT"}, NEW num, value_init_number(type, num)
      PROVE  BlockInv'
  <2>1. value_init_ex(type, SizeOf[type], 1, <<num>>) /\ type \notin {"NULL", "STRING"}
    BY <1>2 DEF value_init_number, IntTypes
  <2> QED
    BY <1>2, <2>1, OtherKeeps
<1>3. ASSUME v.type = "NULL", NEW b, value_init_bool(b)
      PROVE  BlockInv'
  BY <1>3 DEF value_init_bool, Value, BlockInv
<1>4. ASSUME v.type = "NULL", NEW text, InitNumber(text)
      PROVE  BlockInv'
  <2> DEFINE n == init_number(text)
  <2>1. n.type \notin {"NULL", "STRING"}
    BY NumberTypes DEF IntTypes
  <2>2. value_init_ex(n.type, SizeOf[n.type], 1, <<n.num>>)
    BY <1>4 DEF InitNumber
  <2> HIDE DEF n
  <2> QED
    BY <1>4, <2>1, <2>2, OtherKeeps
<1>5. ASSUME v.type = "NULL", NEW str \in Strings, value_init_string_(str)
      PROVE  BlockInv'
  <2> DEFINE p == Written(str)
  <2>1. value_init_ex("STRING", Len(p), 1, p) /\ given' = str
    BY <1>5 DEF value_init_string_, Written
  <2>2. Len(p) \in Nat
    <3>1. str \in Seq(Nat) /\ Len(str) \in Nat /\ <<0>> \in Seq(Nat)
      BY StringIs
    <3>2. Header(Len(str)) \in Seq(Nat)
      BY <3>1, HeaderGroups DEF Groups
    <3>3. p \in Seq(Nat)
      BY <3>1, <3>2, ConcatProperties DEF Written
    <3> HIDE DEF p
    <3> QED
      BY <3>3, LenProperties
  <2> HIDE DEF p
  <2>3. /\ v'.malloced \in BOOLEAN /\ blocks' = IF v'.malloced THEN 1 ELSE 0
        /\ v'.type = "NULL" => ~ v'.malloced
        /\ v'.type = "NULL" \/ (v'.type = "STRING" /\ v'.payload = p)
        /\ v'.type # "NULL" => (v'.malloced <=> Len(p) + 1 > ValueSize)
    BY <1>5, <2>1, <2>2, InitEx
  <2>4. (Len(p) + 1 > ValueSize) <=> (Len(p) >= ValueSize)
    BY <2>2, ScalarsAssumption
  <2>5. (v.type = "STRING" => given \in Strings /\ v.payload = Written(given)
                                /\ ((Len(v.payload) >= ValueSize) <=> v.malloced))'
    <3>1. CASE v'.type = "NULL"
      BY <3>1
    <3>2. CASE v'.type = "STRING" /\ v'.payload = p
      <4>1. given' \in Strings' /\ v'.payload = Written(given')
        <5>1. Strings' = Strings
          BY DEF Strings, Flag
        <5> QED
          BY <2>1, <3>2, <5>1 DEF p
      <4>2. Written(given)' = Written(given')
        BY DEF Written, Header, Flag
      <4> QED
        BY <2>3, <2>4, <3>2, <4>1, <4>2
    <3> QED
      BY <2>3, <3>1, <3>2
  <2> QED
    BY <2>3, <2>5 DEF BlockInv
<1>6. ASSUME v.type = "NULL", NEW type \in {"ARRAY", "DICT"}, value_init_container(type)
      PROVE  BlockInv'
  <2>1. value_init_ex(type, SizeOf[type], 8, None) /\ type \notin {"NULL", "STRING"}
    BY <1>6 DEF value_init_container
  <2> QED
    BY <1>6, <2>1, OtherKeeps
<1> QED
  BY <1>1, <1>2, <1>3, <1>4, <1>5, <1>6 DEF Next

(* A string comes back with its length and its bytes, whatever the widths  *)
(* of a group, of int and of size_t, and a value that needs a block has    *)
(* one, which value_fini() frees: value_init_string_(), value_string(),    *)
(* value_string_length().                                                  *)
THEOREM StringsKept == Spec => []StringKept
<1>1. Init => BlockInv
  BY DEF Init, BlockInv, Value
<1>2. BlockInv /\ [Next]_vars => BlockInv'
  <2>1. ASSUME BlockInv, UNCHANGED vars
        PROVE  BlockInv'
    BY <2>1 DEF BlockInv, vars, Written, Strings, Header, Flag
  <2> QED
    BY <2>1, BlockNext
<1>3. BlockInv => StringKept
  <2> SUFFICES ASSUME BlockInv PROVE StringKept
    OBVIOUS
  <2>1. CASE v.type = "STRING"
    BY <2>1, StringBack DEF BlockInv, StringKept
  <2>2. CASE v.type # "STRING"
    BY <2>2 DEF BlockInv, StringKept
  <2> QED
    BY <2>1, <2>2
<1> QED
  BY <1>1, <1>2, <1>3, PTL DEF Spec

-----------------------------------------------------------------------------
(* Rounding *)

Fits(num, den, bits, e) == Abs(num) < den * 2 ^ (bits + e) \/ e = 40
ShiftsBy(num, den, bits, g) == g = [e \in 0 .. 40 |-> IF Fits(num, den, bits, e) THEN e ELSE g[e + 1]]

LEMMA ShiftsExist ==
  ASSUME NEW num, NEW den, NEW bits
  PROVE  \E g : ShiftsBy(num, den, bits, g)
<1> DEFINE S(e) == {s \in e .. 40 : Fits(num, den, bits, s)}
           G == [e \in 0 .. 40 |-> Min(S(e))]
<1>1. ASSUME NEW e \in 0 .. 40
      PROVE  S(e) \subseteq Nat /\ S(e) # {} /\ Min(S(e)) \in S(e) /\ \A s \in S(e) : Min(S(e)) <= s
  <2>1. 40 \in S(e)
    BY DEF Fits
  <2>2. S(e) \subseteq Nat
    OBVIOUS
  <2> HIDE DEF S
  <2> QED
    BY <2>1, <2>2, MinIs
<1>2. ASSUME NEW e \in 0 .. 40, Fits(num, den, bits, e)
      PROVE  Min(S(e)) = e
  <2>1. e \in S(e) /\ \A s \in S(e) : s \in e .. 40
    BY <1>2
  <2> HIDE DEF S
  <2>2. Min(S(e)) \in S(e) /\ Min(S(e)) <= e
    BY <1>1, <2>1
  <2>3. Min(S(e)) \in e .. 40
    BY <2>1, <2>2
  <2> QED
    BY <2>2, <2>3
<1>3. ASSUME NEW e \in 0 .. 40, ~ Fits(num, den, bits, e)
      PROVE  e + 1 \in 0 .. 40 /\ S(e) = S(e + 1)
  <2>1. e # 40
    BY <1>3 DEF Fits
  <2>2. \A s \in e .. 40 : s = e \/ s \in e + 1 .. 40
    OBVIOUS
  <2>3. \A s \in e + 1 .. 40 : s \in e .. 40
    OBVIOUS
  <2> QED
    BY <1>3, <2>1, <2>2, <2>3
<1>4. \A e \in 0 .. 40 : G[e] = IF Fits(num, den, bits, e) THEN e ELSE G[e + 1]
  <2>1. ASSUME NEW e \in 0 .. 40
        PROVE  G[e] = IF Fits(num, den, bits, e) THEN e ELSE G[e + 1]
    <3> HIDE DEF S
    <3>1. CASE Fits(num, den, bits, e)
      BY <1>2, <3>1
    <3>2. CASE ~ Fits(num, den, bits, e)
      BY <1>3, <3>2
    <3> QED
      BY <3>1, <3>2
  <2> QED
    BY <2>1
<1>5. ShiftsBy(num, den, bits, G)
  BY <1>4, Zenon DEF ShiftsBy
<1> QED
  BY <1>5

Rounded(num, den, scale) ==
  IF num < 0 THEN -(HalfEven(Abs(num), den * scale) * scale) ELSE HalfEven(Abs(num), den * scale) * scale

LEMMA NearestIs ==
  ASSUME NEW num, NEW den, NEW bits
  PROVE  \E s \in 0 .. 40 : /\ Fits(num, den, bits, s) /\ \A r \in 0 .. s - 1 : ~ Fits(num, den, bits, r)
                            /\ Nearest(num, den, bits) = Rounded(num, den, 2 ^ s)
<1> DEFINE f == CHOOSE g : g = [e \in 0 .. 40 |->
                                  IF Abs(num) < den * 2 ^ (bits + e) \/ e = 40 THEN e ELSE g[e + 1]]
           S == {s \in 0 .. 40 : Fits(num, den, bits, s)}
<1>1. \E g : ShiftsBy(num, den, bits, g)
  BY ShiftsExist
<1>2. ShiftsBy(num, den, bits, f)
  BY <1>1 DEF ShiftsBy, Fits
<1>3. Nearest(num, den, bits) = Rounded(num, den, 2 ^ f[0])
  BY DEF Nearest, Rounded
<1> HIDE DEF f
<1>4. \A e \in 0 .. 40 : f[e] = IF Fits(num, den, bits, e) THEN e ELSE f[e + 1]
  BY <1>2 DEF ShiftsBy
<1>5. PICK s \in S : \A r \in S : s <= r
  <2>1. 40 \in S /\ S \subseteq Nat
    BY DEF Fits
  <2> HIDE DEF S
  <2> QED
    BY <2>1, LeastNumber
<1>6. s \in 0 .. 40 /\ Fits(num, den, bits, s)
  OBVIOUS
<1>7. \A r \in 0 .. s - 1 : ~ Fits(num, den, bits, r)
  BY <1>5
<1> DEFINE T == {r \in Nat : r <= s => f[0] = f[r]}
<1>8. 0 \in T
  OBVIOUS
<1>9. ASSUME NEW r \in Nat, r \in T
      PROVE  r + 1 \in T
  <2> SUFFICES ASSUME r + 1 <= s PROVE f[0] = f[r + 1]
    OBVIOUS
  <2>1. r \in 0 .. 40 /\ r \in 0 .. s - 1 /\ r <= s
    BY <1>6
  <2> QED
    BY <1>4, <1>7, <1>9, <2>1
<1> HIDE DEF T
<1>10. s \in T
  BY <1>6, <1>8, <1>9, AllNumbers
<1>11. f[0] = s
  BY <1>4, <1>6, <1>10 DEF T
<1> QED
  BY <1>3, <1>6, <1>7, <1>11

(* What has no more than that many significant bits, or at least 40 zeros  *)
(* below them: Nearest() goes no further.                                  *)
Exact(x, bits) ==
  \E e \in 0 .. 40 : \E k \in Int : /\ x = k * 2 ^ e
                                    /\ (-(2 ^ bits) <= k /\ k <= 2 ^ bits) \/ e = 40

LEMMA AbsIs ==
  ASSUME NEW x \in Int
  PROVE  Abs(x) \in Nat /\ (x >= 0 => Abs(x) = x) /\ (x < 0 => Abs(x) = -x)
BY DEF Abs

LEMMA HalfEvenIs ==
  ASSUME NEW a \in Nat, NEW D \in Nat, D >= 1
  PROVE  /\ HalfEven(a, D) \in Nat
         /\ \A c \in Nat : a <= c * D => HalfEven(a, D) <= c
         /\ \A c \in Nat : a = c * D => HalfEven(a, D) = c
<1> DEFINE q == a \div D
           r == a % D
<1>1. a = D * q + r /\ q \in Nat /\ r \in 0 .. D - 1
  BY DivMod
<1>2. HalfEven(a, D) \in {q, q + 1} /\ (r = 0 => HalfEven(a, D) = q)
  BY <1>1 DEF HalfEven
<1> HIDE DEF q, r
<1>3. ASSUME NEW c \in Nat, a <= c * D
      PROVE  HalfEven(a, D) <= c
  <2>1. CASE c <= q
    <3>1. c * D <= D * q
      BY <1>1, <2>1
    <3>2. D * q \in Nat /\ r \in Nat /\ D * q + r <= c * D /\ c * D \in Nat
      BY <1>1, <1>3
    <3>3. r = 0 /\ D * q = c * D
      BY <3>1, <3>2
    <3>4. q <= c
      <4> SUFFICES ASSUME q >= c + 1 PROVE FALSE
        BY <1>1
      <4>1. D * q >= D * (c + 1)
        BY <1>1
      <4>2. D * (c + 1) = c * D + D
        OBVIOUS
      <4> QED
        BY <3>2, <3>3, <4>1, <4>2
    <3> QED
      BY <1>1, <1>2, <3>3, <3>4
  <2>2. CASE q < c
    BY <1>1, <1>2, <2>2
  <2> QED
    BY <1>1, <2>1, <2>2
<1>4. ASSUME NEW c \in Nat, a = c * D
      PROVE  HalfEven(a, D) = c
  <2>1. c * D = D * q + r
    BY <1>1, <1>4
  <2>2. c = q
    <3>1. CASE c >= q + 1
      <4>1. c * D >= (q + 1) * D /\ (q + 1) * D = D * q + D
        BY <1>1, <3>1
      <4>2. c * D \in Nat /\ D * q \in Nat
        BY <1>1
      <4> QED
        BY <1>1, <2>1, <4>1, <4>2
    <3>2. CASE c <= q - 1
      <4>1. c * D <= (q - 1) * D /\ (q - 1) * D = D * q - D
        BY <1>1, <3>2
      <4>2. c * D \in Nat /\ D * q \in Nat
        BY <1>1
      <4> QED
        BY <1>1, <2>1, <4>1, <4>2
    <3> QED
      BY <1>1, <3>1, <3>2
  <2>3. r = 0
    <3>1. c * D = D * q /\ D * q \in Nat
      BY <1>1, <2>2
    <3> QED
      BY <1>1, <2>1, <3>1
  <2> QED
    BY <1>2, <2>2, <2>3
<1> QED
  BY <1>1, <1>2, <1>3, <1>4

LEMMA RoundedIs ==
  ASSUME NEW num \in Int, NEW den \in Nat, den >= 1, NEW P \in Nat, P >= 1
  PROVE  \E h \in Nat : /\ h = HalfEven(Abs(num), den * P)
                        /\ Rounded(num, den, P) = IF num < 0 THEN (-h) * P ELSE h * P
<1> DEFINE D == den * P
           h == HalfEven(Abs(num), D)
<1>1. D \in Nat /\ D >= 1
  <2>1. den * P >= den
    OBVIOUS
  <2> QED
    BY <2>1
<1>2. Abs(num) \in Nat
  BY AbsIs
<1> HIDE DEF D
<1>3. h \in Nat
  BY <1>1, <1>2, HalfEvenIs
<1>4. Rounded(num, den, P) = IF num < 0 THEN -(h * P) ELSE h * P
  BY DEF Rounded, D
<1>5. h = HalfEven(Abs(num), den * P)
  BY DEF D
<1> HIDE DEF h
<1>6. -(h * P) = (-h) * P
  BY <1>3
<1> QED
  BY <1>3, <1>4, <1>5, <1>6

(* What Nearest() gives is exact, and has the sign of the number. *)
LEMMA NearestExact ==
  ASSUME NEW num \in Int, NEW den \in Nat, den >= 1, NEW bits \in Nat
  PROVE  /\ Nearest(num, den, bits) \in Int /\ Exact(Nearest(num, den, bits), bits)
         /\ num >= 0 => Nearest(num, den, bits) >= 0
         /\ num < 0 => Nearest(num, den, bits) <= 0
<1>1. PICK s \in 0 .. 40 : /\ Fits(num, den, bits, s)
                           /\ Nearest(num, den, bits) = Rounded(num, den, 2 ^ s)
  BY NearestIs
<1> DEFINE P == 2 ^ s
           N == Nearest(num, den, bits)
           B == 2 ^ bits
<1>2. P \in Nat /\ P >= 1 /\ B \in Nat /\ B >= 1
  <2>1. s \in Nat
    OBVIOUS
  <2> QED
    BY <2>1, PowerPositive
<1> HIDE DEF P, N, B
<1>3. N = Rounded(num, den, P)
  BY <1>1 DEF N, P
<1>4. PICK h \in Nat : /\ h = HalfEven(Abs(num), den * P)
                       /\ N = IF num < 0 THEN (-h) * P ELSE h * P
  BY <1>2, <1>3, RoundedIs
<1> DEFINE k == IF num < 0 THEN -h ELSE h
<1>5. k \in Int /\ N = k * P /\ N \in Int
  BY <1>2, <1>4
<1>6. s = 40 \/ h <= B
  <2> SUFFICES ASSUME s # 40 PROVE h <= B
    OBVIOUS
  <2>1. Abs(num) < den * 2 ^ (bits + s)
    BY <1>1 DEF Fits
  <2>2. 2 ^ (bits + s) = B * P
    <3>1. s \in Nat
      OBVIOUS
    <3> QED
      BY <3>1, PowerSum DEF B, P
  <2>3. den * (B * P) = B * (den * P) /\ den * P \in Nat /\ den * P >= 1
    <3>1. den * P >= den
      BY <1>2
    <3> QED
      BY <1>2, <3>1
  <2>4. Abs(num) \in Nat /\ Abs(num) <= B * (den * P)
    <3>1. B * (den * P) \in Nat
      BY <1>2, <2>3
    <3> QED
      BY <2>1, <2>2, <2>3, <3>1, AbsIs
  <2> DEFINE D == den * P
             a == Abs(num)
  <2>5. a \in Nat /\ D \in Nat /\ D >= 1 /\ a <= B * D /\ h = HalfEven(a, D)
    BY <1>4, <2>3, <2>4
  <2> HIDE DEF D, a
  <2> QED
    BY <1>2, <2>5, HalfEvenIs
<1>7. Exact(N, bits)
  <2>1. (-B <= k /\ k <= B) \/ s = 40
    BY <1>2, <1>4, <1>6
  <2> HIDE DEF k
  <2> QED
    BY <1>5, <2>1 DEF Exact, P, B
<1>8. (num >= 0 => N >= 0) /\ (num < 0 => N <= 0)
  <2>1. h * P \in Nat /\ (-h) * P = -(h * P)
    BY <1>2
  <2> QED
    BY <1>4, <2>1
<1> QED
  BY <1>5, <1>7, <1>8 DEF N

(* A power of two is greater than what it is compared with by its exponent. *)
LEMMA TimesLess ==
  ASSUME NEW a \in Nat, NEW b \in Nat, NEW P \in Nat, P >= 1
  PROVE  (a * P < b * P) <=> (a < b)
<1>1. ASSUME a < b PROVE a * P < b * P
  <2>1. (a + 1) * P <= b * P /\ (a + 1) * P = a * P + P
    BY <1>1
  <2>2. a * P \in Nat /\ b * P \in Nat
    OBVIOUS
  <2> QED
    BY <2>1, <2>2
<1>2. ASSUME b <= a PROVE b * P <= a * P
  BY <1>2
<1>3. a * P \in Nat /\ b * P \in Nat
  OBVIOUS
<1> QED
  BY <1>1, <1>2, <1>3

LEMMA AbsTimes ==
  ASSUME NEW k \in Int, NEW P \in Nat, P >= 1
  PROVE  Abs(k * P) = Abs(k) * P /\ Abs(k) \in Nat /\ (k * P < 0 <=> k < 0)
<1>1. k < 0 => k * P < 0 /\ -(k * P) = (-k) * P
  <2> SUFFICES ASSUME k < 0 PROVE k * P < 0 /\ -(k * P) = (-k) * P
    OBVIOUS
  <2>1. (-k) * P >= P /\ -(k * P) = (-k) * P
    OBVIOUS
  <2> QED
    BY <2>1
<1>2. k >= 0 => k * P >= 0
  OBVIOUS
<1>3. k * P \in Int
  OBVIOUS
<1> QED
  BY <1>1, <1>2, <1>3 DEF Abs

(* What is exact stays. *)
LEMMA ExactStays ==
  ASSUME NEW x \in Int, NEW bits \in Nat, bits >= 1, Exact(x, bits)
  PROVE  Nearest(x, 1, bits) = x
<1>1. PICK e \in 0 .. 40, k \in Int : /\ x = k * 2 ^ e
                                      /\ (-(2 ^ bits) <= k /\ k <= 2 ^ bits) \/ e = 40
  BY DEF Exact
<1>2. PICK s \in 0 .. 40 : /\ Fits(x, 1, bits, s) /\ \A r \in 0 .. s - 1 : ~ Fits(x, 1, bits, r)
                           /\ Nearest(x, 1, bits) = Rounded(x, 1, 2 ^ s)
  BY NearestIs
<1> DEFINE E == 2 ^ e
           P == 2 ^ s
           B == 2 ^ bits
<1>3. e \in Nat /\ s \in Nat /\ E \in Nat /\ E >= 1 /\ P \in Nat /\ P >= 1 /\ B \in Nat /\ B >= 1
  <2>1. e \in Nat /\ s \in Nat
    OBVIOUS
  <2> QED
    BY <2>1, PowerPositive
<1>4. \E j \in Int : x = j * P
  <2>1. CASE s <= e
    <3>1. e - s \in Nat /\ (e - s) + s = e
      BY <1>3, <2>1
    <3>2. E = 2 ^ (e - s) * P /\ 2 ^ (e - s) \in Nat
      BY <1>3, <3>1, PowerSum, PowerPositive
    <3> DEFINE y == 2 ^ (e - s)
    <3>3. y \in Nat /\ E = y * P
      BY <3>2
    <3>4. x = k * E
      BY <1>1
    <3> HIDE DEF E, P, y
    <3>5. x = (k * y) * P /\ k * y \in Int
      BY <1>3, <3>3, <3>4
    <3> QED
      BY <3>5
  <2>2. CASE e < s
    <3>1. e \in 0 .. s - 1 /\ e # 40
      BY <1>3, <2>2
    <3>2. ~ (Abs(x) < 1 * 2 ^ (bits + e))
      BY <1>2, <3>1 DEF Fits
    <3>3. 2 ^ (bits + e) = B * E
      BY <1>3, PowerSum
    <3>4. x = k * E /\ -B <= k /\ k <= B
      BY <1>1, <3>1
    <3> HIDE DEF E, P, B
    <3>5. Abs(x) = Abs(k) * E /\ Abs(k) \in Nat
      BY <1>3, <3>4, AbsTimes
    <3>6. ~ (Abs(k) * E < B * E)
      <4>1. B * E \in Nat
        BY <1>3
      <4> QED
        BY <3>2, <3>3, <3>5, <4>1
    <3>7. ~ (Abs(k) < B)
      BY <1>3, <3>5, <3>6, TimesLess
    <3>8. k = B \/ k = -B
      BY <1>3, <3>4, <3>7 DEF Abs
    <3>9. s = e + 1
      <4> SUFFICES ASSUME s # e + 1 PROVE FALSE
        OBVIOUS
      <4>1. e + 1 \in 0 .. s - 1 /\ e + 1 \in Nat
        BY <1>3, <2>2
      <4>2. ~ (Abs(x) < 1 * 2 ^ (bits + (e + 1)))
        BY <1>2, <4>1 DEF Fits
      <4>3. 2 ^ (bits + (e + 1)) = 2 * (B * E)
        <5>1. bits + (e + 1) = (bits + e) + 1 /\ bits + e \in Nat
          BY <1>3
        <5>2. 2 ^ ((bits + e) + 1) = 2 * 2 ^ (bits + e)
          BY <5>1, PowerDoubles
        <5> QED
          BY <3>3, <5>1, <5>2
      <4>4. Abs(k) = B
        BY <1>3, <3>8 DEF Abs
      <4>5. B * E >= 1 /\ B * E \in Nat
        <5>1. B * E >= B
          BY <1>3
        <5> QED
          BY <1>3, <5>1
      <4> QED
        BY <3>5, <4>2, <4>3, <4>4, <4>5
    <3>10. P = 2 * E
      BY <1>3, <3>9, PowerDoubles DEF E, P
    <3>11. \E c \in Nat : B = 2 * c
      <4>1. bits - 1 \in Nat /\ (bits - 1) + 1 = bits
        OBVIOUS
      <4>2. 2 ^ bits = 2 * 2 ^ (bits - 1) /\ 2 ^ (bits - 1) \in Nat
        BY <4>1, PowerDoubles, PowerPositive
      <4> QED
        BY <4>2 DEF B
    <3>12. PICK c \in Nat : B = 2 * c
      BY <3>11
    <3>13. (2 * c) * E = c * P /\ (-(2 * c)) * E = (-c) * P
      BY <1>3, <3>10
    <3> QED
      BY <3>4, <3>8, <3>12, <3>13
  <2> QED
    BY <1>3, <2>1, <2>2
<1>5. PICK j \in Int : x = j * P
  BY <1>4
<1> HIDE DEF P
<1>6. Abs(x) = Abs(j) * P /\ Abs(j) \in Nat /\ (x < 0 <=> j < 0)
  BY <1>3, <1>5, AbsTimes
<1>7. HalfEven(Abs(x), P) = Abs(j)
  <2>1. Abs(x) \in Nat
    BY AbsIs
  <2> QED
    BY <1>3, <1>6, <2>1, HalfEvenIs
<1>8. Nearest(x, 1, bits) = Rounded(x, 1, P)
  BY <1>2 DEF P
<1>9. Rounded(x, 1, P) = IF x < 0 THEN -(Abs(j) * P) ELSE Abs(j) * P
  <2>1. 1 * P = P
    BY <1>3
  <2> QED
    BY <1>7, <2>1 DEF Rounded
<1>10. (x < 0 => x = -Abs(x)) /\ (x >= 0 => x = Abs(x))
  BY AbsIs
<1> QED
  BY <1>6, <1>8, <1>9, <1>10

-----------------------------------------------------------------------------
(* Conversions *)

LEMMA FractionIs ==
  /\ Fraction \in Nat /\ 2 ^ Fraction \in Nat /\ 2 ^ Fraction >= 1 /\ 2 ^ (Fraction - 1) \in Nat
  /\ DoubleBits \in Nat /\ DoubleBits >= 1 /\ FloatBits \in Nat /\ FloatBits >= 1
<1>1. Fraction \in Nat /\ Fraction - 1 \in Nat
  BY NumbersAssumption
<1>2. DoubleBits \in Nat /\ DoubleBits >= 1 /\ FloatBits \in Nat /\ FloatBits >= 1
  BY NumbersAssumption
<1> QED
  BY <1>1, <1>2, PowerPositive

LEMMA DivExact ==
  ASSUME NEW c \in Nat, NEW D \in Nat, D >= 1
  PROVE  (c * D) \div D = c
<1> DEFINE a == c * D
           q == a \div D
           r == a % D
<1>0. a \in Nat
  OBVIOUS
<1>1. a \in Nat /\ a = D * q + r /\ q \in Nat /\ r \in 0 .. D - 1
  <2> HIDE DEF a
  <2> QED
    BY <1>0, DivMod
<1>2. HalfEven(a, D) = c
  BY <1>1, HalfEvenIs
<1> HIDE DEF q, r
<1>3. a = c * D
  OBVIOUS
<1> HIDE DEF a
<1>4. ~ (q + 1 <= c)
  <2> SUFFICES ASSUME q + 1 <= c PROVE FALSE
    OBVIOUS
  <2>1. (q + 1) * D <= c * D /\ (q + 1) * D = D * q + D /\ D * q \in Nat /\ c * D \in Nat
    BY <1>1
  <2> QED
    BY <1>1, <1>3, <2>1
<1>5. ~ (c + 1 <= q)
  <2> SUFFICES ASSUME c + 1 <= q PROVE FALSE
    OBVIOUS
  <2>1. (c + 1) * D <= D * q /\ (c + 1) * D = c * D + D /\ D * q \in Nat /\ c * D \in Nat
    BY <1>1
  <2> QED
    BY <1>1, <1>3, <2>1
<1>6. q = c
  BY <1>1, <1>4, <1>5
<1> QED
  BY <1>6 DEF q, a

LEMMA TruncatedIs ==
  ASSUME NEW x \in Int
  PROVE  /\ Truncated(x) \in Int
         /\ x >= 0 => Truncated(x) >= 0
         /\ x <= 0 => Truncated(x) <= 0
         /\ \E t \in Nat : /\ t = Abs(x) \div 2 ^ Fraction
                           /\ Truncated(x) = IF x < 0 THEN -t ELSE t
<1>1. Abs(x) \in Nat /\ Abs(x) \div 2 ^ Fraction \in Nat
  BY FractionIs, AbsIs, DivMod
<1>2. Truncated(x) = IF x < 0 THEN -(Abs(x) \div 2 ^ Fraction) ELSE Abs(x) \div 2 ^ Fraction
  BY AbsIs DEF Truncated
<1> DEFINE t == Abs(x) \div 2 ^ Fraction
<1>3. t \in Nat /\ Truncated(x) = IF x < 0 THEN -t ELSE t
  BY <1>1, <1>2
<1>4. x = 0 => t = 0
  <2> SUFFICES ASSUME x = 0 PROVE t = 0
    OBVIOUS
  <2>1. Abs(x) = 0 * 2 ^ Fraction
    BY FractionIs DEF Abs
  <2> QED
    BY <2>1, FractionIs, DivExact
<1>5. t = Abs(x) \div 2 ^ Fraction
  OBVIOUS
<1> HIDE DEF t
<1> QED
  BY <1>3, <1>4, <1>5

LEMMA TruncatedExact ==
  ASSUME NEW x \in Int, NEW bits \in Nat, Exact(x, bits)
  PROVE  Exact(Units(Truncated(x)), bits)
<1>1. PICK e \in 0 .. 40, k \in Int : /\ x = k * 2 ^ e
                                      /\ (-(2 ^ bits) <= k /\ k <= 2 ^ bits) \/ e = 40
  BY DEF Exact
<1>2. PICK t \in Nat : /\ t = Abs(x) \div 2 ^ Fraction
                       /\ Truncated(x) = IF x < 0 THEN -t ELSE t
  BY TruncatedIs
<1> DEFINE E == 2 ^ e
           U == 2 ^ Fraction
           B == 2 ^ bits
<1>3. e \in Nat /\ Fraction \in Nat /\ E \in Nat /\ E >= 1 /\ U \in Nat /\ U >= 1 /\ B \in Nat /\ B >= 1
  <2>1. e \in Nat
    OBVIOUS
  <2> QED
    BY <2>1, FractionIs, PowerPositive
<1>4. Abs(x) = Abs(k) * E /\ Abs(k) \in Nat /\ (x < 0 <=> k < 0)
  BY <1>1, <1>3, AbsTimes
<1>5. CASE Fraction <= e
  <2>1. e - Fraction \in Nat /\ (e - Fraction) + Fraction = e
    BY <1>3, <1>5
  <2> DEFINE y == 2 ^ (e - Fraction)
  <2>2. y \in Nat /\ E = y * U
    BY <1>3, <2>1, PowerSum, PowerPositive
  <2>3. x = k * E
    BY <1>1
  <2>4. t = Abs(x) \div U
    BY <1>2
  <2> HIDE DEF E, U, B, y
  <2>5. Abs(k) * y \in Nat /\ Abs(x) = (Abs(k) * y) * U
    BY <1>3, <1>4, <2>2
  <2>6. t = Abs(k) * y
    BY <1>3, <2>4, <2>5, DivExact
  <2>7. Truncated(x) = k * y
    <3>1. (k < 0 => Abs(k) = -k) /\ (k >= 0 => Abs(k) = k)
      BY AbsIs
    <3>2. (-k) * y = -(k * y) /\ k * y \in Int
      BY <2>2
    <3> QED
      BY <1>2, <1>4, <2>6, <3>1, <3>2
  <2>8. Units(Truncated(x)) = x
    <3>1. (k * y) * U = k * (y * U)
      BY <1>3, <2>2
    <3> QED
      BY <2>2, <2>3, <2>7, <3>1 DEF Units, U
  <2> QED
    BY <2>8
<1>6. CASE e < Fraction
  <2>1. Fraction - e \in Nat /\ (Fraction - e) + e = Fraction
    BY <1>3, <1>6
  <2> DEFINE y == 2 ^ (Fraction - e)
             j == IF x < 0 THEN -(t * y) ELSE t * y
  <2>2. y \in Nat /\ U = y * E
    BY <1>3, <2>1, PowerSum, PowerPositive
  <2>3. t = Abs(x) \div U /\ Abs(x) \in Nat
    BY <1>2, AbsIs
  <2>4. U * t <= Abs(x) /\ U * t \in Nat
    <3>1. Abs(x) = U * (Abs(x) \div U) + (Abs(x) % U) /\ Abs(x) \div U \in Nat /\ Abs(x) % U \in 0 .. U - 1
      BY <1>3, <2>3, DivMod
    <3>2. U * t \in Nat
      BY <1>3
    <3> HIDE DEF U
    <3> QED
      BY <2>3, <3>1, <3>2
  <2>5. (-B <= k /\ k <= B) \/ e = 40
    BY <1>1
  <2>6. Units(Truncated(x)) = IF x < 0 THEN (-t) * U ELSE t * U
    BY <1>2 DEF Units
  <2> HIDE DEF E, U, B, y
  <2>7. U * t = (t * y) * E /\ t * y \in Nat
    BY <1>3, <2>2
  <2>8. t * y <= Abs(k)
    <3>1. ~ (Abs(k) * E < (t * y) * E)
      BY <1>4, <2>3, <2>4, <2>7
    <3>2. ~ (Abs(k) < t * y)
      BY <1>3, <1>4, <2>7, <3>1, TimesLess
    <3> QED
      BY <1>4, <2>7, <3>2
  <2>9. Units(Truncated(x)) = j * E /\ j \in Int
    <3>1. (-t) * U = (-(t * y)) * E /\ t * U = (t * y) * E
      BY <1>3, <2>2
    <3> QED
      BY <2>6, <2>7, <3>1
  <2>10. (-B <= j /\ j <= B) \/ e = 40
    <3>1. -B <= k /\ k <= B => Abs(k) <= B
      BY <1>3 DEF Abs
    <3> QED
      BY <1>3, <1>4, <2>5, <2>7, <2>8, <3>1
  <2> HIDE DEF j
  <2> QED
    BY <2>9, <2>10 DEF Exact, E, B
<1> QED
  BY <1>3, <1>5, <1>6

LEMMA PowerExact ==
  ASSUME NEW m \in Nat, NEW bits \in Nat
  PROVE  Exact(-(2 ^ m), bits) /\ Exact(0, bits)
<1>1. 2 ^ bits \in Nat /\ 2 ^ bits >= 1 /\ 2 ^ m \in Nat
  BY PowerPositive
<1>2. Exact(0, bits)
  <2> USE DEF Exact
  <2>1. 0 = 0 * 2 ^ 0
    BY PowerZero
  <2>2. -(2 ^ bits) <= 0 /\ 0 <= 2 ^ bits
    BY <1>1
  <2> WITNESS 0 \in 0 .. 40
  <2> WITNESS 0 \in Int
  <2> QED
    BY <2>1, <2>2
<1>3. CASE m <= 40
  <2>1. m \in 0 .. 40 /\ -1 \in Int /\ -(2 ^ m) = (-1) * 2 ^ m /\ -(2 ^ bits) <= -1 /\ -1 <= 2 ^ bits
    BY <1>1, <1>3
  <2> QED
    BY <1>2, <2>1 DEF Exact
<1>4. CASE m > 40
  <2> DEFINE y == 2 ^ (m - 40)
             z == 2 ^ 40
  <2>1. m - 40 \in Nat /\ (m - 40) + 40 = m /\ 40 \in Nat
    BY <1>4
  <2>2. 2 ^ m = y * z /\ y \in Nat /\ z \in Nat
    BY <2>1, PowerSum, PowerPositive
  <2> HIDE DEF y, z
  <2>3. -(2 ^ m) = (-y) * z /\ -y \in Int
    BY <2>2
  <2>4. 40 \in 0 .. 40
    OBVIOUS
  <2> QED
    BY <1>2, <2>3, <2>4 DEF Exact, z
<1> QED
  BY <1>3, <1>4

(* The low bits of an exact number are. *)
LEMMA LowBitsExact ==
  ASSUME NEW t \in Nat, NEW n \in Nat, NEW bits \in Nat, Exact(Units(t), bits)
  PROVE  Exact(Units(t % 2 ^ n), bits)
<1>1. PICK e \in 0 .. 40, k \in Int : /\ Units(t) = k * 2 ^ e
                                      /\ (-(2 ^ bits) <= k /\ k <= 2 ^ bits) \/ e = 40
  BY DEF Exact
<1> DEFINE E == 2 ^ e
           U == 2 ^ Fraction
           W == 2 ^ n
           q == t \div W
           r == t % W
<1>2. /\ e \in Nat /\ Fraction \in Nat /\ E \in Nat /\ E >= 1 /\ U \in Nat /\ U >= 1 /\ W \in Nat /\ W >= 1
      /\ 2 ^ bits \in Nat
  <2>1. e \in Nat
    OBVIOUS
  <2> QED
    BY <2>1, FractionIs, PowerPositive
<1>3. t = W * q + r /\ q \in Nat /\ r \in 0 .. W - 1
  BY <1>2, DivMod
<1>4. t * U = k * E
  BY <1>1 DEF Units
<1>5. Units(t % 2 ^ n) = r * U
  BY DEF Units
<1>6. 2 ^ (n + Fraction) = W * U /\ n + Fraction \in Nat
  BY <1>2, PowerSum
<1>7. CASE e <= n + Fraction
  <2> DEFINE y == 2 ^ (n + Fraction - e)
             j == k - q * y
  <2>1. n + Fraction - e \in Nat /\ (n + Fraction - e) + e = n + Fraction
    BY <1>2, <1>7
  <2>2. y \in Nat /\ W * U = y * E
    BY <1>2, <1>6, <2>1, PowerSum, PowerPositive
  <2>3. (-(2 ^ bits) <= k /\ k <= 2 ^ bits) \/ e = 40
    BY <1>1
  <2> HIDE DEF U, W, q, r, y, E
  <2>4. q * y \in Nat /\ j \in Int
    BY <1>3, <2>2
  <2>5. r * U = j * E
    <3>1. t * U = (W * q + r) * U
      BY <1>3
    <3>2. (W * q + r) * U = q * (W * U) + r * U
      BY <1>2, <1>3
    <3>3. q * (W * U) = (q * y) * E
      BY <1>2, <1>3, <2>2
    <3>4. (k - q * y) * E = k * E - (q * y) * E
      BY <1>2, <2>4
    <3>5. (q * y) * E \in Nat /\ r * U \in Nat /\ k * E \in Int
      BY <1>2, <1>3, <2>4
    <3> QED
      BY <1>4, <3>1, <3>2, <3>3, <3>4, <3>5
  <2>6. j <= k
    BY <2>4
  <2>7. j >= 0
    <3> SUFFICES ASSUME j < 0 PROVE FALSE
      BY <2>4
    <3>1. j * E < 0
      BY <1>2, <2>4, AbsTimes
    <3>2. r * U \in Nat
      BY <1>2, <1>3
    <3> QED
      BY <2>5, <3>1, <3>2
  <2> HIDE DEF j
  <2>8. (-(2 ^ bits) <= j /\ j <= 2 ^ bits) \/ e = 40
    BY <1>2, <2>3, <2>4, <2>6, <2>7
  <2> QED
    BY <1>5, <2>4, <2>5, <2>8 DEF Exact, E
<1>8. CASE n + Fraction < e
  <2> DEFINE y == 2 ^ (e - (n + Fraction))
  <2>1. e - (n + Fraction) \in Nat /\ (e - (n + Fraction)) + (n + Fraction) = e
    BY <1>2, <1>8
  <2>2. y \in Nat /\ E = y * (W * U)
    BY <1>6, <2>1, PowerSum, PowerPositive
  <2> HIDE DEF U, W, y, E
  <2>3. t * U = ((k * y) * W) * U /\ k * y \in Int
    BY <1>2, <1>4, <2>2
  <2>4. k * y >= 0
    <3> SUFFICES ASSUME k * y < 0 PROVE FALSE
      BY <2>3
    <3> DEFINE z == k * y
    <3>1. z \in Int /\ z < 0 /\ t * U = (z * W) * U
      BY <2>3
    <3> HIDE DEF z
    <3>2. z * W < 0 /\ z * W \in Int
      BY <1>2, <3>1, AbsTimes
    <3>3. (z * W) * U < 0
      BY <1>2, <3>2, AbsTimes
    <3>4. t * U \in Nat
      BY <1>2
    <3> QED
      BY <3>1, <3>3, <3>4
  <2> DEFINE z == k * y
  <2>5. z \in Nat /\ z * W \in Nat /\ t * U = (z * W) * U
    BY <1>2, <2>3, <2>4
  <2> HIDE DEF z
  <2>6. t = z * W
    <3>1. ~ (t * U < (z * W) * U) /\ ~ ((z * W) * U < t * U)
      <4>1. t * U \in Nat
        BY <1>2
      <4> QED
        BY <2>5, <4>1
    <3>2. ~ (t < z * W) /\ ~ (z * W < t)
      BY <1>2, <2>5, <3>1, TimesLess
    <3> QED
      BY <2>5, <3>2
  <2>7. q = z
    BY <1>2, <2>5, <2>6, DivExact
  <2> HIDE DEF q, r
  <2>8. r = 0
    <3>1. W * q = z * W /\ W * q \in Nat
      BY <1>2, <1>3, <2>5, <2>7
    <3> QED
      BY <1>3, <2>6, <3>1
  <2>9. Units(t % 2 ^ n) = 0
    BY <1>2, <1>5, <2>8
  <2> QED
    BY <2>9, PowerExact
<1> QED
  BY <1>2, <1>7, <1>8

LEMMA DivUnique ==
  ASSUME NEW D \in Nat, D >= 1
  PROVE  \A a, q, r \in Int : a = D * q + r /\ r \in 0 .. D - 1 => a % D = r
<1> SUFFICES ASSUME NEW a \in Int, NEW q \in Int, NEW r \in 0 .. D - 1, a = D * q + r
             PROVE  a % D = r
  OBVIOUS
<1> DEFINE p == a \div D
           s == a % D
<1>1. a = D * p + s /\ p \in Int /\ s \in 0 .. D - 1
  OBVIOUS
<1> HIDE DEF p, s
<1>2. D * p + s = D * q + r
  BY <1>1
<1>3. p = q
  <2>1. D * p \in Int /\ D * q \in Int
    BY <1>1
  <2>2. CASE p >= q + 1
    <3>1. D * (p - q) >= D * 1
      BY <1>1, <2>2
    <3>2. D * (p - q) = D * p - D * q
      BY <1>1
    <3> QED
      BY <1>1, <1>2, <2>1, <3>1, <3>2
  <2>3. CASE q >= p + 1
    <3>1. D * (q - p) >= D * 1
      BY <1>1, <2>3
    <3>2. D * (q - p) = D * q - D * p
      BY <1>1
    <3> QED
      BY <1>1, <1>2, <2>1, <3>1, <3>2
  <2> QED
    BY <1>1, <2>2, <2>3
<1>4. s = r
  <2>1. D * p \in Int /\ D * q = D * p
    BY <1>1, <1>3
  <2> QED
    BY <1>1, <1>2, <2>1
<1> QED
  BY <1>4 DEF s

(* The bounds of the integer types by two powers: A that of the narrow     *)
(* signed one, C that of the wide one                                      *)
RangesBy(A, C) ==
  /\ A \in Nat /\ A >= 1 /\ C \in Nat /\ 2 * A <= C
  /\ MinOf("INT32") = -A /\ MaxOf("INT32") = A - 1
  /\ MinOf("UINT32") = 0 /\ MaxOf("UINT32") = 2 * A - 1
  /\ MinOf("INT64") = -C /\ MaxOf("INT64") = C - 1
  /\ MinOf("UINT64") = 0 /\ MaxOf("UINT64") = 2 * C - 1
  /\ 2 ^ Bits("INT32") = 2 * A /\ 2 ^ Bits("UINT32") = 2 * A
  /\ 2 ^ Bits("INT64") = 2 * C /\ 2 ^ Bits("UINT64") = 2 * C

LEMMA Ranges ==
  /\ RangesBy(2 ^ (Bits32 - 1), 2 ^ (Bits64 - 1))
  /\ Bits32 - 1 \in Nat /\ Bits64 - 1 \in Nat /\ Bits32 \in Nat /\ Bits64 \in Nat /\ Bits32 <= Bits64 - 1
<1>1. /\ Bits32 - 1 \in Nat /\ Bits64 - 1 \in Nat /\ Bits32 \in Nat /\ Bits64 \in Nat
      /\ Bits32 <= Bits64 - 1 /\ Bits32 - 1 + 1 = Bits32 /\ Bits64 - 1 + 1 = Bits64
  BY NumbersAssumption
<1> DEFINE A == 2 ^ (Bits32 - 1)
           C == 2 ^ (Bits64 - 1)
<1>2. A \in Nat /\ A >= 1 /\ C \in Nat
  BY <1>1, PowerPositive
<1>3. 2 ^ Bits32 = 2 * A /\ 2 ^ Bits64 = 2 * C
  BY <1>1, PowerDoubles
<1>4. 2 * A <= C
  <2>1. 2 ^ Bits32 <= C
    BY <1>1, PowerGrows
  <2> QED
    BY <1>3, <2>1
<1>5. /\ IsSigned("INT32") /\ IsSigned("INT64") /\ ~ IsSigned("UINT32") /\ ~ IsSigned("UINT64")
      /\ Bits("INT32") = Bits32 /\ Bits("UINT32") = Bits32
      /\ Bits("INT64") = Bits64 /\ Bits("UINT64") = Bits64
  BY DEF IsSigned, Bits
<1>6. /\ MinOf("INT32") = -A /\ MaxOf("INT32") = A - 1
      /\ MinOf("INT64") = -C /\ MaxOf("INT64") = C - 1
      /\ MinOf("UINT32") = 0 /\ MaxOf("UINT32") = 2 ^ Bits32 - 1
      /\ MinOf("UINT64") = 0 /\ MaxOf("UINT64") = 2 ^ Bits64 - 1
  BY <1>5 DEF MinOf, MaxOf
<1>7. RangesBy(A, C)
  BY <1>2, <1>3, <1>4, <1>5, <1>6 DEF RangesBy
<1> QED
  BY <1>1, <1>7

LEMMA ModInt ==
  ASSUME NEW a \in Int, NEW d \in Nat, d >= 1
  PROVE  a % d \in 0 .. d - 1 /\ (a \in 0 .. d - 1 => a % d = a)
OBVIOUS

LEMMA CastIs ==
  ASSUME NEW n \in Int, NEW type \in IntTypes
  PROVE  /\ MinOf(type) \in Int /\ MaxOf(type) \in Int
         /\ Cast(n, type) \in MinOf(type) .. MaxOf(type)
         /\ n \in MinOf(type) .. MaxOf(type) => Cast(n, type) = n
<1> DEFINE d == 2 ^ Bits(type)
           m == MinOf(type)
           r == (n - m) % d
<1>1. d \in Nat /\ d >= 1 /\ m \in Int /\ MaxOf(type) = m + d - 1
  <2>1. PICK A, C : RangesBy(A, C)
    BY Ranges
  <2>2. type \in {"INT32", "UINT32", "INT64", "UINT64"}
    BY DEF IntTypes
  <2>3. CASE type = "INT32"
    BY <2>1, <2>3 DEF RangesBy
  <2>4. CASE type = "UINT32"
    BY <2>1, <2>4 DEF RangesBy
  <2>5. CASE type = "INT64"
    BY <2>1, <2>5 DEF RangesBy
  <2>6. CASE type = "UINT64"
    BY <2>1, <2>6 DEF RangesBy
  <2> QED
    BY <2>2, <2>3, <2>4, <2>5, <2>6
<1>2. Cast(n, type) = r + m
  BY DEF Cast
<1> HIDE DEF d, m
<1>3. n - m \in Int
  BY <1>1
<1>4. r \in 0 .. d - 1 /\ (n - m \in 0 .. d - 1 => r = n - m)
  BY <1>1, <1>3, ModInt
<1> HIDE DEF r
<1> QED
  BY <1>1, <1>2, <1>4 DEF m

LEMMA MinExact ==
  ASSUME NEW type \in IntTypes, NEW bits \in Nat
  PROVE  Exact(Units(MinOf(type)), bits)
<1>1. ASSUME NEW m \in Nat
      PROVE  Exact(Units(-(2 ^ m)), bits)
  <2>1. 2 ^ (m + Fraction) = 2 ^ m * 2 ^ Fraction /\ m + Fraction \in Nat /\ 2 ^ m \in Nat
    BY FractionIs, PowerSum, PowerPositive
  <2>2. Units(-(2 ^ m)) = -(2 ^ (m + Fraction))
    <3> DEFINE x == 2 ^ m
               y == 2 ^ Fraction
    <3>1. x \in Nat /\ y \in Nat /\ 2 ^ (m + Fraction) = x * y /\ Units(-(2 ^ m)) = (-x) * y
      BY <2>1, FractionIs DEF Units
    <3> HIDE DEF x, y
    <3>2. (-x) * y = -(x * y)
      BY <3>1
    <3> QED
      BY <3>1, <3>2
  <2> QED
    BY <2>1, <2>2, PowerExact
<1>2. Exact(Units(0), bits)
  BY FractionIs, PowerExact DEF Units
<1>3. PICK A, C : RangesBy(A, C) /\ A = 2 ^ (Bits32 - 1) /\ C = 2 ^ (Bits64 - 1)
  BY Ranges
<1>4. /\ MinOf("INT32") = -(2 ^ (Bits32 - 1)) /\ MinOf("INT64") = -(2 ^ (Bits64 - 1))
      /\ MinOf("UINT32") = 0 /\ MinOf("UINT64") = 0
  BY <1>3 DEF RangesBy
<1>5. Bits32 - 1 \in Nat /\ Bits64 - 1 \in Nat
  BY Ranges
<1>6. Exact(Units(-(2 ^ (Bits32 - 1))), bits) /\ Exact(Units(-(2 ^ (Bits64 - 1))), bits)
  BY <1>1, <1>5
<1> QED
  BY <1>2, <1>4, <1>6 DEF IntTypes

(* A cast of an exact number is exact too, or a negative one made positive *)
(* by its width.                                                           *)
LEMMA ToIntegerExact ==
  ASSUME NEW t \in Int, NEW type \in IntTypes, NEW bits \in Nat, Exact(Units(t), bits)
  PROVE  /\ ToInteger(t, type) \in Int
         /\ Exact(Units(ToInteger(t, type)), bits) \/ (t < 0 /\ ToInteger(t, type) >= 0)
<1>1. PICK A, C : RangesBy(A, C) /\ A = 2 ^ (Bits32 - 1) /\ C = 2 ^ (Bits64 - 1)
  BY Ranges
<1>2. A \in Nat /\ A >= 1 /\ C \in Nat /\ 2 * A <= C /\ MinOf("INT64") = -C /\ MaxOf("INT64") = C - 1
  BY <1>1 DEF RangesBy
<1>3. "INT64" \in IntTypes /\ "UINT32" \in IntTypes /\ "UINT64" \in IntTypes
  BY DEF IntTypes
<1>4. Exact(Units(0), bits)
  BY FractionIs, PowerExact DEF Units
<1>5. ASSUME NEW u \in {"UINT32", "UINT64"}, NEW n \in Int
      PROVE  /\ Cast(n, u) = n % 2 ^ Bits(u) /\ Cast(n, u) \in Int /\ Cast(n, u) >= 0
             /\ n >= 0 /\ Exact(Units(n), bits) => Exact(Units(Cast(n, u)), bits)
  <2>1. MinOf(u) = 0 /\ Bits(u) \in Nat
    BY <1>1, Ranges DEF RangesBy, Bits
  <2>2. 2 ^ Bits(u) \in Nat /\ 2 ^ Bits(u) >= 1
    BY <2>1, PowerPositive
  <2>3. n % 2 ^ Bits(u) \in 0 .. 2 ^ Bits(u) - 1
    BY <2>2, ModInt
  <2>4. Cast(n, u) = n % 2 ^ Bits(u)
    <3>1. Cast(n, u) = ((n - 0) % 2 ^ Bits(u)) + 0
      BY <2>1 DEF Cast
    <3>2. n - 0 = n
      OBVIOUS
    <3> DEFINE r == n % 2 ^ Bits(u)
    <3>3. r \in Int
      BY <2>2, <2>3
    <3> HIDE DEF r
    <3>4. r + 0 = r
      BY <3>3
    <3> QED
      BY <3>1, <3>2, <3>4 DEF r
  <2>5. n >= 0 /\ Exact(Units(n), bits) => Exact(Units(n % 2 ^ Bits(u)), bits)
    BY <2>1, LowBitsExact
  <2>6. n % 2 ^ Bits(u) \in Int /\ n % 2 ^ Bits(u) >= 0
    BY <2>2, <2>3
  <2> QED
    BY <2>4, <2>5, <2>6
<1>6. ASSUME NEW n \in Int
      PROVE  Signed(n, "INT64") = IF n \in -C .. C - 1 THEN n ELSE -C
  BY <1>2 DEF Signed
<1>7. CASE IsSigned(type)
  <2>1. ToInteger(t, type) = IF t \in MinOf(type) .. MaxOf(type) THEN t ELSE MinOf(type)
    BY <1>7 DEF ToInteger, Signed, IsSigned
  <2>2. MinOf(type) \in Int
    BY CastIs
  <2>3. Exact(Units(MinOf(type)), bits)
    BY MinExact
  <2> QED
    BY <2>1, <2>2, <2>3
<1>8. CASE type = "UINT32"
  <2> DEFINE n == Signed(t, "INT64")
  <2>1. ToInteger(t, type) = Cast(n, "UINT32")
    BY <1>8 DEF ToInteger, IsSigned
  <2>2. n = IF t \in -C .. C - 1 THEN t ELSE -C
    BY <1>6
  <2> HIDE DEF n
  <2>3. n \in Int
    BY <1>2, <2>2
  <2>4. Cast(n, "UINT32") \in Int /\ Cast(n, "UINT32") >= 0
    BY <1>5, <2>3
  <2>5. CASE t < 0
    BY <2>1, <2>4, <2>5
  <2>6. CASE t \in 0 .. C - 1
    <3>1. n = t /\ n >= 0
      BY <1>2, <2>2, <2>6
    <3> QED
      BY <1>5, <2>1, <2>3, <2>4, <3>1
  <2>7. CASE t >= C
    <3>1. n = -C
      BY <1>2, <2>2, <2>7
    <3>2. \E y \in Nat : C = y * (2 * A)
      <4>1. 2 ^ Bits32 = 2 * A /\ Bits("UINT32") = Bits32
        BY <1>1 DEF RangesBy, Bits
      <4>2. Bits64 - 1 - Bits32 \in Nat /\ (Bits64 - 1 - Bits32) + Bits32 = Bits64 - 1
        BY Ranges
      <4>3. 2 ^ (Bits64 - 1) = 2 ^ (Bits64 - 1 - Bits32) * 2 ^ Bits32 /\ 2 ^ (Bits64 - 1 - Bits32) \in Nat
        BY <4>2, Ranges, PowerSum, PowerPositive
      <4> QED
        BY <1>1, <4>1, <4>3
    <3>3. PICK y \in Nat : C = y * (2 * A)
      BY <3>2
    <3>4. (-C) % (2 * A) = 0
      <4> DEFINE D == 2 * A
      <4>1. D \in Nat /\ D >= 1 /\ C = y * D
        BY <1>2, <3>3
      <4> HIDE DEF D
      <4>2. -C = D * (-y)
        BY <1>2, <4>1
      <4>3. \A a, q, r \in Int : a = D * q + r /\ r \in 0 .. D - 1 => a % D = r
        BY <4>1, DivUnique
      <4>4. -C = D * (-y) + 0 /\ 0 \in 0 .. D - 1 /\ -C \in Int /\ -y \in Int
        BY <1>2, <4>1, <4>2
      <4> QED
        BY <4>3, <4>4 DEF D
    <3>5. Cast(n, "UINT32") = 0
      <4>1. 2 ^ Bits("UINT32") = 2 * A
        BY <1>1 DEF RangesBy
      <4> QED
        BY <1>5, <2>3, <3>1, <3>4, <4>1
    <3> QED
      BY <1>4, <2>1, <3>5
  <2> QED
    BY <1>2, <2>5, <2>6, <2>7
<1>9. CASE type = "UINT64"
  <2>1. ToInteger(t, type) = IF t <= C - 1 THEN Cast(Signed(t, "INT64"), "UINT64")
                             ELSE Cast(Signed(t + (-C), "INT64") - (-C), "UINT64")
    BY <1>2, <1>9 DEF ToInteger, IsSigned
  <2>2. CASE t < 0
    <3>1. t <= C - 1 /\ Signed(t, "INT64") \in Int
      BY <1>2, <1>6, <2>2
    <3> QED
      BY <1>5, <2>1, <2>2, <3>1
  <2>3. CASE t \in 0 .. C - 1
    <3>1. t <= C - 1 /\ Signed(t, "INT64") = t /\ t >= 0
      BY <1>2, <1>6, <2>3
    <3> QED
      BY <1>5, <2>1, <3>1
  <2>4. CASE t >= C
    <3> DEFINE n == Signed(t + (-C), "INT64") - (-C)
    <3>1. ToInteger(t, type) = Cast(n, "UINT64")
      BY <1>2, <2>1, <2>4
    <3>2. t + (-C) \in Int
      BY <1>2
    <3>3. Signed(t + (-C), "INT64") = IF t + (-C) \in -C .. C - 1 THEN t + (-C) ELSE -C
      BY <1>6, <3>2
    <3>4. n \in {t, 0}
      BY <1>2, <3>3
    <3>5. n \in Int /\ n >= 0 /\ Exact(Units(n), bits)
      <4> HIDE DEF n
      <4>1. t >= 0
        BY <1>2, <2>4
      <4> QED
        BY <1>4, <3>4, <4>1
    <3> HIDE DEF n
    <3> QED
      BY <1>5, <3>1, <3>5
  <2> QED
    BY <1>2, <2>2, <2>3, <2>4
<1> QED
  BY <1>7, <1>8, <1>9 DEF IntTypes, IsSigned

LEMMA RoundExact ==
  ASSUME NEW d \in Int, NEW type \in IntTypes, NEW bits \in Nat
  PROVE  /\ ROUND(type, d, bits) \in Int
         /\ Exact(Units(ROUND(type, d, bits)), bits) \/ (d < 0 /\ ROUND(type, d, bits) >= 0)
<1> DEFINE half == 2 ^ (Fraction - 1)
           y == IF d >= 0 THEN d + half ELSE d - half
           x == Nearest(y, 1, bits)
           t == Truncated(x)
<1>1. half \in Nat
  BY FractionIs
<1>2. y \in Int /\ (d >= 0 => y >= 0)
  <2> HIDE DEF half
  <2> QED
    BY <1>1
<1>3. ROUND(type, d, bits) = ToInteger(t, type)
  BY DEF ROUND
<1> HIDE DEF y
<1>4. 1 \in Nat /\ 1 >= 1
  OBVIOUS
<1>5. x \in Int /\ Exact(x, bits) /\ (y >= 0 => x >= 0)
  BY <1>2, <1>4, NearestExact
<1> HIDE DEF x
<1>6. t \in Int /\ (x >= 0 => t >= 0) /\ Exact(Units(t), bits)
  BY <1>5, TruncatedIs, TruncatedExact
<1> HIDE DEF t
<1>7. /\ ToInteger(t, type) \in Int
      /\ Exact(Units(ToInteger(t, type)), bits) \/ (t < 0 /\ ToInteger(t, type) >= 0)
  BY <1>6, ToIntegerExact
<1>8. t < 0 => d < 0
  BY <1>2, <1>5, <1>6
<1> QED
  BY <1>3, <1>7, <1>8

(* What comes back the same was converted without loss. *)
LEMMA ComesBackKept ==
  ASSUME NEW d \in Int, NEW type \in IntTypes, NEW bits \in Nat, bits >= 1,
         Nearest(d, 1, bits) = d, NEW i, i = ROUND(type, d, bits), Nearest(Units(i), 1, bits) = d
  PROVE  Units(i) = d
<1>1. i \in Int /\ (Exact(Units(i), bits) \/ (d < 0 /\ i >= 0))
  BY RoundExact
<1>2. Units(i) \in Int /\ (i >= 0 => Units(i) >= 0)
  <2> DEFINE U == 2 ^ Fraction
  <2>1. U \in Nat /\ Units(i) = i * U
    BY FractionIs DEF Units
  <2> HIDE DEF U
  <2>2. i * U \in Int /\ (i >= 0 => i * U >= 0)
    BY <1>1, <2>1
  <2> QED
    BY <2>1, <2>2
<1>3. CASE Exact(Units(i), bits)
  BY <1>2, <1>3, ExactStays
<1>4. CASE d < 0 /\ i >= 0
  <2>1. 1 \in Nat /\ 1 >= 1
    OBVIOUS
  <2>2. Nearest(Units(i), 1, bits) >= 0
    BY <1>2, <1>4, <2>1, NearestExact
  <2> QED
    BY <1>4, <2>2
<1> QED
  BY <1>1, <1>3, <1>4

-----------------------------------------------------------------------------
(* Texts *)

PowersBy(n, g) == g = [k \in 0 .. n |-> IF k = 0 THEN 1 ELSE 10 * g[k - 1]]

LEMMA PowersExist ==
  ASSUME NEW N \in Nat
  PROVE  \E g : PowersBy(N, g) /\ g \in [0 .. N -> Nat \ {0}]
<1> DEFINE T == {n \in Nat : \E g : PowersBy(n, g) /\ g \in [0 .. n -> Nat \ {0}]}
<1>1. 0 \in T
  <2>1. PowersBy(0, [k \in 0 .. 0 |-> 1]) /\ [k \in 0 .. 0 |-> 1] \in [0 .. 0 -> Nat \ {0}]
    BY DEF PowersBy
  <2> QED
    BY <2>1
<1>2. ASSUME NEW n \in Nat, n \in T
      PROVE  n + 1 \in T
  <2>1. PICK g : PowersBy(n, g) /\ g \in [0 .. n -> Nat \ {0}]
    BY <1>2
  <2> DEFINE G == [k \in 0 .. n + 1 |-> IF k = 0 THEN 1 ELSE 10 * g[k - 1]]
  <2>2. \A k \in 0 .. n : G[k] = g[k]
    <3>1. \A k \in 0 .. n : g[k] = IF k = 0 THEN 1 ELSE 10 * g[k - 1]
      BY <2>1 DEF PowersBy
    <3>2. \A k \in 0 .. n : k \in 0 .. n + 1
      OBVIOUS
    <3> QED
      BY <3>1, <3>2, Zenon
  <2>3. \A k \in 0 .. n + 1 : k # 0 => k - 1 \in 0 .. n
    OBVIOUS
  <2>4. \A k \in 0 .. n + 1 : G[k] = IF k = 0 THEN 1 ELSE 10 * G[k - 1]
    BY <2>2, <2>3, Zenon
  <2>5. PowersBy(n + 1, G)
    BY <2>4, Zenon DEF PowersBy
  <2>6. G \in [0 .. n + 1 -> Nat \ {0}]
    BY <2>1, <2>3
  <2> HIDE DEF G
  <2> QED
    BY <2>5, <2>6
<1> HIDE DEF T
<1>3. Nat \subseteq T
  BY <1>1, <1>2, AllNumbers
<1> QED
  BY <1>3 DEF T

LEMMA PowersAre ==
  ASSUME NEW n \in Nat, NEW f, PowersBy(n, f)
  PROVE  f[n] \in Nat /\ f[n] >= 1
<1> DEFINE T == {k \in Nat : k <= n => f[k] \in Nat /\ f[k] >= 1}
<1>1. \A k \in 0 .. n : f[k] = IF k = 0 THEN 1 ELSE 10 * f[k - 1]
  BY DEF PowersBy
<1>2. 0 \in T
  BY <1>1
<1>3. ASSUME NEW k \in Nat, k \in T
      PROVE  k + 1 \in T
  <2> SUFFICES ASSUME k + 1 <= n PROVE f[k + 1] \in Nat /\ f[k + 1] >= 1
    OBVIOUS
  <2>1. k + 1 \in 0 .. n /\ k + 1 # 0 /\ k + 1 - 1 = k /\ k <= n
    OBVIOUS
  <2>2. f[k + 1] = 10 * f[k]
    BY <1>1, <2>1
  <2> QED
    BY <1>3, <2>1, <2>2
<1> HIDE DEF T
<1>4. n \in T
  BY <1>2, <1>3, AllNumbers
<1> QED
  BY <1>4 DEF T

LEMMA PowerOfTenIs ==
  ASSUME NEW n \in Nat
  PROVE  PowerOfTen(n) \in Nat /\ PowerOfTen(n) >= 1
<1> DEFINE f == CHOOSE g : g = [k \in 0 .. n |-> IF k = 0 THEN 1 ELSE 10 * g[k - 1]]
<1>1. \E g : PowersBy(n, g)
  BY PowersExist
<1>2. PowersBy(n, f)
  BY <1>1 DEF PowersBy
<1>3. PowerOfTen(n) = f[n]
  BY DEF PowerOfTen
<1> HIDE DEF f
<1> QED
  BY <1>2, <1>3, PowersAre

NaturalsBy(s, n, g) ==
  g = [k \in 0 .. n |-> IF k = 0 THEN 0
                        ELSE IF s[k] \in DIGIT THEN 10 * g[k - 1] + s[k] - Zero ELSE g[k - 1]]

LEMMA NaturalsExist ==
  ASSUME NEW s, NEW N \in Nat
  PROVE  \E g : NaturalsBy(s, N, g)
<1> DEFINE T == {n \in Nat : \E g : NaturalsBy(s, n, g)}
<1>1. 0 \in T
  <2>1. NaturalsBy(s, 0, [k \in 0 .. 0 |-> 0])
    BY DEF NaturalsBy
  <2> QED
    BY <2>1
<1>2. ASSUME NEW n \in Nat, n \in T
      PROVE  n + 1 \in T
  <2>1. PICK g : NaturalsBy(s, n, g)
    BY <1>2
  <2> DEFINE G == [k \in 0 .. n + 1 |->
                     IF k = 0 THEN 0
                     ELSE IF s[k] \in DIGIT THEN 10 * g[k - 1] + s[k] - Zero ELSE g[k - 1]]
  <2>2. \A k \in 0 .. n : G[k] = g[k]
    <3>1. \A k \in 0 .. n :
            g[k] = IF k = 0 THEN 0
                   ELSE IF s[k] \in DIGIT THEN 10 * g[k - 1] + s[k] - Zero ELSE g[k - 1]
      BY <2>1 DEF NaturalsBy
    <3>2. \A k \in 0 .. n : k \in 0 .. n + 1
      OBVIOUS
    <3> QED
      BY <3>1, <3>2, Zenon
  <2>3. \A k \in 0 .. n + 1 : k # 0 => k - 1 \in 0 .. n
    OBVIOUS
  <2>4. \A k \in 0 .. n + 1 :
          G[k] = IF k = 0 THEN 0
                 ELSE IF s[k] \in DIGIT THEN 10 * G[k - 1] + s[k] - Zero ELSE G[k - 1]
    BY <2>2, <2>3, Zenon
  <2>5. NaturalsBy(s, n + 1, G)
    BY <2>4, Zenon DEF NaturalsBy
  <2> QED
    BY <2>5
<1> HIDE DEF T
<1>3. Nat \subseteq T
  BY <1>1, <1>2, AllNumbers
<1> QED
  BY <1>3 DEF T

LEMMA IntegerIs ==
  ASSUME NEW s \in Seq(Int)
  PROVE  Integer(s) \in Int
<1> DEFINE n == Len(s)
           f == CHOOSE g : g = [k \in 0 .. n |->
                                  IF k = 0 THEN 0
                                  ELSE IF s[k] \in DIGIT THEN 10 * g[k - 1] + s[k] - Zero ELSE g[k - 1]]
           T == {k \in Nat : k <= n => f[k] \in Int}
<1>1. n \in Nat
  OBVIOUS
<1>2. NaturalsBy(s, n, f)
  <2>1. \E g : NaturalsBy(s, n, g)
    BY <1>1, NaturalsExist
  <2> QED
    BY <2>1 DEF NaturalsBy
<1>3. Natural(s) = f[n]
  BY DEF Natural
<1> HIDE DEF f
<1>4. \A k \in 0 .. n : f[k] = IF k = 0 THEN 0
                               ELSE IF s[k] \in DIGIT THEN 10 * f[k - 1] + s[k] - Zero ELSE f[k - 1]
  BY <1>2 DEF NaturalsBy
<1>5. 0 \in T
  BY <1>4
<1>6. ASSUME NEW k \in Nat, k \in T
      PROVE  k + 1 \in T
  <2> SUFFICES ASSUME k + 1 <= n PROVE f[k + 1] \in Int
    OBVIOUS
  <2>1. k + 1 \in 0 .. n /\ k + 1 # 0 /\ k + 1 - 1 = k /\ k <= n
    BY <1>1
  <2>2. f[k + 1] = IF s[k + 1] \in DIGIT THEN 10 * f[k] + s[k + 1] - Zero ELSE f[k]
    BY <1>4, <2>1
  <2> QED
    BY <1>6, <2>1, <2>2 DEF DIGIT, Zero
<1> HIDE DEF T
<1>7. n \in T
  BY <1>1, <1>5, <1>6, AllNumbers
<1>8. Natural(s) \in Int
  BY <1>1, <1>3, <1>7 DEF T
<1> QED
  BY <1>8 DEF Integer

(* Where SelectInSeq() finds a byte *)
LEMMA FoundIs ==
  ASSUME NEW s \in Seq(Int), NEW I \in SUBSET (1 .. Len(s))
  PROVE  (IF I # {} THEN Min(I) ELSE 0) \in 0 .. Len(s)
<1>1. Len(s) \in Nat /\ I \subseteq Nat
  OBVIOUS
<1>2. CASE I = {}
  BY <1>1, <1>2
<1>3. CASE I # {}
  <2>1. Min(I) \in I
    BY <1>1, <1>3, MinIs
  <2>2. Min(I) \in 1 .. Len(s)
    BY <2>1
  <2>3. (IF I # {} THEN Min(I) ELSE 0) = Min(I)
    BY <1>3
  <2> QED
    BY <1>1, <2>2, <2>3
<1> QED
  BY <1>2, <1>3

LEMMA PartOf ==
  ASSUME NEW s \in Seq(Int), NEW a \in Nat, a >= 1, NEW b \in Int, b <= Len(s)
  PROVE  SubSeq(s, a, b) \in Seq(Int)
<1>1. \A i \in a .. b : s[i] \in Int
  <2>1. \A i \in a .. b : i \in 1 .. Len(s)
    OBVIOUS
  <2> QED
    BY <2>1
<1> QED
  BY <1>1, SubSeqProperties

LEMMA PartsAre ==
  ASSUME NEW s \in Seq(Int), NEW c
  PROVE  Parts(s, c)[1] \in Seq(Int) /\ Parts(s, c)[2] \in Seq(Int)
<1> DEFINE I == {i \in 1 .. Len(s) : s[i] \in c}
           k == IF I # {} THEN Min(I) ELSE 0
<1>1. Parts(s, c) = IF k = 0 THEN <<s, <<>>>> ELSE <<SubSeq(s, 1, k - 1), SubSeq(s, k + 1, Len(s))>>
  BY DEF Parts, SelectInSeq
<1>2. k \in 0 .. Len(s) /\ Len(s) \in Nat
  <2>1. I \in SUBSET (1 .. Len(s))
    OBVIOUS
  <2> HIDE DEF I
  <2> QED
    BY <2>1, FoundIs
<1> HIDE DEF k
<1>3. k - 1 \in Int /\ k - 1 <= Len(s) /\ k + 1 \in Nat /\ k + 1 >= 1 /\ 1 \in Nat /\ 1 >= 1
  BY <1>2
<1>4. SubSeq(s, 1, k - 1) \in Seq(Int) /\ SubSeq(s, k + 1, Len(s)) \in Seq(Int)
  BY <1>2, <1>3, PartOf
<1>5. CASE k = 0
  BY <1>1, <1>5
<1>6. CASE k # 0
  BY <1>1, <1>4, <1>6
<1> QED
  BY <1>5, <1>6

LEMMA RationalIs ==
  ASSUME NEW s \in Seq(Int)
  PROVE  Rational(s).num \in Int /\ Rational(s).den \in Nat /\ Rational(s).den >= 1
<1> DEFINE mantissa == Parts(s, {69, 101})[1]
           power == Parts(s, {69, 101})[2]
           below == Parts(mantissa, {Point})[2]
           exponent == Integer(power) - Len(below)
<1>1. mantissa \in Seq(Int) /\ power \in Seq(Int)
  BY PartsAre
<1> HIDE DEF mantissa, power
<1>2. below \in Seq(Int)
  BY <1>1, PartsAre
<1> HIDE DEF below
<1>3. Len(below) \in Nat /\ Integer(power) \in Int /\ Integer(mantissa) \in Int
  BY <1>1, <1>2, IntegerIs, LenProperties
<1>4. exponent \in Int
  BY <1>3
<1>5. Rational(s) = IF exponent < 0 THEN [num |-> Integer(mantissa), den |-> PowerOfTen(-exponent)]
                    ELSE [num |-> Integer(mantissa) * PowerOfTen(exponent), den |-> 1]
  BY DEF Rational, mantissa, power, below
<1> HIDE DEF exponent
<1>6. CASE exponent < 0
  <2>1. -exponent \in Nat
    BY <1>4, <1>6
  <2>2. PowerOfTen(-exponent) \in Nat /\ PowerOfTen(-exponent) >= 1
    BY <2>1, PowerOfTenIs
  <2> QED
    BY <1>3, <1>5, <1>6, <2>2
<1>7. CASE ~ (exponent < 0)
  <2>1. exponent \in Nat
    BY <1>4, <1>7
  <2>2. PowerOfTen(exponent) \in Nat
    BY <2>1, PowerOfTenIs
  <2> QED
    BY <1>3, <1>5, <1>7, <2>2
<1> QED
  BY <1>6, <1>7

(* A double from a text is one. *)
LEMMA StrtodIs ==
  ASSUME NEW buffer \in Seq(Int)
  PROVE  strtod(buffer) \in Int /\ Exact(strtod(buffer), DoubleBits)
<1> DEFINE I == {i \in 1 .. Len(buffer) : buffer[i] \in {Point, Comma} \ {DecimalPoint}}
           stop == IF I # {} THEN Min(I) ELSE 0
           read == IF stop = 0 THEN buffer ELSE SubSeq(buffer, 1, stop - 1)
           text == [k \in DOMAIN read |-> IF read[k] = DecimalPoint THEN Point ELSE read[k]]
<1>1. strtod(buffer) = Nearest(Units(Rational(text).num), Rational(text).den, DoubleBits)
  BY DEF strtod, SelectInSeq
<1>2. stop \in 0 .. Len(buffer) /\ Len(buffer) \in Nat
  <2>1. I \in SUBSET (1 .. Len(buffer))
    OBVIOUS
  <2> HIDE DEF I
  <2> QED
    BY <2>1, FoundIs
<1> HIDE DEF stop
<1>3. read \in Seq(Int)
  <2>1. stop - 1 \in Int /\ stop - 1 <= Len(buffer) /\ 1 \in Nat /\ 1 >= 1
    BY <1>2
  <2>2. SubSeq(buffer, 1, stop - 1) \in Seq(Int)
    BY <1>2, <2>1, PartOf
  <2> QED
    BY <2>2
<1> HIDE DEF read
<1>4. text \in Seq(Int)
  <2>1. Point \in Int
    BY DEF Point
  <2>2. DOMAIN read = 1 .. Len(read) /\ Len(read) \in Nat /\ \A k \in 1 .. Len(read) : read[k] \in Int
    BY <1>3
  <2> QED
    BY <2>1, <2>2
<1> HIDE DEF text
<1>5. Rational(text).num \in Int /\ Rational(text).den \in Nat /\ Rational(text).den >= 1
  BY <1>4, RationalIs
<1>6. Units(Rational(text).num) \in Int
  BY <1>5, FractionIs DEF Units
<1> QED
  BY <1>1, <1>5, <1>6, FractionIs, NearestExact

LEMMA DoubleIs ==
  ASSUME NEW num \in Seq(Int)
  PROVE  json_number_to_double(num) \in Int /\ Exact(json_number_to_double(num), DoubleBits)
<1> DEFINE I == {i \in 1 .. Len(num) : num[i] = Point}
           fp == IF I # {} THEN Min(I) ELSE 0
           buffer == IF DecimalPoint # Point /\ fp > 0 THEN [num EXCEPT ![fp] = DecimalPoint] ELSE num
<1>1. json_number_to_double(num) = strtod(buffer)
  BY DEF json_number_to_double, SelectInSeq
<1> HIDE DEF fp
<1>2. DecimalPoint \in Int
  BY NumbersAssumption DEF Point, Comma
<1>3. [num EXCEPT ![fp] = DecimalPoint] \in Seq(Int)
  <2>1. DOMAIN num = 1 .. Len(num) /\ Len(num) \in Nat /\ num \in [1 .. Len(num) -> Int]
    OBVIOUS
  <2>2. [num EXCEPT ![fp] = DecimalPoint] \in [1 .. Len(num) -> Int]
    BY <1>2, <2>1
  <2> QED
    BY <2>1, <2>2
<1>4. buffer \in Seq(Int)
  BY <1>3
<1> HIDE DEF buffer
<1> QED
  BY <1>1, <1>4, StrtodIs

(* The digits of a text are taken modulo the width of the largest type. *)
DigitsBy(s, n, g) ==
  g = [k \in 0 .. n |-> IF k = 0 THEN 0 ELSE (10 * g[k - 1] + s[k] - Zero) % 2 ^ Bits64]

LEMMA DigitsExist ==
  ASSUME NEW s, NEW N \in Nat
  PROVE  \E g : DigitsBy(s, N, g)
<1> DEFINE T == {n \in Nat : \E g : DigitsBy(s, n, g)}
<1>1. 0 \in T
  <2>1. DigitsBy(s, 0, [k \in 0 .. 0 |-> 0])
    BY DEF DigitsBy
  <2> QED
    BY <2>1
<1>2. ASSUME NEW n \in Nat, n \in T
      PROVE  n + 1 \in T
  <2>1. PICK g : DigitsBy(s, n, g)
    BY <1>2
  <2> DEFINE G == [k \in 0 .. n + 1 |-> IF k = 0 THEN 0 ELSE (10 * g[k - 1] + s[k] - Zero) % 2 ^ Bits64]
  <2>2. \A k \in 0 .. n : G[k] = g[k]
    <3>1. \A k \in 0 .. n : g[k] = IF k = 0 THEN 0 ELSE (10 * g[k - 1] + s[k] - Zero) % 2 ^ Bits64
      BY <2>1 DEF DigitsBy
    <3>2. \A k \in 0 .. n : k \in 0 .. n + 1
      OBVIOUS
    <3> QED
      BY <3>1, <3>2, Zenon
  <2>3. \A k \in 0 .. n + 1 : k # 0 => k - 1 \in 0 .. n
    OBVIOUS
  <2>4. \A k \in 0 .. n + 1 :
          G[k] = IF k = 0 THEN 0 ELSE (10 * G[k - 1] + s[k] - Zero) % 2 ^ Bits64
    BY <2>2, <2>3, Zenon
  <2>5. DigitsBy(s, n + 1, G)
    BY <2>4, Zenon DEF DigitsBy
  <2> QED
    BY <2>5
<1> HIDE DEF T
<1>3. Nat \subseteq T
  BY <1>1, <1>2, AllNumbers
<1> QED
  BY <1>3 DEF T

LEMMA UnsignedIs ==
  ASSUME NEW num \in Seq(Int)
  PROVE  json_number_to_uint64(num) \in Int /\ json_number_to_uint64(num) \in 0 .. 2 ^ Bits64 - 1
<1> DEFINE I == {i \in 1 .. Len(Append(num, Minus)) : Append(num, Minus)[i] \notin DIGIT}
           stop == IF I # {} THEN Min(I) ELSE 0
           digits == stop - 1
           f == CHOOSE g : g = [k \in 0 .. digits |->
                                  IF k = 0 THEN 0 ELSE (10 * g[k - 1] + num[k] - Zero) % 2 ^ Bits64]
           M == 2 ^ Bits64
           T == {k \in Nat : k <= digits => f[k] \in 0 .. M - 1}
<1>1. json_number_to_uint64(num) = f[digits]
  BY DEF json_number_to_uint64, SelectInSeq
<1>2. digits \in 0 .. Len(num) /\ Len(num) \in Nat
  <2>1. Len(Append(num, Minus)) = Len(num) + 1 /\ Append(num, Minus)[Len(num) + 1] = Minus /\ Len(num) \in Nat
    OBVIOUS
  <2>2. Minus \notin DIGIT
    BY DEF Minus, DIGIT
  <2>3. Len(num) + 1 \in I
    BY <2>1, <2>2
  <2>4. I \subseteq 1 .. Len(num) + 1 /\ I \subseteq Nat /\ I # {}
    BY <2>1, <2>3
  <2> HIDE DEF I
  <2>5. Min(I) \in I
    BY <2>4, MinIs
  <2>6. stop = Min(I) /\ Min(I) \in 1 .. Len(num) + 1
    BY <2>4, <2>5
  <2> HIDE DEF stop
  <2> QED
    BY <2>1, <2>6
<1> HIDE DEF stop
<1>3. DigitsBy(num, digits, f)
  <2>1. digits \in Nat
    BY <1>2
  <2>2. \E g : DigitsBy(num, digits, g)
    BY <2>1, DigitsExist
  <2> QED
    BY <2>2 DEF DigitsBy
<1> HIDE DEF f, digits
<1>4. \A k \in 0 .. digits : f[k] = IF k = 0 THEN 0 ELSE (10 * f[k - 1] + num[k] - Zero) % M
  BY <1>3 DEF DigitsBy
<1>5. M \in Nat /\ M >= 1
  BY Ranges, PowerPositive
<1> HIDE DEF M
<1>6. 0 \in T
  BY <1>2, <1>4, <1>5
<1>7. ASSUME NEW k \in Nat, k \in T
      PROVE  k + 1 \in T
  <2> SUFFICES ASSUME k + 1 <= digits PROVE f[k + 1] \in 0 .. M - 1
    OBVIOUS
  <2>1. k + 1 \in 0 .. digits /\ k + 1 # 0 /\ k + 1 - 1 = k /\ k <= digits /\ k + 1 \in 1 .. Len(num)
    BY <1>2
  <2>2. f[k] \in Int /\ num[k + 1] \in Int
    BY <1>5, <1>7, <2>1
  <2>3. PICK y : y = 10 * f[k] + num[k + 1] - Zero
    OBVIOUS
  <2>4. y \in Int
    BY <2>2, <2>3 DEF Zero
  <2>5. f[k + 1] = y % M
    BY <1>4, <2>1, <2>3
  <2> QED
    BY <1>5, <2>4, <2>5, ModInt
<1> HIDE DEF T
<1>8. digits \in T
  <2>1. Nat \subseteq T
    BY <1>6, <1>7, AllNumbers
  <2> QED
    BY <1>2, <2>1
<1>9. f[digits] \in 0 .. M - 1
  BY <1>2, <1>8 DEF T
<1> QED
  BY <1>1, <1>5, <1>9 DEF M

LEMMA RestIs ==
  ASSUME NEW num \in Seq(Int)
  PROVE  Rest(num) \in Seq(Int)
<1>1. 2 \in Nat /\ 2 >= 1 /\ Len(num) \in Int /\ Len(num) <= Len(num)
  OBVIOUS
<1> QED
  BY <1>1, PartOf DEF Rest

(* What init_number() answers is a number of the type it answers. *)
LEMMA ReadIs ==
  ASSUME NEW text \in Seq(Int), NEW n, n = init_number(text)
  PROVE  /\ n.type \in IntTypes \cup {"DOUBLE"}
         /\ n.type \in IntTypes => n.num \in MinOf(n.type) .. MaxOf(n.type)
         /\ n.type = "DOUBLE" => n.num \in Int /\ Nearest(n.num, 1, DoubleBits) = n.num
<1>1. {"INT32", "UINT32", "INT64", "UINT64"} \subseteq IntTypes
  BY DEF IntTypes
<1>2. json_number_to_uint64(text) \in Int /\ json_number_to_uint64(text) \in MinOf("UINT64") .. MaxOf("UINT64")
  <2>1. MinOf("UINT64") = 0 /\ MaxOf("UINT64") = 2 ^ Bits64 - 1
    BY DEF MinOf, MaxOf, IsSigned, Bits
  <2> QED
    BY <2>1, UnsignedIs
<1>3. json_number_to_int64(text) \in Int /\ json_number_to_int64(text) \in MinOf("INT64") .. MaxOf("INT64")
  <2>1. \A a \in Int : Cast(a, "INT64") \in Int /\ Cast(a, "INT64") \in MinOf("INT64") .. MaxOf("INT64")
    BY <1>1, CastIs
  <2>2. PICK b : b = json_number_to_uint64(Rest(text))
    OBVIOUS
  <2>3. b \in Int /\ b - 1 \in Int
    BY <2>2, RestIs, UnsignedIs
  <2>4. PICK c : c = Cast(b - 1, "INT64")
    OBVIOUS
  <2>5. c \in Int /\ -c - 1 \in Int
    BY <2>1, <2>3, <2>4
  <2>6. json_number_to_int64(text) = IF text[1] = Minus THEN Cast(-c - 1, "INT64")
                                     ELSE Cast(json_number_to_uint64(text), "INT64")
    BY <2>2, <2>4 DEF json_number_to_int64
  <2>7. CASE text[1] = Minus
    BY <2>1, <2>5, <2>6, <2>7
  <2>8. CASE text[1] # Minus
    BY <1>2, <2>1, <2>6, <2>8
  <2> QED
    BY <2>7, <2>8
<1>4. json_number_to_int32(text) \in MinOf("INT32") .. MaxOf("INT32")
  BY <1>1, <1>3, CastIs DEF json_number_to_int32
<1>5. json_number_to_uint32(text) \in MinOf("UINT32") .. MaxOf("UINT32")
  BY <1>1, <1>2, CastIs DEF json_number_to_uint32
<1>6. json_number_to_double(text) \in Int /\ Nearest(json_number_to_double(text), 1, DoubleBits) = json_number_to_double(text)
  BY DoubleIs, ExactStays, FractionIs
<1>7. \/ n = Number("INT32", json_number_to_int32(text))
      \/ n = Number("UINT32", json_number_to_uint32(text))
      \/ n = Number("INT64", json_number_to_int64(text))
      \/ n = Number("UINT64", json_number_to_uint64(text))
      \/ n = Number("DOUBLE", json_number_to_double(text))
  BY DEF init_number
<1>8. "DOUBLE" \notin IntTypes
  BY DEF IntTypes
<1>9. \A type, num : Number(type, num).type = type /\ Number(type, num).num = num
  BY DEF Number
<1>10. CASE n = Number("INT32", json_number_to_int32(text))
  <2>1. n.type = "INT32" /\ n.num = json_number_to_int32(text)
    BY <1>9, <1>10
  <2> QED
    BY <1>1, <1>4, <2>1
<1>11. CASE n = Number("UINT32", json_number_to_uint32(text))
  <2>1. n.type = "UINT32" /\ n.num = json_number_to_uint32(text)
    BY <1>9, <1>11
  <2> QED
    BY <1>1, <1>5, <2>1
<1>12. CASE n = Number("INT64", json_number_to_int64(text))
  <2>1. n.type = "INT64" /\ n.num = json_number_to_int64(text)
    BY <1>9, <1>12
  <2> QED
    BY <1>1, <1>3, <2>1
<1>13. CASE n = Number("UINT64", json_number_to_uint64(text))
  <2>1. n.type = "UINT64" /\ n.num = json_number_to_uint64(text)
    BY <1>9, <1>13
  <2> QED
    BY <1>1, <1>2, <2>1
<1>14. CASE n = Number("DOUBLE", json_number_to_double(text))
  <2>1. n.type = "DOUBLE" /\ n.num = json_number_to_double(text)
    BY <1>9, <1>14
  <2> QED
    BY <1>6, <1>8, <2>1
<1> QED
  BY <1>7, <1>10, <1>11, <1>12, <1>13, <1>14

-----------------------------------------------------------------------------
(* Compatible conversions *)

(* A number has a payload of its type. *)
Holds(type, num) ==
  /\ type \in IntTypes => num \in MinOf(type) .. MaxOf(type)
  /\ type = "DOUBLE" => num \in Int /\ Nearest(num, 1, DoubleBits) = num
  /\ type = "FLOAT" => num \in Int /\ Nearest(num, 1, FloatBits) = num

NumberInv == IsNumeric => Holds(v.type, Payload)

Numbers == IntTypes \cup {"FLOAT", "DOUBLE"}

LEMMA NumberInit ==
  ASSUME v.type = "NULL", NEW type, NEW size, NEW align, NEW payload,
         value_init_ex(type, size, align, payload), type \in Numbers => Holds(type, payload[1])
  PROVE  NumberInv'
<1>1. v'.type = "NULL" \/ (v'.type = type /\ v'.payload = payload)
  BY DEF value_init_ex, Value
<1>2. CASE v'.type = "NULL"
  BY <1>2 DEF NumberInv, IsNumeric, IntTypes
<1>3. CASE v'.type = type /\ v'.payload = payload
  <2>1. Payload' = payload[1] /\ Holds(v.type, Payload)' = Holds(type, payload[1])
    BY <1>3 DEF Payload, Holds, MinOf, MaxOf, IsSigned, Bits, IntTypes
  <2>2. IsNumeric' => type \in Numbers
    BY <1>3 DEF IsNumeric, Numbers
  <2> QED
    BY <2>1, <2>2 DEF NumberInv
<1> QED
  BY <1>1, <1>2, <1>3

LEMMA NumberNext ==
  ASSUME NumberInv, Next
  PROVE  NumberInv'
<1>1. CASE v.type # "NULL" /\ value_fini
  BY <1>1 DEF NumberInv, IsNumeric, IntTypes, value_fini, Value
<1>2. ASSUME v.type = "NULL", NEW type \in Numbers, NEW num, value_init_number(type, num), Holds(type, num)
      PROVE  NumberInv'
  <2> DEFINE payload == <<num>>
  <2>1. value_init_ex(type, SizeOf[type], 1, payload) /\ payload[1] = num
    BY <1>2 DEF value_init_number
  <2> HIDE DEF payload
  <2> QED
    BY <1>2, <2>1, NumberInit
<1>3. ASSUME v.type = "NULL", NEW b, value_init_bool(b)
      PROVE  NumberInv'
  BY <1>3 DEF value_init_bool, Value, NumberInv, IsNumeric, IntTypes
<1>4. ASSUME v.type = "NULL", NEW text \in Texts, InitNumber(text)
      PROVE  NumberInv'
  <2> DEFINE n == init_number(text)
             payload == <<n.num>>
  <2>1. text \in Seq(Int)
    <3>1. text \in Seq(0 .. 255)
      BY ScalarsAssumption
    <3>2. Len(text) \in Nat /\ text \in [1 .. Len(text) -> 0 .. 255]
      BY <3>1, LenProperties, Zenon
    <3>3. 0 .. 255 \subseteq Int
      OBVIOUS
    <3>4. text \in [1 .. Len(text) -> Int]
      BY <3>2, <3>3, Zenon
    <3> QED
      BY <3>2, <3>4
  <2>2. Holds(n.type, n.num)
    <3>1. /\ n.type \in IntTypes \cup {"DOUBLE"}
          /\ n.type \in IntTypes => n.num \in MinOf(n.type) .. MaxOf(n.type)
          /\ n.type = "DOUBLE" => n.num \in Int /\ Nearest(n.num, 1, DoubleBits) = n.num
      BY <2>1, ReadIs
    <3> HIDE DEF n
    <3> QED
      BY <3>1 DEF Holds, IntTypes
  <2>3. value_init_ex(n.type, SizeOf[n.type], 1, payload) /\ payload[1] = n.num
    BY <1>4 DEF InitNumber
  <2> HIDE DEF payload, n
  <2> QED
    BY <1>4, <2>2, <2>3, NumberInit
<1>5. ASSUME v.type = "NULL", NEW str \in Strings, value_init_string_(str)
      PROVE  NumberInv'
  <2>1. PICK p : value_init_ex("STRING", Len(p), 1, p)
    BY <1>5 DEF value_init_string_
  <2>2. "STRING" \notin Numbers
    BY DEF Numbers, IntTypes
  <2> QED
    BY <1>5, <2>1, <2>2, NumberInit
<1>6. ASSUME v.type = "NULL", NEW type \in {"ARRAY", "DICT"}, value_init_container(type)
      PROVE  NumberInv'
  <2>1. value_init_ex(type, SizeOf[type], 8, None) /\ type \notin Numbers
    BY <1>6 DEF value_init_container, Numbers, IntTypes
  <2> QED
    BY <1>6, <2>1, NumberInit
<1>7. ASSUME v.type = "NULL", NEW type \in IntTypes, NEW n \in MinOf(type) .. MaxOf(type), value_init_number(type, n)
      PROVE  NumberInv'
  <2>1. type \in Numbers /\ Holds(type, n)
    BY <1>7 DEF Numbers, Holds, IntTypes
  <2> QED
    BY <1>2, <1>7, <2>1
<1>8. ASSUME v.type = "NULL", NEW d \in Doubles, value_init_number("DOUBLE", d)
      PROVE  NumberInv'
  <2>1. "DOUBLE" \in Numbers /\ Holds("DOUBLE", d)
    BY ScalarsAssumption DEF Numbers, Holds, IntTypes
  <2> QED
    BY <1>2, <1>8, <2>1
<1>9. ASSUME v.type = "NULL", NEW d \in Doubles, Nearest(d, 1, FloatBits) = d, value_init_number("FLOAT", d)
      PROVE  NumberInv'
  <2>1. "FLOAT" \in Numbers /\ Holds("FLOAT", d)
    BY <1>9, ScalarsAssumption DEF Numbers, Holds, IntTypes
  <2> QED
    BY <1>2, <1>9, <2>1
<1> QED
  BY <1>1, <1>3, <1>4, <1>5, <1>6, <1>7, <1>8, <1>9 DEF Next

(* Between the integer types *)
LEMMA IntegersCompatible ==
  ASSUME NEW type \in IntTypes, v.type \in IntTypes, Payload \in MinOf(v.type) .. MaxOf(v.type)
  PROVE  /\ value_is_compatible(type) => Units(value_int(type)) = Exactly
         /\ Payload \in MinOf(type) .. MaxOf(type) => value_is_compatible(type)
<1> DEFINE A == 2 ^ (Bits32 - 1)
           C == 2 ^ (Bits64 - 1)
<1>1. RangesBy(A, C)
  BY Ranges
<1> HIDE DEF A, C
<1>2. PICK n : n = Payload
  OBVIOUS
<1>3. n \in Int /\ n \in MinOf(v.type) .. MaxOf(v.type)
  BY <1>2, CastIs
<1>4. value_int(v.type) = n /\ (n \in MinOf(type) .. MaxOf(type) => value_int(type) = n)
  <2>0. ~ IsFloating
    BY DEF IsFloating, IntTypes
  <2>1. \A t : value_int(t) = Cast(n, t)
    <3> SUFFICES ASSUME NEW t PROVE value_int(t) = Cast(n, t)
      OBVIOUS
    <3>1. value_int(t) = Cast(Payload, t)
      BY <2>0, Zenon DEF value_int
    <3> QED
      BY <1>2, <3>1
  <2> QED
    BY <1>3, <2>1, CastIs
<1>5. Exactly = Units(n)
  BY <1>2 DEF Exactly, IsFloating, IntTypes
<1>6. value_is_compatible(type) <=> n \in MinOf(type) .. MaxOf(type)
  <2> DEFINE safe ==
        \/ type = v.type
        \/ v.type = "INT32" /\ (type = "INT64" \/ (type \in {"UINT32", "UINT64"} /\ n >= 0))
        \/ v.type = "UINT32" /\ (type \in {"INT64", "UINT64"} \/ (type = "INT32" /\ n <= MaxOf("INT32")))
        \/ v.type = "INT64" /\ (\/ type = "INT32" /\ n >= MinOf("INT32") /\ n <= MaxOf("INT32")
                                \/ type = "UINT32" /\ n >= 0 /\ n <= MaxOf("UINT32")
                                \/ type = "UINT64" /\ n >= 0)
        \/ v.type = "UINT64" /\ (\/ type = "INT32" /\ n <= MaxOf("INT32")
                                 \/ type = "UINT32" /\ n <= MaxOf("UINT32")
                                 \/ type = "INT64" /\ n <= MaxOf("INT64"))
  <2>1. value_is_compatible(type) <=> safe
    BY <1>4 DEF value_is_compatible, IntTypes
  <2>2. CASE v.type = "INT32"
    <3>1. n \in -A .. A - 1
      BY <1>1, <1>3, <2>2 DEF RangesBy
    <3>2. safe <=> type = "INT32" \/ type = "INT64" \/ (type \in {"UINT32", "UINT64"} /\ n >= 0)
      BY <2>2
    <3> HIDE DEF safe
    <3> QED
      BY <1>1, <1>3, <2>1, <3>1, <3>2 DEF RangesBy, IntTypes
  <2>3. CASE v.type = "UINT32"
    <3>1. n \in 0 .. 2 * A - 1
      BY <1>1, <1>3, <2>3 DEF RangesBy
    <3>2. safe <=> type \in {"UINT32", "INT64", "UINT64"} \/ (type = "INT32" /\ n <= MaxOf("INT32"))
      BY <2>3
    <3> HIDE DEF safe
    <3> QED
      BY <1>1, <1>3, <2>1, <3>1, <3>2 DEF RangesBy, IntTypes
  <2>4. CASE v.type = "INT64"
    <3>1. n \in -C .. C - 1
      BY <1>1, <1>3, <2>4 DEF RangesBy
    <3>2. safe <=> \/ type = "INT64"
                   \/ type = "INT32" /\ n >= MinOf("INT32") /\ n <= MaxOf("INT32")
                   \/ type = "UINT32" /\ n >= 0 /\ n <= MaxOf("UINT32")
                   \/ type = "UINT64" /\ n >= 0
      BY <2>4
    <3> HIDE DEF safe
    <3> QED
      BY <1>1, <1>3, <2>1, <3>1, <3>2 DEF RangesBy, IntTypes
  <2>5. CASE v.type = "UINT64"
    <3>1. n \in 0 .. 2 * C - 1
      BY <1>1, <1>3, <2>5 DEF RangesBy
    <3>2. safe <=> \/ type = "UINT64"
                   \/ type = "INT32" /\ n <= MaxOf("INT32")
                   \/ type = "UINT32" /\ n <= MaxOf("UINT32")
                   \/ type = "INT64" /\ n <= MaxOf("INT64")
      BY <2>5
    <3> HIDE DEF safe
    <3> QED
      BY <1>1, <1>3, <2>1, <3>1, <3>2 DEF RangesBy, IntTypes
  <2> QED
    BY <2>2, <2>3, <2>4, <2>5 DEF IntTypes
<1> QED
  BY <1>2, <1>4, <1>5, <1>6

(* From a floating type to an integer type *)
LEMMA FloatingCompatible ==
  ASSUME NEW type \in IntTypes, IsFloating, Payload \in Int,
         Nearest(Payload, 1, SignificantBits(v.type)) = Payload, value_is_compatible(type)
  PROVE  Units(value_int(type)) = Exactly
<1>1. v.type \notin IntTypes /\ v.type # type /\ type \notin {"FLOAT", "DOUBLE"}
  BY DEF IsFloating, IntTypes
<1>2. ComesBack(type)
  BY <1>1 DEF value_is_compatible, IsFloating, IntTypes
<1>3. PICK bits : bits = SignificantBits(v.type)
  OBVIOUS
<1>4. bits \in Nat /\ bits >= 1
  BY <1>3, FractionIs DEF SignificantBits
<1>5. PICK d : d = Payload
  OBVIOUS
<1>6. d \in Int /\ Nearest(d, 1, bits) = d
  BY <1>3, <1>5
<1>7. PICK i : i = ROUND(type, d, bits)
  OBVIOUS
<1>8. value_int(type) = i
  BY <1>1, <1>3, <1>5, <1>7 DEF value_int
<1>9. value_floating(v.type) = d
  BY <1>1, <1>3, <1>5, <1>6 DEF value_floating
<1>10. Nearest(Units(i), 1, bits) = d
  BY <1>2, <1>3, <1>8, <1>9 DEF ComesBack
<1>11. Units(i) = d
  BY <1>4, <1>6, <1>7, <1>10, ComesBackKept
<1> QED
  BY <1>5, <1>8, <1>11 DEF Exactly

(* A conversion to an integer type that value_is_compatible() allows gives *)
(* just the number, and between integer types it allows each that does:    *)
(* value_is_compatible() with the getters value_int32() to value_double(). *)
(* It holds for all widths of the types, and for all doubles and floats.   *)
THEOREM CompatibleKept == Spec => []CompatibleKeepsNumber
<1>1. Init => NumberInv
  BY DEF Init, NumberInv, IsNumeric, IntTypes, Value
<1>2. NumberInv /\ [Next]_vars => NumberInv'
  <2>1. ASSUME NumberInv, UNCHANGED vars
        PROVE  NumberInv'
    BY <2>1 DEF NumberInv, IsNumeric, Payload, vars
  <2> QED
    BY <2>1, NumberNext
<1>3. NumberInv => CompatibleKeepsNumber
  <2> SUFFICES ASSUME NumberInv, IsNumeric, NEW type \in IntTypes
               PROVE  /\ value_is_compatible(type) => Units(value_int(type)) = Exactly
                      /\ v.type \in IntTypes /\ Payload \in MinOf(type) .. MaxOf(type) => value_is_compatible(type)
    BY DEF CompatibleKeepsNumber
  <2>1. Holds(v.type, Payload)
    BY DEF NumberInv
  <2>2. CASE v.type \in IntTypes
    BY <2>1, <2>2, IntegersCompatible DEF Holds
  <2>3. CASE v.type \notin IntTypes
    <3>1. IsFloating
      BY <2>3 DEF IsNumeric, IsFloating
    <3>2. Payload \in Int /\ Nearest(Payload, 1, SignificantBits(v.type)) = Payload
      BY <2>1, <3>1 DEF Holds, IsFloating, SignificantBits
    <3> QED
      BY <2>3, <3>1, <3>2, FloatingCompatible
  <2> QED
    BY <2>2, <2>3
<1> QED
  BY <1>1, <1>2, <1>3, PTL DEF Spec

=============================================================================
