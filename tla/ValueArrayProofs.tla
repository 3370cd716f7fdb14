-------------------------- MODULE ValueArrayProofs --------------------------
(***************************************************************************)
(* Proofs about ValueArray, for arrays of every size: it implements the    *)
(* plain list of ValueList and finalizes each value exactly once, whether  *)
(* or not realloc(p, 0) frees the block.                                   *)
(***************************************************************************)
EXTENDS ValueArray, TLAPS

(* No sum of an index and a count in a call passes the width of size_t.    *)
RangesFit == \A i, n \in Index : Plus(i, n) = i + n

Inv == TypeOK /\ EachOwnedOnce

-----------------------------------------------------------------------------
(* The cells after an operation *)

LEMMA RoomForOne ==
  ASSUME TypeOK
  PROVE  Room \in Nat /\ alloc <= Room /\ size + 1 <= Room
BY DEF TypeOK, Room

LEMMA CellsAfterInsert ==
  ASSUME TypeOK, NEW index \in Nat, index <= size, NEW v \in Value,
         buf' = [Shift(Resized(buf, Room), index) EXCEPT ![index] = v]
  PROVE  /\ buf' \in [Cells(Room) -> Value \cup {Garbage}]
         /\ \A j \in 0 .. size : buf'[j] = IF j < index THEN buf[j]
                                           ELSE IF j = index THEN v ELSE buf[j - 1]
<1>1. /\ size \in Nat /\ alloc \in Nat /\ size <= alloc /\ Room \in Nat /\ size + 1 <= Room
      /\ alloc <= Room /\ buf \in [Cells(alloc) -> Value \cup {Garbage}]
  BY RoomForOne DEF TypeOK
<1> DEFINE cells == Resized(buf, Room)
<1>2. /\ cells \in [Cells(Room) -> Value \cup {Garbage}]
      /\ \A j \in Cells(alloc) : cells[j] = buf[j]
  BY <1>1 DEF Resized, Cells
<1> HIDE DEF cells
<1>3. /\ Shift(cells, index) \in [Cells(Room) -> Value \cup {Garbage}]
      /\ \A j \in Cells(Room) :
           Shift(cells, index)[j] = IF j \in index + 1 .. size THEN cells[j - 1] ELSE cells[j]
  <2>1. /\ DOMAIN cells = Cells(Room)
        /\ index + 1 + (size - index) - 1 = size
        /\ \A j \in Cells(Room) : j - (index + 1) + index = j - 1
    BY <1>1, <1>2 DEF Cells
  <2>2. Shift(cells, index) =
          [j \in Cells(Room) |-> IF j \in index + 1 .. size THEN cells[j - 1] ELSE cells[j]]
    BY <2>1 DEF Shift, memmove
  <2>3. \A j \in Cells(Room) : j \in index + 1 .. size => j - 1 \in Cells(Room)
    BY <1>1 DEF Cells
  <2> QED
    BY <1>2, <2>2, <2>3
<1>4. buf' = [Shift(cells, index) EXCEPT ![index] = v]
  BY DEF cells
<1>5. buf' \in [Cells(Room) -> Value \cup {Garbage}]
  BY <1>3, <1>4
<1>6. \A j \in 0 .. size : j \in Cells(Room) /\ (j # index => buf'[j] = Shift(cells, index)[j])
                           /\ (j = index => buf'[j] = v)
  <2>1. \A j \in 0 .. size : j \in Cells(Room)
    BY <1>1 DEF Cells
  <2>2. DOMAIN Shift(cells, index) = Cells(Room)
    BY <1>3
  <2> QED
    BY <1>4, <2>1, <2>2
<1>7. ASSUME NEW j \in 0 .. size
      PROVE  buf'[j] = IF j < index THEN buf[j] ELSE IF j = index THEN v ELSE buf[j - 1]
  <2>1. CASE j = index
    BY <1>6, <2>1
  <2>2. CASE j < index
    <3>1. j \in Cells(alloc) /\ j \notin index + 1 .. size
      BY <1>1, <2>2 DEF Cells
    <3> QED
      BY <1>2, <1>3, <1>6, <2>2, <3>1
  <2>3. CASE j > index
    <3>1. j - 1 \in Cells(alloc) /\ j \in index + 1 .. size
      BY <1>1, <2>3 DEF Cells
    <3> QED
      BY <1>2, <1>3, <1>6, <2>3, <3>1
  <2> QED
    BY <1>1, <2>1, <2>2, <2>3
<1> QED
  BY <1>5, <1>7

LEMMA CellsAfterRemove ==
  ASSUME TypeOK, NEW index \in Nat, NEW count \in Nat, index + count <= size,
         NEW closed,
         closed = IF index + count < size
                    THEN memmove(buf, index, index + count, size - (index + count)) ELSE buf,
         \/ Halved(closed) /\ 4 * (size - count) < alloc
         \/ buf' = closed /\ UNCHANGED <<alloc, block>>
  PROVE  /\ alloc' \in Nat /\ size - count <= alloc' /\ block' \in {"null", "live", "freed"}
         /\ buf' \in [Cells(alloc') -> Value \cup {Garbage}]
         /\ \A j \in Cells(size - count) :
              buf'[j] = IF j < index THEN buf[j] ELSE buf[j + count]
<1>1. /\ size \in Nat /\ alloc \in Nat /\ size <= alloc
      /\ buf \in [Cells(alloc) -> Value \cup {Garbage}]
  BY DEF TypeOK
<1>2. /\ closed \in [Cells(alloc) -> Value \cup {Garbage}]
      /\ \A j \in Cells(size - count) : closed[j] = IF j < index THEN buf[j] ELSE buf[j + count]
  <2>1. CASE index + count < size
    <3>1. /\ DOMAIN buf = Cells(alloc)
          /\ index + (size - (index + count)) - 1 = size - count - 1
          /\ \A j \in Cells(alloc) : j - index + (index + count) = j + count
      BY <1>1 DEF Cells
    <3>2. closed = [j \in Cells(alloc) |-> IF j \in index .. size - count - 1
                                             THEN buf[j + count] ELSE buf[j]]
      BY <2>1, <3>1 DEF memmove
    <3>3. \A j \in Cells(alloc) : j \in index .. size - count - 1 => j + count \in Cells(alloc)
      BY <1>1 DEF Cells
    <3>4. \A j \in Cells(size - count) : j \in Cells(alloc) /\ (j \in index .. size - count - 1 <=> j >= index)
      BY <1>1 DEF Cells
    <3>5. closed \in [Cells(alloc) -> Value \cup {Garbage}]
      BY <1>1, <3>2, <3>3
    <3>6. \A j \in Cells(size - count) : j \in Int
      BY <1>1 DEF Cells
    <3> QED
      BY <3>2, <3>4, <3>5, <3>6
  <2>2. CASE index + count = size
    <3>1. \A j \in Cells(size - count) : j < index
      BY <1>1, <2>2 DEF Cells
    <3> QED
      BY <1>1, <2>2, <3>1
  <2> QED
    BY <1>1, <2>1, <2>2
<1>3. CASE buf' = closed /\ UNCHANGED <<alloc, block>>
  BY <1>1, <1>2, <1>3 DEF TypeOK
<1>4. CASE Halved(closed) /\ 4 * (size - count) < alloc
  <2>1. CASE alloc' = alloc \div 2 /\ buf' = Resized(closed, alloc \div 2) /\ UNCHANGED block
    <3>1. alloc \div 2 \in Nat /\ alloc \div 2 <= alloc /\ size - count <= alloc \div 2
      BY <1>1, <1>4
    <3>2. /\ DOMAIN closed = Cells(alloc)
          /\ \A j \in Cells(alloc \div 2) : j \in Cells(alloc)
          /\ \A j \in Cells(size - count) : j \in Cells(alloc \div 2)
      BY <1>1, <1>2, <3>1 DEF Cells
    <3>3. buf' = [j \in Cells(alloc \div 2) |-> closed[j]]
      BY <2>1, <3>2 DEF Resized
    <3> QED
      BY <1>2, <2>1, <3>1, <3>2, <3>3 DEF TypeOK
  <2>2. CASE buf' = closed /\ UNCHANGED alloc /\ block' \in {block, "freed"}
    BY <1>1, <1>2, <2>2 DEF TypeOK
  <2> QED
    BY <1>4, <2>1, <2>2 DEF Halved
<1> QED
  BY <1>3, <1>4

LEMMA RemoveCells ==
  ASSUME TypeOK, NEW index \in Nat, NEW count \in Nat, Plus(index, count) = index + count,
         index + count <= size, value_array_remove_range(index, count)
  PROVE  /\ alloc' \in Nat /\ size - count <= alloc' /\ block' \in {"null", "live", "freed"}
         /\ buf' \in [Cells(alloc') -> Value \cup {Garbage}]
         /\ \A j \in Cells(size - count) :
              buf'[j] = IF j < index THEN buf[j] ELSE buf[j + count]
<1> DEFINE closed == IF index + count < size
                       THEN memmove(buf, index, index + count, size - (index + count)) ELSE buf
<1>1. ~(index + count > size)
  BY DEF TypeOK
<1>2. \/ Halved(closed) /\ 4 * (size - count) < alloc
      \/ buf' = closed /\ UNCHANGED <<alloc, block>>
  BY <1>1 DEF value_array_remove_range
<1> HIDE DEF closed
<1>3. closed = IF index + count < size
                 THEN memmove(buf, index, index + count, size - (index + count)) ELSE buf
  BY DEF closed
<1> QED
  BY <1>2, <1>3, CellsAfterRemove

-----------------------------------------------------------------------------
(* The invariant *)

LEMMA InitInv == Init => Inv
BY ArrayAssumption DEF Init, Inv, TypeOK, EachOwnedOnce, Cells

LEMMA InsertKeeps ==
  ASSUME Inv, NEW index \in Index, NEW v \in Value, value_array_insert(index, v)
  PROVE  Inv'
<1>1. /\ TypeOK /\ EachOwnedOnce /\ index \in Nat /\ size \in Nat
  BY ArrayAssumption DEF Inv, TypeOK
<1>2. CASE UNCHANGED <<block, alloc, buf, size, owned>> /\ reply' = NULL
  BY <1>1, <1>2 DEF Inv, TypeOK, EachOwnedOnce
<1>3. CASE /\ index <= size /\ block' = IF Room = alloc THEN block ELSE "live"
           /\ alloc' = Room /\ buf' = [Shift(Resized(buf, Room), index) EXCEPT ![index] = v]
           /\ size' = size + 1 /\ owned' = owned \cup {v} /\ reply' = index
  <2>1. /\ buf' \in [Cells(alloc') -> Value \cup {Garbage}]
        /\ \A j \in 0 .. size : buf'[j] = IF j < index THEN buf[j]
                                          ELSE IF j = index THEN v ELSE buf[j - 1]
    BY <1>1, <1>3, CellsAfterInsert
  <2>2. TypeOK'
    BY <1>1, <1>3, <2>1, RoomForOne DEF TypeOK
  <2>3. Cells(size') = 0 .. size
    BY <1>1, <1>3 DEF Cells
  <2>4. owned = {buf[j] : j \in Cells(size)} /\ v \notin owned
        /\ \A i, j \in Cells(size) : buf[i] = buf[j] => i = j
    BY <1>1 DEF EachOwnedOnce, value_array_insert
  <2>5. ASSUME NEW x PROVE x \in owned' <=> \E j \in 0 .. size : x = buf'[j]
    <3>1. ASSUME NEW j \in 0 .. size PROVE buf'[j] \in owned'
      BY <1>1, <1>3, <2>1, <2>4 DEF Cells
    <3>2. v = buf'[index] /\ index \in 0 .. size
      BY <1>1, <1>3, <2>1
    <3>3. ASSUME NEW j \in Cells(size) PROVE \E m \in 0 .. size : buf[j] = buf'[m]
      <4>1. CASE j < index
        <5>1. j \in 0 .. size /\ buf'[j] = buf[j]
          BY <1>1, <2>1, <4>1 DEF Cells
        <5> QED
          BY <5>1
      <4>2. CASE j >= index
        <5>1. j + 1 \in 0 .. size /\ buf'[j + 1] = buf[j]
          BY <1>1, <2>1, <4>2 DEF Cells
        <5> QED
          BY <5>1
      <4> QED
        BY <1>1, <4>1, <4>2 DEF Cells
    <3> QED
      BY <1>3, <2>4, <3>1, <3>2, <3>3
  <2>6. ASSUME NEW i \in 0 .. size, NEW j \in 0 .. size, buf'[i] = buf'[j] PROVE i = j
    <3> DEFINE from(n) == IF n < index THEN n ELSE n - 1
    <3>1. \A n \in 0 .. size : n # index => from(n) \in Cells(size) /\ buf'[n] = buf[from(n)]
      BY <1>1, <1>3, <2>1 DEF Cells
    <3>2. \A n \in 0 .. size : n # index => buf'[n] # v
      BY <2>4, <3>1
    <3>3. buf'[index] = v /\ index \in 0 .. size
      BY <1>1, <1>3, <2>1
    <3>4. CASE i # index /\ j # index
      <4>1. from(i) = from(j)
        BY <2>4, <2>6, <3>1, <3>4
      <4> QED
        BY <1>1, <3>4, <4>1
    <3> QED
      BY <2>6, <3>2, <3>3, <3>4
  <2>7. EachOwnedOnce'
    BY <2>3, <2>5, <2>6 DEF EachOwnedOnce
  <2> QED
    BY <2>2, <2>7 DEF Inv
<1> QED
  BY <1>2, <1>3 DEF value_array_insert

LEMMA RemoveKeeps ==
  ASSUME RangesFit, Inv, NEW index \in Index, NEW count \in Index,
         value_array_remove_range(index, count)
  PROVE  Inv'
<1>1. /\ TypeOK /\ EachOwnedOnce /\ index \in Nat /\ count \in Nat /\ size \in Nat /\ alloc \in Nat
      /\ Plus(index, count) = index + count
  BY ArrayAssumption DEF Inv, TypeOK, RangesFit
<1>2. CASE index + count > size
  <2>1. UNCHANGED <<block, alloc, buf, size, owned>> /\ reply' = -1
    BY <1>1, <1>2 DEF value_array_remove_range
  <2> QED
    BY <1>1, <2>1 DEF Inv, TypeOK, EachOwnedOnce
<1>3. CASE index + count <= size
  <2>1. /\ owned' = owned \ {buf[j] : j \in index .. index + count - 1}
        /\ size' = size - count /\ reply' = 0
    BY <1>1, <1>3 DEF value_array_remove_range, Finalized
  <2>2. /\ alloc' \in Nat /\ size - count <= alloc' /\ block' \in {"null", "live", "freed"}
        /\ buf' \in [Cells(alloc') -> Value \cup {Garbage}]
        /\ \A j \in Cells(size - count) :
             buf'[j] = IF j < index THEN buf[j] ELSE buf[j + count]
    BY <1>1, <1>3, RemoveCells
  <2>3. TypeOK'
    BY <1>1, <1>3, <2>1, <2>2 DEF TypeOK
  <2>4. owned = {buf[j] : j \in Cells(size)}
        /\ \A i, j \in Cells(size) : buf[i] = buf[j] => i = j
    BY <1>1 DEF EachOwnedOnce
  <2> DEFINE from(n) == IF n < index THEN n ELSE n + count
             out == index .. index + count - 1
  <2>5. \A n \in Cells(size - count) : /\ from(n) \in Cells(size) /\ from(n) \notin out
                                       /\ buf'[n] = buf[from(n)]
    <3> SUFFICES ASSUME NEW n \in Cells(size - count)
                 PROVE  from(n) \in Cells(size) /\ from(n) \notin out /\ buf'[n] = buf[from(n)]
      OBVIOUS
    <3>1. buf'[n] = buf[from(n)]
      BY <2>2
    <3>2. from(n) \in Cells(size) /\ from(n) \notin out
      BY <1>1, <1>3 DEF Cells
    <3> QED
      BY <3>1, <3>2
  <2>6. \A j \in Cells(size) : j \notin out => \E n \in Cells(size - count) : j = from(n)
    <3> SUFFICES ASSUME NEW j \in Cells(size), j \notin out
                 PROVE  \E n \in Cells(size - count) : j = from(n)
      OBVIOUS
    <3>1. CASE j < index
      <4>1. j \in Cells(size - count) /\ from(j) = j
        BY <1>1, <1>3, <3>1 DEF Cells
      <4> QED
        BY <4>1
    <3>2. CASE j >= index + count
      <4>1. j - count \in Cells(size - count) /\ from(j - count) = j
        BY <1>1, <1>3, <3>2 DEF Cells
      <4> QED
        BY <4>1
    <3> QED
      BY <1>1, <3>1, <3>2 DEF Cells
  <2>7. out \subseteq Cells(size)
    BY <1>1, <1>3 DEF Cells
  <2>8. \A n \in Cells(size - count), m \in Cells(size - count) : from(n) = from(m) => n = m
    BY <1>1, <1>3 DEF Cells
  <2>9. owned' = owned \ {buf[j] : j \in out}
    BY <2>1
  <2> HIDE DEF from, out
  <2>10. owned' = {buf'[n] : n \in Cells(size - count)}
    <3>1. ASSUME NEW n \in Cells(size - count) PROVE buf'[n] \in owned'
      BY <2>4, <2>5, <2>7, <2>9
    <3>2. ASSUME NEW x \in owned' PROVE \E n \in Cells(size - count) : x = buf'[n]
      <4>1. PICK j \in Cells(size) : x = buf[j] /\ j \notin out
        BY <2>4, <2>9
      <4> QED
        BY <2>5, <2>6, <4>1
    <3> QED
      BY <3>1, <3>2
  <2>11. \A n, m \in Cells(size - count) : buf'[n] = buf'[m] => n = m
    BY <2>4, <2>5, <2>8
  <2>12. EachOwnedOnce'
    BY <2>1, <2>10, <2>11 DEF EachOwnedOnce
  <2> QED
    BY <2>3, <2>12 DEF Inv
<1> QED
  BY <1>1, <1>2, <1>3

LEMMA CleanKeeps ==
  ASSUME Inv, value_array_clean
  PROVE  Inv'
<1>1. owned' = {}
  <2>1. Finalized(0, size) = {buf[j] : j \in Cells(size)}
    BY DEF Finalized, Cells
  <2> QED
    BY <2>1 DEF Inv, EachOwnedOnce, value_array_clean
<1>2. Cells(0) = {}
  BY DEF Cells
<1> QED
  BY <1>1, <1>2 DEF Inv, TypeOK, EachOwnedOnce, value_array_clean

LEMMA NextInv == RangesFit /\ Inv /\ [Next]_vars => Inv'
<1> SUFFICES ASSUME RangesFit, Inv, [Next]_vars PROVE Inv'
  OBVIOUS
<1>1. CASE UNCHANGED vars
  BY <1>1 DEF vars, Inv, TypeOK, EachOwnedOnce
<1> QED
  BY <1>1, InsertKeeps, RemoveKeeps, CleanKeeps DEF Next

LEMMA Invariance == RangesFit => (Spec => []Inv)
<1> SUFFICES ASSUME RangesFit PROVE Spec => []Inv
  OBVIOUS
<1>1. Inv /\ [Next]_vars => Inv'
  BY NextInv
<1> QED
  BY <1>1, InitInv, PTL DEF Spec

(* However the array grows and shrinks, its items lie in its cells. *)
THEOREM TypeCorrect == RangesFit => (Spec => []TypeOK)
<1> SUFFICES ASSUME RangesFit PROVE Spec => []TypeOK
  OBVIOUS
<1>1. Inv => TypeOK
  BY DEF Inv
<1> QED
  BY <1>1, Invariance, PTL

(* No stored value is lost, doubled or used after it was finalized. *)
THEOREM OwnedOnce == RangesFit => (Spec => []EachOwnedOnce)
<1> SUFFICES ASSUME RangesFit PROVE Spec => []EachOwnedOnce
  OBVIOUS
<1>1. Inv => EachOwnedOnce
  BY DEF Inv
<1> QED
  BY <1>1, Invariance, PTL

-----------------------------------------------------------------------------
(* The array implements the list *)

LEMMA InsertImplemented ==
  ASSUME Inv, NEW index \in Index, NEW v \in Value, value_array_insert(index, v)
  PROVE  List!Insert(index, v)
<1>1. /\ TypeOK /\ index \in Nat /\ size \in Nat
  BY ArrayAssumption DEF Inv, TypeOK
<1>2. CASE UNCHANGED <<block, alloc, buf, size, owned>> /\ reply' = NULL
  BY <1>2 DEF List!Insert, Items
<1>3. CASE /\ index <= size /\ buf' = [Shift(Resized(buf, Room), index) EXCEPT ![index] = v]
           /\ size' = size + 1 /\ reply' = index
  <2>1. \A j \in 0 .. size : buf'[j] = IF j < index THEN buf[j]
                                       ELSE IF j = index THEN v ELSE buf[j - 1]
    BY <1>1, <1>3, CellsAfterInsert
  <2>2. Cells(size') = 0 .. size
    BY <1>1, <1>3 DEF Cells
  <2>3. \A j \in 0 .. size : (j < index => j \in Cells(size)) /\ (j > index => j - 1 \in Cells(size))
    BY <1>1, <1>3 DEF Cells
  <2>4. Items' = [j \in 0 .. size |-> buf'[j]]
    BY <2>2 DEF Items
  <2>5. ASSUME NEW j \in 0 .. size
        PROVE  buf'[j] = IF j < index THEN Items[j] ELSE IF j = index THEN v ELSE Items[j - 1]
    BY <1>1, <2>1, <2>3 DEF Items
  <2>6. Items' = [j \in 0 .. size |-> IF j < index THEN Items[j]
                                      ELSE IF j = index THEN v ELSE Items[j - 1]]
    BY <2>4, <2>5
  <2> QED
    BY <1>3, <2>6 DEF List!Insert
<1> QED
  BY <1>2, <1>3 DEF value_array_insert

LEMMA RemoveImplemented ==
  ASSUME RangesFit, Inv, NEW index \in Index, NEW count \in Index,
         value_array_remove_range(index, count)
  PROVE  List!Remove(index, count)
<1>1. /\ TypeOK /\ index \in Nat /\ count \in Nat /\ size \in Nat
      /\ Plus(index, count) = index + count
  BY ArrayAssumption DEF Inv, TypeOK, RangesFit
<1>2. CASE index + count > size
  BY <1>1, <1>2 DEF value_array_remove_range, List!Remove, Items
<1>3. CASE index + count <= size
  <2>1. size' = size - count /\ reply' = 0
    BY <1>1, <1>3 DEF value_array_remove_range
  <2>2. \A j \in Cells(size - count) : buf'[j] = IF j < index THEN buf[j] ELSE buf[j + count]
    BY <1>1, <1>3, RemoveCells
  <2>3. \A j \in Cells(size - count) : /\ j \in Cells(size) /\ j + count \in Cells(size)
    BY <1>1, <1>3 DEF Cells
  <2>4. Cells(size') = 0 .. size - count - 1 /\ Cells(size - count) = 0 .. size - count - 1
    BY <2>1 DEF Cells
  <2>5. Items' = [j \in 0 .. size - count - 1 |-> buf'[j]]
    BY <2>4 DEF Items
  <2>6. ASSUME NEW j \in 0 .. size - count - 1
        PROVE  buf'[j] = IF j < index THEN Items[j] ELSE Items[j + count]
    BY <2>2, <2>3, <2>4 DEF Items
  <2>7. Items' = [j \in 0 .. size - count - 1 |-> IF j < index THEN Items[j] ELSE Items[j + count]]
    BY <2>5, <2>6
  <2> QED
    BY <1>3, <2>1, <2>7 DEF List!Remove
<1> QED
  BY <1>1, <1>2, <1>3

(* For every size, every sequence of calls and every failure of realloc()  *)
(* VALUE_ARRAY is the list of value.h.                                     *)
THEOREM ListImplemented == RangesFit => (Spec => IsList)
<1> SUFFICES ASSUME RangesFit PROVE Spec => IsList
  OBVIOUS
<1>1. Init => List!Init
  <2>1. Cells(0) = {}
    BY DEF Cells
  <2> QED
    BY <2>1 DEF Init, List!Init, Items
<1>2. Inv /\ [Next]_vars => [List!Next]_(List!lvars)
  <2> SUFFICES ASSUME Inv, [Next]_vars PROVE List!Next \/ UNCHANGED <<size, Items, reply>>
    BY DEF List!lvars
  <2>1. CASE UNCHANGED vars
    BY <2>1 DEF vars, Items
  <2>2. ASSUME NEW index \in Index, NEW v \in Value, value_array_insert(index, v) PROVE List!Next
    BY <2>2, InsertImplemented DEF List!Next
  <2>3. ASSUME NEW index \in Index, NEW count \in Index, value_array_remove_range(index, count)
        PROVE  List!Next
    BY <2>3, RemoveImplemented DEF List!Next
  <2>4. CASE value_array_clean
    <3>1. Items' = [j \in {} |-> NULL]
      <4>1. Cells(size') = {}
        BY <2>4 DEF value_array_clean, Cells
      <4> QED
        BY <4>1 DEF Items
    <3> QED
      BY <2>4, <3>1 DEF value_array_clean, List!Next, List!Clean
  <2> QED
    BY <2>1, <2>2, <2>3, <2>4 DEF Next
<1> QED
  BY <1>1, <1>2, Invariance, PTL DEF Spec, List!Spec, IsList

=============================================================================
