---------------------------- MODULE BufferProofs ----------------------------
(***************************************************************************)
(* Proofs about Buffer, for buffers of every size and items of every size: *)
(* what is in use was written and is in the block, reserved room stays,    *)
(* and the buffer, the stack and the array are the plain string of bytes   *)
(* of module ByteString.                                                   *)
(***************************************************************************)
EXTENDS Buffer, TLAPS

Cell == Byte \cup {Garbage}

-----------------------------------------------------------------------------
(* The bytes after an operation *)

LEMMA BytesAfterResize ==
  ASSUME TypeOK, NEW n \in Nat
  PROVE  /\ Resized(n) \in [Bytes(n) -> Cell]
         /\ \A j \in Bytes(n) : j \in Bytes(alloc) => Resized(n)[j] = data[j]
<1>1. DOMAIN data = Bytes(alloc) /\ data \in [Bytes(alloc) -> Cell]
  BY DEF TypeOK, Cell
<1> QED
  BY <1>1 DEF Resized, Cell

LEMMA BytesAfterMove ==
  ASSUME TypeOK, NEW pos \in Nat, NEW n \in Nat, pos <= size, NEW room \in Nat, size + n <= room,
         NEW block \in [Bytes(room) -> Cell]
  PROVE  /\ Moved(block, pos, n) \in [Bytes(room) -> Cell]
         /\ \A j \in Bytes(size + n) : j < pos => Moved(block, pos, n)[j] = block[j]
         /\ \A j \in Bytes(size + n) : j >= pos + n => Moved(block, pos, n)[j] = block[j - n]
<1>1. size \in Nat /\ DOMAIN block = Bytes(room)
  BY DEF TypeOK
<1>2. CASE size > pos
  <2>1. /\ pos + n + (size - pos) - 1 = size + n - 1
        /\ \A j \in Bytes(room) : j - (pos + n) + pos = j - n
    BY <1>1 DEF Bytes
  <2>2. Moved(block, pos, n) =
          [j \in Bytes(room) |-> IF j \in pos + n .. size + n - 1 THEN block[j - n] ELSE block[j]]
    <3>1. \A j \in Bytes(room) : j \in pos + n .. size + n - 1 => At(block, j - n) = block[j - n]
      BY <1>1 DEF At, Bytes
    <3>2. Moved(block, pos, n) =
            [j \in Bytes(room) |-> IF j \in pos + n .. size + n - 1 THEN At(block, j - n) ELSE block[j]]
      BY <1>1, <1>2, <2>1 DEF Moved, memmove
    <3> QED
      BY <3>1, <3>2
  <2>3. \A j \in Bytes(size + n) :
          /\ j \in Bytes(room)
          /\ j < pos => j \notin pos + n .. size + n - 1
          /\ j >= pos + n => j \in pos + n .. size + n - 1 /\ j - n \in Bytes(room)
    BY <1>1 DEF Bytes
  <2>4. Moved(block, pos, n) \in [Bytes(room) -> Cell]
    <3>1. \A j \in Bytes(room) : j \in pos + n .. size + n - 1 => j - n \in Bytes(room)
      BY <1>1 DEF Bytes
    <3> QED
      BY <2>2, <3>1
  <2> QED
    BY <2>2, <2>3, <2>4
<1>3. CASE size = pos
  <2>1. Moved(block, pos, n) = block
    BY <1>1, <1>3 DEF Moved
  <2>2. \A j \in Bytes(size + n) : ~(j >= pos + n)
    BY <1>1, <1>3 DEF Bytes
  <2> QED
    BY <2>1, <2>2
<1> QED
  BY <1>1, <1>2, <1>3

LEMMA BytesAfterWrite ==
  ASSUME NEW pos \in Nat, NEW n \in Nat, NEW room \in Nat, NEW block \in [Bytes(room) -> Cell],
         NEW bytes \in Strings(n)
  PROVE  /\ Written(block, pos, n, bytes) \in [Bytes(room) -> Cell]
         /\ \A j \in Bytes(room) :
              Written(block, pos, n, bytes)[j] =
                IF j >= pos /\ j < pos + n THEN bytes[j - pos] ELSE block[j]
<1>1. Written(block, pos, n, bytes) =
        [j \in Bytes(room) |-> IF j \in pos .. pos + n - 1 THEN bytes[j - pos] ELSE block[j]]
  BY DEF Written
<1>2. \A j \in Bytes(room) :
        /\ j \in pos .. pos + n - 1 <=> j >= pos /\ j < pos + n
        /\ j \in pos .. pos + n - 1 => j - pos \in Bytes(n)
  BY DEF Bytes
<1>3. \A j \in Bytes(n) : bytes[j] \in Cell
  BY DEF Strings, Cell
<1> QED
  BY <1>1, <1>2, <1>3

LEMMA BytesAfterInsert ==
  ASSUME TypeOK, NEW pos \in Nat, NEW n \in Nat, pos <= size, NEW bytes \in Strings(n),
         NEW room \in Nat, size + n <= room, alloc <= room,
         data' = Written(Moved(Resized(room), pos, n), pos, n, bytes)
  PROVE  /\ data' \in [Bytes(room) -> Cell]
         /\ \A j \in Bytes(size + n) :
              data'[j] = IF j < pos THEN data[j] ELSE IF j < pos + n THEN bytes[j - pos] ELSE data[j - n]
<1> DEFINE grown == Resized(room)
           moved == Moved(grown, pos, n)
<1>1. size \in Nat /\ alloc \in Nat /\ size <= alloc
  BY DEF TypeOK
<1>2. /\ grown \in [Bytes(room) -> Cell]
      /\ \A j \in Bytes(room) : j \in Bytes(alloc) => grown[j] = data[j]
  BY BytesAfterResize
<1> HIDE DEF grown
<1>3. /\ moved \in [Bytes(room) -> Cell]
      /\ \A j \in Bytes(size + n) : j < pos => moved[j] = grown[j]
      /\ \A j \in Bytes(size + n) : j >= pos + n => moved[j] = grown[j - n]
  BY <1>2, BytesAfterMove
<1>4. data' = Written(moved, pos, n, bytes)
  BY DEF grown
<1> HIDE DEF moved
<1>5. /\ data' \in [Bytes(room) -> Cell]
      /\ \A j \in Bytes(room) :
           data'[j] = IF j >= pos /\ j < pos + n THEN bytes[j - pos] ELSE moved[j]
  BY <1>3, <1>4, BytesAfterWrite
<1>6. ASSUME NEW j \in Bytes(size + n)
      PROVE  data'[j] = IF j < pos THEN data[j] ELSE IF j < pos + n THEN bytes[j - pos] ELSE data[j - n]
  <2>1. j \in Bytes(room) /\ j \in Int
    BY <1>1 DEF Bytes
  <2>2. CASE j < pos
    <3>1. j \in Bytes(alloc)
      BY <1>1, <2>1, <2>2 DEF Bytes
    <3> QED
      BY <1>2, <1>3, <1>5, <2>1, <2>2, <3>1
  <2>3. CASE j >= pos /\ j < pos + n
    BY <1>5, <2>1, <2>3
  <2>4. CASE j >= pos + n
    <3>1. j - n \in Bytes(alloc) /\ j - n \in Bytes(room)
      BY <1>1, <2>1, <2>4 DEF Bytes
    <3> QED
      BY <1>2, <1>3, <1>5, <2>1, <2>4, <3>1
  <2> QED
    BY <2>1, <2>2, <2>3, <2>4
<1> QED
  BY <1>5, <1>6

LEMMA BytesAfterRemove ==
  ASSUME TypeOK, NEW pos \in Nat, NEW n \in Nat, pos <= size, buffer_remove(pos, n)
  PROVE  /\ alloc' = alloc /\ data' \in [Bytes(alloc) -> Cell]
         /\ size' = IF pos + n < size THEN size - n ELSE pos
         /\ \A j \in Bytes(size') : /\ j < pos \/ j >= pos + n => data'[j] = data[j]
                                    /\ j >= pos => pos + n < size
                                    /\ j >= pos /\ j < pos + n => data'[j] = data[j + n]
<1>1. /\ size \in Nat /\ alloc \in Nat /\ size <= alloc
      /\ data \in [Bytes(alloc) -> Cell] /\ DOMAIN data = Bytes(alloc)
  BY DEF TypeOK, Cell
<1>2. CASE pos + n < size
  <2>1. \A j \in Bytes(alloc) : j - pos + (pos + n) = j + n
    BY <1>1 DEF Bytes
  <2>2. data' = [j \in Bytes(alloc) |-> IF j \in pos .. pos + n - 1 THEN At(data, j + n) ELSE data[j]]
    BY <1>1, <1>2, <2>1 DEF buffer_remove, memmove
  <2>3. size' = size - n /\ alloc' = alloc
    BY <1>2 DEF buffer_remove
  <2>4. \A j \in Bytes(size') :
          /\ j \in Bytes(alloc)
          /\ j < pos \/ j >= pos + n => j \notin pos .. pos + n - 1
          /\ j >= pos /\ j < pos + n => j \in pos .. pos + n - 1 /\ j + n \in Bytes(alloc)
    BY <1>1, <1>2, <2>3 DEF Bytes
  <2>5. \A j \in Bytes(alloc) : At(data, j + n) \in Cell
    BY <1>1 DEF At, Cell
  <2>6. data' \in [Bytes(alloc) -> Cell]
    BY <1>1, <2>2, <2>5
  <2>7. ASSUME NEW j \in Bytes(size'), j >= pos, j < pos + n PROVE data'[j] = data[j + n]
    <3>1. At(data, j + n) = data[j + n]
      BY <1>1, <2>4, <2>7 DEF At
    <3> QED
      BY <2>2, <2>4, <2>7, <3>1
  <2>8. \A j \in Bytes(size') : j < pos \/ j >= pos + n => data'[j] = data[j]
    BY <2>2, <2>4
  <2> QED
    BY <1>2, <2>3, <2>6, <2>7, <2>8
<1>3. CASE ~(pos + n < size)
  <2>1. size' = pos /\ alloc' = alloc /\ data' = data
    BY <1>3 DEF buffer_remove
  <2>2. \A j \in Bytes(size') : ~(j >= pos)
    BY <2>1 DEF Bytes
  <2> QED
    BY <1>1, <1>3, <2>1, <2>2
<1> QED
  BY <1>2, <1>3

LEMMA BytesAfterRealloc ==
  ASSUME TypeOK, NEW n \in Nat, buffer_realloc(n)
  PROVE  \/ /\ data' \in [Bytes(n) -> Cell] /\ alloc' = n /\ reply' = Done(0)
            /\ size' = IF size > n THEN n ELSE size
            /\ \A j \in Bytes(size') : data'[j] = data[j]
         \/ reply' = Done(-1) /\ UNCHANGED <<data, size, alloc>>
<1>1. size \in Nat /\ alloc \in Nat /\ size <= alloc
  BY DEF TypeOK
<1>2. CASE data' = Resized(n) /\ alloc' = n /\ size' = (IF size > n THEN n ELSE size) /\ reply' = Done(0)
  <2>1. \A j \in Bytes(size') : j \in Bytes(n) /\ j \in Bytes(alloc)
    BY <1>1, <1>2 DEF Bytes
  <2> QED
    BY <1>2, <2>1, BytesAfterResize
<1> QED
  BY <1>2 DEF buffer_realloc

-----------------------------------------------------------------------------
(* The invariant, action by action *)

LEMMA SizesOK ==
  ASSUME TypeOK
  PROVE  size \in Nat /\ alloc \in Nat /\ size <= alloc /\ reserved \in Nat /\ reserved <= alloc
BY DEF TypeOK

LEMMA InsertKeeps ==
  ASSUME TypeOK, NEW pos \in Nat, NEW n \in Nat, NEW bytes \in Strings(n), Insert(pos, n, bytes)
  PROVE  TypeOK'
<1>1. CASE Lacks(n) /\ reply' = Done(-1) /\ UNCHANGED <<data, size, alloc>>
  BY <1>1 DEF Insert, TypeOK
<1>2. ASSUME NEW room, room = (IF Lacks(n) THEN 2 * (size + n) ELSE alloc), alloc' = room, size' = size + n,
             data' = Written(Moved(Resized(room), pos, n), pos, n, bytes)
      PROVE  TypeOK'
  <2>1. room \in Nat /\ size + n <= room /\ alloc <= room /\ pos <= size
    BY <1>2, SizesOK DEF Lacks, Insert
  <2>2. /\ data' \in [Bytes(room) -> Cell]
        /\ \A j \in Bytes(size + n) :
             data'[j] = IF j < pos THEN data[j] ELSE IF j < pos + n THEN bytes[j - pos] ELSE data[j - n]
    BY <1>2, <2>1, BytesAfterInsert
  <2>3. ASSUME NEW j \in Bytes(size + n) PROVE data'[j] \in Byte
    <3>1. /\ j < pos => j \in Bytes(size)
          /\ j >= pos /\ j < pos + n => j - pos \in Bytes(n)
          /\ j >= pos + n => j - n \in Bytes(size)
          /\ j \in Int
      BY <2>1, SizesOK DEF Bytes
    <3>2. \A m \in Bytes(n) : bytes[m] \in Byte
      BY DEF Strings
    <3> QED
      BY <2>2, <3>1, <3>2 DEF TypeOK
  <2> QED
    BY <1>2, <2>1, <2>2, <2>3, SizesOK DEF TypeOK, Cell, Insert
<1> QED
  BY <1>1, <1>2 DEF Insert, buffer_insert

LEMMA RemoveKeeps ==
  ASSUME TypeOK, NEW pos \in Nat, NEW n \in Nat, pos <= size, buffer_remove(pos, n), UNCHANGED reserved
  PROVE  TypeOK'
<1>1. /\ alloc' = alloc /\ data' \in [Bytes(alloc) -> Cell]
      /\ size' = IF pos + n < size THEN size - n ELSE pos
      /\ \A j \in Bytes(size') : /\ j < pos \/ j >= pos + n => data'[j] = data[j]
                                 /\ j >= pos => pos + n < size
                                 /\ j >= pos /\ j < pos + n => data'[j] = data[j + n]
  BY BytesAfterRemove
<1>2. size' \in Nat /\ size' <= size
  BY <1>1, SizesOK
<1>3. ASSUME NEW j \in Bytes(size') PROVE data'[j] \in Byte
  <2>1. /\ j \in Int /\ j \in Bytes(size)
        /\ j >= pos => j + n \in Bytes(size)
    BY <1>1, <1>2, SizesOK DEF Bytes
  <2> QED
    BY <1>1, <2>1 DEF TypeOK
<1> QED
  BY <1>1, <1>2, <1>3, SizesOK DEF TypeOK, Cell

LEMMA ReallocKeeps ==
  ASSUME TypeOK, NEW n \in Nat, buffer_realloc(n),
         \/ reserved' = 0
         \/ n >= size /\ alloc <= n /\ reserved' = IF reply'.rc = 0 THEN n ELSE reserved
  PROVE  TypeOK'
<1>1. CASE reply' = Done(-1) /\ UNCHANGED <<data, size, alloc>>
  <2>1. reply'.rc # 0
    BY <1>1 DEF Done
  <2> QED
    BY <1>1, <2>1, SizesOK DEF TypeOK
<1>2. CASE /\ data' \in [Bytes(n) -> Cell] /\ alloc' = n /\ reply' = Done(0)
           /\ size' = IF size > n THEN n ELSE size
           /\ \A j \in Bytes(size') : data'[j] = data[j]
  <2>1. reply'.rc = 0
    BY <1>2 DEF Done
  <2>2. size' \in Nat /\ size' <= size /\ size' <= n /\ \A j \in Bytes(size') : j \in Bytes(size)
    BY <1>2, SizesOK DEF Bytes
  <2> QED
    BY <1>2, <2>1, <2>2, SizesOK DEF TypeOK, Cell
<1> QED
  BY <1>1, <1>2, BytesAfterRealloc

LEMMA ReserveKeeps ==
  ASSUME TypeOK, NEW n \in Nat, Reserve(n)
  PROVE  TypeOK'
<1>1. CASE Lacks(n)
  <2>1. size + n \in Nat /\ size + n >= size /\ alloc <= size + n
    BY <1>1, SizesOK DEF Lacks
  <2>2. buffer_realloc(size + n) /\ reserved' = IF reply'.rc = 0 THEN size + n ELSE reserved
    BY <1>1 DEF Reserve, buffer_reserve
  <2> QED
    BY <2>1, <2>2, ReallocKeeps
<1>2. CASE ~Lacks(n)
  <2>1. size + n <= alloc /\ UNCHANGED <<data, size, alloc>>
    BY <1>2, SizesOK DEF Lacks, Reserve, buffer_reserve
  <2>2. reserved' \in {size + n, reserved}
    BY DEF Reserve
  <2> QED
    BY <2>1, <2>2, SizesOK DEF TypeOK
<1> QED
  BY <1>1, <1>2

(* Items lie next to one another in the bytes in use. *)
LEMMA ItemInside ==
  ASSUME TypeOK, NEW index \in Nat, index < array_size
  PROVE  index * ItemSize \in Nat /\ index * ItemSize + ItemSize <= size
<1>1. ItemSize \in Nat \ {0}
  BY BufferAssumption
<1> DEFINE q == size \div ItemSize
<1>2. q \in Nat /\ q * ItemSize <= size
  BY <1>1, SizesOK
<1>3. index + 1 <= q
  BY <1>2 DEF array_size
<1> HIDE DEF q
<1>4. (index + 1) * ItemSize <= q * ItemSize
  BY <1>1, <1>2, <1>3
<1>5. (index + 1) * ItemSize = index * ItemSize + ItemSize /\ index * ItemSize \in Nat
  BY <1>1
<1> QED
  BY <1>1, <1>2, <1>4, <1>5, SizesOK

LEMMA ReadKeeps ==
  ASSUME TypeOK, UNCHANGED <<data, size, alloc, reserved>>
  PROVE  TypeOK'
BY DEF TypeOK

LEMMA NextTypeOK == TypeOK /\ [Next]_vars => TypeOK'
<1> SUFFICES ASSUME TypeOK, [Next]_vars PROVE TypeOK'
  OBVIOUS
<1> USE BufferAssumption
<1>1. CASE UNCHANGED vars
  BY <1>1, ReadKeeps DEF vars
<1>2. ASSUME NEW pos \in Counts, NEW n \in Counts, Remove(pos, n) PROVE TypeOK'
  BY <1>2, RemoveKeeps DEF Remove
<1>3. ASSUME NEW pos \in Counts, NEW n \in Counts, NEW bytes \in Strings(n), Insert(pos, n, bytes)
      PROVE  TypeOK'
  BY <1>3, InsertKeeps
<1>4. ASSUME NEW n \in Counts, Reserve(n) \/ stack_peek(n) \/ stack_pop(n) PROVE TypeOK'
  <2>1. CASE Reserve(n)
    BY <2>1, ReserveKeeps
  <2>2. CASE stack_peek(n)
    BY <2>2, ReadKeeps DEF stack_peek
  <2>3. CASE stack_pop(n)
    <3>1. size - n \in Nat /\ size - n <= size
      BY <2>3, SizesOK DEF stack_pop
    <3> QED
      BY <2>3, <3>1, RemoveKeeps DEF stack_pop
  <2> QED
    BY <1>4, <2>1, <2>2, <2>3
<1>5. ASSUME NEW n \in Counts, buffer_realloc(n), reserved' = 0 PROVE TypeOK'
  BY <1>5, ReallocKeeps
<1>6. CASE buffer_shrink /\ reserved' = 0
  <2>1. CASE buffer_realloc(size)
    BY <1>6, <2>1, ReallocKeeps, SizesOK
  <2>2. CASE UNCHANGED <<data, size, alloc, reply>>
    BY <1>6, <2>2, SizesOK DEF TypeOK
  <2> QED
    BY <1>6, <2>1, <2>2 DEF buffer_shrink
<1>7. CASE buffer_clear
  BY <1>7, RemoveKeeps, SizesOK DEF buffer_clear, Remove
<1>8. ASSUME NEW item \in Strings(ItemSize), array_append(item) PROVE TypeOK'
  BY <1>8, InsertKeeps, SizesOK DEF array_append
<1>9. ASSUME NEW index \in Counts, NEW item \in Strings(ItemSize), array_insert(index, item)
      PROVE  TypeOK'
  <2>1. index * ItemSize \in Nat
    OBVIOUS
  <2> QED
    BY <1>9, <2>1, InsertKeeps DEF array_insert
<1>10. ASSUME NEW n_items \in Counts, array_reserve(n_items) PROVE TypeOK'
  <2>1. n_items * ItemSize \in Nat
    OBVIOUS
  <2> QED
    BY <1>10, <2>1, ReserveKeeps DEF array_reserve
<1>11. ASSUME NEW index \in Counts, array_get(index) \/ array_remove(index) PROVE TypeOK'
  <2>1. CASE array_get(index)
    BY <2>1, ReadKeeps DEF array_get
  <2>2. CASE array_remove(index)
    <3>1. index * ItemSize \in Nat /\ index * ItemSize <= size
      BY <2>2, ItemInside, SizesOK DEF array_remove
    <3> QED
      BY <2>2, <3>1, RemoveKeeps DEF array_remove
  <2> QED
    BY <1>11, <2>1, <2>2
<1>12. CASE array_clear
  BY <1>12, RemoveKeeps, SizesOK DEF array_clear
<1> QED
  BY <1>1, <1>2, <1>3, <1>4, <1>5, <1>6, <1>7, <1>8, <1>9, <1>10, <1>11, <1>12 DEF Next

(* Whatever is inserted, removed, reserved and given back, and whatever    *)
(* fails, the bytes in use were written, they lie in the block, and so     *)
(* does the room that buffer_reserve() promised.                           *)
THEOREM TypeCorrect == Spec => []TypeOK
<1>1. Init => TypeOK
  BY DEF Init, TypeOK, Bytes
<1> QED
  BY <1>1, NextTypeOK, PTL DEF Spec

-----------------------------------------------------------------------------
(* The buffer implements the string, action by action *)

LEMMA ContentsAre ==
  /\ Contents = [j \in Bytes(size) |-> data[j]]
  /\ Contents' = [j \in Bytes(size') |-> data'[j]]
<1>1. \A n \in {size, size'} : \A j \in Bytes(n) : 0 + j = j
  BY DEF Bytes
<1>2. /\ Contents = [j \in Bytes(size) |-> data[0 + j]]
      /\ Contents' = [j \in Bytes(size') |-> data'[0 + j]]
  BY DEF Contents, Read
<1> QED
  BY <1>1, <1>2

(* What is read of the bytes in use is a part of the string. *)
LEMMA ReadIsPart ==
  ASSUME TypeOK, NEW pos \in Nat, NEW n \in Nat, pos + n <= size
  PROVE  Read(pos, n) = String!Part(pos, pos + n)
<1>1. \A j \in Bytes(n) : pos + j \in Bytes(size)
  BY SizesOK DEF Bytes
<1>2. Bytes(n) = 0 .. pos + n - pos - 1
  BY DEF Bytes
<1>3. ASSUME NEW j \in Bytes(n) PROVE data[pos + j] = Contents[pos + j]
  BY <1>1, ContentsAre
<1>4. String!Part(pos, pos + n) = [j \in Bytes(n) |-> Contents[pos + j]]
  BY <1>2 DEF String!Part
<1> QED
  BY <1>3, <1>4 DEF Read

LEMMA SameBytes ==
  ASSUME UNCHANGED <<data, size>>
  PROVE  UNCHANGED <<size, Contents>>
BY DEF Contents, Read

LEMMA KeepImplemented ==
  ASSUME UNCHANGED <<data, size>>, reply' \in {Done(0), Done(-1)}
  PROVE  String!Next
BY SameBytes DEF String!Next, String!Keep, String!Done, Done

LEMMA InsertImplemented ==
  ASSUME TypeOK, NEW pos \in Nat, NEW n \in Counts, NEW bytes \in Strings(n), Insert(pos, n, bytes)
  PROVE  String!Next
<1>0. n \in Nat
  BY BufferAssumption
<1>1. CASE Lacks(n) /\ reply' = Done(-1) /\ UNCHANGED <<data, size, alloc>>
  BY <1>1, KeepImplemented
<1>2. ASSUME NEW room, room = (IF Lacks(n) THEN 2 * (size + n) ELSE alloc), alloc' = room, size' = size + n,
             data' = Written(Moved(Resized(room), pos, n), pos, n, bytes), reply' = Done(0)
      PROVE  String!Insert(pos, n, bytes)
  <2>1. room \in Nat /\ size + n <= room /\ alloc <= room /\ pos <= size
    BY <1>0, <1>2, SizesOK DEF Lacks, Insert
  <2>2. \A j \in Bytes(size + n) :
             data'[j] = IF j < pos THEN data[j] ELSE IF j < pos + n THEN bytes[j - pos] ELSE data[j - n]
    BY <1>0, <1>2, <2>1, BytesAfterInsert
  <2>3. \A j \in Bytes(size + n) : /\ j < pos => j \in Bytes(size)
                                   /\ j >= pos + n => j - n \in Bytes(size)
                                   /\ j < pos + n \/ j >= pos + n
    BY <1>0, <2>1, SizesOK DEF Bytes
  <2>4. ASSUME NEW j \in Bytes(size + n)
        PROVE  data'[j] = IF j < pos THEN Contents[j] ELSE IF j < pos + n THEN bytes[j - pos] ELSE Contents[j - n]
    BY <2>2, <2>3, ContentsAre
  <2>5. Contents' = [j \in Bytes(size + n) |->
                       IF j < pos THEN Contents[j] ELSE IF j < pos + n THEN bytes[j - pos] ELSE Contents[j - n]]
    BY <1>2, <2>4, ContentsAre
  <2>6. reply' = String!Done(0)
    BY <1>2 DEF String!Done, Done
  <2>7. size' = size + n
    BY <1>2
  <2>8. Contents' = [j \in 0 .. size + n - 1 |->
                       IF j < pos THEN Contents[j] ELSE IF j < pos + n THEN bytes[j - pos] ELSE Contents[j - n]]
    BY <1>0, <2>5, SizesOK DEF Bytes
  <2> QED
    BY <1>0, <2>1, <2>6, <2>7, <2>8, Zenon DEF String!Insert
<1>3. pos \in 0 .. size /\ bytes \in String!Strings(n)
  BY SizesOK DEF Insert, Strings, String!Strings, Bytes
<1>4. ASSUME String!Insert(pos, n, bytes) PROVE String!Next
  BY <1>3, <1>4 DEF String!Next
<1> QED
  BY <1>1, <1>2, <1>4 DEF Insert, buffer_insert

LEMMA RemoveMovesTooFew ==
  ASSUME TypeOK, NEW pos \in Nat, NEW n \in Nat, buffer_remove(pos, n), n > 0, pos + 2 * n < size,
         reply' \in {Done(0), Got(Read(pos, n))}
  PROVE  MovesTooFew(pos, n)
<1>1. /\ pos + n < size /\ pos <= size
      /\ size' = size - n /\ Bytes(size - n) = 0 .. size - n - 1
      /\ \A j \in Bytes(size') : /\ j < pos \/ j >= pos + n => data'[j] = data[j]
                                 /\ j >= pos /\ j < pos + n => data'[j] = data[j + n]
  BY BytesAfterRemove, SizesOK DEF Bytes
<1>2. ASSUME NEW j \in Bytes(size')
      PROVE  data'[j] = IF j \in pos .. pos + n - 1 THEN Contents[j + n] ELSE Contents[j]
  <2>1. j \in Int /\ j \in Bytes(size) /\ j + n \in Bytes(size)
    BY <1>1, SizesOK DEF Bytes
  <2>2. CASE j \in pos .. pos + n - 1
    <3>1. data'[j] = data[j + n]
      BY <1>1, <2>1, <2>2
    <3> QED
      BY <2>1, <2>2, <3>1, ContentsAre
  <2>3. CASE j \notin pos .. pos + n - 1
    <3>1. data'[j] = data[j]
      BY <1>1, <2>1, <2>3
    <3> QED
      BY <2>1, <2>3, <3>1, ContentsAre
  <2> QED
    BY <2>2, <2>3
<1>3. Contents' = [j \in Bytes(size - n) |->
                     IF j \in pos .. pos + n - 1 THEN Contents[j + n] ELSE Contents[j]]
  BY <1>1, <1>2, ContentsAre
<1> QED
  BY <1>1, <1>3 DEF MovesTooFew

(* A removal is the string's, at its end or before it, or it moves too    *)
(* few bytes.                                                              *)
LEMMA RemoveImplemented ==
  ASSUME TypeOK, NEW pos \in Nat, NEW n \in Nat, pos <= size, buffer_remove(pos, n),
         reply' \in {Done(0), Got(Read(pos, n))}
  PROVE  \/ pos + n < size /\ String!Remove(pos, n)
         \/ pos + n >= size /\ String!CutAt(pos)
         \/ MovesTooFew(pos, n)
<1>1. /\ size' = IF pos + n < size THEN size - n ELSE pos
      /\ \A j \in Bytes(size') : /\ j < pos \/ j >= pos + n => data'[j] = data[j]
                                 /\ j >= pos => pos + n < size
                                 /\ j >= pos /\ j < pos + n => data'[j] = data[j + n]
  BY BytesAfterRemove
<1>2. CASE pos + n < size
  <2>1. \A j \in Bytes(size') : /\ j < pos => j \in Bytes(size)
                                /\ j >= pos => j + n \in Bytes(size)
                                /\ j < pos \/ j >= pos
    BY <1>1, <1>2, SizesOK DEF Bytes
  <2>2. ASSUME NEW j \in Bytes(size'), j < pos + n
        PROVE  data'[j] = IF j < pos THEN Contents[j] ELSE Contents[j + n]
    BY <1>1, <2>1, <2>2, ContentsAre
  <2>3. CASE n = 0 \/ pos + 2 * n >= size
    <3>1. ASSUME NEW j \in Bytes(size') PROVE data'[j] = IF j < pos THEN Contents[j] ELSE Contents[j + n]
      <4>1. CASE j < pos + n
        BY <2>2, <4>1
      <4>2. CASE j >= pos + n
        <5>1. n = 0 /\ j \in Bytes(size) /\ j \in Int
          BY <1>1, <1>2, <2>3, <4>2, SizesOK DEF Bytes
        <5>2. data'[j] = data[j] /\ Contents[j] = data[j] /\ j + n = j
          BY <1>1, <4>2, <5>1, ContentsAre
        <5> QED
          BY <5>2
      <4>3. j \in Int
        BY DEF Bytes
      <4> QED
        BY <4>1, <4>2, <4>3
    <3>2. Contents' = [j \in Bytes(size - n) |-> IF j < pos THEN Contents[j] ELSE Contents[j + n]]
      BY <1>1, <1>2, <3>1, ContentsAre
    <3> QED
      BY <1>1, <1>2, <3>2 DEF String!Remove, String!Without, Bytes
  <2>4. CASE n > 0 /\ pos + 2 * n < size
    BY <2>4, RemoveMovesTooFew
  <2> QED
    BY <2>3, <2>4, SizesOK
<1>3. CASE pos + n >= size
  <2>1. size' = pos /\ \A j \in Bytes(pos) : j \in Bytes(size) /\ data'[j] = data[j] /\ 0 + j = j
    BY <1>1, <1>3, SizesOK DEF Bytes
  <2>2. Contents' = [j \in Bytes(pos) |-> Contents[0 + j]]
    BY <2>1, ContentsAre
  <2>3. Bytes(pos) = 0 .. pos - 0 - 1
    BY DEF Bytes
  <2> QED
    BY <1>3, <2>1, <2>2, <2>3 DEF String!CutAt, String!Part
<1> QED
  BY <1>2, <1>3, SizesOK

LEMMA TooFewImplemented ==
  ASSUME TypeOK, NEW pos \in Nat, NEW n \in Nat, MovesTooFew(pos, n)
  PROVE  StringNext
<1>1. pos \in Bytes(size) /\ n \in Bytes(size)
  BY SizesOK DEF MovesTooFew, Bytes
<1> QED
  BY <1>1 DEF StringNext

LEMMA PlainRemoveImplemented ==
  ASSUME TypeOK, NEW pos \in Nat, NEW n \in Nat, pos <= size, buffer_remove(pos, n), reply' = Done(0)
  PROVE  StringNext
<1>1. reply' = String!Done(0) /\ pos \in 0 .. size /\ (pos + n < size => n \in 0 .. size)
  BY SizesOK DEF Done, String!Done
<1>2. CASE pos + n < size /\ String!Remove(pos, n)
  BY <1>1, <1>2 DEF String!Next, StringNext
<1>3. CASE String!CutAt(pos)
  BY <1>1, <1>3 DEF String!Next, StringNext
<1> QED
  BY <1>2, <1>3, RemoveImplemented, TooFewImplemented

LEMMA TakeImplemented ==
  ASSUME TypeOK, NEW pos \in Nat, NEW n \in Nat, pos + n <= size, buffer_remove(pos, n),
         reply' = Got(Read(pos, n))
  PROVE  StringNext
<1>1. /\ reply' = String!Got(String!Part(pos, pos + n)) /\ pos <= size
      /\ pos \in 0 .. size /\ n \in 0 .. size
  BY ReadIsPart, SizesOK DEF Got, String!Got
<1>2. CASE pos + n < size /\ String!Remove(pos, n)
  BY <1>1, <1>2 DEF String!Next, StringNext
<1>3. CASE pos + n >= size /\ String!CutAt(pos)
  <2>1. pos = size - n /\ pos + n = size /\ n <= size
    BY <1>3, SizesOK
  <2>2. reply' = String!Got(String!Part(size - n, size))
    BY <1>1, <2>1
  <2>3. String!CutAt(size - n)
    BY <1>3, <2>1
  <2>4. String!Pop(n)
    BY <2>1, <2>2, <2>3 DEF String!Pop
  <2> QED
    BY <1>1, <2>4 DEF String!Next, StringNext
<1> QED
  BY <1>1, <1>2, <1>3, RemoveImplemented, TooFewImplemented

LEMMA ReadImplemented ==
  ASSUME TypeOK, NEW pos \in Nat, NEW n \in Nat, pos + n <= size, UNCHANGED <<data, size>>,
         reply' = Got(Read(pos, n))
  PROVE  String!Next
<1>1. /\ reply' = String!Got(String!Part(pos, pos + n))
      /\ pos \in 0 .. size /\ n \in 0 .. size
  BY ReadIsPart, SizesOK DEF Got, String!Got
<1>2. String!Read(pos, n)
  BY <1>1, SameBytes DEF String!Read
<1> QED
  BY <1>1, <1>2 DEF String!Next

LEMMA ReallocImplemented ==
  ASSUME TypeOK, NEW n \in Nat, buffer_realloc(n)
  PROVE  String!Next
<1>1. CASE reply' = Done(-1) /\ UNCHANGED <<data, size, alloc>>
  BY <1>1, KeepImplemented
<1>2. CASE /\ reply' = Done(0) /\ size' = IF size > n THEN n ELSE size
           /\ \A j \in Bytes(size') : data'[j] = data[j]
  <2>1. /\ size' \in 0 .. size
        /\ \A j \in Bytes(size') : j \in Bytes(size) /\ 0 + j = j
        /\ Bytes(size') = 0 .. size' - 0 - 1
    BY <1>2, SizesOK DEF Bytes
  <2>2. Contents' = [j \in Bytes(size') |-> Contents[0 + j]]
    BY <1>2, <2>1, ContentsAre
  <2>3. String!CutAt(size')
    BY <2>1, <2>2 DEF String!CutAt, String!Part
  <2>4. reply' = String!Done(0)
    BY <1>2 DEF Done, String!Done
  <2> QED
    BY <2>1, <2>3, <2>4 DEF String!Next
<1> QED
  BY <1>1, <1>2, BytesAfterRealloc

LEMMA ReserveImplemented ==
  ASSUME TypeOK, NEW n \in Nat, Reserve(n)
  PROVE  String!Next
<1>1. CASE buffer_realloc(size + n)
  BY <1>1, SizesOK, ReallocImplemented
<1>2. CASE reply' = Done(0) /\ UNCHANGED <<data, size, alloc>>
  BY <1>2, KeepImplemented
<1> QED
  BY <1>1, <1>2 DEF Reserve, buffer_reserve

LEMMA NextImplemented ==
  TypeOK /\ [Next]_vars => [StringNext]_(String!svars)
<1> SUFFICES ASSUME TypeOK, [Next]_vars PROVE StringNext \/ UNCHANGED <<size, Contents, reply>>
  BY DEF String!svars
<1> USE BufferAssumption
<1>0. String!Next => StringNext
  BY DEF StringNext
<1>1. CASE UNCHANGED vars
  BY <1>1, SameBytes DEF vars
<1>2. ASSUME NEW pos \in Counts, NEW n \in Counts, Remove(pos, n) PROVE StringNext
  BY <1>2, PlainRemoveImplemented DEF Remove
<1>3. ASSUME NEW pos \in Counts, NEW n \in Counts, NEW bytes \in Strings(n), Insert(pos, n, bytes)
      PROVE  StringNext
  BY <1>0, <1>3, InsertImplemented
<1>4. ASSUME NEW n \in Counts, Reserve(n) \/ stack_peek(n) \/ stack_pop(n) PROVE StringNext
  <2>1. CASE Reserve(n)
    BY <1>0, <2>1, ReserveImplemented
  <2>2. CASE stack_peek(n)
    <3>1. size - n \in Nat /\ size - n + n <= size
      BY <2>2, SizesOK DEF stack_peek
    <3> QED
      BY <1>0, <2>2, <3>1, ReadImplemented DEF stack_peek
  <2>3. CASE stack_pop(n)
    <3>1. size - n \in Nat /\ size - n + n <= size
      BY <2>3, SizesOK DEF stack_pop
    <3> QED
      BY <2>3, <3>1, TakeImplemented DEF stack_pop
  <2> QED
    BY <1>4, <2>1, <2>2, <2>3
<1>5. ASSUME NEW n \in Counts, buffer_realloc(n) PROVE StringNext
  BY <1>0, <1>5, ReallocImplemented
<1>6. CASE buffer_shrink
  <2>1. CASE buffer_realloc(size)
    BY <1>0, <2>1, ReallocImplemented, SizesOK
  <2>2. CASE UNCHANGED <<data, size, alloc, reply>>
    BY <2>2, SameBytes
  <2> QED
    BY <1>6, <2>1, <2>2 DEF buffer_shrink
<1>7. CASE buffer_clear
  BY <1>7, PlainRemoveImplemented, SizesOK DEF buffer_clear, Remove
<1>8. ASSUME NEW item \in Strings(ItemSize), array_append(item) PROVE StringNext
  BY <1>0, <1>8, InsertImplemented, SizesOK DEF array_append
<1>9. ASSUME NEW index \in Counts, NEW item \in Strings(ItemSize), array_insert(index, item)
      PROVE  StringNext
  <2>1. index * ItemSize \in Nat
    OBVIOUS
  <2> QED
    BY <1>0, <1>9, <2>1, InsertImplemented DEF array_insert
<1>10. ASSUME NEW n_items \in Counts, array_reserve(n_items) PROVE StringNext
  <2>1. n_items * ItemSize \in Nat
    OBVIOUS
  <2> QED
    BY <1>0, <1>10, <2>1, ReserveImplemented DEF array_reserve
<1>11. ASSUME NEW index \in Counts, array_get(index) \/ array_remove(index) PROVE StringNext
  <2>1. index * ItemSize \in Nat /\ index * ItemSize + ItemSize <= size
    BY <1>11, ItemInside DEF array_get, array_remove
  <2>2. CASE array_get(index)
    BY <1>0, <2>1, <2>2, ReadImplemented DEF array_get
  <2>3. CASE array_remove(index)
    BY <2>1, <2>3, TakeImplemented DEF array_remove
  <2> QED
    BY <1>11, <2>2, <2>3
<1>12. CASE array_clear
  <2>1. 0 + size <= size
    BY SizesOK
  <2> QED
    BY <1>12, <2>1, TakeImplemented, SizesOK DEF array_clear
<1> QED
  BY <1>1, <1>2, <1>3, <1>4, <1>5, <1>6, <1>7, <1>8, <1>9, <1>10, <1>11, <1>12 DEF Next

(* For every size, every sequence of calls and every failure of realloc()  *)
(* BUFFER, STACK and ARRAY are the string of bytes of module ByteString,   *)
(* but for the removals that move too few bytes.                           *)
THEOREM StringImplemented == Spec => IsString
<1>1. Init => String!Init
  <2>1. Bytes(0) = {} /\ String!Strings(0) = [{} -> Byte]
    BY DEF Bytes, String!Strings
  <2> QED
    BY <2>1, ContentsAre DEF Init, String!Init, Done, String!Done
<1> QED
  BY <1>1, NextImplemented, TypeCorrect, PTL DEF Spec, IsString

(* Whenever a removal is followed by more bytes than it takes away, the    *)
(* ones behind those that moved stay where they were (buffer.c:81), so it  *)
(* is the wrong removal wherever two bytes n apart differ there.           *)
THEOREM RemovalLeavesStale ==
  Spec => [][\A pos \in Bytes(size), n \in Nat \ {0} :
               pos + 2 * n < size /\ Remove(pos, n) =>
                 /\ MovesTooFew(pos, n)
                 /\ \A j \in pos + n .. size - n - 1 :
                      Contents[j] # Contents[j + n] => ~ String!Remove(pos, n)]_vars
<1> DEFINE Stale ==
      \A pos \in Bytes(size), n \in Nat \ {0} :
        pos + 2 * n < size /\ Remove(pos, n) =>
          /\ MovesTooFew(pos, n)
          /\ \A j \in pos + n .. size - n - 1 :
               Contents[j] # Contents[j + n] => ~ String!Remove(pos, n)
<1>1. TypeOK => Stale
  <2> SUFFICES ASSUME TypeOK, NEW pos \in Bytes(size), NEW n \in Nat \ {0},
                      pos + 2 * n < size, Remove(pos, n)
               PROVE  /\ MovesTooFew(pos, n)
                      /\ \A j \in pos + n .. size - n - 1 :
                           Contents[j] # Contents[j + n] => ~ String!Remove(pos, n)
    OBVIOUS
  <2>1. pos \in Nat /\ n \in Nat /\ pos + n < size /\ pos <= size
    BY SizesOK DEF Bytes
  <2>2. MovesTooFew(pos, n)
    BY <2>1, RemoveMovesTooFew DEF Remove
  <2>3. ASSUME NEW j \in pos + n .. size - n - 1, Contents[j] # Contents[j + n], String!Remove(pos, n)
        PROVE  FALSE
    <3>1. j \in Bytes(size - n) /\ j \in 0 .. size - n - 1 /\ j \notin pos .. pos + n - 1 /\ ~ (j < pos)
      BY <2>1, SizesOK DEF Bytes
    <3>2. Contents'[j] = Contents[j]
      BY <2>2, <3>1 DEF MovesTooFew
    <3>3. Contents'[j] = Contents[j + n]
      BY <2>3, <3>1 DEF String!Remove, String!Without
    <3> QED
      BY <2>3, <3>2, <3>3
  <2> QED
    BY <2>2, <2>3
<1>2. TypeOK => [Stale]_vars
  BY <1>1
<1> QED
  BY <1>2, TypeCorrect, PTL

=============================================================================
