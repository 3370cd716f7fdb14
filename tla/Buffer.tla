------------------------------- MODULE Buffer -------------------------------
(***************************************************************************)
(* BUFFER of src/3rd_party/buffer.c with STACK of buffer.h and ARRAY of    *)
(* src/array.h, which put integers and pointers of a fixed number of bytes *)
(* into one.  A call gets sizes its caller may give: a place within the    *)
(* buffer, and no more to pop than there is.                               *)
(***************************************************************************)
EXTENDS Integers

CONSTANTS
  Byte,
  Counts,      \* the sizes and positions of the calls
  ItemSize,    \* sizeof(void*) for ARRAY
  Garbage,     \* what a byte holds that was never written
  MaxSize      \* bound: the number of bytes stored

ASSUME BufferAssumption ==
  /\ Counts \subseteq Nat /\ ItemSize \in Counts \ {0}
  /\ Garbage \notin Byte /\ MaxSize \in Nat

VARIABLES
  data,        \* the bytes of the block, data[0] to data[alloc - 1]
  size, alloc,
  reply,       \* the result, 0 or -1, and the bytes read
  reserved     \* history: the size up to which buffer_reserve() promised room

vars == <<data, size, alloc, reply, reserved>>

Bytes(n) == 0 .. n - 1

Done(rc)  == [rc |-> rc, read |-> [j \in {} |-> 0]]
Got(read) == [rc |-> 0, read |-> read]

(* The n bytes from pos on *)
Read(pos, n) == [j \in Bytes(n) |-> data[pos + j]]

Init ==
  /\ data = [j \in {} |-> Garbage] /\ size = 0 /\ alloc = 0
  /\ reply = Done(0) /\ reserved = 0

-----------------------------------------------------------------------------
(* buffer.c *)

Resized(n) == [j \in Bytes(n) |-> IF j \in DOMAIN data THEN data[j] ELSE Garbage]

(* Mutant of buffer_realloc: the size stays when the block gets smaller. *)
buffer_realloc_oversized(n) ==
  /\ data' = Resized(n) /\ alloc' = n /\ reply' = Done(0)
  /\ UNCHANGED size

(* realloc() may fail unless it is asked for nothing. *)
buffer_realloc(n) ==
  \/ /\ data' = Resized(n)
     /\ alloc' = n
     /\ size' = IF size > n THEN n ELSE size
     /\ reply' = Done(0)
  \/ /\ n > 0
     /\ reply' = Done(-1) /\ UNCHANGED <<data, size, alloc>>

Lacks(n) == size + n > alloc

buffer_reserve(extra_alloc) ==
  IF Lacks(extra_alloc) THEN buffer_realloc(size + extra_alloc)
  ELSE reply' = Done(0) /\ UNCHANGED <<data, size, alloc>>

buffer_shrink ==
  IF alloc \div 4 > size \div 3 THEN buffer_realloc(size)
  ELSE UNCHANGED <<data, size, alloc, reply>>

(* Byte j of the block, or what happens to lie behind it *)
At(block, j) == IF j \in DOMAIN block THEN block[j] ELSE Garbage

memmove(block, to, from, n) ==
  [j \in DOMAIN block |-> IF j \in to .. to + n - 1 THEN At(block, j - to + from) ELSE block[j]]

Written(block, pos, n, bytes) ==
  [j \in DOMAIN block |-> IF j \in pos .. pos + n - 1 THEN bytes[j - pos] ELSE block[j]]

(* Mutant of Moved: the tail goes one byte too far. *)
MovedFar(block, pos, n) ==
  IF size > pos THEN memmove(block, pos + n + 1, pos, size - pos) ELSE block

Moved(block, pos, n) ==
  IF size > pos THEN memmove(block, pos + n, pos, size - pos) ELSE block

buffer_insert(pos, n, bytes) ==
  LET room == IF Lacks(n) THEN 2 * (size + n) ELSE alloc
  IN \/ /\ data' = Written(Moved(Resized(room), pos, n), pos, n, bytes)
        /\ alloc' = room
        /\ size' = size + n
        /\ reply' = Done(0)
     \/ Lacks(n) /\ reply' = Done(-1) /\ UNCHANGED <<data, size, alloc>>

(* In the middle it moves as many bytes as it removes, be it fewer or more *)
(* than follow.                                                            *)
buffer_remove(pos, n) ==
  IF pos + n < size
    THEN /\ data' = memmove(data, pos, pos + n, n)
         /\ size' = size - n
         /\ UNCHANGED alloc
    ELSE size' = pos /\ UNCHANGED <<data, alloc>>

(* From here on, the calls, with what the history remembers. *)
Insert(pos, n, bytes) ==
  /\ pos <= size /\ size + n <= MaxSize
  /\ buffer_insert(pos, n, bytes) /\ UNCHANGED reserved

Reserve(extra_alloc) ==
  /\ buffer_reserve(extra_alloc)
  /\ reserved' = IF reply'.rc = 0 THEN size + extra_alloc ELSE reserved

Remove(pos, n) ==
  /\ pos <= size
  /\ buffer_remove(pos, n)
  /\ reply' = Done(0) /\ UNCHANGED reserved

-----------------------------------------------------------------------------
(* STACK *)

stack_peek(n) ==
  /\ n <= size
  /\ reply' = Got(Read(size - n, n))
  /\ UNCHANGED <<data, size, alloc, reserved>>

stack_pop(n) ==
  /\ n <= size
  /\ reply' = Got(Read(size - n, n))
  /\ buffer_remove(size - n, n)
  /\ UNCHANGED reserved

buffer_clear == Remove(0, size)

-----------------------------------------------------------------------------
(* ARRAY *)

array_size == size \div ItemSize

array_append(item)        == Insert(size, ItemSize, item)
array_insert(index, item) == Insert(index * ItemSize, ItemSize, item)
array_reserve(n_items)    == Reserve(n_items * ItemSize)

array_get(index) ==
  /\ index < array_size
  /\ reply' = Got(Read(index * ItemSize, ItemSize))
  /\ UNCHANGED <<data, size, alloc, reserved>>

(* The reply stands for the item the destructor was called with. *)
array_remove(index) ==
  /\ index < array_size
  /\ buffer_remove(index * ItemSize, ItemSize)
  /\ reply' = Got(Read(index * ItemSize, ItemSize))
  /\ UNCHANGED reserved

array_clear ==
  /\ size = array_size * ItemSize
  /\ reply' = Got(Read(0, size))
  /\ buffer_remove(0, size) /\ UNCHANGED reserved

-----------------------------------------------------------------------------
Strings(n) == [Bytes(n) -> Byte]

Next ==
  \/ \E pos, n \in Counts : Remove(pos, n) \/ \E bytes \in Strings(n) : Insert(pos, n, bytes)
  \/ \E n \in Counts : Reserve(n) \/ stack_peek(n) \/ stack_pop(n)
  \/ \E n \in Counts : buffer_realloc(n) /\ reserved' = 0
  \/ buffer_shrink /\ reserved' = 0
  \/ buffer_clear
  \/ \E item \in Strings(ItemSize) : array_append(item)
  \/ \E index \in Counts, item \in Strings(ItemSize) : array_insert(index, item)
  \/ \E n_items \in Counts : array_reserve(n_items)
  \/ \E index \in Counts : array_get(index) \/ array_remove(index)
  \/ array_clear

Spec == Init /\ [][Next]_vars

-----------------------------------------------------------------------------
(* Properties *)

(* What is in use is in the block, and was written.  buffer.h: "Reserve    *)
(* new space for extra_alloc bytes at the end of the buffer": whatever is  *)
(* removed and added later, insertions up to that size need no memory,     *)
(* until the application changes the room itself.                          *)
TypeOK ==
  /\ size \in Nat /\ alloc \in Nat /\ size <= alloc
  /\ data \in [Bytes(alloc) -> Byte \cup {Garbage}]
  /\ \A j \in Bytes(size) : data[j] \in Byte
  /\ reserved \in Nat /\ reserved <= alloc

Contents == Read(0, size)

String == INSTANCE ByteString WITH length <- size, bytes <- Contents

(* A removal of fewer bytes than follow: the first n of those move, and    *)
(* behind them stands what stood there before.                             *)
MovesTooFew(pos, n) ==
  /\ n > 0 /\ pos + 2 * n < size
  /\ size' = size - n
  /\ Contents' = [j \in Bytes(size - n) |-> IF j \in pos .. pos + n - 1 THEN Contents[j + n] ELSE Contents[j]]
  /\ reply' \in {Done(0), Got(Read(pos, n))}

StringNext == String!Next \/ \E pos, n \in Bytes(size) : MovesTooFew(pos, n)

(* The buffer, as a stack and as an array too, behaves like a plain string *)
(* of bytes through growth, shrinking and failures of realloc(), with one  *)
(* exception: a removal that more bytes follow than it takes away is       *)
(* MovesTooFew, and not the removal buffer.h lists.                        *)
IsString == String!Init /\ [][StringNext]_(String!svars)

=============================================================================
