----------------------------- MODULE ValueArray -----------------------------
(***************************************************************************)
(* VALUE_ARRAY of src/3rd_party/value.c: a block of cells that grows by    *)
(* doubling and is halved when less than a quarter is used.  Only the      *)
(* identity of a value is kept; the application gives the new item of an   *)
(* insertion a value that is not in the array.                             *)
(***************************************************************************)
EXTENDS Integers, FiniteSets

CONSTANTS
  Value,
  Index,        \* the indexes and counts of the calls
  NULL,
  Garbage,      \* what a cell holds that was never written
  Width,        \* of size_t, in bits
  FreesOnZero   \* realloc(p, 0) frees p and returns NULL, as in the GNU C library

ASSUME ArrayAssumption ==
  /\ Index \subseteq Nat
  /\ Width \in Nat /\ FreesOnZero \in BOOLEAN
  /\ NULL \notin Nat /\ Garbage \notin Value

VARIABLES
  block,        \* what value_buf points to: "null", "live" or "freed"
  alloc, buf,   \* the cells, buf[0] to buf[alloc - 1]
  size,
  owned,        \* values stored and not finalized
  reply         \* the index of the item returned, NULL, 0 or -1

vars == <<block, alloc, buf, size, owned, reply>>

Cells(n) == 0 .. n - 1
Plus(a, b) == (a + b) % 2 ^ Width

Init ==
  /\ block = "null" /\ alloc = 0 /\ buf = [j \in {} |-> NULL] /\ size = 0
  /\ owned = {} /\ reply = NULL

memmove(cells, to, from, n) ==
  [j \in DOMAIN cells |-> IF j \in to .. to + n - 1 THEN cells[j - to + from] ELSE cells[j]]

Resized(cells, n) == [j \in Cells(n) |-> IF j \in DOMAIN cells THEN cells[j] ELSE Garbage]

(* Mutant of Shift: one item too few moves up. *)
ShiftShort(cells, index) == memmove(cells, index + 1, index, size - index - 1)

(* The items from an index on make place for a new one. *)
Shift(cells, index) == memmove(cells, index + 1, index, size - index)

Room == IF size < alloc THEN alloc ELSE IF alloc > 0 THEN 2 * alloc ELSE 1

value_array_insert(index, v) ==
  /\ v \notin owned
  /\ \/ /\ index <= size
        /\ block' = IF Room = alloc THEN block ELSE "live"
        /\ alloc' = Room
        /\ buf' = [Shift(Resized(buf, Room), index) EXCEPT ![index] = v]
        /\ size' = size + 1
        /\ owned' = owned \cup {v}
        /\ reply' = index
     \/ /\ index > size \/ Room # alloc
        /\ reply' = NULL
        /\ UNCHANGED <<block, alloc, buf, size, owned>>

(* Mutant of Halved: it also takes the cell of the last item. *)
HalvedTooFar(cells) ==
  /\ alloc' = (alloc \div 2) - 1
  /\ buf' = Resized(cells, (alloc \div 2) - 1)
  /\ UNCHANGED block

(* realloc() to half the size: it succeeds, fails, or is asked for nothing. *)
Halved(cells) ==
  \/ /\ alloc \div 2 > 0 \/ ~FreesOnZero
     /\ alloc' = alloc \div 2
     /\ buf' = Resized(cells, alloc \div 2)
     /\ UNCHANGED block
  \/ /\ alloc \div 2 > 0
     /\ buf' = cells /\ UNCHANGED <<alloc, block>>
  \/ /\ alloc \div 2 = 0 /\ FreesOnZero
     /\ block' = "freed"
     /\ buf' = cells /\ UNCHANGED alloc

(* Mutant of Finalized: the last item of the range is forgotten. *)
FinalizedShort(index, end) == {buf[j] : j \in index .. end - 2}

Finalized(index, end) == {buf[j] : j \in index .. end - 1}

value_array_remove_range(index, count) ==
  LET end == Plus(index, count)
      closed == IF end < size THEN memmove(buf, index, end, size - end) ELSE buf
  IN \/ /\ end <= size
        /\ owned' = owned \ Finalized(index, end)
        /\ size' = size - count
        /\ IF 4 * (size - count) < alloc
             THEN Halved(closed)
             ELSE buf' = closed /\ UNCHANGED <<alloc, block>>
        /\ reply' = 0
     \/ end > size /\ reply' = -1 /\ UNCHANGED <<block, alloc, buf, size, owned>>

value_array_clean ==
  /\ owned' = owned \ Finalized(0, size)
  /\ block' = "null" /\ alloc' = 0 /\ buf' = [j \in {} |-> NULL] /\ size' = 0
  /\ UNCHANGED reply

Next ==
  \/ \E index \in Index, v \in Value : value_array_insert(index, v)
  \/ \E index, count \in Index : value_array_remove_range(index, count)
  \/ value_array_clean

Spec == Init /\ [][Next]_vars

-----------------------------------------------------------------------------
(* Properties *)

TypeOK ==
  /\ block \in {"null", "live", "freed"}
  /\ alloc \in Nat /\ size \in Nat /\ size <= alloc
  /\ buf \in [Cells(alloc) -> Value \cup {Garbage}]
  /\ owned \subseteq Value
  /\ reply \in Nat \cup {NULL, -1}

(* A value that was stored is in the array once or has been finalized:     *)
(* none is lost, none is there twice, none is used after its end.          *)
EachOwnedOnce ==
  /\ owned = {buf[j] : j \in Cells(size)}
  /\ \A i, j \in Cells(size) : buf[i] = buf[j] => i = j

(* value.h: "Get pointer to internal C array of all items."  The cells the *)
(* array believes to have are those of a block that is allocated.  Where   *)
(* realloc(p, 0) frees the block they are not (value_array_emptied).       *)
BlockAlive == alloc > 0 => block = "live"

Items == [j \in Cells(size) |-> buf[j]]

List == INSTANCE ValueList WITH length <- size, list <- Items

(* The array behaves like the plain list of value.h, through every growth, *)
(* every shrinking and every failure of either.                            *)
IsList == List!Spec

=============================================================================
