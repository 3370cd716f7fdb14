----------------------------- MODULE ByteString -----------------------------
(***************************************************************************)
(* What src/3rd_party/buffer.h promises of BUFFER and of STACK on top of   *)
(* it: a string of bytes, counted from 0, that a call changes as told or,  *)
(* if there is no memory, not at all.                                      *)
(***************************************************************************)
EXTENDS Integers

CONSTANTS Byte, Counts

VARIABLES
  length, bytes,
  reply      \* the result, 0 or -1, and the bytes read

svars == <<length, bytes, reply>>

Strings(n) == [0 .. n - 1 -> Byte]
Part(from, to) == [j \in 0 .. to - from - 1 |-> bytes[from + j]]

Done(rc)  == [rc |-> rc, read |-> [j \in {} |-> 0]]
Got(read) == [rc |-> 0, read |-> read]

Init == length = 0 /\ bytes \in Strings(0) /\ reply = Done(0)

(* No memory, or a call about room only *)
Keep == reply' \in {Done(0), Done(-1)} /\ UNCHANGED <<length, bytes>>

Insert(pos, n, added) ==
  /\ pos <= length
  /\ length' = length + n
  /\ bytes' = [j \in 0 .. length + n - 1 |->
                 IF j < pos THEN bytes[j] ELSE IF j < pos + n THEN added[j - pos] ELSE bytes[j - n]]
  /\ reply' = Done(0)

CutAt(pos) ==
  /\ pos <= length
  /\ length' = pos /\ bytes' = Part(0, pos)

(* Without the n bytes from pos on *)
Without(pos, n) ==
  [j \in 0 .. length - n - 1 |-> IF j < pos THEN bytes[j] ELSE bytes[j + n]]

Remove(pos, n) ==
  /\ pos + n < length
  /\ length' = length - n /\ bytes' = Without(pos, n)

Read(pos, n) ==
  /\ pos + n <= length
  /\ reply' = Got(Part(pos, pos + n)) /\ UNCHANGED <<length, bytes>>

Pop(n) ==
  /\ n <= length
  /\ reply' = Got(Part(length - n, length))
  /\ CutAt(length - n)

Next ==
  \/ Keep
  \/ \E pos \in 0 .. length, n \in Counts : \E added \in Strings(n) : Insert(pos, n, added)
  \/ \E pos \in 0 .. length : CutAt(pos) /\ reply' = Done(0)
  \/ \E pos \in 0 .. length, n \in 0 .. length : Read(pos, n)
  \/ \E n \in 0 .. length : Pop(n)
  \/ \E pos, n \in 0 .. length :
       Remove(pos, n) /\ reply' \in {Done(0), Got(Part(pos, pos + n))}

Spec == Init /\ [][Next]_svars

=============================================================================
