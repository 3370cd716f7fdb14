----------------------------- MODULE MCValueDict -----------------------------
(* Small sets of keys for ValueDict. *)
EXTENDS ValueDict

(* Numbers that compare by their value, but 12 equals 1, as two keys do    *)
(* under a comparison that ignores case.                                   *)
NumberRank == [k \in Key |-> IF k = 12 THEN 1 ELSE k]

(* Enough keys for every case of the tree, or, where each order makes a    *)
(* state of its own, some of them and one pair of equals.                  *)
TreeOrListKeys(b) == IF b THEN {1, 2, 3, 4, 12} ELSE 1 .. 10

(* Without an order list, the shape of the tree alone: nothing a tree      *)
(* becomes depends on the values that are new or on the last reply.        *)
Shape == <<ordered, nodes, tree, size, IF ordered THEN <<order, fresh, reply>> ELSE <<>>>>

(* Each call does to the dictionary, and answers, what value.h says of it, *)
(* but for value_dict_add() of a key whose value is still new.  The calls  *)
(* without an order list search the same trees; Shape would hide from them *)
(* which values are new.                                                   *)
EachCallKept == [][ordered => \A k \in Uses(ordered) : CallKept(k)]_vars

=============================================================================
