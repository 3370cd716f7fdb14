---------------------------- MODULE JsonEvents ----------------------------
(***************************************************************************)
(* What json.h promises the application about the calls of its callback:   *)
(* one value at the root, every container closed by its own kind, and in   *)
(* an object keys and values in turn.                                      *)
(***************************************************************************)
EXTENDS Sequences, Naturals

VARIABLES
  types,   \* of the events so far
  open,    \* the kinds of the containers that are open, the innermost last
  keyed    \* the last event was a key

vars == <<types, open, keyed>>

ScalarTypes == {"NULL", "FALSE", "TRUE", "NUMBER", "STRING"}
Kinds == {"ARRAY", "OBJECT"}
Beginning(kind) == IF kind = "ARRAY" THEN "ARRAY_BEG" ELSE "OBJECT_BEG"
Ending(kind)    == IF kind = "ARRAY" THEN "ARRAY_END" ELSE "OBJECT_END"

Init == types = <<>> /\ open = <<>> /\ keyed = FALSE

InObject == open # <<>> /\ open[Len(open)] = "OBJECT"

(* A value may come at the root once, in an array, or after a key. *)
MayTakeValue == IF open = <<>> THEN types = <<>> ELSE InObject => keyed

Emit(type) == types' = Append(types, type)

Scalar ==
  /\ MayTakeValue
  /\ \E type \in ScalarTypes : Emit(type)
  /\ keyed' = FALSE /\ UNCHANGED open

Key ==
  /\ InObject /\ ~keyed
  /\ Emit("KEY")
  /\ keyed' = TRUE /\ UNCHANGED open

Begin(kind) ==
  /\ MayTakeValue
  /\ Emit(Beginning(kind))
  /\ open' = Append(open, kind) /\ keyed' = FALSE

End(kind) ==
  /\ open # <<>> /\ open[Len(open)] = kind /\ ~keyed
  /\ Emit(Ending(kind))
  /\ open' = SubSeq(open, 1, Len(open) - 1) /\ UNCHANGED keyed

Next == Scalar \/ Key \/ \E kind \in Kinds : Begin(kind) \/ End(kind)

Spec == Init /\ [][Next]_vars

=============================================================================
