----------------------------- MODULE ValueList ------------------------------
(***************************************************************************)
(* What src/3rd_party/value.h promises of VALUE_ARRAY: a list of values,   *)
(* counted from 0, of which a call changes the named places or nothing.    *)
(***************************************************************************)
EXTENDS Integers

CONSTANTS Value, Index, NULL

VARIABLES length, list, reply

lvars == <<length, list, reply>>

Init == length = 0 /\ list = [j \in {} |-> NULL] /\ reply = NULL

Insert(i, v) ==
  \/ /\ i <= length
     /\ length' = length + 1
     /\ list' = [j \in 0 .. length |-> IF j < i THEN list[j]
                                       ELSE IF j = i THEN v ELSE list[j - 1]]
     /\ reply' = i
  \/ reply' = NULL /\ UNCHANGED <<length, list>>      \* no such place or no memory

Remove(i, n) ==
  \/ /\ i + n <= length
     /\ length' = length - n
     /\ list' = [j \in 0 .. length - n - 1 |-> IF j < i THEN list[j] ELSE list[j + n]]
     /\ reply' = 0
  \/ i + n > length /\ reply' = -1 /\ UNCHANGED <<length, list>>

Clean == length' = 0 /\ list' = [j \in {} |-> NULL] /\ UNCHANGED reply

Next ==
  \/ \E i \in Index, v \in Value : Insert(i, v)
  \/ \E i, n \in Index : Remove(i, n)
  \/ Clean

Spec == Init /\ [][Next]_lvars

=============================================================================
