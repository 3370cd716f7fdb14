------------------------------ MODULE MCBuffer ------------------------------
(* Buffers of a few bytes for the model checking of Buffer. *)
EXTENDS Buffer

FewCounts == 0 .. 3

(* No later step depends on the last reply. *)
Store == <<data, size, alloc, reserved>>

=============================================================================
