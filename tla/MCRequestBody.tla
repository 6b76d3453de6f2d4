--------------------------- MODULE MCRequestBody ---------------------------
(* RequestBody for TLC. *)
EXTENDS RequestBody, TLC

Symmetry == Permutations(Fires) \cup Permutations(Buffers)

=============================================================================
