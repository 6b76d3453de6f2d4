------------------------------ MODULE MCClient ------------------------------
(* Client for TLC: a Client{} that dc has, one from Init, one for a literal. *)
EXTENDS Client, TLC

CONSTANTS c1, c2, c3, e1, literal

ThreeClients == {c1, c2, c3}
TwoEvents == {e1, literal}
OneLiteral == {literal}

Symmetry == Permutations(Goroutines)

=============================================================================
