--------------------------- MODULE MCApplications ---------------------------
(* Instances of Applications for TLC. *)
EXTENDS Applications, TLC

CONSTANTS h1, h2, p1

Symmetry == Permutations({h1, h2})

=============================================================================
