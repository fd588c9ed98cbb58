---------------------------- MODULE MCAiActions ----------------------------
(* Instances of AiActions for TLC. *)
EXTENDS AiActions, TLC

Symmetry == Permutations(Handlers)

=============================================================================
