----------------------------- MODULE MCTickets -----------------------------
(* An instance of Tickets for TLC. *)
EXTENDS Tickets, TLC

CONSTANTS h1, h2, a1, a2

Symmetry == Permutations({h1, h2}) \cup Permutations({a1, a2})

=============================================================================
