--------------------------- MODULE MCRentFollowUp ---------------------------
(* Instances of RentFollowUp for TLC. *)
EXTENDS RentFollowUp, TLC

CONSTANTS p1, p2, c1

TwoPasses == {p1, p2}
OneClient == {c1}

\* The days of the levels as the first and second day that matter.
TwoLevels == <<1, 2>>

=============================================================================
