---------------------------- MODULE MCOccupancy ----------------------------
(* Instances of Occupancy for TLC. *)
EXTENDS Occupancy, TLC

CONSTANTS m1, m2, s1, c1, l1, l2, a, b, t1

TwoMakers == {m1, m2}
OneStaff == {s1}
OneCloser == {c1}
TwoLeases == {l1, l2}
TwoTenants == {a, b}
OneTicket == {t1}

\* Makers, leases and tenants are interchangeable.
Symmetry ==
  Permutations(Makers) \cup Permutations(Leases) \cup Permutations(Tenants)

=============================================================================
