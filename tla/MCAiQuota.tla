----------------------------- MODULE MCAiQuota -----------------------------
(* Instances of AiQuota for TLC. *)
EXTENDS AiQuota, TLC

CONSTANTS r1, r2, r3

ThreeRequests == {r1, r2, r3}
Symmetry == Permutations(Requests)

\* A plan with a quota, and one without, as every plan of quotas.config.ts is
\* today: a request admitted on PRO_MAX reads its limit on either.
OneQuota == [p \in Plans |-> IF p = "PRO_MAX" THEN 2 ELSE NoLimit]

=============================================================================
