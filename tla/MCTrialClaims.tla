--------------------------- MODULE MCTrialClaims ---------------------------
(* Instances of TrialClaims for TLC. *)
EXTENDS TrialClaims

CONSTANTS s1, s2, s3, a, b, p, q

ThreeSignups == {s1, s2, s3}
TwoEmails == {a, b}
TwoPhones == {p, q}

=============================================================================
