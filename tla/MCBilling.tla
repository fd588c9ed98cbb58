----------------------------- MODULE MCBilling -----------------------------
(* Instances of Billing for TLC. *)
EXTENDS Billing

CONSTANTS h1, h2, r1, t1, s1

OneHandler == {h1}
TwoHandlers == {h1, h2}
OneRequest == {r1}
OneScheduler == {t1}
OneSub == {s1}

=============================================================================
