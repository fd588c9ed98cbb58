----------------------------- MODULE MCAccounts -----------------------------
(* Instances of Accounts for TLC. *)
EXTENDS Accounts

CONSTANTS a, b, r1, r2

TwoEmails == {a, b}
TwoRequests == {r1, r2}

=============================================================================
