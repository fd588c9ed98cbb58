-------------------------- MODULE MCWebhookLedger --------------------------
(* Instances of WebhookLedger for TLC. *)
EXTENDS WebhookLedger

CONSTANTS e1, h1, h2, h3

OneEvent == {e1}
TwoHandlers == {h1, h2}
ThreeHandlers == {h1, h2, h3}

=============================================================================
