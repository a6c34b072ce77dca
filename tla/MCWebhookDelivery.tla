-------------------------- MODULE MCWebhookDelivery --------------------------
(* Instances of WebhookDelivery. *)
EXTENDS WebhookDelivery

CONSTANTS e1, d1, c1

OneEndpoint == {e1}
OneDrain == {d1}
OneCaller == {c1}
=============================================================================
