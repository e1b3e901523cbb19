------------------------- MODULE MCWebhookDelivery -------------------------
(* The constants are all given in the configuration. *)
EXTENDS WebhookDelivery
=============================================================================
