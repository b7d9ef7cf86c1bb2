------------------------- MODULE WebhookDeliveryMC --------------------------
(***************************************************************************)
(* Small instances of WebhookDelivery: every webhook has the same URL, so  *)
(* that their deliveries share one circuit breaker.                        *)
(***************************************************************************)
EXTENDS WebhookDelivery

SharedUrl == [w \in Webhooks |-> CHOOSE u \in Urls : TRUE]
=============================================================================
