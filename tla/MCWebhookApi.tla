------------------------------ MODULE MCWebhookApi ------------------------------
(***************************************************************************)
(* Bounded instances of WebhookApi for TLC.                                *)
(***************************************************************************)
EXTENDS WebhookApi

=============================================================================
