------------------------- MODULE MCWebhookAdmission -------------------------
(***************************************************************************)
(* WebhookAdmission on small instances.                                    *)
(***************************************************************************)
EXTENDS WebhookAdmission, TLC
=============================================================================
