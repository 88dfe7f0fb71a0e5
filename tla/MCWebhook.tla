------------------------------ MODULE MCWebhook ------------------------------
(* A small instance of Webhook: two requests that may meet in a draw, on   *)
(* routes of both servers, with and without the middleware.                *)
EXTENDS WebhookProperties
=============================================================================
