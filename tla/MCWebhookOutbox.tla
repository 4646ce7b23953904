-------------------------- MODULE MCWebhookOutbox --------------------------
(* WebhookOutbox for TLC: interchangeable workers.                         *)
EXTENDS WebhookOutbox, TLC

WorkerSymmetry == Permutations(Worker)
=============================================================================
