--------------------------- MODULE MCWebhookQueue ---------------------------
(***************************************************************************)
(* Instances of WebhookQueue for TLC: two workers, of which one polls.     *)
(***************************************************************************)
EXTENDS WebhookQueue, TLC

CONSTANTS w1, w2, f1

MCWorker == {w1, w2}
MCScheduler == {w1}
MCFingerprint == {f1}
MCOneWorker == {w1}
=============================================================================
