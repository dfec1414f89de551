-------------------------- MODULE MCWebhookDelivery --------------------------
(* Instances of WebhookDelivery for TLC. *)
EXTENDS WebhookDelivery, TLC

CONSTANTS h1, k1, k2, d1, d2

\* Every worker in one process.
OneHost == [w \in Workers |-> h1]

\* No request carries a burst key.
NoKeys == [d \in Deliveries |-> None]

\* d1 has a key of its own; the other deliveries share one.
TwoKeys == [d \in Deliveries |-> IF d = d1 THEN k1 ELSE k2]

WorkerSymmetry == Permutations(Workers)
=============================================================================
