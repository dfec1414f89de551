-------------------------- MODULE DeliveryLifecycle --------------------------
(***************************************************************************)
(* What the webhook delivery ledger promises, independent of how its SQL   *)
(* statements interleave: the states of a row of service_webhook_deliveries*)
(* and the numbered grants made on it.  WebhookDelivery implements this.   *)
(***************************************************************************)
EXTENDS Naturals

CONSTANTS
    Deliveries,     \* (provider_id, delivery_id) pairs
    MaxAttempts     \* Processor.MaxAttempts

VARIABLES
    state,          \* state[d]: status column, "none" before the first INSERT
    grants          \* grants[d]: how often the row has been claimed

lifecycleVars == <<state, grants>>

LifecycleInit ==
    /\ state = [d \in Deliveries |-> "none"]
    /\ grants = [d \in Deliveries |-> 0]

Register(d) ==
    /\ state[d] = "none"
    /\ state' = [state EXCEPT ![d] = "pending"]
    /\ UNCHANGED grants

\* A grant may supersede an earlier one: a row in "processing" can be granted.
Grant(d) ==
    /\ state[d] \in {"pending", "retry_ready", "processing"}
    /\ state' = [state EXCEPT ![d] = "processing"]
    /\ grants' = [grants EXCEPT ![d] = @ + 1]

Finish(d) ==
    /\ state[d] = "processing"
    /\ state' = [state EXCEPT ![d] = "processed"]
    /\ UNCHANGED grants

\* A failed grant is retried while grants remain, and dead-lettered otherwise.
GiveBack(d) ==
    /\ state[d] = "processing"
    /\ state' = [state EXCEPT ![d] =
                    IF grants[d] >= MaxAttempts THEN "dead" ELSE "retry_ready"]
    /\ UNCHANGED grants

LifecycleNext ==
    \E d \in Deliveries : Register(d) \/ Grant(d) \/ Finish(d) \/ GiveBack(d)

LifecycleSpec == LifecycleInit /\ [][LifecycleNext]_lifecycleVars

=============================================================================
