----------------------------- MODULE MCWebhooks -----------------------------
(***************************************************************************)
(* Webhooks for TLC: the ledger and its leases (module WebhookDelivery     *)
(* without burst control), burst control (the same module with it), and    *)
(* module Subscriptions. No state is shared between the three, so a        *)
(* behaviour takes the steps of one of them, chosen at the start, and the  *)
(* others keep their initial state.                                        *)
(***************************************************************************)
EXTENDS MCWebhookDelivery, Subscriptions

CONSTANTS w1, w2, w3, b1, c1, c2

VARIABLES
    part,   \* the component whose steps this behaviour takes
    bc_now, bc_row, bc_wk, bc_burst, bc_hist, bc_crossed

bcVars == <<bc_now, bc_row, bc_wk, bc_burst, bc_hist, bc_crossed>>

\* One worker, deliveries of two keys, a burst map of one entry.
Burst == INSTANCE WebhookDelivery WITH
    Deliveries <- {d1, d2}, Workers <- {b1}, Hosts <- {h1},
    HostOf <- b1 :> h1, Keys <- {k1, k2}, BurstKey <- d1 :> k1 @@ d2 :> k2,
    BurstMode <- "coalesce", Window <- 1, MaxEntries <- 1, Lease <- 2,
    MaxAttempts <- 2, InitialDelay <- 1, MaxDelay <- 2, MaxTime <- 3,
    now <- bc_now, row <- bc_row, wk <- bc_wk, burst <- bc_burst,
    hist <- bc_hist, crossed <- bc_crossed

-----------------------------------------------------------------------------
allVars == <<part, vars, bcVars, channelVars>>

ComposedInit ==
    /\ part \in {"ledger", "burst", "subscriptions"}
    /\ WebhookInit
    /\ Burst!WebhookInit
    /\ ChannelInit

ComposedNext ==
    \/ /\ part = "ledger" /\ WebhookNext
       /\ UNCHANGED <<part, bcVars, channelVars>>
    \/ /\ part = "burst" /\ Burst!WebhookNext
       /\ UNCHANGED <<part, vars, channelVars>>
    \/ /\ part = "subscriptions" /\ ChannelNext
       /\ UNCHANGED <<part, vars, bcVars>>

ComposedSpec == ComposedInit /\ [][ComposedNext]_allVars

ASSUME BurstAdmissible == Burst!ConstantsAssumption

-----------------------------------------------------------------------------
(* Properties. *)

\* The burst map exceeds MaxEntries only while every key in it was seen
\* within the window.
BurstOverflowOnlyInsideWindow == Burst!OverflowOnlyInsideWindow

=============================================================================
