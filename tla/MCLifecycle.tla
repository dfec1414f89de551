---------------------------- MODULE MCLifecycle ----------------------------
(***************************************************************************)
(* The lifecycle side for TLC: module LifecycleOutbox with faults, and the *)
(* store, retention and pages of module ActivitySink. A behaviour takes    *)
(* the steps of one of the two, chosen at the start, and the other keeps   *)
(* its initial state.                                                      *)
(***************************************************************************)
EXTENDS MCLifecycleOutbox, ActivitySink

CONSTANTS none

VARIABLE part   \* the component whose steps this behaviour takes

-----------------------------------------------------------------------------
allVars == <<part, vars, activityVars>>

ComposedInit ==
    /\ part \in {"outbox", "store"}
    /\ OutboxInit
    /\ ActivityInit

ComposedNext ==
    \/ /\ part = "outbox" /\ OutboxNext
       /\ UNCHANGED <<part, activityVars>>
    \/ /\ part = "store" /\ ActivityNext
       /\ UNCHANGED <<part, vars>>

ComposedSpec == ComposedInit /\ [][ComposedNext]_allVars

=============================================================================
