-------------------------- MODULE MCLifecycleOutbox --------------------------
(* Instances of LifecycleOutbox for TLC. *)
EXTENDS LifecycleOutbox, TLC

CONSTANTS e1, e2

\* e1 occurred before e2.
InOrder == [e \in Events |-> IF e = e1 THEN 1 ELSE 2]

\* ProjectorRegistry.Handlers sorts by name: the two orders names can give.
ActivityThenNotify == <<"activity", "notify">>
NotifyThenActivity == <<"notify", "activity">>

OutboxSymmetry == Permutations(Dispatchers) \cup Permutations(Recipients)
=============================================================================
