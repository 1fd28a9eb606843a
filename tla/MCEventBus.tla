----------------------------- MODULE MCEventBus -----------------------------
(* Two publishers, or one that publishes and one whose callbacks do, of two  *)
(* events each, and two subscriptions.  Publishers are alike, and so are     *)
(* subscriptions: no definition of EventBus names one.                       *)
EXTENDS EventBus, TLC

CONSTANTS p1, p2, a, b

Alike == Permutations(Publishers) \cup Permutations(Subscribers)

=============================================================================
