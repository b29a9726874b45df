---------------------------- MODULE MCEngagement ----------------------------
(* Engagement for TLC: pollers are interchangeable; the events of the runs. *)
EXTENDS Engagement, TLC

Symmetry == Permutations(Pollers)
=============================================================================
