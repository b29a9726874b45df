---------------------------- MODULE MCSendTracking ----------------------------
(* SendTracking for TLC: requests and replicas are interchangeable.        *)
EXTENDS SendTracking

Symmetry == Permutations(Requests) \cup Permutations(Replicas)
=============================================================================
