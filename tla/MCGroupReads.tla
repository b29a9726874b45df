---------------------------- MODULE MCGroupReads ----------------------------
(* GroupReads for TLC: entries of one kind are interchangeable.            *)
EXTENDS GroupReads, TLC

Symmetry == Permutations(Own)
=============================================================================
