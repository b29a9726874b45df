---------------------------- MODULE MCRecordBudget ----------------------------
(* RecordBudget for TLC: opens are interchangeable; one click has a short  *)
(* link, the others a long one.                                            *)
EXTENDS RecordBudget

CONSTANT ShortLink
ClickBytes == [c \in Clicks |-> IF c = ShortLink THEN 2 ELSE 3]

Symmetry == Permutations(Opens) \cup Permutations(Clicks \ {ShortLink})
=============================================================================
