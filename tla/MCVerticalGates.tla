--------------------------- MODULE MCVerticalGates --------------------------
(* Instances of VerticalGates for TLC.                                     *)
EXTENDS VerticalGates, TLC

(* Overlapping calls are interchangeable.                                  *)
SwapAdmins == Permutations(Admins)
=============================================================================
