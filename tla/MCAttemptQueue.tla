--------------------------- MODULE MCAttemptQueue ---------------------------
(* Instances of AttemptQueue for TLC.                                      *)
EXTENDS AttemptQueue, TLC

(* A refresh of one state covers every request of the instance.            *)
OneState == {Requests}

(* Worker instances are interchangeable.                                   *)
Symmetry == Permutations(Workers)
=============================================================================
