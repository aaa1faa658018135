---------------------------- MODULE MCFulfillment ---------------------------
(* Instances of Fulfillment for TLC.                                       *)
EXTENDS Fulfillment, TLC

(* Concurrent POST /fulfill calls, and admin calls, are interchangeable.   *)
SwapCalls == {p @@ q : p \in Permutations(Dispatchers), q \in Permutations(Admins)}
SwapAll   == {p @@ q : p \in SwapCalls, q \in Permutations(Requests)}

(* Dispositions with the same role are interchangeable.                    *)
SwapDispositions == Permutations(Dispositions)

(* Start once every request has been reviewed, disposed and kicked off.    *)
Kicked ==
  /\ att = EmptyTable /\ done = [a \in Attempts |-> Undone] /\ file = {}
  /\ \E c \in Dispositions : /\ decision = [r \in Requests |-> c]
                            /\ response = [r \in Requests |-> c]
                            /\ granted = Requests \X {c}
  /\ covered = [r \in Requests |-> TRUE]
  /\ closed = [r \in Requests |-> FALSE]
  /\ gates = [r \in Requests |-> [opened |-> 1, pending |-> {}, approved |-> TRUE]]
  /\ era = [r \in Requests |-> 1]
  /\ notice = [r \in Requests |-> "none"]
  /\ admin = [p \in Admins |-> Free]
  /\ work = [d \in Dispatchers |-> Idle]

KickedSpec == Kicked /\ [][Next]_vars
KickedFair == KickedSpec /\ Fairness
=============================================================================
