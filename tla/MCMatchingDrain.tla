--------------------------- MODULE MCMatchingDrain --------------------------
(* Instances of MatchingDrain for TLC.                                     *)
EXTENDS MatchingDrain, TLC

CONSTANTS t1, t2, e1, e2, w1, w2

(* Two executions of one task each, task 0 in both: they share its id.     *)
TwoJobs    == t1 :> e1 @@ t2 :> e2
OneWorker  == t1 :> w1 @@ t2 :> w1

(* The two executions are interchangeable.                                 *)
SwapJobs   == {[x \in {t1, t2, e1, e2} |-> x],
               t1 :> t2 @@ t2 :> t1 @@ e1 :> e2 @@ e2 :> e1}

(* One execution of two tasks.                                             *)
OneJob     == t1 :> e1 @@ t2 :> e1
TwoWorkers == t1 :> w1 @@ t2 :> w2

(* Tasks with their worker ids, and requests, are interchangeable.         *)
SwapTasks  == {[x \in {t1, t2, w1, w2} |-> x],
               t1 :> t2 @@ t2 :> t1 @@ w1 :> w2 @@ w2 :> w1}
SwapAll    == {p @@ q : p \in SwapTasks, q \in Permutations(Requests)}

(* All requests in one state and list type.                                *)
OneKey     == [r \in Requests |-> "CA_email"]
=============================================================================
