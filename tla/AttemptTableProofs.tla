------------------------- MODULE AttemptTableProofs -------------------------
(***************************************************************************)
(* What the proofs about every queue need to know of rows and of the       *)
(* reaper's sweep.                                                         *)
(***************************************************************************)
EXTENDS AttemptTable, TLAPS

LEMMA AttemptParts ==
  ASSUME NEW a \in Attempts
  PROVE  /\ a[1] \in Requests /\ a[2] \in 1..AttemptCap
         /\ a[2] \in Nat /\ a = <<a[1], a[2]>>
         /\ a[2] > 1 => /\ Prev1(a) \in Attempts
                        /\ Prev1(a)[1] = a[1] /\ Prev1(a)[2] = a[2] - 1
                        /\ Next1(Prev1(a)) = a
BY TableAssumption DEF Attempts, Prev1, Next1

LEMMA NewRowType ==
  ASSUME NEW s \in Open \cup Terminal \cup {"absent"}, NEW d \in Deadline
  PROVE  NewRow(s, d) \in Row /\ NewRow(s, d).status = s /\ NewRow(s, d).retry = d
BY DEF NewRow, Row, Deadline

LEMMA InFlightType ==
  ASSUME NEW row \in Row
  PROVE  InFlight(row) \in Row /\ InFlight(row).status = "in_flight"
<1> DEFINE wait == IF row.wait = "unset" THEN "ahead" ELSE row.wait
<1>1. wait \in Deadline
  BY DEF Row, Deadline
<1>2. InFlight(row) = [row EXCEPT !.status = "in_flight", !.lease = "unset", !.wait = wait]
  BY Zenon DEF InFlight
<1> HIDE DEF wait
<1> QED BY <1>1, <1>2 DEF Row, Open, Deadline

(* What a sweep that does not raise does to one row: nothing, a timeout of *)
(* a claimed or in_flight row, or the insertion of a retry of a row that   *)
(* exists and that the sweep leaves failed.                                *)
LEMMA SweepStep ==
  ASSUME NEW t \in [Attempts -> Row], ~SweepRaises(t), NEW a \in Attempts
  PROVE  \/ Swept(t)[a] = t[a]
         \/ /\ t[a].status \in {"claimed", "in_flight"}
            /\ Swept(t)[a] = NewRow("timeout", t[a].retry)
         \/ /\ t[a].status = "absent"
            /\ Swept(t)[a] = NewRow("pending", "ahead")
            /\ a[2] > 1 /\ Prev1(a) \in Attempts
            /\ t[Prev1(a)].status \in Failed \cup {"claimed", "in_flight"}
<1> DEFINE R == Released(t)
<1>2. ASSUME NEW b \in Attempts
      PROVE  \/ R[b] = t[b]
             \/ /\ t[b].status \in {"claimed", "in_flight"}
                /\ R[b] = NewRow("timeout", t[b].retry)
  BY DEF Released, ReleaseStuckInFlight, ReleaseDeadClaims, DeadClaims, NewRow
<1> HIDE DEF R
<1>3. Exhausted(R) = {}
  BY DEF R, SweepRaises, UpdateRaises, Exhausted, DueFailures, Terminal
<1>4. Abandon(R) = R
  <2>1. Abandon(R) = [b \in Attempts |-> R[b]]
    BY <1>3 DEF Abandon
  <2>2. R = [b \in Attempts |-> R[b]]
    BY DEF R, Released, ReleaseStuckInFlight
  <2> QED BY <2>1, <2>2
<1>5. Swept(t)[a] = IF a[2] > 1 /\ Prev1(a) \in Retryable(R)
                      THEN NewRow("pending", "ahead") ELSE R[a]
  BY <1>4 DEF R, Swept, InsertRetries
<1>6. CASE a[2] > 1 /\ Prev1(a) \in Retryable(R)
  <2>1. /\ Prev1(a) \in Attempts /\ R[Prev1(a)].status \in Failed
        /\ R[a].status = "absent"
    BY <1>6, AttemptParts DEF Retryable, DueFailures, Exists
  <2>2. t[a].status = "absent"
    <3>1. NewRow("timeout", t[a].retry).status = "timeout"
      BY DEF NewRow
    <3> QED BY <2>1, <3>1, <1>2
  <2>3. t[Prev1(a)].status \in Failed \cup {"claimed", "in_flight"}
    BY <2>1, <1>2 DEF NewRow
  <2> QED BY <2>1, <2>2, <2>3, <1>5, <1>6
<1>7. CASE ~(a[2] > 1 /\ Prev1(a) \in Retryable(R))
  BY <1>7, <1>5, <1>2
<1> QED BY <1>6, <1>7

LEMMA SweepType ==
  ASSUME NEW t \in [Attempts -> Row], ~SweepRaises(t)
  PROVE  Swept(t) \in [Attempts -> Row]
<1>1. ASSUME NEW a \in Attempts PROVE Swept(t)[a] \in Row
  <2>1. t[a] \in Row /\ t[a].retry \in Deadline
    BY DEF Row
  <2>2. NewRow("timeout", t[a].retry) \in Row /\ NewRow("pending", "ahead") \in Row
    BY <2>1, NewRowType DEF Open, Terminal, Failed, Deadline
  <2> QED BY <2>1, <2>2, SweepStep
<1>2. Swept(t) = [a \in Attempts |-> Swept(t)[a]]
  BY DEF Swept, InsertRetries
<1> QED BY <1>1, <1>2
(* The sweep leaves a claim whose lease has not passed as it is.           *)
LEMMA LiveClaimKept ==
  ASSUME NEW t \in [Attempts -> Row], ~SweepRaises(t), NEW a \in Attempts,
         t[a].status = "claimed", a \notin DeadClaims(t)
  PROVE  Swept(t)[a] = t[a]
<1> DEFINE R == Released(t)
<1>1. R[a] = t[a]
  BY DEF Released, ReleaseStuckInFlight, ReleaseDeadClaims
<1>2. Exhausted(R) = {}
  BY DEF SweepRaises, UpdateRaises, Exhausted, DueFailures, Terminal
<1> HIDE DEF R
<1>3. Abandon(R)[a] = R[a]
  BY <1>2 DEF Abandon
<1>4. a[2] > 1 => Prev1(a) \notin Retryable(Abandon(R))
  BY <1>1, <1>3, AttemptParts DEF Retryable, Exists
<1>5. Swept(t)[a] = IF a[2] > 1 /\ Prev1(a) \in Retryable(Abandon(R))
                      THEN NewRow("pending", "ahead") ELSE Abandon(R)[a]
  BY DEF R, Swept, InsertRetries
<1> QED BY <1>1, <1>3, <1>4, <1>5
=============================================================================
