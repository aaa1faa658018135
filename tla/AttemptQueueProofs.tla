------------------------- MODULE AttemptQueueProofs -------------------------
(***************************************************************************)
(* Theorems about AttemptQueue for every set of requests and workers and   *)
(* every limit.  The inductive invariant IInv strengthens the two safety   *)
(* properties by what they rest on: attempt numbers have no gaps, and a    *)
(* row in a worker's hands has left "pending" for good.                    *)
(***************************************************************************)
EXTENDS AttemptQueue, AttemptTableProofs

Contiguous ==
  \A a, b \in Attempts :
    a[1] = b[1] /\ b[2] <= a[2] /\ Exists(att, a) => Exists(att, b)

HeldIsStarted ==
  \A w \in Workers :
    proc[w] # Idle => att[proc[w].a].status \notin {"absent", "pending"}

IInv ==
  /\ TypeOK
  /\ Contiguous
  /\ HeldIsStarted
  /\ ResultIffSuccess
  /\ OneWorkerPerAttempt

-----------------------------------------------------------------------------
(* The inductive invariant                                                 *)

LEMMA InitIInv == Init => IInv
<1> SUFFICES ASSUME Init PROVE IInv
  OBVIOUS
<1> USE DEF Init
<1>1. NoRow \in Row /\ NoRow.status = "absent"
  BY NewRowType DEF NoRow, Deadline
<1>2. att \in [Attempts -> Row] /\ \A a \in Attempts : att[a].status = "absent"
  BY <1>1 DEF EmptyTable
<1>3. TypeOK
  BY <1>2 DEF TypeOK, Proc
<1>4. Contiguous
  BY <1>2 DEF Contiguous, Exists
<1>5. HeldIsStarted /\ OneWorkerPerAttempt
  BY DEF HeldIsStarted, OneWorkerPerAttempt
<1>6. ResultIffSuccess
  BY <1>2 DEF ResultIffSuccess
<1> QED BY <1>3, <1>4, <1>5, <1>6 DEF IInv

(* A row that leaves "pending" or "absent" never returns to either, and a  *)
(* row appears only after its predecessor: what the worker side needs to   *)
(* know of a step of the table.                                            *)
TableStep ==
  /\ att' \in [Attempts -> Row]
  /\ \A a \in Attempts :
       \/ att'[a].status = att[a].status
       \/ att[a].status = "pending" /\ att'[a].status = "claimed"
       \/ /\ att[a].status \in {"claimed", "in_flight"}
          /\ att'[a].status \in {"in_flight"} \cup Terminal
       \/ /\ att[a].status = "absent" /\ att'[a].status = "pending"
          /\ a[2] > 1 => Exists(att, Prev1(a))

LEMMA ContiguousStep ==
  ASSUME TypeOK, Contiguous, TableStep
  PROVE  Contiguous'
<1> SUFFICES ASSUME NEW a \in Attempts, NEW b \in Attempts,
                    a[1] = b[1], b[2] <= a[2], Exists(att', a)
             PROVE  Exists(att', b)
  BY DEF Contiguous, Exists
<1>1. \A c \in Attempts : Exists(att, c) => Exists(att', c)
  BY DEF TableStep, Exists, Terminal, Failed
<1>2. CASE Exists(att, a)
  BY <1>1, <1>2 DEF Contiguous
<1>3. CASE ~Exists(att, a)
  <2>1. att[a].status = "absent" /\ (a[2] > 1 => Exists(att, Prev1(a)))
    BY <1>3 DEF TableStep, Exists
  <2>2. CASE a[2] = b[2]
    BY <2>2, AttemptParts
  <2>3. CASE a[2] # b[2]
    <3>1. b[2] <= a[2] - 1 /\ a[2] > 1
      BY <2>3, AttemptParts
    <3>2. Prev1(a) \in Attempts /\ Exists(att, Prev1(a))
          /\ Prev1(a)[1] = b[1] /\ b[2] <= Prev1(a)[2]
      BY <3>1, <2>1, AttemptParts
    <3> QED BY <3>2, <1>1 DEF Contiguous
  <2> QED BY <2>2, <2>3
<1> QED BY <1>2, <1>3

(* New pending rows: attempt 1, a rematch.                                 *)
LEMMA InsertIInv ==
  ASSUME IInv, NEW new \in SUBSET Attempts,
         \A a \in new : /\ ~Exists(att, a)
                        /\ a[2] > 1 => Exists(att, Prev1(a)),
         att' = [a \in Attempts |->
                   IF a \in new THEN NewRow("pending", "unset") ELSE att[a]],
         UNCHANGED <<results, latest, proc>>
  PROVE  IInv' /\ TableStep
<1> USE DEF IInv
<1>1. NewRow("pending", "unset") \in Row /\ NewRow("pending", "unset").status = "pending"
  BY NewRowType DEF Open, Deadline
<1>2. TypeOK'
  BY <1>1 DEF TypeOK
<1>3. \A a \in new : att[a].status = "absent"
  BY DEF Exists
<1>4. TableStep
  BY <1>1, <1>2, <1>3 DEF TableStep, TypeOK
<1>5. Contiguous'
  BY <1>4, ContiguousStep
<1>6. \A w \in Workers : proc[w] # Idle => proc[w].a \in Attempts
  BY DEF TypeOK, Proc, Idle
<1>7. HeldIsStarted'
  BY <1>3, <1>6 DEF HeldIsStarted
<1>8. ResultIffSuccess'
  BY <1>1, <1>3 DEF ResultIffSuccess
<1>9. OneWorkerPerAttempt'
  BY DEF OneWorkerPerAttempt
<1> QED BY <1>2, <1>4, <1>5, <1>7, <1>8, <1>9

LEMMA ClaimIInv ==
  ASSUME IInv, NEW w \in Workers, NEW a \in Attempts, Claim(w, a)
  PROVE  IInv' /\ TableStep
<1> USE DEF IInv, Claim
<1>1. ClaimedBy(att[a], w) \in Row /\ ClaimedBy(att[a], w).status = "claimed"
  BY DEF TypeOK, ClaimedBy, Row, Open, Deadline
<1>2. att[a].status = "pending"
  BY DEF Claimable
<1>3. TypeOK'
  BY <1>1 DEF TypeOK, Proc, Holding
<1>4. TableStep
  BY <1>1, <1>2, <1>3 DEF TableStep, TypeOK
<1>5. Contiguous'
  BY <1>4, ContiguousStep
<1>6. \A v \in Workers : proc[v] # Idle => proc[v].a \in Attempts /\ proc[v].a # a
  BY <1>2 DEF TypeOK, Proc, Idle, HeldIsStarted
<1>7. proc'[w] = Holding("claimed", a) /\ \A v \in Workers \ {w} : proc'[v] = proc[v]
  BY DEF TypeOK
<1>8. HeldIsStarted'
  BY <1>1, <1>6, <1>7 DEF HeldIsStarted, TypeOK, Holding
<1>9. ResultIffSuccess'
  BY <1>1, <1>2 DEF ResultIffSuccess, TypeOK
<1>10. OneWorkerPerAttempt'
  BY <1>6, <1>7 DEF OneWorkerPerAttempt, Holding
<1> QED BY <1>3, <1>4, <1>5, <1>8, <1>9, <1>10

(* A worker that drops its attempt without touching the table.             *)
LEMMA DropIInv ==
  ASSUME IInv, NEW w \in Workers, proc' = [proc EXCEPT ![w] = Idle],
         UNCHANGED <<att, results, latest>>
  PROVE  IInv' /\ TableStep
<1> USE DEF IInv
<1>1. TypeOK'
  BY DEF TypeOK, Proc
<1>2. Contiguous'
  BY DEF Contiguous, Exists
<1>3. HeldIsStarted' /\ OneWorkerPerAttempt'
  BY DEF HeldIsStarted, OneWorkerPerAttempt, TypeOK
<1>4. ResultIffSuccess'
  BY DEF ResultIffSuccess
<1>5. TableStep
  BY DEF TableStep, TypeOK
<1> QED BY <1>1, <1>2, <1>3, <1>4, <1>5

LEMMA HeldType ==
  ASSUME TypeOK, NEW w \in Workers, proc[w].pc \in {"claimed", "matching"}
  PROVE  proc[w].a \in Attempts /\ proc[w] # Idle
BY DEF TypeOK, Proc, Idle

LEMMA MarkInFlightIInv ==
  ASSUME IInv, NEW w \in Workers, MarkInFlight(w)
  PROVE  IInv' /\ TableStep
<1> DEFINE a == proc[w].a
<1> USE DEF IInv, MarkInFlight
<1>1. a \in Attempts /\ proc[w] # Idle
  BY HeldType
<1>2. CASE UpdateRaises(att, {a})
  BY <1>2, DropIInv
<1>3. CASE ~UpdateRaises(att, {a})
  <2>1. /\ InFlight(att[a]) \in Row
        /\ InFlight(att[a]).status = "in_flight"
    BY <1>1, InFlightType DEF TypeOK
  <2>2. att[a].status \in {"claimed", "in_flight"}
    BY <1>1, <1>3 DEF UpdateRaises, HeldIsStarted, TypeOK, Row, Open
  <2>3. TypeOK'
    BY <1>1, <1>3, <2>1 DEF TypeOK, Proc, Holding
  <2>4. att' = [att EXCEPT ![a] = InFlight(att[a])]
    BY <1>3
  <2>5. TableStep
    BY <2>1, <2>2, <2>3, <2>4 DEF TableStep, TypeOK
  <2>6. Contiguous'
    BY <2>5, ContiguousStep
  <2>7. proc'[w] = Holding("matching", a) /\ \A v \in Workers \ {w} : proc'[v] = proc[v]
    BY <1>3 DEF TypeOK
  <2>8. HeldIsStarted'
    BY <1>1, <2>1, <2>4, <2>7 DEF HeldIsStarted, TypeOK, Holding
  <2>9. ResultIffSuccess'
    <3>1. \A b \in Attempts : att'[b].status = "success" <=> att[b].status = "success"
      BY <2>1, <2>2, <2>4 DEF TypeOK
    <3>2. results' = results
      OBVIOUS
    <3> QED BY <3>1, <3>2 DEF ResultIffSuccess
  <2>10. OneWorkerPerAttempt'
    BY <1>1, <2>7 DEF OneWorkerPerAttempt, Holding
  <2> QED BY <2>3, <2>5, <2>6, <2>8, <2>9, <2>10
<1> QED BY <1>2, <1>3

(* A worker closes its attempt, with a result exactly on success.          *)
LEMMA CompleteIInv ==
  ASSUME IInv, NEW w \in Workers,
         NEW status \in {"success", "submit_error"}, NEW retry \in Deadline,
         proc[w].pc = "matching", ~UpdateRaises(att, {proc[w].a}),
         att' = [att EXCEPT ![proc[w].a] = NewRow(status, retry)],
         results' = IF status = "success"
                      THEN [results EXCEPT ![proc[w].a] = @ + 1] ELSE results,
         latest' \in [Requests -> {"none"} \cup Counts],
         proc' = [proc EXCEPT ![w] = Idle]
  PROVE  IInv' /\ TableStep
<1> DEFINE a == proc[w].a
<1> USE DEF IInv
<1>1. a \in Attempts /\ proc[w] # Idle
  BY HeldType
<1>2. NewRow(status, retry) \in Row /\ NewRow(status, retry).status = status
  BY NewRowType DEF Terminal, Failed
<1>3. att[a].status \in {"claimed", "in_flight"}
  BY <1>1 DEF UpdateRaises, HeldIsStarted, TypeOK, Row, Open
<1>4. TypeOK'
  BY <1>1, <1>2 DEF TypeOK, Proc
<1>5. TableStep
  BY <1>1, <1>2, <1>3, <1>4 DEF TableStep, TypeOK, Terminal, Failed
<1>6. Contiguous'
  BY <1>5, ContiguousStep
<1>7. proc'[w] = Idle /\ \A v \in Workers \ {w} : proc'[v] = proc[v]
  BY DEF TypeOK
<1>8. HeldIsStarted'
  BY <1>1, <1>2, <1>7 DEF HeldIsStarted, TypeOK
<1>9. ResultIffSuccess'
  BY <1>1, <1>2, <1>3 DEF ResultIffSuccess, TypeOK
<1>10. OneWorkerPerAttempt'
  BY <1>7 DEF OneWorkerPerAttempt
<1> QED BY <1>4, <1>5, <1>6, <1>8, <1>9, <1>10

LEMMA ReapIInv ==
  ASSUME IInv, Reap
  PROVE  IInv' /\ TableStep
<1> USE DEF IInv, Reap
<1>1. att \in [Attempts -> Row] /\ att' = Swept(att) /\ ~SweepRaises(att)
  BY DEF TypeOK
<1>2. TypeOK'
  BY <1>1, SweepType DEF TypeOK
<1>3. \A a \in Attempts : NewRow("timeout", att[a].retry).status = "timeout"
  BY DEF NewRow
<1>4. NewRow("pending", "ahead").status = "pending"
  BY DEF NewRow
<1>5. ASSUME NEW a \in Attempts
      PROVE  \/ att'[a] = att[a]
             \/ /\ att[a].status \in {"claimed", "in_flight"}
                /\ att'[a].status = "timeout"
             \/ /\ att[a].status = "absent" /\ att'[a].status = "pending"
                /\ a[2] > 1 /\ Exists(att, Prev1(a))
  BY <1>1, <1>3, <1>4, SweepStep DEF Exists, Failed
<1>6. TableStep
  BY <1>2, <1>5 DEF TableStep, TypeOK, Terminal, Failed
<1>7. Contiguous'
  BY <1>6, ContiguousStep
<1>8. \A w \in Workers : proc[w] # Idle => proc[w].a \in Attempts
  BY DEF TypeOK, Proc, Idle
<1>9. HeldIsStarted'
  BY <1>5, <1>8 DEF HeldIsStarted
<1>10. ResultIffSuccess'
  BY <1>5 DEF ResultIffSuccess
<1>11. OneWorkerPerAttempt'
  BY DEF OneWorkerPerAttempt
<1> QED BY <1>2, <1>6, <1>7, <1>9, <1>10, <1>11

LEMMA PassIInv ==
  ASSUME IInv, NEW a \in Attempts, Pass(a)
  PROVE  IInv' /\ TableStep
<1> USE DEF IInv, Pass
<1>1. /\ att' \in [Attempts -> Row]
      /\ \A b \in Attempts : att'[b].status = att[b].status
  BY DEF TypeOK, Row, Deadline
<1>2. TypeOK'
  BY <1>1 DEF TypeOK
<1>3. Contiguous'
  BY <1>1 DEF Contiguous, Exists
<1>4. \A w \in Workers : proc[w] # Idle => proc[w].a \in Attempts
  BY DEF TypeOK, Proc, Idle
<1>5. HeldIsStarted' /\ OneWorkerPerAttempt'
  BY <1>1, <1>4 DEF HeldIsStarted, OneWorkerPerAttempt
<1>6. ResultIffSuccess'
  BY <1>1 DEF ResultIffSuccess
<1>7. TableStep
  BY <1>1 DEF TableStep
<1> QED BY <1>2, <1>3, <1>5, <1>6, <1>7

LEMMA StutterIInv ==
  ASSUME IInv, UNCHANGED vars
  PROVE  IInv' /\ TableStep
BY DEF IInv, vars, TypeOK, Contiguous, Exists, HeldIsStarted, ResultIffSuccess,
       OneWorkerPerAttempt, TableStep

LEMMA NextIInv == IInv /\ [Next]_vars => IInv' /\ TableStep
<1> SUFFICES ASSUME IInv, [Next]_vars PROVE IInv' /\ TableStep
  OBVIOUS
<1>1. ASSUME NEW r \in Requests, Enqueue(r) PROVE IInv' /\ TableStep
  <2>1. /\ {<<r, 1>>} \in SUBSET Attempts
        /\ \A a \in {<<r, 1>>} : ~Exists(att, a) /\ ~(a[2] > 1)
    BY <1>1 DEF Enqueue
  <2>2. att' = [a \in Attempts |->
                  IF a \in {<<r, 1>>} THEN NewRow("pending", "unset") ELSE att[a]]
    BY <1>1 DEF Enqueue, IInv, TypeOK
  <2> QED BY <1>1, <2>1, <2>2, InsertIInv DEF Enqueue
<1>2. ASSUME NEW S \in Populations, Rematch(S) PROVE IInv' /\ TableStep
  <2> DEFINE new == {a \in Attempts : a[1] \in RematchCandidates(S) /\ IsNext(att, a)}
  <2>1. \A a \in new : ~Exists(att, a) /\ (a[2] > 1 => Exists(att, Prev1(a)))
    BY AttemptParts, TableAssumption DEF IsNext
  <2>2. new \in SUBSET Attempts
    OBVIOUS
  <2>3. att' = [a \in Attempts |->
                  IF a \in new THEN NewRow("pending", "unset") ELSE att[a]]
    BY <1>2 DEF Rematch
  <2>4. UNCHANGED <<results, latest, proc>>
    BY <1>2 DEF Rematch
  <2> HIDE DEF new
  <2> QED BY <2>1, <2>2, <2>3, <2>4, InsertIInv
<1>3. ASSUME NEW w \in Workers, NEW a \in Attempts, Claim(w, a) PROVE IInv' /\ TableStep
  BY <1>3, ClaimIInv
<1>4. ASSUME NEW w \in Workers, MarkInFlight(w) PROVE IInv' /\ TableStep
  BY <1>4, MarkInFlightIInv
<1>5. ASSUME NEW w \in Workers, NEW count \in Counts, CompleteSuccess(w, count)
      PROVE  IInv' /\ TableStep
  <2>1. proc[w].a \in Attempts /\ proc[w].pc = "matching"
    BY <1>5, HeldType DEF CompleteSuccess, IInv
  <2>2. att[proc[w].a].retry \in Deadline
    BY <2>1 DEF IInv, TypeOK, Row
  <2>3. att' = [att EXCEPT ![proc[w].a] = NewRow("success", att[proc[w].a].retry)]
    BY <1>5 DEF CompleteSuccess
  <2>4. latest' \in [Requests -> {"none"} \cup Counts]
    BY <1>5 DEF CompleteSuccess, IInv, TypeOK
  <2>5. results' = [results EXCEPT ![proc[w].a] = @ + 1]
    BY <1>5 DEF CompleteSuccess
  <2>6. ~UpdateRaises(att, {proc[w].a}) /\ proc' = [proc EXCEPT ![w] = Idle]
    BY <1>5 DEF CompleteSuccess
  <2> QED BY <2>1, <2>2, <2>3, <2>4, <2>5, <2>6, CompleteIInv
<1>6. ASSUME NEW w \in Workers, NEW retry \in {"unset", "ahead"},
             CompleteError(w, retry)
      PROVE  IInv' /\ TableStep
  <2>1. retry \in Deadline /\ latest' \in [Requests -> {"none"} \cup Counts]
    BY <1>6 DEF CompleteError, IInv, TypeOK, Deadline
  <2> QED BY <1>6, <2>1, CompleteIInv DEF CompleteError
<1>7. ASSUME NEW w \in Workers, CompleteRaises(w) \/ Crash(w) PROVE IInv' /\ TableStep
  BY <1>7, DropIInv DEF CompleteRaises, Crash
<1>8. ASSUME Reap PROVE IInv' /\ TableStep
  BY <1>8, ReapIInv
<1>9. ASSUME NEW a \in Attempts, Pass(a) PROVE IInv' /\ TableStep
  BY <1>9, PassIInv
<1>10. ASSUME UNCHANGED vars PROVE IInv' /\ TableStep
  BY <1>10, StutterIInv
<1> QED BY <1>1, <1>2, <1>3, <1>4, <1>5, <1>6, <1>7, <1>8, <1>9, <1>10
        DEF Next, Work

THEOREM Inductive == Spec => []IInv
<1>1. Init => IInv
  BY InitIInv
<1>2. IInv /\ [Next]_vars => IInv'
  BY NextIInv
<1> QED BY <1>1, <1>2, PTL DEF Spec

(* The variables keep their types.                                         *)
THEOREM TypeCorrect == Spec => []TypeOK
<1>1. IInv => TypeOK
  BY DEF IInv
<1> QED BY <1>1, Inductive, PTL

(* An attempt has one result if it succeeded and none otherwise, whatever  *)
(* the workers and the reaper race for.                                    *)
THEOREM ResultsMatchVerdicts == Spec => []ResultIffSuccess
<1>1. IInv => ResultIffSuccess
  BY DEF IInv
<1> QED BY <1>1, Inductive, PTL

(* No two live workers run the same attempt.                               *)
THEOREM ExclusiveAttempts == Spec => []OneWorkerPerAttempt
<1>1. IInv => OneWorkerPerAttempt
  BY DEF IInv
<1> QED BY <1>1, Inductive, PTL

(* The table implements the append-only log of attempts: numbers grow by   *)
(* one, and a verdict is never rewritten.                                  *)
THEOREM Refinement == Spec => LogSpec
<1> DEFINE bar == [a \in Attempts |->
                     IF att[a].status = "absent" THEN "none"
                     ELSE IF att[a].status \in Open THEN "open"
                     ELSE att[a].status]
<1>1. Init => Log!Init
  <2> SUFFICES ASSUME Init PROVE Log!Init
    OBVIOUS
  <2>1. \A a \in Attempts : att[a].status = "absent"
    BY NewRowType DEF Init, EmptyTable, NoRow, Deadline
  <2> QED BY <2>1 DEF Log!Init, Log!Slots, Attempts
<1>2. IInv /\ [Next]_vars => [Log!Advance]_bar
  <2> SUFFICES ASSUME IInv, [Next]_vars PROVE Log!Advance
    OBVIOUS
  <2>1. TableStep /\ att \in [Attempts -> Row] /\ att' \in [Attempts -> Row]
    BY NextIInv DEF IInv, TypeOK, TableStep
  <2>2. ASSUME NEW a \in Attempts
        PROVE  bar'[a] \in {"none", "open"} \cup Log!Verdicts
    BY <2>1 DEF Row, Terminal, Failed, Log!Verdicts
  <2>3. ASSUME NEW a \in Attempts
        PROVE  \/ bar'[a] = bar[a]
               \/ bar[a] = "open" /\ bar'[a] \in Log!Verdicts
               \/ /\ bar[a] = "none" /\ bar'[a] = "open"
                  /\ a[2] > 1 => Exists(att, Prev1(a))
    BY <2>1 DEF TableStep, Open, Terminal, Failed, Log!Verdicts
  <2>4. ASSUME NEW a \in Attempts, Exists(att, a) PROVE bar[a] # "none"
    BY <2>1, <2>4 DEF Exists, Row, Open, Terminal, Failed
  <2>5. ASSUME NEW a \in Attempts
        PROVE  a[2] > 1 /\ Exists(att, Prev1(a)) => bar[<<a[1], a[2] - 1>>] # "none"
    BY <2>4 DEF Exists, Prev1
  <2>6. Log!Slots = Attempts
    BY DEF Log!Slots, Attempts
  <2>7. bar' \in [Attempts -> {"none", "open"} \cup Log!Verdicts]
    BY <2>2
  <2> HIDE DEF bar
  <2>8. \A a \in Attempts : \/ bar'[a] = bar[a]
                            \/ /\ bar[a] = "none" /\ bar'[a] = "open"
                               /\ a[2] > 1 => bar[<<a[1], a[2] - 1>>] # "none"
                            \/ bar[a] = "open" /\ bar'[a] \in Log!Verdicts
    BY <2>3, <2>5
  <2> USE DEF bar
  <2> QED BY <2>6, <2>7, <2>8 DEF Log!Advance, Log!Opens, Log!Closes
<1> QED BY <1>1, <1>2, Inductive, PTL DEF Spec, LogSpec, Log!Spec

-----------------------------------------------------------------------------
(* Where a new row can come from                                           *)

InsertCause(a) ==
  \/ a[2] = 1
  \/ latest[a[1]] # "one"
  \/ Exists(att, Prev1(a)) /\ att[Prev1(a)].status # "success"

LEMMA NewRowCause ==
  ASSUME IInv, [Next]_vars, NEW a \in Attempts,
         att[a].status = "absent", att'[a].status # "absent"
  PROVE  InsertCause(a)
<1> USE DEF IInv
<1>1. \A w \in Workers : proc[w].pc \in {"claimed", "matching"} =>
         proc[w].a \in Attempts /\ proc[w].a # a
  BY HeldType DEF HeldIsStarted
<1>2. ASSUME NEW r \in Requests, Enqueue(r) PROVE InsertCause(a)
  BY <1>2 DEF Enqueue, InsertCause, TypeOK
<1>3. ASSUME NEW S \in Populations, Rematch(S) PROVE InsertCause(a)
  BY <1>3 DEF Rematch, RematchCandidates, InsertCause, TypeOK
<1>4. ASSUME NEW w \in Workers, NEW b \in Attempts, Claim(w, b) PROVE FALSE
  BY <1>4 DEF Claim, Claimable, TypeOK
<1>5. ASSUME NEW w \in Workers, Work(w) \/ Crash(w) PROVE FALSE
  <2>1. att'[a] = att[a]
    <3>1. CASE MarkInFlight(w)
      BY <1>1, <3>1 DEF MarkInFlight, TypeOK
    <3>2. CASE \E count \in Counts : CompleteSuccess(w, count)
      BY <1>1, <3>2 DEF CompleteSuccess, TypeOK
    <3>3. CASE \E retry \in {"unset", "ahead"} : CompleteError(w, retry)
      BY <1>1, <3>3 DEF CompleteError, TypeOK
    <3>4. CASE CompleteRaises(w) \/ Crash(w)
      BY <3>4 DEF CompleteRaises, Crash
    <3> QED BY <1>5, <3>1, <3>2, <3>3, <3>4 DEF Work
  <2> QED BY <2>1
<1>6. ASSUME Reap PROVE InsertCause(a)
  BY <1>6, SweepStep DEF Reap, InsertCause, Exists, Failed, TypeOK, NewRow
<1>7. ASSUME NEW b \in Attempts, Pass(b) PROVE FALSE
  <2>1. \A c \in Attempts : att'[c].status = att[c].status
    BY <1>7 DEF Pass, TypeOK, Row, Deadline
  <2> QED BY <2>1
<1>8. ASSUME UNCHANGED vars PROVE FALSE
  BY <1>8 DEF vars
<1> QED BY <1>2, <1>3, <1>4, <1>5, <1>6, <1>7, <1>8 DEF Next

(* A settled request is never queued again.                                *)
THEOREM SettledStays == Spec => SettledNotRequeued
<1>1. ASSUME IInv, [Next]_vars, NEW a \in Attempts,
             Settled(a[1]), ~Exists(att, a), att'[a].status # "absent"
      PROVE  FALSE
  <2>1. PICK b \in Attempts : b[1] = a[1] /\ Newest(b) /\ att[b].status = "success"
    BY <1>1 DEF Settled
  <2>2. /\ Contiguous /\ latest[a[1]] = "one"
        /\ Exists(att, b) /\ ~Exists(att, Next1(b))
    BY <1>1, <2>1 DEF IInv, Settled, Newest
  <2>3. InsertCause(a)
    BY <1>1, NewRowCause DEF Exists
  <2>4. CASE a[2] <= b[2]
    BY <2>1, <2>2, <2>4, <1>1 DEF Contiguous
  <2>5. CASE a[2] > b[2]
    <3>1. a[2] > 1 /\ Exists(att, Prev1(a)) /\ att[Prev1(a)].status # "success"
      BY <2>2, <2>3, <2>5, AttemptParts DEF InsertCause
    <3>2. Prev1(a) # b
      BY <3>1, <2>1
    <3>3. /\ a[2] \in Nat /\ b[2] \in Nat /\ a = <<a[1], a[2]>> /\ b = <<b[1], b[2]>>
          /\ a[2] \in 1..AttemptCap /\ b[2] \in 1..AttemptCap
          /\ a[1] \in Requests
      BY AttemptParts
    <3>4. /\ Prev1(a) \in Attempts /\ Prev1(a)[1] = a[1]
          /\ Prev1(a)[2] = a[2] - 1
      BY <3>1, AttemptParts
    <3>5. a[2] - 1 # b[2]
      BY <2>1, <3>2, <3>3 DEF Prev1
    <3>6. b[2] + 1 <= a[2] - 1 /\ b[2] + 1 \in 1..AttemptCap
      BY <2>5, <3>3, <3>5, TableAssumption
    <3>7. /\ Next1(b) \in Attempts /\ Next1(b)[1] = Prev1(a)[1]
          /\ Next1(b)[2] <= Prev1(a)[2]
      BY <2>1, <3>3, <3>4, <3>6 DEF Next1, Attempts
    <3> QED BY <3>1, <3>4, <3>7, <2>2 DEF Contiguous
  <2> QED BY <2>4, <2>5, AttemptParts
<1>2. IInv /\ [Next]_vars =>
        [\A a \in Attempts :
           Settled(a[1]) /\ ~Exists(att, a) => att'[a].status = "absent"]_vars
  BY <1>1
<1> QED BY <1>2, Inductive, PTL DEF Spec, SettledNotRequeued
=============================================================================
