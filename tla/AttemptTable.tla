---------------------------- MODULE AttemptTable ----------------------------
(***************************************************************************)
(* One Postgres attempt table (matching_attempts and its siblings): the    *)
(* row type, the predicates the queue's SQL filters on, the trigger that   *)
(* guards terminal rows, and the statements of the reaper's sweep as       *)
(* functions from a table to a table.  No variables: the modules that own  *)
(* a table apply these operators to it.                                    *)
(*                                                                         *)
(* A table is a function from <<request, attempt_number>> (the UNIQUE      *)
(* constraint; one step per instance) to a row, "absent" standing for no   *)
(* row.  A timestamp column is kept only as what the code asks of it, its  *)
(* order with NOW(): NULL ("unset"), not reached ("ahead") or reached      *)
(* ("past"); and only while a statement can still read it, so a closed row *)
(* has no worker, lease or wait, and an in_flight one no lease.            *)
(***************************************************************************)
EXTENDS Naturals

CONSTANTS Requests,     \* ids of the thin requests rows
          Workers,      \* worker_id values
          NoWorker,     \* worker_id IS NULL
          MaxAttempts,  \* ReapedTableConfig.max_attempts
          AttemptCap    \* bound on attempt_number, for model checking only

ASSUME TableAssumption ==
  /\ MaxAttempts \in Nat \ {0}
  /\ AttemptCap \in Nat
  /\ MaxAttempts <= AttemptCap
  /\ NoWorker \notin Workers

Open     == {"pending", "claimed", "in_flight"}
Failed   == {"submit_error", "outcome_error", "timeout"}
Terminal == Failed \cup {"success", "abandoned"}
Deadline == {"unset", "ahead", "past"}

Attempts == Requests \X (1..AttemptCap)

Next1(a) == <<a[1], a[2] + 1>>
Prev1(a) == <<a[1], a[2] - 1>>

Row == [status : Open \cup Terminal \cup {"absent"},
        worker : Workers \cup {NoWorker},  \* worker_id
        lease  : Deadline,                 \* claim_expires_at
        wait   : Deadline,                 \* submitted_at + in_flight_max_wait_hours
        retry  : Deadline]                 \* retry_after

NewRow(status, retry) ==
  [status |-> status, worker |-> NoWorker,
   lease |-> "unset", wait |-> "unset", retry |-> retry]

NoRow      == NewRow("absent", "unset")
EmptyTable == [a \in Attempts |-> NoRow]

Exists(t, a) == a \in Attempts /\ t[a].status # "absent"

(* COALESCE(MAX(attempt_number), 0) + 1                                    *)
IsNext(t, a) ==
  /\ a[2] > 1 => Exists(t, Prev1(a))
  /\ \A n \in a[2]..AttemptCap : ~Exists(t, <<a[1], n>>)

-----------------------------------------------------------------------------
(* The predicates and assignments of the queue primitives.                 *)

IsDue(row)     == row.retry # "ahead"
AnyOpen(row)   == row.status \in Open /\ IsDue(row)    \* mutant: a live claim too
Claimable(row) == row.status = "pending" /\ IsDue(row)

ClaimedBy(row, w) ==
  [row EXCEPT !.status = "claimed", !.worker = w, !.lease = "ahead"]

BackToPending(row) ==
  [row EXCEPT !.status = "pending", !.worker = NoWorker, !.lease = "unset"]

InFlight(row) ==
  [row EXCEPT !.status = "in_flight", !.lease = "unset",
              !.wait = IF @ = "unset" THEN "ahead" ELSE @]

(* core_forbid_terminal_attempt_mutation: BEFORE UPDATE OR DELETE, for     *)
(* each row, raises when the OLD row is terminal; the statement and the    *)
(* transaction around it are then undone.                                  *)
NeverRaises(t, rows)  == FALSE                    \* mutant: no trigger
UpdateRaises(t, rows) == \E a \in rows : t[a].status \in Terminal

-----------------------------------------------------------------------------
(* The four statements of run_reap_for_table, in order.                    *)

NoneDead(t) == {}                           \* mutant: dead claims not found
DeadClaims(t) ==
  {a \in Attempts : t[a].status = "claimed" /\ t[a].lease = "past"}

(* Mutants: the row itself queued again; a status the CHECK refuses.       *)
DeadToPending(t) ==
  [a \in Attempts |-> IF a \in DeadClaims(t) THEN BackToPending(t[a]) ELSE t[a]]
DeadToExpired(t) ==
  [a \in Attempts |->
     IF a \in DeadClaims(t) THEN NewRow("expired", t[a].retry) ELSE t[a]]

ReleaseDeadClaims(t) ==
  [a \in Attempts |->
     IF a \in DeadClaims(t) THEN NewRow("timeout", t[a].retry) ELSE t[a]]

NothingStuck(t) == t                        \* mutant: in_flight never swept

ReleaseStuckInFlight(t) ==
  [a \in Attempts |->
     IF t[a].status = "in_flight" /\ t[a].wait = "past"
       THEN NewRow("timeout", t[a].retry) ELSE t[a]]

ScheduledFailures(t) ==                     \* mutant: NULL retry_after not due
  {a \in Attempts : t[a].status \in Failed /\ t[a].retry = "past"}

DueFailures(t) == {a \in Attempts : t[a].status \in Failed /\ IsDue(t[a])}
Exhausted(t)   == {a \in DueFailures(t) : a[2] >= MaxAttempts}

Abandon(t) ==
  [a \in Attempts |->
     IF a \in Exhausted(t) THEN [t[a] EXCEPT !.status = "abandoned"] ELSE t[a]]

Retryable(t) ==
  {a \in DueFailures(t) : a[2] < MaxAttempts /\ ~Exists(t, Next1(a))}

InsertRetries(t) ==
  [b \in Attempts |->
     IF b[2] > 1 /\ Prev1(b) \in Retryable(t) THEN NewRow("pending", "ahead")
                                              ELSE t[b]]

(* One table's sweep is one transaction: what it leaves when no statement  *)
(* raises, and whether the abandon statement raises.                       *)
Released(t)    == ReleaseStuckInFlight(ReleaseDeadClaims(t))
Swept(t)       == InsertRetries(Abandon(Released(t)))
SweepRaises(t) == UpdateRaises(Released(t), Exhausted(Released(t)))
=============================================================================
