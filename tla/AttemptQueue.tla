---------------------------- MODULE AttemptQueue ----------------------------
(***************************************************************************)
(* The matching queue served one attempt at a time: first attempts come    *)
(* from the request dispatcher, follow-ups from a rematch after a hash     *)
(* index refresh and from the reaper; instances of the matching service    *)
(* claim, run and complete attempts (POST /process), may die between any   *)
(* two statements, and race the reaper for rows whose lease or wait ran    *)
(* out.                                                                    *)
(***************************************************************************)
EXTENDS AttemptTable

CONSTANT Populations    \* sets of requests one hash refresh covers: those of
                        \* its state and list types

ASSUME PopulationsAssumption == Populations \subseteq SUBSET Requests

VARIABLES att,      \* matching_attempts
          results,  \* number of matching_results rows of each attempt
          latest,   \* match_count of the newest result of each request:
                    \* "none" (no result), "one", or "other" (0 or several)
          proc      \* what each worker instance holds in memory

vars == <<att, results, latest, proc>>

Counts == {"one", "other"}

(* pc: before claim_next, after it, after the in_flight UPDATE.            *)
Idle == [pc |-> "idle", a |-> <<>>]
Holding(pc, a) == [pc |-> pc, a |-> a]
Proc == {Idle} \cup [pc : {"claimed", "matching"}, a : Attempts]

Init ==
  /\ att = EmptyTable
  /\ results = [a \in Attempts |-> 0]
  /\ latest = [r \in Requests |-> "none"]
  /\ proc = [w \in Workers |-> Idle]

-----------------------------------------------------------------------------
(* Producers of attempts                                                   *)

(* run_dispatch / enqueue_matching: attempt 1, unless the request already  *)
(* has it (ON CONFLICT DO NOTHING).                                        *)
Enqueue(r) ==
  /\ <<r, 1>> \in Attempts
  /\ ~Exists(att, <<r, 1>>)
  /\ att' = [att EXCEPT ![<<r, 1>>] = NewRow("pending", "unset")]
  /\ UNCHANGED <<results, latest, proc>>

EveryCandidate(S)    == S                        \* mutant: unique matches too
RematchCandidates(S) == {r \in S : latest[r] # "one"}

(* enqueue_rematch_for_refresh: one more attempt for every covered request *)
(* without a unique match.  The statement does not look at open attempts.  *)
Rematch(S) ==
  LET new == {a \in Attempts : a[1] \in RematchCandidates(S) /\ IsNext(att, a)}
  IN  /\ new # {}
      /\ \A r \in RematchCandidates(S) : \E a \in new : a[1] = r  \* AttemptCap
      /\ att' = [a \in Attempts |->
                   IF a \in new THEN NewRow("pending", "unset") ELSE att[a]]
      /\ UNCHANGED <<results, latest, proc>>

-----------------------------------------------------------------------------
(* The worker: POST /process                                               *)

(* claim_next: one due pending row, FOR UPDATE SKIP LOCKED.                *)
Claim(w, a) ==
  /\ proc[w] = Idle
  /\ Claimable(att[a])
  /\ att' = [att EXCEPT ![a] = ClaimedBy(@, w)]
  /\ proc' = [proc EXCEPT ![w] = Holding("claimed", a)]
  /\ UNCHANGED <<results, latest>>

(* UPDATE ... SET status = 'in_flight' WHERE id = $1: no status filter, so *)
(* on a row the reaper closed the trigger raises and the call ends (500).  *)
MarkInFlight(w) ==
  LET a == proc[w].a IN
  /\ proc[w].pc = "claimed"
  /\ IF UpdateRaises(att, {a})
       THEN /\ proc' = [proc EXCEPT ![w] = Idle]
            /\ UNCHANGED att
       ELSE /\ att' = [att EXCEPT ![a] = InFlight(@)]
            /\ proc' = [proc EXCEPT ![w] = Holding("matching", a)]
  /\ UNCHANGED <<results, latest>>

(* Mutant of the next action: the result commits before the attempt.       *)
CompleteUnatomically(w, count) ==
  LET a == proc[w].a IN
  /\ proc[w].pc = "matching"
  /\ results' = [results EXCEPT ![a] = @ + 1]
  /\ latest' = [latest EXCEPT ![a[1]] = count]
  /\ att' = IF UpdateRaises(att, {a}) THEN att
            ELSE [att EXCEPT ![a] = NewRow("success", @.retry)]
  /\ proc' = [proc EXCEPT ![w] = Idle]

(* complete_attempt_success: result, attempt and review gate in one        *)
(* transaction.                                                            *)
CompleteSuccess(w, count) ==
  LET a == proc[w].a IN
  /\ proc[w].pc = "matching"
  /\ ~UpdateRaises(att, {a})
  /\ results' = [results EXCEPT ![a] = @ + 1]
  /\ latest' = [latest EXCEPT ![a[1]] = count]
  /\ att' = [att EXCEPT ![a] = NewRow("success", @.retry)]
  /\ proc' = [proc EXCEPT ![w] = Idle]

(* complete_attempt_error: a lookup error schedules its retry, any other   *)
(* failure writes retry_after NULL.                                        *)
CompleteError(w, retry) ==
  LET a == proc[w].a IN
  /\ proc[w].pc = "matching"
  /\ ~UpdateRaises(att, {a})
  /\ att' = [att EXCEPT ![a] = NewRow("submit_error", retry)]
  /\ proc' = [proc EXCEPT ![w] = Idle]
  /\ UNCHANGED <<results, latest>>

(* The reaper closed the row meanwhile: the success transaction is undone, *)
(* and the error UPDATE that follows it raises too.                        *)
CompleteRaises(w) ==
  /\ proc[w].pc = "matching"
  /\ UpdateRaises(att, {proc[w].a})
  /\ proc' = [proc EXCEPT ![w] = Idle]
  /\ UNCHANGED <<att, results, latest>>

(* The instance is killed: the row stays as its last statement left it.    *)
Crash(w) ==
  /\ proc[w] # Idle
  /\ proc' = [proc EXCEPT ![w] = Idle]
  /\ UNCHANGED <<att, results, latest>>

-----------------------------------------------------------------------------
(* The reaper and time                                                     *)

(* run_reap for this table: the transaction commits as a whole, or the     *)
(* abandon statement raises and nothing of it remains.                     *)
Reap ==
  /\ ~SweepRaises(att)
  /\ att' = Swept(att)
  /\ UNCHANGED <<results, latest, proc>>

(* NOW() reaches one of the timestamps of a row.                           *)
Pass(a) ==
  /\ \/ att[a].status = "claimed" /\ att[a].lease = "ahead"
        /\ att' = [att EXCEPT ![a].lease = "past"]
     \/ att[a].status = "in_flight" /\ att[a].wait = "ahead"
        /\ att' = [att EXCEPT ![a].wait = "past"]
     \/ att[a].status \in {"pending"} \cup Failed /\ att[a].retry = "ahead"
        /\ att' = [att EXCEPT ![a].retry = "past"]
  /\ UNCHANGED <<results, latest, proc>>

-----------------------------------------------------------------------------
Work(w) ==
  \/ MarkInFlight(w)
  \/ \E count \in Counts : CompleteSuccess(w, count)
  \/ \E retry \in {"unset", "ahead"} : CompleteError(w, retry)
  \/ CompleteRaises(w)

Next ==
  \/ \E r \in Requests : Enqueue(r)
  \/ \E S \in Populations : Rematch(S)
  \/ \E w \in Workers : \E a \in Attempts : Claim(w, a)
  \/ \E w \in Workers : Work(w) \/ Crash(w)
  \/ Reap
  \/ \E a \in Attempts : Pass(a)

Spec == Init /\ [][Next]_vars

(* Cloud Scheduler posts /reap and /process for ever, and clocks run.      *)
Fairness ==
  /\ WF_vars(Reap)
  /\ \A w \in Workers :
       WF_vars(Work(w)) /\ WF_vars(\E a \in Attempts : Claim(w, a))
  /\ \A a \in Attempts : WF_vars(Pass(a))

FairSpec == Spec /\ Fairness

-----------------------------------------------------------------------------
(* Properties                                                              *)

TypeOK ==
  /\ att \in [Attempts -> Row]
  /\ results \in [Attempts -> Nat]
  /\ latest \in [Requests -> {"none"} \cup Counts]
  /\ proc \in [Workers -> Proc]

(* An attempt has a matching_results row exactly when it succeeded, and    *)
(* never two: the transaction of complete_attempt_success and the terminal *)
(* guard together, against workers that outlive their lease.               *)
ResultIffSuccess ==
  \A a \in Attempts : results[a] = IF att[a].status = "success" THEN 1 ELSE 0

(* No attempt is in the hands of two live workers: a claim the reaper      *)
(* takes away is closed, and its retry is another row.                     *)
OneWorkerPerAttempt ==
  \A v, w \in Workers :
    v # w /\ proc[v] # Idle /\ proc[w] # Idle => proc[v].a # proc[w].a

(* A request whose newest attempt succeeded and whose newest result is a   *)
(* unique match is settled: neither the reaper nor a rematch queues it     *)
(* again, although older attempts of it may still fail or time out.        *)
Newest(a) == Exists(att, a) /\ ~Exists(att, Next1(a))
Settled(r) ==
  latest[r] = "one" /\ \E a \in Attempts :
                          a[1] = r /\ Newest(a) /\ att[a].status = "success"
SettledNotRequeued ==
  [][\A a \in Attempts :
       Settled(a[1]) /\ ~Exists(att, a) => att'[a].status = "absent"]_vars

(* The table is an AttemptLog: numbers are contiguous, verdicts are final. *)
Log == INSTANCE AttemptLog WITH
  log <- [a \in Attempts |->
            IF att[a].status = "absent" THEN "none"
            ELSE IF att[a].status \in Open THEN "open" ELSE att[a].status]
LogSpec == Log!Spec

(* Whatever workers and clocks do, an open attempt gets its verdict and a  *)
(* failed one its retry, unless an exhausted row blocks the sweep.         *)
OpenSettles ==
  \A a \in Attempts :
    att[a].status \in Open ~> (att[a].status \in Terminal \/ SweepRaises(att))
FailureRetried ==
  \A a \in Attempts :
    (att[a].status \in Failed /\ a[2] < MaxAttempts)
      ~> (Exists(att, Next1(a)) \/ SweepRaises(att))

(* What the reaper says of itself: it releases expired leases.             *)
ExpiredLeasesReleased ==
  \A a \in Attempts :
    (att[a].status = "claimed" /\ att[a].lease = "past")
      ~> att[a].status # "claimed"
=============================================================================
