---------------------------- MODULE MatchingDrain ---------------------------
(***************************************************************************)
(* The hot path of the matching queue: POST /ensure-drain takes the drain  *)
(* lease and starts an execution of the drain Job, whose tasks claim       *)
(* attempts in chunks, look them up and write the outcomes back in         *)
(* batches, until the queue is empty.  A claim is never extended, so the   *)
(* sweeps for dead claims (every task's, ensure_drain's, the reaper's) may *)
(* take rows from a task that is alive.  The matching.review gates opened  *)
(* with a batch of successes are not modelled here.                        *)
(***************************************************************************)
EXTENDS AttemptTable, DrainLease, FiniteSets

CONSTANTS Kickers,     \* concurrent POST /ensure-drain calls
          Executions,  \* executions of the Job, a bound on how many overlap
          Tasks,       \* tasks of all executions
          ExecutionOf, \* the execution of a task
          WorkerOf,    \* job_task_worker_id: the task's index, so executions
                       \* share worker ids
          KeyOf,       \* <<requestor_state, list_type>> of a request
          ChunkLimit,  \* DEFAULT_CHUNK_LIMIT
          BatchSize,   \* COMPLETE_BATCH_SIZE
          SlowChunks,  \* whether a chunk may take longer than its claim lease
          LostHeartbeats \* whether the drain lease may go without renewal
                         \* for STALE_HEARTBEAT_MINUTES while it is in use

ASSUME DrainAssumption ==
  /\ ExecutionOf \in [Tasks -> Executions]
  /\ WorkerOf \in [Tasks -> Workers]
  /\ ChunkLimit \in Nat \ {0} /\ BatchSize \in Nat \ {0}
  /\ SlowChunks \in BOOLEAN /\ LostHeartbeats \in BOOLEAN

VARIABLES att,     \* matching_attempts
          results, \* matching_results rows of each attempt; 2: two or more
          lease,   \* matching_drain_lease, key data-drop
          task,    \* the tasks: where each is, and the chunk it has in memory
          kick,    \* where each ensure_drain call is
          stolen   \* history: attempts released while a live task had them

vars == <<att, results, lease, task, kick, stolen>>

Sweeping == {"start", "reap", "empty"}
Chunking == {"prepare", "fail", "complete"}
TaskAt   == Sweeping \cup Chunking \cup
            {"off", "renew", "seed", "claim", "failed", "count", "final", "release"}
KickAt   == {"idle", "count", "acquire", "reap_all", "start", "undo", "renew"}

Keys   == {KeyOf[r] : r \in Requests}
NoKey  == "none"
At(pc) == [pc |-> pc, key |-> NoKey, chunk |-> {}]
Off    == At("off")
Live(t) == task[t] # Off

Init ==
  /\ att = EmptyTable
  /\ results = [a \in Attempts |-> 0]
  /\ lease = "free"
  /\ task = [t \in Tasks |-> Off]
  /\ kick = [k \in Kickers |-> "idle"]
  /\ stolen = {}

-----------------------------------------------------------------------------
(* Statements several processes run                                        *)

Claimed    == {a \in Attempts : att[a].status = "claimed"}
DuePending == {a \in Attempts : Claimable(att[a])}

(* _matching_work_remaining, _queue_has_matching_work                      *)
WorkRemains == DuePending \cup Claimed # {}

(* The claims in rows go back to pending, whoever has them in memory; self *)
(* are the tasks known not to use them any more.                           *)
ReleaseClaims(rows, self) ==
  /\ att' = [a \in Attempts |-> IF a \in rows THEN BackToPending(att[a]) ELSE att[a]]
  /\ stolen' = stolen \cup
       {a \in rows : \E t \in Tasks \ self : a \in task[t].chunk}

Move(t, pc) == task' = [task EXCEPT ![t].pc = pc]

-----------------------------------------------------------------------------
(* ensure_drain                                                            *)

Enqueue(r) ==
  /\ <<r, 1>> \in Attempts /\ ~Exists(att, <<r, 1>>)
  /\ att' = [att EXCEPT ![<<r, 1>>] = NewRow("pending", "unset")]
  /\ UNCHANGED <<results, lease, task, kick, stolen>>

EnsureReap(k) ==
  /\ kick[k] = "idle"
  /\ ReleaseClaims(DeadClaims(att), {})
  /\ kick' = [kick EXCEPT ![k] = "count"]
  /\ UNCHANGED <<results, lease, task>>

EnsureCount(k) ==
  /\ kick[k] = "count"
  /\ kick' = [kick EXCEPT ![k] = IF WorkRemains THEN "acquire" ELSE "idle"]
  /\ UNCHANGED <<att, results, lease, task, stolen>>

EnsureAcquire(k) ==
  /\ kick[k] = "acquire"
  /\ IF Available(lease)
       THEN lease' = "fresh" /\ kick' = [kick EXCEPT ![k] = "reap_all"]
       ELSE kick' = [kick EXCEPT ![k] = "idle"] /\ UNCHANGED lease
  /\ UNCHANGED <<att, results, task, stolen>>

(* reap_all_matching_claims: "Previous Job is dead."                       *)
EnsureReapAll(k) ==
  /\ kick[k] = "reap_all"
  /\ ReleaseClaims(Claimed, {})
  /\ kick' = [kick EXCEPT ![k] = "start"]
  /\ UNCHANGED <<results, lease, task>>

EnsureStart(k) ==
  /\ kick[k] = "start"
  /\ \/ \E e \in Executions :
          /\ \A t \in Tasks : ExecutionOf[t] = e => ~Live(t)
          /\ task' = [t \in Tasks |-> IF ExecutionOf[t] = e THEN At("start") ELSE task[t]]
          /\ kick' = [kick EXCEPT ![k] = "renew"]
     \/ kick' = [kick EXCEPT ![k] = "undo"] /\ UNCHANGED task
  /\ UNCHANGED <<att, results, lease, stolen>>

(* The Job did not start: release_drain_lease.                             *)
EnsureUndo(k) ==
  /\ kick[k] = "undo"
  /\ lease' = "free"
  /\ kick' = [kick EXCEPT ![k] = "idle"]
  /\ UNCHANGED <<att, results, task, stolen>>

EnsureRenew(k) ==
  /\ kick[k] = "renew"
  /\ lease' = Renewed(lease)
  /\ kick' = [kick EXCEPT ![k] = "idle"]
  /\ UNCHANGED <<att, results, task, stolen>>

Ensure(k) ==
  \/ EnsureReap(k) \/ EnsureCount(k) \/ EnsureAcquire(k) \/ EnsureReapAll(k)
  \/ EnsureStart(k) \/ EnsureUndo(k) \/ EnsureRenew(k)

-----------------------------------------------------------------------------
(* A task: run_job_task, _drain_until_empty, process_matching_chunk        *)

(* reap_stale_matching_claims, first thing in run_job_task and in every    *)
(* chunk, and after an empty or a failed one.                              *)
After == [start |-> "renew", reap |-> "seed", empty |-> "count"]
ReapStale(t) ==
  /\ task[t].pc \in Sweeping
  /\ ReleaseClaims(DeadClaims(att), {})
  /\ Move(t, After[task[t].pc])
  /\ UNCHANGED <<results, lease, kick>>

Renew(t) ==
  /\ task[t].pc = "renew"
  /\ lease' = Renewed(lease)
  /\ Move(t, "reap")
  /\ UNCHANGED <<att, results, kick, stolen>>

(* claim_matching_chunk: the first due row names the state and list type,  *)
(* then up to ChunkLimit due rows of that key are claimed, SKIP LOCKED.    *)
Seed(t) ==
  /\ task[t].pc = "seed"
  /\ IF DuePending = {}
       THEN Move(t, "empty")
       ELSE \E a \in DuePending :
              task' = [task EXCEPT ![t].pc = "claim", ![t].key = KeyOf[a[1]]]
  /\ UNCHANGED <<att, results, lease, kick, stolen>>

Chunks(key) ==
  LET due == {a \in DuePending : KeyOf[a[1]] = key}
  IN  IF Cardinality(due) <= ChunkLimit THEN {due}
      ELSE {S \in SUBSET due : Cardinality(S) = ChunkLimit}

ClaimChunk(t) ==
  /\ task[t].pc = "claim"
  /\ \E S \in Chunks(task[t].key) :
       /\ att' = [a \in Attempts |->
                    IF a \in S THEN ClaimedBy(att[a], WorkerOf[t]) ELSE att[a]]
       /\ task' = [task EXCEPT ![t] =
                     [At(IF S = {} THEN "empty" ELSE "prepare") EXCEPT !.chunk = S]]
  /\ UNCHANGED <<results, lease, kick, stolen>>

(* The lookup over BigQuery answers, or raises BigQueryLookupError.        *)
Lookup(t) ==
  /\ task[t].pc = "prepare" /\ task[t].chunk # {}
  /\ \E pc \in {"complete", "fail"} : Move(t, pc)
  /\ UNCHANGED <<att, results, lease, kick, stolen>>

Batches(t) == {B \in SUBSET task[t].chunk : B # {} /\ Cardinality(B) <= BatchSize}
Done(t, B) == task' = [task EXCEPT ![t].chunk = @ \ B]

(* _bulk_complete_errors: rows that cannot be prepared, or the whole chunk *)
(* with a retry_after.  WHERE status IN ('claimed','in_flight','pending'). *)
ErrorBatch(t, B) ==
  /\ task[t].pc \in {"prepare", "fail"}
  /\ LET retry == IF task[t].pc = "fail" THEN "ahead" ELSE "unset" IN
     att' = [a \in Attempts |->
               IF a \in B /\ att[a].status \in Open
                 THEN NewRow("submit_error", retry) ELSE att[a]]
  /\ Done(t, B)
  /\ UNCHANGED <<results, lease, kick, stolen>>

(* _bulk_complete_successes: the results are inserted whatever became of   *)
(* the rows, the UPDATE takes those still claimed or in_flight.            *)
SuccessWhere(B, where) ==
  /\ results' = [a \in Attempts |->
                   IF a \in B /\ results[a] < 2 THEN results[a] + 1 ELSE results[a]]
  /\ att' = [a \in Attempts |->
               IF a \in B /\ att[a].status \in where
                 THEN NewRow("success", att[a].retry) ELSE att[a]]

UpdateWithoutFilter(t, B) ==              \* mutant: UPDATE by id alone, and
  /\ task[t].pc = "complete"              \* no trigger
  /\ SuccessWhere(B, Open \cup Terminal)
  /\ Done(t, B)
  /\ UNCHANGED <<lease, kick, stolen>>

ResultIfHeld(t, B) ==                     \* mutant: results for rows still
  /\ task[t].pc = "complete"              \* claimed, all open rows closed
  /\ results' = [a \in Attempts |->
                   IF a \in B \cap Claimed /\ results[a] < 2
                     THEN results[a] + 1 ELSE results[a]]
  /\ att' = [a \in Attempts |->
               IF a \in B /\ att[a].status \in Open
                 THEN NewRow("success", att[a].retry) ELSE att[a]]
  /\ Done(t, B)
  /\ UNCHANGED <<lease, kick, stolen>>

SuccessBatch(t, B) ==
  /\ task[t].pc = "complete"
  /\ SuccessWhere(B, {"claimed", "in_flight"})
  /\ Done(t, B)
  /\ UNCHANGED <<lease, kick, stolen>>

NextChunk(t) ==
  /\ task[t].pc \in Chunking /\ task[t].chunk = {}
  /\ Move(t, "renew")
  /\ UNCHANGED <<att, results, lease, kick, stolen>>

(* Any exception of process_matching_chunk is caught by the loop.          *)
Raise(t) ==
  /\ task[t].pc \in Chunking
  /\ task' = [task EXCEPT ![t] = At("failed")]
  /\ UNCHANGED <<att, results, lease, kick, stolen>>

(* reap_worker_matching_claims: by worker_id, which tasks of other         *)
(* executions share.                                                       *)
ReapWorker(t) ==
  /\ task[t].pc = "failed"
  /\ ReleaseClaims({a \in Claimed : att[a].worker = WorkerOf[t]}, {t})
  /\ Move(t, "empty")
  /\ UNCHANGED <<results, lease, kick>>

Count(t) ==
  /\ task[t].pc \in {"count", "final"}
  /\ Move(t, IF task[t].pc = "count"
               THEN IF WorkRemains THEN "renew" ELSE "final"
               ELSE IF WorkRemains THEN "off" ELSE "release")
  /\ UNCHANGED <<att, results, lease, kick, stolen>>

(* The count is old by now.                                                *)
Release(t) ==
  /\ task[t].pc = "release"
  /\ lease' = "free"
  /\ Move(t, "off")
  /\ UNCHANGED <<att, results, kick, stolen>>

(* Killed, by the task timeout too; Cloud Run may run the task again.      *)
Crash(t) ==
  /\ Live(t)
  /\ \E pc \in {"off", "start"} : task' = [task EXCEPT ![t] = At(pc)]
  /\ UNCHANGED <<att, results, lease, kick, stolen>>

-----------------------------------------------------------------------------
(* The reaper and time                                                     *)

Reap ==
  /\ ~SweepRaises(att)
  /\ att' = Swept(att)
  /\ stolen' = stolen \cup
       {a \in DeadClaims(att) : \E t \in Tasks : a \in task[t].chunk}
  /\ UNCHANGED <<results, lease, task, kick>>

InHand(a) == \E t \in Tasks : a \in task[t].chunk

Pass(a) ==
  /\ \/ /\ att[a].status = "claimed" /\ att[a].lease = "ahead"
        /\ InHand(a) => SlowChunks
        /\ att' = [att EXCEPT ![a].lease = "past"]
     \/ /\ att[a].status \in {"pending"} \cup Failed /\ att[a].retry = "ahead"
        /\ att' = [att EXCEPT ![a].retry = "past"]
  /\ UNCHANGED <<results, lease, task, kick, stolen>>

LeaseInUse == \/ \E t \in Tasks : Live(t)
              \/ \E k \in Kickers : kick[k] \in {"reap_all", "start", "undo", "renew"}

Age ==
  /\ lease \in {"fresh", "stale"}
  /\ LeaseInUse => LostHeartbeats
  /\ lease' = Aged(lease)
  /\ UNCHANGED <<att, results, task, kick, stolen>>

-----------------------------------------------------------------------------
Write(t) == \E B \in Batches(t) : ErrorBatch(t, B) \/ SuccessBatch(t, B)

Step(t) ==
  \/ ReapStale(t) \/ Renew(t) \/ Seed(t) \/ ClaimChunk(t) \/ Lookup(t) \/ Write(t)
  \/ NextChunk(t) \/ ReapWorker(t) \/ Count(t) \/ Release(t)

Next ==
  \/ \E r \in Requests : Enqueue(r)
  \/ \E k \in Kickers : Ensure(k)
  \/ \E t \in Tasks : Step(t) \/ Raise(t) \/ Crash(t)
  \/ Reap
  \/ \E a \in Attempts : Pass(a)
  \/ Age

Spec == Init /\ [][Next]_vars

(* The scheduler posts /ensure-drain and /reap for ever, jobs can be       *)
(* started again and again and then run, and clocks advance.               *)
Fairness ==
  /\ \A k \in Kickers : WF_vars(Ensure(k)) /\ SF_vars(EnsureStart(k) /\ task' # task)
  /\ \A t \in Tasks : WF_vars(Step(t))
  /\ WF_vars(Reap) /\ WF_vars(Age)
  /\ \A a \in Attempts : WF_vars(Pass(a))

(* Tasks do not fail for ever (a step that only stops looks like a crash). *)
FaultsStop == <>[][\A t \in Tasks : Raise(t) \/ Crash(t) => Step(t)]_vars

FairSpec == Spec /\ Fairness

-----------------------------------------------------------------------------
(* Properties                                                              *)

TypeOK ==
  /\ att \in [Attempts -> Row]
  /\ results \in [Attempts -> 0..2]
  /\ lease \in LeaseStates
  /\ task \in [Tasks -> [pc : TaskAt, key : Keys \cup {NoKey},
                         chunk : SUBSET Attempts]]
  /\ kick \in [Kickers -> KickAt]
  /\ stolen \subseteq Attempts

(* Every success has a result: rows that another task claimed again, and   *)
(* closed, included.                                                       *)
SuccessHasResult ==
  \A a \in Attempts : att[a].status = "success" => results[a] > 0

(* An attempt nobody took from a live task has one result if it succeeded, *)
(* none otherwise, and one task working on it: releasing live claims is    *)
(* the only way to a duplicate or stray result.                            *)
UnstolenExact ==
  \A a \in Attempts \ stolen :
    /\ results[a] = IF att[a].status = "success" THEN 1 ELSE 0
    /\ \A t, u \in Tasks : a \in task[t].chunk \cap task[u].chunk => t = u

(* The drain writes the same append-only log as POST /process.             *)
Log == INSTANCE AttemptLog WITH
  log <- [a \in Attempts |->
            IF att[a].status = "absent" THEN "none"
            ELSE IF att[a].status \in Open THEN "open" ELSE att[a].status]
LogSpec == Log!Spec

(* A claim does not outlive its task for ever, also when an exhausted      *)
(* attempt keeps the reaper from releasing anything.                       *)
OrphanClaimsReturn ==
  \A a \in Attempts : att[a].status = "claimed" ~> att[a].status # "claimed"

(* Once faults stop, every queued attempt gets a verdict, whatever tasks,  *)
(* jobs and lease went through.                                            *)
QueueDrains ==
  FaultsStop =>
    \A a \in Attempts : att[a].status = "pending" ~> att[a].status \in Terminal

(* "Tasks run concurrently without claiming the same attempt."             *)
TasksExclusive ==
  \A t, u \in Tasks : t # u => task[t].chunk \cap task[u].chunk = {}
=============================================================================
