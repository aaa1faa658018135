------------------------- MODULE MatchingDrainProofs -------------------------
(***************************************************************************)
(* Theorems about MatchingDrain for every set of tasks and executions,     *)
(* every chunk and batch size, however late leases and heartbeats are.     *)
(* The inductive invariant DrainInv says what a chunk in memory is worth:  *)
(* unless someone released the claim under a live task, the row is still   *)
(* claimed, for that task alone, and has no result yet.                    *)
(***************************************************************************)
EXTENDS MatchingDrain, AttemptTableProofs

TaskRow == [pc : TaskAt, key : Keys \cup {NoKey}, chunk : SUBSET Attempts]

(* A task has a chunk in memory only while it works on it.                 *)
ChunksInWork == \A t \in Tasks : task[t].pc \notin Chunking => task[t].chunk = {}

(* A row in a chunk is still claimed, unless it was taken from the task.   *)
HeldClaimed ==
  \A a \in Attempts \ stolen, t \in Tasks :
    a \in task[t].chunk => att[a].status = "claimed"

DrainInv == TypeOK /\ ChunksInWork /\ HeldClaimed /\ SuccessHasResult /\ UnstolenExact

(* A row appears at the end of its request's attempts, and moves from open *)
(* to open or to a verdict.                                                *)
RowStep ==
  /\ att' \in [Attempts -> Row]
  /\ \A a \in Attempts :
       \/ att'[a].status = att[a].status
       \/ att[a].status \in Open /\ att'[a].status \in Open \cup Terminal
       \/ /\ att[a].status = "absent" /\ att'[a].status = "pending"
          /\ a[2] > 1 => Exists(att, Prev1(a))

-----------------------------------------------------------------------------
LEMMA InitDrainInv == Init => DrainInv
<1> SUFFICES ASSUME Init PROVE DrainInv
  OBVIOUS
<1>1. NoRow \in Row /\ NoRow.status = "absent"
  BY NewRowType DEF NoRow, Deadline
<1>2. att \in [Attempts -> Row] /\ \A a \in Attempts : att[a].status = "absent"
  BY <1>1 DEF Init, EmptyTable
<1>3. Off \in TaskRow /\ Off.chunk = {}
  BY DEF Off, At, TaskRow, TaskAt
<1>4. TypeOK
  BY <1>2, <1>3 DEF Init, TypeOK, TaskRow, LeaseStates, KickAt
<1>5. \A t \in Tasks : task[t].chunk = {}
  BY <1>3 DEF Init
<1>6. ChunksInWork /\ HeldClaimed /\ SuccessHasResult /\ UnstolenExact
  BY <1>2, <1>5 DEF Init, ChunksInWork, HeldClaimed, SuccessHasResult, UnstolenExact
<1> QED BY <1>4, <1>6 DEF DrainInv

-----------------------------------------------------------------------------
(* Kinds of steps                                                          *)

(* Tasks move on, and at most drop what they have in memory.               *)
LEMMA TasksMove ==
  ASSUME DrainInv, UNCHANGED <<att, results, stolen>>,
         lease' \in LeaseStates, kick' \in [Kickers -> KickAt],
         task' \in [Tasks -> TaskRow],
         \A t \in Tasks : /\ task'[t].chunk \subseteq task[t].chunk
                          /\ task'[t].pc \notin Chunking => task'[t].chunk = {}
  PROVE  DrainInv' /\ RowStep
<1>1. TypeOK'
  BY DEF DrainInv, TypeOK, TaskRow
<1>2. ChunksInWork'
  BY DEF ChunksInWork
<1>3. HeldClaimed'
  BY DEF DrainInv, HeldClaimed
<1>4. SuccessHasResult' /\ UnstolenExact'
  BY DEF DrainInv, SuccessHasResult, UnstolenExact
<1>5. RowStep
  BY DEF DrainInv, TypeOK, RowStep
<1> QED BY <1>1, <1>2, <1>3, <1>4, <1>5 DEF DrainInv

(* The table moves under the tasks: a row in memory that is changed is     *)
(* stolen, and no row succeeds.                                            *)
LEMMA TableMoves ==
  ASSUME DrainInv, RowStep, UNCHANGED results,
         stolen \subseteq stolen', stolen' \subseteq Attempts,
         lease' \in LeaseStates, kick' \in [Kickers -> KickAt],
         task' \in [Tasks -> TaskRow],
         \A t \in Tasks : /\ task'[t].chunk = task[t].chunk
                          /\ task'[t].pc \notin Chunking => task'[t].chunk = {},
         \A a \in Attempts : att'[a].status = "success" <=> att[a].status = "success",
         \A a \in Attempts \ stolen', t \in Tasks :
           a \in task[t].chunk => att'[a].status = att[a].status
  PROVE  DrainInv'
<1>1. TypeOK'
  BY DEF DrainInv, TypeOK, TaskRow, RowStep
<1>2. ChunksInWork'
  BY DEF ChunksInWork
<1>3. HeldClaimed'
  BY DEF DrainInv, HeldClaimed
<1>4. SuccessHasResult' /\ UnstolenExact'
  BY DEF DrainInv, SuccessHasResult, UnstolenExact
<1> QED BY <1>1, <1>2, <1>3, <1>4 DEF DrainInv

(* Claims are released, of tasks that may be alive, and told as stolen.    *)
LEMMA Releases ==
  ASSUME DrainInv, NEW rows \in SUBSET Claimed, NEW self \in SUBSET Tasks,
         ReleaseClaims(rows, self), UNCHANGED results,
         \A t \in self : task[t].chunk = {},
         lease' \in LeaseStates, kick' \in [Kickers -> KickAt],
         task' \in [Tasks -> TaskRow],
         \A t \in Tasks : /\ task'[t].chunk = task[t].chunk
                          /\ task'[t].pc \notin Chunking => task'[t].chunk = {}
  PROVE  DrainInv' /\ RowStep
<1>1. att \in [Attempts -> Row] /\ stolen \subseteq Attempts
  BY DEF DrainInv, TypeOK
<1>2. \A a \in rows : /\ a \in Attempts /\ att[a].status = "claimed"
                      /\ BackToPending(att[a]) \in Row
                      /\ BackToPending(att[a]).status = "pending"
  BY <1>1 DEF Claimed, BackToPending, Row, Open, Deadline
<1>3. \A a \in Attempts : att'[a] = IF a \in rows THEN BackToPending(att[a]) ELSE att[a]
  BY DEF ReleaseClaims
<1>4. RowStep
  BY <1>1, <1>2 DEF ReleaseClaims, RowStep, Open
<1>5. stolen \subseteq stolen' /\ stolen' \subseteq Attempts
  BY <1>1, <1>2 DEF ReleaseClaims
<1>6. \A a \in Attempts : att'[a].status = "success" <=> att[a].status = "success"
  BY <1>2, <1>3
<1>7. \A a \in Attempts \ stolen', t \in Tasks :
        a \in task[t].chunk => att'[a].status = att[a].status
  BY <1>2, <1>3 DEF ReleaseClaims
<1> QED BY <1>4, <1>5, <1>6, <1>7, TableMoves

(* A task goes on to pc with what it has in memory.                        *)
LEMMA MoveParts ==
  ASSUME DrainInv, NEW t \in Tasks, NEW pc \in TaskAt, Move(t, pc),
         pc \in Chunking \/ task[t].chunk = {}
  PROVE  /\ task' \in [Tasks -> TaskRow]
         /\ \A u \in Tasks : /\ task'[u].chunk = task[u].chunk
                             /\ task'[u].pc \notin Chunking => task'[u].chunk = {}
BY DEF DrainInv, TypeOK, ChunksInWork, Move, TaskRow

-----------------------------------------------------------------------------
(* The queue and ensure_drain                                              *)

LEMMA EnqueueStep ==
  ASSUME DrainInv, NEW r \in Requests, Enqueue(r)
  PROVE  DrainInv' /\ RowStep
<1>1. att \in [Attempts -> Row] /\ task \in [Tasks -> TaskRow] /\ stolen \subseteq Attempts
  BY DEF DrainInv, TypeOK, TaskRow
<1> DEFINE b == <<r, 1>>
<1>2. b \in Attempts /\ att[b].status = "absent" /\ b[2] = 1
  BY DEF Enqueue, Exists
<1>3. NewRow("pending", "unset") \in Row /\ NewRow("pending", "unset").status = "pending"
  BY NewRowType DEF Open, Deadline
<1>4. att' = [att EXCEPT ![b] = NewRow("pending", "unset")]
  BY DEF Enqueue
<1> HIDE DEF b
<1>5. RowStep
  BY <1>1, <1>2, <1>3, <1>4 DEF RowStep
<1>6. \A a \in Attempts : att'[a].status = "success" <=> att[a].status = "success"
  BY <1>1, <1>2, <1>3, <1>4
<1>7. \A a \in Attempts \ stolen, t \in Tasks :
        a \in task[t].chunk => att'[a].status = att[a].status
  BY <1>1, <1>2, <1>4 DEF DrainInv, HeldClaimed
<1>8. /\ UNCHANGED <<results, lease, task, kick, stolen>>
      /\ \A t \in Tasks : task[t].pc \notin Chunking => task[t].chunk = {}
  BY DEF Enqueue, DrainInv, ChunksInWork
<1> QED BY <1>1, <1>5, <1>6, <1>7, <1>8, TableMoves DEF DrainInv, TypeOK

(* DeadClaims and whatever else is released are claims.                    *)
LEMMA DeadClaimsClaimed == DeadClaims(att) \in SUBSET Claimed
BY DEF DeadClaims, Claimed

LEMMA TasksRest ==
  ASSUME DrainInv, UNCHANGED task
  PROVE  /\ task' \in [Tasks -> TaskRow]
         /\ \A t \in Tasks : /\ task'[t].chunk = task[t].chunk
                             /\ task'[t].pc \notin Chunking => task'[t].chunk = {}
BY DEF DrainInv, TypeOK, TaskRow, ChunksInWork

LEMMA EnsureStep ==
  ASSUME DrainInv, NEW k \in Kickers, Ensure(k)
  PROVE  DrainInv' /\ RowStep
<1>1. lease \in LeaseStates /\ kick \in [Kickers -> KickAt]
  BY DEF DrainInv, TypeOK
<1>2. \A x \in KickAt : [kick EXCEPT ![k] = x] \in [Kickers -> KickAt]
  BY <1>1
<1>3. Renewed(lease) \in LeaseStates /\ "free" \in LeaseStates /\ "fresh" \in LeaseStates
  BY <1>1 DEF Renewed, LeaseStates
<1>4. CASE EnsureReap(k)
  <2>1. kick' \in [Kickers -> KickAt]
    BY <1>2, <1>4 DEF EnsureReap, KickAt
  <2> QED BY <1>1, <1>4, <2>1, DeadClaimsClaimed, TasksRest, Releases DEF EnsureReap
<1>5. CASE EnsureReapAll(k)
  <2>1. kick' \in [Kickers -> KickAt]
    BY <1>2, <1>5 DEF EnsureReapAll, KickAt
  <2> QED BY <1>1, <1>5, <2>1, TasksRest, Releases DEF EnsureReapAll
<1>6. CASE EnsureCount(k) \/ EnsureAcquire(k) \/ EnsureUndo(k) \/ EnsureRenew(k)
  <2>1. kick' \in [Kickers -> KickAt]
    BY <1>1, <1>2, <1>6 DEF EnsureCount, EnsureAcquire, EnsureUndo, EnsureRenew, KickAt
  <2>2. lease' \in LeaseStates /\ UNCHANGED <<att, results, task, stolen>>
    BY <1>1, <1>3, <1>6 DEF EnsureCount, EnsureAcquire, EnsureUndo, EnsureRenew
  <2> QED BY <2>1, <2>2, TasksRest, TasksMove
<1>7. CASE EnsureStart(k)
  <2>1. kick' \in [Kickers -> KickAt] /\ UNCHANGED <<att, results, lease, stolen>>
    BY <1>1, <1>2, <1>7 DEF EnsureStart, KickAt
  <2>2. CASE UNCHANGED task
    BY <1>1, <2>1, <2>2, TasksRest, TasksMove
  <2>3. ASSUME NEW e \in Executions,
               task' = [t \in Tasks |-> IF ExecutionOf[t] = e THEN At("start") ELSE task[t]]
        PROVE  DrainInv' /\ RowStep
    <3>1. At("start") \in TaskRow /\ At("start").chunk = {}
      BY DEF At, TaskRow, TaskAt, Sweeping
    <3>2. /\ task' \in [Tasks -> TaskRow]
          /\ \A t \in Tasks : /\ task'[t].chunk \subseteq task[t].chunk
                              /\ task'[t].pc \notin Chunking => task'[t].chunk = {}
      BY <2>3, <3>1 DEF DrainInv, TypeOK, TaskRow, ChunksInWork
    <3> QED BY <1>1, <2>1, <3>2, TasksMove
  <2> QED BY <1>7, <2>2, <2>3 DEF EnsureStart
<1> QED BY <1>4, <1>5, <1>6, <1>7 DEF Ensure

-----------------------------------------------------------------------------
(* A task                                                                  *)

(* The steps that leave table and results alone.                           *)
LEMMA QuietStep ==
  ASSUME DrainInv, NEW t \in Tasks,
         \/ Renew(t) \/ Seed(t) \/ Lookup(t) \/ NextChunk(t) \/ Raise(t)
         \/ Count(t) \/ Release(t) \/ Crash(t)
  PROVE  DrainInv' /\ RowStep
<1>1. /\ lease \in LeaseStates /\ kick \in [Kickers -> KickAt]
      /\ task \in [Tasks -> TaskRow] /\ task[t].pc \in TaskAt
      /\ task[t].pc \notin Chunking => task[t].chunk = {}
  BY DEF DrainInv, TypeOK, TaskRow, ChunksInWork
<1>2. Renewed(lease) \in LeaseStates /\ "free" \in LeaseStates
  BY <1>1 DEF Renewed, LeaseStates
<1>3. /\ lease' \in LeaseStates
      /\ UNCHANGED <<att, results, kick, stolen>>
  BY <1>1, <1>2 DEF Renew, Seed, Lookup, NextChunk, Raise, Count, Release, Crash
<1>4. ASSUME NEW pc \in TaskAt, Move(t, pc), pc \in Chunking \/ task[t].chunk = {}
      PROVE  DrainInv' /\ RowStep
  BY <1>1, <1>3, <1>4, MoveParts, TasksMove
<1>5. ASSUME NEW pc \in TaskAt, task' = [task EXCEPT ![t] = At(pc)]
      PROVE  DrainInv' /\ RowStep
  <2>1. At(pc) \in TaskRow /\ At(pc).chunk = {}
    BY DEF At, TaskRow
  <2>2. /\ task' \in [Tasks -> TaskRow]
        /\ \A u \in Tasks : /\ task'[u].chunk \subseteq task[u].chunk
                            /\ task'[u].pc \notin Chunking => task'[u].chunk = {}
    BY <1>1, <1>5, <2>1 DEF DrainInv, ChunksInWork
  <2> QED BY <1>1, <1>3, <2>2, TasksMove
<1>6. {"reap", "renew", "final", "off", "release", "empty", "claim", "complete", "fail",
       "failed", "start"} \subseteq TaskAt /\ {"complete", "fail"} \subseteq Chunking
      /\ {"renew", "seed", "count", "final", "release"} \cap Chunking = {}
  BY DEF TaskAt, Sweeping, Chunking
<1>7. CASE Renew(t)
  BY <1>1, <1>4, <1>6, <1>7 DEF Renew
<1>8. CASE Seed(t)
  <2>1. CASE Move(t, "empty")
    BY <1>1, <1>4, <1>6, <1>8, <2>1 DEF Seed
  <2>2. ASSUME NEW a \in DuePending,
               task' = [task EXCEPT ![t].pc = "claim", ![t].key = KeyOf[a[1]]]
        PROVE  DrainInv' /\ RowStep
    <3>1. KeyOf[a[1]] \in Keys
      BY AttemptParts DEF DuePending, Keys
    <3>2. task[t].chunk = {}
      BY <1>1, <1>6, <1>8 DEF Seed
    <3>3. /\ task' \in [Tasks -> TaskRow]
          /\ \A u \in Tasks : /\ task'[u].chunk \subseteq task[u].chunk
                              /\ task'[u].pc \notin Chunking => task'[u].chunk = {}
      BY <1>1, <1>6, <2>2, <3>1, <3>2 DEF DrainInv, ChunksInWork, TaskRow
    <3> QED BY <1>1, <1>3, <3>3, TasksMove
  <2> QED BY <1>8, <2>1, <2>2 DEF Seed
<1>9. CASE Lookup(t)
  BY <1>4, <1>6, <1>9 DEF Lookup
<1>10. CASE NextChunk(t)
  BY <1>4, <1>6, <1>10 DEF NextChunk
<1>11. CASE Raise(t)
  BY <1>5, <1>6, <1>11 DEF Raise
<1>12. CASE Count(t)
  BY <1>1, <1>4, <1>6, <1>12 DEF Count
<1>13. CASE Release(t)
  BY <1>1, <1>4, <1>6, <1>13 DEF Release
<1>14. CASE Crash(t)
  BY <1>5, <1>6, <1>14 DEF Crash
<1> QED BY <1>7, <1>8, <1>9, <1>10, <1>11, <1>12, <1>13, <1>14

LEMMA SweepingStep ==
  ASSUME DrainInv, NEW t \in Tasks, ReapStale(t) \/ ReapWorker(t)
  PROVE  DrainInv' /\ RowStep
<1>1. /\ lease \in LeaseStates /\ kick \in [Kickers -> KickAt]
      /\ task[t].pc \notin Chunking => task[t].chunk = {}
  BY DEF DrainInv, TypeOK, ChunksInWork
<1>2. CASE ReapStale(t)
  <2>1. task[t].chunk = {}
    BY <1>1, <1>2 DEF ReapStale, Sweeping, Chunking
  <2>2. After[task[t].pc] \in TaskAt
    BY <1>2 DEF ReapStale, Sweeping, After, TaskAt
  <2>3. Move(t, After[task[t].pc]) /\ ReleaseClaims(DeadClaims(att), {})
        /\ UNCHANGED <<results, lease, kick>>
    BY <1>2 DEF ReapStale
  <2> QED BY <1>1, <2>1, <2>2, <2>3, MoveParts, DeadClaimsClaimed, Releases
<1>3. CASE ReapWorker(t)
  <2>1. task[t].chunk = {} /\ "empty" \in TaskAt
    BY <1>1, <1>3 DEF ReapWorker, Chunking, TaskAt, Sweeping
  <2> DEFINE own == {a \in Claimed : att[a].worker = WorkerOf[t]}
  <2>2. own \in SUBSET Claimed /\ {t} \in SUBSET Tasks
    OBVIOUS
  <2>3. Move(t, "empty") /\ ReleaseClaims(own, {t}) /\ UNCHANGED <<results, lease, kick>>
    BY <1>3 DEF ReapWorker
  <2> HIDE DEF own
  <2> QED BY <1>1, <2>1, <2>2, <2>3, MoveParts, Releases
<1> QED BY <1>2, <1>3
LEMMA WithChunk ==
  ASSUME NEW pc, NEW S
  PROVE  [At(pc) EXCEPT !.chunk = S] = [pc |-> pc, key |-> NoKey, chunk |-> S]
BY DEF At

(* A chunk is claimed: due rows, which nobody has in memory unless they    *)
(* were taken from that task before.                                       *)
LEMMA ClaimChunkStep ==
  ASSUME DrainInv, NEW t \in Tasks, ClaimChunk(t)
  PROVE  DrainInv' /\ RowStep
<1>1. /\ att \in [Attempts -> Row] /\ task \in [Tasks -> TaskRow]
      /\ WorkerOf[t] \in Workers
  BY DrainAssumption DEF DrainInv, TypeOK, TaskRow
<1>2. PICK S \in Chunks(task[t].key) :
        /\ att' = [a \in Attempts |->
                     IF a \in S THEN ClaimedBy(att[a], WorkerOf[t]) ELSE att[a]]
        /\ task' = [task EXCEPT ![t] =
                      [At(IF S = {} THEN "empty" ELSE "prepare") EXCEPT !.chunk = S]]
  BY DEF ClaimChunk
<1>3. \A a \in S : a \in Attempts /\ att[a].status = "pending"
  BY DEF Chunks, DuePending, Claimable
<1> DEFINE pc == IF S = {} THEN "empty" ELSE "prepare"
<1>4. [At(pc) EXCEPT !.chunk = S] = [pc |-> pc, key |-> NoKey, chunk |-> S]
  BY WithChunk
<1>5. pc \in TaskAt /\ (pc \notin Chunking => S = {})
  BY DEF TaskAt, Sweeping, Chunking
<1> HIDE DEF pc
<1>6. /\ task' \in [Tasks -> TaskRow] /\ task'[t].chunk = S
      /\ \A u \in Tasks : u # t => task'[u] = task[u]
      /\ \A u \in Tasks : task'[u].pc \notin Chunking => task'[u].chunk = {}
  <2> DEFINE new == [pc |-> pc, key |-> NoKey, chunk |-> S]
  <2>1. new \in TaskRow /\ new.chunk = S /\ new.pc = pc
    BY <1>3, <1>5 DEF TaskRow
  <2>2. task' = [task EXCEPT ![t] = new]
    BY <1>2, <1>4 DEF pc
  <2> HIDE DEF new
  <2> QED BY <1>1, <1>5, <2>1, <2>2 DEF DrainInv, ChunksInWork
<1>7. \A a \in Attempts : /\ ClaimedBy(att[a], WorkerOf[t]) \in Row
                          /\ ClaimedBy(att[a], WorkerOf[t]).status = "claimed"
  BY <1>1 DEF ClaimedBy, Row, Open, Deadline
<1>8. /\ att' \in [Attempts -> Row]
      /\ \A a \in S : att'[a].status = "claimed"
      /\ \A a \in Attempts \ S : att'[a] = att[a]
  BY <1>1, <1>2, <1>3, <1>7
<1>9. UNCHANGED <<results, lease, kick, stolen>>
  BY DEF ClaimChunk
<1>10. RowStep
  BY <1>3, <1>8 DEF RowStep, Open
<1>11. TypeOK' /\ ChunksInWork'
  BY <1>6, <1>8, <1>9 DEF DrainInv, TypeOK, TaskRow, ChunksInWork
<1>12. \A a \in S \ stolen, u \in Tasks : a \notin task[u].chunk
  BY <1>3 DEF DrainInv, HeldClaimed
<1>13. HeldClaimed'
  BY <1>6, <1>8, <1>9 DEF DrainInv, HeldClaimed
<1>14. SuccessHasResult'
  BY <1>8, <1>9 DEF DrainInv, SuccessHasResult
<1>15. UnstolenExact'
  <2>1. \A a \in Attempts \ stolen : results[a] = IF att'[a].status = "success" THEN 1 ELSE 0
    BY <1>3, <1>8 DEF DrainInv, UnstolenExact
  <2>2. \A a \in Attempts \ stolen, u, v \in Tasks :
          a \in task'[u].chunk /\ a \in task'[v].chunk => u = v
    BY <1>6, <1>12 DEF DrainInv, UnstolenExact
  <2> QED BY <1>9, <2>1, <2>2 DEF UnstolenExact
<1> QED BY <1>10, <1>11, <1>13, <1>14, <1>15 DEF DrainInv

(* A batch leaves its task's chunk.                                        *)
LEMMA DoneParts ==
  ASSUME DrainInv, NEW t \in Tasks, NEW B \in Batches(t), Done(t, B)
  PROVE  /\ B \subseteq task[t].chunk /\ B \subseteq Attempts
         /\ task' \in [Tasks -> TaskRow] /\ ChunksInWork'
         /\ task'[t].chunk = task[t].chunk \ B
         /\ \A u \in Tasks : /\ task'[u].chunk \subseteq task[u].chunk
                             /\ task'[u].pc = task[u].pc
<1>1. task \in [Tasks -> TaskRow] /\ B \subseteq task[t].chunk
  BY DEF DrainInv, TypeOK, TaskRow, Batches
<1>2. task' = [task EXCEPT ![t].chunk = task[t].chunk \ B]
  BY DEF Done
<1>3. /\ task' \in [Tasks -> TaskRow] /\ B \subseteq Attempts
      /\ task'[t].chunk = task[t].chunk \ B
      /\ \A u \in Tasks : /\ task'[u].chunk \subseteq task[u].chunk
                          /\ task'[u].pc = task[u].pc
  BY <1>1, <1>2 DEF TaskRow
<1>4. ChunksInWork'
  BY <1>3 DEF DrainInv, ChunksInWork
<1> QED BY <1>1, <1>3, <1>4

(* A row of a batch that nobody took is claimed, without a result, and in  *)
(* no other task's memory.                                                 *)
LEMMA BatchRows ==
  ASSUME DrainInv, NEW t \in Tasks, NEW B, B \subseteq task[t].chunk, B \subseteq Attempts,
         NEW a \in B \ stolen
  PROVE  /\ att[a].status = "claimed" /\ results[a] = 0
         /\ \A u \in Tasks : a \in task[u].chunk => u = t
BY DEF DrainInv, HeldClaimed, UnstolenExact

LEMMA ErrorBatchStep ==
  ASSUME DrainInv, NEW t \in Tasks, NEW B \in Batches(t), ErrorBatch(t, B)
  PROVE  DrainInv' /\ RowStep
<1>1. /\ Done(t, B) /\ UNCHANGED <<results, lease, kick, stolen>>
      /\ att \in [Attempts -> Row]
  BY DEF ErrorBatch, DrainInv, TypeOK
<1>2. /\ B \subseteq task[t].chunk /\ B \subseteq Attempts
      /\ task' \in [Tasks -> TaskRow] /\ ChunksInWork'
      /\ task'[t].chunk = task[t].chunk \ B
      /\ \A u \in Tasks : task'[u].chunk \subseteq task[u].chunk
  BY <1>1, DoneParts
<1>3. PICK retry \in {"ahead", "unset"} :
        att' = [a \in Attempts |-> IF a \in B /\ att[a].status \in Open
                                     THEN NewRow("submit_error", retry) ELSE att[a]]
  BY DEF ErrorBatch
<1>4. /\ NewRow("submit_error", retry) \in Row
      /\ NewRow("submit_error", retry).status = "submit_error"
  BY NewRowType DEF Terminal, Failed, Deadline
<1>5. /\ att' \in [Attempts -> Row]
      /\ \A a \in Attempts : \/ att'[a] = att[a]
                             \/ /\ a \in B /\ att[a].status \in Open
                                /\ att'[a].status = "submit_error"
  BY <1>1, <1>3, <1>4
<1>6. RowStep
  BY <1>5 DEF RowStep, Terminal, Failed
<1>7. TypeOK'
  BY <1>1, <1>2, <1>5 DEF DrainInv, TypeOK, TaskRow
<1>8. \A a \in B \ stolen, u \in Tasks : a \notin task'[u].chunk
  BY <1>2, BatchRows
<1>9. HeldClaimed'
  BY <1>1, <1>2, <1>5, <1>8 DEF DrainInv, HeldClaimed
<1>10. SuccessHasResult'
  BY <1>1, <1>5 DEF DrainInv, SuccessHasResult
<1>11. UnstolenExact'
  <2>1. \A a \in Attempts \ stolen : att'[a].status = "success" <=> att[a].status = "success"
    BY <1>5 DEF Open
  <2> QED BY <1>1, <1>2, <2>1 DEF DrainInv, UnstolenExact
<1> QED BY <1>2, <1>6, <1>7, <1>9, <1>10, <1>11 DEF DrainInv

LEMMA SuccessBatchStep ==
  ASSUME DrainInv, NEW t \in Tasks, NEW B \in Batches(t), SuccessBatch(t, B)
  PROVE  DrainInv' /\ RowStep
<1>1. /\ Done(t, B) /\ UNCHANGED <<lease, kick, stolen>>
      /\ att \in [Attempts -> Row] /\ results \in [Attempts -> 0..2]
  BY DEF SuccessBatch, DrainInv, TypeOK
<1>2. /\ B \subseteq task[t].chunk /\ B \subseteq Attempts
      /\ task' \in [Tasks -> TaskRow] /\ ChunksInWork'
      /\ task'[t].chunk = task[t].chunk \ B
      /\ \A u \in Tasks : task'[u].chunk \subseteq task[u].chunk
  BY <1>1, DoneParts
<1>3. /\ results' = [a \in Attempts |->
                      IF a \in B /\ results[a] < 2 THEN results[a] + 1 ELSE results[a]]
      /\ att' = [a \in Attempts |->
                  IF a \in B /\ att[a].status \in {"claimed", "in_flight"}
                    THEN NewRow("success", att[a].retry) ELSE att[a]]
  BY DEF SuccessBatch, SuccessWhere
<1>4. \A a \in Attempts : /\ NewRow("success", att[a].retry) \in Row
                          /\ NewRow("success", att[a].retry).status = "success"
  <2>1. \A a \in Attempts : att[a].retry \in Deadline
    BY <1>1 DEF Row
  <2> QED BY <2>1, NewRowType DEF Terminal
<1>5. /\ att' \in [Attempts -> Row]
      /\ \A a \in Attempts : \/ /\ att'[a] = att[a]
                                /\ a \in B => att[a].status \notin {"claimed", "in_flight"}
                             \/ /\ a \in B /\ att[a].status \in {"claimed", "in_flight"}
                                /\ att'[a].status = "success"
  BY <1>1, <1>3, <1>4
<1>6. /\ results' \in [Attempts -> 0..2]
      /\ \A a \in B : results'[a] > 0
      /\ \A a \in B : results[a] = 0 => results'[a] = 1
      /\ \A a \in Attempts \ B : results'[a] = results[a]
  BY <1>1, <1>2, <1>3
<1>7. RowStep
  BY <1>5 DEF RowStep, Terminal, Open
<1>8. TypeOK'
  BY <1>1, <1>2, <1>5, <1>6 DEF DrainInv, TypeOK, TaskRow
<1>9. /\ \A a \in B \ stolen : att[a].status = "claimed" /\ results[a] = 0
      /\ \A a \in B \ stolen, u \in Tasks : a \notin task'[u].chunk
  <2>1. ASSUME NEW a \in B \ stolen PROVE att[a].status = "claimed" /\ results[a] = 0
    BY <1>2, BatchRows
  <2>2. ASSUME NEW a \in B \ stolen, NEW u \in Tasks, a \in task'[u].chunk PROVE FALSE
    <3>1. u = t
      BY <1>2, <2>2, BatchRows
    <3> QED BY <1>2, <2>2, <3>1
  <2> QED BY <2>1, <2>2
<1>10. HeldClaimed'
  BY <1>1, <1>2, <1>5, <1>9 DEF DrainInv, HeldClaimed
<1>11. SuccessHasResult'
  BY <1>5, <1>6 DEF DrainInv, SuccessHasResult
<1>12. UnstolenExact'
  <2>1. ASSUME NEW a \in Attempts \ stolen
        PROVE  results'[a] = IF att'[a].status = "success" THEN 1 ELSE 0
    <3>1. CASE a \in B
      BY <1>5, <1>6, <1>9, <3>1
    <3>2. CASE a \notin B
      BY <1>5, <1>6, <3>2 DEF DrainInv, UnstolenExact
    <3> QED BY <3>1, <3>2
  <2> QED BY <1>1, <1>2, <2>1 DEF DrainInv, UnstolenExact
<1> QED BY <1>2, <1>7, <1>8, <1>10, <1>11, <1>12 DEF DrainInv

-----------------------------------------------------------------------------
(* The reaper and time                                                     *)

LEMMA ReapStep ==
  ASSUME DrainInv, Reap
  PROVE  DrainInv' /\ RowStep
<1>1. /\ att \in [Attempts -> Row] /\ att' = Swept(att) /\ ~SweepRaises(att)
      /\ stolen \subseteq Attempts
      /\ UNCHANGED <<results, lease, task, kick>>
  BY DEF Reap, DrainInv, TypeOK
<1>2. \A a \in Attempts : NewRow("timeout", att[a].retry).status = "timeout"
  BY DEF NewRow
<1>3. NewRow("pending", "ahead").status = "pending"
  BY DEF NewRow
<1>4. ASSUME NEW a \in Attempts
      PROVE  \/ att'[a] = att[a]
             \/ /\ att[a].status \in {"claimed", "in_flight"}
                /\ att'[a].status = "timeout"
             \/ /\ att[a].status = "absent" /\ att'[a].status = "pending"
                /\ a[2] > 1 /\ Exists(att, Prev1(a))
  BY <1>1, <1>2, <1>3, SweepStep DEF Exists, Failed
<1>5. RowStep
  BY <1>1, <1>4, SweepType DEF RowStep, Open, Terminal, Failed
<1>6. \A a \in Attempts : att'[a].status = "success" <=> att[a].status = "success"
  BY <1>4
<1>7. stolen \subseteq stolen' /\ stolen' \subseteq Attempts
  BY <1>1 DEF Reap, DeadClaims
(* A claim the sweep times out is a dead one.                              *)
<1>8. ASSUME NEW a \in Attempts, att[a].status = "claimed", a \notin DeadClaims(att)
      PROVE  att'[a] = att[a]
  BY <1>1, <1>8, LiveClaimKept
<1>9. \A a \in Attempts \ stolen', t \in Tasks :
        a \in task[t].chunk => att'[a].status = att[a].status
  BY <1>7, <1>8 DEF Reap, DrainInv, HeldClaimed
<1> QED BY <1>1, <1>5, <1>6, <1>7, <1>9, TasksRest, TableMoves DEF DrainInv, TypeOK

LEMMA PassStep ==
  ASSUME DrainInv, NEW a \in Attempts, Pass(a)
  PROVE  DrainInv' /\ RowStep
<1>1. /\ att' \in [Attempts -> Row]
      /\ \A b \in Attempts : att'[b].status = att[b].status
  <2>1. att \in [Attempts -> Row]
    BY DEF DrainInv, TypeOK
  <2>2. \/ att' = [att EXCEPT ![a].lease = "past"]
        \/ att' = [att EXCEPT ![a].retry = "past"]
    BY DEF Pass
  <2> QED BY <2>1, <2>2 DEF Row, Deadline
<1>2. UNCHANGED <<results, lease, task, kick, stolen>>
  BY DEF Pass
<1>3. RowStep
  BY <1>1 DEF RowStep
<1> QED BY <1>1, <1>2, <1>3, TasksRest, TableMoves DEF DrainInv, TypeOK

LEMMA AgeStep ==
  ASSUME DrainInv, Age \/ UNCHANGED vars
  PROVE  DrainInv' /\ RowStep
<1>1. lease' \in LeaseStates /\ UNCHANGED <<att, results, task, kick, stolen>>
  BY DEF Age, Aged, vars, DrainInv, TypeOK, LeaseStates
<1> QED BY <1>1, TasksRest, TasksMove DEF DrainInv, TypeOK

-----------------------------------------------------------------------------
(* Theorems                                                                *)

LEMMA NextDrainInv == DrainInv /\ [Next]_vars => DrainInv' /\ RowStep
<1> SUFFICES ASSUME DrainInv, [Next]_vars PROVE DrainInv' /\ RowStep
  OBVIOUS
<1>1. ASSUME NEW t \in Tasks, Step(t) \/ Raise(t) \/ Crash(t) PROVE DrainInv' /\ RowStep
  BY <1>1, QuietStep, SweepingStep, ClaimChunkStep, ErrorBatchStep, SuccessBatchStep
     DEF Step, Write
<1> QED BY <1>1, EnqueueStep, EnsureStep, ReapStep, PassStep, AgeStep DEF Next

LEMMA DrainInvariant == Spec => []DrainInv
<1>1. Init => DrainInv
  BY InitDrainInv
<1>2. DrainInv /\ [Next]_vars => DrainInv'
  BY NextDrainInv
<1> QED BY <1>1, <1>2, PTL DEF Spec

(* The variables keep their types.                                         *)
THEOREM DrainTyped == Spec => []TypeOK
<1>1. DrainInv => TypeOK
  BY DEF DrainInv
<1> QED BY <1>1, DrainInvariant, PTL

(* No attempt is closed as a success without a result for its request,     *)
(* although rows are released, claimed again and closed by other tasks     *)
(* (_bulk_complete_successes).                                             *)
THEOREM SuccessesHaveResults == Spec => []SuccessHasResult
<1>1. DrainInv => SuccessHasResult
  BY DEF DrainInv
<1> QED BY <1>1, DrainInvariant, PTL

(* Releasing the claim of a task that lives is the only way to a second    *)
(* result, to a result of an attempt that failed, and to two tasks on one  *)
(* attempt, whatever crashes, overlapping executions and late leases do.   *)
THEOREM UnstolenStayExact == Spec => []UnstolenExact
<1>1. DrainInv => UnstolenExact
  BY DEF DrainInv
<1> QED BY <1>1, DrainInvariant, PTL

(* The drain writes the append-only log of attempts: tasks, sweeps and the *)
(* reaper together never rewrite a verdict nor leave a gap.                *)
THEOREM DrainRefines == Spec => LogSpec
<1> DEFINE bar == [a \in Attempts |->
                     IF att[a].status = "absent" THEN "none"
                     ELSE IF att[a].status \in Open THEN "open"
                     ELSE att[a].status]
<1>1. Init => Log!Init
  <2> SUFFICES ASSUME Init PROVE Log!Init
    OBVIOUS
  <2>1. \A a \in Attempts : att[a].status = "absent"
    BY NewRowType DEF Init, EmptyTable, NoRow, Deadline
  <2> QED BY <2>1 DEF Log!Init, Log!Slots, Attempts
<1>2. DrainInv /\ [Next]_vars => [Log!Advance]_bar
  <2> SUFFICES ASSUME DrainInv, [Next]_vars PROVE Log!Advance
    OBVIOUS
  <2>1. RowStep /\ att \in [Attempts -> Row] /\ att' \in [Attempts -> Row]
    BY NextDrainInv DEF DrainInv, TypeOK, RowStep
  <2>2. ASSUME NEW a \in Attempts
        PROVE  bar'[a] \in {"none", "open"} \cup Log!Verdicts
    BY <2>1 DEF Row, Terminal, Failed, Log!Verdicts
  <2>3. ASSUME NEW a \in Attempts
        PROVE  \/ bar'[a] = bar[a]
               \/ bar[a] = "open" /\ bar'[a] \in Log!Verdicts
               \/ /\ bar[a] = "none" /\ bar'[a] = "open"
                  /\ a[2] > 1 => Exists(att, Prev1(a))
    BY <2>1 DEF RowStep, Open, Terminal, Failed, Log!Verdicts
  <2>4. ASSUME NEW a \in Attempts, Exists(att, a) PROVE bar[a] # "none"
    BY <2>1, <2>4 DEF Exists, Row, Open, Terminal, Failed
  <2>5. ASSUME NEW a \in Attempts
        PROVE  a[2] > 1 /\ Exists(att, Prev1(a)) => bar[<<a[1], a[2] - 1>>] # "none"
    BY <2>4 DEF Exists, Prev1
  <2>6. Log!Slots = Attempts
    BY DEF Log!Slots, Attempts
  <2>7. bar' \in [Attempts -> {"none", "open"} \cup Log!Verdicts]
    BY <2>2
  <2> HIDE DEF bar
  <2>8. \A a \in Attempts : \/ bar'[a] = bar[a]
                            \/ /\ bar[a] = "none" /\ bar'[a] = "open"
                               /\ a[2] > 1 => bar[<<a[1], a[2] - 1>>] # "none"
                            \/ bar[a] = "open" /\ bar'[a] \in Log!Verdicts
    BY <2>3, <2>5
  <2> USE DEF bar
  <2> QED BY <2>6, <2>7, <2>8 DEF Log!Advance, Log!Opens, Log!Closes
<1> QED BY <1>1, <1>2, DrainInvariant, PTL DEF Spec, LogSpec, Log!Spec
=============================================================================
