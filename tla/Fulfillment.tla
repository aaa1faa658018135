----------------------------- MODULE Fulfillment ----------------------------
(***************************************************************************)
(* Fulfilment of the Data vertical, composed with its gates: POST /fulfill *)
(* turns a kicked-off disposition into a line of the suppression file, a   *)
(* response status and a notice gate, while the admin calls of             *)
(* VerticalGates and the reaper change what it reads.  The dispatcher runs *)
(* no transaction: every action is one SQL statement or one call to the    *)
(* object store, and concurrent calls interleave between them.             *)
(*                                                                         *)
(* One step of the table (suppression) and one bulk process are modelled.  *)
(***************************************************************************)
EXTENDS VerticalGates

CONSTANT Dispatchers \* concurrent POST /fulfill calls

VARIABLES done,    \* of a success: completed_at, as the number of kickoffs before
                   \* it, and the disposition in its audit_payload
          file,    \* dwids.txt: the dispositions written, by request
          work     \* the dispatchers

vars == <<gateVars, done, file, work>>

NoAttempt == <<None, 0>>
WorkAt == {"idle", "next", "claim", "review", "gate", "block", "number", "insert",
           "claim_id", "begin", "work", "write", "error", "sync", "success", "notice"}

Undone == [era |-> 0, choice |-> None]

Idle == [pc |-> "idle", mode |-> "direct", todo |-> {}, r |-> None, a |-> NoAttempt,
         choice |-> None, since |-> 0, seen |-> {}]

Init ==
  /\ GatesInit
  /\ done = [a \in Attempts |-> Undone]
  /\ file = {}
  /\ work = [d \in Dispatchers |-> Idle]

(* What a dispatcher's step leaves alone.                                  *)
legal == <<decision, covered, closed, gates, era, admin, granted>>
rows  == <<att, done>>

-----------------------------------------------------------------------------
(* What the dispatcher's queries ask                                       *)

Of(r) == {a \in Attempts : a[1] = r}
Opens(r) == {a \in Of(r) : att[a].status \in Open}
Successes(r, since) == {a \in Of(r) : att[a].status = "success" /\ done[a].era >= since}

Blocking(r, since) == Opens(r) \cup Successes(r, since) # {}

NotKickedOff(r) == decision[r] # None             \* mutant: disposition is enough
KickedOff(r)    == decision[r] # None /\ gates[r].approved

Ready(r) == /\ ~closed[r] /\ covered[r] /\ KickedOff(r)
            /\ ~Blocking(r, era[r])

Go(d, pc) == work' = [work EXCEPT ![d].pc = pc]

(* The item is finished or skipped: on with the call.                      *)
Rest == [enqueue |-> "next", run |-> "claim", direct |-> "idle"]
Finish(d) ==
  work' = [work EXCEPT ![d] =
             [Idle EXCEPT !.pc = Rest[work[d].mode], !.mode = work[d].mode,
                          !.todo = work[d].todo]]

-----------------------------------------------------------------------------
(* POST /fulfill: run_fulfill.  A batch first enqueues for every ready     *)
(* request (mode enqueue), then works through the queue (mode run); a call *)
(* for one request does both for it (mode direct).                         *)

FindReady(d) ==
  /\ work[d].pc = "idle"
  /\ work' = [work EXCEPT ![d] = [Idle EXCEPT !.pc = "next", !.mode = "enqueue",
                                              !.todo = {r \in Requests : Ready(r)}]]
  /\ UNCHANGED <<rows, legal, response, notice, file>>

FulfillOne(d, r) ==
  /\ work[d].pc = "idle"
  /\ work' = [work EXCEPT ![d].pc = "review", ![d].r = r]
  /\ UNCHANGED <<rows, legal, response, notice, file>>

NextReady(d) ==
  /\ work[d].pc = "next"
  /\ \/ work[d].todo = {} /\ work' = [work EXCEPT ![d].pc = "claim", ![d].mode = "run"]
     \/ \E r \in work[d].todo :
          work' = [work EXCEPT ![d].pc = "review", ![d].r = r, ![d].todo = @ \ {r}]
  /\ UNCHANGED <<rows, legal, response, notice, file>>

Claim(d) ==
  /\ work[d].pc = "claim"
  /\ LET due == {a \in Attempts : Claimable(att[a])} IN
     \/ due = {} /\ work' = [work EXCEPT ![d] = Idle] /\ UNCHANGED att
     \/ \E a \in due :
          /\ \E w \in Workers : att' = [att EXCEPT ![a] = ClaimedBy(@, w)]
          /\ work' = [work EXCEPT ![d].pc = "review", ![d].r = a[1], ![d].a = a]
  /\ UNCHANGED <<done, legal, response, notice, file>>

(* is_matching_review_approved.  A skipped attempt stays claimed.          *)
Review(d) ==
  /\ work[d].pc = "review"
  /\ IF covered[work[d].r] THEN Go(d, "gate") ELSE Finish(d)
  /\ UNCHANGED <<rows, legal, response, notice, file>>

(* _load_vertical_gate: one query for disposition and kickoff.             *)
Gate(d) ==
  /\ work[d].pc = "gate"
  /\ LET r == work[d].r IN
     IF KickedOff(r)
       THEN work' = [work EXCEPT ![d].choice = decision[r], ![d].since = era[r],
                       ![d].pc = IF work[d].mode = "run" THEN "begin" ELSE "block"]
       ELSE Finish(d)
  /\ UNCHANGED <<rows, legal, response, notice, file>>

Block(d) ==
  /\ work[d].pc = "block"
  /\ IF Blocking(work[d].r, work[d].since) THEN Finish(d) ELSE Go(d, "number")
  /\ UNCHANGED <<rows, legal, response, notice, file>>

Number(d) ==
  /\ work[d].pc = "number"
  /\ \E a \in Of(work[d].r) :                       \* AttemptCap
       /\ IsNext(att, a)
       /\ work' = [work EXCEPT ![d].pc = "insert", ![d].a = a]
  /\ UNCHANGED <<rows, legal, response, notice, file>>

(* UNIQUE (request_id, step, attempt_number): a taken number is an error   *)
(* that ends the whole call.                                               *)
Taken(a)      == Exists(att, a)

Insert(d) ==
  /\ work[d].pc = "insert"
  /\ IF Taken(work[d].a)
       THEN work' = [work EXCEPT ![d] = Idle] /\ UNCHANGED att
       ELSE /\ att' = [att EXCEPT ![work[d].a] = NewRow("pending", "unset")]
            /\ IF work[d].mode = "direct" THEN Go(d, "claim_id") ELSE Finish(d)
  /\ UNCHANGED <<done, legal, response, notice, file>>

ClaimById(d) ==
  /\ work[d].pc = "claim_id"
  /\ IF Claimable(att[work[d].a])
       THEN /\ \E w \in Workers : att' = [att EXCEPT ![work[d].a] = ClaimedBy(@, w)]
            /\ Go(d, "begin")
       ELSE Finish(d) /\ UNCHANGED att
  /\ UNCHANGED <<done, legal, response, notice, file>>

(* mark_attempt_in_flight: goes on if the row is no longer claimed.        *)
Begin(d) ==
  /\ work[d].pc = "begin"
  /\ att' = [att EXCEPT ![work[d].a] = IF @.status = "claimed" THEN InFlight(@) ELSE @]
  /\ Go(d, "work")
  /\ UNCHANGED <<done, legal, response, notice, file>>

(* write_suppression_dwids: read_object, merge_dwids, write_object.  No    *)
(* bucket, no dwids or a failing call end in mark_attempt_error; a write   *)
(* may fail after it took effect.                                          *)
ReadFile(d) ==
  /\ work[d].pc = "work"
  /\ IF work[d].choice \in Artifact
       THEN \/ work' = [work EXCEPT ![d].pc = "write", ![d].seen = file]
            \/ Go(d, "error")
       ELSE Go(d, "sync")
  /\ UNCHANGED <<rows, legal, response, notice, file>>

Unmerged(d) == {<<work[d].r, work[d].choice>>}    \* mutant: no merge
Merged(d)   == work[d].seen \cup {<<work[d].r, work[d].choice>>}

WriteFile(d) ==
  /\ work[d].pc = "write"
  /\ \/ file' = Merged(d) /\ work' = [work EXCEPT ![d].pc = "sync", ![d].seen = {}]
     \/ /\ file' \in {file, Merged(d)}
        /\ work' = [work EXCEPT ![d].pc = "error", ![d].seen = {}]
  /\ UNCHANGED <<rows, legal, response, notice>>

(* The WHERE of both UPDATEs leaves rows alone that are closed by now.     *)
MarkError(d) ==
  /\ work[d].pc = "error"
  /\ att' = [att EXCEPT ![work[d].a] =
               IF @.status \in Open THEN NewRow("outcome_error", @.retry) ELSE @]
  /\ Finish(d)
  /\ UNCHANGED <<done, legal, response, notice, file>>

SyncStatus(d) ==
  /\ work[d].pc = "sync"
  /\ response' = [response EXCEPT ![work[d].r] = work[d].choice]
  /\ Go(d, "success")
  /\ UNCHANGED <<rows, legal, notice, file>>

MarkSuccess(d) ==
  /\ work[d].pc = "success"
  /\ LET a == work[d].a IN
     IF att[a].status \in Open
       THEN /\ att' = [att EXCEPT ![a] = NewRow("success", @.retry)]
            /\ done' = [done EXCEPT ![a] = [era |-> era[a[1]], choice |-> work[d].choice]]
       ELSE UNCHANGED rows
  /\ Go(d, "notice")
  /\ UNCHANGED <<legal, response, notice, file>>

(* ensure_pending_notice_review, whether or not the row was still open.    *)
EnsureNotice(d) ==
  /\ work[d].pc = "notice"
  /\ notice' = [notice EXCEPT ![work[d].r] = WithNotice(@)]
  /\ Finish(d)
  /\ UNCHANGED <<rows, legal, response, file>>

(* The instance dies, or a statement raises.                               *)
Crash(d) ==
  /\ work[d] # Idle /\ work' = [work EXCEPT ![d] = Idle]
  /\ UNCHANGED <<rows, legal, response, notice, file>>

-----------------------------------------------------------------------------
(* The reaper's sweep of this table, and time                              *)

Reap ==
  /\ ~SweepRaises(att)
  /\ att' = Swept(att)
  /\ UNCHANGED <<done, legal, response, notice, file, work>>

Pass(a) ==
  /\ \/ /\ att[a].status = "claimed" /\ att[a].lease = "ahead"
        /\ att' = [att EXCEPT ![a].lease = "past"]
     \/ /\ att[a].status = "in_flight" /\ att[a].wait = "ahead"
        /\ att' = [att EXCEPT ![a].wait = "past"]
     \/ /\ att[a].status \in {"pending"} \cup Failed /\ att[a].retry = "ahead"
        /\ att' = [att EXCEPT ![a].retry = "past"]
  /\ UNCHANGED <<done, legal, response, notice, file, work>>

-----------------------------------------------------------------------------
Dispatch(d) ==
  \/ NextReady(d) \/ Claim(d) \/ Review(d) \/ Gate(d) \/ Block(d) \/ Number(d)
  \/ Insert(d) \/ ClaimById(d) \/ Begin(d) \/ ReadFile(d) \/ WriteFile(d)
  \/ MarkError(d) \/ SyncStatus(d) \/ MarkSuccess(d) \/ EnsureNotice(d)

Post(d) == FindReady(d) \/ \E r \in Requests : FulfillOne(d, r)

Next ==
  \/ \E d \in Dispatchers : Post(d) \/ Dispatch(d) \/ Crash(d)
  \/ Reap
  \/ \E a \in Attempts : Pass(a)
  \/ GatesStep /\ UNCHANGED <<done, file, work>>

Spec == Init /\ [][Next]_vars

(* The scheduler posts /fulfill and /reap for ever, whatever else is       *)
(* posted; a call that is running runs on; clocks advance.                 *)
Fairness ==
  /\ \A d \in Dispatchers : SF_vars(FindReady(d)) /\ WF_vars(Dispatch(d))
  /\ WF_vars(Reap)
  /\ \A a \in Attempts : WF_vars(Pass(a))

(* Calls do not die for ever (a step that only returns looks like a death).*)
FaultsStop == <>[][\A d \in Dispatchers : Crash(d) => Dispatch(d)]_vars

FairSpec == Spec /\ Fairness

-----------------------------------------------------------------------------
(* Properties                                                              *)

TypeOK ==
  /\ GatesTypeOK
  /\ att \in [Attempts -> Row]
  /\ done \in [Attempts -> [era : 0..MaxGates, choice : Dispositions \cup {None}]]
  /\ file \subseteq Requests \X Dispositions
  /\ work \in [Dispatchers ->
       [pc : WorkAt, mode : {"direct", "enqueue", "run"}, todo : SUBSET Requests,
        r : Requests \cup {None}, a : Attempts \cup {NoAttempt},
        choice : Dispositions \cup {None}, since : 0..MaxGates,
        seen : SUBSET (Requests \X Dispositions)]]

(* Only what Legal kicked off reaches the suppression file, however edits, *)
(* reopens and dispatchers overlap.                                        *)
OnlyGranted == file \subseteq granted

(* The fulfilment table is the same append-only log as the matching one,   *)
(* although three programs update it without transactions.                 *)
Log == INSTANCE AttemptLog WITH
  log <- [a \in Attempts |->
            IF att[a].status = "absent" THEN "none"
            ELSE IF att[a].status \in Open THEN "open" ELSE att[a].status]
LogSpec == Log!Spec

(* "Prior successful suppressions for the same bulk run are preserved."    *)
SuppressionsKept == [][file \subseteq file']_vars

(* "A success from a superseded kickoff no longer blocks the rework": what *)
(* counts as fulfilled under a kickoff was done for the disposition that   *)
(* stands.                                                                 *)
FulfilledAsDecided ==
  \A a \in Attempts :
    LET r == a[1] IN
    KickedOff(r) /\ a \in Successes(r, era[r]) => done[a].choice = decision[r]

(* Once faults stop, work that stays ready is done: a request that is      *)
(* kicked off, reviewed and open gets a success under that kickoff, past   *)
(* failed writes, skipped claims and dead calls, unless a gate falls again *)
(* or the attempts of the model run out.                                   *)
Cleared(r) == ~closed[r] /\ covered[r] /\ KickedOff(r)

ReadyIsFulfilled ==
  FaultsStop =>
    \A r \in Requests :
      Cleared(r) ~> \/ Successes(r, era[r]) # {} \/ ~Cleared(r)
                   \/ Exists(att, <<r, AttemptCap>>)
=============================================================================
