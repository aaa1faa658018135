---------------------------- MODULE VerticalGates ---------------------------
(***************************************************************************)
(* The gates of one request's Data vertical, as admin_api keeps them: the  *)
(* disposition (with its mirror, the DROP response_status), the            *)
(* fulfillment.kickoff gates that lock it, reopen, close, and the          *)
(* notice.review gate.  No handler runs in a transaction: each action is   *)
(* one SQL statement (or one read), and concurrent calls interleave.       *)
(*                                                                         *)
(* A disposition is a status with its selected dwids.  matching.review     *)
(* is kept only as what is_matching_review_approved answers.               *)
(***************************************************************************)
EXTENDS AttemptTable, FiniteSets

CONSTANTS Admins,       \* concurrent admin_api calls
          Dispositions, \* a status with its selected dwids
          Artifact,     \* those whose status needs a suppression file (3, 4)
          OptedOut,     \* those with status 4, which a rematch reopens
          None,         \* no disposition, no response_status
          MaxGates      \* bound on the kickoff gates of a request

ASSUME GatesAssumption ==
  /\ OptedOut \subseteq Artifact /\ Artifact \subseteq Dispositions
  /\ None \notin Dispositions
  /\ MaxGates \in Nat

VARIABLES att,      \* data_fulfillment_attempts, step suppression
          decision, \* request_vertical_dispositions
          response, \* drop_raw_requests.response_status
          covered,  \* an approved matching.review covers the latest result
          closed,   \* request_closures
          gates,    \* fulfillment.kickoff: ids given out, pending, any approved
          era,      \* decided_at of the newest approval: how many there were
          notice,   \* notice.review gate
          admin,    \* the calls in progress
          granted   \* history: the dispositions that have been kicked off

gateVars ==
  <<att, decision, response, covered, closed, gates, era, notice, admin, granted>>

Free    == [pc |-> "idle", r |-> None, choice |-> None, gate |-> 0]
NoGates == [opened |-> 0, pending |-> {}, approved |-> FALSE]
AdminAt == {"idle", "lock", "write", "mirror", "check", "ensure", "open", "pick",
            "decide", "abandon", "notices", "clear"}

GatesInit ==
  /\ att = EmptyTable
  /\ decision = [r \in Requests |-> None]
  /\ response = [r \in Requests |-> None]
  /\ covered = [r \in Requests |-> FALSE]
  /\ closed = [r \in Requests |-> FALSE]
  /\ gates = [r \in Requests |-> NoGates]
  /\ era = [r \in Requests |-> 0]
  /\ notice = [r \in Requests |-> "none"]
  /\ admin = [p \in Admins |-> Free]
  /\ granted = {}

At(p, pc) == admin[p].pc = pc
Then(p, pc) == admin' = [admin EXCEPT ![p].pc = pc]
Return(p) == admin' = [admin EXCEPT ![p] = Free]
Call(p, pc, r, c) ==
  /\ At(p, "idle")
  /\ admin' = [admin EXCEPT ![p] = [Free EXCEPT !.pc = pc, !.r = r, !.choice = c]]

-----------------------------------------------------------------------------
(* upsert_vertical_disposition, by the dispositions and promote endpoints  *)
(* and as the first half of a kickoff that carries a status.               *)

Edit(p, r, c) ==
  /\ Call(p, IF decision[r] \in {None, c} THEN "write" ELSE "lock", r, c)
  /\ UNCHANGED <<att, decision, response, covered, closed, gates, era, notice, granted>>

EditLock(p) ==
  /\ At(p, "lock")
  /\ IF gates[admin[p].r].approved THEN Return(p) ELSE Then(p, "write")
  /\ UNCHANGED <<att, decision, response, covered, closed, gates, era, notice, granted>>

EditWrite(p) ==
  /\ At(p, "write")
  /\ decision' = [decision EXCEPT ![admin[p].r] = admin[p].choice]
  /\ granted' = IF gates[admin[p].r].approved
                  THEN granted \cup {<<admin[p].r, admin[p].choice>>} ELSE granted
  /\ Then(p, "mirror")
  /\ UNCHANGED <<att, response, covered, closed, gates, era, notice>>

(* _sync_drop_response_status; a promote that leaves the review open skips *)
(* it (sync_drop_response_status=False).                                   *)
EditMirror(p) ==
  /\ At(p, "mirror")
  /\ \E sync \in BOOLEAN :
       response' = IF sync THEN [response EXCEPT ![admin[p].r] = admin[p].choice]
                           ELSE response
  /\ Return(p)
  /\ UNCHANGED <<att, decision, covered, closed, gates, era, notice, granted>>

-----------------------------------------------------------------------------
(* kickoff_vertical_fulfillment                                            *)

AnyRequest(r) == TRUE                             \* mutant: nothing to start from
Recorded(r)   == decision[r] # None

Kick(p, r) ==
  /\ Recorded(r)
  /\ Call(p, "check", r, None)
  /\ UNCHANGED <<att, decision, response, covered, closed, gates, era, notice, granted>>

KickCheck(p) ==
  /\ At(p, "check")
  /\ IF gates[admin[p].r].approved THEN Return(p) ELSE Then(p, "ensure")
  /\ UNCHANGED <<att, decision, response, covered, closed, gates, era, notice, granted>>

(* ensure_pending_fulfillment_kickoff asks again, now for a pending gate   *)
(* too; a gate approved meanwhile leads to the lookup that finds nothing.  *)
KickEnsure(p) ==
  /\ At(p, "ensure")
  /\ LET g == gates[admin[p].r] IN
     Then(p, IF g.approved \/ g.pending # {} THEN "pick" ELSE "open")
  /\ UNCHANGED <<att, decision, response, covered, closed, gates, era, notice, granted>>

KickOpen(p) ==
  /\ At(p, "open")
  /\ gates[admin[p].r].opened < MaxGates
  /\ LET r == admin[p].r IN
     gates' = [gates EXCEPT ![r].opened = @ + 1,
                            ![r].pending = @ \cup {gates[r].opened + 1}]
  /\ Then(p, "pick")
  /\ UNCHANGED <<att, decision, response, covered, closed, era, notice, granted>>

(* pending_vertical_kickoff_id: the newest; none is a LookupError.         *)
KickPick(p) ==
  /\ At(p, "pick")
  /\ LET pending == gates[admin[p].r].pending IN
     \/ pending = {} /\ Return(p)
     \/ \E g \in pending :
          /\ \A h \in pending : h <= g
          /\ admin' = [admin EXCEPT ![p].pc = "decide", ![p].gate = g]
  /\ UNCHANGED <<att, decision, response, covered, closed, gates, era, notice, granted>>

ApproveAny(r, g) ==                               \* mutant: no status filter
  /\ gates' = [gates EXCEPT ![r].pending = @ \ {g}, ![r].approved = TRUE]
  /\ era' = [era EXCEPT ![r] = @ + 1]
  /\ granted' = granted \cup {<<r, decision[r]>>}

(* decide_approval: UPDATE ... WHERE id = gate AND status = 'pending'.     *)
ApproveGate(r, g) ==
  IF g \in gates[r].pending
    THEN /\ gates' = [gates EXCEPT ![r].pending = @ \ {g}, ![r].approved = TRUE]
         /\ era' = [era EXCEPT ![r] = @ + 1]
         /\ granted' = granted \cup {<<r, decision[r]>>}
    ELSE UNCHANGED <<gates, era, granted>>           \* LookupError

KickDecide(p) ==
  /\ At(p, "decide")
  /\ ApproveGate(admin[p].r, admin[p].gate)
  /\ Return(p)
  /\ UNCHANGED <<att, decision, response, covered, closed, notice>>

(* POST /approvals/{id}/approve and /reject take any pending gate.         *)
DecideKickoff(r, g) ==
  /\ g \in gates[r].pending
  /\ \/ ApproveGate(r, g)
     \/ gates' = [gates EXCEPT ![r].pending = @ \ {g}] /\ UNCHANGED <<era, granted>>
  /\ UNCHANGED <<att, decision, response, covered, closed, notice, admin>>

-----------------------------------------------------------------------------
(* reopen_vertical_fulfillment: supersede the kickoffs, abandon the open   *)
(* attempts, drop the pending notice gate.                                 *)

Reopen(p, r) ==
  /\ Call(p, "abandon", r, None)
  /\ gates' = [gates EXCEPT ![r].pending = {}, ![r].approved = FALSE]
  /\ UNCHANGED <<att, decision, response, covered, closed, era, notice, granted>>

RowsOf(r)     == {a \in Attempts : a[1] = r /\ Exists(att, a)}  \* mutant
Superseded(r) == {a \in Attempts : a[1] = r /\ att[a].status \in Open}

ReopenAbandon(p) ==
  /\ At(p, "abandon")
  /\ att' = [a \in Attempts |->
               IF a \in Superseded(admin[p].r)
                 THEN NewRow("abandoned", att[a].retry) ELSE att[a]]
  /\ Then(p, "notices")
  /\ UNCHANGED <<decision, response, covered, closed, gates, era, notice, granted>>

DropPending(n) == IF n = "pending" THEN "none" ELSE n

ReopenNotices(p) ==
  /\ At(p, "notices")
  /\ notice' = [notice EXCEPT ![admin[p].r] = DropPending(@)]
  /\ Return(p)
  /\ UNCHANGED <<att, decision, response, covered, closed, gates, era, granted>>

(* close_request: the closure, then every pending gate of the request.     *)
Close(p, r) ==
  /\ ~closed[r]
  /\ Call(p, "clear", r, None)
  /\ closed' = [closed EXCEPT ![r] = TRUE]
  /\ UNCHANGED <<att, decision, response, covered, gates, era, notice, granted>>

CloseClear(p) ==
  /\ At(p, "clear")
  /\ gates' = [gates EXCEPT ![admin[p].r].pending = {}]
  /\ notice' = [notice EXCEPT ![admin[p].r] = DropPending(@)]
  /\ Return(p)
  /\ UNCHANGED <<att, decision, response, covered, closed, era, granted>>

(* A call dies between two of its statements.                              *)
Die(p) ==
  /\ ~At(p, "idle") /\ Return(p)
  /\ UNCHANGED <<att, decision, response, covered, closed, gates, era, notice, granted>>

-----------------------------------------------------------------------------
(* The matching side and the notice reviewers, one statement each.         *)

ApproveReview(r) ==
  /\ covered' = [covered EXCEPT ![r] = TRUE]
  /\ UNCHANGED <<att, decision, response, closed, gates, era, notice, admin, granted>>

NewResult(r) ==
  /\ covered' = [covered EXCEPT ![r] = FALSE]
  /\ UNCHANGED <<att, decision, response, closed, gates, era, notice, admin, granted>>

(* enqueue_rematch_for_refresh reopens a request that was opted out.       *)
Rematch(r) ==
  /\ response[r] \in OptedOut
  /\ response' = [response EXCEPT ![r] = None]
  /\ UNCHANGED <<att, decision, covered, closed, gates, era, notice, admin, granted>>

WithNotice(n) == IF n = "none" THEN "pending" ELSE n

OpenNotice(r) ==
  /\ notice' = [notice EXCEPT ![r] = WithNotice(@)]
  /\ UNCHANGED <<att, decision, response, covered, closed, gates, era, admin, granted>>

ApproveNotice(r) ==
  /\ notice[r] = "pending"
  /\ notice' = [notice EXCEPT ![r] = "approved"]
  /\ UNCHANGED <<att, decision, response, covered, closed, gates, era, admin, granted>>

-----------------------------------------------------------------------------
Continue(p) ==
  \/ EditLock(p) \/ EditWrite(p) \/ EditMirror(p)
  \/ KickCheck(p) \/ KickEnsure(p) \/ KickOpen(p) \/ KickPick(p) \/ KickDecide(p)
  \/ ReopenAbandon(p) \/ ReopenNotices(p) \/ CloseClear(p)

Begins(p, r) ==
  \/ \E c \in Dispositions : Edit(p, r, c)
  \/ Kick(p, r) \/ Reopen(p, r) \/ Close(p, r)

GatesStep ==
  \/ \E p \in Admins : Continue(p) \/ Die(p) \/ \E r \in Requests : Begins(p, r)
  \/ \E r \in Requests :
       \/ \E g \in 1..MaxGates : DecideKickoff(r, g)
       \/ ApproveReview(r) \/ NewResult(r) \/ Rematch(r) \/ ApproveNotice(r)

(* On its own, the module needs the dispatcher's ensure_pending_notice_review. *)
GatesNext == GatesStep \/ \E r \in Requests : OpenNotice(r)

GatesSpec == GatesInit /\ [][GatesNext]_gateVars

-----------------------------------------------------------------------------
(* Properties                                                              *)

GatesTypeOK ==
  /\ decision \in [Requests -> Dispositions \cup {None}]
  /\ response \in [Requests -> Dispositions \cup {None}]
  /\ covered \in [Requests -> BOOLEAN] /\ closed \in [Requests -> BOOLEAN]
  /\ gates \in [Requests -> [opened : 0..MaxGates, pending : SUBSET (1..MaxGates),
                             approved : BOOLEAN]]
  /\ era \in [Requests -> 0..MaxGates]
  /\ notice \in [Requests -> {"none", "pending", "approved"}]
  /\ admin \in [Admins -> [pc : AdminAt, r : Requests \cup {None},
                           choice : Dispositions \cup {None}, gate : 0..MaxGates]]
  /\ granted \subseteq Requests \X Dispositions

(* A request that was ever kicked off has a disposition: whatever calls    *)
(* overlap or die, no kickoff gate exists before the first disposition, so *)
(* the dispatcher never meets an approved kickoff with nothing to do.      *)
KickoffHasDisposition ==
  \A r \in Requests : gates[r].opened > 0 => decision[r] # None

(* Every approval spends a gate of its own: the newest kickoff time moves  *)
(* at most once per opened gate, and a superseded gate is never approved.  *)
ApprovalSpendsGate ==
  \A r \in Requests : era[r] + Cardinality(gates[r].pending) <= gates[r].opened
=============================================================================
