----------------------------- MODULE InboxItems -----------------------------
(***************************************************************************)
(* What the inbox makes of the rows of the admin API: which lane a row     *)
(* belongs to, how rows are merged, filtered and stacked, and which        *)
(* reviews a set of ticked rows stands for (needs-attention.tsx,           *)
(* lib/inbox-status-lab.ts, lib/inbox-batch-status.ts, lib/api.ts).        *)
(*                                                                         *)
(* A row is a record of the fields the code reads, "" for null: request,   *)
(* vertical, system, kind, reason, stage, match (match_type), count        *)
(* (match_count, NoCount for null), status (response_status, 0 for null),  *)
(* gate, target and assignee (of the assignment), source, day, batch, due, *)
(* channels, and, once the API has joined systems, connections.            *)
(***************************************************************************)
EXTENDS PageLists

NoCount == -1

-----------------------------------------------------------------------------
(* Lanes                                                                   *)

IsTriage(i)     == "triage" \in {i.kind, i.gate, i.stage}
IsEscalation(i) == i.kind = "escalations" \/ i.gate = "escalate"

IsMatching(i) ==
  /\ ~IsTriage(i) /\ ~IsEscalation(i)
  /\ \/ i.kind = "matching" \/ i.reason = "matching.review"
     \/ i.match # "" \/ i.stage = "review"

IsDelivery(i) == \/ i.kind = "delivery" \/ i.stage = "delivery"
                 \/ i.reason \in {"access.delivery", "delivery.confirm"}
IsNotice(i)   == i.kind = "notice" \/ i.reason = "notice.review" \/ i.stage = "notice"
IsComms(i)    == i.reason = "comms" \/ i.stage = "comms"

IsPendingTaskFor(i, email) == email # "" /\ i.assignee = email
IsUnassigned(i)            == i.assignee = ""

IsAssignmentToLegal(i) ==
  IsEscalation(i) /\ (i.target = "legal" \/ i.kind = "escalations")

AtFulfillment(i) == \/ i.stage \in {"fulfillment", "fulfill"}
                    \/ i.reason \in {"fulfillment.kickoff", "fulfillment.owner"}

IsFulfillmentLegal(i) ==
  /\ ~IsTriage(i) /\ ~IsAssignmentToLegal(i) /\ ~IsNotice(i) /\ ~IsDelivery(i)
  /\ \/ i.reason = "matching.review" \/ i.stage \in {"review", "fulfillment"}
     \/ i.kind = "matching"

IsOwnerFulfillment(i) ==
  /\ ~IsTriage(i) /\ ~IsNotice(i) /\ ~IsDelivery(i) /\ ~IsAssignmentToLegal(i)
  /\ AtFulfillment(i)

IsOwnerTask(i, verticals) == i.vertical # "" /\ i.vertical \in verticals

InLane(i, lane, email, verticals, owner) ==
  CASE lane = "all"            -> TRUE
    [] lane = "matching"       -> IsMatching(i)
    [] lane = "triage"         -> IsTriage(i)
    [] lane = "escalations"    -> IsEscalation(i)
    [] lane = "delivery"       -> IsDelivery(i)
    [] lane = "notice"         -> IsNotice(i)
    [] lane = "communications" -> IsComms(i)
    [] lane = "fulfillment"    -> IsOwnerFulfillment(i)
    [] lane = "pending_tasks"  -> IF owner THEN IsOwnerTask(i, verticals)
                                           ELSE IsPendingTaskFor(i, email)

InLegalFilter(i, filter, email) ==
  CASE filter = ""                    -> TRUE
    [] filter = "unassigned"          -> IsUnassigned(i)
    [] filter = "assignment_to_legal" -> IsAssignmentToLegal(i)
    [] filter = "fulfillment"         -> IsFulfillmentLegal(i)
    [] filter = "notice"              -> IsNotice(i)
    [] filter = "delivery"            -> IsDelivery(i)
    [] filter = "pre_matching_holds"  -> IsTriage(i)
    [] filter = "assigned_to_me"      -> IsPendingTaskFor(i, email)

-----------------------------------------------------------------------------
(* Rows                                                                    *)

Scope(i)   == [request |-> i.request, vertical |-> i.vertical, system |-> i.system]
OnRequest(i) == [Scope(i) EXCEPT !.vertical = Unnamed, !.system = Unnamed]

(* inboxReviewItemKey: the system counts only under a vertical.            *)
ItemKey(i) == IF i.connections # <<>> \/ i.vertical = Unnamed THEN OnRequest(i) ELSE Scope(i)

(* What the code reads of a row to tell what it is about.                  *)
ListedFields ==
  {"request", "vertical", "system", "day", "source", "batch", "channels", "connections"}
OneReview(i) == i.connections = <<>> /\ (i.vertical = Unnamed => i.system = Unnamed)

(* expandInboxReviewBySystem: one row per connection, when there are more  *)
(* than one; a field the connection leaves out is the row's.               *)
OnConnection(i, c) ==
  [i EXCEPT !.connections = <<>>, !.system = c.system,
            !.vertical = IF c.vertical = "" THEN @ ELSE c.vertical]

Expand(rows) ==
  FlattenSeq([n \in 1..Len(rows) |->
    IF Len(rows[n].connections) <= 1 THEN <<rows[n]>>
    ELSE [k \in 1..Len(rows[n].connections) |->
            OnConnection(rows[n], rows[n].connections[k])]])

(* coalesceInboxReviewItems: the first row of each key, with the channels  *)
(* of all of them.                                                         *)
FirstOfKey(rows, n) == \A m \in 1..(n - 1) : ItemKey(rows[m]) # ItemKey(rows[n])

Coalesce(rows) ==
  LET same(n)   == {m \in 1..Len(rows) : ItemKey(rows[m]) = ItemKey(rows[n])}
      merged(n) == [rows[n] EXCEPT !.channels = UNION {rows[m].channels : m \in same(n)}]
      firsts    == Keep([n \in 1..Len(rows) |-> n], {n \in 1..Len(rows) : FirstOfKey(rows, n)})
  IN [k \in 1..Len(firsts) |-> merged(firsts[k])]

(* An owner sees the matching rows of the verticals that are theirs.       *)
OwnerVisible(rows, verticals) ==
  Keep(rows, {i \in ToSet(rows) : IsMatching(i) => IsOwnerTask(i, verticals)})

(* mergeOwnerFulfillmentItems: requests in fulfilment and approved         *)
(* kickoffs, one row per request; a request's own fields win.              *)
MergeFulfillment(requests, kickoffs) ==
  LET fresh == Keep(requests, {r \in ToSet(requests) :
                                 \A k \in ToSet(kickoffs) : k.request # r.request})
      own(k) == {r \in ToSet(requests) : r.request = k.request}
  IN [n \in 1..Len(kickoffs) |-> IF own(kickoffs[n]) = {} THEN kickoffs[n]
                                 ELSE CHOOSE r \in own(kickoffs[n]) : TRUE] \o fresh

(* getLegalNeedsAttention: four calls, one per lane, each cut off at the   *)
(* window, put together by age.                                            *)
LegalLanes == <<"triage", "escalations", "notice", "delivery">>
LegalMerge(rows, window) ==
  LET lane(k) == Leading(window, Keep(rows, {i \in ToSet(rows) : i.kind = k}))
  IN ByAge(FlattenSeq([n \in 1..4 |-> lane(LegalLanes[n])]))

-----------------------------------------------------------------------------
(* Ticked rows                                                             *)

(* The reviews ticked rows stand for: one per connection.                  *)
Targets(i) ==
  IF i.connections = <<>> THEN {Scope(i)}
  ELSE {Scope(OnConnection(i, c)) : c \in ToSet(i.connections)}

SelectedTargets(rows, keys) ==
  UNION {Targets(i) : i \in {r \in ToSet(rows) : ItemKey(r) \in keys}}

-----------------------------------------------------------------------------
(* Stacks                                                                  *)

(* inboxBatchStatusKey: the confirmed status of a DROP row, else its match *)
(* result, else the lane.                                                  *)
WorkTypeKey(i) ==
  CASE IsNotice(i)                            -> "notice"
    [] IsDelivery(i)                          -> "delivery"
    [] IsTriage(i)                            -> "triage"
    [] IsEscalation(i) \/ i.target = "legal"  -> "assignment_to_legal"
    [] IsComms(i)                             -> "communications"
    [] AtFulfillment(i)                       -> "fulfillment"
    [] OTHER                                  -> "other"

BatchStatusKey(i) ==
  CASE i.source = "drop" /\ i.status = 3 -> "drop_3"
    [] i.source = "drop" /\ i.status = 4 -> "drop_4"
    [] i.source = "drop" /\ i.status = 5 -> "drop_5"
    [] OTHER ->
       IF i.match \in {"single_match", "multi_match", "not_found"} THEN i.match
       ELSE IF \/ i.match # "" \/ i.reason = "matching.review"
               \/ i.kind = "matching" \/ i.stage = "review"
         THEN "unknown" ELSE WorkTypeKey(i)

StatusOrder ==
  {"needs_connection", "needs_refresh", "single_match", "drop_3", "multi_match", "drop_4",
   "not_found", "drop_5", "unknown", "fulfillment", "triage", "assignment_to_legal",
   "notice", "delivery", "communications", "other"}

(* inboxItemConnectorBlock: a reminder about the row's system, or about    *)
(* its vertical when it has none; then the matching gate.                  *)
About(r, i) == \/ i.system # "" /\ r.system = i.system
               \/ i.system = "" /\ i.vertical # "" /\ r.vertical = i.vertical

RefreshCodes == {"upload_stale", "upload_approaching", "rotation_overdue",
                 "rotation_approaching"}

Connectable(i) == i.system \notin {"", "drop_hash"}

ConnectorBlock(i, reminders, gate) ==
  LET codes == {r.code : r \in {x \in reminders : About(x, i)}}
  IN IF ~Connectable(i) THEN ""
     ELSE IF codes \cap RefreshCodes # {} THEN "needs_refresh"
     ELSE IF "wizard_incomplete" \in codes THEN "needs_connection"
     ELSE IF gate.blocked /\ (gate.system = "" \/ gate.system = i.system)
       THEN IF gate.code = "wizard_incomplete" THEN "needs_connection" ELSE "needs_refresh"
     ELSE ""

WorkStatusKey(i, reminders, gate) ==
  LET block == ConnectorBlock(i, reminders, gate)
  IN IF block = "" THEN BatchStatusKey(i) ELSE block

(* The key of a row's stack under the switches that are on; <<>> puts the  *)
(* row on a line of its own.                                               *)
StackKey(i, byBatch, bySystem, byStatus, reminders, gate) ==
  (IF byBatch THEN <<i.day, IF i.source = Unnamed THEN "unknown" ELSE i.source>> ELSE <<>>)
  \o (IF bySystem THEN <<IF i.system = "" THEN "unassigned" ELSE i.system>> ELSE <<>>)
  \o (IF byStatus THEN <<WorkStatusKey(i, reminders, gate)>> ELSE <<>>)

(* The badge of the nav: batches and statuses with something to do.        *)
StandaloneKey(i) ==
  <<"s", i.request, IF i.vertical = "test" /\ i.system # "" THEN i.system
                    ELSE IF i.vertical # "" THEN i.vertical ELSE i.system>>

PendingBatchKey(i) ==
  IF i.batch # Unnamed THEN <<"p", i.batch>>
  ELSE IF i.day # 0 /\ i.source # Unnamed THEN <<"d", i.day, i.source>> ELSE StandaloneKey(i)

WorkUnits(rows, reminders, gate) ==
  {<<PendingBatchKey(i), WorkStatusKey(i, reminders, gate)>> : i \in ToSet(Coalesce(rows))}

=============================================================================
