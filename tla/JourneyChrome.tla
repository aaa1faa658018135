---------------------------- MODULE JourneyChrome ----------------------------
(***************************************************************************)
(* The four-stage rail (ingest, matching, fulfillment, notice) above a     *)
(* request or a stack of requests: how the fine stages of the operations   *)
(* journey roll up into it (legalJourneyLabels.ts), and which connector    *)
(* gate the page calls out beside it (connection-display.ts).  Both are    *)
(* computed anew from every poll.                                          *)
(***************************************************************************)
EXTENDS PageLists

CONSTANTS
  Members,       \* items a stack may hold
  MaxMembers,    \* bound on the stack
  Journeys,      \* journeys of the operations API
  Attempts,      \* matching attempts: [blocked, vertical, code]
  Overdue,       \* reminders: [code, overdue, system, vertical]
  Mine,          \* verticals assigned to the viewer
  MaxAttempts1   \* bound on the attempts of a request

WORKBENCH_STAGE_ORDER == <<"ingest", "matching", "fulfillment", "notice">>
OPS_SUBSTEP_SEQUENCE  == <<"received", "triage", "download", "land", "promote", "match",
                           "review", "fulfill", "notice", "delivery">>
Statuses == {"complete", "skipped", "not_started", "waiting", "in_progress", "failed"}

(* A request is at a stage of its own kind (only the DROP is downloaded,   *)
(* its requests are not for access), and the calls name no parent stage    *)
(* but fulfillment; a reminder has a code.                                 *)
ASSUME ChromeAssumption ==
  /\ \A m \in Members :
       /\ m.drop \in BOOLEAN /\ m.access \in BOOLEAN /\ m.systems \in Seq(Range(m.systems))
       /\ m.stage # "matching"
       /\ IF m.drop THEN m.stage # "delivery" ELSE m.stage \notin {"download", "land", "promote"}
  /\ \A j \in Journeys : \A key \in DOMAIN j.status : j.status[key] \in Statuses
  /\ Journeys # {} /\ \A reminder \in Overdue : reminder.code # Unnamed

ChromeLooks == {"stack", "journey", "callout"}

VARIABLES
  look,          \* which of the three a behaviour is about
  members,       \* the stack on screen
  ops,           \* the journey on screen
  attempts, reminded

chromeVars == <<look, members, ops, attempts, reminded>>

-----------------------------------------------------------------------------
(* Stages and statuses                                                     *)

Place(s, e) == IF \E k \in DOMAIN s : s[k] = e THEN CHOOSE k \in DOMAIN s : s[k] = e ELSE 0

(* OPS_TO_WORKBENCH, ingest for a key it does not have.                    *)
Parent(stage) ==
  CASE stage \in {"match", "review"}          -> "matching"
    [] stage \in {"fulfill", "fulfillment"}   -> "fulfillment"
    [] stage \in {"notice", "delivery"}       -> "notice"
    [] OTHER                                  -> "ingest"

ParentPlace(stage) == Place(WORKBENCH_STAGE_ORDER, Parent(stage))

Rank(st) == CASE st = "failed" -> 5 [] st = "in_progress" -> 4 [] st = "waiting" -> 3
              [] st = "not_started" -> 2 [] st = "skipped" -> 1 [] OTHER -> 0

(* The worst status of a group.                                            *)
Rollup(S) == IF S = {} THEN "not_started"
             ELSE CHOOSE st \in S : \A other \in S : Rank(other) <= Rank(st)

(* The fine stages a request goes through, by its parent stage.            *)
Substeps(m) ==
  [ingest      |-> IF m.drop THEN {"received", "download", "land", "promote"}
                   ELSE {"received", "triage"},
   matching    |-> {"match", "review"},
   fulfillment |-> {"fulfill"},
   notice      |-> IF m.drop THEN {"notice"}
                   ELSE IF m.access \/ m.stage = "delivery" THEN {"delivery"} ELSE {}]

(* A coarse key stands for the first fine stage under it.                  *)
CurrentOps(m) ==
  LET below == {k \in DOMAIN OPS_SUBSTEP_SEQUENCE :
                  /\ OPS_SUBSTEP_SEQUENCE[k] \in UNION {Substeps(m)[p] : p \in DOMAIN Substeps(m)}
                  /\ Parent(OPS_SUBSTEP_SEQUENCE[k]) = m.stage}
  IN IF m.stage \in ToSet(OPS_SUBSTEP_SEQUENCE) \/ below = {} THEN m.stage
     ELSE OPS_SUBSTEP_SEQUENCE[CHOOSE k \in below : \A j \in below : k <= j]

(* A fine stage of a request that is at current.                           *)
Inferred(key, current) ==
  LET k == Place(OPS_SUBSTEP_SEQUENCE, key)
      c == Place(OPS_SUBSTEP_SEQUENCE, current)
  IN CASE key = "template_notice" -> "in_progress"
       [] key # "template_notice" /\ (k = 0 \/ c = 0) ->
            IF key = current THEN "in_progress" ELSE "not_started"
       [] OTHER -> IF k < c THEN "complete" ELSE IF k = c THEN "in_progress" ELSE "not_started"

-----------------------------------------------------------------------------
(* From the statuses of the substeps to the rail: stages before the        *)
(* current one are done, the current one has begun, and a request that is  *)
(* matched for one system and fulfilled for another is in both stages.     *)

Split(matching, fulfillment) ==
  /\ \E st \in matching : st \notin {"complete", "skipped"}
  /\ \E st \in fulfillment : st \in {"in_progress", "waiting", "complete", "failed"}

Rail(groups, current, any) ==
  [k \in 1 .. 4 |->
     LET p  == WORKBENCH_STAGE_ORDER[k]
         st == Rollup(groups[p])
     IN CASE Split(groups["matching"], groups["fulfillment"]) /\ p \in {"matching", "fulfillment"}
               -> "in_progress"
          [] k < current /\ st \in {"not_started", "skipped"} -> "complete"
          [] k = current /\ st = "not_started" /\ any -> "in_progress"
          [] OTHER -> st]

-----------------------------------------------------------------------------
(* aggregateStackWorkbenchChrome                                           *)

(* The first row of a request speaks for it.                               *)
Firsts(s) == {s[k] : k \in {i \in DOMAIN s : \A j \in 1 .. i - 1 : s[j].id # s[i].id}}

KeysOfMember(m) ==
  [Substeps(m) EXCEPT !.notice =
     IF @ = {} /\ Inferred("fulfill", CurrentOps(m)) = "complete" THEN {"template_notice"} ELSE @]

(* substep -> status -> how many requests                                  *)
Tally(S, p, key, st) ==
  Cardinality({m \in S : key \in KeysOfMember(m)[p] /\ Inferred(key, CurrentOps(m)) = st})

TalliedKeys(S, p) == UNION {KeysOfMember(m)[p] : m \in S}

SubstepStatus(S, p, key) == Rollup({st \in Statuses : Tally(S, p, key, st) > 0})

LeastPlace(s) ==
  IF s = <<>> THEN 1
  ELSE CHOOSE k \in {ParentPlace(m.stage) : m \in Firsts(s)} :
         \A m \in Firsts(s) : k <= ParentPlace(m.stage)

StackRail(s) ==
  Rail([p \in ToSet(WORKBENCH_STAGE_ORDER) |->
          {SubstepStatus(Firsts(s), p, key) : key \in TalliedKeys(Firsts(s), p)}],
       LeastPlace(s), s # <<>>)

(* A stack of several requests is painted by the stack, one request by the *)
(* richer stages of the API when there are any.                            *)
PaintedRail(s, api) ==
  IF Cardinality({m.id : m \in Firsts(s)}) > 1 \/ api = <<>> THEN StackRail(s) ELSE api

-----------------------------------------------------------------------------
(* aggregateOwnerSystemWorkbenchSubsteps: a row per system under each      *)
(* stage; a request counts once for each of its systems.                   *)

NamedSystems(s) ==
  UNION {{<<i, j>> : j \in {n \in DOMAIN s[i].systems :
                              s[i].systems[n].system # Unnamed /\ s[i].systems[n].label}} :
         i \in DOMAIN s}

SystemKey(s, p) == <<s[p[1]].id, s[p[1]].systems[p[2]].system>>

FirstOfSystem(s, p) ==
  \A q \in NamedSystems(s) :
    q[1] < p[1] \/ (q[1] = p[1] /\ q[2] < p[2]) => SystemKey(s, q) # SystemKey(s, p)

SystemRows(s) ==
  {[id |-> s[p[1]].id, system |-> s[p[1]].systems[p[2]].system,
    stage |-> IF s[p[1]].systems[p[2]].stage # Unnamed THEN s[p[1]].systems[p[2]].stage
              ELSE s[p[1]].stage] : p \in {q \in NamedSystems(s) : FirstOfSystem(s, q)}}

ParentStatus(k, stage) ==
  IF k < ParentPlace(stage) THEN "complete"
  ELSE IF k = ParentPlace(stage) THEN "in_progress" ELSE "not_started"

SystemCount(s, k, system, st) ==
  Cardinality({r \in SystemRows(s) : r.system = system /\ ParentStatus(k, r.stage) = st})

-----------------------------------------------------------------------------
(* deriveWorkbenchChromeFromOpsJourney: the same from the statuses the API *)
(* gives for one request, when its workbench is not available.             *)

DerivedGroup(j, p) ==
  LET have == {j.status[key] : key \in Substeps([j EXCEPT !.stage = Unnamed])[p] \cap DOMAIN j.status}
  IN IF p = "notice" /\ ~j.drop /\ ~j.access /\ have = {} /\ "fulfill" \in DOMAIN j.status
           /\ j.status["fulfill"] = "complete"
     THEN {"in_progress"} ELSE have

DerivedRail(j) ==
  Rail([p \in ToSet(WORKBENCH_STAGE_ORDER) |-> DerivedGroup(j, p)], ParentPlace(j.stage), TRUE)

-----------------------------------------------------------------------------
(* The connector gate                                                      *)

NoGate == [system |-> Unnamed, code |-> Unnamed, vertical |-> Unnamed]

HardGate == {"upload_stale", "rotation_overdue", "wizard_incomplete"}

(* The newest attempt that was blocked, though a later one succeeded.      *)
GateOfAttempts(s) ==
  LET blocked == {k \in DOMAIN s : s[k].blocked}
  IN IF blocked = {} THEN NoGate
     ELSE LET a == s[CHOOSE k \in blocked : \A j \in blocked : j <= k]
          IN [system |-> a.system, code |-> a.code, vertical |-> Unnamed]

Pressing(r) == r.code \in HardGate \/ (r.overdue /\ r.code \notin {"upload_approaching", "rotation_approaching"})

Urgency(r) == CASE r.code = "upload_stale" -> 1 [] r.code = "rotation_overdue" -> 2
                [] r.code = "wizard_incomplete" -> 3 [] OTHER -> 4

GateOfReminders(s, mine) ==
  LET P == {k \in mine : Pressing(s[k])}
  IN IF P = {} THEN NoGate
     ELSE LET k == CHOOSE i \in P : \A j \in P :
                      \/ Urgency(s[i]) < Urgency(s[j])
                      \/ Urgency(s[i]) = Urgency(s[j]) /\ i <= j
          IN [system |-> s[k].system, code |-> s[k].code, vertical |-> Unnamed]

(* Attempts first, then reminders (the detail has no connections).         *)
ConnectorGateOf(a, r, mine) ==
  IF GateOfAttempts(a) # NoGate THEN GateOfAttempts(a) ELSE GateOfReminders(r, mine)

LIVE_DOWN_ERROR_CODES == {"gate_blocked", "auth_failed", "test_failed", "needs_refresh"}

GateOfErrors(a) ==
  LET down == {k \in DOMAIN a : a[k].code \in LIVE_DOWN_ERROR_CODES}
  IN IF down = {} THEN NoGate
     ELSE [NoGate EXCEPT !.code = a[CHOOSE k \in down : \A j \in down : k <= j].code]

MyReminders(s) == {k \in DOMAIN s : Mine = {} \/ s[k].vertical \in Mine}

IsData(v) == v \in {"data", "cassandra"}

CalloutVertical(gate, r, mine, a) ==
  LET named == {k \in mine : r[k].system = gate.system \/ r[k].code = gate.code}
      from  == {k \in DOMAIN a : a[k].vertical # Unnamed}
      other == {v \in Mine : ~IsData(v)}
  IN CASE named # {} -> r[CHOOSE k \in named : \A j \in named : k <= j].vertical
       [] named = {} /\ gate.system = "cassandra" -> "data"
       [] named = {} /\ gate.system # "cassandra" /\ from # {} ->
            a[CHOOSE k \in from : \A j \in from : j <= k].vertical
       [] OTHER -> IF Cardinality(other) = 1 THEN CHOOSE v \in other : TRUE
                   ELSE IF Cardinality(Mine) = 1 THEN CHOOSE v \in Mine : TRUE ELSE Unnamed

(* The callout beside the detail: none for a vertical that is not the      *)
(* owner's.                                                                *)
Callout(viewerRole, a, r) ==
  LET mine  == MyReminders(r)
      found == ConnectorGateOf(a, r, mine)
      gate  == IF found # NoGate THEN found ELSE GateOfErrors(a)
      v     == CalloutVertical(gate, r, mine, a)
  IN IF gate = NoGate \/ (Mine # {} /\ v # Unnamed /\ v \notin Mine /\ viewerRole = "data_owner") THEN NoGate
     ELSE [gate EXCEPT !.vertical = v]

-----------------------------------------------------------------------------
(* Polls                                                                   *)

StackPolled(s) ==
  /\ look = "stack" /\ members' = s
  /\ UNCHANGED <<look, ops, attempts, reminded>>

MemberJoins(m) == Len(members) < MaxMembers /\ StackPolled(Append(members, m))
MemberLeaves   == members # <<>> /\ StackPolled(Tail(members))

JourneyPolled(j) ==
  /\ look = "journey" /\ ops # j /\ ops' = j
  /\ UNCHANGED <<look, members, attempts, reminded>>

AttemptEnds(a) ==
  /\ look = "callout" /\ Len(attempts) < MaxAttempts1 /\ attempts' = Append(attempts, a)
  /\ UNCHANGED <<look, members, ops, reminded>>

RemindersPolled(s) ==
  /\ look = "callout" /\ reminded # s /\ reminded' = s
  /\ UNCHANGED <<look, members, ops, attempts>>

ChromeInit ==
  /\ look \in ChromeLooks /\ members = <<>> /\ attempts = <<>> /\ reminded = <<>>
  /\ ops = CHOOSE j \in Journeys : TRUE

ChromeNext ==
  \/ \E m \in Members : MemberJoins(m)
  \/ MemberLeaves
  \/ \E j \in Journeys : JourneyPolled(j)
  \/ \E a \in Attempts : AttemptEnds(a)
  \/ \E s \in SeqOf(Overdue, 2) : RemindersPolled(s)

ChromeSpec == ChromeInit /\ [][ChromeNext]_chromeVars

-----------------------------------------------------------------------------
(* Properties                                                              *)

ChromeTypeOK ==
  /\ members \in Seq(Members) /\ ops \in Journeys /\ attempts \in Seq(Attempts)
  /\ members # <<>> => \A k \in 1 .. 4 : StackRail(members)[k] \in Statuses
  /\ look = "journey" => \A k \in 1 .. 4 : DerivedRail(ops)[k] \in Statuses

(* A stage painted as complete has no request of the stack in it or before *)
(* it, whatever their order, sources and types: the rail "never renders    *)
(* the first member's pipeline as if it were the group".                   *)
DoneStageIsBehind ==
  members # <<>> =>
    \A k \in 1 .. 4 : StackRail(members)[k] = "complete" =>
      \A m \in Firsts(members) : k < ParentPlace(m.stage)

(* The systems of an owner's stack count every request exactly once under  *)
(* every stage: "Never two fake requests and never first-member-only".     *)
SystemsCountOnce ==
  \A k \in 1 .. 4, i \in DOMAIN members : \A j \in DOMAIN members[i].systems :
    LET system == members[i].systems[j].system
    IN system # Unnamed => SystemCount(members, k, system, "complete") + SystemCount(members, k, system, "in_progress")
         + SystemCount(members, k, system, "not_started")
         = Cardinality({n.id : n \in {x \in ToSet(members) :
                          \E y \in DOMAIN x.systems : x.systems[y].system = system /\ x.systems[y].label}})

(* The rail of a stack speaks for all of it.                               *)
StackSpeaksForAll == DoneStageIsBehind /\ SystemsCountOnce

(* An owner with an overdue upload or an unfinished setup is told so beside *)
(* a request without attempts, whatever reminders of other verticals there  *)
(* are.                                                                     *)
MyGateShown ==
  attempts = <<>> /\ (\E k \in DOMAIN reminded : Pressing(reminded[k]) /\ reminded[k].vertical \in Mine)
    => Callout("data_owner", attempts, reminded) # NoGate

(* What stands around a request speaks for all of it and for its reader.   *)
ChromeTold == StackSpeaksForAll /\ MyGateShown

=============================================================================
