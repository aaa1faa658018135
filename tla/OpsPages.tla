------------------------------ MODULE OpsPages ------------------------------
(***************************************************************************)
(* The pages on which an operator watches the workers.  A behaviour is     *)
(* about one desk: "runs", the list of runs (routes/ops/runs.tsx);         *)
(* "overview", the runs of a worker (workers.tsx); "queue", the rows of an *)
(* attempt table (workers/WorkerQueuePage.tsx); "plan", the schedule of a  *)
(* job (ScheduleConfigPanel.tsx); "fleet", the filters of the fleet and of *)
(* the catalogue (FleetHealthPanel.tsx, AttemptTablesIndexPage.tsx).       *)
(* The first three keep filters in the address and ask for rows, which     *)
(* runs.py and attempt_tables.py select; until they are answered the lists *)
(* of runs and rows show the rows asked for before.                        *)
(***************************************************************************)
EXTENDS Integers, Sequences, SequencesExt, FiniteSets

CONSTANTS
  OpsRuns,      \* the runs: [id, job, status, age], the age one of 1..4: of
                \* 8 hours, a day, a week, three months
  OpsTables,    \* worker -> its attempt tables, of which none is another's
  OpsRows,      \* attempt table -> sequence of [id, status]
  OpsLimits,    \* page sizes offered
  DefaultLimit, \* the one of an address without
  DayTexts,     \* what may be typed as days of a month: sequences of numbers,
                \* 0 for what is no number
  MaxOps        \* bound on what the operator does

(* AttemptStatus.                                                          *)
RunStatuses == {"pending", "claimed", "in_flight", "success",
                "submit_error", "outcome_error", "timeout", "abandoned"}

ASSUME OpsAssumption ==
  /\ OpsLimits \subseteq Nat \ {0} /\ DefaultLimit \in OpsLimits /\ MaxOps \in Nat
  /\ \A r \in OpsRuns : r.status \in RunStatuses
  /\ IsFiniteSet(OpsRuns) /\ "none" \notin DOMAIN OpsTables
  /\ \A v, w \in DOMAIN OpsTables : v # w => OpsTables[v] \cap OpsTables[w] = {}

VARIABLES
  opsDesk,
  spot,         \* the address: [of, status, window, since, limit, offset],
                \* of a job or a table, "none" if absent
  grid,         \* rows on screen: [asked, rows, blind], of a queue in order
  wire,         \* the call in flight: <<>> or <<[asked, job, blind]>>
  fleetKnown,   \* the fleet is loaded
  plan,         \* the schedule of the job: [kind, every, days]
  planDraft,    \* as edited: [kind, every, text]
  hinted,       \* hint of the draft last saved here; <<>> if others saved since
  refused,      \* bodies whose save failed, with their hints
  health,       \* health filter: [address, page, picked], in the address, as
                \* the page keeps it, as last picked
  moves

opsVars == <<opsDesk, spot, grid, wire, fleetKnown, plan, planDraft, hinted, refused, health, moves>>

gridVars == <<spot, grid, wire, fleetKnown>>
planVars == <<plan, planDraft, hinted, refused>>

Acts == moves < MaxOps /\ moves' = moves + 1

-----------------------------------------------------------------------------
(* Statuses.  Four pages class them, and the server for the failed tab     *)

FailsOn(status) == status \in {"submit_error", "outcome_error", "timeout", "abandoned"}

(* statusPillVariant of the list of runs.                                  *)
PillOfRun(status) ==
  IF FailsOn(status) THEN "fail"
  ELSE CASE status = "success" -> "ok"
         [] status \in {"claimed", "in_flight", "pending"} -> "run"
         [] OTHER -> "wait"

(* Of the overview, where what waits is apart.                             *)
PillOfWorker(status) ==
  IF FailsOn(status) THEN "fail"
  ELSE CASE status = "success" -> "ok"
         [] status \in {"claimed", "in_flight"} -> "run"
         [] OTHER -> "wait"

(* runStatusVariant of one run, which does not know "in_flight".           *)
PillOfDetail(status) ==
  IF FailsOn(status) THEN "fail"
  ELSE CASE status = "success" -> "ok"
         [] status \in {"pending", "claimed"} -> "run"
         [] OTHER -> "wait"

(* summarizeRuns of the dashboard.                                         *)
TallyRuns(runs) ==
  [total |-> Cardinality(runs),
   failed |-> Cardinality({r \in runs : FailsOn(r.status)}),
   inFlight |-> Cardinality({r \in runs : /\ r.status \in {"claimed", "in_flight", "pending"}
                                          /\ ~FailsOn(r.status)})]

(* _FAILED_STATUSES.                                                       *)
FailedStatuses == {"submit_error", "outcome_error", "timeout", "abandoned"}

RunsTabs == {"none", "failed", "pending", "in_flight", "claimed", "abandoned", "success"}
OverviewTabs == {"failed", "in_flight", "waiting", "all"}

(* filterRuns, the tab of the overview.                                    *)
UnderTab(run, tabName) ==
  CASE tabName = "failed"    -> FailsOn(run.status)
    [] tabName = "in_flight" -> PillOfWorker(run.status) = "run"
    [] tabName = "waiting"   -> run.status = "pending"
    [] OTHER                 -> TRUE

-----------------------------------------------------------------------------
(* What the server selects                                                 *)

Unified == {"drop_connector", "drop_ingestor", "matching", "hash_index_refresh"}

(* resolveRunsTimeParams, _resolve_since: the oldest age asked for.        *)
OldestAge(a) ==
  CASE a.window = "8h" -> 1 [] a.window = "24h" -> 2
    [] a.window \in {"3m", "custom"} /\ a.since # 0 -> a.since
    [] a.window = "3m" -> 4
    [] OTHER -> 3

ListRuns(a, runJob) ==
  {r \in OpsRuns :
     /\ runJob \in {"none", r.job} /\ r.age <= OldestAge(a)
     /\ IF a.status = "failed" THEN r.status \in FailedStatuses ELSE a.status \in {"none", r.status}}

TableRows(a) ==
  LET all == SelectSeq(OpsRows[a.of], LAMBDA r : a.status \in {"none", r.status})
  IN SubSeq(all, a.offset + 1, Min({Len(all), a.offset + a.limit}))

-----------------------------------------------------------------------------
(* The list of runs                                                        *)

(* buildRunsSearch: the date goes with the window it belongs to.           *)
BuildRunsSearch(a) == [a EXCEPT !.since = IF a.window = "custom" THEN a.since ELSE 0]

(* Rows asked for before stay.                                             *)
GoesTo(a) ==
  /\ Acts /\ a # spot /\ spot' = a
  /\ wire' = <<[asked |-> a, job |-> a.of, blind |-> FALSE]>>
  /\ UNCHANGED <<grid, fleetKnown>>

RunsToolbar ==
  \/ \E s \in RunsTabs : GoesTo(BuildRunsSearch([spot EXCEPT !.status = s]))
  \/ \E j \in Unified \cup {"none"} : GoesTo(BuildRunsSearch([spot EXCEPT !.of = j]))
  \/ \E w \in {"8h", "24h", "1w", "3m"} : GoesTo(BuildRunsSearch([spot EXCEPT !.window = w]))
  \/ GoesTo(BuildRunsSearch([spot EXCEPT !.window = "custom",
                                         !.since = IF @ = 0 THEN 3 ELSE @]))
  \/ spot.window = "custom" /\ \E t \in {0, 1, 2} : GoesTo([spot EXCEPT !.since = t])

(* The key of the query holds the instant that "3m" is counted from, a new *)
(* one at each rendering: each answer asks again.                          *)
RunsAnswered ==
  /\ wire # <<>> /\ grid' = [asked |-> spot, rows |-> ListRuns(spot, spot.of), blind |-> FALSE]
  /\ wire' = IF spot.window = "3m" THEN wire ELSE <<>>
  /\ UNCHANGED <<spot, fleetKnown, moves>>

RunsDesk == RunsToolbar \/ RunsAnswered

-----------------------------------------------------------------------------
(* The overview: one query for a worker and a window, the tab is local     *)

Absent == "absent"

(* The job the runs are asked of; Absent if the worker has none.  Until   *)
(* the fleet is loaded a worker it does not know is asked as all of them. *)
RunJob(worker) ==
  IF worker \in Unified \cup {"none"} THEN worker ELSE IF fleetKnown THEN Absent ELSE "none"

KeyOf(a) == <<a.of, a.window, a.since>>

AsksRuns(a) ==
  wire' = IF RunJob(a.of) = Absent THEN <<>>
          ELSE <<[asked |-> a, job |-> RunJob(a.of), blind |-> ~fleetKnown]>>

OverviewGoes(a) ==
  /\ Acts /\ a # spot /\ spot' = a
  /\ IF KeyOf(a) = KeyOf(spot) THEN UNCHANGED <<grid, wire>>
     ELSE grid' = [asked |-> a, rows |-> {}, blind |-> FALSE] /\ AsksRuns(a)
  /\ UNCHANGED fleetKnown

OverviewControls ==
  \/ \E v \in OverviewTabs : OverviewGoes([spot EXCEPT !.status = v])
  \/ \E v \in DOMAIN OpsTables \cup {"none"} : OverviewGoes([spot EXCEPT !.of = v])
  \/ \E w \in {"8h", "1w", "3m"} : OverviewGoes([spot EXCEPT !.window = w, !.since = 0])
  \/ OverviewGoes([spot EXCEPT !.window = "custom"])
  \/ spot.window = "custom" /\ \E t \in {0, 1} : OverviewGoes([spot EXCEPT !.since = t])

FleetLoads ==
  /\ ~fleetKnown /\ fleetKnown' = TRUE /\ UNCHANGED <<spot, grid, wire, moves>>

OverviewPolls ==
  wire = <<>> /\ AsksRuns(spot) /\ UNCHANGED <<spot, grid, fleetKnown, moves>>

OverviewAnswered ==
  /\ wire # <<>> /\ wire' = <<>>
  /\ grid' = [asked |-> spot, rows |-> ListRuns([spot EXCEPT !.status = "none"], wire[1].job),
              blind |-> wire[1].blind]
  /\ UNCHANGED <<spot, fleetKnown, moves>>

(* What the table of runs lists; a message where a worker has none.        *)
OverviewRows ==
  {r \in grid.rows : RunJob(spot.of) # Absent /\ UnderTab(r, spot.status)}

OverviewDesk == OverviewControls \/ FleetLoads \/ OverviewPolls \/ OverviewAnswered

-----------------------------------------------------------------------------
(* The rows of a queue, for the worker that owns the table "spot.of"       *)

QueueOwner(a) == CHOOSE w \in DOMAIN OpsTables : a.of \in OpsTables[w]

(* Another size starts at the first page; a mutant stays where it is.      *)
KeepsOffset(a, n) == [a EXCEPT !.limit = n]
PicksLimit(a, n)  == [a EXCEPT !.limit = n, !.offset = 0]

QueueFilters ==
  \/ \E t \in OpsTables[QueueOwner(spot)] : GoesTo([spot EXCEPT !.of = t, !.offset = 0])
  \/ \E s \in {"none", "pending", "failed"} : GoesTo([spot EXCEPT !.status = s, !.offset = 0])
  \/ \E n \in OpsLimits : GoesTo(PicksLimit(spot, n))
  \/ GoesTo([spot EXCEPT !.status = "none", !.limit = DefaultLimit, !.offset = 0])

(* Next goes by the rows on screen, be they those of the page before.      *)
QueuePages ==
  \/ spot.offset > 0 /\ GoesTo([spot EXCEPT !.offset = IF @ < spot.limit THEN 0 ELSE @ - spot.limit])
  \/ Len(grid.rows) >= spot.limit /\ GoesTo([spot EXCEPT !.offset = @ + spot.limit])

QueueAnswered ==
  /\ wire # <<>> /\ wire' = <<>>
  /\ grid' = [asked |-> spot, rows |-> TableRows(spot), blind |-> FALSE]
  /\ UNCHANGED <<spot, fleetKnown, moves>>

QueueDesk == QueueFilters \/ QueuePages \/ QueueAnswered

-----------------------------------------------------------------------------
(* A schedule of days of the month, or of every so many days               *)

MonthDaysOf(text) == {n \in Range(text) : n \in 1..31}

TextOfDays(days) == SetToSeq(days)

(* draftFromRow, cadenceHint.                                              *)
DraftOf(row) ==
  [kind |-> row.kind, every |-> IF row.every = 0 THEN 15 ELSE row.every,
   text |-> TextOfDays(IF row.days = {} THEN {1, 15} ELSE row.days)]

Hint(d) == IF d.kind = "month_days" THEN <<MonthDaysOf(d.text), 0>> ELSE <<{}, d.every>>

(* The body of Save.                                                      *)
BodyOf(d) ==
  IF d.kind = "month_days" THEN [days |-> MonthDaysOf(d.text), every |-> 0]
  ELSE [days |-> {}, every |-> d.every]

EditsPlan ==
  /\ Acts
  /\ \/ \E k \in {"month_days", "interval_days"} : planDraft' = [planDraft EXCEPT !.kind = k]
     \/ planDraft.kind = "month_days" /\ \E t \in DayTexts : planDraft' = [planDraft EXCEPT !.text = t]
     \/ planDraft.kind = "interval_days" /\ \E n \in {1, 15} : planDraft' = [planDraft EXCEPT !.every = n]
  /\ UNCHANGED <<plan, hinted, refused>>

(* patch_worker_schedule: the kind is that of the field that is given.     *)
PatchPlan(body) ==
  plan' = IF body.days # {} THEN [kind |-> "month_days", every |-> 0, days |-> body.days]
          ELSE [kind |-> "interval_days", every |-> body.every, days |-> {}]

SavesBody(body, hint) ==
  \/ PatchPlan(body) /\ hinted' = hint /\ UNCHANGED refused
  \/ refused' = refused \cup {<<body, hint>>} /\ UNCHANGED <<plan, hinted>>

SavesPlan ==
  /\ Acts /\ ~(planDraft.kind = "month_days" /\ MonthDaysOf(planDraft.text) = {})
  /\ SavesBody(BodyOf(planDraft), Hint(planDraft)) /\ UNCHANGED planDraft

RetriesPlan == Acts /\ \E f \in refused : SavesBody(f[1], f[2]) /\ UNCHANGED planDraft

OthersPlan ==
  /\ Acts /\ \E b \in {[days |-> {1}, every |-> 0], [days |-> {}, every |-> 30]} : PatchPlan(b)
  /\ hinted' = <<>> /\ UNCHANGED <<planDraft, refused>>

PlanDesk == EditsPlan \/ SavesPlan \/ RetriesPlan \/ OthersPlan

-----------------------------------------------------------------------------
(* The health filter: in the address, which a route may drop, and in the   *)
(* state of the catalogue page                                             *)

HealthShown == IF health.address # "none" THEN health.address ELSE health.page

BothHealth(h)  == [health EXCEPT !.address = h, !.page = h]

HealthPicked(h) == health' = [BothHealth(h) EXCEPT !.picked = h]

(* Another filter is picked; a link without the filter; to the fleet, with *)
(* what is shown, and back.                                                *)
HealthMoves ==
  \/ health' = [health EXCEPT !.address = HealthShown]
  \/ health' = [health EXCEPT !.address = "none"]
  \/ health' = [health EXCEPT !.address = HealthShown, !.page = HealthShown]

HealthDesk == Acts /\ ((\E h \in {"none", "ok", "down"} : HealthPicked(h)) \/ HealthMoves)

-----------------------------------------------------------------------------

OpsSpot(of) == [of |-> of, status |-> "none", window |-> "1w", since |-> 0,
                limit |-> DefaultLimit, offset |-> 0]

OpsInit ==
  /\ opsDesk \in {"runs", "overview", "queue", "plan", "fleet"}
  /\ spot \in (CASE opsDesk = "queue" -> {OpsSpot(t) : t \in UNION {OpsTables[w] : w \in DOMAIN OpsTables}}
                 [] opsDesk = "overview" -> {[OpsSpot(w) EXCEPT !.status = "waiting"] :
                                               w \in DOMAIN OpsTables \cup {"none"}}
                 [] OTHER -> {OpsSpot("none")})
  /\ fleetKnown = FALSE
  /\ grid = [asked |-> spot, rows |-> IF opsDesk = "queue" THEN <<>> ELSE {}, blind |-> FALSE]
  /\ wire = IF opsDesk = "overview"
              THEN <<[asked |-> spot, job |-> RunJob(spot.of), blind |-> TRUE]>>
              ELSE <<[asked |-> spot, job |-> spot.of, blind |-> FALSE]>>
  /\ plan = [kind |-> "month_days", every |-> 0, days |-> {1, 15}]
  /\ planDraft = DraftOf(plan) /\ hinted = <<>> /\ refused = {}
  /\ health = [address |-> "none", page |-> "none", picked |-> "none"] /\ moves = 0

OpsNext ==
  /\ UNCHANGED opsDesk
  /\ \/ opsDesk = "runs" /\ RunsDesk /\ UNCHANGED <<planVars, health>>
     \/ opsDesk = "overview" /\ OverviewDesk /\ UNCHANGED <<planVars, health>>
     \/ opsDesk = "queue" /\ QueueDesk /\ UNCHANGED <<planVars, health>>
     \/ opsDesk = "plan" /\ PlanDesk /\ UNCHANGED <<gridVars, health>>
     \/ opsDesk = "fleet" /\ HealthDesk /\ UNCHANGED <<gridVars, planVars>>

-----------------------------------------------------------------------------
(* Properties                                                              *)

(* The address is one the page builds.                                     *)
OpsTypeOK ==
  /\ spot.limit \in OpsLimits /\ spot.offset \in Nat /\ spot.since \in 0..4
  /\ fleetKnown \in BOOLEAN /\ Len(wire) <= 1 /\ moves \in 0..MaxOps

(* The failed tab lists, of the runs asked for, those every page marks as  *)
(* failed, the dashboard counts as such - whichever worker wrote the       *)
(* status, the reaper too - and no run is under no tab but "all"           *)
(* (_FAILED_STATUSES, isFailedStatus of four pages, STATUS_TABS).          *)
FailedAlike ==
  opsDesk = "runs" /\ grid.asked = spot =>
    LET window == [spot EXCEPT !.status = "none"]
        all    == ListRuns(window, spot.of)
        failed == ListRuns([window EXCEPT !.status = "failed"], spot.of)
    IN /\ TallyRuns(all).failed = Cardinality(failed)
       /\ \A r \in all :
            /\ r \in failed <=> PillOfRun(r.status) = "fail"
            /\ PillOfRun(r.status) = "fail" <=> PillOfDetail(r.status) = "fail"
            /\ PillOfRun(r.status) = "fail" <=> PillOfWorker(r.status) = "fail"
            /\ \E s \in RunsTabs \ {"none"} : r \in ListRuns([window EXCEPT !.status = s], spot.of)

(* The overview lists under a worker only runs of that worker, whenever    *)
(* the fleet was known as they were asked for (the fleet may be loaded     *)
(* only after the first list: runJob).                                     *)
OfTheWorker ==
  opsDesk = "overview" /\ spot.of # "none" /\ ~grid.blind =>
    \A r \in OverviewRows : r.job = spot.of

(* The pages of a queue start at multiples of their size, so that Prev     *)
(* leads back over the pages Next came from, whatever filter and size were *)
(* picked in between; the rows are of the tables of one worker.            *)
PagesAlign ==
  opsDesk = "queue" => /\ \E k \in 0..spot.offset : spot.offset = k * spot.limit
                       /\ QueueOwner(spot) = QueueOwner(grid.asked)

(* A job runs as the hint of the panel said when Save was accepted, also   *)
(* if the save is the retry of an earlier one, until someone else changes  *)
(* it (cadenceHint, the bodies of Save, patch_worker_schedule).            *)
RunsAsHinted == hinted # <<>> => Hint(DraftOf(plan)) = hinted

(* The workers and tables shown are of the health last picked, and of all  *)
(* after "All", though routes drop the filter from the address and links   *)
(* leave it out (sessionHealth).                                           *)
HealthAsPicked == HealthShown = health.picked

OpsSpec == OpsInit /\ [][OpsNext]_opsVars

OpsTold == FailedAlike /\ OfTheWorker /\ PagesAlign /\ RunsAsHinted /\ HealthAsPicked

=============================================================================
