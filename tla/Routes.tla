------------------------------- MODULE Routes -------------------------------
(***************************************************************************)
(* Where the web client can go: the routes of router.tsx with the search   *)
(* each one keeps, its redirects, the role each page asks for, and the     *)
(* links the navigation, the command palette and the pages offer a role.   *)
(*                                                                         *)
(* A place is a route, its path parameter and its search parameters, a     *)
(* function from the names that are present to values.  Text stands for    *)
(* free text, BlankText for none.  The search is the part a route's        *)
(* validateSearch vouches for; health, which the fleet panels read past    *)
(* it, is left out.                                                        *)
(***************************************************************************)
EXTENDS Naturals

CONSTANTS
  Urls,     \* places someone types, has bookmarked or was mailed
  Patches   \* what the chips, lanes and filters of the inbox rewrite

VARIABLES
  role,     \* of the session
  at,       \* place the router is at
  hops,     \* redirects since the last navigation
  settled,  \* the page is shown, no redirect is under way
  asked     \* the link that led here; Nowhere for a typed URL

routeVars == <<role, at, hops, settled, asked>>

Roles == {"super_admin", "admin", "legal", "data_owner", "data_user"}
LegalAdmin == {"legal", "admin"}
Owners     == {"data_owner", "data_user"}

BlankText == "blank"
NoSearch  == [k \in {} |-> BlankText]
Go(to, search)    == [to |-> to, id |-> BlankText, search |-> search]
GoId(to, id)      == [to |-> to, id |-> id, search |-> NoSearch]
InboxPage(search) == Go("/requests/needs-attention", search)
Nowhere           == Go("nowhere", NoSearch)

Onto(f, g) == [k \in DOMAIN f \cup DOMAIN g |-> IF k \in DOMAIN f THEN f[k] ELSE g[k]]
Pick(raw, oks) ==
  [k \in {k \in DOMAIN raw \cap DOMAIN oks : raw[k] \in oks[k]} |-> raw[k]]

-----------------------------------------------------------------------------
(* What each route keeps of its search                                     *)

Text == {"matching", "ca", "CA", "day", "instant", "email", "x"}

PipelineTabs   == {"pipeline", "hash_refresh", "history", "errors", "logs"}
PipelineStages == {"download", "ingest", "matching", "review", "fulfillment"}
ProcessIds     == {"7"}
HomeWindows    == {"7", "30", "90", "ytd"}

PipelineKeys == [tab |-> PipelineTabs, process |-> ProcessIds, stage |-> PipelineStages]

(* A stage named as the tab, as old links do, is the stage.                *)
ParsePipeline(raw) ==
  LET old == IF "tab" \in DOMAIN raw /\ raw["tab"] \in PipelineStages
               THEN [stage |-> raw["tab"]] ELSE NoSearch
  IN Onto(Pick(raw, PipelineKeys), Onto(old, [tab |-> "pipeline"]))

RunsWindows == {"8h", "24h", "1w", "3m", "custom"}
RunsJobs    == {"drop_connector", "drop_ingestor", "matching", "hash_index_refresh"}
RunsStatus  == {"failed", "success", "claimed", "in_flight", "pending", "abandoned"}
RunsKeys == [window |-> RunsWindows, status |-> RunsStatus, job |-> RunsJobs,
             request_id |-> Text, process |-> ProcessIds, since |-> {"day", "instant"}]

(* since is written back as an ISO instant.                                *)

ParseRuns(raw) ==
  LET kept == Pick(raw, RunsKeys)
  IN IF "since" \in DOMAIN kept THEN [kept EXCEPT !["since"] = "instant"] ELSE kept

WorkersWindows == {"8h", "1w", "3m", "custom"}
WorkersTabs    == {"failed", "in_flight", "waiting", "all"}
WorkersKeys   == [window |-> WorkersWindows, tab |-> WorkersTabs, job |-> Text, since |-> Text]
DeMonitorKeys == [window |-> RunsWindows, tab |-> WorkersTabs, job |-> Text]
TablesKeys    == [table |-> Text, worker |-> Text]
QueueKeys     == [table |-> Text, status |-> Text, window |-> WorkersWindows, since |-> Text,
                  request_id |-> Text, step |-> Text, limit |-> {"7", "900", "200"},
                  offset |-> {"0", "7"}]

(* At most 200 rows at a time.                                             *)
ParseQueue(raw) ==
  LET kept == Pick(raw, QueueKeys)
  IN IF "limit" \in DOMAIN kept /\ kept["limit"] = "900"
       THEN [kept EXCEPT !["limit"] = "200"] ELSE kept

RequestsKeys ==
  [source |-> {"webform", "drop", "csv", "manual"}, source_bucket |-> {"drop", "other"},
   request_type |-> Text, stage |-> Text, posture |-> {"in_queue", "in_progress", "complete"},
   state |-> Text, attention |-> {"needs", "clear"},
   due |-> {"overdue", "due_soon", "on_track"}, raw |-> {"yes", "no"},
   received_after |-> Text, received_before |-> Text, view |-> {"batch"}]

ParseRequests(raw) ==
  LET kept == Pick(raw, RequestsKeys)
  IN IF "state" \in DOMAIN kept /\ kept["state"] = "ca"
       THEN [kept EXCEPT !["state"] = "CA"] ELSE kept

InboxKinds   == {"all", "matching", "triage", "escalations", "delivery", "notice",
                 "communications", "fulfillment", "pending_tasks"}
InboxFilters == {"unassigned", "assignment_to_legal", "fulfillment", "notice", "delivery",
                 "pre_matching_holds", "assigned_to_me"}
JourneySteps == {"ingest", "matching", "fulfillment", "notice"}

(* isInboxIdentifierSurface *)
IdentifierSurfaces == {"email", "phone", "ndz"}

InboxKeys == [bulk |-> ProcessIds, kind |-> InboxKinds, filter |-> InboxFilters,
              assignee |-> Text, vertical |-> Text, system |-> Text,
              source |-> Text \ IdentifierSurfaces, step |-> JourneySteps]

ParseInbox(raw) == Pick(raw, InboxKeys)

(* mergeNeedsAttentionSearch: a key the patch names replaces the current   *)
(* one, a blank one clears it.                                             *)
MergeInbox(current, patch) ==
  LET named == Onto(patch, current)
  IN [k \in {k \in DOMAIN named : named[k] # BlankText /\
                (k = "source" => named[k] \notin IdentifierSurfaces)} |-> named[k]]

(* A typed address is a place; the page patches what its search knows, and *)
(* the identifier a row was found by.                                      *)
IsAddress(p) == p = [to |-> p.to, id |-> p.id, search |-> p.search]

ASSUME RoutesAssumption ==
  /\ \A p \in Urls : IsAddress(p)
  /\ \A patch \in Patches : \A k \in DOMAIN patch :
       /\ k \in DOMAIN InboxKeys
       /\ patch[k] \in InboxKeys[k] \cup {BlankText}
                         \cup (IF k = "source" THEN IdentifierSurfaces ELSE {})

DetailKeys     == [vertical |-> Text, system |-> Text]
ConnectorsKeys == [vertical |-> Text, code |-> Text, state |-> Text, error |-> Text]

Parse(to, raw) ==
  CASE to = "/" -> Onto(ParsePipeline(raw), Pick(raw, [home_window |-> HomeWindows]))
    [] to = "/ops/drop-pipeline" -> ParsePipeline(raw)
    [] to = "/ops/runs" -> ParseRuns(raw)
    [] to = "/ops/workers" -> Pick(raw, WorkersKeys)
    [] to = "/ops/de-monitor" -> Pick(raw, DeMonitorKeys)
    [] to = "/ops/workers/settings/tables" -> Pick(raw, TablesKeys)
    [] to = "/ops/workers/$workerName/queue" -> ParseQueue(raw)
    [] to = "/requests" -> ParseRequests(raw)
    [] to \in {"/requests/needs-attention", "/requests/inbox-status-lab"} -> ParseInbox(raw)
    [] to = "/requests/$requestId" -> Pick(raw, DetailKeys)
    [] to = "/owner/connectors" -> Pick(raw, ConnectorsKeys)
    [] OTHER -> raw

-----------------------------------------------------------------------------
(* Redirects (beforeLoad)                                                  *)

RunsForWorker(worker) ==
  IF worker \in RunsJobs THEN [window |-> "1w", job |-> worker] ELSE [window |-> "1w"]

StageJob == [download |-> "drop_connector", ingest |-> "drop_ingestor", matching |-> "matching",
             review |-> "matching", fulfillment |-> "matching"]
StateStatus == [queued |-> "pending", in_flight |-> "in_flight", failed |-> "failed",
                abandoned |-> "abandoned", finished |-> "success"]
RunsForStage(stage, state) ==
  [window |-> "1w", job |-> StageJob[stage], status |-> StateStatus[state], process |-> "7"]

(* The DE monitor had windows the workers page has not.                    *)
WorkersForDeMonitor(s) ==
  LET w   == IF "window" \in DOMAIN s THEN s["window"] ELSE BlankText
      now == IF w \in {"24h", "1w"} THEN [window |-> "1w"]
             ELSE IF w = "8h" THEN [window |-> "8h"] ELSE NoSearch
  IN Onto(Pick(s, [tab |-> WorkersTabs, job |-> Text]), now)

FormerSettings == Go("/", [tab |-> "configurations"])  \* mutant: the tab's address
Settings       == Go("/ops/workers/settings", NoSearch)

Redirect(p) ==
  CASE p.to = "/" /\ "tab" \in DOMAIN p.search /\ p.search["tab"] = "configurations"
         -> Settings
    [] p.to = "/requests/inbox-status-lab" -> InboxPage(Parse(p.to, p.search))
    [] p.to = "/requests/$requestId" /\ p.id # "uuid" -> InboxPage(NoSearch)
    [] p.to = "/approvals/matching-review" -> InboxPage(NoSearch)
    [] p.to = "/ops/dashboard" -> Go("/ops/drop-pipeline", [tab |-> "pipeline"])
    [] p.to = "/ops/workers/failed" -> Go("/ops/runs", [status |-> "failed", window |-> "1w"])
    [] p.to = "/ops/workers/$workerName" -> Go("/ops/runs", RunsForWorker(p.id))
    [] p.to = "/ops/de-monitor" -> Go("/ops/workers", WorkersForDeMonitor(Parse(p.to, p.search)))
    [] p.to = "/ops/drop-pipeline" -> Go("/", Parse(p.to, p.search))
    [] p.to = "/ops/health" -> Go("/ops/workers", NoSearch)
    [] p.to = "/ops/health/escalations" -> Go("/ops/workers/escalations", NoSearch)
    [] p.to = "/ops/health/configuration" -> Go("/ops/workers/settings", NoSearch)
    [] OTHER -> Nowhere

-----------------------------------------------------------------------------
(* What a role may open                                                    *)

OpsPages == {"/ops/workers", "/ops/workers/settings", "/ops/workers/settings/tables",
             "/ops/workers/escalations", "/ops/workers/trends", "/ops/connections",
             "/ops/workers/$workerName/queue", "/ops/runs", "/ops/jobs", "/ops/incidents",
             "/ops/runs/$job/$attemptId"}

Allowed(r, to) ==
  CASE to \in OpsPages           -> r = "super_admin"
    [] to = "/owner/connectors"  -> r \in Owners \cup {"admin", "super_admin"}
    [] OTHER                     -> TRUE

-----------------------------------------------------------------------------
(* Links                                                                   *)

EveryoneConnects(r)   == TRUE                 \* mutant: Data settings for all
ShowsConnectors(r)    == r \in Owners \cup {"admin", "super_admin"}

NavLinks(r) ==
  (IF r = "super_admin"
     THEN {Go("/ops/drop-pipeline", NoSearch), Go("/ops/workers", NoSearch),
           Go("/ops/workers/settings", NoSearch), Go("/ops/runs", NoSearch),
           Go("/ops/connections", NoSearch)}
     ELSE {Go("/", NoSearch)})
    \cup {InboxPage(IF r \in LegalAdmin THEN [kind |-> "triage"] ELSE NoSearch),
          Go("/requests", NoSearch), Go("/requests", [view |-> "batch"]), Go("/docs", NoSearch)}
    \cup (IF ShowsConnectors(r) THEN {Go("/owner/connectors", NoSearch)} ELSE {})

PaletteLinks(r) ==
  {Go("/", [tab |-> "pipeline"]), Go("/requests", NoSearch), InboxPage(NoSearch),
   Go("/docs", NoSearch), GoId("/requests/$requestId", "uuid")}
    \cup (IF r = "super_admin"
            THEN {Go("/ops/drop-pipeline", [tab |-> "pipeline"]), Go("/ops/workers", NoSearch),
                  Go("/ops/runs", NoSearch), Go("/ops/connections", NoSearch),
                  Go("/ops/workers/escalations", NoSearch)}
            ELSE {})
    \cup (IF r \in Owners
            THEN {InboxPage([kind |-> k]) : k \in {"matching", "fulfillment", "pending_tasks"}}
                   \cup {Go("/owner/connectors", NoSearch)}
            ELSE {InboxPage([filter |-> f]) : f \in InboxFilters}
                   \cup {Go("/requests/new", NoSearch)})

(* The page "/" is DROP pipeline, Legal Home or Data owner home by role.   *)
BulkStageLinks == {Go("/ops/runs", RunsForStage(g, s)) : g \in DOMAIN StageJob,
                                                          s \in DOMAIN StateStatus}
                    \cup {InboxPage([bulk |-> "7"])}
PipelineLinks ==
  {Go("/", [tab |-> t, process |-> "7", stage |-> g]) : t \in PipelineTabs, g \in PipelineStages}
    \cup {Go("/ops/runs", RunsForWorker("hash_index_refresh")), InboxPage(NoSearch),
          Go("/ops/workers/settings", NoSearch), GoId("/ops/runs/$job/$attemptId", "matching"),
          GoId("/requests/$requestId", "uuid")}

LegalHomeLinks ==
  {InboxPage([filter |-> f]) : f \in {"unassigned", "assignment_to_legal", "assigned_to_me"}}
    \cup {InboxPage(NoSearch), Go("/requests", NoSearch),
          Go("/", [tab |-> "pipeline", home_window |-> "90"])}
DrillLinks ==
  {Go("/requests", [attention |-> "needs"]), Go("/requests", [stage |-> "matching"]),
   Go("/requests", [source |-> "drop"])}
DeadlineLinks == {Go("/requests", [due |-> d]) : d \in {"overdue", "due_soon", "on_track"}}
(* Open requests by intake source, type and state; a source the search     *)
(* does not know, like the csv_batch of the database, would be dropped.    *)
HeatmapLinks ==
  {Go("/requests", [source |-> s, request_type |-> "x"]) : s \in RequestsKeys.source}
    \cup {Go("/requests", [source |-> s]) : s \in RequestsKeys.source}
    \cup {Go("/requests", [request_type |-> "x"]), Go("/requests", [state |-> "CA"])}
OwnerQueueLinks ==
  {InboxPage([kind |-> "matching"]), InboxPage([kind |-> "matching", assignee |-> "x"])}

OwnerHomeLinks ==
  {InboxPage([kind |-> k]) : k \in {"matching", "pending_tasks", "fulfillment"}}
    \cup {Go("/owner/connectors", NoSearch), Go("/owner/connectors", [vertical |-> "x"]),
          GoId("/requests/$requestId", "uuid")}

HomeLinks(r) ==
  CASE r = "super_admin"   -> BulkStageLinks \cup PipelineLinks
    [] r \in LegalAdmin    -> LegalHomeLinks \cup DrillLinks \cup DeadlineLinks
                                \cup HeatmapLinks \cup OwnerQueueLinks
    [] OTHER               -> OwnerHomeLinks

RunDetailLinks(job) ==
  {Go("/ops/runs", NoSearch), Go("/ops/runs", RunsForWorker(job)),
   GoId("/requests/$requestId", "uuid")}
    \cup {Go("/", [tab |-> "pipeline", stage |-> g]) : g \in {"download", "ingest", "matching"}}
    \cup {Go("/", [tab |-> "hash_refresh"])}

WorkersLinks ==
  {Go("/ops/workers/escalations", NoSearch), Go("/ops/workers/settings", NoSearch),
   GoId("/ops/runs/$job/$attemptId", "matching"), GoId("/requests/$requestId", "uuid"),
   [GoId("/ops/workers/$workerName/queue", "matching") EXCEPT !.search = [table |-> "x"]]}
    \cup {Go("/ops/runs", [status |-> "failed", window |-> w]) : w \in WorkersWindows}
    \cup {Go("/ops/runs", Onto([window |-> w], RunsForWorker("matching"))) : w \in WorkersWindows}

QueueLinks(worker) ==
  {Go("/ops/runs", RunsForWorker(worker)), Go("/ops/workers/settings/tables", NoSearch),
   Go("/ops/workers", NoSearch), GoId("/ops/runs/$job/$attemptId", "matching")}

TablesLinks ==
  {[GoId("/ops/workers/$workerName/queue", "matching") EXCEPT !.search = [table |-> "x"]],
   Go("/ops/workers/settings", NoSearch), Go("/ops/workers", NoSearch)}

SettingsLinks ==
  {Go("/ops/workers", NoSearch), Go("/ops/connections", NoSearch),
   Go("/ops/workers/settings/tables", [table |-> "x"]),
   GoId("/ops/workers/$workerName/queue", "matching")}

RequestsLinks(r) ==
  {InboxPage(NoSearch), GoId("/requests/$requestId", "uuid"), Go("/requests", [view |-> "batch"])}
    \cup (IF r \in LegalAdmin THEN {} ELSE {Go("/requests/new", NoSearch)})

DetailLinks(r) ==
  {Go("/requests", NoSearch)}
    \cup (IF r = "super_admin" THEN {Go("/ops/runs", [request_id |-> "x", window |-> "1w"])}
                               ELSE {})

(* The blocked-connector notes of the inbox and of the triage dialog offer *)
(* the connectors only to a vertical operator.                             *)
ConnectorLinks(r) == IF r \in Owners THEN {Go("/owner/connectors", [vertical |-> "x"])} ELSE {}

PageLinks(r, p) ==
  CASE p.to = "/" -> HomeLinks(r)
    [] p.to = "/ops/runs" -> {GoId("/ops/runs/$job/$attemptId", "matching"),
                              GoId("/requests/$requestId", "uuid")}
    [] p.to = "/ops/runs/$job/$attemptId" -> RunDetailLinks(p.id)
    [] p.to = "/ops/workers" -> WorkersLinks
    [] p.to = "/ops/workers/trends" -> {Go("/ops/workers", NoSearch),
                                        Go("/ops/runs", RunsForWorker("matching"))}
    [] p.to = "/ops/workers/escalations" -> {Go("/ops/workers", NoSearch),
                                             Go("/ops/workers/settings", NoSearch)}
    [] p.to = "/ops/workers/settings" -> SettingsLinks
    [] p.to = "/ops/connections" -> {Go("/ops/workers/settings", NoSearch)}
    [] p.to = "/ops/workers/$workerName/queue" -> QueueLinks(p.id)
    [] p.to = "/ops/workers/settings/tables" -> TablesLinks
    [] p.to = "/ops/incidents" -> {Go("/ops/runs", [status |-> "failed"])}
    [] p.to = "/ops/jobs" -> {Go("/ops/runs", [job |-> "matching", window |-> "24h"])}
    [] p.to = "/requests" -> RequestsLinks(r)
    [] p.to = "/requests/needs-attention" -> ConnectorLinks(r)
    [] p.to = "/requests/$requestId" -> DetailLinks(r)
    [] p.to = "/requests/new" -> {Go("/requests", NoSearch), InboxPage([kind |-> "triage"])}
    [] p.to = "/requests/slas" -> {InboxPage([filter |-> "fulfillment"])}
    [] OTHER -> {}

Links == NavLinks(role) \cup PaletteLinks(role) \cup PageLinks(role, at)

-----------------------------------------------------------------------------
(* Navigation                                                              *)

Navigate(p, from) ==
  /\ settled
  /\ at' = p /\ hops' = 0 /\ settled' = FALSE /\ asked' = from
  /\ UNCHANGED role

(* A link of a page that is shown; links of a forbidden page are the       *)
(* shell's.                                                                *)
Follow == \E l \in IF Allowed(role, at.to) THEN Links ELSE NavLinks(role) \cup PaletteLinks(role) :
            Navigate(l, l)

(* The inbox rewrites its own search: chips, lanes, filters, clear.        *)
PatchInbox(patch) ==
  /\ at.to = "/requests/needs-attention"
  /\ LET merged == InboxPage(MergeInbox(at.search, patch)) IN Navigate(merged, merged)

(* A typed, bookmarked or mailed address.                                  *)
OpenUrl(p) == Navigate(p, Nowhere)

Redirected ==
  /\ ~settled /\ Redirect(at) # Nowhere
  /\ at' = Redirect(at) /\ hops' = hops + 1
  /\ UNCHANGED <<role, settled, asked>>

Shown ==
  /\ ~settled /\ Redirect(at) = Nowhere
  /\ at' = [at EXCEPT !.search = Parse(at.to, @)] /\ settled' = TRUE
  /\ UNCHANGED <<role, hops, asked>>

RoutesInit ==
  /\ role \in Roles /\ at = Go("/", Parse("/", NoSearch))
  /\ hops = 0 /\ settled = TRUE /\ asked = Nowhere

RoutesNext ==
  \/ Follow \/ Redirected \/ Shown
  \/ \E p \in Urls : OpenUrl(p)
  \/ \E patch \in Patches : PatchInbox(patch)

-----------------------------------------------------------------------------
(* Properties                                                              *)

(* Whatever the navigation, the palette or a page offers a role ends, past *)
(* every redirect, on a page that role may open: nobody is led to the      *)
(* Forbidden screen by the program itself.                                 *)
LinksOpen == settled /\ asked # Nowhere => Allowed(role, at.to)

(* Types; and redirects settle, two at most, whatever was typed.           *)
RoutesTypeOK == role \in Roles /\ hops \in 0 .. 2 /\ settled \in BOOLEAN

(* Nothing a link asks for is dropped on its way: the page it ends on      *)
(* shows each parameter the link named (a filter tile that its page does   *)
(* not understand would silently show everything).                         *)
LinkSearchKept ==
  settled /\ asked # Nowhere =>
    \A k \in DOMAIN asked.search : k \in DOMAIN at.search /\ at.search[k] = asked.search[k]

(* What a page is shown with is in its own normal form, also after a       *)
(* redirect from an older address and after the inbox merged a patch: a    *)
(* reload shows the same page.                                             *)
SearchSettled == settled => Parse(at.to, at.search) = at.search

(* A link does what it says: it ends on a page the role may open, with     *)
(* every parameter it named (NavMenu.tsx, CommandPalette.tsx, router.tsx). *)
LinksLand == LinksOpen /\ LinkSearchKept

RoutesTold == LinksLand /\ SearchSettled

RoutesSpec == RoutesInit /\ [][RoutesNext]_routeVars

=============================================================================
