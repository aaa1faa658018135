----------------------------- MODULE MCScreens ------------------------------
(***************************************************************************)
(* Instances of the modules of the web client for TLC: the session, the    *)
(* routes, the owner's wizard, the review pane, the inbox and the other    *)
(* pages share no state, and a behaviour is about one of them, part.  The  *)
(* others are not mounted, and have no state (None), or rest in one of     *)
(* their initial states; the session rests signed in.                      *)
(***************************************************************************)
EXTENDS Session, Routes, OwnerWizard, InboxReview, Inbox, RequestDetail, RequestPanels,
        JourneyChrome, DropConsole, OwnerSettings, RequestsList,
        OpsPages, ConnectionsAdmin, LegalSettings, LiveEvents,
        ProdCutover, Shell, InboxNotes

VARIABLE part

(* The pages whose parts are small.                                        *)
pageVars == <<chromeVars, consoleVars, settingsVars, listVars, opsVars, linkVars, legalVars,
              liveVars, cutoverVars, shellVars, notesVars>>

screenVars == <<part, sessionVars, routeVars, wizardVars, reviewVars, inboxVars, detailVars,
                panelVars, pageVars>>

-----------------------------------------------------------------------------
(* Values                                                                  *)

(* Search parameters someone types: valid ones, and one the page refuses.  *)
Typed == [tab |-> {"history", "matching", "home", "configurations", "failed"},
  process |-> {"7", "0"}, stage |-> {"review", "x"}, window |-> {"24h", "3m", "x"},
  status |-> {"failed", "x"}, since |-> {"day", "x", "blank"}, limit |-> {"900", "0"},
  state |-> {"ca", "CA", "blank"}, kind |-> {"triage", "x"}, source |-> {"email", "drop", "x"},
  job |-> {"matching", "x"}]

KeysOf ==
  ("/" :> {"tab", "process", "stage"}) @@ ("/ops/drop-pipeline" :> {"tab", "process", "stage"})
  @@ ("/ops/runs" :> {"window", "status", "since", "job"})
  @@ ("/ops/de-monitor" :> {"tab", "window", "job"}) @@ ("/ops/workers" :> {"tab", "window"})
  @@ ("/requests" :> {"state", "source"})
  @@ ("/requests/needs-attention" :> {"kind", "source"})
  @@ ("/requests/inbox-status-lab" :> {"kind", "source"})

Searches(keys) ==
  FoldSet(LAMBDA k, found : found \cup {f @@ (k :> v) : f \in found, v \in Typed[k]}, {<<>>}, keys)

MCUrls ==
  UNION {{Go(to, s) : s \in Searches(KeysOf[to])} : to \in DOMAIN KeysOf}
  \cup {GoId("/ops/workers/$workerName", w) : w \in {"matching", "reaper"}}
  \cup {[GoId("/ops/workers/$workerName/queue", "matching") EXCEPT !.search = [limit |-> "900"]]}
  \cup {GoId("/requests/$requestId", i) : i \in {"uuid", "junk"}}
  \cup {Go(to, NoSearch) : to \in OpsPages \cup
          {"/owner/connectors", "/docs", "/requests/new", "/requests/slas",
           "/approvals/matching-review", "/ops/dashboard", "/ops/workers/failed",
           "/ops/health", "/ops/health/escalations", "/ops/health/configuration"}}

MCPatches == {[kind |-> "blank"], [kind |-> "triage", filter |-> "notice"], [source |-> "email"],
            [source |-> "x"], [filter |-> "blank", source |-> "blank"]}

(* The review pane: two items wait for matching, one with no contact.      *)
CONSTANTS item1, item2, person1, c1, c2

MCWork         == (item1 :> "matching") @@ (item2 :> "matching")
MCMatched      == (item1 :> {person1}) @@ (item2 :> {})
MCRowAdvice    == (item1 :> 5) @@ (item2 :> 3)
MCDetailAdvice == (item1 :> 3) @@ (item2 :> 5)

(* Rows of the inbox: two systems of one request, a kickoff whose system   *)
(* needs a refresh, rows of legal lanes, and a row of two connections.     *)
Blank == [request |-> "r1", vertical |-> "", system |-> "", kind |-> "", reason |-> "",
          stage |-> "", match |-> "", count |-> NoCount, status |-> 0, gate |-> "",
          target |-> "", assignee |-> "", source |-> "webform", day |-> 1, batch |-> "",
          channels |-> {}, connections |-> <<>>]
Match  == [Blank EXCEPT !.kind = "matching", !.reason = "matching.review", !.stage = "review",
                        !.vertical = "vh", !.system = "s1", !.match = "single_match",
                        !.source = "drop"]
Other  == [Match EXCEPT !.system = "s2", !.gate = "escalate"]
Kick   == [Blank EXCEPT !.request = "r2", !.reason = "fulfillment.kickoff",
                        !.stage = "fulfillment", !.system = "s3"]
Triage == [Blank EXCEPT !.request = "r3", !.kind = "triage", !.day = 3]
Notice == [Blank EXCEPT !.request = "r4", !.kind = "notice", !.day = 2]
Joined == [Match EXCEPT !.connections = <<[system |-> "s1", vertical |-> ""],
                                          [system |-> "s2", vertical |-> ""]>>]

MCRows  == [ops |-> <<Match, Other>>, legal |-> <<Notice, Triage>>, owner |-> <<Joined, Kick>>]
MCThree == [ops |-> <<Match, Other, [Other EXCEPT !.system = "s4"]>>]
MCLate  == {Triage, Joined}
MCKickoffs  == <<Kick>>
MCReminders == {[code |-> "wizard_incomplete", system |-> "s4", vertical |-> "vh"]}
MCGate  == [blocked |-> TRUE, system |-> "s3", code |-> "upload_stale"]
MCUses  == {"all", "escalations", "fulfillment", "pending_tasks", "", "notice", "pre_matching_holds",
            "single_match", "status", "s2"}

(* What is written beside a row in triage, nobody's, and two of a request. *)
MCNoteRows == {Triage} \cup {[Match EXCEPT !.vertical = v, !.assignee = "ann"] : v \in {"vh", "tech"}}
MCFound    == "n" :> {"ann"} @@ "x@x" :> {}

(* Two requests: one in review, whose matching result changes, and one     *)
(* closed.                                                                 *)
Finds(stage, result) == [stage |-> stage, result |-> result]
MCPath     == ("q1" :> <<Finds("review", "many"), Finds("review", "one")>>)
              @@ ("q2" :> <<Finds("closed", "nobody")>>)
MCViews    == {<<"page", "owner">>, <<"overlay", "legal">>}
MCMaxPosts == [overlay |-> 1, page |-> 0]

(* Stacks of two requests under review, one of them at two systems, one    *)
(* that is being fulfilled, and one whose system has no label.             *)
Sys(s, label, stage) == [system |-> s, label |-> label, stage |-> stage]
Mem(i, stage, drop, access, systems) ==
  [id |-> i, stage |-> stage, drop |-> drop, access |-> access, systems |-> systems]

MCMembers ==
  {Mem(1, "triage", FALSE, FALSE, <<>>),
   Mem(1, "review", TRUE, FALSE, <<Sys("s1", TRUE, ""), Sys("s2", TRUE, "fulfillment")>>),
   Mem(1, "review", TRUE, FALSE, <<Sys("s2", TRUE, "")>>),
   Mem(2, "fulfillment", TRUE, FALSE, <<Sys("s1", TRUE, ""), Sys("", TRUE, "")>>),
   Mem(2, "notice", TRUE, FALSE, <<Sys("cassandra", FALSE, "")>>),
   Mem(3, "notice", FALSE, FALSE, <<>>),
   Mem(3, "delivery", FALSE, TRUE, <<Sys("s1", TRUE, "")>>)}

Journey(stage, drop, state, also) ==
  [stage |-> stage, drop |-> drop, access |-> FALSE,
   status |-> [k \in {"received", "triage", "promote", "match", "review", "fulfill", "notice",
                      "delivery"} |->
     IF k = also THEN "in_progress"
     ELSE IF Place(OPS_SUBSTEP_SEQUENCE, k) < Place(OPS_SUBSTEP_SEQUENCE, stage) THEN "complete"
     ELSE IF k = stage THEN state ELSE "not_started"]]

MCJourneys ==
  {Journey(stage, drop, state, also) : stage \in {"triage", "review", "fulfill", "notice"},
     drop \in BOOLEAN, state \in {"waiting", "failed"}, also \in {"", "fulfill"}}

MCAttempts == {[blocked |-> TRUE, system |-> "s1", vertical |-> "hr", code |-> "gate_blocked"],
               [blocked |-> FALSE, system |-> "s1", vertical |-> "hr", code |-> "auth_failed"],
               [blocked |-> FALSE, system |-> "s1", vertical |-> "", code |-> ""]}

Overdues(c, late, v, sys) ==
  [code |-> c, overdue |-> late, vertical |-> v, system |-> sys]
MCOverdue == {Overdues("upload_stale", TRUE, "data", "s2"), Overdues("other", TRUE, "data", "s2"),
              Overdues("rotation_overdue", TRUE, "hr", "s1"),
              Overdues("upload_approaching", TRUE, "hr", "s1")}

(* Bulk processes 2 and 3 are of the last two days; every pair of statuses *)
(* of two matching attempts; a stage while its files are being promoted.   *)
Numbered(s) == {[id |-> k, status |-> s[k]] : k \in DOMAIN s}
Told(current, overall, matching, promote, vs, gs) ==
  [current |-> current, overall |-> overall, fresh |-> TRUE, begins |-> current = "promote",
   toReview |-> 0, land |-> {[id |-> 9, status |-> "success"]}, promote |-> Numbered(promote),
   matching |-> Numbered(matching),
   verticals |-> vs, now |-> 9, groups |-> gs]
Vert(live, catalog, total, open, fly, ok) ==
  [live |-> live, catalog |-> catalog, total |-> total, open |-> open, in_flight |-> fly,
   success |-> ok]
Span(a, b) == [start |-> a, end |-> b]

MCDetails ==
  {Told("matching", "in_progress", <<a, b>>, <<"success">>,
        <<Vert(TRUE, FALSE, 2, 0, 0, 2), Vert(TRUE, FALSE, 2, 1, 0, 1)>>,
        <<<<Span(1, 5)>>, <<Span(1, 2), Span(2, 4)>>>>) :
     a, b \in StageStatuses}
  \cup {Told("promote", "needs_attention", <<>>, p, <<Vert(FALSE, TRUE, 0, 0, 0, 0)>>,
             <<<<Span(3, 0)>>, <<>>>>) :
          p \in {<<"pending">>, <<"success", "submit_error">>, <<"claimed", "abandoned">>}}
MCHistories == {1 :> {"pending", "timeout"} @@ 2 :> {"success"},
                3 :> {"outcome_error", "claimed"} @@ 2 :> {"abandoned"}}
MCProbes    == <<"ok", "missing", "unprobed", "refused">>

(* Bindings of the catalogue (connections/catalog.py), the worker's own    *)
(* hidden one with them; documents of two columns and a row, or of one     *)
(* column and two rows.                                                    *)
Bind(s, ways) == [system |-> s, ways |-> ways]
Both == {"live", "upload"}
MCBound ==
  ("communications" :> <<Bind("axios_headquarters", {"upload"})>>)
  @@ ("people_hr" :> <<Bind("paylocity", Both), Bind("lever", Both), Bind("hr_alumni", Both)>>)
  @@ ("tech" :> <<Bind("auth0", Both)>>) @@ ("bizdev" :> <<Bind("bizdev_contacts", Both)>>)
  @@ ("test" :> <<Bind("cassandra", {}), Bind("hr_alumni", Both)>>)

MCStamps    == {[cadence |-> "", policy |-> "volatile", days |-> 7]}
MCCells     == UNION {[1..n -> {"q", "c", "n", "r", "o"}] : n \in 0..2}
MCDocuments ==
  {[headers |-> <<<<"o">>, <<"c">>>>, rows |-> <<<<x, y>>>>] : x, y \in MCCells}
  \cup {[headers |-> <<<<"o">>>>, rows |-> <<<<x>>, <<y>>>>] : x, y \in MCCells}
  \cup {[headers |-> <<<<"o", x, "o">>, <<>>>>, rows |-> <<>>] : x \in {"q", "c", "n", "b"}}

(* The list: one source sends in a row with short gaps, then again; the    *)
(* other in between.  A page by request does not hold all, nor one by batch*)
MCIntake ==
  LET of(i, src, t, pos, inIds, inNames) ==
        [id |-> i, source |-> src, at |-> t, posture |-> pos, inId |-> inIds, inName |-> inNames]
  IN <<of(5, "drop", 20, "in_queue", {}, {}), of(6, "drop", 16, "in_queue", {}, {}),
       of(3, "csv", 14, "in_queue", {}, {"x", "xy"}),
       of(4, "drop", 13, "in_queue", {"x", "xy"}, {}), of(2, "drop", 12, "complete", {}, {"x"}),
       of(1, "drop", 10, "in_queue", {"x"}, {"x", "xy"})>>
MCLateIntake == {5}

(* Two runs of the list time out, one of a worker that polls; the registry *)
(* worker has an attempt table and no unified runs.                        *)
MCOpsRuns ==
  LET of(i, job, st, age) == [id |-> i, job |-> job, status |-> st, age |-> age]
  IN {of(9, "matching", "pending", 1), of(8, "drop_connector", "in_flight", 1),
       of(7, "matching", "timeout", 2), of(6, "hash_index_refresh", "abandoned", 2),
       of(5, "matching", "submit_error", 3), of(4, "drop_ingestor", "claimed", 3),
       of(3, "drop_connector", "outcome_error", 4), of(2, "matching", "success", 4)}
MCOpsTables == "matching" :> {"matching_attempts"} @@ "notice" :> {"n1_attempts", "n2_attempts"}
MCOpsRows ==
  LET of(n, sts) == [i \in 1..n |-> [id |-> i, status |-> sts[1 + (i % 2)]]]
  IN "matching_attempts" :> of(5, <<"pending", "success">>)
     @@ "n1_attempts" :> of(3, <<"pending", "pending">>) @@ "n2_attempts" :> of(1, <<"success", "pending">>)
MCDayTexts  == {<<>>, <<15, 1, 1>>, <<0, 32>>, <<31>>}

(* Two texts a request is searched by, one of which finds fewer later.     *)
MCTexts ==
  LET of(t, long) == [id |-> t, long |-> long]
  IN {of("none", FALSE), of("a", FALSE), of("ab", TRUE), of("cd", TRUE)}
MCFinds(q)   == CASE q.id = "ab" -> {<<"r1", "r2">>, <<"r1">>}
                  [] q.id = "cd" -> {<<"r3">>}
                  [] OTHER       -> {<<>>}
MCActions(q) == CASE q.id = "none" -> <<"home", "inbox">> [] q.id = "a" -> <<"inbox">> [] OTHER -> <<>>
MCPeople     == <<"p1">>
MCPaletteIds == {"r1", "r2", "r3", "p1", "home", "inbox"}

-----------------------------------------------------------------------------

Parts == {"session", "routes", "wizard", "review", "inbox", "detail", "panels", "chrome", "console",
          "settings", "list", "ops", "links", "legal", "live", "cutover", "shell", "notes"}

ScreensInit ==
  /\ part \in Parts
  /\ IF part = "session" THEN SessionInit ELSE
       /\ direct = FALSE /\ client = FALSE /\ online = TRUE /\ token = "none" /\ tap = FALSE
       /\ mint = "idle" /\ waits = {} /\ ready = TRUE /\ signed = FALSE /\ me = "allowed"
       /\ status = "success" /\ fetch = "idle" /\ carried = "none" /\ slow = FALSE
  /\ RoutesInit /\ (part # "routes" => role = "legal")
  /\ WizardInit /\ (part # "wizard" => kind = "sheets" /\ conn.data = None /\ ~conn.completed)
  /\ ReviewInit /\ (part # "review" => item = item1)
  /\ DetailInit /\ (part # "detail" => variant = "page" /\ viewer = "owner")
  /\ IF part = "panels" THEN PanelsInit ELSE
       /\ kicks = [v \in Verticals |-> 0] /\ missed = FALSE /\ entries = <<>>
       /\ desk = None /\ kicked = None /\ rowsKicked = None /\ verified = None
       /\ override = None /\ typed = None /\ sends = None /\ latestSend = None
       /\ sendsMade = None /\ retryable = None /\ artifact = None /\ email = None
       /\ chosen = None /\ detail = None /\ railTab = None /\ listFilter = None
  /\ IF part = "links" THEN LinksInit ELSE
       /\ switched = TRUE /\ linksMade = <<>> /\ assigned2 = {} /\ pairs = {}
       /\ linkDesk = None /\ registry = None /\ rows = None /\ dlg = None /\ asks = None
       /\ fetches = None /\ retriable = None /\ askedOf = None /\ crossed = None
       /\ form = None /\ pressed = None /\ board2 = None /\ dark = None /\ asksMade = None
  /\ LegalInit /\ (part # "legal" => legalDesk = "team")
  /\ IF part = "live" THEN LiveInit ELSE
       /\ paints = [c \in PaintCaches |-> Unseen] /\ owed = {}
       /\ liveDesk = None /\ rollup = None /\ bridge = None /\ readers = None
       /\ stream = None /\ polls = None /\ lapsed = None /\ regressed = None
  /\ InboxInit /\ (part # "inbox" => persona = "ops")
  /\ ChromeInit /\ (part # "chrome" => look = "stack")
  /\ ConsoleInit /\ (part # "console" => console = "address")
  /\ IF part = "settings" THEN SettingsInit ELSE
       /\ corner = None /\ walked = None /\ clean = None /\ stepNo = None
       /\ ofSheet = None /\ stored = None /\ cached = None /\ saves = None
       /\ saved = None /\ again = None /\ reading = None /\ unread = None
       /\ lost = None /\ document = None
  /\ IF part = "list" THEN ListInit ELSE
       /\ received = {} /\ sought = Unfiltered /\ needle = "" /\ leaf = 1
       /\ held = [rows |-> <<>>, total |-> 0, offset |-> 0]
       /\ loaded = FALSE /\ drilled = {} /\ searches = 0
  /\ OpsInit /\ (part # "ops" => opsDesk = "fleet")
  /\ CutoverInit
  /\ ShellInit /\ (part # "shell" => shellDesk = "menu")
  /\ IF part = "notes"
       THEN NotesInit /\ noteItem = ItemKey(Triage) /\ noteDesk # [what |-> "assign", viewer |-> "ops"]
       ELSE /\ noteDesk = [what |-> "note", viewer |-> "ops"] /\ kept = {} /\ onList = {}
            /\ noteItem = NoPane /\ choice = "" /\ noteText = "" /\ noteCalls = {} /\ lastNote = 0
            /\ noteRetries = {} /\ noteRetried = FALSE /\ ledger = <<>> /\ pickerOpen = FALSE
            /\ search = "" /\ dropped = {} /\ strayed = FALSE

(* Bounds.  A system of both kinds is opened once, and its owner goes back *)
(* only from the steps the sheets system has not; a reviewer picks one of  *)
(* the two statuses that need people; one filter of the inbox at a time.   *)
WizardBound ==
  kind = "both" =>
    /\ opened' <= 1
    /\ Len(stack') < Len(stack) => stack' = <<>> \/ Top \in {"cred", "test", "seed", "upload"}
ReviewBound == batchCode' # 4 /\ code' # 4
InboxBound  == match' = "all" \/ system' = ""

ScreensNext ==
  \/ /\ part = "session"
     /\ UNCHANGED <<part, routeVars, wizardVars, reviewVars, inboxVars, detailVars,
                  panelVars, pageVars>>
     /\ SessionNext
  \/ /\ part = "routes"
     /\ UNCHANGED <<part, sessionVars, wizardVars, reviewVars, inboxVars, detailVars,
                  panelVars, pageVars>>
     /\ RoutesNext
  \/ /\ part = "wizard"
     /\ UNCHANGED <<part, sessionVars, routeVars, reviewVars, inboxVars, detailVars,
                  panelVars, pageVars>>
     /\ WizardNext /\ WizardBound
  \/ /\ part = "review"
     /\ UNCHANGED <<part, sessionVars, routeVars, wizardVars, inboxVars, detailVars,
                  panelVars, pageVars>>
     /\ ReviewNext /\ ReviewBound
  \/ /\ part = "inbox"
     /\ UNCHANGED <<part, sessionVars, routeVars, wizardVars, reviewVars, detailVars,
                  panelVars, pageVars>>
     /\ InboxNext /\ InboxBound
  \/ /\ part = "detail"
     /\ UNCHANGED <<part, sessionVars, routeVars, wizardVars, reviewVars, inboxVars,
                  panelVars, pageVars>>
     /\ DetailNext
  \/ /\ part = "panels"
     /\ UNCHANGED <<part, sessionVars, routeVars, wizardVars, reviewVars, inboxVars,
                  detailVars, pageVars>>
     /\ PanelsNext
  \/ /\ part = "chrome"
     /\ UNCHANGED <<part, sessionVars, routeVars, wizardVars, reviewVars, inboxVars,
                  detailVars, panelVars, consoleVars, settingsVars, listVars, opsVars,
                  linkVars, legalVars, liveVars, cutoverVars, shellVars, notesVars>>
     /\ ChromeNext
  \/ /\ part = "console"
     /\ UNCHANGED <<part, sessionVars, routeVars, wizardVars, reviewVars, inboxVars,
                  detailVars, panelVars, chromeVars, settingsVars, listVars, opsVars, linkVars,
                  legalVars, liveVars, cutoverVars, shellVars, notesVars>>
     /\ ConsoleNext
  \/ /\ part = "settings"
     /\ UNCHANGED <<part, sessionVars, routeVars, wizardVars, reviewVars, inboxVars,
                  detailVars, panelVars, chromeVars, consoleVars, listVars, opsVars, linkVars,
                  legalVars, liveVars, cutoverVars, shellVars, notesVars>>
     /\ SettingsNext
  \/ /\ part = "list"
     /\ UNCHANGED <<part, sessionVars, routeVars, wizardVars, reviewVars, inboxVars,
                  detailVars, panelVars, chromeVars, consoleVars, settingsVars, opsVars,
                  linkVars, legalVars, liveVars, cutoverVars, shellVars, notesVars>>
     /\ ListNext
  \/ /\ part = "ops"
     /\ UNCHANGED <<part, sessionVars, routeVars, wizardVars, reviewVars, inboxVars,
                  detailVars, panelVars, chromeVars, consoleVars, settingsVars, listVars,
                  linkVars, legalVars, liveVars, cutoverVars, shellVars, notesVars>>
     /\ OpsNext
  \/ /\ part = "links"
     /\ UNCHANGED <<part, sessionVars, routeVars, wizardVars, reviewVars, inboxVars,
                  detailVars, panelVars, chromeVars, consoleVars, settingsVars, listVars,
                  opsVars, legalVars, liveVars, cutoverVars, shellVars, notesVars>>
     /\ LinksNext
  \/ /\ part = "legal"
     /\ UNCHANGED <<part, sessionVars, routeVars, wizardVars, reviewVars, inboxVars,
                  detailVars, panelVars, chromeVars, consoleVars, settingsVars, listVars,
                  opsVars, linkVars, liveVars, cutoverVars, shellVars, notesVars>>
     /\ LegalNext
  \/ /\ part = "live"
     /\ UNCHANGED <<part, sessionVars, routeVars, wizardVars, reviewVars, inboxVars,
                  detailVars, panelVars, chromeVars, consoleVars, settingsVars, listVars,
                  opsVars, linkVars, legalVars, cutoverVars, shellVars, notesVars>>
     /\ LiveNext
  \/ /\ part = "cutover"
     /\ UNCHANGED <<part, sessionVars, routeVars, wizardVars, reviewVars, inboxVars,
                  detailVars, panelVars, chromeVars, consoleVars, settingsVars, listVars,
                  opsVars, linkVars, legalVars, liveVars, shellVars, notesVars>>
     /\ CutoverNext
  \/ /\ part = "shell"
     /\ UNCHANGED <<part, sessionVars, routeVars, wizardVars, reviewVars, inboxVars,
                  detailVars, panelVars, chromeVars, consoleVars, settingsVars, listVars,
                  opsVars, linkVars, legalVars, liveVars, cutoverVars, notesVars>>
     /\ ShellNext
  \/ /\ part = "notes"
     /\ UNCHANGED <<part, sessionVars, routeVars, wizardVars, reviewVars, inboxVars,
                  detailVars, panelVars, chromeVars, consoleVars, settingsVars, listVars,
                  opsVars, linkVars, legalVars, liveVars, cutoverVars, shellVars>>
     /\ NotesNext

Screens == ScreensInit /\ [][ScreensNext]_screenVars

(* The parts at rest do not change: a state is told from another by the    *)
(* part the behaviour is about.                                            *)
ScreensView ==
  CASE part = "session"  -> <<part, sessionVars>>
    [] part = "routes"   -> <<part, routeVars>>
    [] part = "wizard"   -> <<part, wizardVars>>
    [] part = "review"   -> <<part, reviewVars>>
    [] part = "inbox"    -> <<part, inboxVars>>
    [] part = "detail"   -> <<part, detailVars>>
    [] part = "panels"   -> <<part, panelVars>>
    [] part = "chrome"   -> <<part, chromeVars>>
    [] part = "console"  -> <<part, consoleVars>>
    [] part = "settings" -> <<part, settingsVars>>
    [] part = "list"     -> <<part, listVars>>
    [] part = "ops"      -> <<part, opsVars>>
    [] part = "links"    -> <<part, linkVars>>
    [] part = "legal"    -> <<part, legalVars>>
    [] part = "live"     -> <<part, liveVars>>
    [] part = "cutover"  -> <<part, cutoverVars>>
    [] part = "shell"    -> <<part, shellVars>>
    [] part = "notes"    -> <<part, notesVars>>

-----------------------------------------------------------------------------
(* Properties                                                              *)

(* The type invariant of the part a behaviour is about; the others rest.   *)
ScreensTypeOK ==
  CASE part = "session"  -> SessionTypeOK
    [] part = "routes"   -> RoutesTypeOK
    [] part = "wizard"   -> WizardTypeOK
    [] part = "review"   -> ReviewTypeOK
    [] part = "inbox"    -> InboxTypeOK
    [] part = "detail"   -> DetailTypeOK
    [] part = "panels"   -> PanelsTypeOK
    [] part = "chrome"   -> ChromeTypeOK
    [] part = "console"  -> ConsoleTypeOK
    [] part = "settings" -> SettingsTypeOK
    [] part = "list"     -> ListTypeOK
    [] part = "ops"      -> OpsTypeOK
    [] part = "links"    -> LinksTypeOK
    [] part = "legal"    -> LegalTypeOK
    [] part = "live"     -> LiveTypeOK
    [] part = "cutover"  -> CutoverTypeOK
    [] part = "shell"    -> ShellTypeOK
    [] part = "notes"    -> NotesTypeOK

(* Each page's own properties, of the behaviours that are about it.        *)

(* An enabled Next leads on (needs-attention.tsx:5311-5313); violated.     *)
PagesReached == part = "inbox" => NextIsNoDeadEnd

=============================================================================
