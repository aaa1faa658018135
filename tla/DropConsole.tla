----------------------------- MODULE DropConsole -----------------------------
(***************************************************************************)
(* The console of the registry's intake pipeline                           *)
(* (routes/ops/drop-pipeline.tsx): the page whose address names a bulk     *)
(* process, two mutations that share one result panel, the cards of the    *)
(* processes with the counts of their stages, and the log explorer.        *)
(***************************************************************************)
EXTENDS Integers, SequencesExt, FiniteSets

CONSTANTS
  Bulks,        \* ids of bulk processes, the newest the greatest
  Fresh,        \* those of the last two days
  Details,      \* what the API may tell a card, attempts as [id, status]
  Histories,    \* runs a process list may have: bulk -> their statuses
  Probes,       \* answers of the health probes
  MaxNavs,      \* bound on navigations counted
  NoBulk

(* AttemptStatus; "none" if a request has no attempt yet.                  *)
StageStatuses == {"none", "pending", "claimed", "in_flight", "success",
                  "submit_error", "outcome_error", "timeout", "abandoned"}

(* Ids are numbers, so that of some processes one is the newest; an        *)
(* attempt is of one step.                                                 *)
ASSUME ConsoleAssumption ==
  /\ NoBulk \notin Bulks /\ MaxNavs \in Nat
  /\ \A S \in SUBSET Bulks : S # {} => \E b \in S : \A c \in S : c <= b
  /\ \A d \in Details :
       /\ IsFiniteSet(d.land) /\ IsFiniteSet(d.promote) /\ IsFiniteSet(d.matching)
       /\ \A a \in d.land \cup d.promote \cup d.matching : a.status \in StageStatuses
       /\ d.land \cap d.promote = {}

VARIABLES
  console,      \* which part a behaviour is about
  address,      \* [tab, process] of the page
  recent,       \* recent processes of the snapshot
  navs,         \* navigations by the page's effects since the last event
  board,        \* [wide, opened]: filters of the list, expanded card
  confirming,   \* the confirmation is open
  flights,      \* [run, hash, from]: the calls in flight, where the run began
  answer,       \* [label, result] of the result panel
  notices,      \* [run, hash]: the toast of each
  card,         \* [told, row, tab, open, applied, picked]
  history,      \* [process, filter, groups]
  explorer      \* [mode, levels, draft, query, entry]

boardVars   == <<recent, navs, board>>
callVars    == <<confirming, flights, answer, notices>>
consoleVars == <<console, address, boardVars, callVars, card, history, explorer>>

Max0(S) == IF S = {} THEN NoBulk ELSE CHOOSE b \in S : \A c \in S : c <= b

-----------------------------------------------------------------------------
(* The address and the two effects that keep it                            *)

PIPELINE_TAB_BAR == {"pipeline", "hash_refresh", "history", "errors", "logs"}

Eventful == navs' = 0
Effect   == navs' = IF navs < MaxNavs THEN navs + 1 ELSE navs
Quiet(v) == /\ console = "address" /\ console' = console
            /\ UNCHANGED <<callVars, card, history, explorer>> /\ UNCHANGED v
OnCalls(v)  == /\ console = "calls" /\ console' = console
            /\ UNCHANGED <<boardVars, card, history, explorer>> /\ UNCHANGED v

SnapshotPolled(S) ==
  /\ recent' = S /\ Eventful /\ Quiet(<<address, board>>)

RecentFresh       == recent \cap Fresh

AutoSelect ==
  /\ address.process = NoBulk /\ RecentFresh # {}
  /\ address' = [address EXCEPT !.process = Max0(RecentFresh)]
  /\ Effect /\ Quiet(<<recent, board>>)

DropGone ==
  /\ address.process # NoBulk /\ recent # {} /\ address.process \notin recent
  /\ address' = [address EXCEPT !.process = NoBulk]
  /\ Effect /\ Quiet(<<recent, board>>)

(* Rows of the default filters are those of the snapshot, of wider ones    *)
(* all; expanding a row puts it into the address.                          *)
ListedBulks == IF board.wide THEN Bulks ELSE recent

ToggleRow(b) ==
  /\ address.tab = "pipeline" /\ b \in ListedBulks
  /\ board' = [board EXCEPT !.opened = IF @ = b THEN NoBulk ELSE b]
  /\ address' = IF board.opened = b THEN address ELSE [address EXCEPT !.process = b]
  /\ Eventful /\ Quiet(<<recent>>)

ChangeWindow ==
  /\ address.tab = "pipeline" /\ board' = [board EXCEPT !.wide = ~@]
  /\ Eventful /\ Quiet(<<address, recent>>)

(* The list leaves with its tab, and its filters and expansion with it.    *)
Leaves(t) == IF address.tab = "pipeline" /\ t # "pipeline"
             THEN [board EXCEPT !.wide = FALSE, !.opened = NoBulk] ELSE board

SetTab(t) ==
  /\ address' = [address EXCEPT !.tab = t] /\ board' = Leaves(t)
  /\ Eventful /\ Quiet(<<recent>>)

-----------------------------------------------------------------------------
(* Running the pipeline: three posts in a row behind one confirmation      *)

AskRun ==
  /\ flights.run = "no" /\ ~confirming /\ confirming' = TRUE
  /\ OnCalls(<<address, flights, answer, notices>>)

CancelRun ==
  /\ confirming /\ flights.run = "no" /\ confirming' = FALSE
  /\ OnCalls(<<address, flights, answer, notices>>)

StartRun(from) ==
  /\ flights' = [flights EXCEPT !.run = "download", !.from = from]
  /\ notices' = [notices EXCEPT !.run = "none"]
  /\ OnCalls(<<address, confirming, answer>>)

ConfirmRun ==
  /\ confirming /\ flights.run = "no"
  /\ StartRun(IF address.tab = "pipeline" THEN "here" ELSE "away")

(* Retry repeats all three posts, those that were accepted too.            *)
RetryRun == notices.run = "retry" /\ StartRun(flights.from)

RunStep ==
  /\ flights.run \in {"download", "land"}
  /\ flights' = [flights EXCEPT !.run = IF @ = "download" THEN "land" ELSE "promote"]
  /\ OnCalls(<<address, confirming, answer, notices>>)

RunSucceeds ==
  /\ flights.run = "promote"
  /\ flights' = [flights EXCEPT !.run = "no"]
  /\ confirming' = FALSE
  /\ answer' = [label |-> "run", result |-> "run"]
  /\ notices' = [notices EXCEPT !.run = "done"]
  /\ OnCalls(address)

RunFails ==
  /\ flights.run # "no"
  /\ flights' = [flights EXCEPT !.run = "no"]
  /\ notices' = [notices EXCEPT !.run = "retry"]
  /\ OnCalls(<<address, confirming, answer>>)

-----------------------------------------------------------------------------
(* Refreshing the hash index: enqueue, then process                        *)

HashDisabled == flights.hash # "no"

StartHash ==
  /\ flights' = [flights EXCEPT !.hash = "enqueue"]
  /\ answer' = [label |-> "hash", result |-> "pending"]
  /\ notices' = [notices EXCEPT !.hash = "none"]
  /\ OnCalls(<<address, confirming>>)

RefreshHash == address.tab = "hash_refresh" /\ ~HashDisabled /\ StartHash
RetryHash   == notices.hash = "retry" /\ StartHash

HashStep ==
  /\ flights.hash = "enqueue" /\ flights' = [flights EXCEPT !.hash = "process"]
  /\ OnCalls(<<address, confirming, answer, notices>>)

ShowsError(p)   == [p EXCEPT !.result = "error"]

HashEnds(ok) ==
  /\ flights.hash # "no" /\ (ok => flights.hash = "process")
  /\ flights' = [flights EXCEPT !.hash = "no"]
  /\ answer' = IF ok THEN [answer EXCEPT !.result = "hash"] ELSE ShowsError(answer)
  /\ notices' = [notices EXCEPT !.hash = IF ok THEN "done" ELSE "retry"]
  /\ OnCalls(<<address, confirming>>)

ClearPanel ==
  /\ answer.label # "none" /\ address.tab \in {"pipeline", "hash_refresh"}
  /\ answer' = [label |-> "none", result |-> "none"]
  /\ OnCalls(<<address, confirming, flights, notices>>)

(* View result of a run goes to the pipeline tab if the run was confirmed  *)
(* on another: if not, nowhere, though the reader has left it since.  That *)
(* of a refresh never moves, its button is on the tab it goes to.          *)
ViewResult ==
  /\ notices.run = "done"
  /\ address' = IF flights.from = "here" THEN address ELSE [address EXCEPT !.tab = "pipeline"]
  /\ OnCalls(<<callVars>>)

ChangeTab(t) == address' = [address EXCEPT !.tab = t] /\ OnCalls(<<callVars>>)

-----------------------------------------------------------------------------
(* The counts of a stage.  The API counts attempts by status; a card shows *)
(* five numbers made of them.  An attempt of the matching rollup may have  *)
(* no row yet ("none"), which the API counts as pending.                   *)

StatusIn(s, e) == Cardinality({a \in s : a.status \in e})

(* _TERMINAL_FAIL_STATUSES.                                                *)
TerminalFail == {"submit_error", "outcome_error", "timeout", "abandoned"}

Counts(s) ==
  [total   |-> Cardinality(s),
   open    |-> StatusIn(s, {"none", "pending", "claimed", "in_flight"}),
   success |-> StatusIn(s, {"success"}),
   failed  |-> StatusIn(s, TerminalFail),
   rows    |-> [pending   |-> StatusIn(s, {"none", "pending"}),
                claimed   |-> StatusIn(s, {"claimed"}),
                in_flight |-> StatusIn(s, {"in_flight"}),
                abandoned |-> StatusIn(s, {"abandoned"})]]

MergeCounts(a, b) ==
  [total |-> a.total + b.total, open |-> a.open + b.open, success |-> a.success + b.success,
   failed |-> a.failed + b.failed,
   rows |-> [k \in DOMAIN a.rows |-> a.rows[k] + b.rows[k]]]

Indicators(c) ==
  [finished  |-> c.success,
   queued    |-> c.rows.pending,
   in_flight |-> c.rows.claimed + c.rows.in_flight,
   failed    |-> IF c.failed > c.rows.abandoned THEN c.failed - c.rows.abandoned ELSE 0,
   abandoned |-> c.rows.abandoned]

(* The tiles, each a link to the runs in its state.                        *)
Tiles(i) == <<i.queued, i.in_flight, i.failed, i.abandoned, i.finished>>

WorkerDone(open, in_flight) == open = 0 /\ in_flight = 0

StageVisual(c, current) ==
  IF c.total = 0 THEN IF current THEN "active" ELSE "idle"
  ELSE IF c.failed > 0 THEN "failed"
  ELSE IF WorkerDone(c.open, Indicators(c).in_flight) THEN "complete"
  ELSE IF c.open > 0 \/ c.success < c.total THEN IF current THEN "active" ELSE "pending"
  ELSE IF current THEN "active" ELSE "idle"

BULK_CARD_STAGE_TABS == {"download", "ingest", "matching", "review", "fulfillment"}

TabOf(stage) ==
  CASE stage \in {"land", "promote"}             -> "ingest"
    [] stage \in {"matching", "review"}          -> stage
    [] stage \in {"fulfillment", "fulfill"}      -> "fulfillment"
    [] OTHER                                     -> "download"

CountsForTab(d, tab) ==
  IF tab = "matching" THEN Counts(d.matching) ELSE MergeCounts(Counts(d.land), Counts(d.promote))

IsTabCurrent(d, tab) == TabOf(d.current) = tab

(* The dot of a chip pulses while its stage is current and not done.       *)
Pulses(d, tab, running) ==
  IsTabCurrent(d, tab) /\ running /\ StageVisual(CountsForTab(d, tab), TRUE) # "complete"

BulkRunning(d) == d.fresh /\ d.overall \in {"in_progress", "needs_attention"}

(* The strip of verticals: catalog entries do not count, the worst leads.  *)
LiveVerticals(vs)  == SelectSeq(vs, LAMBDA v : v.live /\ ~v.catalog)
VerticalDone(v)    == v.total > 0 /\ WorkerDone(v.open, v.in_flight)
DoneVerticals(vs)  == Len(SelectSeq(LiveVerticals(vs), VerticalDone))
WorstVertical(vs)  ==
  LET share(v) == IF v.total = 0 THEN 0 ELSE (100 * v.success) \div v.total
      live     == LiveVerticals(vs)
  IN CHOOSE k \in DOMAIN live : \A j \in DOMAIN live :
       \/ share(live[k]) < share(live[j])
       \/ share(live[k]) = share(live[j]) /\ k <= j

-----------------------------------------------------------------------------
(* Durations of a stage: from the first start to the last end, to now      *)
(* while a run is open; the average is over finished ones of the others.   *)

Lowest(S)  == CHOOSE x \in S : \A y \in S : x <= y
Highest(S) == CHOOSE x \in S : \A y \in S : y <= x

StageSpan(runs, now, finished) ==
  LET starts == {runs[k].start : k \in DOMAIN runs}
      ends   == {runs[k].end : k \in {j \in DOMAIN runs : runs[j].end # 0}}
      open   == \E k \in DOMAIN runs : runs[k].end = 0
  IN CASE runs = <<>> \/ (finished /\ open) -> -1
       [] runs # <<>> /\ open /\ ~finished  -> now - Lowest(starts)
       [] OTHER -> Highest(ends) - Lowest(starts)

AverageSpan(groups, mine) ==
  LET spans == {<<k, StageSpan(groups[k], 0, TRUE)>> : k \in DOMAIN groups \ {mine}}
      known == {s \in spans : s[2] > 0}
  IN IF known = {} THEN -1 ELSE FoldSet(LAMBDA s, n : s[2] + n, 0, known) \div Cardinality(known)

-----------------------------------------------------------------------------
(* One card                                                                *)

Untold == [current |-> "none", overall |-> "none", fresh |-> FALSE, begins |-> FALSE,
           toReview |-> 0, land |-> {}, promote |-> {},
           matching |-> {}, verticals |-> <<>>, now |-> 0, groups |-> <<<<>>>>]

(* What the row of a process says: running, waiting, to be reviewed.       *)
RowTone(d) ==
  CASE BulkRunning(d) -> "running"
    [] ~BulkRunning(d) /\ d.begins -> "pending"
    [] OTHER -> IF d.overall = "needs_attention" \/ d.toReview > 0 THEN "review" ELSE "plain"

(* The health cell: services that answer over those that are deployed.     *)
WorkerProbeTone(w) ==
  CASE w = "unprobed" -> "unknown" [] w = "ok" -> "up"
    [] w \in {"missing", "not_deployed"} -> "not_deployed"
    [] w = "starting" -> "unknown" [] OTHER -> "down"

WorkersUp(ws)       == Len(SelectSeq(ws, LAMBDA w : WorkerProbeTone(w) = "up"))
WorkersDeployed(ws) == Len(SelectSeq(ws, LAMBDA w : WorkerProbeTone(w) \in {"up", "down"}))

(* Against the average: above or below it, or nothing to compare with.     *)
Compared(d) ==
  LET mine == StageSpan(d.groups[1], d.now, FALSE)
      avg  == AverageSpan(d.groups, 1)
  IN CASE mine < 0 \/ avg <= 0 -> "none" [] mine >= 0 /\ avg > 0 /\ mine > avg -> "above"
       [] OTHER -> "within"

OnCard(c) == /\ console = "card" /\ console' = console /\ card' = c
             /\ UNCHANGED <<address, boardVars, callVars, history, explorer>>

(* Expanding a card enables its query and applies the tab of the current   *)
(* stage once: that of the last detail, however old, or else of the row of *)
(* the list.  A poll does not move the tab any more.                       *)
ToggleCard ==
  OnCard(IF card.open THEN [card EXCEPT !.open = FALSE, !.applied = FALSE, !.picked = "none"]
         ELSE [card EXCEPT !.open = TRUE, !.applied = TRUE,
                           !.tab = TabOf(IF card.told = Untold THEN card.row ELSE card.told.current)])

PickStage(t) == card.open /\ OnCard([card EXCEPT !.tab = t, !.picked = t])

(* A mutant lets each answer take the reader to the current stage.         *)
TabFollows(c, d) ==
  [c EXCEPT !.told = d, !.tab = IF c.open THEN TabOf(d.current) ELSE @, !.applied = c.open]

CardTold(c, d) ==
  [c EXCEPT !.told = d, !.tab = IF c.open /\ ~c.applied THEN TabOf(d.current) ELSE @,
            !.applied = c.open]

CardPolled(d) == card.open /\ card.told # d /\ OnCard(CardTold(card, d))
RowPolled(d)  == card.row # d.current /\ OnCard([card EXCEPT !.row = d.current])

-----------------------------------------------------------------------------
(* The history of runs: fetched unfiltered, filtered by what the status    *)
(* contains; a process without a run left is not listed.                   *)

OPEN_RUN_STATUSES   == {"pending", "claimed", "in_flight", "leased"}
FAILED_RUN_STATUSES == {"submit_error", "outcome_error", "timeout", "abandoned"}
SaysError(st)       == st \in {"submit_error", "outcome_error"}
RUN_STATUS_FILTERS  == {"attention", "pending", "fail", "abandoned", "success", "open", "failed", "all"}


RunMatches(st, f) ==
  CASE f = "all"       -> TRUE
    [] f = "attention" -> SaysError(st) \/ st \in OPEN_RUN_STATUSES \cup {"abandoned"}
    [] f \in {"pending", "open"} -> st \in OPEN_RUN_STATUSES
    [] f = "failed"    -> st \in FAILED_RUN_STATUSES
    [] f = "fail"      -> SaysError(st) \/ st = "timeout"
    [] OTHER           -> st = f

FilteredGroups(groups, f) ==
  LET kept == [b \in DOMAIN groups |-> {st \in groups[b] : RunMatches(st, f)}]
  IN [b \in {x \in DOMAIN groups : kept[x] # {}} |-> kept[b]]

OnHistory(h) == /\ console = "history" /\ console' = console /\ history' = h
                /\ UNCHANGED <<address, boardVars, callVars, card, explorer>>

(* A choice of the process mounts the panel anew.                          *)
FilterRuns(f)       == OnHistory([history EXCEPT !.filter = f])
HistoryPolled(g)    == OnHistory([history EXCEPT !.groups = g])
HistoryOf(b)        == history.process # b
                       /\ OnHistory([process |-> b, filter |-> "attention", groups |-> <<>>])

-----------------------------------------------------------------------------
(* The log explorer                                                        *)

LOG_SEVERITY_OPTIONS == {"ERROR", "WARNING", "INFO"}

OnExplorer(e) == /\ console = "explorer" /\ console' = console /\ explorer' = e
                 /\ UNCHANGED <<address, boardVars, callVars, card, history>>

LevelsOf(mode) == IF mode = "errors" THEN {"ERROR"} ELSE LOG_SEVERITY_OPTIONS

FreshExplorer == [mode |-> "errors", levels |-> {"ERROR"}, draft |-> "none", query |-> "none", entry |-> "none"]

(* Each of the two tabs mounts an explorer of its own.                     *)
OpenExplorer(mode) ==
  /\ mode # explorer.mode
  /\ OnExplorer([FreshExplorer EXCEPT !.mode = mode, !.levels = LevelsOf(mode)])

Toggled(S, level)   == IF S = {level} THEN S ELSE SymDiff(S, {level})

ToggleSeverity(level) ==
  /\ explorer.mode = "logs"
  /\ OnExplorer([explorer EXCEPT !.levels = Toggled(@, level)])

TypeQuery(q)  == OnExplorer([explorer EXCEPT !.draft = q])
ApplyQuery    == OnExplorer([explorer EXCEPT !.query = explorer.draft])
ToggleEntry(e) == OnExplorer([explorer EXCEPT !.entry = IF @ = e THEN "none" ELSE e])

(* The severities asked of the API; all three are sent as none.            *)
SentLevels == IF explorer.mode = "errors" THEN {"ERROR"}
              ELSE IF explorer.levels = LOG_SEVERITY_OPTIONS THEN {} ELSE explorer.levels

-----------------------------------------------------------------------------

ConsoleInit ==
  /\ console \in {"address", "calls", "card", "history", "explorer"}
  /\ address = [tab |-> "pipeline", process |-> NoBulk] /\ recent = {} /\ navs = 0
  /\ board = [wide |-> FALSE, opened |-> NoBulk] /\ confirming = FALSE
  /\ flights = [run |-> "no", hash |-> "no", from |-> "here"]
  /\ answer = [label |-> "none", result |-> "none"]
  /\ notices = [run |-> "none", hash |-> "none"]
  /\ card = [told |-> Untold, row |-> "none", tab |-> "download", open |-> FALSE, applied |-> FALSE, picked |-> "none"]
  /\ history = [process |-> NoBulk, filter |-> "attention", groups |-> <<>>]
  /\ explorer = FreshExplorer

ConsoleNext ==
  \/ \E S \in SUBSET Bulks : SnapshotPolled(S)
  \/ AutoSelect \/ DropGone
  \/ \E b \in Bulks : ToggleRow(b)
  \/ ChangeWindow
  \/ \E t \in PIPELINE_TAB_BAR : SetTab(t) \/ ChangeTab(t)
  \/ AskRun \/ CancelRun \/ ConfirmRun \/ RetryRun \/ RunStep \/ RunSucceeds \/ RunFails
  \/ RefreshHash \/ RetryHash \/ HashStep
  \/ \E ok \in BOOLEAN : HashEnds(ok)
  \/ ClearPanel
  \/ ViewResult
  \/ ToggleCard
  \/ \E t \in BULK_CARD_STAGE_TABS : PickStage(t)
  \/ \E d \in Details : CardPolled(d) \/ RowPolled(d)
  \/ \E f \in RUN_STATUS_FILTERS : FilterRuns(f)
  \/ \E g \in Histories : HistoryPolled(g)
  \/ \E b \in Bulks : HistoryOf(b)
  \/ \E mode \in {"errors", "logs"} : OpenExplorer(mode)
  \/ \E level \in LOG_SEVERITY_OPTIONS : ToggleSeverity(level)
  \/ \E q \in {"none", "q"} : TypeQuery(q)
  \/ ApplyQuery
  \/ ToggleEntry("e1")

-----------------------------------------------------------------------------
(* Properties                                                              *)

ConsoleTypeOK ==
  /\ address.tab \in PIPELINE_TAB_BAR /\ address.process \in Bulks \cup {NoBulk}
  /\ recent \subseteq Bulks /\ navs \in 0 .. MaxNavs /\ board.opened \in Bulks \cup {NoBulk}
  /\ flights.run \in {"no", "download", "land", "promote"}
  /\ flights.hash \in {"no", "enqueue", "process"}
  /\ \A w \in {"run", "hash"} : notices[w] \in {"none", "retry", "done"}
  /\ card.tab \in BULK_CARD_STAGE_TABS /\ explorer.levels \subseteq LOG_SEVERITY_OPTIONS
  /\ explorer.levels # {} /\ (explorer.mode = "errors" => SentLevels = {"ERROR"})
  /\ RowTone(card.told) \in {"running", "pending", "review", "plain"}
  /\ WorkersUp(Probes) <= WorkersDeployed(Probes)
  /\ Compared(card.told) \in {"none", "above", "within"}
  /\ DoneVerticals(card.told.verticals) <= Len(LiveVerticals(card.told.verticals))

(* After any event the two effects that keep the address navigate twice at *)
(* most (drop the process that is gone, select a recent one) and rest:     *)
(* what one selects the other does not drop.                               *)
EffectsSettle == navs <= 2

(* The result panel says "Waiting on worker response" only while a refresh *)
(* is in flight, whichever of the two mutations that share it answers      *)
(* first, fails, is cleared away or is tried again.                        *)
PanelWaits == answer.result = "pending" => flights.hash # "no"

(* The two together: the page comes to rest.                               *)
ConsoleRests == EffectsSettle /\ PanelWaits

AttemptsOf(d, tab) == IF tab = "matching" THEN d.matching ELSE d.land \cup d.promote

(* The five tiles of a stage count every attempt of the API once, under    *)
(* the state the tile links to.                                            *)
TilesCountOnce ==
  console = "card" => \A tab \in {"ingest", "matching"} :
    LET s == AttemptsOf(card.told, tab)
        i == Indicators(CountsForTab(card.told, tab))
        t == Tiles(i)
    IN /\ t[1] + t[2] + t[3] + t[4] + t[5] = Cardinality(s)
       /\ i.failed = StatusIn(s, TerminalFail \ {"abandoned"})
       /\ i.abandoned = StatusIn(s, {"abandoned"})

(* A stage shown as done has no attempt waiting, none with a worker and    *)
(* none that failed, and its dot does not pulse.                           *)
DoneHasNoWork ==
  console = "card" => \A tab \in {"ingest", "matching"} :
    LET s == AttemptsOf(card.told, tab)
    IN StageVisual(CountsForTab(card.told, tab), IsTabCurrent(card.told, tab)) = "complete" =>
         /\ StatusIn(s, {"success"}) = Cardinality(s)
         /\ ~Pulses(card.told, tab, BulkRunning(card.told))

(* A tab the reader picked stays while the card is open, whatever the      *)
(* polls say the current stage is.                                         *)
PickKept == card.picked # "none" => card.tab = card.picked

(* The default filter of the history, "Open & failed", shows every run     *)
(* that waits, is with a worker or failed, but for the timed-out ones.     *)
AttentionCovers ==
  \A b \in DOMAIN history.groups :
    \A st \in history.groups[b] \cap ((OPEN_RUN_STATUSES \cup FAILED_RUN_STATUSES) \ {"timeout"}) :
      /\ b \in DOMAIN FilteredGroups(history.groups, "attention")
      /\ st \in FilteredGroups(history.groups, "attention")[b]

ConsoleSpec == ConsoleInit /\ [][ConsoleNext]_consoleVars

(* The console tells what is there, and comes to rest.                     *)
ConsoleTold ==
  ConsoleRests /\ TilesCountOnce /\ DoneHasNoWork /\ PickKept /\ AttentionCovers

=============================================================================
