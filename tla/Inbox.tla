------------------------------- MODULE Inbox --------------------------------
(***************************************************************************)
(* The inbox page (NeedsAttentionPage): tabs, filters and stacks over a    *)
(* window of the server's rows that grows with the page number, ticked     *)
(* rows, and the bulk decisions about them.  The page refetches every ten  *)
(* seconds, while rows arrive, are decided elsewhere and stay ticked under *)
(* another filter.                                                         *)
(***************************************************************************)
EXTENDS InboxItems, JourneyChrome

CONSTANTS
  Rows,       \* persona -> sequence of the rows of the server, oldest first
  Kickoffs,   \* rows of approved kickoffs, for an owner's second query
  LateRows,   \* rows that are there only later
  Myself, MyVerticals,
  FilterSystems,  \* systems the answers offer as a filter
  Reminders, ConnectorGate,
  PageSize,       \* INBOX_PAGE_SIZE
  Uses,           \* bound: the tabs, filters and switches a reviewer uses
  MaxBulk         \* bound: bulk calls of a behaviour, retries left out

(* The lists of the API are sequences of rows; those of a super admin and  *)
(* of legal have a row per review, and name a system only with its         *)
(* vertical (list_needs_attention).                                        *)
ASSUME InboxAssumption ==
  /\ PageSize \in Nat \ {0} /\ MaxBulk \in Nat
  /\ Kickoffs \in Seq(ToSet(Kickoffs)) /\ \A p \in DOMAIN Rows : Rows[p] \in Seq(ToSet(Rows[p]))
  /\ \A i \in ToSet(Kickoffs) \cup UNION {ToSet(Rows[p]) : p \in DOMAIN Rows} :
       /\ i = [f \in DOMAIN i |-> i[f]] /\ ListedFields \subseteq DOMAIN i /\ i.day \in Nat
       /\ i.connections \in Seq(ToSet(i.connections))
  /\ \A p \in DOMAIN Rows \ {"owner"} : \A i \in ToSet(Rows[p]) : OneReview(i)

VARIABLES
  persona,   \* "ops" (super admin), "legal" or "owner"
  server,    \* the rows that wait, in order
  data,      \* query -> [rows, total]: its last answer
  tab,      \* inboxKind
  filter,    \* legalInboxFilter, "" for null
  match,     \* matchFilter
  system,    \* search.system, "" for none
  groups,    \* the switches that are on, of "batch", "system", "status"
  pageNo,
  selected,  \* selectedIds: keys of ticked rows
  bulkDialog,   \* bulkConfirm, "none" for null
  bulkCalls,    \* in flight: [action, targets, n]
  bulkToasts,   \* calls that failed in part, which a Retry sends again
  bulkMade,     \* calls so far, retries left out
  ticked        \* history: reviews the reviewer has ticked himself since the last clearing

rowVars == <<server, data>>
viewVars   == <<tab, filter, match, system, groups, pageNo>>
bulkVars   == <<bulkDialog, bulkCalls, bulkToasts, bulkMade>>
inboxVars  == <<persona, rowVars, viewVars, selected, ticked, bulkVars>>

Owner == persona = "owner"

Tabs == CASE persona = "owner" -> {"matching", "fulfillment", "pending_tasks"}
          [] persona = "ops"   -> {"all", "matching", "triage", "escalations", "delivery",
                                   "notice", "communications", "pending_tasks"}
          [] OTHER             -> {}

-----------------------------------------------------------------------------
(* The rows on screen                                                      *)

Window       == Fewest(1000, pageNo * PageSize)            \* inboxFetchLimit

Query == IF ~Owner THEN "attention" ELSE IF tab = "fulfillment" THEN tab ELSE "matching"

Raw == IF Owner /\ tab = "pending_tasks"
         THEN LET rows == data["matching"].rows \o data["fulfillment"].rows
              IN Keep(rows, {i \in ToSet(rows) : IsOwnerTask(i, MyVerticals)})
         ELSE data[Query].rows

PageItems == Coalesce(IF Owner THEN Expand(OwnerVisible(Raw, MyVerticals)) ELSE Raw)

MatchKey(i) == IF i.match = "" THEN "unknown" ELSE i.match
ShowSystem  == Cardinality(FilterSystems) >= 2

Passes(i) ==
  /\ IF persona = "legal" THEN InLegalFilter(i, filter, Myself)
                          ELSE InLane(i, tab, Myself, MyVerticals, Owner)
  /\ \/ match = "all" \/ MatchKey(i) = match
     \/ persona # "legal" /\ tab \notin {"matching", "all"}
  /\ ShowSystem /\ system # Unnamed => i.system = system

Filtered == Keep(PageItems, {i \in ToSet(PageItems) : Passes(i)})
FilteredKeys == {ItemKey(i) : i \in ToSet(Filtered)}

(* One count per tab, beside its name.                                     *)
CountsKindOnly(i, lane) == lane = "all" \/ i.kind = lane   \* mutant: gates forgotten
CountsAs(i, lane) == InLane(i, lane, Myself, MyVerticals, Owner)
KindCount(lane) == Cardinality({n \in 1..Len(PageItems) : CountsAs(PageItems[n], lane)})

(* Stacks: by the switches that are on, or one line per row; grouped by    *)
(* status alone, only the statuses of the fixed order have a place.        *)
InOrder(s)         == s \in StatusOrder

StackOf(i) == StackKey(i, "batch" \in groups, "system" \in groups /\ ShowSystem,
                       "status" \in groups, Reminders, ConnectorGate)

Grouping == "batch" \in groups \/ "status" \in groups \/ ("system" \in groups /\ ShowSystem)

Stacks ==
  LET keys == {StackOf(i) : i \in ToSet(Filtered)}
      kept == IF groups = {"status"} THEN {k \in keys : InOrder(k[1])} ELSE keys
  IN IF ~Grouping THEN {{i} : i \in ToSet(Filtered)}
     ELSE {{i \in ToSet(Filtered) : StackOf(i) = k} : k \in kept}

(* paginate, and the extra page while the window is behind the total.      *)
LocalPages  == LET n == (Cardinality(Stacks) + PageSize - 1) \div PageSize
               IN IF n < 1 THEN 1 ELSE n
CurrentPage == Fewest(pageNo, LocalPages)
MoreRowsToLoad == Len(PageItems) < Fewest(data[Query].total, 1000)
TotalPages  == IF MoreRowsToLoad /\ LocalPages < CurrentPage + 1 THEN CurrentPage + 1
               ELSE LocalPages
NextPage    == Fewest(TotalPages, CurrentPage + 1)

-----------------------------------------------------------------------------
(* Answers of the server                                                   *)

OfSystem(rows) ==
  IF system = Unnamed THEN rows ELSE Keep(rows, {i \in ToSet(rows) : i.system = system})

Served(query) ==
  LET waiting  == ToSet(server)
      lanes    == Keep(server, {i \in waiting : i.kind \in ToSet(LegalLanes)})
      matching == OfSystem(Keep(server, {i \in waiting : IsMatching(i)}))
      merged   == MergeFulfillment(Keep(server, {i \in waiting : AtFulfillment(i)}), Kickoffs)
  IN CASE query = "attention" /\ persona = "legal" ->
            [rows |-> Leading(Window, LegalMerge(server, Window)), total |-> Len(lanes)]
       [] query = "attention" /\ persona # "legal" ->
            [rows |-> Leading(Window, OfSystem(server)), total |-> Len(OfSystem(server))]
       [] query = "matching"    -> [rows |-> Leading(Window, matching), total |-> Len(matching)]
       [] query = "fulfillment" -> [rows |-> Leading(Window, merged), total |-> Len(merged)]

Queries == IF Owner THEN {"matching", "fulfillment"} ELSE {"attention"}

InboxInit ==
  /\ persona \in DOMAIN Rows
  /\ server = Keep(Rows[persona], ToSet(Rows[persona]) \ LateRows)
  /\ data = [q \in Queries |-> [rows |-> <<>>, total |-> 0]]
  /\ tab = IF Owner THEN "matching" ELSE IF persona = "ops" THEN "all" ELSE "triage"
  /\ filter = "" /\ match = "all" /\ system = Unnamed
  /\ groups = (IF persona = "legal" THEN {} ELSE {"batch"})
  /\ pageNo = 1 /\ selected = {} /\ ticked = {}
  /\ bulkDialog = "none" /\ bulkCalls = {} /\ bulkToasts = {} /\ bulkMade = 0

Fetches(query) ==
  /\ query \in Queries /\ data[query] # Served(query)
  /\ data' = [data EXCEPT ![query] = Served(query)]
  /\ UNCHANGED <<persona, server, viewVars, selected, ticked, bulkVars>>

DecidedElsewhere(n) ==
  /\ n \in 1..Len(server) /\ server' = RemoveAt(server, n)
  /\ UNCHANGED <<persona, data, viewVars, selected, ticked, bulkVars>>

Arrives(i) ==
  /\ i \in ToSet(Rows[persona]) \cap LateRows /\ i \notin ToSet(server)
  /\ server' = Append(server, i)
  /\ UNCHANGED <<persona, data, viewVars, selected, ticked, bulkVars>>

-----------------------------------------------------------------------------
(* Tabs, filters, stacks and pages: any change of the view goes back to    *)
(* page 1, and leaves the ticks as they are.                               *)

Looks == bulkDialog = "none"

Views == UNCHANGED <<persona, rowVars, selected, ticked, bulkVars>>

OpenTab(k) ==
  /\ Looks /\ k \in Tabs \ {tab}
  /\ tab' = k /\ pageNo' = 1
  /\ match' = IF k \in {"matching", "all"} THEN match ELSE "all"
  /\ UNCHANGED <<filter, system, groups>> /\ Views

LegalFilters == {"", "unassigned", "assignment_to_legal", "fulfillment", "notice",
                 "delivery", "pre_matching_holds", "assigned_to_me"}

SetFilter(f) ==
  /\ Looks /\ persona = "legal" /\ f # filter
  /\ filter' = f /\ pageNo' = 1 /\ UNCHANGED <<tab, match, system, groups>> /\ Views

SetMatch(m) ==
  /\ Looks /\ m # match /\ m \in {"all"} \cup {MatchKey(i) : i \in {x \in ToSet(PageItems) : IsMatching(x)}}
  /\ match' = m /\ pageNo' = 1 /\ UNCHANGED <<tab, filter, system, groups>> /\ Views

SetSystem(s) ==
  /\ Looks /\ s # system /\ persona # "legal"
  /\ system' = s /\ pageNo' = 1 /\ UNCHANGED <<tab, filter, match, groups>> /\ Views

Switch(g) ==
  /\ Looks /\ groups' = SymDiff({g}, groups) /\ pageNo' = 1
  /\ UNCHANGED <<tab, filter, match, system>> /\ Views

PageForward == /\ Looks /\ CurrentPage < TotalPages /\ pageNo' = NextPage /\ NextPage # pageNo
         /\ UNCHANGED <<tab, filter, match, system, groups>> /\ Views
PageBack  == /\ Looks /\ CurrentPage > 1 /\ pageNo' = CurrentPage - 1
         /\ UNCHANGED <<tab, filter, match, system, groups>> /\ Views

-----------------------------------------------------------------------------
(* Ticking                                                                 *)

AllSelected == FilteredKeys # {} /\ FilteredKeys \subseteq selected

Tick(items) ==
  LET keys == {ItemKey(i) : i \in items}
      on   == ~(keys \subseteq selected)
  IN /\ Looks /\ keys # {}
     /\ selected' = IF on THEN selected \cup keys ELSE selected \ keys
     /\ ticked' = IF on THEN ticked \cup UNION {Targets(i) : i \in items}
                        ELSE ticked \ UNION {Targets(i) : i \in items}
     /\ UNCHANGED <<persona, rowVars, viewVars, bulkVars>>

TickRow   == \E i \in ToSet(Filtered) : Tick({i})
TickStack == Grouping /\ \E s \in Stacks : Tick(s)
TickAll   == Tick(ToSet(Filtered))

ClearTicks ==
  /\ Looks /\ selected # {} /\ selected' = {} /\ ticked' = {}
  /\ UNCHANGED <<persona, rowVars, viewVars, bulkVars>>

-----------------------------------------------------------------------------
(* Bulk decisions                                                          *)

(* The buttons above the list: fulfil and decline are a super admin's, the *)
(* triage and notice ones appear under their legal filter.                 *)
BulkButtons ==
  CASE persona = "ops"   -> {"fulfill", "decline"}
    [] persona = "legal" -> CASE filter = "pre_matching_holds" -> {"triage"}
                              [] filter = "notice"             -> {"notice"}
                              [] OTHER                         -> {}
    [] OTHER -> {}

InFlight(d) == \E c \in bulkCalls : c.action = d

AskBulk(d) ==
  /\ Looks /\ d \in BulkButtons /\ selected # {}
  /\ ~InFlight(d) /\ ~(InFlight("fulfill") \/ InFlight("decline"))
  /\ bulkDialog' = d
  /\ UNCHANGED <<persona, rowVars, viewVars, selected, ticked, bulkCalls, bulkToasts, bulkMade>>

CancelBulk ==
  /\ bulkDialog # "none" /\ ~InFlight(bulkDialog) /\ bulkDialog' = "none"
  /\ UNCHANGED <<persona, rowVars, viewVars, selected, ticked, bulkCalls, bulkToasts, bulkMade>>

(* The reviews of the ticked rows that the filters show now; a triage or   *)
(* notice decision is about the whole request.                             *)
BulkTargets(d) ==
  LET work == SelectedTargets(Filtered, IF AllSelected THEN FilteredKeys ELSE selected)
  IN IF d \in {"fulfill", "decline"} THEN work ELSE {OnRequest(t) : t \in work}

Confirmable(d)   == BulkTargets(d) # {}

CallBulk(d, targets) ==
  /\ bulkMade < MaxBulk /\ bulkMade' = bulkMade + 1
  /\ bulkCalls' = bulkCalls \cup {[action |-> d, targets |-> targets, n |-> bulkMade + 1]}

ConfirmBulk ==
  /\ bulkDialog # "none" /\ ~InFlight(bulkDialog)
  /\ Confirmable(bulkDialog)
  /\ CallBulk(bulkDialog, BulkTargets(bulkDialog))
  /\ UNCHANGED <<persona, rowVars, viewVars, selected, ticked, bulkDialog, bulkToasts>>

(* A stack's own pane decides about all its rows.                          *)
DecideStack(d) ==
  /\ Looks /\ persona # "legal" /\ Grouping
  /\ ~InFlight("fulfill") /\ ~InFlight("decline")
  /\ \E s \in Stacks : CallBulk(d, UNION {Targets(i) : i \in s})
  /\ UNCHANGED <<persona, rowVars, viewVars, selected, ticked, bulkDialog, bulkToasts>>

Decides(d, t, i) ==
  CASE d = "triage" -> IsTriage(i) /\ t.request = i.request
    [] d = "notice" -> IsNotice(i) /\ t.request = i.request
    [] OTHER        -> t = Scope(i)

(* A triage or notice decision is one call for all its requests.           *)
OneCall(d) == d \in {"triage", "notice"}

(* Each fulfilment or decline is a call of its own and all have ended:     *)
(* some failing is still onSuccess, the ticks go, and Retry repeats every  *)
(* target.  When one call for all fails the ticks stay.                    *)
Ends(c, failed) ==
  LET whole == OneCall(c.action) IN
  /\ c \in bulkCalls /\ failed \subseteq c.targets
  /\ whole => failed \in {{}, c.targets}
  /\ server' = Keep(server, {i \in ToSet(server) : \A t \in c.targets \ failed :
                                                    ~Decides(c.action, t, i)})
  /\ bulkCalls' = bulkCalls \ {c}
  /\ bulkToasts' = IF failed = {} THEN bulkToasts ELSE bulkToasts \cup {c}
  /\ IF whole /\ failed # {} THEN UNCHANGED <<selected, ticked>>
                             ELSE selected' = {} /\ ticked' = {}
  /\ bulkDialog' = "none"
  /\ UNCHANGED <<persona, data, viewVars, bulkMade>>

RetryBulk(t) ==
  /\ t \in bulkToasts /\ bulkToasts' = bulkToasts \ {t}
  /\ bulkCalls' = bulkCalls \cup {t}
  /\ UNCHANGED <<persona, rowVars, viewVars, selected, ticked, bulkDialog, bulkMade>>

InboxNext ==
  \/ \E q \in {"attention", "matching", "fulfillment"} : Fetches(q)
  \/ \E n \in 1..Len(server) : DecidedElsewhere(n)
  \/ \E i \in LateRows : Arrives(i)
  \/ \E k \in Uses : OpenTab(k)
  \/ \E f \in LegalFilters \cap Uses : SetFilter(f)
  \/ \E m \in {"all", "single_match", "multi_match", "not_found", "unknown"} \cap Uses : SetMatch(m)
  \/ \E s \in {""} \cup (FilterSystems \cap Uses) : SetSystem(s)
  \/ \E g \in {"batch", "system", "status"} \cap Uses : Switch(g)
  \/ PageForward \/ PageBack \/ TickRow \/ TickStack \/ TickAll \/ ClearTicks \/ CancelBulk \/ ConfirmBulk
  \/ \E d \in {"fulfill", "decline", "triage", "notice"} : AskBulk(d)
  \/ \E d \in {"fulfill", "decline"} : DecideStack(d)
  \/ \E c \in bulkCalls : \E failed \in SUBSET c.targets : Ends(c, failed)
  \/ \E t \in bulkToasts : RetryBulk(t)

InboxSpec == InboxInit /\ [][InboxNext]_inboxVars

-----------------------------------------------------------------------------
(* Properties                                                              *)

(* Pages count from 1, a tab is one of the persona's, and a bulk call is   *)
(* about at least one review (the state of NeedsAttentionPage).            *)
InboxTypeOK ==
  /\ pageNo \in 1..(Len(Rows[persona]) + 1) /\ tab \in Tabs \cup {"triage"}
  /\ groups \subseteq {"batch", "system", "status"}
  /\ bulkDialog \in {"none", "fulfill", "decline", "triage", "notice"}
  /\ \A c \in bulkCalls : c.targets # {} /\ c.n \in 1..MaxBulk

(* A decision over ticked rows reaches only reviews of rows the reviewer   *)
(* ticked himself: whatever was refetched, filtered, stacked, merged and   *)
(* unticked between, a key never comes to stand for another row            *)
(* (inboxReviewItemKey, selectedReviewTargets).                            *)
TickedOnly ==
  bulkDialog # "none" =>
    \A t \in BulkTargets(bulkDialog) :
      \E u \in ticked : t = u \/ t = OnRequest(u)

(* However rows are stacked, each one the filters show is in exactly one   *)
(* stack: none is left out by a status without a place in the order        *)
(* (buildGroupedInboxRows).                                                *)
EveryRowStacked ==
  /\ UNION Stacks = ToSet(Filtered)
  /\ \A s, u \in Stacks : s = u \/ s \cap u = {}

(* The count beside an open tab is the number of rows it shows while no    *)
(* other filter is on (kindCounts, filteredItems).                         *)
CountsMatchTabs ==
  persona # "legal" /\ match = "all" /\ (system = Unnamed \/ ~ShowSystem) =>
    KindCount(tab) = Len(Filtered)

(* A row whose batch is told by its day and its source.                    *)
DayOnly(i) == i.day # 0 /\ i.source # Unnamed /\ i.batch = Unnamed

(* The badge of the nav counts what the list shows as lines when it is     *)
(* stacked by batch and status (inboxPendingWorkUnitCount), as long as no  *)
(* row is of a bulk process or lacks a day or a source.                    *)
BadgeCountsLines ==
  persona = "ops" /\ groups = {"batch", "status"} /\ tab = "all" /\ match = "all"
  /\ system = Unnamed /\ (\A i \in ToSet(Filtered) : DayOnly(i)) =>
    Cardinality(WorkUnits(Raw, Reminders, ConnectorGate)) = Cardinality(Stacks)

(* Decisions and lines agree with the rows: no key and no stack loses a    *)
(* row or takes another's place (inboxReviewItemKey,                       *)
(* buildGroupedInboxRows).                                                 *)
StackKept == TickedOnly /\ EveryRowStacked

(* Every number the inbox shows is the number of things it leads to: of    *)
(* its tabs, and of the badge of the nav (kindCounts,                      *)
(* inboxPendingWorkUnitCount).                                             *)
CountsMatch == CountsMatchTabs /\ BadgeCountsLines

(* No row of the inbox is lost by a key or a stack, every count on it is   *)
(* of what it leads to (needs-attention.tsx, inbox-batch-status.ts), and   *)
(* what the pane of a stack says of its stage holds of its members, while  *)
(* an owner sees the gate of the own connection (JourneyChrome).           *)
PagesHold == StackKept /\ CountsMatch /\ ChromeTold

(* "keep Next enabled so paging forward triggers the fetch instead of      *)
(* looking like a dead end" (needs-attention.tsx): an enabled Next goes to *)
(* another page, unless that one's rows are on the way.  Violated when     *)
(* rows are stacked or filtered: the current page is held back to the      *)
(* pages there are, the next one is the page one is on already, and        *)
(* nothing is fetched.                                                     *)
NextIsNoDeadEnd ==
  data[Query] = Served(Query) /\ CurrentPage < TotalPages => NextPage # pageNo

=============================================================================
