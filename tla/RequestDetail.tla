---------------------------- MODULE RequestDetail ----------------------------
(***************************************************************************)
(* The detail of one request (RequestDetailBody), in the overlay, which is *)
(* mounted anew for every request, or on a page, which stays mounted when  *)
(* the palette leads from one request to the next.  Three queries of the   *)
(* same request are answered apart from each other: the journey and the    *)
(* matching result, which keep the previous request's data as placeholder, *)
(* and the inbox item, which does not.  The stage actions and the matching *)
(* panel are built from whatever mixture is on screen.                     *)
(*                                                                         *)
(* What the server knows of a request moves along Path; data on screen is  *)
(* a request and a position in its path.  A request that comes on screen   *)
(* may find any older answer of its own in the query cache.                *)
(***************************************************************************)
EXTENDS Integers, Sequences

CONSTANTS
  Path,          \* request -> sequence of [stage, result] it goes through
  Assigned,      \* requests whose inbox item is an assignment to legal
  DetailViews,         \* pairs of variant and viewer looked at
  NoRequest,
  MaxPosts       \* variant -> bound on the calls of a behaviour; one more if
                 \* it is a Retry

Records == DOMAIN Path
Results == [nobody |-> {}, one |-> {"p"}, many |-> {"p", "q"}]   \* matched_contacts

ASSUME DetailAssumption ==
  /\ DetailViews \subseteq {"overlay", "page"} \X {"super", "legal", "owner"}
  /\ NoRequest \notin Records /\ Assigned \subseteq Records /\ MaxPosts \in [{"overlay", "page"} -> Nat]
  /\ \A r \in Records : \A k \in DOMAIN Path[r] : Path[r][k].result \in DOMAIN Results

VARIABLES
  variant,     \* "overlay" or "page"
  viewer,      \* "super", "legal" or "owner"
  truth,       \* server: how far each request is
  viewing,     \* the request on screen
  journey, finding, row,     \* the data on screen: journey, matching result, inbox item
  failing,     \* the journey's last answer was an error
  detailTab,
  bar,         \* RequestStageActionBar: pendingId and confirmAction
  panel,       \* MatchingReviewPanel: confirm, fulfillStatus, selectedDwids
  posts,       \* calls in flight
  newest,      \* mutation -> its latest call, the one isPending is about
  errorToasts       \* error toasts with a Retry

dataVars   == <<viewing, journey, finding, row, failing>>
detailVars == <<variant, viewer, truth, dataVars, detailTab, bar, panel, posts, newest, errorToasts>>

-----------------------------------------------------------------------------
(* What is on screen                                                       *)

NoData == [of |-> NoRequest, at |-> 0]

At(data) == Path[data.of][data.at]

(* The page drops the body when it has no journey; in both an error of the *)
(* last poll replaces everything inside the body.                          *)
Mounted    == viewing # NoRequest /\ (variant = "page" => journey # NoData)
BodyShown  == Mounted /\ journey # NoData /\ ~failing
PanelShown == BodyShown /\ detailTab = "matching"

Contexts(stage) == {d \in {journey, row} : d # NoData /\ At(d).stage = stage}

InTriage   == IF row = NoData THEN At(journey).stage = "triage" ELSE At(row).stage = "triage"
InNotice   == Contexts("notice") # {}
InDelivery == ~InNotice /\ Contexts("delivery") # {}

StageActions ==
  IF journey = NoData THEN {}
  ELSE (IF InTriage THEN {"triage_reject", "triage_match"} ELSE {})
       \cup (IF InNotice THEN {"notice_approve"} ELSE {})
       \cup (IF InDelivery THEN {"delivery_delivered", "delivery_failed"} ELSE {})
       \cup {"close"}

AwaitsDecision(data) == data # NoData /\ At(data).stage = "review"

MayDispose ==
  /\ AwaitsDecision(finding)
  /\ viewer = "legal" => row # NoData /\ viewing \in Assigned

Found(data)   == IF data = NoData THEN {} ELSE Results[At(data).result]
Suggests(data) ==
  IF data = NoData THEN 3
  ELSE CASE At(data).result = "nobody" -> 5 [] At(data).result = "many" -> 4 [] OTHER -> 3

Preselected(data) == IF Suggests(data) = 5 THEN {} ELSE Found(data)

DetailPending(kind) == \E c \in posts : c.kind = kind /\ c.live /\ c.n = newest[kind]

-----------------------------------------------------------------------------
(* Rendering: what follows from the new data.                              *)

Nothing    == [id |-> "", of |-> NoRequest, seen |-> NoData]
FreshBar   == [pending |-> "", asks |-> Nothing]
FreshPanel == [asks |-> "none", status |-> 0, dwids |-> {}]

DefaultTab == IF viewer = "owner" THEN "matching" ELSE "fulfillment"

(* The two effects on the tab, in their order: another request resets it,  *)
(* a decision an owner has not been shown yet brings up Matching.          *)
Decision == IF AwaitsDecision(finding) THEN finding.of ELSE NoRequest

TabAfter(t) ==
  IF ~Mounted' THEN DefaultTab
  ELSE IF viewer = "owner" /\ Decision' # NoRequest /\ (Decision' # Decision \/ ~Mounted)
  THEN "matching"
  ELSE IF viewing' # viewing THEN DefaultTab ELSE t

(* While the confirmation of a fulfilment is open, a changed result picks  *)
(* anew; it closes when the call is over.                                  *)
Repicked(p) ==
  IF p.asks = "fulfill" /\ (finding = NoData \/ Found(finding)' # Found(finding))
  THEN [p EXCEPT !.status = Suggests(finding)', !.dwids = Preselected(finding)'] ELSE p

Survives(c) == IF c.kind = "stage" THEN BodyShown' ELSE Mounted'
Orphaned(S) == {[c EXCEPT !.live = @ /\ Survives(c)] : c \in S}

(* Comes last in an action: everything below the body that is no longer    *)
(* mounted loses its state, calls in flight and toasts lose their owner.   *)
Render(t, b, p, calls, notes) ==
  /\ detailTab' = TabAfter(t)
  /\ bar'   = IF BodyShown' THEN b ELSE FreshBar
  /\ panel' = IF PanelShown' /\ (PanelShown \/ p = FreshPanel) THEN Repicked(p) ELSE FreshPanel
  /\ posts' = Orphaned(calls) /\ errorToasts' = Orphaned(notes)

RenderSame == Render(detailTab, bar, panel, posts, errorToasts)

-----------------------------------------------------------------------------
(* Requests come on screen and leave it                                    *)

DetailInit ==
  /\ \E v \in DetailViews : variant = v[1] /\ viewer = v[2]
  /\ truth = [r \in Records |-> 1]
  /\ viewing = NoRequest /\ journey = NoData /\ finding = NoData /\ row = NoData
  /\ failing = FALSE
  /\ detailTab = DefaultTab /\ bar = FreshBar /\ panel = FreshPanel
  /\ posts = {} /\ newest = [k \in {"stage", "review"} |-> 0] /\ errorToasts = {}

KeepsLast(data)   == data                                \* mutant: the body stays mounted
Placeholder(data) == IF variant = "page" THEN data ELSE NoData

Cached(r) == {NoData} \cup {[of |-> r, at |-> k] : k \in 1 .. truth[r]}

LatestOf(answer, last) == IF answer = NoData THEN last ELSE answer

(* Another request, or none, comes on screen with what the cache has of it.*)
ShowRequest(r, j, f, i) ==
  /\ viewing' = r /\ failing' = FALSE
  /\ journey' = LatestOf(j, Placeholder(journey)) /\ finding' = LatestOf(f, Placeholder(finding))
  /\ row' = i
  /\ UNCHANGED <<variant, viewer, truth, newest>>
  /\ RenderSame

(* The overlay is modal: another request is opened only after it closed.   *)
OpenRequest(r) ==
  /\ viewing # r /\ (variant = "overlay" => viewing = NoRequest)
  /\ \E j \in Cached(r), f \in Cached(r), i \in Cached(r) : ShowRequest(r, j, f, i)

CloseOverlay ==
  /\ variant = "overlay" /\ viewing # NoRequest
  /\ bar.asks = Nothing /\ panel.asks = "none"
  /\ ShowRequest(NoRequest, NoData, NoData, NoData)

(* The request moves on, by anyone's hand.                                 *)
MovesOn(r) ==
  /\ truth[r] < Len(Path[r]) /\ truth' = [truth EXCEPT ![r] = @ + 1]
  /\ UNCHANGED <<variant, viewer, dataVars, detailTab, bar, panel, posts, newest, errorToasts>>

(* Polls and invalidations: each query is answered by itself.  An error    *)
(* before the first answer drops the placeholder.                          *)
Now == [of |-> viewing, at |-> truth[viewing]]

JourneyLoads ==
  /\ viewing # NoRequest
  /\ \/ failing' = FALSE /\ journey' = Now
     \/ failing' = TRUE  /\ journey' = IF journey.of = viewing THEN journey ELSE NoData
  /\ UNCHANGED <<variant, viewer, truth, viewing, finding, row, newest>>
  /\ RenderSame

FindingLoads ==
  /\ Mounted /\ finding' = Now
  /\ UNCHANGED <<variant, viewer, truth, viewing, journey, row, failing, newest>>
  /\ RenderSame

ItemLoads ==
  /\ Mounted /\ row' = Now
  /\ UNCHANGED <<variant, viewer, truth, viewing, journey, finding, failing, newest>>
  /\ RenderSame

(* A tab, a stage of the rail, or an activity that belongs to a stage.     *)
PickTab(t) ==
  /\ BodyShown /\ bar.asks = Nothing /\ panel.asks = "none"
  /\ UNCHANGED <<variant, viewer, truth, dataVars, newest>>
  /\ Render(t, bar, panel, posts, errorToasts)

-----------------------------------------------------------------------------
(* Calls                                                                   *)

MaxOf(f) == IF f["stage"] > f["review"] THEN f["stage"] ELSE f["review"]

(* A call, with what was on screen when it was asked for; seen is the      *)
(* journey for a stage action, the result for a decision.                  *)
Post(kind, id, of, status, dwids, seen, live, retry) ==
  [kind |-> kind, id |-> id, of |-> of, status |-> status, dwids |-> dwids, seen |-> seen,
   live |-> live, retry |-> retry, n |-> MaxOf(newest) + 1]

Calls(kind, most) == MaxOf(newest) < most /\ newest' = [newest EXCEPT ![kind] = MaxOf(newest) + 1]

RunStage(ask) ==
  /\ Calls("stage", MaxPosts[variant])
  /\ UNCHANGED <<variant, viewer, truth, dataVars>>
  /\ Render(detailTab, [bar EXCEPT !.pending = ask.id], panel,
            posts \cup {Post("stage", ask.id, ask.of, 0, {}, ask.seen, TRUE, FALSE)}, errorToasts)

Asking(id) == [id |-> id, of |-> viewing, seen |-> [journey EXCEPT !.at = 0]]

(* An access delivery under way makes close ask first; its query is one of *)
(* its own.                                                                *)
PressStage(id, warned) ==
  /\ BodyShown /\ id \in StageActions
  /\ bar = FreshBar /\ panel.asks = "none"
  /\ IF id = "notice_approve" \/ (id = "close" /\ warned)
     THEN /\ UNCHANGED <<variant, viewer, truth, dataVars, newest>>
          /\ Render(detailTab, [bar EXCEPT !.asks = Asking(id)], panel, posts, errorToasts)
     ELSE RunStage(Asking(id))

ConfirmStage == bar.asks # Nothing /\ ~DetailPending("stage") /\ RunStage(bar.asks)

CancelStage ==
  /\ bar.asks # Nothing /\ ~DetailPending("stage")
  /\ UNCHANGED <<variant, viewer, truth, dataVars, newest>>
  /\ Render(detailTab, [bar EXCEPT !.asks = Nothing], panel, posts, errorToasts)

AskDecision(d) ==
  /\ PanelShown /\ MayDispose /\ ~DetailPending("review")
  /\ panel.asks = "none" /\ bar.asks = Nothing
  /\ UNCHANGED <<variant, viewer, truth, dataVars, newest>>
  /\ detailTab' = detailTab /\ UNCHANGED <<bar, posts, errorToasts>>
  /\ panel' = IF d = "fulfill"
              THEN [asks |-> d, status |-> Suggests(finding), dwids |-> Preselected(finding)]
              ELSE [FreshPanel EXCEPT !.asks = d]

SetPanel(p) ==
  /\ panel.asks = "fulfill" /\ ~DetailPending("review") /\ panel' = p
  /\ UNCHANGED <<variant, viewer, truth, dataVars, newest, detailTab, bar, posts, errorToasts>>

PickStatus(c) ==
  SetPanel([panel EXCEPT !.status = c, !.dwids = IF c = 5 THEN {} ELSE Found(finding)])

TickDwid(p) ==
  /\ panel.status \in {3, 4} /\ p \in Found(finding)
  /\ SetPanel([panel EXCEPT !.dwids = IF p \in @ THEN @ \ {p} ELSE @ \cup {p}])

DwidsChosen == panel.status \in {3, 4} => panel.dwids # {}

ConfirmDecision ==
  /\ panel.asks # "none" /\ ~DetailPending("review")
  /\ panel.asks = "fulfill" => DwidsChosen
  /\ Calls("review", MaxPosts[variant])
  /\ UNCHANGED <<variant, viewer, truth, dataVars, detailTab, bar, panel, errorToasts>>
  /\ posts' = posts \cup
       {IF panel.asks = "fulfill"
        THEN Post("review", "promote", viewing, panel.status,
                  IF panel.status = 5 THEN {} ELSE panel.dwids, finding, TRUE, FALSE)
        ELSE Post("review", "decline", viewing, 0, {}, finding, TRUE, FALSE)}

CancelDecision ==
  /\ panel.asks # "none" /\ ~DetailPending("review")
  /\ panel' = FreshPanel
  /\ UNCHANGED <<variant, viewer, truth, dataVars, newest, detailTab, bar, posts, errorToasts>>

(* An answer: the bar forgets what is pending, whichever call it was, and  *)
(* keeps the dialog on an error; the panel's dialog closes either way.     *)
DetailAnswered(c, ok) ==
  /\ c \in posts
  /\ UNCHANGED <<variant, viewer, truth, dataVars, newest>>
  /\ Render(detailTab,
            IF c.kind = "stage" /\ c.live
            THEN [pending |-> "", asks |-> IF ok THEN Nothing ELSE bar.asks] ELSE bar,
            IF c.kind = "review" /\ c.live /\ c.n = newest["review"]
            THEN FreshPanel ELSE panel,
            posts \ {c}, IF ok THEN errorToasts ELSE errorToasts \cup {c})

(* Retry: a stage action keeps the request it was built for; a decision    *)
(* goes to the request of the component that made it, as of now.           *)
RetryPost(t) ==
  /\ t \in errorToasts /\ Calls(t.kind, MaxPosts[variant] + 1)
  /\ LET of == IF t.kind = "review" /\ t.live THEN viewing ELSE t.of
         c  == Post(t.kind, t.id, of, t.status, t.dwids, t.seen, t.live, TRUE)
     IN /\ UNCHANGED <<variant, viewer, truth, dataVars>>
        /\ Render(detailTab, IF t.kind = "stage" /\ t.live THEN [bar EXCEPT !.pending = t.id] ELSE bar,
                  panel, posts \cup {c}, errorToasts \ {t})

DetailNext ==
  \/ CloseOverlay \/ JourneyLoads \/ FindingLoads \/ ItemLoads
  \/ \E r \in Records : OpenRequest(r) \/ MovesOn(r)
  \/ \E t \in {"matching", "fulfillment"} \ {detailTab} : PickTab(t)
  \/ \E id \in StageActions, warned \in BOOLEAN : PressStage(id, warned)
  \/ ConfirmStage \/ CancelStage \/ ConfirmDecision \/ CancelDecision
  \/ \E d \in {"fulfill", "decline"} : AskDecision(d)
  \/ \E c \in {3, 4, 5} \ {panel.status} : PickStatus(c)
  \/ \E p \in {"p", "q"} : TickDwid(p)
  \/ \E c \in posts, ok \in BOOLEAN : DetailAnswered(c, ok)
  \/ \E t \in errorToasts : RetryPost(t)

DetailSpec == DetailInit /\ [][DetailNext]_detailVars

-----------------------------------------------------------------------------
(* Properties                                                              *)

DetailTypeOK ==
  /\ truth \in [Records -> Nat \ {0}]
  /\ viewing \in Records \cup {NoRequest} /\ failing \in BOOLEAN
  /\ \A d \in {journey, finding, row} : d = NoData \/ d.at \in 1 .. truth[d.of]
  /\ detailTab \in {"matching", "fulfillment"}
  /\ bar.pending # "" => BodyShown
  /\ panel # FreshPanel => PanelShown

(* In the overlay a call acts on the request whose data offered it, and a  *)
(* promotion carries people of the result on screen when it was confirmed, *)
(* none exactly for "not found": whatever was polled, cached, opened       *)
(* before, replaced under an open dialog or sent again from a toast.       *)
(* (The page breaks it: it shows the previous request's data for a while.) *)
ActsOnShown ==
  \A c \in posts : variant = "overlay" =>
    /\ c.seen.of = c.of
    /\ c.id = "promote" => /\ c.dwids \subseteq Found(c.seen)
                           /\ c.dwids = {} <=> c.status = 5
=============================================================================
