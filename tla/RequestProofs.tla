----------------------------- MODULE RequestProofs --------------------------
(***************************************************************************)
(* That a call from the overlay acts on what the overlay showed, for every *)
(* set of requests, whatever path each goes through and however many calls *)
(* are made.  The inductive invariant DetailInv carries the property back  *)
(* to where calls are built: the data of an overlay is its request's, an   *)
(* open dialog holds people of the result on screen, and a call or a toast *)
(* still owned by the panel is of the request on screen.                   *)
(*                                                                         *)
(* And that its panels kick a vertical off once and highlight the entry    *)
(* they describe, by PanelsInv: while no answer was missed one kickoff of  *)
(* a vertical is in flight, the latest, and a vertical asked for is on its *)
(* way or on screen; a selection is named by the entry's own id.           *)
(*                                                                         *)
(* That a decision leaves the review pane once, and a promotion with the   *)
(* people its status speaks of, for every inbox and any number of calls.   *)
(* The properties are about calls in flight; the inductive invariant       *)
(* ReviewInv follows them to the toasts that send them again, and to the   *)
(* mutations that watch them: as long as nobody has pressed Retry, the     *)
(* call in flight is the latest of its mutation, so that Pending sees it.  *)
(*                                                                         *)
(* And that what is written beside an item of the inbox stays with it: the *)
(* invariant NotesInv ties a call in flight to what the record holds of    *)
(* it, to the item whose handlers it is left with, and the rows on screen  *)
(* to the entries that made them.                                          *)
(***************************************************************************)
EXTENDS RequestDetail, RequestPanels, InboxReview, InboxNotes, FiniteSetTheorems,
        SequenceTheorems, TLAPS

-----------------------------------------------------------------------------
(* The overlay of a request and its panels                                 *)

Overlay == variant = "overlay"
Datum   == [of : Records \cup {NoRequest}, at : Nat]
AskIds  == {"", "triage_reject", "triage_match", "notice_approve", "delivery_delivered",
            "delivery_failed", "close"}
Asked   == [id : AskIds, of : Records \cup {NoRequest}, seen : Datum]
BarRow  == [pending : AskIds, asks : Asked]

(* What is on screen is known at the server, and in the overlay it is of   *)
(* the request shown.                                                      *)
DataFits ==
  /\ viewing \in Records \cup {NoRequest} /\ failing \in BOOLEAN
  /\ \A d \in {journey, finding, row} :
       d \in Datum /\ (d = NoData \/ (d.of \in Records /\ d.at \in 1 .. truth[d.of]))
  /\ Overlay => \A d \in {journey, finding} : d = NoData \/ d.of = viewing

BarFits(b) == b \in BarRow /\ (Overlay => b.asks.seen.of = b.asks.of)

PanelFits(p) ==
  /\ p = [asks |-> p.asks, status |-> p.status, dwids |-> p.dwids]
  /\ p.asks = "fulfill" => p.status \in {3, 4, 5} /\ p.dwids \subseteq Found(finding)
  /\ Overlay /\ p.asks # "none" => finding # NoData

(* A call, or the toast that would send it again.                          *)
CallFits(c) ==
  /\ c = [kind |-> c.kind, id |-> c.id, of |-> c.of, status |-> c.status, dwids |-> c.dwids,
          seen |-> c.seen, live |-> c.live, retry |-> c.retry, n |-> c.n]
  /\ c.live \in BOOLEAN /\ (c.kind = "stage" => c.id \in AskIds)
  /\ Overlay => /\ c.seen.of = c.of
                /\ c.id = "promote" => /\ c.dwids \subseteq Found(c.seen)
                                       /\ c.dwids = {} <=> c.status = 5
                /\ c.kind = "review" /\ c.live => c.of = viewing /\ viewing # NoRequest

DetailInv ==
  /\ truth \in [Records -> Nat \ {0}]
  /\ DataFits /\ BarFits(bar) /\ PanelFits(panel)
  /\ detailTab \in {"matching", "fulfillment"}
  /\ bar.pending # "" => BodyShown
  /\ panel # FreshPanel => PanelShown
  /\ \A c \in posts \cup errorToasts : CallFits(c)

-----------------------------------------------------------------------------
(* Rendering                                                               *)

LEMMA Fresh ==
  /\ BarFits(FreshBar) /\ FreshBar.pending = "" /\ FreshBar.asks = Nothing
  /\ PanelFits(FreshPanel) /\ FreshPanel.asks = "none"
  /\ NoData \in Datum /\ NoData.of = NoRequest
<1>1. NoData \in Datum /\ NoData.of = NoRequest
  BY DEF NoData, Datum
<1>2. Nothing \in Asked /\ Nothing.id = "" /\ Nothing.of = Nothing.seen.of
  BY <1>1 DEF Nothing, Asked, AskIds
<1>3. FreshBar \in BarRow /\ FreshBar.pending = "" /\ FreshBar.asks = Nothing
  BY <1>2 DEF FreshBar, BarRow, AskIds
<1>4. BarFits(FreshBar)
  BY <1>2, <1>3 DEF BarFits
<1>5. PanelFits(FreshPanel) /\ FreshPanel.asks = "none"
  BY DEF FreshPanel, PanelFits
<1> QED BY <1>1, <1>3, <1>4, <1>5

LEMMA TabTyped ==
  ASSUME NEW t \in {"matching", "fulfillment"}
  PROVE  TabAfter(t) \in {"matching", "fulfillment"}
BY DEF TabAfter, DefaultTab

LEMMA Disowned ==
  ASSUME NEW c, CallFits(c), NEW b \in BOOLEAN
  PROVE  LET o == [c EXCEPT !.live = b] IN
         /\ o = [kind |-> c.kind, id |-> c.id, of |-> c.of, status |-> c.status,
                 dwids |-> c.dwids, seen |-> c.seen, live |-> b, retry |-> c.retry, n |-> c.n]
         /\ o.kind = c.kind /\ o.id = c.id /\ o.of = c.of /\ o.status = c.status
         /\ o.dwids = c.dwids /\ o.seen = c.seen /\ o.live = b
<1> DEFINE r == [kind |-> c.kind, id |-> c.id, of |-> c.of, status |-> c.status,
                 dwids |-> c.dwids, seen |-> c.seen, live |-> c.live, retry |-> c.retry, n |-> c.n]
<1>1. c = r
  BY DEF CallFits
<1>2. [r EXCEPT !.live = b] =
        [kind |-> c.kind, id |-> c.id, of |-> c.of, status |-> c.status,
         dwids |-> c.dwids, seen |-> c.seen, live |-> b, retry |-> c.retry, n |-> c.n]
  OBVIOUS
<1> HIDE DEF r
<1> QED BY <1>1, <1>2
(* A call disowned by its component stays right; one that is not is of a   *)
(* request that stays on screen, since an overlay closes between requests. *)
LEMMA OrphanedFits ==
  ASSUME UNCHANGED variant, NEW S, \A c \in S : CallFits(c),
         Overlay => viewing' = viewing \/ viewing = NoRequest \/ viewing' = NoRequest
  PROVE  \A c \in Orphaned(S) : CallFits(c)'
<1> SUFFICES ASSUME NEW d \in Orphaned(S) PROVE CallFits(d)'
  OBVIOUS
<1>1. PICK c \in S : d = [c EXCEPT !.live = c.live /\ Survives(c)]
  BY DEF Orphaned
<1> DEFINE b == c.live /\ Survives(c)
<1>2. CallFits(c) /\ b \in BOOLEAN
  BY DEF Survives, Mounted, BodyShown, CallFits
<1>3. b => c.live /\ (c.kind = "review" => viewing' # NoRequest)
  BY DEF Survives, Mounted, BodyShown
<1>4. d = [c EXCEPT !.live = b]
  BY <1>1
<1> HIDE DEF b
<1>5. /\ d = [kind |-> c.kind, id |-> c.id, of |-> c.of, status |-> c.status,
              dwids |-> c.dwids, seen |-> c.seen, live |-> b, retry |-> c.retry, n |-> c.n]
      /\ d.kind = c.kind /\ d.id = c.id /\ d.of = c.of /\ d.status = c.status
      /\ d.dwids = c.dwids /\ d.seen = c.seen /\ d.live = b
  BY <1>2, <1>4, Disowned
<1>6. d = [kind |-> d.kind, id |-> d.id, of |-> d.of, status |-> d.status, dwids |-> d.dwids,
           seen |-> d.seen, live |-> d.live, retry |-> d.retry, n |-> d.n]
  BY <1>5
<1>7. Found(d.seen)' = Found(c.seen)
  BY <1>5 DEF Found, At, NoData
<1>8. ASSUME Overlay
      PROVE  /\ d.seen.of = d.of
             /\ d.id = "promote" => /\ d.dwids \subseteq Found(c.seen)
                                    /\ d.dwids = {} <=> d.status = 5
             /\ d.kind = "review" /\ d.live => d.of = viewing' /\ viewing' # NoRequest
  <2>1. /\ c.seen.of = c.of
        /\ c.id = "promote" => /\ c.dwids \subseteq Found(c.seen)
                               /\ c.dwids = {} <=> c.status = 5
        /\ c.kind = "review" /\ c.live => c.of = viewing /\ viewing # NoRequest
    BY <1>2, <1>8 DEF CallFits
  <2> QED BY <1>3, <1>5, <1>8, <2>1
<1>9. Overlay' = Overlay
  BY DEF Overlay
<1>10. d.live \in BOOLEAN /\ (d.kind = "stage" => d.id \in AskIds)
  BY <1>2, <1>5 DEF CallFits
<1> QED BY <1>6, <1>7, <1>8, <1>9, <1>10 DEF CallFits

LEMMA SuggestsCode == ASSUME NEW datum PROVE Suggests(datum) \in {3, 4, 5}
<1>1. CASE datum = NoData
  BY <1>1 DEF Suggests
<1>2. CASE datum # NoData /\ At(datum).result = "nobody"
  BY <1>2, Zenon DEF Suggests
<1>3. CASE datum # NoData /\ At(datum).result = "many"
  BY <1>3, Zenon DEF Suggests
<1>4. CASE datum # NoData /\ At(datum).result # "nobody" /\ At(datum).result # "many"
  BY <1>4, Zenon DEF Suggests
<1> QED BY <1>1, <1>2, <1>3, <1>4

LEMMA NotRepicked == ASSUME NEW p, p.asks # "fulfill" PROVE Repicked(p) = p
BY DEF Repicked

LEMMA Picked ==
  ASSUME NEW p, p = [asks |-> p.asks, status |-> p.status, dwids |-> p.dwids],
         NEW s, NEW d
  PROVE  [p EXCEPT !.status = s, !.dwids = d] = [asks |-> p.asks, status |-> s, dwids |-> d]
<1> DEFINE r1 == [asks |-> p.asks, status |-> p.status, dwids |-> p.dwids]
           r2 == [asks |-> p.asks, status |-> s, dwids |-> p.dwids]
           r3 == [asks |-> p.asks, status |-> s, dwids |-> d]
<1>1. [r1 EXCEPT !.status = s] = r2
  OBVIOUS
<1>2. [r2 EXCEPT !.dwids = d] = r3
  OBVIOUS
<1>3. p = r1
  OBVIOUS
<1> HIDE DEF r1, r2, r3
<1>4. [p EXCEPT !.status = s, !.dwids = d] = r3
  BY <1>1, <1>2, <1>3
<1> QED BY <1>4 DEF r3

(* An open dialog keeps people of the result on screen, which it picks     *)
(* anew when another result is answered.                                   *)
LEMMA RepickedFits ==
  ASSUME UNCHANGED variant, NEW p, PanelFits(p), NEW q, q = Repicked(p),
         Overlay /\ p.asks # "none" => finding' # NoData
  PROVE  PanelFits(q)'
<1>1. UNCHANGED Overlay
  BY DEF Overlay
<1>2. CASE p.asks = "fulfill" /\ (finding = NoData \/ Found(finding)' # Found(finding))
  <2>1. Repicked(p) = [asks |-> p.asks, status |-> Suggests(finding)',
                       dwids |-> Preselected(finding)']
    <3>1. p = [asks |-> p.asks, status |-> p.status, dwids |-> p.dwids]
      BY DEF PanelFits
    <3>2. Repicked(p) = [p EXCEPT !.status = Suggests(finding)', !.dwids = Preselected(finding)']
      BY <1>2, Zenon DEF Repicked
    <3> QED BY <3>1, <3>2, Picked
  <2>2. Suggests(finding)' \in {3, 4, 5}
    BY SuggestsCode
  <2>3. Preselected(finding)' \subseteq Found(finding)'
    BY DEF Preselected
  <2> QED BY <1>1, <1>2, <2>1, <2>2, <2>3 DEF PanelFits
<1>3. CASE ~(p.asks = "fulfill" /\ (finding = NoData \/ Found(finding)' # Found(finding)))
  <2>1. Repicked(p) = p
    BY <1>3 DEF Repicked
  <2> QED BY <1>1, <1>3, <2>1 DEF PanelFits
<1> QED BY <1>2, <1>3

LEMMA RenderFits ==
  ASSUME DetailInv, UNCHANGED <<variant, viewer>>,
         truth' \in [Records -> Nat \ {0}], DataFits',
         Overlay => viewing' = viewing \/ viewing = NoRequest \/ viewing' = NoRequest,
         viewing' = viewing /\ finding # NoData => finding' # NoData,
         NEW t \in {"matching", "fulfillment"}, NEW b, BarFits(b),
         NEW p, PanelFits(p), p # FreshPanel => PanelShown,
         NEW calls, \A c \in calls : CallFits(c),
         NEW notes, \A c \in notes : CallFits(c),
         Render(t, b, p, calls, notes)
  PROVE  DetailInv'
<1>1. detailTab' \in {"matching", "fulfillment"}
  BY TabTyped DEF Render
<1>2. BarFits(bar)' /\ (bar.pending # "" => BodyShown)'
  BY Fresh DEF Render, BarFits, Overlay
<1>3. PanelFits(panel)' /\ (panel # FreshPanel => PanelShown)'
  <2>1. CASE panel' = FreshPanel
    <3>1. PanelFits(FreshPanel)'
      BY DEF PanelFits, FreshPanel
    <3> QED BY <2>1, <3>1 DEF PanelFits
  <2>2. CASE panel' # FreshPanel
    <3>1. PanelShown' /\ panel' = Repicked(p) /\ (PanelShown \/ p = FreshPanel)
      BY <2>2 DEF Render
    <3>2. p # FreshPanel
      <4>1. Repicked(FreshPanel) = FreshPanel
        BY Fresh, NotRepicked
      <4> QED BY <2>2, <3>1, <4>1
    <3>3. viewing # NoRequest /\ viewing' # NoRequest
      BY <3>1, <3>2 DEF PanelShown, BodyShown, Mounted
    <3>4. Overlay /\ p.asks # "none" => finding' # NoData
      BY <3>3 DEF PanelFits
    <3>5. PICK q : q = panel'
      OBVIOUS
    <3>6. PanelFits(q)'
      BY <3>1, <3>4, <3>5, RepickedFits
    <3> QED BY <3>1, <3>5, <3>6 DEF PanelFits
  <2> QED BY <2>1, <2>2
<1>4. (\A c \in posts \cup errorToasts : CallFits(c))'
  <2>1. \A c \in posts' : CallFits(c)'
    BY OrphanedFits DEF Render
  <2>2. \A c \in errorToasts' : CallFits(c)'
    BY OrphanedFits DEF Render
  <2> QED BY <2>1, <2>2
<1> QED BY <1>1, <1>2, <1>3, <1>4 DEF DetailInv
LEMMA DataRests ==
  ASSUME DetailInv, UNCHANGED <<variant, truth, dataVars>>
  PROVE  truth' \in [Records -> Nat \ {0}] /\ DataFits' /\ viewing' = viewing /\ finding' = finding
BY DEF DetailInv, DataFits, dataVars, Overlay

LEMMA RenderHere ==
  ASSUME DetailInv, UNCHANGED <<variant, viewer, truth, dataVars>>,
         NEW t \in {"matching", "fulfillment"}, NEW b, BarFits(b),
         NEW p, PanelFits(p), p # FreshPanel => PanelShown,
         NEW calls, \A c \in calls : CallFits(c),
         NEW notes, \A c \in notes : CallFits(c),
         Render(t, b, p, calls, notes)
  PROVE  DetailInv'
BY DataRests, RenderFits

LEMMA RenderedSame ==
  ASSUME DetailInv, UNCHANGED <<variant, viewer>>,
         truth' \in [Records -> Nat \ {0}], DataFits',
         Overlay => viewing' = viewing \/ viewing = NoRequest \/ viewing' = NoRequest,
         viewing' = viewing /\ finding # NoData => finding' # NoData,
         RenderSame
  PROVE  DetailInv'
<1>1. /\ detailTab \in {"matching", "fulfillment"} /\ BarFits(bar) /\ PanelFits(panel)
      /\ panel # FreshPanel => PanelShown
      /\ \A c \in posts : CallFits(c)
      /\ \A c \in errorToasts : CallFits(c)
  BY DEF DetailInv
<1> QED BY <1>1, RenderFits DEF RenderSame

-----------------------------------------------------------------------------
(* Requests come and go, data loads                                        *)

LEMMA InitDetailInv == DetailInit => DetailInv
<1> SUFFICES ASSUME DetailInit PROVE DetailInv
  OBVIOUS
<1>1. truth \in [Records -> Nat \ {0}] /\ posts = {} /\ errorToasts = {}
  BY DEF DetailInit
<1>2. DataFits
  BY Fresh DEF DetailInit, DataFits
<1>3. BarFits(bar) /\ PanelFits(panel) /\ bar.pending = "" /\ panel = FreshPanel
  BY Fresh DEF DetailInit
<1>4. detailTab \in {"matching", "fulfillment"}
  BY DEF DetailInit, DefaultTab
<1> QED BY <1>1, <1>2, <1>3, <1>4 DEF DetailInv

LEMMA ShowFits ==
  ASSUME DetailInv, NEW r \in Records \cup {NoRequest}, r # viewing,
         Overlay => viewing = NoRequest \/ r = NoRequest,
         NEW j, NEW f, NEW i,
         \A d \in {j, f, i} : \/ d = NoData
                             \/ /\ r \in Records
                                /\ \E k \in 1 .. truth[r] : d = [of |-> r, at |-> k],
         ShowRequest(r, j, f, i)
  PROVE  DetailInv'
<1>1. /\ viewing' = r /\ failing' = FALSE /\ UNCHANGED <<variant, viewer, truth>>
      /\ journey' = LatestOf(j, Placeholder(journey))
      /\ finding' = LatestOf(f, Placeholder(finding)) /\ row' = i
  BY DEF ShowRequest
<1>2. truth \in [Records -> Nat \ {0}]
  BY DEF DetailInv
<1>3. ASSUME NEW d \in {j, f, i}
      PROVE  /\ d \in Datum /\ (d = NoData \/ (d.of \in Records /\ d.at \in 1 .. truth[d.of]))
             /\ d = NoData \/ d.of = r
  <2>1. CASE d = NoData
    BY <2>1, Fresh
  <2>2. ASSUME r \in Records, NEW k \in 1 .. truth[r], d = [of |-> r, at |-> k]
        PROVE  d \in Datum /\ d.of = r /\ d.at \in 1 .. truth[d.of]
    BY <1>2, <2>2 DEF Datum
  <2> QED BY <2>1, <2>2
<1>4. ASSUME NEW d \in {journey, finding}
      PROVE  LET e == Placeholder(d) IN
             /\ e \in Datum /\ (e = NoData \/ (e.of \in Records /\ e.at \in 1 .. truth[e.of]))
             /\ Overlay => e = NoData
  <2>1. d \in Datum /\ (d = NoData \/ (d.of \in Records /\ d.at \in 1 .. truth[d.of]))
    BY <1>4 DEF DetailInv, DataFits
  <2>2. CASE variant = "page"
    BY <2>1, <2>2 DEF Placeholder, Overlay
  <2>3. CASE variant # "page"
    BY <2>3, Fresh DEF Placeholder
  <2> QED BY <2>2, <2>3
<1>5. DataFits'
  BY <1>1, <1>3, <1>4 DEF DataFits, LatestOf, Overlay
<1>6. RenderSame
  BY DEF ShowRequest
<1> QED BY <1>1, <1>2, <1>5, <1>6, RenderedSame

LEMMA OpenFits == ASSUME DetailInv, NEW r \in Records, OpenRequest(r) PROVE DetailInv'
<1>1. PICK j \in Cached(r), f \in Cached(r), i \in Cached(r) : ShowRequest(r, j, f, i)
  BY DEF OpenRequest
<1>2. \A d \in {j, f, i} : d = NoData \/ \E k \in 1 .. truth[r] : d = [of |-> r, at |-> k]
  BY DEF Cached
<1> QED BY <1>1, <1>2, ShowFits DEF OpenRequest, Overlay

LEMMA CloseFits == ASSUME DetailInv, CloseOverlay PROVE DetailInv'
BY ShowFits DEF CloseOverlay

LEMMA LoadFits ==
  ASSUME DetailInv, JourneyLoads \/ FindingLoads \/ ItemLoads
  PROVE  DetailInv'
<1>1. viewing # NoRequest
  BY DEF JourneyLoads, FindingLoads, ItemLoads, Mounted
<1>2. viewing \in Records /\ truth \in [Records -> Nat \ {0}]
  BY <1>1 DEF DetailInv, DataFits
<1>3. /\ Now \in Datum /\ Now.of = viewing /\ Now.at \in 1 .. truth[viewing]
  BY <1>2 DEF Now, Datum
<1>4. Now # NoData
  BY <1>3, <1>1, Fresh
<1>5. UNCHANGED <<variant, viewer, truth, viewing>> /\ RenderSame
  BY DEF JourneyLoads, FindingLoads, ItemLoads
<1>6. /\ journey' \in {journey, Now, NoData} /\ finding' \in {finding, Now}
      /\ row' \in {row, Now} /\ failing' \in BOOLEAN
  BY DEF JourneyLoads, FindingLoads, ItemLoads, DetailInv, DataFits
<1>7. DataFits'
  BY <1>2, <1>3, <1>5, <1>6, Fresh DEF DetailInv, DataFits, Overlay
<1>8. finding # NoData => finding' # NoData
  BY <1>4, <1>6
<1> QED BY <1>2, <1>5, <1>7, <1>8, RenderedSame

LEMMA MovesOnFits == ASSUME DetailInv, NEW r \in Records, MovesOn(r) PROVE DetailInv'
<1>1. /\ truth' = [truth EXCEPT ![r] = @ + 1] /\ truth \in [Records -> Nat \ {0}]
      /\ UNCHANGED <<variant, viewer, dataVars, detailTab, bar, panel, posts, newest, errorToasts>>
  BY DEF MovesOn, DetailInv
<1>2. /\ truth' \in [Records -> Nat \ {0}]
      /\ \A s \in Records : \A k : k \in 1 .. truth[s] => k \in 1 .. truth'[s]
  BY <1>1
<1>3. UNCHANGED <<viewing, journey, finding, row, failing>>
  BY <1>1 DEF dataVars
<1>4. DataFits'
  BY <1>1, <1>2, <1>3 DEF DetailInv, DataFits, Overlay
<1>5. BarFits(bar)' /\ PanelFits(panel)' /\ \A c \in posts \cup errorToasts : CallFits(c)'
  BY <1>1, <1>3 DEF DetailInv, BarFits, PanelFits, CallFits, Overlay
<1>6. BodyShown' = BodyShown /\ PanelShown' = PanelShown
  BY <1>1, <1>3 DEF BodyShown, PanelShown, Mounted
<1> QED BY <1>1, <1>2, <1>4, <1>5, <1>6 DEF DetailInv

LEMMA PickTabFits ==
  ASSUME DetailInv, NEW t \in {"matching", "fulfillment"}, PickTab(t) PROVE DetailInv'
<1>1. BarFits(bar) /\ PanelFits(panel) /\ (panel # FreshPanel => PanelShown)
  BY DEF DetailInv
<1>2. (\A c \in posts : CallFits(c)) /\ (\A c \in errorToasts : CallFits(c))
  BY DEF DetailInv
<1> QED BY <1>1, <1>2, RenderHere DEF PickTab

-----------------------------------------------------------------------------
(* Calls                                                                   *)

LEMMA CallMade ==
  ASSUME NEW kind, NEW id, NEW of, NEW status, NEW dwids, NEW seen, NEW live \in BOOLEAN,
         NEW retry, kind = "stage" => id \in AskIds,
         Overlay => /\ seen.of = of
                    /\ id = "promote" => /\ dwids \subseteq Found(seen)
                                         /\ dwids = {} <=> status = 5
                    /\ kind = "review" /\ live => of = viewing /\ viewing # NoRequest
  PROVE  CallFits(Post(kind, id, of, status, dwids, seen, live, retry))
<1> DEFINE c == Post(kind, id, of, status, dwids, seen, live, retry)
<1>1. /\ c.kind = kind /\ c.id = id /\ c.of = of /\ c.status = status /\ c.dwids = dwids
      /\ c.seen = seen /\ c.live = live
      /\ c = [kind |-> c.kind, id |-> c.id, of |-> c.of, status |-> c.status,
              dwids |-> c.dwids, seen |-> c.seen, live |-> c.live, retry |-> c.retry, n |-> c.n]
  BY DEF Post
<1> HIDE DEF c
<1>2. CallFits(c)
  BY <1>1 DEF CallFits
<1> QED BY <1>2 DEF c

(* A stage action is asked for with the journey of its own request.        *)
LEMMA RunStageFits ==
  ASSUME DetailInv, NEW ask \in Asked, Overlay => ask.seen.of = ask.of, RunStage(ask)
  PROVE  DetailInv'
<1> DEFINE c == Post("stage", ask.id, ask.of, 0, {}, ask.seen, TRUE, FALSE)
           b == [bar EXCEPT !.pending = ask.id]
<1>1. ask.id \in AskIds /\ ask.id # "promote"
  BY DEF Asked, AskIds
<1>2. CallFits(c)
  BY <1>1, CallMade
<1>3. BarFits(b)
  BY <1>1 DEF DetailInv, BarFits, BarRow
<1>4. (\A d \in posts \cup {c} : CallFits(d)) /\ (\A d \in errorToasts : CallFits(d))
  BY <1>2 DEF DetailInv
<1>5. /\ detailTab \in {"matching", "fulfillment"} /\ PanelFits(panel)
      /\ panel # FreshPanel => PanelShown
  BY DEF DetailInv
<1>6. /\ UNCHANGED <<variant, viewer, truth, dataVars>>
      /\ Render(detailTab, b, panel, posts \cup {c}, errorToasts)
  BY DEF RunStage
<1> HIDE DEF b, c
<1> QED BY <1>3, <1>4, <1>5, <1>6, RenderHere

LEMMA AskingFits ==
  ASSUME DetailInv, BodyShown, NEW id \in StageActions
  PROVE  Asking(id) \in Asked /\ (Overlay => Asking(id).seen.of = Asking(id).of)
<1>1. id \in AskIds
  BY DEF StageActions, AskIds
<1>2. /\ journey \in Datum /\ journey # NoData /\ viewing \in Records \cup {NoRequest}
      /\ Overlay => journey.of = viewing
  BY DEF BodyShown, DetailInv, DataFits
<1>3. [journey EXCEPT !.at = 0] \in Datum /\ [journey EXCEPT !.at = 0].of = journey.of
  BY <1>2 DEF Datum
<1> QED BY <1>1, <1>2, <1>3 DEF Asking, Asked

LEMMA PressFits ==
  ASSUME DetailInv, NEW id \in StageActions, NEW warned \in BOOLEAN, PressStage(id, warned)
  PROVE  DetailInv'
<1>1. Asking(id) \in Asked /\ (Overlay => Asking(id).seen.of = Asking(id).of)
  BY AskingFits DEF PressStage
<1>2. CASE id = "notice_approve" \/ (id = "close" /\ warned)
  <2> DEFINE b == [bar EXCEPT !.asks = Asking(id)]
  <2>1. BarFits(b)
    BY <1>1 DEF DetailInv, BarFits, BarRow
  <2>2. /\ detailTab \in {"matching", "fulfillment"} /\ PanelFits(panel)
        /\ panel # FreshPanel => PanelShown
        /\ \A d \in posts : CallFits(d)
        /\ \A d \in errorToasts : CallFits(d)
    BY DEF DetailInv
  <2>3. /\ UNCHANGED <<variant, viewer, truth, dataVars>>
        /\ Render(detailTab, b, panel, posts, errorToasts)
    BY <1>2 DEF PressStage
  <2> HIDE DEF b
  <2> QED BY <2>1, <2>2, <2>3, RenderHere
<1>3. CASE ~(id = "notice_approve" \/ (id = "close" /\ warned))
  <2>1. RunStage(Asking(id))
    BY <1>3 DEF PressStage
  <2> QED BY <1>1, <2>1, RunStageFits
<1> QED BY <1>2, <1>3

LEMMA ConfirmStageFits == ASSUME DetailInv, ConfirmStage PROVE DetailInv'
<1>1. bar.asks \in Asked /\ (Overlay => bar.asks.seen.of = bar.asks.of)
  BY DEF DetailInv, BarFits, BarRow
<1> QED BY <1>1, RunStageFits DEF ConfirmStage

LEMMA CancelStageFits == ASSUME DetailInv, CancelStage PROVE DetailInv'
<1> DEFINE b == [bar EXCEPT !.asks = Nothing]
<1>1. BarFits(b)
  <2>1. Nothing \in Asked /\ Nothing.seen.of = Nothing.of
    BY Fresh DEF Nothing, Asked, AskIds
  <2> QED BY <2>1 DEF DetailInv, BarFits, BarRow
<1>2. /\ detailTab \in {"matching", "fulfillment"} /\ PanelFits(panel)
      /\ panel # FreshPanel => PanelShown
      /\ \A d \in posts : CallFits(d)
      /\ \A d \in errorToasts : CallFits(d)
  BY DEF DetailInv
<1>3. /\ UNCHANGED <<variant, viewer, truth, dataVars>>
      /\ Render(detailTab, b, panel, posts, errorToasts)
  BY DEF CancelStage
<1> HIDE DEF b
<1> QED BY <1>1, <1>2, <1>3, RenderHere

(* The decisions render nothing else anew.                                 *)
LEMMA PanelSet ==
  ASSUME DetailInv, UNCHANGED <<variant, viewer, truth, dataVars, detailTab, bar, errorToasts>>,
         NEW q, q = panel', PanelFits(q), q # FreshPanel => PanelShown,
         \A c \in posts' : CallFits(c)
  PROVE  DetailInv'
<1>1. /\ truth' \in [Records -> Nat \ {0}] /\ DataFits'
      /\ UNCHANGED <<viewing, journey, finding, row, failing>>
  BY DataRests DEF dataVars
<1>2. BarFits(bar)' /\ PanelFits(panel)'
  BY <1>1 DEF DetailInv, BarFits, PanelFits, Overlay
<1>3. BodyShown' = BodyShown /\ PanelShown' = PanelShown
  BY <1>1 DEF BodyShown, PanelShown, Mounted
<1>4. (\A c \in posts \cup errorToasts : CallFits(c))'
  BY <1>1 DEF DetailInv, CallFits, Overlay
<1> QED BY <1>1, <1>2, <1>3, <1>4 DEF DetailInv

LEMMA AskDecisionFits ==
  ASSUME DetailInv, NEW d \in {"fulfill", "decline"}, AskDecision(d) PROVE DetailInv'
<1>1. finding # NoData /\ PanelShown
  BY DEF AskDecision, MayDispose, AwaitsDecision
<1>2. PanelFits(panel')
  <2>1. CASE d = "fulfill"
    <3>1. panel' = [asks |-> d, status |-> Suggests(finding), dwids |-> Preselected(finding)]
      BY <2>1 DEF AskDecision
    <3>2. Suggests(finding) \in {3, 4, 5} /\ Preselected(finding) \subseteq Found(finding)
      BY SuggestsCode DEF Preselected
    <3> QED BY <1>1, <3>1, <3>2 DEF PanelFits
  <2>2. CASE d = "decline"
    <3>1. panel' = [asks |-> d, status |-> 0, dwids |-> {}]
      BY <2>2 DEF AskDecision, FreshPanel
    <3> QED BY <1>1, <2>2, <3>1 DEF PanelFits
  <2> QED BY <2>1, <2>2
<1>3. \A c \in posts' : CallFits(c)
  BY DEF AskDecision, DetailInv
<1> QED BY <1>1, <1>2, <1>3, PanelSet DEF AskDecision

LEMMA SetPanelFits ==
  ASSUME DetailInv, NEW p, PanelFits(p), SetPanel(p) PROVE DetailInv'
<1>1. PanelShown
  <2>1. panel.asks # "none" /\ (panel # FreshPanel => PanelShown)
    BY DEF SetPanel, DetailInv
  <2> QED BY <2>1, Fresh
<1>2. \A c \in posts' : CallFits(c)
  BY DEF SetPanel, DetailInv
<1> QED BY <1>1, <1>2, PanelSet DEF SetPanel

LEMMA PickStatusFits ==
  ASSUME DetailInv, NEW c \in {3, 4, 5}, PickStatus(c) PROVE DetailInv'
<1> DEFINE dwids == IF c = 5 THEN {} ELSE Found(finding)
           p     == [panel EXCEPT !.status = c, !.dwids = dwids]
<1>1. /\ panel = [asks |-> panel.asks, status |-> panel.status, dwids |-> panel.dwids]
      /\ panel.asks = "fulfill" /\ (Overlay => finding # NoData)
  BY DEF PickStatus, SetPanel, DetailInv, PanelFits
<1>2. p = [asks |-> panel.asks, status |-> c, dwids |-> dwids]
  BY <1>1, Picked
<1>3. dwids \subseteq Found(finding)
  OBVIOUS
<1>4. SetPanel(p)
  BY DEF PickStatus
<1> HIDE DEF p, dwids
<1>5. PanelFits(p)
  BY <1>1, <1>2, <1>3 DEF PanelFits
<1> QED BY <1>4, <1>5, SetPanelFits

LEMMA TickDwidFits == ASSUME DetailInv, NEW x, TickDwid(x) PROVE DetailInv'
<1> DEFINE dwids == IF x \in panel.dwids THEN panel.dwids \ {x} ELSE panel.dwids \cup {x}
           p     == [panel EXCEPT !.dwids = dwids]
           same  == [asks |-> panel.asks, status |-> panel.status, dwids |-> panel.dwids]
<1>1. /\ panel = same
      /\ panel.asks = "fulfill" /\ panel.status \in {3, 4, 5} /\ panel.dwids \subseteq Found(finding)
      /\ Overlay => finding # NoData
  BY DEF TickDwid, SetPanel, DetailInv, PanelFits
<1>2. [same EXCEPT !.dwids = dwids] =
        [asks |-> panel.asks, status |-> panel.status, dwids |-> dwids]
  OBVIOUS
<1>3. dwids \subseteq Found(finding)
  BY <1>1 DEF TickDwid
<1>4. SetPanel(p)
  BY DEF TickDwid
<1> HIDE DEF same, dwids
<1>5. p = [asks |-> panel.asks, status |-> panel.status, dwids |-> dwids]
  BY <1>1, <1>2
<1> HIDE DEF p
<1>6. PanelFits(p)
  BY <1>1, <1>3, <1>5 DEF PanelFits
<1> QED BY <1>4, <1>6, SetPanelFits

LEMMA ConfirmDecisionFits == ASSUME DetailInv, ConfirmDecision PROVE DetailInv'
<1>1. PanelFits(panel) /\ PanelShown
  <2>1. /\ panel.asks # "none" /\ (panel # FreshPanel => PanelShown)
        /\ PanelFits(panel)
    BY DEF ConfirmDecision, DetailInv
  <2> QED BY <2>1, Fresh
<1>2. viewing # NoRequest /\ (Overlay => finding # NoData /\ finding.of = viewing)
  BY <1>1 DEF ConfirmDecision, PanelFits, PanelShown, BodyShown, Mounted, DetailInv, DataFits
<1>3. CASE panel.asks = "fulfill"
  <2> DEFINE dwids == IF panel.status = 5 THEN {} ELSE panel.dwids
             c     == Post("review", "promote", viewing, panel.status, dwids, finding, TRUE, FALSE)
  <2>1. dwids \subseteq Found(finding) /\ (dwids = {} <=> panel.status = 5)
    BY <1>1, <1>3 DEF ConfirmDecision, DwidsChosen, PanelFits
  <2>2. posts' = posts \cup {c}
    BY <1>3 DEF ConfirmDecision
  <2> HIDE DEF dwids
  <2>3. CallFits(c)
    BY <1>2, <2>1, CallMade
  <2> HIDE DEF c
  <2>4. \A d \in posts' : CallFits(d)
    BY <2>2, <2>3 DEF DetailInv
  <2> QED BY <1>1, <2>4, PanelSet DEF ConfirmDecision
<1>4. CASE panel.asks # "fulfill"
  <2> DEFINE c == Post("review", "decline", viewing, 0, {}, finding, TRUE, FALSE)
  <2>1. posts' = posts \cup {c}
    BY <1>4 DEF ConfirmDecision
  <2>2. CallFits(c)
    BY <1>2, CallMade
  <2> HIDE DEF c
  <2>3. \A d \in posts' : CallFits(d)
    BY <2>1, <2>2 DEF DetailInv
  <2> QED BY <1>1, <2>3, PanelSet DEF ConfirmDecision
<1> QED BY <1>3, <1>4

LEMMA CancelDecisionFits == ASSUME DetailInv, CancelDecision PROVE DetailInv'
<1>1. \A c \in posts' : CallFits(c)
  BY DEF CancelDecision, DetailInv
<1> QED BY <1>1, Fresh, PanelSet DEF CancelDecision

LEMMA AnsweredFits ==
  ASSUME DetailInv, NEW c \in posts, NEW ok \in BOOLEAN, DetailAnswered(c, ok)
  PROVE  DetailInv'
<1> DEFINE b == IF c.kind = "stage" /\ c.live
                THEN [pending |-> "", asks |-> IF ok THEN Nothing ELSE bar.asks] ELSE bar
           p == IF c.kind = "review" /\ c.live /\ c.n = newest["review"]
                THEN FreshPanel ELSE panel
           notes == IF ok THEN errorToasts ELSE errorToasts \cup {c}
<1>1. Nothing \in Asked /\ Nothing.seen.of = Nothing.of
  BY Fresh DEF Nothing, Asked, AskIds
<1>2. BarFits(bar) /\ PanelFits(panel) /\ (panel # FreshPanel => PanelShown)
  BY DEF DetailInv
<1>3. BarFits(b)
  <2>1. CASE c.kind = "stage" /\ c.live
    <3>1. PICK a : a = IF ok THEN Nothing ELSE bar.asks
      OBVIOUS
    <3>2. b = [pending |-> "", asks |-> a]
      BY <2>1, <3>1
    <3>3. a \in Asked /\ (Overlay => a.seen.of = a.of)
      BY <1>1, <1>2, <3>1 DEF BarFits, BarRow
    <3> HIDE DEF b
    <3>4. b \in BarRow /\ b.asks = a
      BY <3>2, <3>3 DEF BarRow, AskIds
    <3> QED BY <3>3, <3>4 DEF BarFits
  <2>2. CASE ~(c.kind = "stage" /\ c.live)
    BY <1>2, <2>2
  <2> QED BY <2>1, <2>2
<1>4. PanelFits(p) /\ (p # FreshPanel => PanelShown)
  BY <1>2, Fresh
<1>5. (\A d \in posts \ {c} : CallFits(d)) /\ (\A d \in notes : CallFits(d))
  BY DEF DetailInv
<1>6. /\ UNCHANGED <<variant, viewer, truth, dataVars>> /\ detailTab \in {"matching", "fulfillment"}
      /\ Render(detailTab, b, p, posts \ {c}, notes)
  BY DEF DetailAnswered, DetailInv
<1> HIDE DEF b, p, notes
<1> QED BY <1>3, <1>4, <1>5, <1>6, RenderHere

(* A toast of a panel still there is of the request still there, so what   *)
(* Retry sends is right for it again.                                      *)
LEMMA RetryFits == ASSUME DetailInv, NEW t \in errorToasts, RetryPost(t) PROVE DetailInv'
<1> DEFINE of == IF t.kind = "review" /\ t.live THEN viewing ELSE t.of
           c  == Post(t.kind, t.id, of, t.status, t.dwids, t.seen, t.live, TRUE)
           b  == IF t.kind = "stage" /\ t.live THEN [bar EXCEPT !.pending = t.id] ELSE bar
<1>1. CallFits(t)
  BY DEF DetailInv
<1>2. t.live \in BOOLEAN /\ (t.kind = "stage" => t.id \in AskIds)
  BY <1>1 DEF CallFits
<1>3. Overlay => /\ t.seen.of = of
                 /\ t.id = "promote" => /\ t.dwids \subseteq Found(t.seen)
                                        /\ t.dwids = {} <=> t.status = 5
                 /\ t.kind = "review" /\ t.live => of = viewing /\ viewing # NoRequest
  BY <1>1 DEF CallFits
<1>4. /\ UNCHANGED <<variant, viewer, truth, dataVars>>
      /\ Render(detailTab, b, panel, posts \cup {c}, errorToasts \ {t})
  BY DEF RetryPost
<1> HIDE DEF of
<1>5. CallFits(c)
  BY <1>2, <1>3, CallMade
<1>6. BarFits(b)
  BY <1>2 DEF DetailInv, BarFits, BarRow
<1>7. /\ \A d \in posts \cup {c} : CallFits(d)
      /\ \A d \in errorToasts \ {t} : CallFits(d)
  BY <1>5 DEF DetailInv
<1>8. /\ detailTab \in {"matching", "fulfillment"} /\ PanelFits(panel)
      /\ panel # FreshPanel => PanelShown
  BY DEF DetailInv
<1> HIDE DEF b, c
<1> QED BY <1>4, <1>6, <1>7, <1>8, RenderHere

-----------------------------------------------------------------------------
(* The theorems                                                            *)

LEMMA NextDetailInv == DetailInv /\ [DetailNext]_detailVars => DetailInv'
<1> SUFFICES ASSUME DetailInv, [DetailNext]_detailVars PROVE DetailInv'
  OBVIOUS
<1>1. CASE CloseOverlay BY <1>1, CloseFits
<1>2. CASE JourneyLoads \/ FindingLoads \/ ItemLoads BY <1>2, LoadFits
<1>3. ASSUME NEW r \in Records, OpenRequest(r) PROVE DetailInv'
  BY <1>3, OpenFits
<1>4. ASSUME NEW r \in Records, MovesOn(r) PROVE DetailInv'
  BY <1>4, MovesOnFits
<1>5. ASSUME NEW t \in {"matching", "fulfillment"} \ {detailTab}, PickTab(t) PROVE DetailInv'
  BY <1>5, PickTabFits
<1>6. ASSUME NEW id \in StageActions, NEW warned \in BOOLEAN, PressStage(id, warned)
      PROVE  DetailInv'
  BY <1>6, PressFits
<1>7. CASE ConfirmStage BY <1>7, ConfirmStageFits
<1>8. CASE CancelStage BY <1>8, CancelStageFits
<1>9. CASE ConfirmDecision BY <1>9, ConfirmDecisionFits
<1>10. CASE CancelDecision BY <1>10, CancelDecisionFits
<1>11. ASSUME NEW d \in {"fulfill", "decline"}, AskDecision(d) PROVE DetailInv'
  BY <1>11, AskDecisionFits
<1>12. ASSUME NEW c \in {3, 4, 5} \ {panel.status}, PickStatus(c) PROVE DetailInv'
  BY <1>12, PickStatusFits
<1>13. ASSUME NEW x \in {"p", "q"}, TickDwid(x) PROVE DetailInv'
  BY <1>13, TickDwidFits
<1>14. ASSUME NEW c \in posts, NEW ok \in BOOLEAN, DetailAnswered(c, ok) PROVE DetailInv'
  BY <1>14, AnsweredFits
<1>15. ASSUME NEW t \in errorToasts, RetryPost(t) PROVE DetailInv'
  BY <1>15, RetryFits
<1>16. CASE UNCHANGED detailVars
  <2>1. UNCHANGED <<variant, viewer, truth, dataVars, detailTab, bar, panel, posts, errorToasts>>
    BY <1>16 DEF detailVars
  <2>2. /\ PanelFits(panel) /\ (panel # FreshPanel => PanelShown)
        /\ \A c \in posts' : CallFits(c)
    BY <2>1 DEF DetailInv
  <2> QED BY <2>1, <2>2, PanelSet
<1> QED BY <1>1, <1>2, <1>3, <1>4, <1>5, <1>6, <1>7, <1>8, <1>9, <1>10, <1>11, <1>12,
           <1>13, <1>14, <1>15, <1>16 DEF DetailNext

(* The inductive invariant holds in every reachable state.                 *)
THEOREM DetailInvariant == DetailSpec => []DetailInv
<1>1. DetailInit => DetailInv
  BY InitDetailInv
<1>2. DetailInv /\ [DetailNext]_detailVars => DetailInv'
  BY NextDetailInv
<1> QED BY <1>1, <1>2, PTL DEF DetailSpec

(* The data on screen is known at the server, and neither the bar nor the  *)
(* dialog of a body that is gone is still pending or open.                 *)
THEOREM DetailTyped == DetailSpec => []DetailTypeOK
<1>1. DetailInv => DetailTypeOK
  BY DEF DetailInv, DetailTypeOK, DataFits
<1> QED BY <1>1, DetailInvariant, PTL

(* For every set of requests and paths, and any number of calls: what the  *)
(* overlay sends acts on the request whose data offered it, and a          *)
(* promotion carries people of the result that was on screen, none exactly *)
(* for "not found", whatever was cached, polled or retried.                *)
THEOREM OverlayActsOnShown == DetailSpec => []ActsOnShown
<1>1. DetailInv => ActsOnShown
  BY DEF DetailInv, ActsOnShown, CallFits, Overlay
<1> QED BY <1>1, DetailInvariant, PTL

-----------------------------------------------------------------------------
(* The panels of RequestPanels                                             *)

PanelsSpec == PanelsInit /\ [][PanelsNext]_panelVars

GateCall(c) == c.what \in {"identity", "kickoff"}
KickCall(c) == c.what = "kickoff"

IsSend(c) == c = [what |-> c.what, about |-> c.about, text |-> c.text, n |-> c.n,
                  settled |-> c.settled]

(* A call is of one of the panel's mutations, a kickoff of a vertical that *)
(* the server has kicked off once it is settled.                           *)
SendFits(c) ==
  /\ IsSend(c) /\ c.what \in Mutations1 /\ c.n \in 1 .. sendsMade
  /\ c.settled \in BOOLEAN /\ (c.settled => GateCall(c))
  /\ KickCall(c) => c.about \in Verticals /\ (c.settled => c.about \in kicked)

WiresFit ==
  /\ sendsMade \in Nat /\ latestSend \in [Mutations1 -> 0 .. sendsMade]
  /\ kicked \in SUBSET Verticals /\ rowsKicked \subseteq kicked
  /\ \A c \in sends : SendFits(c)
  /\ \A t \in retryable : t.what \in {"owner", "note"}

(* While no refetch failed and the panel stayed: one kickoff is in flight, *)
(* the latest, and a vertical asked for is on its way or on screen.        *)
LoneKick ==
  /\ \A c \in sends : KickCall(c) => c.n = latestSend["kickoff"]
  /\ \A c, d \in sends : KickCall(c) /\ KickCall(d) => c = d

Awaited(v) == v \in rowsKicked \/ \E c \in sends : KickCall(c) /\ c.about = v

KicksFit ==
  /\ kicks \in [Verticals -> Int]
  /\ missed \/ (LoneKick /\ \A v \in Verticals : kicks[v] <= 0 \/ (kicks[v] = 1 /\ Awaited(v)))

EmailFits ==
  /\ artifact \in [uri : Nat, signed : Nat, now : Nat] /\ email \in [uri : Nat, signed : Nat]
  /\ artifact.signed <= artifact.now
  /\ email.uri <= artifact.uri /\ email.signed <= artifact.now

(* The row selected was named by the id of the entry described.            *)
SelectionFits == chosen = <<>> \/ chosen[2] = detail.id

PanelsInv == WiresFit /\ KicksFit /\ EmailFits /\ SelectionFits

LEMMA InitPanelsInv == PanelsInit => PanelsInv
<1> SUFFICES ASSUME PanelsInit PROVE PanelsInv
  OBVIOUS
<1>1. /\ sendsMade = 0 /\ latestSend = [m \in Mutations1 |-> 0] /\ sends = {} /\ retryable = {}
      /\ kicked = {} /\ rowsKicked = {} /\ kicks = [v \in Verticals |-> 0] /\ ~missed
  BY DEF PanelsInit
<1>2. latestSend \in [Mutations1 -> 0 .. sendsMade]
  BY <1>1
<1>3. WiresFit
  BY <1>1, <1>2 DEF WiresFit
<1>4. KicksFit
  BY <1>1 DEF KicksFit, LoneKick
<1>5. EmailFits
  <2>1. artifact = [uri |-> 0, signed |-> 0, now |-> 0] /\ email = [uri |-> 0, signed |-> 0]
    BY DEF PanelsInit
  <2> QED BY <2>1 DEF EmailFits
<1>6. SelectionFits
  BY DEF PanelsInit, SelectionFits
<1> QED BY <1>3, <1>4, <1>5, <1>6 DEF PanelsInv

Sent(what, about) ==
  /\ WiresFit' /\ latestSend'[what] = sendsMade + 1
  /\ what # "kickoff" => latestSend'["kickoff"] = latestSend["kickoff"]
  /\ \E e : /\ sends' = sends \cup {e} /\ e.what = what /\ e.about = about
            /\ e.n = sendsMade + 1 /\ e.settled = FALSE

LEMMA CallSent ==
  ASSUME WiresFit, NEW what \in Mutations1, NEW about, NEW text, SendCall(what, about, text),
         what = "kickoff" => about \in Verticals,
         kicked' = kicked, rowsKicked' = rowsKicked, retryable' \subseteq retryable
  PROVE  Sent(what, about)
<1>1. PICK e : /\ sends' = sends \cup {e} /\ IsSend(e)
               /\ e.what = what /\ e.about = about /\ e.n = sendsMade + 1 /\ e.settled = FALSE
  <2> DEFINE e0 == [what |-> what, about |-> about, text |-> text, n |-> sendsMade + 1,
                    settled |-> FALSE]
  <2>1. sends' = sends \cup {e0}
    BY DEF SendCall
  <2>2. /\ IsSend(e0)
        /\ e0.what = what /\ e0.about = about /\ e0.n = sendsMade + 1 /\ e0.settled = FALSE
    BY DEF IsSend
  <2> HIDE DEF e0
  <2> QED BY <2>1, <2>2
<1>2. sendsMade' = sendsMade + 1 /\ latestSend' = [latestSend EXCEPT ![what] = sendsMade + 1]
  BY DEF SendCall
<1>3. SendFits(e)'
  <2>1. IsSend(e)'
    BY <1>1 DEF IsSend
  <2>2. e.what \in Mutations1 /\ e.n \in 1 .. sendsMade' /\ ~e.settled
    BY <1>1, <1>2 DEF WiresFit
  <2> QED BY <1>1, <2>1, <2>2 DEF SendFits, KickCall
<1>4. \A c \in sends : SendFits(c)'
  BY <1>2 DEF SendFits, WiresFit, KickCall, GateCall, IsSend
<1>5. latestSend' \in [Mutations1 -> 0 .. sendsMade'] /\ latestSend'[what] = sendsMade + 1
  BY <1>2 DEF WiresFit
<1>6. WiresFit'
  BY <1>1, <1>2, <1>3, <1>4, <1>5 DEF WiresFit
<1>7. what # "kickoff" => latestSend'["kickoff"] = latestSend["kickoff"]
  BY <1>2 DEF WiresFit, Mutations1
<1> QED BY <1>1, <1>2, <1>5, <1>6, <1>7 DEF Sent

(* Calls of other mutations leave the kickoffs alone.                      *)
LEMMA KicksRest ==
  ASSUME WiresFit, KicksFit, UNCHANGED <<kicks, missed, rowsKicked>>,
         latestSend'["kickoff"] = latestSend["kickoff"],
         \A c \in sends' : KickCall(c) => c \in sends,
         \A c \in sends : KickCall(c) => c \in sends'
  PROVE  KicksFit'
<1>1. \A v : Awaited(v) => Awaited(v)'
  BY DEF Awaited, KickCall
<1>2. LoneKick => LoneKick'
  BY DEF LoneKick, KickCall
<1> QED BY <1>1, <1>2 DEF KicksFit

-----------------------------------------------------------------------------
(* The gate                                                                *)

KicksHold == WiresFit /\ KicksFit

LEMMA KickOffStep ==
  ASSUME KicksHold, NEW v \in Verticals, KickOff(v)
  PROVE  KicksHold'
<1> USE DEF KicksHold
<1>1. SendCall("kickoff", v, override) /\ UNCHANGED <<kicked, rowsKicked, missed, retryable>>
  BY DEF KickOff
<1>2. /\ "kickoff" \in Mutations1 /\ retryable' \subseteq retryable
      /\ kicked' = kicked /\ rowsKicked' = rowsKicked /\ WiresFit
  BY <1>1 DEF Mutations1
<1>3. /\ WiresFit' /\ latestSend'["kickoff"] = sendsMade + 1
      /\ \E e : /\ sends' = sends \cup {e} /\ e.what = "kickoff" /\ e.about = v
                /\ e.n = sendsMade + 1 /\ e.settled = FALSE
  <2>1. Sent("kickoff", v)
    BY <1>1, <1>2, CallSent
  <2> QED BY <2>1 DEF Sent
<1>4. PICK e : /\ sends' = sends \cup {e} /\ e.what = "kickoff" /\ e.about = v
               /\ e.n = sendsMade + 1
  BY <1>3
<1>5. v \notin rowsKicked /\ kicks' = [kicks EXCEPT ![v] = @ + 1]
  BY DEF KickOff, Candidates
<1>6. kicks' \in [Verticals -> Int] /\ kicks'[v] = kicks[v] + 1
      /\ \A w \in Verticals : w # v => kicks'[w] = kicks[w]
  BY <1>5 DEF KicksFit
<1>7. ASSUME ~missed PROVE LoneKick' /\ \A w \in Verticals : kicks'[w] <= 0 \/ (kicks'[w] = 1 /\ Awaited(w)')
  <2>1. \A c \in sends : ~KickCall(c)
    BY <1>7 DEF KicksFit, LoneKick, KickOff, KickIdle, Sending, KickCall
  <2>2. LoneKick'
    BY <1>3, <1>4, <2>1 DEF LoneKick, KickCall
  <2>3. Awaited(v)'
    BY <1>4 DEF Awaited, KickCall
  <2>4. \A w \in Verticals : Awaited(w) => w \in rowsKicked
    BY <2>1 DEF Awaited
  <2>5. \A w \in Verticals : Awaited(w) => Awaited(w)'
    BY <1>1, <2>4 DEF Awaited
  <2>6. kicks[v] <= 0
    BY <1>5, <1>7, <2>4 DEF KicksFit
  <2>7. kicks'[v] <= 0 \/ kicks'[v] = 1
    BY <1>6, <2>6 DEF KicksFit
  <2> QED BY <1>6, <1>7, <2>2, <2>3, <2>5, <2>7 DEF KicksFit
<1> QED BY <1>1, <1>3, <1>6, <1>7 DEF KicksFit

LEMMA SetTo ==
  ASSUME NEW c, IsSend(c), NEW b
  PROVE  LET f == [c EXCEPT !.settled = b] IN
         IsSend(f) /\ f.what = c.what /\ f.about = c.about /\ f.n = c.n /\ f.settled = b
<1> DEFINE r == [what |-> c.what, about |-> c.about, text |-> c.text, n |-> c.n,
                 settled |-> c.settled]
           g == [what |-> c.what, about |-> c.about, text |-> c.text, n |-> c.n, settled |-> b]
<1>1. c = r
  BY DEF IsSend
<1>2. [r EXCEPT !.settled = b] = g
  OBVIOUS
<1>3. IsSend(g) /\ g.what = c.what /\ g.about = c.about /\ g.n = c.n /\ g.settled = b
  BY DEF IsSend
<1> HIDE DEF r, g
<1> QED BY <1>1, <1>2, <1>3

(* A call that is settled, or gone.                                        *)
LEMMA Answered1 ==
  ASSUME KicksHold, NEW c \in sends,
         sends' = sends \ {c} \/ Settle1(c)
  PROVE  /\ LoneKick /\ latestSend'["kickoff"] = latestSend["kickoff"] => LoneKick'
         /\ \A d \in sends' : /\ IsSend(d)
                              /\ \E b \in sends : /\ d.what = b.what /\ d.about = b.about /\ d.n = b.n
                                                  /\ d = b \/ (b = c /\ d.settled)
         /\ \A b \in sends \ {c} : b \in sends'
         /\ Settle1(c) => \E d \in sends' : d.what = c.what /\ d.about = c.about /\ d.n = c.n
<1> DEFINE f == [c EXCEPT !.settled = TRUE]
<1>1. IsSend(c)
  BY DEF KicksHold, WiresFit, SendFits
<1>2. IsSend(f) /\ f.what = c.what /\ f.about = c.about /\ f.n = c.n /\ f.settled
  BY <1>1, SetTo
<1>3. sends' = sends \ {c} \/ sends' = (sends \ {c}) \cup {f}
  BY DEF Settle1
<1>4. Settle1(c) => f \in sends'
  BY DEF Settle1
<1> HIDE DEF f
<1>5. \A b \in sends : IsSend(b)
  BY DEF KicksHold, WiresFit, SendFits
<1>6. \A b \in sends \ {c} : b \in sends'
  BY <1>3
<1>7. \A d \in sends' : d \in sends \ {c} \/ d = f
  BY <1>3
<1>8. ASSUME LoneKick, latestSend'["kickoff"] = latestSend["kickoff"] PROVE LoneKick'
  BY <1>2, <1>7, <1>8 DEF LoneKick, KickCall
<1> QED BY <1>2, <1>4, <1>5, <1>6, <1>7, <1>8

LEMMA GateSucceedsStep ==
  ASSUME KicksHold, NEW c \in sends, GateSucceeds(c)
  PROVE  KicksHold'
<1> USE DEF KicksHold
<1>1. /\ GateCall(c) /\ ~c.settled /\ Settle1(c)
      /\ UNCHANGED <<rowsKicked, kicks, missed, latestSend, sendsMade, retryable>>
      /\ kicked' = IF KickCall(c) THEN kicked \cup {c.about} ELSE kicked
  BY DEF GateSucceeds, GateCall, KickCall
<1>2. SendFits(c)
  BY DEF WiresFit
<1>3. KickCall(c) => c.about \in Verticals
  BY <1>2 DEF SendFits
<1>4. \A d \in sends' : SendFits(d)'
  <2>1. ASSUME NEW d \in sends' PROVE SendFits(d)'
    <3>1. PICK b \in sends : /\ d.what = b.what /\ d.about = b.about /\ d.n = b.n
                             /\ d = b \/ (b = c /\ d.settled)
      BY <1>1, Answered1
    <3>2. IsSend(d)'
      BY <1>1, Answered1 DEF IsSend
    <3>3. SendFits(b)
      BY DEF WiresFit
    <3>4. CASE d = b
      BY <1>1, <3>2, <3>3, <3>4 DEF SendFits, KickCall, GateCall
    <3>5. CASE b = c /\ d.settled
      <4>1. d.settled \in BOOLEAN
        BY <1>1, <3>4, <3>5, <1>2 DEF Settle1, SendFits, IsSend
      <4> QED BY <1>1, <1>3, <3>1, <3>2, <3>3, <3>5, <4>1 DEF SendFits, KickCall, GateCall
    <3> QED BY <3>1, <3>4, <3>5
  <2> QED BY <2>1
<1>5. WiresFit'
  BY <1>1, <1>3, <1>4 DEF WiresFit
<1>6. LoneKick => LoneKick'
  BY <1>1, Answered1
<1>7. \A v : Awaited(v) => Awaited(v)'
  <2>1. \A b \in sends : \E d \in sends' : d.what = b.what /\ d.about = b.about
    BY <1>1, Answered1
  <2> QED BY <1>1, <2>1 DEF Awaited, KickCall
<1>8. KicksFit'
  BY <1>1, <1>6, <1>7 DEF KicksFit
<1> QED BY <1>5, <1>8

(* A call that is gone, when nothing else but rows and counts changed.     *)
LEMMA ForgetFits ==
  ASSUME WiresFit, NEW c \in sends, sends' = sends \ {c},
         UNCHANGED <<kicked, latestSend, sendsMade>>, rowsKicked' \subseteq kicked,
         \A t \in retryable' : t \in retryable \/ t.what \in {"owner", "note"}
  PROVE  WiresFit'
<1>1. \A d \in sends' : SendFits(d)'
  BY DEF WiresFit, SendFits, IsSend, GateCall, KickCall
<1> QED BY <1>1 DEF WiresFit

LEMMA GateFailsStep ==
  ASSUME KicksHold, NEW c \in sends, GateFails(c)
  PROVE  KicksHold'
<1> USE DEF KicksHold
<1>1. /\ sends' = sends \ {c}
      /\ UNCHANGED <<kicked, rowsKicked, missed, latestSend, sendsMade, retryable>>
      /\ kicks' = IF KickCall(c) THEN [kicks EXCEPT ![c.about] = @ - 1] ELSE kicks
  BY DEF GateFails, Forget, KickCall
<1>2. WiresFit'
  BY <1>1, ForgetFits DEF WiresFit
<1>3. KickCall(c) => c.about \in Verticals
  BY DEF WiresFit, SendFits
<1>4. kicks' \in [Verticals -> Int]
  BY <1>1, <1>3 DEF KicksFit
<1>5. ASSUME ~missed
      PROVE  LoneKick' /\ \A v \in Verticals : kicks'[v] <= 0 \/ (kicks'[v] = 1 /\ Awaited(v)')
  <2>1. LoneKick
    BY <1>5 DEF KicksFit
  <2>2. LoneKick'
    BY <1>1, <2>1 DEF LoneKick
  <2>3. ASSUME NEW v \in Verticals, Awaited(v), ~(KickCall(c) /\ c.about = v)
        PROVE  Awaited(v)'
    BY <1>1, <2>1, <2>3 DEF Awaited, LoneKick
  <2>4. ASSUME NEW v \in Verticals PROVE kicks'[v] <= 0 \/ (kicks'[v] = 1 /\ Awaited(v)')
    <3>1. kicks[v] \in Int /\ (kicks[v] <= 0 \/ (kicks[v] = 1 /\ Awaited(v)))
      BY <1>5 DEF KicksFit
    <3>2. CASE KickCall(c) /\ c.about = v
      <4>1. kicks'[v] = kicks[v] - 1
        BY <1>1, <3>2 DEF KicksFit
      <4> QED BY <3>1, <4>1
    <3>3. CASE ~(KickCall(c) /\ c.about = v)
      <4>1. kicks'[v] = kicks[v]
        BY <1>1, <1>3, <3>3 DEF KicksFit
      <4> QED BY <3>1, <3>3, <4>1, <2>3
    <3> QED BY <3>2, <3>3
  <2> QED BY <2>2, <2>4
<1> QED BY <1>1, <1>2, <1>4, <1>5 DEF KicksFit

LEMMA RowsArriveStep ==
  ASSUME KicksHold, NEW c \in sends, NEW ok \in BOOLEAN, RowsArrive(c, ok)
  PROVE  KicksHold'
<1> USE DEF KicksHold
<1>1. /\ sends' = sends \ {c} /\ c.settled
      /\ rowsKicked' = (IF ok THEN kicked ELSE rowsKicked) /\ missed' = (missed \/ ~ok)
      /\ UNCHANGED <<kicked, kicks, latestSend, sendsMade, retryable>>
  BY DEF RowsArrive, Forget
<1>2. WiresFit'
  BY <1>1, ForgetFits DEF WiresFit
<1>3. ASSUME ~missed, ok PROVE LoneKick' /\ \A v \in Verticals : Awaited(v) => Awaited(v)'
  <2>1. LoneKick
    BY <1>3 DEF KicksFit
  <2>2. LoneKick'
    BY <1>1, <2>1 DEF LoneKick
  <2>3. KickCall(c) => c.about \in rowsKicked'
    BY <1>1, <1>3 DEF WiresFit, SendFits
  <2>4. rowsKicked \subseteq rowsKicked'
    BY <1>1, <1>3 DEF WiresFit
  <2>5. ASSUME NEW v \in Verticals, Awaited(v) PROVE Awaited(v)'
    BY <1>1, <2>3, <2>4, <2>5 DEF Awaited
  <2> QED BY <2>2, <2>5
<1> QED BY <1>1, <1>2, <1>3 DEF KicksFit

-----------------------------------------------------------------------------
(* The other panels leave the kickoffs alone.                              *)

LEMMA OtherSent ==
  ASSUME KicksHold, NEW what \in Mutations1 \ {"kickoff"}, NEW about, NEW text,
         SendCall(what, about, text),
         UNCHANGED gateState, retryable' \subseteq retryable
  PROVE  KicksHold'
<1> USE DEF KicksHold
<1>1. kicked' = kicked /\ rowsKicked' = rowsKicked /\ UNCHANGED <<kicks, missed, rowsKicked>>
  BY DEF gateState
<1>2. Sent(what, about)
  BY <1>1, CallSent
<1>3. /\ \A c \in sends' : KickCall(c) => c \in sends
      /\ \A c \in sends : KickCall(c) => c \in sends'
  BY <1>2 DEF Sent, KickCall
<1>4. KicksFit'
  BY <1>1, <1>2, <1>3, KicksRest DEF Sent
<1> QED BY <1>2, <1>4 DEF Sent

LEMMA OtherGone ==
  ASSUME KicksHold, NEW c \in sends, ~GateCall(c), sends' = sends \ {c},
         UNCHANGED <<gateState, latestSend, sendsMade>>,
         \A t \in retryable' : t \in retryable \/ t.what \in {"owner", "note"}
  PROVE  KicksHold'
<1> USE DEF KicksHold
<1>1. UNCHANGED <<kicked, rowsKicked, kicks, missed, latestSend, sendsMade>>
  BY DEF gateState
<1>2. WiresFit'
  BY <1>1, ForgetFits DEF WiresFit
<1>3. KicksFit'
  BY <1>1, KicksRest DEF GateCall, KickCall
<1> QED BY <1>2, <1>3

LEMMA WiresRest ==
  ASSUME KicksHold,
         UNCHANGED <<kicked, rowsKicked, kicks, missed, wireState>>
  PROVE  KicksHold'
<1> USE DEF KicksHold
<1>1. UNCHANGED <<kicked, rowsKicked, kicks, missed, sends, latestSend, sendsMade, retryable>>
  BY DEF wireState
<1>2. \A c \in sends' : SendFits(c)'
  BY <1>1 DEF WiresFit, SendFits, IsSend, GateCall, KickCall
<1>3. WiresFit'
  BY <1>1, <1>2 DEF WiresFit
<1>4. KicksFit'
  BY <1>1, KicksRest
<1> QED BY <1>3, <1>4

LEMMA RemountStep == ASSUME KicksHold, Remount PROVE KicksHold'
<1> USE DEF KicksHold
<1>1. /\ UNCHANGED <<kicked, rowsKicked, kicks, sends, sendsMade, retryable>> /\ missed'
      /\ latestSend' = [latestSend EXCEPT !["kickoff"] = 0, !["identity"] = 0]
  BY DEF Remount
<1>2. latestSend' \in [Mutations1 -> 0 .. sendsMade']
  <2> DEFINE l == [latestSend EXCEPT !["kickoff"] = 0]
  <2>1. latestSend \in [Mutations1 -> 0 .. sendsMade] /\ 0 \in 0 .. sendsMade
    BY DEF WiresFit
  <2>2. l \in [Mutations1 -> 0 .. sendsMade]
    BY <2>1
  <2>3. [l EXCEPT !["identity"] = 0] \in [Mutations1 -> 0 .. sendsMade]
    BY <2>1, <2>2
  <2>4. latestSend' = [l EXCEPT !["identity"] = 0] /\ sendsMade' = sendsMade
    BY <1>1
  <2> QED BY <2>3, <2>4
<1>3. \A c \in sends' : SendFits(c)'
  BY <1>1 DEF WiresFit, SendFits, IsSend, GateCall, KickCall
<1> QED BY <1>1, <1>2, <1>3 DEF WiresFit, KicksFit

LEMMA KickedElsewhereStep ==
  ASSUME KicksHold, NEW v \in Verticals, KickedElsewhere(v)
  PROVE  KicksHold'
<1> USE DEF KicksHold
<1>1. /\ kicked' = kicked \cup {v} /\ rowsKicked' = kicked'
      /\ UNCHANGED <<kicks, missed, sends, latestSend, sendsMade, retryable>>
  BY DEF KickedElsewhere, wireState
<1>2. \A c \in sends' : SendFits(c)'
  BY <1>1 DEF WiresFit, SendFits, IsSend, GateCall, KickCall
<1>3. WiresFit'
  BY <1>1, <1>2 DEF WiresFit
<1>4. \A w : Awaited(w) => Awaited(w)'
  BY <1>1 DEF Awaited, WiresFit
<1>5. LoneKick => LoneKick'
  BY <1>1 DEF LoneKick
<1> QED BY <1>1, <1>3, <1>4, <1>5 DEF KicksFit

LEMMA NextKicksHold == ASSUME KicksHold, [PanelsNext]_panelVars PROVE KicksHold'
<1> USE DEF KicksHold
<1>1. CASE \E c \in sends : GateSucceeds(c) \/ GateFails(c) \/ \E ok \in BOOLEAN : RowsArrive(c, ok)
  BY <1>1, GateSucceedsStep, GateFailsStep, RowsArriveStep
<1>2. CASE \E v \in Verticals : KickOff(v) \/ KickedElsewhere(v)
  BY <1>2, KickOffStep, KickedElsewhereStep
<1>3. CASE Remount
  BY <1>3, RemountStep
<1>4. CASE VerifyIdentity
  <2>1. "identity" \in Mutations1 \ {"kickoff"}
    BY DEF Mutations1
  <2>2. SendCall("identity", "", typed["identity"]) /\ UNCHANGED gateState /\ retryable' \subseteq retryable
    BY <1>4 DEF VerifyIdentity
  <2> QED BY <2>1, <2>2, OtherSent
<1>5. ASSUME NEW v \in Verticals, SubmitStatus(v) PROVE KicksHold'
  <2>1. "owner" \in Mutations1 \ {"kickoff"}
    BY DEF Mutations1
  <2>2. SendCall("owner", v, typed[v]) /\ UNCHANGED gateState /\ retryable' \subseteq retryable
    BY <1>5 DEF SubmitStatus
  <2> QED BY <2>1, <2>2, OtherSent
<1>6. ASSUME NEW k \in Composers, PostNote(k) PROVE KicksHold'
  <2>1. k \in Mutations1 \ {"kickoff"}
    BY DEF Mutations1, Composers
  <2>2. SendCall(k, "", typed[k]) /\ UNCHANGED gateState /\ retryable' \subseteq retryable
    BY <1>6 DEF PostNote
  <2> QED BY <2>1, <2>2, OtherSent
<1>7. ASSUME NEW what \in {"upload", "delete"}, Attach(what) PROVE KicksHold'
  <2>1. what \in Mutations1 \ {"kickoff"}
    BY DEF Mutations1
  <2>2. SendCall(what, "", "file") /\ UNCHANGED gateState /\ retryable' \subseteq retryable
    BY <1>7 DEF Attach
  <2> QED BY <2>1, <2>2, OtherSent
<1>8. ASSUME NEW t \in retryable, Retry1(t) PROVE KicksHold'
  <2>1. t.what \in Mutations1 \ {"kickoff"}
    BY DEF WiresFit, Mutations1
  <2>2. PICK text : SendCall(t.what, t.about, text)
    BY <1>8 DEF Retry1
  <2>3. UNCHANGED gateState /\ retryable' \subseteq retryable
    BY <1>8 DEF Retry1
  <2> QED BY <2>1, <2>2, <2>3, OtherSent
<1>9. ASSUME NEW c \in sends, Succeeds1(c) \/ Fails1(c) PROVE KicksHold'
  <2>1. /\ ~GateCall(c) /\ sends' = sends \ {c} /\ UNCHANGED <<gateState, latestSend, sendsMade>>
        /\ \A t \in retryable' : t \in retryable \/ t.what \in {"owner", "note"}
    BY <1>9 DEF Succeeds1, Fails1, Forget, GateCall, Offers
  <2> QED BY <2>1, OtherGone
<1>10. CASE UNCHANGED <<gateState, wireState>> \/ UNCHANGED panelVars
  <2>1. UNCHANGED <<kicked, rowsKicked, kicks, missed, wireState>>
    BY <1>10 DEF gateState, panelVars
  <2> QED BY <2>1, WiresRest
<1>11. ASSUME NEW c, PickOverride(c) PROVE KicksHold'
  <2>1. UNCHANGED <<kicked, rowsKicked, kicks, missed, wireState>>
    BY <1>11 DEF PickOverride
  <2> QED BY <2>1, WiresRest
<1>12. ASSUME PanelsNext, ~(\E c \in sends : GateSucceeds(c) \/ GateFails(c) \/ \E ok \in BOOLEAN : RowsArrive(c, ok)),
              ~(\E v \in Verticals : KickOff(v) \/ KickedElsewhere(v)), ~Remount, ~VerifyIdentity,
              ~(\E v \in Verticals : SubmitStatus(v)), ~(\E k \in Composers : PostNote(k)),
              ~(\E what \in {"upload", "delete"} : Attach(what)), ~(\E t \in retryable : Retry1(t)),
              ~(\E c \in sends : Succeeds1(c) \/ Fails1(c)), ~(\E c \in {0, 4} : PickOverride(c))
       PROVE  UNCHANGED <<gateState, wireState>>
  BY <1>12 DEF PanelsNext, TypeIdentity, Write, PickOwnerStatus, ArtifactPolled, EmailRenders,
     SelectEntry, EntryMoves, PickFilter, EntryArrives
<1> QED BY <1>1, <1>2, <1>3, <1>4, <1>5, <1>6, <1>7, <1>8, <1>9, <1>10, <1>11, <1>12

-----------------------------------------------------------------------------
(* The e-mail and the timeline                                             *)

ShowsFit == EmailFits /\ SelectionFits

LEMMA NextShowsFit == ASSUME ShowsFit, [PanelsNext]_panelVars PROVE ShowsFit'
<1> USE DEF ShowsFit
<1>1. ASSUME NEW uri \in 1 .. 2, ArtifactPolled(uri) PROVE ShowsFit'
  <2>1. /\ artifact' = [uri |-> uri, signed |-> artifact.now + 1, now |-> artifact.now + 1]
        /\ uri >= artifact.uri /\ UNCHANGED <<email, chosen, detail>>
    BY <1>1 DEF ArtifactPolled, listState
  <2>2. EmailFits'
    BY <2>1 DEF EmailFits
  <2> QED BY <2>1, <2>2 DEF SelectionFits
<1>2. ASSUME NEW invalidated, EmailRenders(invalidated) PROVE ShowsFit'
  <2>1. /\ email' = [uri |-> artifact.uri, signed |-> artifact.signed]
        /\ UNCHANGED <<artifact, chosen, detail>>
    BY <1>2 DEF EmailRenders, EmailKey, listState
  <2>2. EmailFits'
    BY <2>1 DEF EmailFits
  <2> QED BY <2>1, <2>2 DEF SelectionFits
<1>3. ASSUME NEW i, SelectEntry(i) PROVE ShowsFit'
  <2>1. \/ chosen' = <<>>
        \/ chosen' = KeyOfEntry(i) /\ detail' = entries[i]
    BY <1>3 DEF SelectEntry
  <2>2. KeyOfEntry(i)[2] = entries[i].id
    BY DEF KeyOfEntry
  <2>3. SelectionFits'
    BY <2>1, <2>2 DEF SelectionFits
  <2>4. UNCHANGED <<artifact, email>>
    BY <1>3 DEF SelectEntry, emailState
  <2> QED BY <2>3, <2>4 DEF EmailFits
<1>4. CASE UNCHANGED <<emailState, chosen, detail>>
  BY <1>4 DEF emailState, EmailFits, SelectionFits
<1>5. CASE UNCHANGED panelVars
  BY <1>4, <1>5 DEF panelVars, listState
<1>6. ASSUME PanelsNext, ~(\E uri \in 1 .. 2 : ArtifactPolled(uri)),
             ~(\E b \in BOOLEAN : EmailRenders(b)), ~(\E i \in 1 .. MaxEntries : SelectEntry(i))
      PROVE  UNCHANGED <<emailState, chosen, detail>>
  <2>1. UNCHANGED <<emailState, listState>> \/ UNCHANGED <<emailState, chosen, detail>>
    BY <1>6 DEF PanelsNext, VerifyIdentity, Remount, TypeIdentity, Write, PickOverride, KickOff,
       SubmitStatus, KickedElsewhere, PickOwnerStatus, GateSucceeds, GateFails, Succeeds1, Fails1,
       RowsArrive, PostNote, Attach, Retry1, EntryMoves, PickFilter, EntryArrives
  <2> QED BY <2>1 DEF listState
<1> QED BY <1>1, <1>2, <1>3, <1>4, <1>5, <1>6

LEMMA PanelsInvariant == PanelsSpec => []PanelsInv
<1>1. PanelsInit => PanelsInv
  BY InitPanelsInv
<1>2. PanelsInv /\ [PanelsNext]_panelVars => PanelsInv'
  BY NextKicksHold, NextShowsFit DEF PanelsInv, KicksHold, ShowsFit
<1> QED BY <1>1, <1>2, PTL DEF PanelsSpec

(* The panels keep their types: rows on screen say nothing the server does *)
(* not, an e-mail is never newer than its artifact.                        *)
THEOREM PanelsTyped == PanelsSpec => []PanelsTypeOK
<1>1. PanelsInv => PanelsTypeOK
  <2> SUFFICES ASSUME PanelsInv PROVE PanelsTypeOK
    OBVIOUS
  <2>1. WiresFit /\ EmailFits
    BY DEF PanelsInv
  <2>2. \A c \in sends : c.n \in 1 .. sendsMade /\ (c.settled => c.what \in {"identity", "kickoff"})
    BY <2>1 DEF WiresFit, SendFits, GateCall
  <2> QED BY <2>1, <2>2 DEF PanelsTypeOK, WiresFit, EmailFits
<1> QED BY <1>1, PanelsInvariant, PTL

(* From a panel that stays mounted, and whose refetches succeed, a vertical*)
(* is kicked off once (RequestDetailOverlay.tsx, FulfillmentGateControls), *)
(* and the row highlighted in the timeline is the entry described below    *)
(* (ActivityPanel), for any verticals, calls and timelines.                *)
THEOREM KicksOffOnce == PanelsSpec => []PanelsTold
<1>1. PanelsInv => KickedOnce
  BY DEF PanelsInv, KicksFit, KickedOnce
<1>2. PanelsInv => SelectionNamesEntry
  <2> SUFFICES ASSUME PanelsInv, NEW i \in DOMAIN entries, KeyOfEntry(i) = chosen
               PROVE  entries[i].id = detail.id
    BY DEF SelectionNamesEntry
  <2>1. KeyOfEntry(i)[2] = entries[i].id /\ KeyOfEntry(i) # <<>>
    BY DEF KeyOfEntry
  <2> QED BY <2>1 DEF PanelsInv, SelectionFits
<1> QED BY <1>1, <1>2, PanelsInvariant, PTL DEF PanelsTold

-----------------------------------------------------------------------------
(* The review pane and the notes                                           *)

(* A promotion in flight, or one that a toast would send again.            *)
PeopleFit(c) == c.kind = "promote" => c.code \in Codes /\ (c.dwids = NoOne <=> c.code = 5)

Watched == ~retried => /\ \A c \in sent : latest[c.kind] = c.n
                       /\ \A c, d \in sent : c = d

WireInv ==
  /\ latest \in [Mutations -> Nat] /\ retried \in BOOLEAN
  /\ \A c \in sent : c.kind \in Mutations /\ c.item \in Items /\ c.n \in 1 .. latest[c.kind]
  /\ \A c \in sent \cup retries : c.kind \in Mutations /\ PeopleFit(c)
  /\ Watched

ReviewInv == ReviewTypeOK /\ WireInv

-----------------------------------------------------------------------------

(* CallsMade is the number of the latest call of all.                      *)
LEMMA CallsCounted ==
  ASSUME latest \in [Mutations -> Nat]
  PROVE  CallsMade \in Nat /\ \A m \in Mutations : latest[m] <= CallsMade
<1>1. \E m \in Mutations : \A n \in Mutations : latest[n] <= latest[m]
  BY SMTT(30) DEF Mutations
<1> DEFINE top == CHOOSE m \in Mutations : \A n \in Mutations : latest[n] <= latest[m]
<1>2. top \in Mutations /\ \A n \in Mutations : latest[n] <= latest[top]
  BY <1>1
<1>3. CallsMade = latest[top]
  BY DEF CallsMade
<1> HIDE DEF top
<1> QED BY <1>2, <1>3

LEMMA ContactsArePeople ==
  ASSUME ReviewTypeOK PROVE Contacts \subseteq People
BY ReviewAssumption DEF Contacts, ReviewTypeOK, NoOne

(* Whoever decides, the pane's calls stay as the invariant has them.       *)
LEMMA DecideFits ==
  ASSUME WireInv, item \in Items, NEW kind \in Mutations, NEW c, NEW dwids, NEW seen,
         NEW again \in BOOLEAN,
         kind = "promote" => c \in Codes /\ (c # 5 => dwids # NoOne),
         again \/ ~Pending,
         retries' \subseteq retries,
         Decide(kind, c, dwids, seen, again)
  PROVE  WireInv'
<1> DEFINE n == CallsMade + 1
           d == [kind |-> kind, item |-> item, n |-> n, code |-> c,
                 dwids |-> IF c = 5 THEN NoOne ELSE dwids, seen |-> seen]
<1>1. n \in Nat \ {0} /\ \A m \in Mutations : latest[m] < n
  BY CallsCounted DEF WireInv
<1>2. latest' = [latest EXCEPT ![kind] = n] /\ sent' = sent \cup {d} /\ retried' = (retried \/ again)
  BY DEF Decide
<1>3. /\ d.kind = kind /\ d.item = item /\ d.n = n
      /\ PeopleFit(d)
  BY DEF PeopleFit, NoOne
<1> HIDE DEF n, d
<1>4. latest' \in [Mutations -> Nat] /\ latest'[kind] = n
      /\ \A m \in Mutations : latest[m] <= latest'[m]
  BY <1>1, <1>2 DEF WireInv
<1>5. retried' \in BOOLEAN
  BY <1>2 DEF WireInv
<1>6. \A e \in sent' : e.kind \in Mutations /\ e.item \in Items /\ e.n \in 1 .. latest'[e.kind]
  <2>1. ASSUME NEW e \in sent
        PROVE  e.kind \in Mutations /\ e.item \in Items /\ e.n \in 1 .. latest'[e.kind]
    BY <1>4, <2>1 DEF WireInv
  <2>2. d.kind \in Mutations /\ d.item \in Items /\ d.n \in 1 .. latest'[d.kind]
    BY <1>1, <1>3, <1>4
  <2> QED BY <1>2, <2>1, <2>2
<1>7. \A e \in sent' \cup retries' : e.kind \in Mutations /\ PeopleFit(e)
  BY <1>2, <1>3 DEF WireInv
<1>8. ASSUME ~retried'
      PROVE  /\ \A e \in sent' : latest'[e.kind] = e.n
             /\ \A e, f \in sent' : e = f
  <2>1. ~retried /\ ~Pending
    BY <1>2, <1>8
  <2>2. sent = {}
    BY <2>1 DEF WireInv, Watched, Pending
  <2>3. sent' = {d}
    BY <1>2, <2>2
  <2> QED BY <1>3, <1>4, <2>3
<1>9. \A e \in sent' \cup retries' : PeopleFit(e)'
  BY <1>7 DEF PeopleFit
<1> QED BY <1>4, <1>5, <1>6, <1>7, <1>8, <1>9 DEF WireInv, Watched

(* A call is answered.                                                     *)
LEMMA AnswerFits ==
  ASSUME WireInv, NEW c \in sent, sent' = sent \ {c}, UNCHANGED <<latest, retried>>,
         \A t \in retries' : t \in retries \/ (t.kind = c.kind /\ t.code = c.code /\ t.dwids = c.dwids)
  PROVE  WireInv'
<1>1. \A t \in retries' : t.kind \in Mutations /\ PeopleFit(t)
  BY DEF WireInv, PeopleFit
<1>2. \A t \in sent' \cup retries' : t.kind \in Mutations /\ PeopleFit(t)'
  BY <1>1 DEF WireInv, PeopleFit
<1> QED BY <1>2 DEF WireInv, Watched

LEMMA WireRests == ASSUME WireInv, UNCHANGED wireVars PROVE WireInv'
BY DEF WireInv, Watched, PeopleFit, wireVars

-----------------------------------------------------------------------------

LEMMA InitReviewInv == ReviewInit => ReviewInv
<1> SUFFICES ASSUME ReviewInit PROVE ReviewInv
  OBVIOUS
<1>1. ReviewTypeOK
  BY ReviewAssumption DEF ReviewInit, ReviewTypeOK, NoOne, NoCode, Codes
<1>2. WireInv
  BY DEF ReviewInit, WireInv, Watched
<1> QED BY <1>1, <1>2 DEF ReviewInv

LEMMA NextReviewInv == ReviewInv /\ [ReviewNext]_reviewVars => ReviewInv'
<1> SUFFICES ASSUME ReviewInv, [ReviewNext]_reviewVars PROVE ReviewInv'
  OBVIOUS
<1> USE DEF ReviewInv
<1>1. CASE DetailLoads
  <2>1. WireInv'
    BY <1>1, WireRests DEF DetailLoads
  <2>2. ReviewTypeOK'
    BY <1>1 DEF DetailLoads, ReviewTypeOK, pickVars, wireVars
  <2> QED BY <2>1, <2>2
<1>2. CASE RefetchList
  <2>1. WireInv'
    BY <1>2, WireRests DEF RefetchList
  <2>2. item' \in openItems \cup {NoItem}
    BY <1>2 DEF RefetchList, ActiveRow
  <2>3. ReviewTypeOK'
    BY <1>2, <2>2 DEF RefetchList, ReviewTypeOK, pickVars, wireVars
  <2> QED BY <2>1, <2>3
<1>3. CASE Cancel
  <2>1. WireInv'
    BY <1>3, WireRests DEF Cancel
  <2>2. ReviewTypeOK'
    BY <1>3 DEF Cancel, ReviewTypeOK, pickVars, wireVars
  <2> QED BY <2>1, <2>2
<1>4. CASE Confirm
  <2>1. item \in Items /\ ~Pending /\ UNCHANGED retries
    BY <1>4 DEF Confirm, Confirming, ReviewTypeOK
  <2>2. WireInv'
    <3>1. CASE dialog = "fulfill"
      <4>1. Decide("promote", code, picked, code, FALSE) /\ code \in Codes
            /\ (code # 5 => picked # NoOne)
        BY <1>4, <3>1 DEF Confirm, DwidsReady, ReviewTypeOK, Codes
      <4>2. "promote" \in Mutations
        BY DEF Mutations
      <4> QED BY <2>1, <4>1, <4>2, DecideFits
    <3>2. CASE dialog # "fulfill"
      <4>1. Decide(dialog, NoCode, NoOne, NoCode, FALSE)
        BY <1>4, <3>2 DEF Confirm
      <4>2. dialog \in Mutations /\ dialog # "promote"
        BY <1>4, <3>2 DEF Confirm, ReviewTypeOK, Dialogs, Mutations
      <4> QED BY <2>1, <4>1, <4>2, DecideFits
    <3> QED BY <3>1, <3>2
  <2>3. ReviewTypeOK'
    BY <1>4, <2>2 DEF Confirm, ReviewTypeOK, pickVars, WireInv
  <2> QED BY <2>2, <2>3
<1>5. CASE Apply
  <2>1. item \in Items /\ ~Pending /\ UNCHANGED retries
    BY <1>5 DEF Apply, TwoTier, ReviewTypeOK
  <2>2. Decide("promote", code, picked, Effective, FALSE) /\ code \in Codes
        /\ (code # 5 => picked # NoOne)
    BY <1>5 DEF Apply, DwidsReady, ReviewTypeOK, Codes
  <2>3. WireInv'
    BY <2>1, <2>2, DecideFits DEF Mutations
  <2>4. ReviewTypeOK'
    BY <1>5, <2>3 DEF Apply, ReviewTypeOK, pickVars, WireInv
  <2> QED BY <2>3, <2>4
<1>6. ASSUME NEW i \in Items, OpenItem(i) \/ HandledElsewhere(i) PROVE ReviewInv'
  <2>1. WireInv'
    BY <1>6, WireRests DEF OpenItem, HandledElsewhere
  <2>2. ReviewTypeOK'
    BY <1>6 DEF OpenItem, HandledElsewhere, ReviewTypeOK, pickVars, wireVars
  <2> QED BY <2>1, <2>2
<1>7. ASSUME code' \in Codes, picked' \subseteq People, batchCode' \in Codes \cup {NoCode},
             follow' \in BOOLEAN, Idle
      PROVE  ReviewInv'
  <2>1. WireInv'
    BY <1>7, WireRests DEF Idle
  <2>2. ReviewTypeOK'
    BY <1>7 DEF Idle, ReviewTypeOK, wireVars
  <2> QED BY <2>1, <2>2
<1>8. ASSUME NEW c \in Codes, Disposes(c) PROVE code' \in Codes /\ picked' \subseteq People
  BY <1>8, ContactsArePeople DEF Disposes, NoOne
<1>9. /\ code \in Codes /\ picked \subseteq People /\ follow \in BOOLEAN
      /\ batchCode \in Codes \cup {NoCode}
  BY DEF ReviewTypeOK
<1>10. ASSUME NEW c \in Codes, PickBatchDefault(c) \/ PickRow(c) \/ PickInDialog(c)
       PROVE  ReviewInv'
  <2>1. /\ Idle /\ (Disposes(c) \/ UNCHANGED <<code, picked>>)
        /\ batchCode' \in {c, batchCode} /\ UNCHANGED follow
    BY <1>10 DEF PickBatchDefault, PickRow, PickInDialog
  <2>2. code' \in Codes /\ picked' \subseteq People
    BY <1>8, <1>9, <2>1
  <2> QED BY <1>7, <1>9, <2>1, <2>2
<1>11. ASSUME NEW on \in BOOLEAN, TickFollow(on) PROVE ReviewInv'
  <2>1. BatchDefault \in Codes
    BY <1>11, ReviewAssumption
    DEF TickFollow, TwoTier, BatchDefault, Suggested, ReviewTypeOK, NoCode
  <2>2. /\ Idle /\ (Disposes(BatchDefault) \/ UNCHANGED <<code, picked>>)
        /\ UNCHANGED batchCode /\ follow' = FALSE
    BY <1>11 DEF TickFollow
  <2>3. code' \in Codes /\ picked' \subseteq People
    BY <1>8, <1>9, <2>1, <2>2
  <2> QED BY <1>7, <1>9, <2>2, <2>3
<1>12. ASSUME NEW p \in People, TickPerson(p) PROVE ReviewInv'
  <2>1. Idle /\ UNCHANGED <<code, batchCode, follow>> /\ picked' \subseteq People
    BY <1>9, <1>12 DEF TickPerson, Toggle
  <2> QED BY <1>7, <1>9, <2>1
<1>13. ASSUME NEW d \in UNION {Dialogs(w) : w \in {"matching", "triage", "notice"}}, Ask(d)
       PROVE  ReviewInv'
  <2>1. WireInv'
    BY <1>13, WireRests DEF Ask
  <2>2. ReviewTypeOK'
    BY <1>13 DEF Ask, ReviewTypeOK, pickVars, wireVars
  <2> QED BY <2>1, <2>2
<1>14. ASSUME NEW c \in sent, Succeeds(c) \/ Fails(c) PROVE ReviewInv'
  <2>1. WireInv'
    BY <1>14, AnswerFits DEF Succeeds, Fails
  <2>2. ReviewTypeOK'
    BY <1>14, <2>1 DEF Succeeds, Fails, ReviewTypeOK, pickVars, WireInv
  <2> QED BY <2>1, <2>2
<1>15. ASSUME NEW t \in retries, Retry(t) PROVE ReviewInv'
  <2>1. /\ item \in Items /\ retries' \subseteq retries
        /\ Decide(t.kind, t.code, t.dwids, t.code, TRUE)
    BY <1>15 DEF Retry, ReviewTypeOK
  <2>2. /\ t.kind \in Mutations
        /\ t.kind = "promote" => t.code \in Codes /\ (t.code # 5 => t.dwids # NoOne)
    BY DEF WireInv, PeopleFit
  <2>3. WireInv'
    BY <2>1, <2>2, DecideFits
  <2>4. ReviewTypeOK'
    BY <1>15, <2>3 DEF Retry, ReviewTypeOK, pickVars, WireInv
  <2> QED BY <2>3, <2>4
<1>16. CASE UNCHANGED reviewVars
  <2>1. UNCHANGED <<openItems, listed, item, shown, pickVars, dialog, wireVars>>
    BY <1>16 DEF reviewVars
  <2>2. WireInv'
    BY <2>1, WireRests
  <2>3. ReviewTypeOK'
    BY <2>1 DEF ReviewTypeOK, pickVars, wireVars
  <2> QED BY <2>2, <2>3
<1> QED BY <1>1, <1>2, <1>3, <1>4, <1>5, <1>6, <1>10, <1>11, <1>12, <1>13, <1>14, <1>15,
           <1>16 DEF ReviewNext

(* The inductive invariant holds in every reachable state.                 *)
THEOREM ReviewInvariant == ReviewSpec => []ReviewInv
<1> QED BY InitReviewInv, NextReviewInv, PTL DEF ReviewSpec

(* The pane ticks people who are DWIDs, and its calls are of its own       *)
(* mutations and of rows of the inbox.                                     *)
THEOREM ReviewTyped == ReviewSpec => []ReviewTypeOK
<1>1. ReviewInv => ReviewTypeOK
  BY DEF ReviewInv
<1> QED BY <1>1, ReviewInvariant, PTL

(* For every inbox and any number of calls: a promotion carries people     *)
(* exactly when its status says that people matched, retried or not, and   *)
(* until somebody presses Retry there is one decision in flight at most    *)
(* (actionPending and fulfillDwidsReady of needs-attention.tsx).           *)
THEOREM DecisionsLeaveOnce == ReviewSpec => []DecidesOnce
<1>1. ReviewInv => PromotesPeople
  BY DEF ReviewInv, WireInv, PeopleFit, PromotesPeople
<1>2. ReviewInv => OneDecisionAtATime
  <2> SUFFICES ASSUME ReviewInv, ~retried PROVE Cardinality(sent) <= 1
    BY DEF OneDecisionAtATime
  <2>1. \A c, d \in sent : c = d
    BY DEF ReviewInv, WireInv, Watched
  <2>2. CASE sent = {}
    BY <2>2, FS_EmptySet
  <2>3. CASE sent # {}
    <3>1. PICK c \in sent : sent = {c}
      BY <2>1, <2>3
    <3> QED BY <3>1, FS_Singleton
  <2> QED BY <2>2, <2>3
<1>3. ReviewInv => DecidesOnce
  BY <1>1, <1>2 DEF DecidesOnce
<1> QED BY <1>3, ReviewInvariant, PTL

-----------------------------------------------------------------------------
(***************************************************************************)
(* What is written beside an item (InboxNotes).  NotesTold is inductive    *)
(* once the calls still to be answered are known to carry what it promises:*)
(* a decision with a reply follows a comment that is stored, the toasts    *)
(* hold no half-done call of a desk that has none, and the rows the server *)
(* keeps name only people that the record shows, so that reading the list  *)
(* again brings no other.                                                  *)
(***************************************************************************)

IsRow(r) == r = [f \in DOMAIN r |-> r[f]] /\ RowFields \subseteq DOMAIN r

KeyedRows(rows) == /\ \A r \in rows : IsRow(r)
                   /\ \A r, s \in rows : ItemKey(r) = ItemKey(s) => r = s

IsLedger == ledger \in Seq({ledger[k] : k \in DOMAIN ledger})

(* Requests and what is stored as a comment on them.                       *)
Comments == {<<ledger[k].item, ledger[k].text>> :
               k \in {j \in DOMAIN ledger : ledger[j].kind = "comment"}}

Named(r) ==
  \/ r.assignee = "" \/ \E s \in NoteRows : s.request = r.request /\ s.assignee = r.assignee
  \/ \E k \in DOMAIN ledger :
       /\ ledger[k].item = r.request
       /\ r.assignee = IF ledger[k].kind = "assign" THEN ledger[k].email
                       ELSE IF ledger[k].what = "take_it" THEN Reviewer ELSE ""

(* A call, or the variables of a toast, fit the desk they were sent from.  *)
FitsDesk(c) ==
  /\ c.step \in {"comment", "decide", "assign"}
  /\ c.step = "assign" <=> noteDesk.what = "assign"
  /\ noteDesk.what = "note" => c.what = "note" /\ c.step = "comment"

IsCall(c) == c = [item |-> c.item, what |-> c.what, text |-> c.text, step |-> c.step,
                  n |-> c.n, beside |-> c.beside]

ReviewCallFits(c) ==
  /\ IsCall(c) /\ FitsDesk(c) /\ c.n \in 1 .. lastNote
  /\ c.step = "decide" /\ c.text # "" => <<c.item.request, c.text>> \in Comments
  /\ noteDesk.what = "composer" => Offers1(c.item, c.what)

(* Until somebody presses Retry, one call is in flight, with what is in    *)
(* the box.                                                                *)
BoxKept ==
  noteDesk.what = "composer" /\ ~noteRetried =>
    /\ dropped = {}
    /\ \A c \in noteCalls : c.n = lastNote /\ noteText \in {"", c.text}

CallsInv ==
  /\ lastNote \in Nat /\ noteRetried \in BOOLEAN
  /\ noteDesk.what \in {"composer", "note", "assign"}
  /\ BoxKept
  /\ \A c \in noteCalls : ReviewCallFits(c)
  /\ \A t \in noteRetries : FitsDesk(t)

RowsInv ==
  /\ KeyedRows(kept) /\ KeyedRows(onList) /\ IsLedger /\ ReplyBeforeDecision
  /\ \A r \in kept : Named(r)
  /\ ~strayed => \A r \in onList : Named(r)

InPane == \E r \in onList : ItemKey(r) = noteItem

NotesInv ==
  /\ NotesTypeOK /\ strayed \in BOOLEAN /\ RowsInv /\ CallsInv
  /\ pickerOpen => noteDesk.what = "assign" /\ InPane

-----------------------------------------------------------------------------
(* Rows and the record                                                     *)

LEMMA RowPatched ==
  ASSUME NEW r, IsRow(r), NEW g, NEW t, NEW a
  PROVE  /\ IsRow(HandedTo(r, g, t, a)) /\ ItemKey(HandedTo(r, g, t, a)) = ItemKey(r)
         /\ HandedTo(r, g, t, a).request = r.request /\ HandedTo(r, g, t, a).assignee = a
<1> DEFINE q == HandedTo(r, g, t, a)
<1>1. /\ DOMAIN q = DOMAIN r /\ q = [f \in DOMAIN q |-> q[f]]
      /\ q.assignee = a
      /\ \A f \in DOMAIN r \ {"gate", "target", "assignee"} : q[f] = r[f]
  BY DEF IsRow, RowFields, HandedTo
<1> HIDE DEF q
<1>2. /\ q.request = r.request /\ q.vertical = r.vertical
      /\ q.system = r.system /\ q.connections = r.connections
  BY <1>1 DEF IsRow, RowFields
<1>3. ItemKey(q) = ItemKey(r)
  BY <1>2 DEF ItemKey, OnRequest, Scope
<1>4. IsRow(q)
  BY <1>1 DEF IsRow
<1> QED BY <1>1, <1>2, <1>3, <1>4 DEF q

(* Rows that each keep their key stay told apart by it.                    *)
LEMMA StillKeyed ==
  ASSUME NEW before, KeyedRows(before), NEW f, NEW after, after = {f[r] : r \in before},
         \A r \in before : IsRow(f[r]) /\ ItemKey(f[r]) = ItemKey(r)
  PROVE  KeyedRows(after)
BY DEF KeyedRows

LEMMA OwnRange ==
  ASSUME NEW S, NEW s \in Seq(S)
  PROVE  s \in Seq({s[k] : k \in DOMAIN s})
<1> DEFINE R == {s[k] : k \in DOMAIN s}
<1>1. Len(s) \in Nat /\ DOMAIN s = 1 .. Len(s) /\ s \in [1 .. Len(s) -> R]
  BY LenProperties
<1> HIDE DEF R
<1>2. s \in Seq(R)
  BY <1>1
<1> QED BY <1>2 DEF R

LEMMA Appended ==
  ASSUME NEW S, NEW s \in Seq(S), NEW e, NEW q, q = Append(s, e)
  PROVE  /\ Len(s) \in Nat /\ DOMAIN s = 1 .. Len(s) /\ DOMAIN q = 1 .. (Len(s) + 1)
         /\ \A k \in DOMAIN s : q[k] = s[k]
         /\ q[Len(s) + 1] = e
         /\ q \in Seq({q[k] : k \in DOMAIN q})
<1> DEFINE T == S \cup {e}
<1>1. s \in Seq(T) /\ e \in T /\ Len(s) \in Nat /\ DOMAIN s = 1 .. Len(s)
  BY LenProperties
<1> HIDE DEF T
<1>2. /\ q \in Seq(T) /\ Len(q) = Len(s) + 1
      /\ \A k \in DOMAIN s : q[k] = s[k]
      /\ q[Len(s) + 1] = e
  BY <1>1, AppendProperties
<1>3. DOMAIN q = 1 .. Len(q)
  BY <1>2, LenProperties
<1>4. q \in Seq({q[k] : k \in DOMAIN q})
  BY <1>2, OwnRange
<1> QED BY <1>1, <1>2, <1>3, <1>4

LEMMA LedgerGrows ==
  ASSUME IsLedger, NEW e, ledger' = Append(ledger, e)
  PROVE  /\ IsLedger' /\ Len(ledger) \in Nat
         /\ DOMAIN ledger = 1 .. Len(ledger) /\ DOMAIN ledger' = 1 .. (Len(ledger) + 1)
         /\ \A k \in DOMAIN ledger : ledger'[k] = ledger[k]
         /\ ledger'[Len(ledger) + 1] = e
BY Appended DEF IsLedger

(* A decision with a reply enters the record after its comment.            *)
ReplyStands(e) == e.kind = "decision" /\ e.text # "" => <<e.item, e.text>> \in Comments

(* What the record has shown, it shows.                                    *)
LEMMA RecordGrows ==
  ASSUME ReplyBeforeDecision, NEW n \in Nat,
         DOMAIN ledger = 1 .. n, DOMAIN ledger' = 1 .. (n + 1),
         \A k \in DOMAIN ledger : ledger'[k] = ledger[k],
         ReplyStands(ledger'[n + 1])
  PROVE  /\ ReplyBeforeDecision' /\ Comments \subseteq Comments'
         /\ \A r : Named(r) => Named(r)'
<1>1. \A k \in DOMAIN ledger : k \in DOMAIN ledger' /\ ledger'[k] = ledger[k]
  OBVIOUS
<1>2. /\ \A k \in DOMAIN ledger : \A j \in 1 .. (k - 1) : j \in DOMAIN ledger
      /\ \A j \in DOMAIN ledger : j \in 1 .. ((n + 1) - 1)
      /\ \A k \in DOMAIN ledger' : k \in DOMAIN ledger \/ k = n + 1
  OBVIOUS
<1>3. ReplyBeforeDecision'
  <2> SUFFICES ASSUME NEW k \in DOMAIN ledger', ledger'[k].kind = "decision", ledger'[k].text # ""
               PROVE  \E j \in 1 .. (k - 1) : /\ ledger'[j].kind = "comment"
                                              /\ ledger'[j].item = ledger'[k].item
                                              /\ ledger'[j].text = ledger'[k].text
    BY DEF ReplyBeforeDecision
  <2>1. CASE k \in DOMAIN ledger
    <3>1. PICK j \in 1 .. (k - 1) : /\ ledger[j].kind = "comment"
                                    /\ ledger[j].item = ledger[k].item
                                    /\ ledger[j].text = ledger[k].text
      BY <1>1, <2>1 DEF ReplyBeforeDecision
    <3>2. j \in DOMAIN ledger
      BY <1>2, <2>1, Zenon
    <3> QED BY <1>1, <2>1, <3>1, <3>2
  <2>2. CASE k = n + 1
    <3>1. PICK j \in DOMAIN ledger : /\ ledger[j].kind = "comment"
                                     /\ ledger[j].item = ledger'[k].item
                                     /\ ledger[j].text = ledger'[k].text
      BY <2>2 DEF ReplyStands, Comments
    <3>2. j \in 1 .. (k - 1)
      BY <1>2, <2>2, Zenon
    <3> QED BY <1>1, <2>2, <3>1, <3>2
  <2> QED BY <1>2, <2>1, <2>2, Zenon
<1>4. Comments \subseteq Comments'
  BY <1>1 DEF Comments
<1>5. ASSUME NEW r, Named(r) PROVE Named(r)'
  BY <1>1, <1>5 DEF Named
<1> QED BY <1>3, <1>4, <1>5

LEMMA EntryFields ==
  ASSUME NEW c, NEW kind, NEW mail
  PROVE  /\ Entry(c, kind, mail).item = c.item.request /\ Entry(c, kind, mail).kind = kind
         /\ Entry(c, kind, mail).what = c.what /\ Entry(c, kind, mail).text = c.text
         /\ Entry(c, kind, mail).email = mail
BY DEF Entry

LEMMA EntryAdded ==
  ASSUME IsLedger, ReplyBeforeDecision, NEW c, ReviewCallFits(c), NEW kind, NEW mail,
         ledger' = Append(ledger, Entry(c, kind, mail)),
         kind = "decision" => c.step = "decide"
  PROVE  /\ IsLedger' /\ ReplyBeforeDecision' /\ Comments \subseteq Comments'
         /\ \A r : Named(r) => Named(r)'
         /\ \E k \in DOMAIN ledger' : ledger'[k] = Entry(c, kind, mail)
<1> DEFINE n == Len(ledger)
           e == Entry(c, kind, mail)
<1>1. ReplyStands(e)
  BY DEF ReplyStands, Entry, ReviewCallFits
<1> HIDE DEF e
<1>2. /\ IsLedger' /\ n \in Nat
      /\ DOMAIN ledger = 1 .. n /\ DOMAIN ledger' = 1 .. (n + 1)
      /\ \A k \in DOMAIN ledger : ledger'[k] = ledger[k]
      /\ ledger'[n + 1] = e
  BY LedgerGrows DEF e
<1> HIDE DEF n
<1>3. ReplyStands(ledger'[n + 1])
  BY <1>1, <1>2, Zenon
<1>4. n + 1 \in DOMAIN ledger'
  BY <1>2
<1>5. /\ ReplyBeforeDecision' /\ Comments \subseteq Comments'
      /\ \A r : Named(r) => Named(r)'
  BY <1>2, <1>3, RecordGrows
<1> QED BY <1>2, <1>4, <1>5, Zenon DEF e

LEMMA AssignedRows ==
  ASSUME NEW before, KeyedRows(before), NEW request, NEW kind, NEW role, NEW mail
  PROVE  /\ KeyedRows(Assigned1(before, request, kind, role, mail))
         /\ \A q \in Assigned1(before, request, kind, role, mail) :
              q \in before \/ (q.request = request /\ q.assignee = mail)
<1> DEFINE F(r) == IF r.request # request THEN r
                   ELSE HandedTo(r, kind, role, mail)
           f == [r \in before |-> F(r)]
           after == Assigned1(before, request, kind, role, mail)
<1>1. after = {f[r] : r \in before}
  BY DEF Assigned1
<1>2. ASSUME NEW r \in before
      PROVE  /\ IsRow(f[r]) /\ ItemKey(f[r]) = ItemKey(r)
             /\ f[r] \in before \/ (f[r].request = request /\ f[r].assignee = mail)
  <2>1. IsRow(r)
    BY DEF KeyedRows
  <2>2. CASE r.request # request
    BY <2>1, <2>2
  <2>3. CASE r.request = request
    <3> DEFINE q == HandedTo(r, kind, role, mail)
    <3>1. IsRow(q) /\ q.request = r.request /\ q.assignee = mail /\ ItemKey(q) = ItemKey(r)
      BY <2>1, RowPatched
    <3>2. f[r] = q
      BY <2>3
    <3> HIDE DEF f, q
    <3> QED BY <2>3, <3>1, <3>2, Zenon
  <2> QED BY <2>2, <2>3
<1> HIDE DEF f, after
<1>3. KeyedRows(after)
  BY <1>1, <1>2, StillKeyed
<1>4. \A q \in after : q \in before \/ (q.request = request /\ q.assignee = mail)
  BY <1>1, <1>2
<1> QED BY <1>3, <1>4 DEF after

(* The server does a step of a call.                                       *)
LEMMA Serves ==
  ASSUME NotesInv, NEW c \in noteCalls, ServesPost(c)
  PROVE  /\ IsLedger' /\ ReplyBeforeDecision' /\ Comments \subseteq Comments'
         /\ \A r : Named(r) => Named(r)'
         /\ KeyedRows(kept)' /\ \A r \in kept' : Named(r)'
         /\ c.step = "comment" => <<c.item.request, c.text>> \in Comments'
         /\ c.step = "assign" =>
              \A r : r.request = c.item.request
                     /\ r.assignee = (IF c.what = "legal" THEN "" ELSE c.what) => Named(r)'
<1>1. /\ IsLedger /\ ReplyBeforeDecision /\ ReviewCallFits(c) /\ KeyedRows(kept)
      /\ \A r \in kept : Named(r)
  BY DEF NotesInv, RowsInv, CallsInv
<1>2. ASSUME NEW kind, NEW mail, ledger' = Append(ledger, Entry(c, kind, mail)),
             kind = "decision" => c.step = "decide"
      PROVE  /\ IsLedger' /\ ReplyBeforeDecision' /\ Comments \subseteq Comments'
             /\ \A r : Named(r) => Named(r)'
             /\ \E k \in DOMAIN ledger' : ledger'[k] = Entry(c, kind, mail)
  BY <1>1, <1>2, EntryAdded
<1>3. ASSUME NEW r, NEW mail, r.request = c.item.request, r.assignee = mail,
             \E k \in DOMAIN ledger' : ledger'[k] = Entry(c, "assign", mail)
      PROVE  Named(r)'
  <2>1. PICK k \in DOMAIN ledger' : ledger'[k] = Entry(c, "assign", mail)
    BY <1>3
  <2>2. /\ ledger'[k].item = c.item.request
        /\ ledger'[k].kind = "assign" /\ ledger'[k].email = mail
    BY <2>1 DEF Entry
  <2> QED BY <1>3, <2>2, Zenon DEF Named
<1>4. CASE c.step = "comment" /\ ledger' = Append(ledger, Entry(c, "comment", "")) /\ UNCHANGED kept
  <2>1. /\ IsLedger' /\ ReplyBeforeDecision' /\ Comments \subseteq Comments'
        /\ \A r : Named(r) => Named(r)'
        /\ \E k \in DOMAIN ledger' : ledger'[k] = Entry(c, "comment", "")
    BY <1>2, <1>4
  <2>2. <<c.item.request, c.text>> \in Comments'
    <3>1. PICK k \in DOMAIN ledger' : ledger'[k] = Entry(c, "comment", "")
      BY <2>1
    <3>2. /\ ledger'[k].item = c.item.request
          /\ ledger'[k].kind = "comment" /\ ledger'[k].text = c.text
      <4> DEFINE e == Entry(c, "comment", "")
      <4>1. e.item = c.item.request /\ e.kind = "comment" /\ e.text = c.text
        BY DEF Entry
      <4> HIDE DEF e
      <4> QED BY <3>1, <4>1, Zenon DEF e
    <3> HIDE <1>4, <2>1
    <3> QED BY <3>2 DEF Comments
  <2>3. KeyedRows(kept)'
    BY <1>1, <1>4
  <2>4. \A r \in kept' : Named(r)'
    BY <1>1, <1>4, <2>1
  <2> QED BY <1>4, <2>1, <2>2, <2>3, <2>4
<1>5. CASE c.step = "decide" /\ ledger' = Append(ledger, Entry(c, "decision", ""))
           /\ kept' = Applied(c.what, c.item)
  <2>1. /\ IsLedger' /\ ReplyBeforeDecision' /\ Comments \subseteq Comments'
        /\ \A r : Named(r) => Named(r)'
        /\ \E k \in DOMAIN ledger' : ledger'[k] = Entry(c, "decision", "")
    BY <1>2, <1>5
  <2>2. CASE c.what = "take_it"
    <3>1. kept' = Assigned1(kept, c.item.request, "assign", "reviewer", Reviewer)
      BY <1>5, <2>2 DEF Applied
    <3>2. KeyedRows(kept)'
      BY <1>1, <3>1, AssignedRows
    <3>3. ASSUME NEW r, r.request = c.item.request, r.assignee = Reviewer PROVE Named(r)'
      <4>1. PICK k \in DOMAIN ledger' : ledger'[k] = Entry(c, "decision", "")
        BY <2>1
      <4>2. /\ ledger'[k].item = c.item.request
            /\ ledger'[k].kind # "assign" /\ ledger'[k].what = "take_it"
        <5>1. /\ ledger'[k].item = c.item.request
              /\ ledger'[k].kind = "decision" /\ ledger'[k].what = c.what
          <6> DEFINE e == Entry(c, "decision", "")
          <6>1. e.item = c.item.request /\ e.kind = "decision" /\ e.what = c.what
            BY DEF Entry
          <6> HIDE DEF e
          <6> QED BY <4>1, <6>1, Zenon DEF e
        <5>2. "decision" # "assign"
          OBVIOUS
        <5> QED BY <2>2, <5>1, <5>2, Zenon
      <4> QED BY <3>3, <4>2, Zenon DEF Named
    <3>4. ASSUME NEW r \in kept' PROVE Named(r)'
      <4>1. r \in kept \/ (r.request = c.item.request /\ r.assignee = Reviewer)
        BY <1>1, <3>1, AssignedRows
      <4> QED BY <1>1, <2>1, <3>3, <4>1
    <3> QED BY <1>5, <2>1, <3>2, <3>4
  <2>3. CASE c.what # "take_it"
    <3>1. kept' \subseteq kept
      BY <1>5, <2>3 DEF Applied
    <3>2. KeyedRows(kept)'
      BY <1>1, <3>1 DEF KeyedRows
    <3> QED BY <1>1, <1>5, <2>1, <3>1, <3>2
  <2> QED BY <2>2, <2>3
<1>6. ASSUME c.step = "assign", NEW mail, NEW kind, NEW role, AssignedTo(c, mail, kind, role),
             c.what # "legal" => mail = c.what
      PROVE  /\ IsLedger' /\ ReplyBeforeDecision' /\ Comments \subseteq Comments'
             /\ \A r : Named(r) => Named(r)'
             /\ KeyedRows(kept)' /\ \A r \in kept' : Named(r)'
             /\ \A r : r.request = c.item.request
                       /\ r.assignee = (IF c.what = "legal" THEN "" ELSE c.what) => Named(r)'
  <2>1. /\ IsLedger' /\ ReplyBeforeDecision' /\ Comments \subseteq Comments'
        /\ \A r : Named(r) => Named(r)'
        /\ \E k \in DOMAIN ledger' : ledger'[k] = Entry(c, "assign", mail)
    BY <1>2, <1>6 DEF AssignedTo
  <2>2. kept' = Assigned1(kept, c.item.request, kind, role, mail)
    BY <1>6 DEF AssignedTo
  <2>3. KeyedRows(kept)'
    BY <1>1, <2>2, AssignedRows
  <2>4. ASSUME NEW r \in kept' PROVE Named(r)'
    BY <1>1, <1>3, <2>1, <2>2, AssignedRows
  <2>5. ASSUME NEW r, r.request = c.item.request,
               r.assignee = (IF c.what = "legal" THEN "" ELSE c.what)
        PROVE  Named(r)'
    <3>1. CASE c.what = "legal"
      BY <2>5, <3>1 DEF Named
    <3>2. CASE c.what # "legal"
      BY <1>3, <1>6, <2>1, <2>5, <3>2
    <3> QED BY <3>1, <3>2
  <2> QED BY <2>1, <2>3, <2>4, <2>5
<1> QED BY <1>4, <1>5, <1>6 DEF ServesPost

-----------------------------------------------------------------------------
(* The pane                                                                *)

LEMMA FirstOffered == \A i : Offers1(i, Head(ComposerOptions(i)))
<1> SUFFICES ASSUME NEW i PROVE Offers1(i, Head(ComposerOptions(i)))
  OBVIOUS
<1> DEFINE Menu == {"triage_reject", "triage_match", "notice_approve", "delivery_delivered",
                    "delivery_failed", "assignment_review", "fulfillment_note", "take_it",
                    "inbox_note"}
           a == IF IsTriage(i) THEN <<"triage_reject", "triage_match">> ELSE <<>>
           b == IF IsNotice(i) THEN <<"notice_approve">> ELSE <<>>
           c == IF IsDelivery(i) THEN <<"delivery_delivered", "delivery_failed">> ELSE <<>>
           d == IF IsAssignmentToLegal(i) THEN <<"assignment_review">>
                ELSE IF IsFulfillmentLegal(i) THEN <<"fulfillment_note">> ELSE <<>>
           e == IF IsUnassigned(i) THEN <<"take_it">> ELSE <<>>
           lanes == a \o b \o c \o d \o e
           o == IF lanes = <<>> THEN <<"inbox_note">> ELSE lanes
<1>1. /\ a \in Seq(Menu) /\ b \in Seq(Menu) /\ c \in Seq(Menu)
      /\ d \in Seq(Menu) /\ e \in Seq(Menu)
  <2>1. <<>> \in Seq(Menu)
    OBVIOUS
  <2>2. <<"triage_reject", "triage_match">> \in Seq(Menu)
    OBVIOUS
  <2>3. <<"delivery_delivered", "delivery_failed">> \in Seq(Menu)
    OBVIOUS
  <2>4. /\ <<"notice_approve">> \in Seq(Menu) /\ <<"assignment_review">> \in Seq(Menu)
        /\ <<"fulfillment_note">> \in Seq(Menu) /\ <<"take_it">> \in Seq(Menu)
    OBVIOUS
  <2> HIDE DEF Menu
  <2> QED BY <2>1, <2>2, <2>3, <2>4, Zenon
<1>2. ComposerOptions(i) = o
  BY DEF ComposerOptions
<1>3. <<"inbox_note">> \in Seq(Menu) /\ <<"inbox_note">> # <<>>
  OBVIOUS
<1> HIDE DEF Menu, a, b, c, d, e
<1>4. lanes \in Seq(Menu)
  BY <1>1
<1> HIDE DEF lanes
<1>5. o \in Seq(Menu) /\ o # <<>>
  BY <1>3, <1>4
<1> HIDE DEF o
<1>6. Head(o) = o[1] /\ 1 \in DOMAIN o
  BY <1>5
<1> QED BY <1>2, <1>6 DEF Offers1

LEMMA SettledOffered ==
  ASSUME noteDesk.what = "composer"
  PROVE  \A o, i : Offers1(i, Settled1(o, i))
BY FirstOffered, Zenon DEF Settled1

LEMMA RowFound ==
  ASSUME NEW key, \E r \in onList : ItemKey(r) = key
  PROVE  RowOf(key) \in onList /\ ItemKey(RowOf(key)) = key
BY Zenon DEF RowOf

LEMMA PaneFound ==
  ASSUME NotesTypeOK, noteItem # NoPane PROVE InPane
BY DEF NotesTypeOK, InPane

LEMMA KeyNamesRequest == \A r : ItemKey(r).request = r.request
BY DEF ItemKey, OnRequest, Scope

LEMMA RecordRests ==
  ASSUME IsLedger, ReplyBeforeDecision, ledger' = ledger
  PROVE  IsLedger' /\ ReplyBeforeDecision'
<1>1. IsLedger'
  BY Zenon DEF IsLedger
<1>2. ReplyBeforeDecision'
  <2> SUFFICES ASSUME NEW k \in DOMAIN ledger', ledger'[k].kind = "decision", ledger'[k].text # ""
               PROVE  \E j \in 1 .. (k - 1) : /\ ledger'[j].kind = "comment"
                                              /\ ledger'[j].item = ledger'[k].item
                                              /\ ledger'[j].text = ledger'[k].text
    BY DEF ReplyBeforeDecision
  <2>1. \E j \in 1 .. (k - 1) : /\ ledger[j].kind = "comment"
                                /\ ledger[j].item = ledger[k].item
                                /\ ledger[j].text = ledger[k].text
    BY Zenon DEF ReplyBeforeDecision
  <2> QED BY <2>1, Zenon
<1> QED BY <1>1, <1>2

LEMMA RowsRest ==
  ASSUME RowsInv, UNCHANGED <<kept, onList, ledger, strayed>>
  PROVE  RowsInv'
<1>1. /\ kept' = kept /\ onList' = onList /\ ledger' = ledger /\ strayed' = strayed
  OBVIOUS
<1>2. IsLedger' /\ ReplyBeforeDecision'
  <2>1. IsLedger /\ ReplyBeforeDecision
    BY Zenon DEF RowsInv
  <2> QED BY <1>1, <2>1, RecordRests
<1>3. ASSUME NEW r, Named(r) PROVE Named(r)'
  BY <1>1, <1>3 DEF Named
<1>4. KeyedRows(kept)' /\ KeyedRows(onList)'
  BY <1>1 DEF RowsInv
<1> QED BY <1>1, <1>2, <1>3, <1>4 DEF RowsInv

(* A call stays fit while the record grows and others are numbered.        *)
LEMMA CallStays ==
  ASSUME NEW c, ReviewCallFits(c), noteDesk' = noteDesk, Comments \subseteq Comments',
         lastNote \in Nat, lastNote' \in Nat, lastNote <= lastNote'
  PROVE  ReviewCallFits(c)'
<1>1. FitsDesk(c)'
  BY DEF ReviewCallFits, FitsDesk
<1>2. c.n \in 1 .. lastNote'
  <2>1. c.n \in 1 .. lastNote
    BY Zenon DEF ReviewCallFits
  <2> QED BY <2>1
<1>3. (c.step = "decide" /\ c.text # "" => <<c.item.request, c.text>> \in Comments)'
  BY DEF ReviewCallFits
<1>4. noteDesk'.what = "composer" => Offers1(c.item, c.what)
  BY DEF ReviewCallFits
<1> QED BY <1>1, <1>2, <1>3, <1>4 DEF ReviewCallFits

LEMMA NumberStays == \A n \in Nat : n <= n
OBVIOUS

LEMMA CallsRest ==
  ASSUME CallsInv, UNCHANGED <<noteDesk, noteCallVars, ledger>>,
         noteText' \in {noteText, ""} \/ noteCalls = {}, dropped' = dropped
  PROVE  CallsInv'
<1>1. /\ noteDesk' = noteDesk /\ noteCalls' = noteCalls /\ lastNote' = lastNote
      /\ noteRetries' = noteRetries /\ noteRetried' = noteRetried /\ ledger' = ledger
  BY DEF noteCallVars
<1>2. Comments' = Comments
  BY <1>1 DEF Comments
<1>3. ASSUME NEW c \in noteCalls' PROVE ReviewCallFits(c)'
  <2>1. ReviewCallFits(c) /\ lastNote \in Nat
    BY <1>1, <1>3 DEF CallsInv
  <2>2. lastNote' \in Nat /\ lastNote <= lastNote'
    <3>1. lastNote' = lastNote
      BY <1>1
    <3> QED BY <2>1, <3>1, NumberStays, Zenon
  <2>3. Comments \subseteq Comments'
    BY <1>2
  <2> QED BY <1>1, <2>1, <2>2, <2>3, CallStays
<1>4. \A t \in noteRetries' : FitsDesk(t)'
  BY <1>1 DEF CallsInv, FitsDesk
<1>5. BoxKept'
  BY <1>1 DEF CallsInv, BoxKept
<1> QED BY <1>1, <1>3, <1>4, <1>5 DEF CallsInv

LEMMA SameCall ==
  ASSUME NEW c, ReviewCallFits(c), NEW q, IsCall(q), q.item = c.item, q.what = c.what,
         q.text = c.text, q.step = c.step, q.n = c.n
  PROVE  ReviewCallFits(q)
BY Zenon DEF ReviewCallFits, FitsDesk

LEMMA OvertakenFits ==
  ASSUME NEW c, ReviewCallFits(c)
  PROVE  ReviewCallFits(Overtaken(c))
<1> DEFINE b == IF c.beside = NoPane THEN noteItem ELSE c.beside
           q == [item |-> c.item, what |-> c.what, text |-> c.text, step |-> c.step,
                 n |-> c.n, beside |-> b]
<1>1. IsCall(c)
  BY Zenon DEF ReviewCallFits
<1> HIDE DEF b
<1>2. /\ IsCall(q) /\ q.item = c.item /\ q.what = c.what
      /\ q.text = c.text /\ q.step = c.step /\ q.n = c.n
  BY DEF IsCall
<1>3. Overtaken(c) = q
  <2>1. Overtaken(c) = [c EXCEPT !.beside = b]
    BY DEF Overtaken, b
  <2>2. c = [item |-> c.item, what |-> c.what, text |-> c.text, step |-> c.step,
             n |-> c.n, beside |-> c.beside]
    BY <1>1 DEF IsCall
  <2> QED BY <2>1, <2>2
<1> HIDE DEF q
<1>4. ReviewCallFits(q)
  BY <1>2, SameCall
<1> QED BY <1>3, <1>4, Zenon

LEMMA NextNumber == \A n \in Nat : n + 1 \in Nat /\ n <= n + 1 /\ n + 1 \in 1 .. (n + 1)
OBVIOUS

(* A call of the desk goes out, for the item in the pane.                  *)
LEMMA Posts ==
  ASSUME CallsInv, NEW what, NEW text, NEW step, Post1(what, text, step),
         noteDesk' = noteDesk, ledger' = ledger, noteText' = noteText, dropped' = dropped,
         noteRetried' \in BOOLEAN, \A t \in noteRetries' : FitsDesk(t),
         step \in {"comment", "decide", "assign"}, step = "assign" <=> noteDesk.what = "assign",
         noteDesk.what = "note" => what = "note" /\ step = "comment",
         step = "decide" => text = "",
         noteDesk.what = "composer" => Offers1(RowOf(noteItem), what),
         noteDesk.what = "composer" /\ ~noteRetried' => ~noteRetried /\ ~Posting /\ text = noteText
  PROVE  CallsInv'
<1>0. PICK d : d = [item |-> RowOf(noteItem), what |-> what, text |-> text, step |-> step,
                    n |-> lastNote + 1, beside |-> NoPane]
  OBVIOUS
<1>1. lastNote \in Nat /\ lastNote' = lastNote + 1
  BY Zenon DEF CallsInv, Post1
<1>2. noteCalls' = {Overtaken(c) : c \in noteCalls} \cup {d}
  BY <1>0, Zenon DEF Post1
<1>3. Comments' = Comments
  BY Zenon DEF Comments
<1>4. lastNote' \in Nat /\ lastNote <= lastNote' /\ lastNote + 1 \in 1 .. lastNote'
  BY <1>1, NextNumber, Zenon
<1>5. ASSUME NEW c \in noteCalls, NEW q, q = Overtaken(c) PROVE ReviewCallFits(q)'
  <2>1. ReviewCallFits(c)
    BY Zenon DEF CallsInv
  <2>2. ReviewCallFits(q)
    BY <1>5, <2>1, OvertakenFits, Zenon
  <2> QED BY <1>1, <1>3, <1>4, <2>2, CallStays
<1>6. /\ IsCall(d) /\ d.item = RowOf(noteItem) /\ d.what = what
      /\ d.text = text /\ d.step = step /\ d.n = lastNote + 1
  BY <1>0 DEF IsCall
<1>7. ReviewCallFits(d)'
  <2>1. FitsDesk(d)'
    BY <1>6, Zenon DEF FitsDesk
  <2>2. d.n \in 1 .. lastNote'
    BY <1>4, <1>6, Zenon
  <2>3. ~(d.step = "decide" /\ d.text # "")
    BY <1>6, Zenon
  <2>4. noteDesk'.what = "composer" => Offers1(d.item, d.what)
    BY <1>6, Zenon
  <2> QED BY <1>6, <2>1, <2>2, <2>3, <2>4, Zenon DEF ReviewCallFits
<1>8. ASSUME NEW q \in noteCalls' PROVE ReviewCallFits(q)'
  BY <1>2, <1>5, <1>7, Zenon
<1>9. \A t \in noteRetries' : FitsDesk(t)'
  BY Zenon DEF FitsDesk
<1>10. BoxKept'
  <2> SUFFICES ASSUME noteDesk'.what = "composer", ~noteRetried'
               PROVE  /\ dropped' = {}
                      /\ \A c \in noteCalls' : c.n = lastNote' /\ noteText' \in {"", c.text}
    BY Zenon DEF BoxKept
  <2>1. ~noteRetried /\ ~Posting /\ text = noteText /\ noteDesk.what = "composer"
    BY Zenon
  <2>2. dropped = {} /\ \A c \in noteCalls : c.n = lastNote
    BY <2>1, Zenon DEF BoxKept, CallsInv
  <2>3. noteCalls = {}
    BY <2>1, <2>2, Zenon DEF Posting
  <2>4. \A c \in noteCalls' : c = d
    BY <1>2, <2>3, Zenon
  <2> QED BY <1>1, <1>6, <2>1, <2>2, <2>4, Zenon
<1>11. noteDesk'.what \in {"composer", "note", "assign"}
  BY Zenon DEF CallsInv
<1> QED BY <1>4, <1>8, <1>9, <1>10, <1>11, Zenon DEF CallsInv

-----------------------------------------------------------------------------
(* The steps                                                               *)

PaneOK == /\ noteItem \in {NoPane} \cup {ItemKey(r) : r \in onList}
          /\ OnDesk("composer") => Offers1(RowOf(noteItem), choice)

PickerOK == /\ search \in {""} \cup DOMAIN FoundBy /\ pickerOpen \in BOOLEAN
            /\ pickerOpen => noteDesk.what = "assign" /\ InPane

LEMMA Parts ==
  NotesInv <=> /\ PaneOK /\ noteText \in Replies \cup {""} /\ PickerOK
               /\ strayed \in BOOLEAN /\ RowsInv /\ CallsInv
<1>1. ASSUME CallsInv, NEW c \in noteCalls
      PROVE  c.n <= lastNote /\ c.step \in {"comment", "decide", "assign"}
  <2>1. c.n \in 1 .. lastNote /\ FitsDesk(c) /\ lastNote \in Nat
    BY <1>1, Zenon DEF CallsInv, ReviewCallFits
  <2>2. \A n \in Nat : \A k \in 1 .. n : k <= n
    OBVIOUS
  <2> QED BY <2>1, <2>2, Zenon DEF FitsDesk
<1> QED BY <1>1, Zenon DEF NotesInv, NotesTypeOK, PaneOK, PickerOK

LEMMA PartsNext ==
  (/\ PaneOK /\ noteText \in Replies \cup {""} /\ PickerOK
   /\ strayed \in BOOLEAN /\ RowsInv /\ CallsInv)' => NotesInv'
BY Parts, PTL

LEMMA PaneRests ==
  ASSUME PaneOK, UNCHANGED <<noteDesk, onList, noteItem, choice>> PROVE PaneOK'
BY Zenon DEF PaneOK, OnDesk, RowOf

LEMMA PickerRests ==
  ASSUME PickerOK, UNCHANGED <<noteDesk, onList, noteItem, search>>,
         pickerOpen' = pickerOpen \/ pickerOpen' = FALSE
  PROVE  PickerOK'
<1>1. InPane' = InPane /\ noteDesk' = noteDesk /\ search' = search
  BY Zenon DEF InPane
<1>2. CASE pickerOpen' = pickerOpen
  BY <1>1, <1>2, Zenon DEF PickerOK
<1>3. CASE pickerOpen' = FALSE
  BY <1>1, <1>3, Zenon DEF PickerOK
<1> QED BY <1>2, <1>3

LEMMA InitNotesInv == NotesInit => NotesInv
<1> SUFFICES ASSUME NotesInit PROVE NotesInv
  OBVIOUS
<1>1. noteDesk.what \in {"composer", "note", "assign"}
  BY DEF NotesInit
<1>2. PaneOK
  BY SettledOffered, Zenon DEF NotesInit, PaneOK, OnDesk
<1>3. KeyedRows(NoteRows)
  BY NotesAssumption, Zenon DEF KeyedRows, IsRow
<1>4. IsLedger /\ ReplyBeforeDecision
  <2>1. ledger = <<>>
    BY Zenon DEF NotesInit
  <2>2. \A S : <<>> \in Seq(S)
    OBVIOUS
  <2>3. IsLedger
    BY <2>1, <2>2, Zenon DEF IsLedger
  <2>4. DOMAIN ledger = {}
    BY <2>1
  <2> QED BY <2>3, <2>4, Zenon DEF ReplyBeforeDecision
<1>5. \A r \in NoteRows : Named(r)
  BY Zenon DEF Named
<1>6. RowsInv
  BY <1>3, <1>4, <1>5, Zenon DEF RowsInv, NotesInit
<1>7. CallsInv
  <2>1. lastNote \in Nat
    BY DEF NotesInit
  <2> QED BY <1>1, <2>1, Zenon DEF CallsInv, BoxKept, NotesInit
<1>8. PickerOK /\ noteText \in Replies \cup {""} /\ strayed \in BOOLEAN
  BY Zenon DEF PickerOK, NotesInit
<1> QED BY <1>2, <1>6, <1>7, <1>8, Parts

(* The list is read again.                                                 *)
LEMMA RefetchFits == ASSUME NotesInv, RefetchRows PROVE NotesInv'
<1>1. /\ PaneOK /\ noteText \in Replies \cup {""} /\ PickerOK
      /\ strayed \in BOOLEAN /\ RowsInv /\ CallsInv
  BY Parts
<1>2. /\ onList' = kept /\ kept' = kept /\ noteDesk' = noteDesk
      /\ ledger' = ledger /\ strayed' = strayed
  BY Zenon DEF RefetchRows
<1>3. RowsInv'
  <2>1. IsLedger' /\ ReplyBeforeDecision'
    <3>1. IsLedger /\ ReplyBeforeDecision
      BY <1>1, Zenon DEF RowsInv
    <3> QED BY <1>2, <3>1, RecordRests
  <2>2. ASSUME NEW r, Named(r) PROVE Named(r)'
    BY <1>2, <2>2, Zenon DEF Named
  <2> QED BY <1>1, <1>2, <2>1, <2>2, Zenon DEF RowsInv
<1>4. CASE kept = {}
  <2>1. /\ noteItem' = NoPane /\ noteText' = "" /\ search' = "" /\ pickerOpen' = FALSE
        /\ UNCHANGED noteCallVars /\ dropped' = dropped
    BY <1>4, Zenon DEF RefetchRows
  <2>2. CallsInv'
    BY <1>1, <1>2, <2>1, CallsRest, Zenon
  <2>3. PaneOK'
    BY <2>1, Zenon DEF PaneOK, OnDesk
  <2>4. PickerOK' /\ noteText' \in Replies \cup {""}
    BY <2>1, Zenon DEF PickerOK
  <2> QED BY <1>1, <1>2, <1>3, <2>2, <2>3, <2>4, PartsNext, Zenon
<1>5. CASE kept # {}
  <2>1. /\ UNCHANGED <<noteText, pickVars1, noteCallVars>> /\ dropped' = dropped
        /\ \E r \in kept : noteItem' = ItemKey(r) /\ choice' = Settled1(choice, r)
    BY <1>5, Zenon DEF RefetchRows
  <2>2. CallsInv'
    BY <1>1, <1>2, <2>1, CallsRest, Zenon
  <2>3. PICK r \in kept : noteItem' = ItemKey(r) /\ choice' = Settled1(choice, r)
    BY <2>1
  <2>4. PaneOK'
    <3>1. ASSUME noteDesk.what = "composer" PROVE RowOf(noteItem)' = r /\ Offers1(r, choice')
      <4>1. \A q \in kept : ItemKey(q) = ItemKey(r) => q = r
        BY <1>1, Zenon DEF RowsInv, KeyedRows
      <4>2. RowOf(noteItem)' = r
        BY <1>2, <2>3, <4>1, Zenon DEF RowOf
      <4> QED BY <2>3, <3>1, <4>2, SettledOffered, Zenon
    <3> QED BY <1>2, <2>3, <3>1, Zenon DEF PaneOK, OnDesk
  <2>5. PickerOK' /\ noteText' \in Replies \cup {""}
    BY <1>1, <1>2, <2>1, <2>3, Zenon DEF PickerOK, InPane, pickVars1
  <2> QED BY <1>1, <1>2, <1>3, <2>2, <2>4, <2>5, PartsNext, Zenon
<1> QED BY <1>4, <1>5

(* Another item is opened beside the list.                                 *)
LEMMA OpenItemFits == ASSUME NotesInv, NEW r \in onList, OpenBeside(r) PROVE NotesInv'
<1>1. /\ PaneOK /\ noteText \in Replies \cup {""} /\ PickerOK
      /\ strayed \in BOOLEAN /\ RowsInv /\ CallsInv
  BY Parts
<1>2. /\ noteItem' = ItemKey(r) /\ choice' = Settled1(choice, r) /\ ~pickerOpen
      /\ noteDesk' = noteDesk /\ kept' = kept /\ onList' = onList /\ noteText' = noteText
      /\ UNCHANGED noteCallVars /\ ledger' = ledger /\ dropped' = dropped /\ strayed' = strayed
      /\ pickerOpen' = pickerOpen /\ search' = search
  BY Zenon DEF OpenBeside, rowState, pickVars1
<1>3. RowsInv' /\ CallsInv'
  BY <1>1, <1>2, RowsRest, CallsRest
<1>4. PaneOK'
  <2>1. ASSUME noteDesk.what = "composer" PROVE RowOf(noteItem)' = r /\ Offers1(r, choice')
    <3>1. \A q \in onList : ItemKey(q) = ItemKey(r) => q = r
      BY <1>1, Zenon DEF RowsInv, KeyedRows
    <3>2. RowOf(noteItem)' = r
      BY <1>2, <3>1, Zenon DEF RowOf
    <3> QED BY <1>2, <2>1, <3>2, SettledOffered, Zenon
  <2> QED BY <1>2, <2>1, Zenon DEF PaneOK, OnDesk
<1>5. PickerOK'
  BY <1>1, <1>2, Zenon DEF PickerOK
<1> QED BY <1>1, <1>2, <1>3, <1>4, <1>5, PartsNext, Zenon

(* What is typed and chosen.                                               *)
LEMMA WriteFits ==
  ASSUME NotesInv, NEW t \in Replies \cup {""}, WriteDraft(t) PROVE NotesInv'
<1>1. /\ PaneOK /\ PickerOK /\ strayed \in BOOLEAN /\ RowsInv /\ CallsInv
  BY Parts
<1>2. /\ noteDesk' = noteDesk /\ kept' = kept /\ onList' = onList /\ noteItem' = noteItem
      /\ choice' = choice /\ noteText' = t /\ noteCalls' = noteCalls /\ lastNote' = lastNote
      /\ noteRetries' = noteRetries /\ noteRetried' = noteRetried /\ ledger' = ledger
      /\ pickerOpen' = pickerOpen /\ search' = search
      /\ dropped' = dropped /\ strayed' = strayed
  BY Zenon DEF WriteDraft, rowState, noteCallVars, pickVars1
<1>3. noteDesk.what = "composer" => ~Posting
  <2>1. "note" # "composer"
    OBVIOUS
  <2> QED BY <2>1, Zenon DEF WriteDraft, OnDesk
<1>4. CallsInv'
  <2>1. BoxKept'
    <3> SUFFICES ASSUME noteDesk.what = "composer", ~noteRetried
                 PROVE  dropped = {} /\ \A c \in noteCalls : c.n = lastNote /\ t \in {"", c.text}
      BY <1>2, Zenon DEF BoxKept
    <3>1. dropped = {} /\ \A c \in noteCalls : c.n = lastNote
      BY <1>1, Zenon DEF CallsInv, BoxKept
    <3>2. noteCalls = {}
      BY <1>3, <3>1, Zenon DEF Posting
    <3> QED BY <3>1, <3>2, Zenon
  <2>2. Comments' = Comments
    BY <1>2, Zenon DEF Comments
  <2>3. lastNote \in Nat /\ \A c \in noteCalls : ReviewCallFits(c)
    BY <1>1, Zenon DEF CallsInv
  <2>4. \A c \in noteCalls' : ReviewCallFits(c)'
    BY <1>2, <2>2, <2>3, NumberStays, CallStays, Zenon
  <2>5. \A q \in noteRetries' : FitsDesk(q)'
    BY <1>1, <1>2, Zenon DEF CallsInv, FitsDesk
  <2> QED BY <1>1, <1>2, <2>1, <2>4, <2>5, Zenon DEF CallsInv
<1> QED BY <1>1, <1>2, <1>4, RowsRest, PaneRests, PickerRests, PartsNext, Zenon

LEMMA ChooseFits == ASSUME NotesInv, NEW o, ChooseStatus(o) PROVE NotesInv'
<1>1. /\ PaneOK /\ noteText \in Replies \cup {""} /\ PickerOK
      /\ strayed \in BOOLEAN /\ RowsInv /\ CallsInv
  BY Parts
<1>2. /\ noteDesk' = noteDesk /\ kept' = kept /\ onList' = onList /\ noteItem' = noteItem
      /\ choice' = o /\ noteText' = noteText /\ UNCHANGED noteCallVars /\ ledger' = ledger
      /\ pickerOpen' = pickerOpen /\ search' = search
      /\ dropped' = dropped /\ strayed' = strayed /\ Offers1(RowOf(noteItem), o)
  BY Zenon DEF ChooseStatus, rowState, pickVars1
<1>3. PaneOK'
  BY <1>1, <1>2, Zenon DEF PaneOK, OnDesk, RowOf
<1>4. RowsInv' /\ CallsInv'
  BY <1>1, <1>2, RowsRest, CallsRest
<1> QED BY <1>1, <1>2, <1>3, <1>4, PickerRests, PartsNext, Zenon

LEMMA PickerFits ==
  ASSUME NotesInv, OpenPicker \/ ClosePicker \/ \E q \in DOMAIN FoundBy : SearchFor(q)
  PROVE  NotesInv'
<1>1. /\ PaneOK /\ noteText \in Replies \cup {""} /\ PickerOK
      /\ strayed \in BOOLEAN /\ RowsInv /\ CallsInv
  BY Parts
<1>2. /\ noteDesk' = noteDesk /\ kept' = kept /\ onList' = onList /\ noteItem' = noteItem
      /\ choice' = choice /\ noteText' = noteText /\ UNCHANGED noteCallVars /\ ledger' = ledger
      /\ dropped' = dropped /\ strayed' = strayed
  BY Zenon DEF OpenPicker, ClosePicker, SearchFor, Typing, rowState, writeVars
<1>3. InPane' = InPane
  BY <1>2, Zenon DEF InPane
<1>4. PickerOK'
  <2>1. CASE OpenPicker
    <3>1. noteDesk.what = "assign" /\ InPane /\ pickerOpen' = TRUE /\ search' = search
      BY <1>1, <2>1, Zenon DEF OpenPicker, OnDesk, PaneOK, InPane
    <3> QED BY <1>1, <1>2, <1>3, <3>1, Zenon DEF PickerOK
  <2>2. CASE ClosePicker
    BY <2>2, Zenon DEF ClosePicker, PickerOK
  <2>3. CASE \E q \in DOMAIN FoundBy : SearchFor(q)
    BY <1>1, <1>2, <1>3, <2>3, Zenon DEF SearchFor, PickerOK
  <2> QED BY <2>1, <2>2, <2>3
<1>5. RowsInv' /\ CallsInv'
  BY <1>1, <1>2, RowsRest, CallsRest
<1> QED BY <1>1, <1>2, <1>4, <1>5, PaneRests, PartsNext, Zenon

(* What goes out.                                                          *)
LEMMA TypingFits ==
  ASSUME NotesInv, Typing, CallsInv', PickerOK' PROVE NotesInv'
<1>1. /\ PaneOK /\ noteText \in Replies \cup {""} /\ strayed \in BOOLEAN /\ RowsInv
  BY Parts
<1>2. /\ noteDesk' = noteDesk /\ kept' = kept /\ onList' = onList /\ noteItem' = noteItem
      /\ choice' = choice /\ noteText' = noteText /\ ledger' = ledger
      /\ dropped' = dropped /\ strayed' = strayed
  BY Zenon DEF Typing, rowState, writeVars
<1> QED BY <1>1, <1>2, RowsRest, PaneRests, PartsNext, Zenon

LEMMA TypingRests ==
  Typing => /\ noteDesk' = noteDesk /\ onList' = onList /\ noteItem' = noteItem
            /\ ledger' = ledger /\ noteText' = noteText /\ dropped' = dropped
BY Zenon DEF Typing, rowState, writeVars

LEMMA StepNames ==
  /\ "comment" # "decide" /\ "comment" # "assign" /\ "decide" # "assign"
  /\ "composer" # "note" /\ "composer" # "assign" /\ "note" # "assign"
OBVIOUS

LEMMA SendStatusFits == ASSUME NotesInv, SendStatus PROVE NotesInv'
<1>1. PaneOK /\ PickerOK /\ CallsInv
  BY Parts
<1>2. /\ noteDesk.what = "composer" /\ noteItem # NoPane /\ ~Posting /\ Typing
      /\ Post1(choice, noteText, FirstStep(noteText))
      /\ noteRetries' = noteRetries /\ noteRetried' = noteRetried
      /\ pickerOpen' = pickerOpen /\ search' = search
  BY Zenon DEF SendStatus, OnDesk, pickVars1
<1>3. /\ FirstStep(noteText) \in {"comment", "decide"}
      /\ FirstStep(noteText) = "decide" => noteText = ""
  BY StepNames, Zenon DEF FirstStep
<1>4. Offers1(RowOf(noteItem), choice)
  BY <1>1, <1>2, Zenon DEF PaneOK, OnDesk
<1>5. noteRetried' \in BOOLEAN /\ \A t \in noteRetries' : FitsDesk(t)
  BY <1>1, <1>2, Zenon DEF CallsInv
<1>6. /\ FirstStep(noteText) \in {"comment", "decide", "assign"}
      /\ FirstStep(noteText) = "assign" <=> noteDesk.what = "assign"
      /\ noteDesk.what = "note" => choice = "note" /\ FirstStep(noteText) = "comment"
  BY <1>2, <1>3, StepNames, Zenon
<1>7. CallsInv'
  BY <1>1, <1>2, <1>3, <1>4, <1>5, <1>6, TypingRests, Posts, Zenon
<1>8. PickerOK'
  BY <1>1, <1>2, TypingRests, PickerRests, Zenon
<1> QED BY <1>2, <1>7, <1>8, TypingFits

LEMMA SendNoteFits == ASSUME NotesInv, SendNote PROVE NotesInv'
<1>1. PaneOK /\ PickerOK /\ CallsInv
  BY Parts
<1>2. /\ noteDesk.what = "note" /\ Typing /\ Post1("note", noteText, "comment")
      /\ noteRetries' = noteRetries /\ noteRetried' = noteRetried
      /\ pickerOpen' = pickerOpen /\ search' = search
  BY Zenon DEF SendNote, OnDesk, pickVars1
<1>3. noteRetried' \in BOOLEAN /\ \A t \in noteRetries' : FitsDesk(t)
  BY <1>1, <1>2, Zenon DEF CallsInv
<1>4. CallsInv'
  BY <1>1, <1>2, <1>3, StepNames, TypingRests, Posts, Zenon
<1>5. PickerOK'
  BY <1>1, <1>2, TypingRests, PickerRests, Zenon
<1> QED BY <1>2, <1>4, <1>5, TypingFits

(* Calls are answered or left, and toasts are put up or taken down.        *)
LEMMA Answered ==
  ASSUME CallsInv, noteDesk' = noteDesk, lastNote' = lastNote, Comments \subseteq Comments',
         noteRetried' \in BOOLEAN, BoxKept',
         \A q \in noteCalls' : q \in noteCalls \/ ReviewCallFits(q)',
         \A t \in noteRetries' : FitsDesk(t)
  PROVE  CallsInv'
<1>1. lastNote \in Nat /\ noteDesk.what \in {"composer", "note", "assign"}
      /\ \A c \in noteCalls : ReviewCallFits(c)
  BY Zenon DEF CallsInv
<1>2. \A q \in noteCalls' : ReviewCallFits(q)'
  BY <1>1, NumberStays, CallStays, Zenon
<1>3. \A t \in noteRetries' : FitsDesk(t)'
  BY Zenon DEF FitsDesk
<1> QED BY <1>1, <1>2, <1>3, Zenon DEF CallsInv

LEMMA ReviewRetryFits == ASSUME NotesInv, NEW t \in noteRetries, RetryNote(t) PROVE NotesInv'
<1>1. PaneOK /\ PickerOK /\ CallsInv
  BY Parts
<1>2. /\ Typing /\ noteRetries' = noteRetries \ {t} /\ noteRetried' = TRUE
      /\ pickerOpen' = pickerOpen /\ search' = search
  BY Zenon DEF RetryNote, pickVars1
<1>3. PickerOK'
  BY <1>1, <1>2, TypingRests, PickerRests, Zenon
<1>4. noteRetried' \in BOOLEAN /\ FitsDesk(t) /\ \A q \in noteRetries' : FitsDesk(q)
  BY <1>1, <1>2, Zenon DEF CallsInv
<1>5. CASE noteDesk.what = "composer" /\ ~Offers1(RowOf(noteItem), t.what)
  <2>1. noteCalls' = noteCalls /\ lastNote' = lastNote
    BY <1>5, Zenon DEF RetryNote
  <2>2. Comments' = Comments
    BY <1>2, TypingRests, Zenon DEF Comments
  <2>3. BoxKept'
    BY <1>2, Zenon DEF BoxKept
  <2>4. CallsInv'
    BY <1>1, <1>2, <1>4, <2>1, <2>2, <2>3, TypingRests, Answered, Zenon
  <2> QED BY <1>2, <1>3, <2>4, TypingFits
<1>6. CASE noteDesk.what = "composer" /\ Offers1(RowOf(noteItem), t.what)
  <2>1. Post1(t.what, t.text, FirstStep(t.text))
    BY <1>6, Zenon DEF RetryNote
  <2>2. /\ FirstStep(t.text) \in {"comment", "decide"}
        /\ FirstStep(t.text) = "decide" => t.text = ""
    BY StepNames, Zenon DEF FirstStep
  <2>3. /\ FirstStep(t.text) \in {"comment", "decide", "assign"}
        /\ FirstStep(t.text) = "assign" <=> noteDesk.what = "assign"
        /\ noteDesk.what = "note" => t.what = "note" /\ FirstStep(t.text) = "comment"
    BY <1>6, <2>2, StepNames, Zenon
  <2>4. CallsInv'
    BY <1>1, <1>2, <1>4, <1>6, <2>1, <2>2, <2>3, TypingRests, Posts, Zenon
  <2> QED BY <1>2, <1>3, <2>4, TypingFits
<1>7. CASE noteDesk.what # "composer"
  <2>1. Post1(t.what, t.text, t.step)
    BY <1>7, Zenon DEF RetryNote
  <2>2. noteDesk.what \in {"note", "assign"}
    BY <1>1, <1>7, Zenon DEF CallsInv
  <2>3. /\ t.step \in {"comment", "decide", "assign"}
        /\ t.step = "assign" <=> noteDesk.what = "assign"
        /\ noteDesk.what = "note" => t.what = "note" /\ t.step = "comment"
    BY <1>4, Zenon DEF FitsDesk
  <2>4. t.step # "decide"
    BY <2>2, <2>3, StepNames, Zenon
  <2>5. CallsInv'
    BY <1>1, <1>2, <1>4, <1>7, <2>1, <2>3, <2>4, TypingRests, Posts, Zenon
  <2> QED BY <1>2, <1>3, <2>5, TypingFits
<1> QED BY <1>5, <1>6, <1>7

(* A choice in the picker, from the list or by Enter.                      *)
LEMMA AssignFits ==
  ASSUME NotesInv, Typing, pickerOpen, pickerOpen' = FALSE, search' \in {search, ""},
         NEW mail, AssignTo(mail)
  PROVE  NotesInv'
<1>1. PaneOK /\ PickerOK /\ CallsInv
  BY Parts
<1>2. /\ noteDesk.what = "assign" /\ Post1(mail, "", "assign")
      /\ noteRetries' = noteRetries /\ noteRetried' = noteRetried
  BY <1>1, Zenon DEF PickerOK, AssignTo
<1>3. noteRetried' \in BOOLEAN /\ \A t \in noteRetries' : FitsDesk(t)
  BY <1>1, <1>2, Zenon DEF CallsInv
<1>4. CallsInv'
  BY <1>1, <1>2, <1>3, StepNames, TypingRests, Posts, Zenon
<1>5. PickerOK'
  BY <1>1, Zenon DEF PickerOK
<1> QED BY <1>4, <1>5, TypingFits

LEMMA PickFits ==
  ASSUME NotesInv,
         PressEnter \/ (\E e \in Assignables : PickPerson(e)) \/ (\E g \in Teams : PickTeam(g))
  PROVE  NotesInv'
<1>1. PaneOK /\ PickerOK /\ CallsInv
  BY Parts
<1>2. /\ pickerOpen /\ pickerOpen' = FALSE /\ search' \in {search, ""} /\ Typing
      /\ (\E mail : AssignTo(mail))
         \/ /\ noteRetries' = noteRetries \cup {[what |-> "data", text |-> "", step |-> "assign"]}
            /\ UNCHANGED <<noteCalls, lastNote, noteRetried>>
  BY Zenon DEF PressEnter, PickPerson, PickTeam
<1>3. CASE \E mail : AssignTo(mail)
  BY <1>2, <1>3, AssignFits
<1>4. CASE /\ noteRetries' = noteRetries \cup {[what |-> "data", text |-> "", step |-> "assign"]}
           /\ UNCHANGED <<noteCalls, lastNote, noteRetried>>
  <2>1. noteDesk.what = "assign"
    BY <1>1, <1>2, Zenon DEF PickerOK
  <2>2. FitsDesk([what |-> "data", text |-> "", step |-> "assign"])
    BY <2>1 DEF FitsDesk
  <2>3. \A t \in noteRetries' : FitsDesk(t)
    BY <1>1, <1>4, <2>2, Zenon DEF CallsInv
  <2>4. /\ noteDesk' = noteDesk /\ noteCalls' = noteCalls /\ lastNote' = lastNote
        /\ noteRetried' = noteRetried /\ ledger' = ledger
    BY <1>2, <1>4, TypingRests, Zenon
  <2>5. Comments' = Comments
    BY <2>4, Zenon DEF Comments
  <2>6. BoxKept' /\ noteRetried' \in BOOLEAN
    BY <1>1, <2>1, <2>4, StepNames, Zenon DEF BoxKept, CallsInv
  <2>7. CallsInv'
    BY <1>1, <2>3, <2>4, <2>5, <2>6, Answered, Zenon
  <2>8. PickerOK'
    BY <1>1, <1>2, Zenon DEF PickerOK
  <2> QED BY <1>2, <2>7, <2>8, TypingFits
<1> QED BY <1>2, <1>3, <1>4

-----------------------------------------------------------------------------
(* The answers                                                             *)

LEMMA AnswersRest ==
  Answers => /\ noteDesk' = noteDesk /\ noteItem' = noteItem /\ choice' = choice
             /\ lastNote' = lastNote /\ noteRetried' = noteRetried
             /\ pickerOpen' = pickerOpen /\ search' = search
BY Zenon DEF Answers, pickVars1

LEMMA StepTaken ==
  ASSUME NEW c, IsCall(c), NEW q, q = [c EXCEPT !.step = "decide"]
  PROVE  /\ IsCall(q) /\ q.item = c.item /\ q.what = c.what
         /\ q.text = c.text /\ q.step = "decide" /\ q.n = c.n
<1> DEFINE d == [item |-> c.item, what |-> c.what, text |-> c.text, step |-> "decide",
                 n |-> c.n, beside |-> c.beside]
<1>1. c = [item |-> c.item, what |-> c.what, text |-> c.text, step |-> c.step,
           n |-> c.n, beside |-> c.beside]
  BY DEF IsCall
<1>2. q = d
  BY <1>1
<1>3. /\ IsCall(d) /\ d.item = c.item /\ d.what = c.what
      /\ d.text = c.text /\ d.step = "decide" /\ d.n = c.n
  BY DEF IsCall
<1> HIDE DEF d
<1> QED BY <1>2, <1>3, Zenon

LEMMA StoredFits == ASSUME NotesInv, NEW c \in noteCalls, Stored(c) PROVE NotesInv'
<1>1. /\ PaneOK /\ noteText \in Replies \cup {""} /\ PickerOK
      /\ strayed \in BOOLEAN /\ RowsInv /\ CallsInv
  BY Parts
<1>2. /\ Answers /\ onList' = onList /\ noteRetries' = noteRetries /\ strayed' = strayed
      /\ ServesPost(c) /\ c.step \in {"comment", "decide"}
  BY Zenon DEF Stored
<1>3. /\ IsLedger' /\ ReplyBeforeDecision' /\ Comments \subseteq Comments'
      /\ \A r : Named(r) => Named(r)'
      /\ KeyedRows(kept)' /\ \A r \in kept' : Named(r)'
      /\ c.step = "comment" => <<c.item.request, c.text>> \in Comments'
  BY <1>2, Serves
<1>4. RowsInv'
  BY <1>1, <1>2, <1>3, Zenon DEF RowsInv
<1>5. PaneOK' /\ PickerOK'
  BY <1>1, <1>2, AnswersRest, PaneRests, PickerRests, Zenon
<1>6. ReviewCallFits(c) /\ noteRetried' \in BOOLEAN /\ \A t \in noteRetries' : FitsDesk(t)
  BY <1>1, <1>2, AnswersRest, Zenon DEF CallsInv
<1>7. CASE c.step = "comment" /\ c.what \notin NeedsBody \cup {"note"}
  <2>1. /\ noteCalls' = (noteCalls \ {c}) \cup {[c EXCEPT !.step = "decide"]}
        /\ noteText' = noteText /\ dropped' = dropped
    BY <1>7, Zenon DEF Stored
  <2>2. PICK q : q = [c EXCEPT !.step = "decide"]
    OBVIOUS
  <2>3. /\ IsCall(q) /\ q.item = c.item /\ q.what = c.what
        /\ q.text = c.text /\ q.step = "decide" /\ q.n = c.n
    <3>1. IsCall(c)
      BY <1>6, Zenon DEF ReviewCallFits
    <3> QED BY <2>2, <3>1, StepTaken
  <2>4. ReviewCallFits(q)'
    <3>1. c.n \in 1 .. lastNote /\ FitsDesk(c)
          /\ (noteDesk.what = "composer" => Offers1(c.item, c.what))
      BY <1>6, Zenon DEF ReviewCallFits
    <3>2. FitsDesk(q)'
      BY <1>2, <1>7, <2>3, <3>1, AnswersRest, StepNames, Zenon DEF FitsDesk
    <3>3. <<q.item.request, q.text>> \in Comments'
      BY <1>3, <1>7, <2>3, Zenon
    <3> QED BY <1>2, <2>3, <3>1, <3>2, <3>3, AnswersRest, Zenon DEF ReviewCallFits
  <2>5. BoxKept'
    <3> SUFFICES ASSUME noteDesk.what = "composer", ~noteRetried
                 PROVE  dropped = {} /\ \A d \in noteCalls' : d.n = lastNote /\ noteText \in {"", d.text}
      BY <1>2, <2>1, AnswersRest, Zenon DEF BoxKept
    <3>1. dropped = {} /\ \A d \in noteCalls : d.n = lastNote /\ noteText \in {"", d.text}
      BY <1>1, Zenon DEF CallsInv, BoxKept
    <3>2. \A d \in noteCalls' : d \in noteCalls \/ d = q
      BY <2>1, <2>2, Zenon
    <3> QED BY <2>3, <3>1, <3>2, Zenon
  <2>6. \A d \in noteCalls' : d \in noteCalls \/ ReviewCallFits(d)'
    BY <2>1, <2>2, <2>4, Zenon
  <2>7. CallsInv'
    BY <1>1, <1>2, <1>3, <1>6, <2>5, <2>6, AnswersRest, Answered, Zenon
  <2> QED BY <1>1, <1>2, <1>4, <1>5, <2>1, <2>7, PartsNext, Zenon
<1>8. CASE ~(c.step = "comment" /\ c.what \notin NeedsBody \cup {"note"})
  <2>1. /\ noteCalls' = noteCalls \ {c} /\ noteText' = ""
        /\ dropped' = dropped \cup ({noteText} \ {"", c.text})
    BY <1>8, Zenon DEF Stored
  <2>2. BoxKept'
    <3> SUFFICES ASSUME noteDesk.what = "composer", ~noteRetried
                 PROVE  dropped' = {} /\ \A d \in noteCalls' : d.n = lastNote
      BY <1>2, <2>1, AnswersRest, Zenon DEF BoxKept
    <3>1. dropped = {} /\ noteText \in {"", c.text} /\ \A d \in noteCalls : d.n = lastNote
      BY <1>1, Zenon DEF CallsInv, BoxKept
    <3>2. dropped' = {}
      BY <2>1, <3>1, Zenon
    <3> QED BY <2>1, <3>1, <3>2, Zenon
  <2>3. \A d \in noteCalls' : d \in noteCalls
    BY <2>1, Zenon
  <2>4. CallsInv'
    BY <1>1, <1>2, <1>3, <1>6, <2>2, <2>3, AnswersRest, Answered, Zenon
  <2> QED BY <1>1, <1>2, <1>4, <1>5, <2>1, <2>4, PartsNext, Zenon
<1> QED BY <1>7, <1>8

LEMMA PostFailsFit ==
  ASSUME NotesInv, NEW c \in noteCalls, NEW done \in BOOLEAN, PostFails(c, done)
  PROVE  NotesInv'
<1>1. /\ PaneOK /\ noteText \in Replies \cup {""} /\ PickerOK
      /\ strayed \in BOOLEAN /\ RowsInv /\ CallsInv
  BY Parts
<1>2. /\ Answers /\ onList' = onList /\ strayed' = strayed /\ noteText' = noteText
      /\ dropped' = dropped /\ noteCalls' = noteCalls \ {c}
      /\ noteRetries' = noteRetries \cup {[what |-> c.what, text |-> c.text, step |-> c.step]}
      /\ ServesPost(c) \/ (ledger' = ledger /\ kept' = kept)
  BY Zenon DEF PostFails
<1>3. RowsInv' /\ Comments \subseteq Comments'
  <2>1. CASE ServesPost(c)
    <3>1. /\ IsLedger' /\ ReplyBeforeDecision' /\ Comments \subseteq Comments'
          /\ \A r : Named(r) => Named(r)'
          /\ KeyedRows(kept)' /\ \A r \in kept' : Named(r)'
      BY <2>1, Serves
    <3> QED BY <1>1, <1>2, <3>1, Zenon DEF RowsInv
  <2>2. CASE ledger' = ledger /\ kept' = kept
    <3>1. RowsInv'
      BY <1>1, <1>2, <2>2, RowsRest
    <3>2. Comments' = Comments
      BY <2>2, Zenon DEF Comments
    <3> QED BY <3>1, <3>2
  <2> QED BY <1>2, <2>1, <2>2
<1>4. PaneOK' /\ PickerOK'
  BY <1>1, <1>2, AnswersRest, PaneRests, PickerRests, Zenon
<1>5. noteRetried' \in BOOLEAN /\ ReviewCallFits(c)
  BY <1>1, <1>2, AnswersRest, Zenon DEF CallsInv
<1>6. FitsDesk([what |-> c.what, text |-> c.text, step |-> c.step])
  <2>1. FitsDesk(c)
    BY <1>5, Zenon DEF ReviewCallFits
  <2> QED BY <2>1, Zenon DEF FitsDesk
<1>7. \A t \in noteRetries' : FitsDesk(t)
  BY <1>1, <1>2, <1>6, Zenon DEF CallsInv
<1>8. BoxKept'
  BY <1>1, <1>2, AnswersRest, Zenon DEF CallsInv, BoxKept
<1>9. CallsInv'
  BY <1>1, <1>2, <1>3, <1>5, <1>7, <1>8, AnswersRest, Answered, Zenon
<1> QED BY <1>1, <1>2, <1>3, <1>4, <1>9, PartsNext, Zenon

(* The rows on screen after an assignment is answered.                     *)
LEMMA PatchFits ==
  ASSUME KeyedRows(onList), NEW i, NEW what
  PROVE  /\ KeyedRows(PatchedRows(onList, i, what))
         /\ \A q \in PatchedRows(onList, i, what) :
              /\ \E r \in onList : ItemKey(r) = ItemKey(q)
              /\ q \in onList \/ (q.request = i.request
                                  /\ q.assignee = (IF what = "legal" THEN "" ELSE what))
         /\ \A r \in onList : \E q \in PatchedRows(onList, i, what) : ItemKey(q) = ItemKey(r)
<1> DEFINE F(r) == IF ~SameReview(r, i) THEN r
                   ELSE IF what = "legal" THEN HandedTo(r, "escalate", "legal", "")
                   ELSE HandedTo(r, "assign", "reviewer", what)
           f == [r \in onList |-> F(r)]
           after == PatchedRows(onList, i, what)
<1>1. after = {f[r] : r \in onList}
  BY Zenon DEF PatchedRows
<1>2. ASSUME NEW r \in onList
      PROVE  /\ IsRow(f[r]) /\ ItemKey(f[r]) = ItemKey(r)
             /\ f[r] \in onList \/ (f[r].request = i.request
                                    /\ f[r].assignee = (IF what = "legal" THEN "" ELSE what))
  <2>1. IsRow(r)
    BY Zenon DEF KeyedRows
  <2>2. CASE ~SameReview(r, i)
    <3>1. f[r] = r
      BY <2>2, Zenon
    <3> QED BY <2>1, <3>1, Zenon
  <2>3. CASE SameReview(r, i)
    <3>1. r.request = i.request
      BY <2>3, Zenon DEF SameReview
    <3>2. CASE what = "legal"
      <4>0. PICK g, t, a : g = "escalate" /\ t = "legal" /\ a = ""
        OBVIOUS
      <4> DEFINE q == HandedTo(r, g, t, a)
      <4>1. IsRow(q) /\ q.request = r.request /\ q.assignee = a /\ ItemKey(q) = ItemKey(r)
        BY <2>1, RowPatched
      <4>2. f[r] = q /\ a = ""
        BY <2>3, <3>2, <4>0, Zenon
      <4> HIDE DEF f, q
      <4> QED BY <3>1, <3>2, <4>1, <4>2, Zenon
    <3>3. CASE what # "legal"
      <4> DEFINE q == HandedTo(r, "assign", "reviewer", what)
      <4>1. IsRow(q) /\ q.request = r.request /\ q.assignee = what /\ ItemKey(q) = ItemKey(r)
        BY <2>1, RowPatched
      <4>2. f[r] = q
        BY <2>3, <3>3, Zenon
      <4> HIDE DEF f, q
      <4> QED BY <3>1, <3>3, <4>1, <4>2, Zenon
    <3> QED BY <3>2, <3>3
  <2> QED BY <2>2, <2>3
<1> HIDE DEF f, after
<1>3. KeyedRows(after)
  BY <1>1, <1>2, StillKeyed
<1>4. \A q \in after :
        /\ \E r \in onList : ItemKey(r) = ItemKey(q)
        /\ q \in onList \/ (q.request = i.request
                            /\ q.assignee = (IF what = "legal" THEN "" ELSE what))
  BY <1>1, <1>2, Zenon
<1>5. \A r \in onList : \E q \in after : ItemKey(q) = ItemKey(r)
  BY <1>1, <1>2, Zenon
<1> QED BY <1>3, <1>4, <1>5, Zenon DEF after

LEMMA AssignAnsweredFits ==
  ASSUME NotesInv, NEW c \in noteCalls, AssignAnswered(c) PROVE NotesInv'
<1>1. /\ PaneOK /\ noteText \in Replies \cup {""} /\ PickerOK
      /\ strayed \in BOOLEAN /\ RowsInv /\ CallsInv
  BY Parts
<1>2. /\ Answers /\ c.step = "assign" /\ noteCalls' = noteCalls \ {c} /\ ServesPost(c)
      /\ noteText' = noteText /\ dropped' = dropped /\ noteRetries' = noteRetries
      /\ strayed' = (strayed \/ About1(c) # ItemKey(c.item))
  BY Zenon DEF AssignAnswered
<1>3. /\ IsLedger' /\ ReplyBeforeDecision' /\ Comments \subseteq Comments'
      /\ \A r : Named(r) => Named(r)'
      /\ KeyedRows(kept)' /\ \A r \in kept' : Named(r)'
      /\ \A r : r.request = c.item.request
                /\ r.assignee = (IF c.what = "legal" THEN "" ELSE c.what) => Named(r)'
  BY <1>2, Serves
<1>4. ReviewCallFits(c) /\ noteRetried' \in BOOLEAN /\ \A t \in noteRetries' : FitsDesk(t)
  BY <1>1, <1>2, AnswersRest, Zenon DEF CallsInv
<1>5. noteDesk.what = "assign"
  BY <1>2, <1>4, Zenon DEF ReviewCallFits, FitsDesk
<1>6. CallsInv'
  <2>1. BoxKept'
    BY <1>2, <1>5, AnswersRest, StepNames, Zenon DEF BoxKept
  <2>2. \A d \in noteCalls' : d \in noteCalls
    BY <1>2, Zenon
  <2> QED BY <1>1, <1>2, <1>3, <1>4, <2>1, <2>2, AnswersRest, Answered, Zenon
<1>7. /\ KeyedRows(onList')
      /\ \A q \in onList' : \E r \in onList : ItemKey(r) = ItemKey(q)
      /\ \A r \in onList : \E q \in onList' : ItemKey(q) = ItemKey(r)
      /\ ~strayed' => \A q \in onList' : Named(q)'
  <2>0. KeyedRows(onList) /\ (~strayed => \A r \in onList : Named(r))
    BY <1>1, Zenon DEF RowsInv
  <2>1. CASE \E r \in onList : ItemKey(r) = About1(c)
    <3> DEFINE i == RowOf(About1(c))
    <3>1. i \in onList /\ ItemKey(i) = About1(c)
      BY <2>1, RowFound
    <3>2. PICK what : what = c.what
      OBVIOUS
    <3> DEFINE rows == PatchedRows(onList, i, what)
    <3>3. onList' = rows
      BY <2>1, <3>2, Zenon DEF AssignAnswered
    <3> HIDE DEF i
    <3>4. /\ KeyedRows(rows)
          /\ \A q \in rows :
               /\ \E r \in onList : ItemKey(r) = ItemKey(q)
               /\ q \in onList \/ (q.request = i.request
                                   /\ q.assignee = (IF what = "legal" THEN "" ELSE what))
          /\ \A r \in onList : \E q \in rows : ItemKey(q) = ItemKey(r)
      BY <2>0, PatchFits, Zenon
    <3> HIDE DEF rows
    <3>5. ASSUME ~strayed', NEW q \in onList' PROVE Named(q)'
      <4>1. ~strayed /\ About1(c) = ItemKey(c.item)
        BY <1>2, <3>5, Zenon
      <4>2. i.request = c.item.request
        BY <3>1, <4>1, KeyNamesRequest, Zenon
      <4>3. CASE q \in onList
        BY <1>3, <2>0, <4>1, <4>3, Zenon
      <4>4. CASE q.request = i.request /\ q.assignee = (IF what = "legal" THEN "" ELSE what)
        BY <1>3, <3>2, <4>2, <4>4, Zenon
      <4> QED BY <3>3, <3>4, <3>5, <4>3, <4>4, Zenon
    <3> QED BY <3>3, <3>4, <3>5, Zenon
  <2>2. CASE ~ \E r \in onList : ItemKey(r) = About1(c)
    <3>1. onList' = onList
      BY <2>2, Zenon DEF AssignAnswered
    <3>2. ASSUME ~strayed', NEW q \in onList' PROVE Named(q)'
      BY <1>2, <1>3, <2>0, <3>1, <3>2, Zenon
    <3> QED BY <2>0, <3>1, <3>2, Zenon
  <2> QED BY <2>1, <2>2
<1>8. RowsInv'
  BY <1>3, <1>7, Zenon DEF RowsInv
<1>9. PaneOK' /\ PickerOK'
  <2>1. /\ noteDesk' = noteDesk /\ noteItem' = noteItem
        /\ pickerOpen' = pickerOpen /\ search' = search
    BY <1>2, AnswersRest
  <2>2. noteDesk'.what # "composer"
    BY <1>5, <2>1, StepNames, Zenon
  <2>3. InPane => InPane'
    BY <1>7, <2>1, Zenon DEF InPane
  <2>4. noteItem \in {NoPane} \/ InPane
    BY <1>1, Zenon DEF PaneOK, InPane
  <2>5. PaneOK'
    BY <2>1, <2>2, <2>3, <2>4, Zenon DEF PaneOK, InPane, OnDesk
  <2>6. PickerOK'
    BY <1>1, <2>1, <2>3, Zenon DEF PickerOK
  <2> QED BY <2>5, <2>6
<1>10. strayed' \in BOOLEAN
  BY <1>2, Zenon
<1> QED BY <1>1, <1>2, <1>6, <1>8, <1>9, <1>10, PartsNext, Zenon

LEMMA NextNotesInv == NotesInv /\ [NotesNext]_notesVars => NotesInv'
<1> SUFFICES ASSUME NotesInv, [NotesNext]_notesVars PROVE NotesInv'
  OBVIOUS
<1>1. CASE RefetchRows
  BY <1>1, RefetchFits
<1>2. CASE SendStatus
  BY <1>2, SendStatusFits
<1>3. CASE SendNote
  BY <1>3, SendNoteFits
<1>4. CASE OpenPicker \/ ClosePicker \/ \E q \in DOMAIN FoundBy : SearchFor(q)
  BY <1>4, PickerFits
<1>5. CASE PressEnter \/ (\E e \in Assignables : PickPerson(e)) \/ (\E g \in Teams : PickTeam(g))
  BY <1>5, PickFits
<1>6. CASE \E r \in onList : OpenBeside(r)
  BY <1>6, OpenItemFits
<1>7. CASE \E t \in Replies \cup {""} : WriteDraft(t)
  BY <1>7, WriteFits
<1>8. CASE \E r \in onList : \E o \in ToSet(ComposerOptions(r)) : ChooseStatus(o)
  BY <1>8, ChooseFits
<1>9. CASE \E c \in noteCalls : Stored(c)
  BY <1>9, StoredFits
<1>10. CASE \E c \in noteCalls : AssignAnswered(c)
  BY <1>10, AssignAnsweredFits
<1>11. CASE \E c \in noteCalls : \E done \in BOOLEAN : PostFails(c, done)
  BY <1>11, PostFailsFit
<1>12. CASE \E t \in noteRetries : RetryNote(t)
  BY <1>12, ReviewRetryFits
<1>13. CASE UNCHANGED notesVars
  <2>1. /\ UNCHANGED <<noteDesk, kept, onList, noteItem, choice, noteText, ledger>>
        /\ UNCHANGED <<noteCallVars, pickerOpen, search, dropped, strayed>>
    BY <1>13, Zenon DEF notesVars, rowState, writeVars, pickVars1
  <2>2. /\ PaneOK /\ noteText \in Replies \cup {""} /\ PickerOK
        /\ strayed \in BOOLEAN /\ RowsInv /\ CallsInv
    BY Parts
  <2>3. RowsInv' /\ CallsInv' /\ PaneOK' /\ PickerOK'
    BY <2>1, <2>2, RowsRest, CallsRest, PaneRests, PickerRests
  <2> QED BY <2>1, <2>2, <2>3, PartsNext, Zenon
<1> QED BY <1>1, <1>2, <1>3, <1>4, <1>5, <1>6, <1>7, <1>8, <1>9, <1>10, <1>11, <1>12, <1>13,
           Zenon DEF NotesNext

(* The inductive invariant holds in every reachable state.                 *)
THEOREM NotesInvariant == NotesSpec => []NotesInv
<1> QED BY InitNotesInv, NextNotesInv, PTL DEF NotesSpec

(* The pane shows an item of the list and a status the item offers, and    *)
(* its calls and its picker are in the states the code knows.              *)
THEOREM NotesTyped == NotesSpec => []NotesTypeOK
<1>1. NotesInv => NotesTypeOK
  BY Zenon DEF NotesInv
<1> QED BY <1>1, NotesInvariant, PTL

(* For every inbox, any replies, people and number of calls: a reply stands*)
(* in the record before its decision, whatever failed or was retried in    *)
(* between, no decision is asked for that the item does not offer, the box *)
(* loses no text, and rows name whom they are assigned to                  *)
(* (LegalInboxComposer, assignMutation of needs-attention.tsx).            *)
THEOREM NotesKeepTheRecord == NotesSpec => []NotesTold
<1>1. NotesInv => ReplyBeforeDecision
  BY Zenon DEF NotesInv, RowsInv
<1>2. NotesInv => OnlyOffered
  BY Zenon DEF NotesInv, CallsInv, ReviewCallFits, OnlyOffered
<1>3. NotesInv => KeepsWriting
  BY Zenon DEF NotesInv, CallsInv, BoxKept, KeepsWriting
<1>4. NotesInv => NamesAssignee
  BY Zenon DEF NotesInv, RowsInv, Named, NamesAssignee
<1>5. NotesInv => NotesTold
  BY <1>1, <1>2, <1>3, <1>4 DEF NotesTold
<1> QED BY <1>5, NotesInvariant, PTL

=============================================================================
