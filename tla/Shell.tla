------------------------------- MODULE Shell --------------------------------
(***************************************************************************)
(* The frame around every page (AppShell.tsx): the splash, the welcome of  *)
(* an owner whose connectors need setting up and the tour of the           *)
(* navigation, in the tabs of one browser (quick-start-tour.ts,            *)
(* TourHost.tsx, QuickStartTour.tsx); the command palette; the menus of    *)
(* the navigation.  A behaviour is about one of them, shellDesk.           *)
(***************************************************************************)
EXTENDS Naturals, Sequences, FiniteSets

CONSTANTS
  EntryTabs,        \* tabs of the browser
  Principals,       \* real roles of its user
  MaxSetups,        \* bound: changes of the state of the connectors
  MaxLoads,         \* bound: pages loaded
  PaletteTexts,     \* texts typed: [id, long]; long, a request is searched
  PaletteFinds(_), PaletteActions(_), \* what a text may find; actions that match it
  PalettePeople,    \* the operators
  PaletteIds,       \* what the palette may list
  Menus             \* of the navigation

ASSUME ShellAssumption ==
  /\ MaxSetups \in Nat /\ MaxLoads \in Nat
  /\ Principals \subseteq {"data_owner", "admin", "super_admin"}
  /\ \E q \in PaletteTexts : q.id = "none"
  /\ PalettePeople \in Seq(PaletteIds)
  /\ \A q \in PaletteTexts :
       PaletteActions(q) \in Seq(PaletteIds) /\ PaletteFinds(q) \subseteq Seq(PaletteIds)

VARIABLES
  shellDesk,
  browser,    \* [user, welcomed, tour]: its user, what localStorage keeps
  setup,      \* [done, moves, loads]: the connectors are set up, in truth
  entries2,   \* tab -> see NoEntry2
  palette,    \* [open, text, ix, asked, results, people, opened]
  menus       \* menu -> [open, timer, inside, keys]

shellVars == <<shellDesk, browser, setup, entries2, palette, menus>>

-----------------------------------------------------------------------------
(* The chain of the tour                                                   *)

ChainFor(r) ==
  CASE r = "super_admin" -> <<"connectors", "ops-connections">>
    [] r = "data_owner"  -> <<"connectors", "home", "requests", "inbox", "docs">>
    [] r = "admin"       -> <<"connectors", "home", "all-requests", "inbox", "docs">>
    [] OTHER             -> <<"requests", "inbox", "docs">>

(* Steps with a link in the header: of the inbox and the three groups or   *)
(* links of NavMenu, whose menus are closed; "none" while there is no      *)
(* header, "unknown" while no role is known.                               *)
NavOf(r) ==
  CASE r = "none"        -> {}
    [] r = "super_admin" -> {"inbox", "requests", "all-requests", "connectors", "ops-connections"}
    [] r = "unknown"     -> {"inbox", "requests", "all-requests", "home", "docs"}
    [] OTHER             -> {"inbox", "requests", "all-requests", "home", "connectors"}

(* Those of the steps, in their order; all when there is none.             *)
Anchored(steps, nav) ==
  LET there  == {i \in DOMAIN steps : steps[i] \in NavOf(nav)}
      ith(k) == CHOOSE i \in there : Cardinality({j \in there : j <= i}) = k
  IN IF there = {} THEN steps ELSE [k \in 1..Cardinality(there) |-> steps[ith(k)]]

-----------------------------------------------------------------------------
(* Splash, welcome and tour                                                *)

(* seen, later: its sessionStorage (splash played, "Not now").  knows: the *)
(* role /me told, simulated or not.  up: what the frame shows.  chain:     *)
(* tourSteps of TourHost; tour: its steps and index while mounted.         *)
(* unoffered: the need was not known, or not asked, when the welcome was   *)
(* due; switched2: another role was told while the tour was mounted.       *)
NoTour   == [steps |-> <<>>, ix |-> 0]
NoEntry2 ==
  [open |-> FALSE, connect |-> FALSE, seen |-> FALSE, later |-> FALSE, as |-> "none", knows |-> "unknown",
   needs |-> FALSE, links |-> "unread", up |-> "page", chain |-> <<>>, over |-> FALSE,
   tour |-> NoTour, unoffered |-> FALSE, switched2 |-> FALSE]

ShowsConnectorsNav(r) == r \in {"data_owner", "admin", "super_admin"}

(* needs is the reminder of an unfinished setup as well (roles.py).        *)
Eligible2(e) == ShowsConnectorsNav(e.knows) /\ e.links = "ready" /\ ~e.needs

WelcomeDue(e, b) == e.needs /\ ~e.connect /\ ~b.welcomed

Deferred(e, b) == ~e.seen \/ WelcomeDue(e, b)

OffersTour(e, b) ==
  /\ e.up = "page" /\ ~e.over /\ Eligible2(e) /\ b.tour = "none" /\ ~e.later
  /\ ~Deferred(e, b) /\ ~e.connect

(* TourHost renders: the tour is mounted with the steps that nav, the      *)
(* header of the former rendering, has; mounted, it keeps its index.       *)
Rendered(e, b, nav) ==
  [e EXCEPT !.tour = IF ~OffersTour(e, b) THEN NoTour
                     ELSE IF @ = NoTour THEN [steps |-> Anchored(e.chain, nav), ix |-> 1] ELSE @]

InTab(t, e) == entries2' = [entries2 EXCEPT ![t] = e]

(* A tab is opened, or its page loaded again; sessionStorage stays.        *)
Load2(t) ==
  /\ setup.loads < MaxLoads /\ setup' = [setup EXCEPT !.loads = @ + 1]
  /\ \E path \in BOOLEAN :
       InTab(t, [NoEntry2 EXCEPT !.open = TRUE, !.connect = path, !.seen = entries2[t].seen,
                                 !.later = entries2[t].later, !.as = entries2[t].as])
  /\ UNCHANGED browser

(* TourHost is mounted anew with the header: its first rendering finds no  *)
(* header.                                                                 *)
BackToPage(e, b) == Rendered([e EXCEPT !.up = "page", !.chain = ChainFor(e.knows)], b, "none")

(* The first answer plays the splash once a session, not on an invitation; *)
(* past it, the welcome is asked for.  A later one only renders.  The      *)
(* chain is chosen when the role changes, by the header that is there.     *)
AfterMe(e, b, done) ==
  LET r     == IF e.as = "none" THEN b.user ELSE e.as
      needs == r # "super_admin" /\ ~done
      told  == [e EXCEPT !.knows = r, !.needs = needs]
      chain == IF r = e.knows THEN e.chain ELSE Anchored(ChainFor(r), e.knows)
      again == [told EXCEPT !.chain = chain,
                 !.unoffered = @ \/ (needs /\ ~e.needs /\ e.up = "page"),
                 !.switched2 = @ \/ (r # e.knows /\ e.tour # NoTour),
                 !.tour.steps = IF r # e.knows /\ @ # <<>> THEN Anchored(chain, e.knows) ELSE @]
  IN IF e.knows # "unknown" /\ e.up = "page" THEN Rendered(again, b, e.knows)
     ELSE IF e.knows # "unknown" THEN told
     ELSE IF ~e.connect /\ ~e.seen THEN [told EXCEPT !.up = "splash"]
     ELSE IF WelcomeDue(told, b) THEN [told EXCEPT !.up = "welcome", !.seen = TRUE]
     ELSE [told EXCEPT !.seen = TRUE, !.chain = chain, !.unoffered = needs]

MeTold(t) ==
  /\ entries2[t].open /\ InTab(t, AfterMe(entries2[t], browser, setup.done))
  /\ UNCHANGED <<browser, setup>>

(* It is marked as played at its end.  A mutant does not ask for the       *)
(* welcome then.                                                           *)
SplashOnly(e, b)  == BackToPage([e EXCEPT !.seen = TRUE], b)
AfterSplash(e, b) ==
  IF WelcomeDue(e, b) THEN [e EXCEPT !.seen = TRUE, !.up = "welcome"]
  ELSE BackToPage([e EXCEPT !.seen = TRUE], b)

SplashDone(t) ==
  /\ entries2[t].up = "splash" /\ InTab(t, AfterSplash(entries2[t], browser))
  /\ UNCHANGED <<browser, setup>>

(* "Maybe later" and "Get started" alike.                                  *)
AnswerWelcome(t) ==
  /\ entries2[t].up = "welcome" /\ browser' = [browser EXCEPT !.welcomed = TRUE]
  /\ InTab(t, BackToPage(entries2[t], browser')) /\ UNCHANGED setup

LinksRead(t) ==
  LET e == [entries2[t] EXCEPT !.links = IF setup.done THEN "ready" ELSE "unready"]
  IN
  /\ entries2[t].knows # "unknown" /\ e # entries2[t]
  /\ InTab(t, IF e.up = "page" THEN Rendered(e, browser, e.knows) ELSE e)
  /\ UNCHANGED <<browser, setup>>

(* From an invitation to another page: the frame does not render for it.   *)
LeaveInvite(t) ==
  /\ entries2[t].connect /\ entries2[t].knows # "unknown"
  /\ InTab(t, [entries2[t] EXCEPT !.connect = FALSE])
  /\ UNCHANGED <<browser, setup>>

(* A super_admin views as another role, told by the next answer.           *)
Simulate(t) ==
  /\ browser.user = "super_admin" /\ entries2[t].up = "page" /\ entries2[t].knows # "unknown"
  /\ \E r \in {"none", "data_owner"} \ {entries2[t].as} : InTab(t, [entries2[t] EXCEPT !.as = r])
  /\ UNCHANGED <<browser, setup>>

TourUp(t) == entries2[t].tour # NoTour /\ entries2[t].tour.ix <= Len(entries2[t].tour.steps)

EndsTour(t) == InTab(t, [entries2[t] EXCEPT !.over = TRUE, !.tour = NoTour])

NextStep(t) ==
  /\ TourUp(t) /\ UNCHANGED setup
  /\ IF entries2[t].tour.ix >= Len(entries2[t].tour.steps)
     THEN EndsTour(t) /\ browser' = [browser EXCEPT !.tour = "completed"]
     ELSE InTab(t, [entries2[t] EXCEPT !.tour.ix = @ + 1]) /\ UNCHANGED browser

SkipTour(t) ==
  /\ TourUp(t) /\ EndsTour(t) /\ browser' = [browser EXCEPT !.tour = "skipped"] /\ UNCHANGED setup

NotNow(t) ==
  /\ TourUp(t) /\ UNCHANGED <<browser, setup>>
  /\ InTab(t, [entries2[t] EXCEPT !.over = TRUE, !.tour = NoTour, !.later = TRUE])

(* A wizard is finished; an operator resets one.                           *)
SetupMoves ==
  /\ setup.moves < MaxSetups /\ setup' = [setup EXCEPT !.done = ~@, !.moves = @ + 1]
  /\ UNCHANGED <<browser, entries2>>

-----------------------------------------------------------------------------
(* The palette                                                             *)

(* Requests found for this very text, people, actions: in that order.     *)
FoundFor(p)  == IF p.text.long THEN p.results[p.text] ELSE <<>>
Items2(p)    == FoundFor(p) \o (IF p.people THEN PalettePeople ELSE <<>>) \o PaletteActions(p.text)

(* The index follows a list that is shorter than it.                       *)
Clamped(p) ==
  LET n == Len(Items2(p)) IN [p EXCEPT !.ix = IF n = 0 THEN 1 ELSE IF @ > n THEN n ELSE @]
Blank2 == CHOOSE q \in PaletteTexts : q.id = "none"

OpenPalette  == ~palette.open /\ palette' = Clamped([palette EXCEPT !.open = TRUE, !.ix = 1])

(* Escape and a choice clear it; a click beside it only closes it.         *)
Cleared(p)   == [p EXCEPT !.open = FALSE, !.text = Blank2, !.ix = 1]
ShutPalette  == palette.open /\ palette' \in {Cleared(palette), [palette EXCEPT !.open = FALSE]}

TypeInPalette ==
  /\ palette.open
  /\ \E q \in PaletteTexts \ {palette.text} : 
       palette' = Clamped([palette EXCEPT !.text = q, !.ix = 1, !.asked = @ \cup {q}])

(* The answer to a search of a text typed once; asked anew, it may differ. *)
SearchAnswered ==
  \E q \in PaletteTexts : \E found \in PaletteFinds(q) :
    /\ q.long /\ q \in palette.asked
    /\ palette' = Clamped([palette EXCEPT !.results[q] = found])

PeopleTold ==
  ~palette.people /\ palette.open /\ palette' = Clamped([palette EXCEPT !.people = TRUE])

MoveInPalette ==
  LET n == Len(Items2(palette))
  IN palette.open /\ n > 0 /\ \E i \in {1 + (palette.ix % n), 1 + ((palette.ix + n - 2) % n)} :
       palette' = [palette EXCEPT !.ix = i]

ChooseInPalette ==
  /\ palette.open /\ palette.ix <= Len(Items2(palette))
  /\ palette' = Cleared([palette EXCEPT
                  !.opened = [text |-> palette.text, it |-> Items2(palette)[palette.ix]]])

-----------------------------------------------------------------------------
(* A menu                                                                  *)

(* Opening stops the clock of an earlier leave.                           *)
Opened(m)     == [menus[m] EXCEPT !.open = TRUE, !.timer = FALSE]
Closed2(m)    == [menus[m] EXCEPT !.open = FALSE, !.timer = FALSE, !.keys = FALSE]

OnMenu(m, v) == menus' = [menus EXCEPT ![m] = v]

PointerEnters(m) ==
  (\A n \in Menus : ~menus[n].inside) /\ OnMenu(m, [Opened(m) EXCEPT !.inside = TRUE])

PointerLeaves(m) == menus[m].inside /\ OnMenu(m, [menus[m] EXCEPT !.inside = FALSE, !.timer = TRUE])

MenuTimer(m) == menus[m].timer /\ OnMenu(m, [Closed2(m) EXCEPT !.timer = FALSE])

(* The button, by a click or a key; ArrowDown on what is focused; Escape,  *)
(* a link or the focus going elsewhere.                                    *)
PressMenuButton(m) ==
  OnMenu(m, [menus[m] EXCEPT !.open = ~@, !.keys = ~menus[m].open /\ ~menus[m].inside])
ArrowDown(m) == ~menus[m].open /\ OnMenu(m, [Opened(m) EXCEPT !.keys = TRUE])
LeaveMenu(m) == menus[m].open /\ OnMenu(m, Closed2(m))

PressElsewhere ==
  /\ \E m \in Menus : menus[m].open /\ ~menus[m].inside
  /\ menus' = [m \in Menus |-> IF menus[m].inside \/ ~menus[m].open THEN menus[m] ELSE Closed2(m)]

-----------------------------------------------------------------------------

ShellInit ==
  /\ shellDesk \in {"entry", "palette", "menu"}
  /\ browser \in [user : IF shellDesk = "entry" THEN Principals ELSE {"admin"},
                  welcomed : {FALSE}, tour : {"none"}]
  /\ setup \in [done : IF shellDesk = "entry" THEN BOOLEAN ELSE {FALSE},
                moves : {0}, loads : {0}]
  /\ entries2 = [t \in EntryTabs |-> NoEntry2]
  /\ palette = [open |-> FALSE, text |-> Blank2, ix |-> 1,
                results |-> [q \in PaletteTexts |-> <<>>],
                people |-> FALSE, asked |-> {}, opened |-> [text |-> Blank2, it |-> "none"]]
  /\ menus = [m \in Menus |-> [open |-> FALSE, timer |-> FALSE, inside |-> FALSE, keys |-> FALSE]]

ShellNext ==
  /\ UNCHANGED shellDesk
  /\ \/ /\ shellDesk = "entry" /\ UNCHANGED <<palette, menus>>
        /\ \/ \E t \in EntryTabs :
                \/ Load2(t) \/ MeTold(t) \/ SplashDone(t) \/ AnswerWelcome(t) \/ LinksRead(t)
                \/ LeaveInvite(t) \/ Simulate(t) \/ NextStep(t) \/ SkipTour(t) \/ NotNow(t)
           \/ SetupMoves
     \/ /\ shellDesk = "palette" /\ UNCHANGED <<browser, setup, entries2, menus>>
        /\ \/ OpenPalette \/ ShutPalette \/ TypeInPalette \/ SearchAnswered \/ PeopleTold
           \/ MoveInPalette \/ ChooseInPalette
     \/ /\ shellDesk = "menu" /\ UNCHANGED <<browser, setup, entries2, palette>>
        /\ \/ \E m \in Menus :
                \/ PointerEnters(m) \/ PointerLeaves(m) \/ MenuTimer(m) \/ PressMenuButton(m)
                \/ ArrowDown(m) \/ LeaveMenu(m)
           \/ PressElsewhere

-----------------------------------------------------------------------------
(* Properties                                                              *)

(* A tour is mounted over a page past the splash; a closed menu's keys rest*)
ShellTypeOK ==
  /\ browser.tour \in {"none", "completed", "skipped"}
  /\ \A t \in EntryTabs :
       /\ entries2[t].tour # NoTour => entries2[t].up = "page" /\ entries2[t].seen
       /\ entries2[t].tour.ix <= 5
  /\ \A m \in Menus : menus[m].keys => menus[m].open

(* An owner whose connectors need setting up is welcomed in each session   *)
(* until the welcome is answered on that browser, the splash played or not,*)
(* unless an invitation was opened or the need came later.                 *)
WelcomeOffered ==
  \A t \in EntryTabs :
    entries2[t].up = "page" /\ entries2[t].needs /\ ~browser.welcomed => entries2[t].unoffered

(* A mounted tour shows a step, whatever /me, the connectors and the other *)
(* tab tell meanwhile; unless another role was told while it was mounted.  *)
TourStands == \A t \in EntryTabs : entries2[t].tour # NoTour /\ ~entries2[t].switched2 => TourUp(t)

(* What was found for a text, or may be listed for it.                     *)
PaletteGroups(q) == {PalettePeople, PaletteActions(q)} \cup PaletteFinds(q)

(* What is highlighted in the palette is there, and what is opened from it *)
(* was found for the text it showed, in whatever order the answers came.   *)
PaletteTold ==
  /\ palette.open /\ Items2(palette) # <<>> => palette.ix \in 1..Len(Items2(palette))
  /\ LET q == palette.opened.text
     IN \/ palette.opened.it = "none"
        \/ \E s \in PaletteGroups(q) : \E i \in DOMAIN s : palette.opened.it = s[i]

(* A menu is not closed under the pointer by the clock of an earlier leave,*)
(* and one that was opened by the pointer does not stay without it.        *)
MenuTold ==
  \A m \in Menus :
    /\ menus[m].timer => ~menus[m].inside
    /\ menus[m].open /\ ~menus[m].inside /\ ~menus[m].timer => menus[m].keys

ShellTold == WelcomeOffered /\ TourStands /\ PaletteTold /\ MenuTold

=============================================================================
