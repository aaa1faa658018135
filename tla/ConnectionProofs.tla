---------------------------- MODULE ConnectionProofs ------------------------
(***************************************************************************)
(* The connections of the data owners: the page of the administrator, and  *)
(* the wizard an owner sets a connection up with.                          *)
(*                                                                         *)
(* The panel of a connection is true to the server, by the inductive       *)
(* invariant LinksInv: a call that is alone about its connection has read  *)
(* or done what the server holds, the rows and the mode told are fresh but *)
(* for what a call or a list on its way will bring, a connection that is   *)
(* gone is on no screen, and what is to be deleted was on one.             *)
(*                                                                         *)
(* The wizard says done of what is stored, by the inductive invariant      *)
(* WizardInv: the steps of the dialog are those of its plan, each stands   *)
(* on what the steps behind it left in the row of the connection, and what *)
(* is in flight or offered again in a toast is of the step it is pressed   *)
(* on.                                                                     *)
(***************************************************************************)
EXTENDS ConnectionsAdmin, OwnerWizard, SequenceTheorems, FiniteSetTheorems, TLAPS

-----------------------------------------------------------------------------
(* The connections                                                         *)

LinksSpec == LinksInit /\ [][LinksNext]_linkVars

LinkModes == {"live", "upload"}
LinkRow   == [there : BOOLEAN, mode : LinkModes, days : Nat, setup : BOOLEAN, test : BOOLEAN]
Dialog    == [of : Linked \cup {NoLink}, row : LinkRow, life : Nat,
              forced : LinkModes \cup {"none"}, test : BOOLEAN, asks : SUBSET ConfirmKinds]
PanelOps  == {"force", "save", "test", "delete", "reset"}

(* A call of the panel, or its Retry.                                      *)
PanelAsk(f) ==
  /\ f.of \in Linked /\ f.op \in PanelOps /\ f.life \in Nat /\ f.life <= dlg.life
  /\ f.op = "force" => f.arg \in LinkModes
  /\ f.op = "save" => f.arg \in Nat

AsksShaped ==
  \A f \in asks : f = [n |-> f.n, op |-> f.op, of |-> f.of, arg |-> f.arg, life |-> f.life,
                       pc |-> f.pc, saw |-> f.saw]

PanelTypes ==
  /\ registry \in [Linked -> LinkRow] /\ rows \in [Linked -> LinkRow] /\ dlg \in Dialog
  /\ dlg.asks # {} => dlg.of # NoLink
  /\ fetches \subseteq Linked /\ dark \in BOOLEAN
  /\ \A f \in asks :
       PanelAsk(f) /\ (f.pc = "read" => f.saw[1] \in LinkRow /\ f.op \in {"save", "reset"})
  /\ \A t \in retriable : PanelAsk(t)

(* A call on its way is alone about its connection, and what it has done   *)
(* or read is what the server holds.                                       *)
CallsAlone ==
  /\ \A f, g \in asks : f.of = g.of /\ f # g => f.of \in crossed
  /\ \A f \in asks : f.of \notin crossed =>
       /\ f.pc = "read" => f.saw[1].mode = registry[f.of].mode
       /\ f.pc = "done" /\ f.op = "force" => registry[f.of].mode = f.arg

ForceDone(c) == \E f \in asks : f.of = c /\ f.op = "force" /\ f.pc = "done"
DeleteDone   == \E f \in asks : f.op = "delete" /\ f.pc = "done"

(* A connection that was deleted is not listed, not on screen, and no      *)
(* answer about it is for the panel that is.                               *)
GoneKnown ==
  ~dark /\ ~DeleteDone =>
    \A c \in Linked : ~registry[c].there =>
      /\ ~rows[c].there /\ dlg.of # c
      /\ \A f \in asks : f.of = c /\ f.pc = "done" => dlg.of = NoLink \/ f.life < dlg.life

(* The rows listed and the row on screen, unless a list is on its way.     *)
RowsFresh ==
  ~dark /\ ~DeleteDone =>
    \A c \in Linked \ (crossed \cup fetches) : ~ForceDone(c) =>
      /\ rows[c].mode = registry[c].mode
      /\ dlg.of = c => dlg.row.mode = registry[c].mode

(* The mode the panel was told, unless a list that is on its way puts      *)
(* another connection in its place.                                        *)
ForcedFresh ==
  ~dark /\ ~DeleteDone /\ dlg.of # NoLink /\ dlg.of \notin crossed /\ ~ForceDone(dlg.of)
    => \/ dlg.forced \in {"none", registry[dlg.of].mode}
       \/ \E e \in fetches \ {dlg.of} : registry[e].there

(* Whoever is to be deleted was on screen as it was asked.                 *)
DeletesKnown ==
  ~switched =>
    /\ \A c \in Linked : registry[c].there \/ c \in askedOf
    /\ "delete" \in dlg.asks => dlg.of \in askedOf
    /\ \A f \in asks \cup retriable : f.op = "delete" => f.of \in askedOf

PanelInv == PanelTypes /\ CallsAlone /\ GoneKnown /\ RowsFresh /\ ForcedFresh /\ DeletesKnown

LEMMA InitPanelInv == LinksInit => PanelInv
<1> SUFFICES ASSUME LinksInit PROVE PanelInv
  OBVIOUS
<1>1. NewLink \in LinkRow /\ NewLink.there /\ NewLink.mode = "live"
  BY DEF NewLink, LinkRow, LinkModes
<1>2. /\ registry = [c \in Linked |-> IF c \in UploadOnly
                                     THEN [NewLink EXCEPT !.mode = "upload", !.days = 0] ELSE NewLink]
      /\ rows = registry /\ asks = {} /\ fetches = {} /\ retriable = {} /\ askedOf = {}
      /\ crossed = {} /\ switched = FALSE /\ dark = FALSE
      /\ dlg = [of |-> NoLink, row |-> NewLink, life |-> 0, forced |-> "none", test |-> NewLink.test,
                asks |-> {}]
  BY DEF LinksInit
<1>3. [NewLink EXCEPT !.mode = "upload", !.days = 0] \in LinkRow
      /\ [NewLink EXCEPT !.mode = "upload", !.days = 0].there
  BY DEF NewLink, LinkRow, LinkModes
<1>4. registry \in [Linked -> LinkRow] /\ \A c \in Linked : registry[c].there
  BY <1>1, <1>2, <1>3
<1>5. dlg \in Dialog
  BY <1>1, <1>2 DEF Dialog, LinkRow
<1>6. PanelTypes
  BY <1>2, <1>4, <1>5 DEF PanelTypes
<1>7. dlg.of = NoLink /\ dlg.asks = {} /\ NoLink \notin Linked
  BY <1>2, LinksAssumption
<1>8. CallsAlone /\ GoneKnown /\ RowsFresh
  BY <1>2, <1>4, <1>7 DEF CallsAlone, GoneKnown, RowsFresh
<1>9. ForcedFresh /\ DeletesKnown
  BY <1>2, <1>4, <1>7 DEF ForcedFresh, DeletesKnown
<1> QED BY <1>6, <1>8, <1>9 DEF PanelInv

(* A call is sent.                                                         *)
LEMMA AskedKeeps ==
  ASSUME PanelInv, NEW f, asks' = asks \cup {f}, f.pc = "sent", PanelAsk(f),
         f.op = "delete" => f.of \in askedOf \/ switched,
         crossed' = IF \E g \in asks : g.of = f.of THEN crossed \cup {f.of} ELSE crossed,
         retriable' \subseteq retriable, registry' = registry, rows' = rows, dlg' = dlg,
         fetches' = fetches, askedOf' = askedOf, switched' = switched, dark' = dark
  PROVE  PanelInv'
<1>1. PanelTypes /\ CallsAlone /\ GoneKnown /\ RowsFresh /\ ForcedFresh /\ DeletesKnown
  BY DEF PanelInv
<1>2. \A g : PanelAsk(g)' <=> PanelAsk(g)
  BY DEF PanelAsk
<1>3. PanelTypes'
  BY <1>1, <1>2 DEF PanelTypes
<1>4. CallsAlone'
  BY <1>1 DEF CallsAlone
<1>5. (DeleteDone' <=> DeleteDone) /\ \A c : ForceDone(c)' <=> ForceDone(c)
  BY DEF DeleteDone, ForceDone
<1>6. crossed \subseteq crossed'
  OBVIOUS
<1>7. GoneKnown'
  BY <1>1, <1>5 DEF GoneKnown
<1>8. RowsFresh'
  BY <1>1, <1>5, <1>6 DEF RowsFresh
<1>9. ForcedFresh'
  BY <1>1, <1>5, <1>6 DEF ForcedFresh
<1>10. DeletesKnown'
  BY <1>1 DEF DeletesKnown
<1> QED BY <1>3, <1>4, <1>7, <1>8, <1>9, <1>10 DEF PanelInv

(* The server reads a row, or a call fails before it did anything.         *)
LEMMA TurnedKeeps ==
  ASSUME PanelInv, NEW f \in asks, NEW g, asks' = (asks \ {f}) \cup {g},
         f.pc # "done", g.pc \in {"read", "failed"},
         g.pc = "read" => g.saw[1] = registry[f.of] /\ f.op \in {"save", "reset"},
         g.op = f.op, g.of = f.of, g.arg = f.arg, g.life = f.life,
         crossed' = crossed,
         retriable' = retriable, registry' = registry, rows' = rows, dlg' = dlg,
         fetches' = fetches, askedOf' = askedOf, switched' = switched, dark' = dark
  PROVE  PanelInv'
<1>1. PanelTypes /\ CallsAlone /\ GoneKnown /\ RowsFresh /\ ForcedFresh /\ DeletesKnown
  BY DEF PanelInv
<1>2. PanelAsk(g) /\ \A h : PanelAsk(h)' <=> PanelAsk(h)
  BY <1>1 DEF PanelAsk, PanelTypes
<1>3. PanelTypes'
  BY <1>1, <1>2 DEF PanelTypes, PanelAsk
<1>4. CallsAlone'
  BY <1>1 DEF CallsAlone
<1>5. (DeleteDone' <=> DeleteDone) /\ \A c : ForceDone(c)' <=> ForceDone(c)
  BY DEF DeleteDone, ForceDone
<1>6. GoneKnown'
  BY <1>1, <1>5 DEF GoneKnown
<1>7. RowsFresh'
  BY <1>1, <1>5 DEF RowsFresh
<1>8. ForcedFresh'
  BY <1>1, <1>5 DEF ForcedFresh
<1>9. DeletesKnown'
  BY <1>1 DEF DeletesKnown
<1> QED BY <1>3, <1>4, <1>6, <1>7, <1>8, <1>9 DEF PanelInv

(* An answer that is lost leaves the panel in the dark.                    *)
LEMMA LostKeeps ==
  ASSUME PanelInv, NEW f \in asks, NEW g, asks' = (asks \ {f}) \cup {g},
         f.pc = "done", g.pc = "failed", dark' = TRUE,
         g.op = f.op, g.of = f.of, g.arg = f.arg, g.life = f.life,
         crossed' = crossed,
         retriable' = retriable, registry' = registry, rows' = rows, dlg' = dlg,
         fetches' = fetches, askedOf' = askedOf, switched' = switched
  PROVE  PanelInv'
<1>1. PanelTypes /\ CallsAlone /\ DeletesKnown
  BY DEF PanelInv
<1>2. PanelAsk(g) /\ \A h : PanelAsk(h)' <=> PanelAsk(h)
  BY <1>1 DEF PanelAsk, PanelTypes
<1>3. PanelTypes'
  BY <1>1, <1>2 DEF PanelTypes, PanelAsk
<1>4. CallsAlone'
  BY <1>1 DEF CallsAlone
<1>5. GoneKnown' /\ RowsFresh' /\ ForcedFresh'
  BY DEF GoneKnown, RowsFresh, ForcedFresh
<1>6. DeletesKnown'
  BY <1>1 DEF DeletesKnown
<1> QED BY <1>3, <1>4, <1>5, <1>6 DEF PanelInv

(* The server acts.                                                        *)
LEMMA ServedKeeps ==
  ASSUME PanelInv, NEW f \in asks, NEW g, asks' = (asks \ {f}) \cup {g},
         f.pc \in {"sent", "read"}, g.pc = "done",
         g.op = f.op, g.of = f.of, g.arg = f.arg, g.life = f.life,
         NEW r \in LinkRow, registry' = [registry EXCEPT ![f.of] = r],
         r.there = (f.op # "delete") /\ registry[f.of].there,
         IF f.op = "force" THEN r.mode = f.arg
         ELSE r.mode = registry[f.of].mode \/ f.of \in crossed,
         registry[f.of].there,
         crossed' = crossed, retriable' = retriable, rows' = rows, dlg' = dlg,
         fetches' = fetches, askedOf' = askedOf, switched' = switched, dark' = dark
  PROVE  PanelInv'
<1>1. PanelTypes /\ CallsAlone /\ GoneKnown /\ RowsFresh /\ ForcedFresh /\ DeletesKnown
  BY DEF PanelInv
<1>2. PanelAsk(f) /\ PanelAsk(g) /\ \A h : PanelAsk(h)' <=> PanelAsk(h)
  BY <1>1 DEF PanelAsk, PanelTypes
<1>3. /\ registry' \in [Linked -> LinkRow] /\ registry'[f.of] = r /\ f.of \in Linked
      /\ \A c \in Linked \ {f.of} : registry'[c] = registry[c]
  BY <1>1, <1>2 DEF PanelTypes, PanelAsk
<1>4. PanelTypes'
  BY <1>1, <1>2, <1>3 DEF PanelTypes, PanelAsk
<1>5. CallsAlone'
  <2>1. \A h, k \in asks' : h.of = k.of /\ h # k => h.of \in crossed
    BY <1>1 DEF CallsAlone
  <2>2. \A h \in asks' : h.of \notin crossed /\ h # g => h.of # f.of
    BY <1>1 DEF CallsAlone
  <2>3. \A h \in asks \ {f} : h.of \in Linked
    BY <1>1 DEF PanelTypes, PanelAsk
  <2> QED BY <1>1, <1>3, <2>1, <2>2, <2>3 DEF CallsAlone
<1>6. DeleteDone' <=> DeleteDone \/ f.op = "delete"
  BY DEF DeleteDone
<1>7. \A c : ForceDone(c)' <=> ForceDone(c) \/ (c = f.of /\ f.op = "force")
  BY DEF ForceDone
<1>8. ~DeleteDone' => \A c \in Linked : registry'[c].there = registry[c].there
  BY <1>3, <1>6
<1>9. \A c \in Linked : c \notin crossed /\ ~ForceDone(c)' => registry'[c].mode = registry[c].mode
  BY <1>3, <1>7
<1>10. GoneKnown'
  <2> SUFFICES ASSUME ~dark, ~DeleteDone', NEW c \in Linked, ~registry'[c].there
               PROVE  /\ ~rows[c].there /\ dlg.of # c
                      /\ \A h \in asks' : h.of = c /\ h.pc = "done"
                           => dlg.of = NoLink \/ h.life < dlg.life
    BY DEF GoneKnown
  <2>1. ~registry[c].there /\ c # f.of /\ ~DeleteDone
    BY <1>6, <1>8
  <2> QED BY <1>1, <2>1 DEF GoneKnown
<1>11. RowsFresh'
  BY <1>1, <1>6, <1>7, <1>9 DEF RowsFresh
<1>12. ForcedFresh'
  <2>1. dlg.of \in Linked \cup {NoLink} /\ fetches \subseteq Linked
    BY <1>1 DEF PanelTypes, Dialog
  <2> QED BY <1>1, <1>6, <1>7, <1>8, <1>9, <2>1 DEF ForcedFresh
<1>13. DeletesKnown'
  BY <1>1, <1>3 DEF DeletesKnown
<1> QED BY <1>4, <1>5, <1>10, <1>11, <1>12, <1>13 DEF PanelInv

(* A panel is mounted: with nothing of what an earlier one was told.       *)
LEMMA PanelOnDialog ==
  ASSUME dlg \in Dialog, NEW c \in Linked, NEW row \in LinkRow
  PROVE  /\ PanelOn(c, row) \in Dialog /\ PanelOn(c, row).of = c /\ PanelOn(c, row).row = row
         /\ PanelOn(c, row).life = dlg.life + 1 /\ PanelOn(c, row).forced = "none"
         /\ PanelOn(c, row).asks = {}
<1>0. dlg.life \in Nat
  BY DEF Dialog
<1>1. dlg.life + 1 \in Nat /\ row.test \in BOOLEAN /\ {} \in SUBSET ConfirmKinds
  <2>1. row.test \in BOOLEAN
    BY DEF LinkRow
  <2>2. dlg.life + 1 \in Nat
    BY <1>0
  <2>3. {} \in SUBSET ConfirmKinds
    OBVIOUS
  <2> QED BY <2>1, <2>2, <2>3
<1> DEFINE life == dlg.life + 1
           ran  == row.test
<1>2. PanelOn(c, row) = [of |-> c, row |-> row, life |-> life, forced |-> "none", test |-> ran,
                         asks |-> {}]
  BY DEF PanelOn
<1>3. life \in Nat /\ ran \in BOOLEAN
  BY <1>1
<1> HIDE DEF life, ran
<1>4. /\ PanelOn(c, row).of = c /\ PanelOn(c, row).row = row
      /\ PanelOn(c, row).life = life /\ PanelOn(c, row).forced = "none"
      /\ PanelOn(c, row).asks = {}
  BY <1>2
<1>5. PanelOn(c, row) \in Dialog
  <2>1. c \in Linked \cup {NoLink} /\ "none" \in LinkModes \cup {"none"}
    OBVIOUS
  <2> QED BY <1>1, <1>2, <1>3, <2>1 DEF Dialog
<1> QED BY <1>4, <1>5 DEF life

LEMMA RerenderedDialog ==
  ASSUME dlg \in Dialog, NEW c \in Linked, NEW row \in LinkRow
  PROVE  /\ Rerendered(c, row) \in Dialog /\ Rerendered(c, row).of = c
         /\ Rerendered(c, row).row = row /\ Rerendered(c, row).life = dlg.life
         /\ Rerendered(c, row).forced = IF c = dlg.of THEN dlg.forced ELSE "none"
         /\ Rerendered(c, row).asks = dlg.asks
BY DEF Rerendered, Dialog, LinkRow

LEMMA SelectLinkKeeps ==
  ASSUME PanelInv, NEW c \in Linked, SelectLink(c), dark' = dark
  PROVE  PanelInv'
<1>1. PanelTypes /\ CallsAlone /\ GoneKnown /\ RowsFresh /\ ForcedFresh /\ DeletesKnown
  BY DEF PanelInv
<1>2. /\ rows' \in {rows, registry} /\ rows'[c].there /\ registry' = registry
      /\ fetches' = fetches /\ askedOf' = askedOf /\ crossed' = crossed /\ switched' = switched
      /\ asks' = asks /\ retriable' = retriable /\ dlg.of = NoLink
  BY DEF SelectLink
<1>3. PICK row \in LinkRow : row = rows'[c] /\ dlg' = PanelOn(c, row)
  BY <1>1, <1>2 DEF SelectLink, PanelTypes
<1>4. /\ dlg' \in Dialog /\ dlg'.of = c /\ dlg'.row = row /\ dlg'.life = dlg.life + 1
      /\ dlg'.forced = "none" /\ dlg'.asks = {}
  BY <1>1, <1>3, PanelOnDialog DEF PanelTypes
<1>5. dlg.life \in Nat /\ \A f \in asks \cup retriable : f.life \in Nat /\ f.life <= dlg.life
  BY <1>1 DEF PanelTypes, PanelAsk, Dialog
<1>6. PanelTypes'
  <2>1. \A f \in asks \cup retriable : PanelAsk(f)'
    BY <1>1, <1>4, <1>5 DEF PanelTypes, PanelAsk
  <2> QED BY <1>1, <1>2, <1>4, <2>1 DEF PanelTypes
<1>7. CallsAlone'
  BY <1>1, <1>2 DEF CallsAlone
<1>8. (DeleteDone' <=> DeleteDone) /\ \A k : ForceDone(k)' <=> ForceDone(k)
  BY <1>2 DEF DeleteDone, ForceDone
<1>9. GoneKnown'
  BY <1>1, <1>2, <1>4, <1>5, <1>8 DEF GoneKnown
<1>10. RowsFresh'
  BY <1>1, <1>2, <1>3, <1>4, <1>8 DEF RowsFresh
<1>11. ForcedFresh' /\ DeletesKnown'
  BY <1>1, <1>2, <1>4 DEF ForcedFresh, DeletesKnown
<1> QED BY <1>6, <1>7, <1>9, <1>10, <1>11 DEF PanelInv

(* The dialog is closed, or a confirmation in it is opened or closed.      *)
LEMMA DialogKeeps ==
  ASSUME PanelInv, dlg' \in Dialog, dlg'.of \in {dlg.of, NoLink}, dlg'.row = dlg.row,
         dlg'.life = dlg.life, dlg'.forced = dlg.forced, dlg'.asks # {} => dlg'.of # NoLink,
         "delete" \in dlg'.asks => dlg'.of = dlg.of /\ ("delete" \in dlg.asks \/ dlg.of \in askedOf'),
         askedOf \subseteq askedOf', asks' \subseteq asks, \A f \in asks \ asks' : f.pc # "done",
         \A t \in retriable' : PanelAsk(t) /\ (t.op = "delete" => t.of \in askedOf \/ switched),
         registry' = registry, rows' = rows, fetches' = fetches, crossed' = crossed,
         switched' = switched, dark' = dark
  PROVE  PanelInv'
<1>1. PanelTypes /\ CallsAlone /\ GoneKnown /\ RowsFresh /\ ForcedFresh /\ DeletesKnown
  BY DEF PanelInv
<1>2. \A f : PanelAsk(f)' <=> PanelAsk(f)
  BY DEF PanelAsk
<1>3. PanelTypes'
  BY <1>1, <1>2 DEF PanelTypes
<1>4. CallsAlone'
  BY <1>1 DEF CallsAlone
<1>5. (DeleteDone' <=> DeleteDone) /\ \A k : ForceDone(k)' <=> ForceDone(k)
  BY DEF DeleteDone, ForceDone
<1>6. NoLink \notin Linked
  BY LinksAssumption
<1>7. GoneKnown' /\ RowsFresh'
  BY <1>1, <1>5, <1>6 DEF GoneKnown, RowsFresh
<1>8. ForcedFresh'
  BY <1>1, <1>5 DEF ForcedFresh
<1>9. DeletesKnown'
  BY <1>1 DEF DeletesKnown
<1> QED BY <1>3, <1>4, <1>7, <1>8, <1>9 DEF PanelInv

LEMMA ListArrivesKeeps ==
  ASSUME PanelInv, NEW c \in Linked, ListArrives(c)
  PROVE  PanelInv'
<1>1. PanelTypes /\ CallsAlone /\ GoneKnown /\ RowsFresh /\ ForcedFresh /\ DeletesKnown
  BY DEF PanelInv
<1>2. /\ c \in fetches /\ fetches' = fetches \ {c} /\ rows' = registry /\ registry' = registry
      /\ askedOf' = askedOf /\ crossed' = crossed /\ asks' = asks /\ retriable' = retriable
      /\ dark' = dark
      /\ switched' = (switched \/ (dlg.of \notin {c, NoLink} /\ dlg.asks # {} /\ registry[c].there))
      /\ dlg' = IF ~registry[c].there THEN dlg
                ELSE IF dlg.of = NoLink THEN PanelOn(c, registry[c]) ELSE Rerendered(c, registry[c])
  BY DEF ListArrives
<1>3. dlg \in Dialog /\ registry \in [Linked -> LinkRow] /\ registry[c] \in LinkRow
  BY <1>1 DEF PanelTypes
<1>4. /\ dlg' \in Dialog /\ dlg.life \in Nat /\ dlg'.life \in Nat /\ dlg.life <= dlg'.life
      /\ dlg.of = NoLink /\ dlg'.of # NoLink => dlg.life < dlg'.life
      /\ \/ ~registry[c].there /\ dlg' = dlg
         \/ /\ registry[c].there /\ dlg'.of = c /\ dlg'.row = registry[c]
            /\ dlg'.forced = "none" \/ (dlg.of = c /\ dlg'.forced = dlg.forced)
            /\ dlg'.asks = {} \/ (dlg'.asks = dlg.asks /\ dlg.of # NoLink)
  <2>1. CASE ~registry[c].there
    BY <1>2, <1>3, <2>1 DEF Dialog
  <2>2. CASE registry[c].there /\ dlg.of = NoLink
    <3>1. dlg' = PanelOn(c, registry[c])
      BY <1>2, <2>2
    <3> QED BY <1>3, <2>2, <3>1, PanelOnDialog DEF Dialog
  <2>3. CASE registry[c].there /\ dlg.of # NoLink
    <3>1. dlg' = Rerendered(c, registry[c])
      BY <1>2, <2>3
    <3> QED BY <1>3, <2>3, <3>1, RerenderedDialog DEF Dialog
  <2> QED BY <2>1, <2>2, <2>3
<1>5. \A f \in asks \cup retriable : f.life \in Nat /\ f.life <= dlg.life
  BY <1>1 DEF PanelTypes, PanelAsk
<1>6. PanelTypes'
  <2>1. \A f \in asks \cup retriable : PanelAsk(f)'
    BY <1>1, <1>4, <1>5 DEF PanelTypes, PanelAsk
  <2>2. dlg'.asks # {} => dlg'.of # NoLink
    BY <1>1, <1>4, LinksAssumption DEF PanelTypes
  <2> QED BY <1>1, <1>2, <1>4, <2>1, <2>2 DEF PanelTypes
<1>7. CallsAlone'
  BY <1>1, <1>2 DEF CallsAlone
<1>8. (DeleteDone' <=> DeleteDone) /\ \A k : ForceDone(k)' <=> ForceDone(k)
  BY <1>2 DEF DeleteDone, ForceDone
<1>9. GoneKnown'
  BY <1>1, <1>2, <1>4, <1>5, <1>8 DEF GoneKnown
<1>10. RowsFresh'
  BY <1>1, <1>2, <1>4, <1>8 DEF RowsFresh, GoneKnown
<1>11. ForcedFresh'
  <2> SUFFICES ASSUME ~dark, ~DeleteDone, dlg'.of # NoLink, dlg'.of \notin crossed,
                      ~ForceDone(dlg'.of)
               PROVE  \/ dlg'.forced \in {"none", registry[dlg'.of].mode}
                      \/ \E e \in fetches' \ {dlg'.of} : registry[e].there
    BY <1>2, <1>8 DEF ForcedFresh
  <2>1. CASE ~registry[c].there /\ dlg' = dlg
    BY <1>1, <1>2, <2>1 DEF ForcedFresh
  <2>2. CASE registry[c].there /\ dlg'.of = c
    BY <1>1, <1>2, <1>4, <2>2 DEF ForcedFresh
  <2> QED BY <1>4, <2>1, <2>2
<1>12. DeletesKnown'
  BY <1>1, <1>2, <1>4 DEF DeletesKnown
<1> QED BY <1>6, <1>7, <1>9, <1>10, <1>11, <1>12 DEF PanelInv

LEMMA HearDoneKeeps ==
  ASSUME PanelInv, NEW f \in asks, HearDone(f)
  PROVE  PanelInv'
<1>1. PanelTypes /\ CallsAlone /\ GoneKnown /\ RowsFresh /\ ForcedFresh /\ DeletesKnown
  BY DEF PanelInv
<1>2. /\ f.pc = "done" /\ asks' = asks \ {f} /\ registry' = registry /\ askedOf' = askedOf
      /\ switched' = switched /\ retriable' = retriable /\ dark' = dark
      /\ crossed' = IF Overlooked(f) THEN crossed \cup {f.of} ELSE crossed
  BY DEF HearDone
<1>3. /\ dlg \in Dialog /\ registry \in [Linked -> LinkRow] /\ f.of \in Linked
      /\ f.life <= dlg.life /\ f.life \in Nat /\ dlg.life \in Nat
      /\ f.op = "force" => f.arg \in LinkModes
  BY <1>1 DEF PanelTypes, PanelAsk, Dialog
<1>4. crossed \subseteq crossed' /\ NoLink \notin Linked
  BY <1>2, LinksAssumption
<1>5. CallsAlone'
  BY <1>1, <1>2, <1>4 DEF CallsAlone
<1>6. CASE f.op = "delete"
  <2>1. dlg' = [dlg EXCEPT !.of = NoLink, !.asks = {}] /\ rows' = registry /\ fetches' = fetches
    BY <1>6 DEF HearDone
  <2>2. /\ dlg' \in Dialog /\ dlg'.of = NoLink /\ dlg'.asks = {} /\ dlg'.life = dlg.life
    BY <1>3, <2>1 DEF Dialog
  <2>3. PanelTypes'
    <3>1. \A h : PanelAsk(h)' <=> PanelAsk(h)
      BY <2>2 DEF PanelAsk
    <3> QED BY <1>1, <1>2, <2>1, <2>2, <3>1 DEF PanelTypes
  <2>4. GoneKnown' /\ RowsFresh' /\ ForcedFresh'
    BY <1>2, <1>4, <2>1, <2>2 DEF GoneKnown, RowsFresh, ForcedFresh
  <2>5. DeletesKnown'
    BY <1>1, <1>2, <2>2 DEF DeletesKnown
  <2> QED BY <1>5, <2>3, <2>4, <2>5 DEF PanelInv
<1>7. CASE f.op # "delete"
  <2>1. /\ rows' = rows /\ fetches' = fetches \cup {f.of}
        /\ dlg' = IF ~Mine2(f) THEN dlg
                  ELSE [dlg EXCEPT !.forced = ForcedAfter(f),
                          !.test = IF f.op = "test" THEN registry[f.of].test ELSE @,
                          !.asks = @ \ {f.op}]
    BY <1>7 DEF HearDone
  <2>2. /\ dlg' \in Dialog /\ dlg'.of = dlg.of /\ dlg'.row = dlg.row /\ dlg'.life = dlg.life
        /\ dlg'.asks \subseteq dlg.asks
        /\ dlg'.forced = IF Mine2(f) THEN ForcedAfter(f) ELSE dlg.forced
    <3>1. CASE ~Mine2(f)
      BY <1>3, <2>1, <3>1
    <3>2. CASE Mine2(f)
      <4>1. registry[f.of].test \in BOOLEAN /\ ForcedAfter(f) \in LinkModes \cup {"none"}
        BY <1>3 DEF LinkRow, ForcedAfter, Dialog
      <4> QED BY <1>3, <2>1, <3>2, <4>1 DEF Dialog
    <3> QED BY <3>1, <3>2
  <2>3. PanelTypes'
    <3>1. \A h : PanelAsk(h)' <=> PanelAsk(h)
      BY <2>2 DEF PanelAsk
    <3> QED BY <1>1, <1>2, <1>3, <2>1, <2>2, <3>1 DEF PanelTypes
  <2>4. DeleteDone' <=> DeleteDone
    BY <1>2, <1>7 DEF DeleteDone
  <2>5. \A c : ForceDone(c) => ForceDone(c)' \/ (c = f.of /\ f.op = "force")
    BY <1>2 DEF ForceDone
  <2>6. GoneKnown'
    BY <1>1, <1>2, <2>1, <2>2, <2>4 DEF GoneKnown
  <2>7. RowsFresh'
    BY <1>1, <1>2, <1>4, <2>1, <2>2, <2>4, <2>5 DEF RowsFresh
  <2>8. ForcedFresh'
    <3> SUFFICES ASSUME ~dark, ~DeleteDone, dlg.of # NoLink, dlg.of \notin crossed',
                        ~ForceDone(dlg.of)'
                 PROVE  \/ dlg'.forced \in {"none", registry[dlg.of].mode}
                        \/ \E e \in fetches' \ {dlg.of} : registry[e].there
      BY <1>2, <2>2, <2>4 DEF ForcedFresh
    <3>1. CASE f.op # "force" \/ (~Mine2(f) /\ f.of # dlg.of)
      <4>1. dlg'.forced = dlg.forced /\ ~ForceDone(dlg.of)
        BY <2>2, <2>5, <3>1 DEF ForcedAfter
      <4> QED BY <1>1, <1>4, <2>1, <4>1 DEF ForcedFresh
    <3>2. CASE f.op = "force" /\ Mine2(f) /\ f.of = dlg.of
      BY <1>1, <1>2, <1>4, <2>2, <3>2 DEF ForcedAfter, CallsAlone
    <3>3. CASE f.op = "force" /\ Mine2(f) /\ f.of # dlg.of
      <4>1. registry[f.of].there
        BY <1>1, <1>2, <1>3, <3>3 DEF GoneKnown, Mine2
      <4> QED BY <2>1, <3>3, <4>1
    <3>4. CASE f.op = "force" /\ ~Mine2(f) /\ f.of = dlg.of
      <4>1. f.life # dlg.life /\ dlg'.forced = dlg.forced
        BY <2>2, <3>4 DEF Mine2
      <4>2. ~Overlooked(f)
        BY <1>2, <3>4
      <4> QED BY <3>4, <4>1, <4>2 DEF Overlooked
    <3> QED BY <3>1, <3>2, <3>3, <3>4
  <2>9. DeletesKnown'
    BY <1>1, <1>2, <2>2 DEF DeletesKnown
  <2> QED BY <1>5, <2>3, <2>6, <2>7, <2>8, <2>9 DEF PanelInv
<1> QED BY <1>6, <1>7

(* What AskFor sends.                                                      *)
AskCall(n, op, c, arg, life) ==
  [n |-> n, op |-> op, of |-> c, arg |-> arg, life |-> life, pc |-> "sent", saw |-> <<>>]

LEMMA CallParts ==
  ASSUME NEW n, NEW op, NEW c, NEW arg, NEW life
  PROVE  LET f == AskCall(n, op, c, arg, life)
         IN  f.op = op /\ f.of = c /\ f.arg = arg /\ f.life = life /\ f.pc = "sent"
BY DEF AskCall

LEMMA AskPanelKeeps ==
  ASSUME PanelInv, NEW op \in PanelOps, NEW c \in Linked, NEW arg, NEW life \in Nat,
         life <= dlg.life, AskPanel(op, c, arg, life),
         op = "force" => arg \in LinkModes, op = "save" => arg \in Nat,
         op = "delete" => c \in askedOf \/ switched,
         retriable' \subseteq retriable, registry' = registry, rows' = rows, dlg' = dlg,
         fetches' = fetches, askedOf' = askedOf, switched' = switched, dark' = dark
  PROVE  PanelInv'
<1>1. PICK f : f = AskCall(asksMade, op, c, arg, life)
  OBVIOUS
<1>2. f.op = op /\ f.of = c /\ f.arg = arg /\ f.life = life /\ f.pc = "sent"
  BY <1>1, CallParts
<1>3. asks' = asks \cup {f}
  BY <1>1 DEF AskPanel, AskFor, AskCall
<1>4. crossed' = IF \E g \in asks : g.of = f.of THEN crossed \cup {f.of} ELSE crossed
  BY <1>2 DEF AskPanel
<1>5. PanelAsk(f)
  BY <1>2 DEF PanelAsk
<1> QED BY <1>2, <1>3, <1>4, <1>5, AskedKeeps

LEMMA PressPanelKeeps == PanelInv /\ PressPanel /\ dark' = dark => PanelInv'
<1> SUFFICES ASSUME PanelInv, PressPanel, dark' = dark PROVE PanelInv'
  OBVIOUS
<1>1. /\ dlg.of # NoLink /\ registry' = registry /\ rows' = rows /\ dlg' = dlg
      /\ fetches' = fetches /\ askedOf' = askedOf /\ switched' = switched
      /\ retriable' = retriable
  BY DEF PressPanel
<1>2. dlg.of \in Linked /\ dlg.life \in Nat /\ dlg.life <= dlg.life
  <2>1. dlg \in Dialog
    BY DEF PanelInv, PanelTypes
  <2>2. dlg.life \in Nat /\ dlg.of \in Linked
    BY <1>1, <2>1 DEF Dialog
  <2> QED BY <2>2
<1>3. PICK op, arg :
        /\ op \in {"force", "save"}
        /\ AskPanel(op, dlg.of, arg, dlg.life)
        /\ op = "force" => arg \in LinkModes
        /\ op = "save" => arg \in Nat
  BY DEF PressPanel, LinkModes
<1> QED BY <1>1, <1>2, <1>3, AskPanelKeeps DEF PanelOps

LEMMA ConfirmAskedKeeps ==
  ASSUME PanelInv, NEW what \in ConfirmKinds, ConfirmAsked(what), dark' = dark
  PROVE  PanelInv'
<1>1. /\ what \in dlg.asks /\ AskPanel(what, dlg.of, "none", dlg.life)
      /\ registry' = registry /\ rows' = rows /\ dlg' = dlg
      /\ fetches' = fetches /\ askedOf' = askedOf /\ switched' = switched
      /\ retriable' = retriable
  BY DEF ConfirmAsked
<1>2. /\ dlg.of \in Linked /\ dlg.life \in Nat /\ dlg.life <= dlg.life
      /\ what = "delete" => dlg.of \in askedOf \/ switched
  <2>1. dlg \in Dialog /\ dlg.of # NoLink /\ DeletesKnown
    BY <1>1 DEF PanelInv, PanelTypes
  <2>2. dlg.life \in Nat /\ dlg.of \in Linked
    BY <2>1 DEF Dialog
  <2> QED BY <1>1, <2>1, <2>2 DEF DeletesKnown
<1>3. what \in PanelOps /\ what # "force" /\ what # "save"
  BY DEF PanelOps, ConfirmKinds
<1> QED BY <1>1, <1>2, <1>3, AskPanelKeeps

(* The parts of the dialog that closing it and confirming in it change.    *)
LEMMA DialogParts ==
  ASSUME dlg \in Dialog, NEW of \in Linked \cup {NoLink}, NEW ran \in BOOLEAN,
         NEW kinds \in SUBSET ConfirmKinds
  PROVE  LET d == [dlg EXCEPT !.of = of, !.test = ran, !.asks = kinds]
         IN  /\ d \in Dialog /\ d.of = of /\ d.row = dlg.row /\ d.life = dlg.life
             /\ d.forced = dlg.forced /\ d.asks = kinds
BY DEF Dialog

LEMMA CloseLinkKeeps == PanelInv /\ CloseLink /\ dark' = dark => PanelInv'
<1> SUFFICES ASSUME PanelInv, CloseLink, dark' = dark PROVE PanelInv'
  OBVIOUS
<1>1. /\ dlg.asks = {} /\ dlg' = [dlg EXCEPT !.of = NoLink]
      /\ registry' = registry /\ rows' = rows /\ fetches' = fetches /\ askedOf' = askedOf
      /\ crossed' = crossed /\ switched' = switched /\ asks' = asks /\ retriable' = retriable
  BY DEF CloseLink
<1>2. dlg \in Dialog /\ DeletesKnown /\ \A t \in retriable : PanelAsk(t)
  BY DEF PanelInv, PanelTypes
<1>3. /\ dlg' \in Dialog /\ dlg'.of = NoLink /\ dlg'.row = dlg.row /\ dlg'.life = dlg.life
      /\ dlg'.forced = dlg.forced /\ dlg'.asks = {}
  BY <1>1, <1>2 DEF Dialog
<1>4. \A t \in retriable' : PanelAsk(t) /\ (t.op = "delete" => t.of \in askedOf \/ switched)
  BY <1>1, <1>2 DEF DeletesKnown
<1>5. asks' \subseteq asks /\ asks \ asks' = {} /\ askedOf \subseteq askedOf'
  BY <1>1
<1> QED BY <1>1, <1>3, <1>4, <1>5, DialogKeeps

LEMMA OpenConfirmKeeps ==
  ASSUME PanelInv, NEW what \in ConfirmKinds, OpenConfirm(what), dark' = dark
  PROVE  PanelInv'
<1>1. /\ dlg.of # NoLink /\ dlg' = [dlg EXCEPT !.asks = {what}]
      /\ registry' = registry /\ rows' = rows /\ fetches' = fetches
      /\ askedOf' = IF what = "delete" THEN askedOf \cup {dlg.of} ELSE askedOf
      /\ crossed' = crossed /\ switched' = switched /\ asks' = asks /\ retriable' = retriable
  BY DEF OpenConfirm
<1>2. dlg \in Dialog /\ DeletesKnown /\ \A t \in retriable : PanelAsk(t)
  BY DEF PanelInv, PanelTypes
<1>3. /\ dlg' \in Dialog /\ dlg'.of = dlg.of /\ dlg'.row = dlg.row /\ dlg'.life = dlg.life
      /\ dlg'.forced = dlg.forced /\ dlg'.asks = {what}
  BY <1>1, <1>2 DEF Dialog
<1>4. \A t \in retriable' : PanelAsk(t) /\ (t.op = "delete" => t.of \in askedOf \/ switched)
  BY <1>1, <1>2 DEF DeletesKnown
<1>5. asks' \subseteq asks /\ asks \ asks' = {} /\ askedOf \subseteq askedOf'
  BY <1>1
<1>6. "delete" \in dlg'.asks => dlg.of \in askedOf'
  BY <1>1, <1>3
<1> QED BY <1>1, <1>3, <1>4, <1>5, <1>6, DialogKeeps

LEMMA CancelConfirmKeeps ==
  ASSUME PanelInv, NEW what \in ConfirmKinds, CancelConfirm(what), dark' = dark
  PROVE  PanelInv'
<1>1. /\ dlg' = [dlg EXCEPT !.asks = @ \ {what}]
      /\ registry' = registry /\ rows' = rows /\ fetches' = fetches /\ askedOf' = askedOf
      /\ crossed' = crossed /\ switched' = switched /\ asks' = asks /\ retriable' = retriable
  BY DEF CancelConfirm
<1>2. /\ dlg \in Dialog /\ DeletesKnown /\ \A t \in retriable : PanelAsk(t)
      /\ dlg.asks # {} => dlg.of # NoLink
  BY DEF PanelInv, PanelTypes
<1>3. /\ dlg' \in Dialog /\ dlg'.of = dlg.of /\ dlg'.row = dlg.row /\ dlg'.life = dlg.life
      /\ dlg'.forced = dlg.forced /\ dlg'.asks = dlg.asks \ {what}
  BY <1>1, <1>2 DEF Dialog
<1>4. \A t \in retriable' : PanelAsk(t) /\ (t.op = "delete" => t.of \in askedOf \/ switched)
  BY <1>1, <1>2 DEF DeletesKnown
<1>5. asks' \subseteq asks /\ asks \ asks' = {} /\ askedOf \subseteq askedOf'
  BY <1>1
<1>6. ("delete" \in dlg'.asks => "delete" \in dlg.asks) /\ (dlg'.asks # {} => dlg'.of # NoLink)
  BY <1>2, <1>3
<1> QED BY <1>1, <1>3, <1>4, <1>5, <1>6, DialogKeeps

LEMMA HearFailedKeeps ==
  ASSUME PanelInv, NEW f \in asks, HearFailed(f)
  PROVE  PanelInv'
<1>1. PICK t : t = [op |-> f.op, of |-> f.of, arg |-> f.arg, life |-> f.life]
  OBVIOUS
<1>2. t.op = f.op /\ t.of = f.of /\ t.arg = f.arg /\ t.life = f.life
  BY <1>1
<1>3. /\ f.pc = "failed" /\ asks' = asks \ {f} /\ retriable' = retriable \cup {t}
      /\ dlg' = IF Mine2(f) /\ f.op = "test"
                  THEN [dlg EXCEPT !.test = FALSE, !.asks = @ \ {"test"}] ELSE dlg
      /\ registry' = registry /\ rows' = rows /\ fetches' = fetches /\ askedOf' = askedOf
      /\ crossed' = crossed /\ switched' = switched /\ dark' = dark
  BY <1>1 DEF HearFailed, Fails2
<1>4. /\ dlg \in Dialog /\ DeletesKnown /\ \A k \in retriable : PanelAsk(k)
      /\ PanelAsk(f) /\ (dlg.asks # {} => dlg.of # NoLink)
  BY DEF PanelInv, PanelTypes
<1>5. /\ dlg' \in Dialog /\ dlg'.of = dlg.of /\ dlg'.row = dlg.row /\ dlg'.life = dlg.life
      /\ dlg'.forced = dlg.forced /\ dlg'.asks \subseteq dlg.asks
  <2>1. CASE dlg' = dlg
    BY <1>4, <2>1
  <2>2. CASE dlg' = [dlg EXCEPT !.test = FALSE, !.asks = @ \ {"test"}]
    BY <1>4, <2>2 DEF Dialog
  <2> QED BY <1>3, <2>1, <2>2
<1>6. \A k \in retriable' : PanelAsk(k) /\ (k.op = "delete" => k.of \in askedOf \/ switched)
  <2>1. PanelAsk(t)
    BY <1>2, <1>4 DEF PanelAsk
  <2>2. t.op = "delete" => t.of \in askedOf \/ switched
    BY <1>2, <1>4 DEF DeletesKnown
  <2> QED BY <1>3, <1>4, <2>1, <2>2 DEF DeletesKnown
<1>7. /\ asks' \subseteq asks /\ askedOf \subseteq askedOf'
      /\ \A k \in asks \ asks' : k.pc # "done"
  BY <1>3
<1>8. /\ "delete" \in dlg'.asks => dlg'.of = dlg.of /\ "delete" \in dlg.asks
      /\ dlg'.asks # {} => dlg'.of # NoLink
  BY <1>4, <1>5
<1> QED BY <1>3, <1>5, <1>6, <1>7, <1>8, DialogKeeps

LEMMA RetryPanelKeeps == PanelInv /\ RetryPanel => PanelInv'
<1> SUFFICES ASSUME PanelInv, RetryPanel PROVE PanelInv'
  OBVIOUS
<1>1. PICK t \in retriable :
        /\ retriable' = retriable \ {t}
        /\ IF t.op = "test"
             THEN /\ dlg' = IF Mine2(t) THEN [dlg EXCEPT !.asks = @ \cup {"test"}] ELSE dlg
                  /\ UNCHANGED <<asks, asksMade, crossed>>
             ELSE AskPanel(t.op, RetriedOf(t), t.arg, t.life) /\ UNCHANGED dlg
        /\ UNCHANGED <<registry, rows, fetches, askedOf, switched, dark>>
  BY DEF RetryPanel
<1>2. /\ registry' = registry /\ rows' = rows /\ fetches' = fetches /\ askedOf' = askedOf
      /\ switched' = switched /\ dark' = dark
  BY <1>1
<1>3. /\ dlg \in Dialog /\ DeletesKnown /\ \A k \in retriable : PanelAsk(k)
      /\ PanelAsk(t) /\ (dlg.asks # {} => dlg.of # NoLink)
  BY DEF PanelInv, PanelTypes
<1>4. CASE t.op = "test"
  <2>1. /\ dlg' = IF Mine2(t) THEN [dlg EXCEPT !.asks = @ \cup {"test"}] ELSE dlg
        /\ asks' = asks /\ crossed' = crossed /\ retriable' = retriable \ {t}
    BY <1>1, <1>4
  <2>2. /\ dlg' \in Dialog /\ dlg'.of = dlg.of /\ dlg'.row = dlg.row /\ dlg'.life = dlg.life
        /\ dlg'.forced = dlg.forced
        /\ "delete" \in dlg'.asks => "delete" \in dlg.asks
        /\ dlg'.asks # {} => dlg'.of # NoLink
    <3>1. CASE ~Mine2(t)
      BY <1>3, <2>1, <3>1
    <3>2. CASE Mine2(t)
      <4>1. dlg.of # NoLink /\ dlg' = [dlg EXCEPT !.asks = @ \cup {"test"}]
        BY <2>1, <3>2 DEF Mine2
      <4>2. "test" \in ConfirmKinds
        BY DEF ConfirmKinds
      <4> QED BY <1>3, <4>1, <4>2 DEF Dialog
    <3> QED BY <3>1, <3>2
  <2>3. \A k \in retriable' : PanelAsk(k) /\ (k.op = "delete" => k.of \in askedOf \/ switched)
    BY <1>3, <2>1 DEF DeletesKnown
  <2>4. asks' \subseteq asks /\ asks \ asks' = {} /\ askedOf \subseteq askedOf'
    BY <1>2, <2>1
  <2> QED BY <1>2, <2>1, <2>2, <2>3, <2>4, DialogKeeps
<1>5. CASE t.op # "test"
  <2>1. AskPanel(t.op, t.of, t.arg, t.life) /\ dlg' = dlg /\ retriable' \subseteq retriable
    BY <1>1, <1>5 DEF RetriedOf
  <2>2. /\ t.op \in PanelOps /\ t.of \in Linked /\ t.life \in Nat /\ t.life <= dlg.life
        /\ t.op = "force" => t.arg \in LinkModes
        /\ t.op = "save" => t.arg \in Nat
        /\ t.op = "delete" => t.of \in askedOf \/ switched
    BY <1>3 DEF PanelAsk, DeletesKnown
  <2> QED BY <1>2, <2>1, <2>2, AskPanelKeeps
<1> QED BY <1>4, <1>5

(* A call, with its progress changed.                                      *)
LEMMA CallMoved ==
  ASSUME AsksShaped, NEW f \in asks, NEW pc, NEW saw
  PROVE  /\ LET g == [f EXCEPT !.pc = pc, !.saw = saw]
            IN  /\ g.op = f.op /\ g.of = f.of /\ g.arg = f.arg /\ g.life = f.life
                /\ g.pc = pc /\ g.saw = saw
         /\ LET g == [f EXCEPT !.pc = pc]
            IN  /\ g.op = f.op /\ g.of = f.of /\ g.arg = f.arg /\ g.life = f.life
                /\ g.pc = pc /\ g.saw = f.saw
BY DEF AsksShaped

LEMMA NotFoundKeeps ==
  ASSUME PanelInv, AsksShaped, NEW f \in asks, NotFound(f)
  PROVE  PanelInv'
<1>1. PICK g : g = [f EXCEPT !.pc = "failed"]
  OBVIOUS
<1>2. g.op = f.op /\ g.of = f.of /\ g.arg = f.arg /\ g.life = f.life /\ g.pc = "failed"
  BY <1>1, CallMoved
<1>3. /\ f.pc # "done" /\ asks' = (asks \ {f}) \cup {g}
      /\ crossed' = crossed /\ retriable' = retriable /\ registry' = registry /\ rows' = rows
      /\ dlg' = dlg /\ fetches' = fetches /\ askedOf' = askedOf /\ switched' = switched
      /\ dark' = dark
  BY <1>1 DEF NotFound, Becomes, panelSide
<1> QED BY <1>2, <1>3, TurnedKeeps

LEMMA AskLostKeeps ==
  ASSUME PanelInv, AsksShaped, NEW f \in asks, AskLost(f)
  PROVE  PanelInv'
<1>1. PICK g : g = [f EXCEPT !.pc = "failed"]
  OBVIOUS
<1>2. g.op = f.op /\ g.of = f.of /\ g.arg = f.arg /\ g.life = f.life /\ g.pc = "failed"
  BY <1>1, CallMoved
<1>3. /\ asks' = (asks \ {f}) \cup {g} /\ dark' = (dark \/ f.pc = "done")
      /\ crossed' = crossed /\ retriable' = retriable /\ registry' = registry /\ rows' = rows
      /\ dlg' = dlg /\ fetches' = fetches /\ askedOf' = askedOf /\ switched' = switched
  BY <1>1 DEF AskLost, Becomes, panelSide
<1>4. CASE f.pc = "done"
  BY <1>2, <1>3, <1>4, LostKeeps
<1>5. CASE f.pc # "done"
  <2>1. dark \in BOOLEAN
    BY DEF PanelInv, PanelTypes
  <2>2. dark' = dark
    BY <1>3, <1>5, <2>1
  <2> QED BY <1>2, <1>3, <1>5, <2>2, TurnedKeeps
<1> QED BY <1>4, <1>5

LEMMA ServeLinkKeeps ==
  ASSUME PanelInv, AsksShaped, NEW f \in asks, ServeLink(f)
  PROVE  PanelInv'
<1>1. /\ registry[f.of].there /\ rows' = rows /\ dlg' = dlg /\ fetches' = fetches
      /\ askedOf' = askedOf /\ crossed' = crossed /\ switched' = switched
      /\ retriable' = retriable /\ dark' = dark
  BY DEF ServeLink
<1>2. /\ registry \in [Linked -> LinkRow] /\ PanelAsk(f) /\ CallsAlone
      /\ f.pc = "read" => f.saw[1] \in LinkRow /\ f.op \in {"save", "reset"}
  BY DEF PanelInv, PanelTypes
<1>3. /\ f.of \in Linked /\ f.op \in PanelOps /\ registry[f.of] \in LinkRow
      /\ f.op = "force" => f.arg \in LinkModes
      /\ f.op = "save" => f.arg \in Nat
  BY <1>2 DEF PanelAsk
<1>4. CASE f.pc = "sent" /\ WritesBack(f) /\ registry' = registry
           /\ Becomes(f, [f EXCEPT !.pc = "read", !.saw = <<registry[f.of]>>])
  <2>1. PICK g : g = [f EXCEPT !.pc = "read", !.saw = <<registry[f.of]>>]
    OBVIOUS
  <2>2. /\ g.op = f.op /\ g.of = f.of /\ g.arg = f.arg /\ g.life = f.life
        /\ g.pc = "read" /\ g.saw = <<registry[f.of]>>
    BY <2>1, CallMoved
  <2>3. asks' = (asks \ {f}) \cup {g} /\ g.saw[1] = registry[f.of]
    BY <1>4, <2>1, <2>2 DEF Becomes
  <2>4. f.op \in {"save", "reset"} /\ f.pc # "done"
    BY <1>4 DEF WritesBack
  <2> QED BY <1>1, <1>4, <2>2, <2>3, <2>4, TurnedKeeps
<1>5. CASE f.pc = "sent" /\ Becomes(f, [f EXCEPT !.pc = "done"])
           /\ \E r \in Patched(f, registry[f.of]) : registry' = [registry EXCEPT ![f.of] = r]
  <2>1. PICK r \in Patched(f, registry[f.of]) : registry' = [registry EXCEPT ![f.of] = r]
    BY <1>5
  <2>2. PICK g : g = [f EXCEPT !.pc = "done"]
    OBVIOUS
  <2>3. /\ g.op = f.op /\ g.of = f.of /\ g.arg = f.arg /\ g.life = f.life /\ g.pc = "done"
    BY <2>2, CallMoved
  <2>4. /\ r \in LinkRow /\ r.there = (f.op # "delete")
        /\ IF f.op = "force" THEN r.mode = f.arg ELSE r.mode = registry[f.of].mode
    <3>1. registry[f.of] \in LinkRow /\ registry[f.of].there
      BY <1>1, <1>3
    <3>2. CASE f.op = "force"
      BY <1>3, <2>1, <3>1, <3>2 DEF Patched, LinkRow
    <3>3. CASE f.op = "save"
      BY <1>3, <2>1, <3>1, <3>3 DEF Patched, LinkRow
    <3>4. CASE f.op = "reset"
      BY <2>1, <3>1, <3>4 DEF Patched, LinkRow
    <3>5. CASE f.op = "test"
      BY <2>1, <3>1, <3>5 DEF Patched, LinkRow
    <3>6. CASE f.op = "delete"
      BY <2>1, <3>1, <3>6 DEF Patched, LinkRow
    <3> QED BY <1>3, <3>2, <3>3, <3>4, <3>5, <3>6 DEF PanelOps
  <2>5. asks' = (asks \ {f}) \cup {g}
    BY <1>5, <2>2 DEF Becomes
  <2> QED BY <1>1, <1>5, <2>1, <2>3, <2>4, <2>5, ServedKeeps
<1>6. CASE f.pc = "read" /\ Becomes(f, [f EXCEPT !.pc = "done"])
           /\ \E r \in Patched(f, f.saw[1]) :
                registry' = [registry EXCEPT ![f.of].mode = r.mode, ![f.of].days = r.days,
                                             ![f.of].setup = r.setup]
  <2>1. PICK r \in Patched(f, f.saw[1]) :
          registry' = [registry EXCEPT ![f.of].mode = r.mode, ![f.of].days = r.days,
                                       ![f.of].setup = r.setup]
    BY <1>6
  <2>2. PICK g : g = [f EXCEPT !.pc = "done"]
    OBVIOUS
  <2>3. /\ g.op = f.op /\ g.of = f.of /\ g.arg = f.arg /\ g.life = f.life /\ g.pc = "done"
    BY <2>2, CallMoved
  <2>4. r \in LinkRow /\ r.mode = f.saw[1].mode
    <3>1. f.saw[1] \in LinkRow
      BY <1>2, <1>6
    <3>2. CASE f.op = "save"
      BY <1>3, <2>1, <3>1, <3>2 DEF Patched, LinkRow
    <3>3. CASE f.op = "reset"
      BY <2>1, <3>1, <3>3 DEF Patched, LinkRow
    <3> QED BY <1>2, <1>6, <3>2, <3>3
  <2>5. PICK row : row = [registry[f.of] EXCEPT !.mode = r.mode, !.days = r.days,
                                                !.setup = r.setup]
    OBVIOUS
  <2>6. row \in LinkRow /\ row.mode = r.mode /\ row.there = registry[f.of].there
    BY <1>3, <2>4, <2>5 DEF LinkRow
  <2>7. registry' = [registry EXCEPT ![f.of] = row]
    BY <1>2, <1>3, <2>1, <2>5
  <2>8. row.mode = registry[f.of].mode \/ f.of \in crossed
    BY <1>2, <1>6, <2>4, <2>6 DEF CallsAlone
  <2>9. asks' = (asks \ {f}) \cup {g} /\ f.op # "force" /\ f.op # "delete"
    BY <1>2, <1>6, <2>2 DEF Becomes
  <2> QED BY <1>1, <1>6, <2>3, <2>6, <2>7, <2>8, <2>9, ServedKeeps
<1> QED BY <1>4, <1>5, <1>6 DEF ServeLink

LEMMA PanelStep == PanelInv /\ AsksShaped /\ PanelDesk => PanelInv'
<1> SUFFICES ASSUME PanelInv, AsksShaped, PanelDesk PROVE PanelInv'
  OBVIOUS
<1>1. CASE dark' = dark /\ \E c \in Linked : SelectLink(c)
  BY <1>1, SelectLinkKeeps
<1>2. CASE dark' = dark /\ (CloseLink \/ PressPanel)
  BY <1>2, CloseLinkKeeps, PressPanelKeeps
<1>3. CASE dark' = dark /\ \E what \in ConfirmKinds :
                            OpenConfirm(what) \/ CancelConfirm(what) \/ ConfirmAsked(what)
  BY <1>3, OpenConfirmKeeps, CancelConfirmKeeps, ConfirmAskedKeeps
<1>4. CASE \E f \in asks : ServeLink(f) \/ NotFound(f) \/ HearDone(f) \/ HearFailed(f)
  BY <1>4, ServeLinkKeeps, NotFoundKeeps, HearDoneKeeps, HearFailedKeeps
<1>5. CASE RetryPanel \/ \E c \in Linked : ListArrives(c)
  BY <1>5, RetryPanelKeeps, ListArrivesKeeps
<1> QED BY <1>1, <1>2, <1>3, <1>4, <1>5 DEF PanelDesk

(* The other two dialogs: what was pressed is what is made, and nothing is *)
(* asked for a pair that was not on screen.                                *)
CreateFits ==
  /\ \A f \in asks \cup retriable : f.of \in pressed
  /\ linksMade \in Seq(pressed)

BoardFits ==
  /\ board2 = [vertical |-> board2.vertical, email |-> board2.email, listed |-> board2.listed]
  /\ board2.email # "none" => <<board2.email, board2.vertical>> \in pairs
  /\ \A f \in asks : f.op = "add" => f.of \in pairs
  /\ \A t \in retriable : t.op = "add" /\ t.of[1] # "none" => t.of \in pairs
  /\ assigned2 \subseteq pairs
  /\ dark \in BOOLEAN
  /\ ~dark /\ (\A f \in asks : f.pc # "done") => board2.listed = assigned2

LinksInv ==
  /\ AsksShaped
  /\ linkDesk = "panel" => PanelInv
  /\ linkDesk # "panel" => \A c \in Linked : registry[c].there
  /\ IF linkDesk = "create" THEN CreateFits ELSE linksMade = <<>>
  /\ IF linkDesk = "verticals" THEN BoardFits ELSE assigned2 = {}

LEMMA InitLinksInv == LinksInit => LinksInv
<1> SUFFICES ASSUME LinksInit PROVE LinksInv
  OBVIOUS
<1>1. asks = {} /\ retriable = {} /\ linksMade = <<>> /\ pressed = {} /\ assigned2 = {}
      /\ board2 = [vertical |-> "v1", email |-> "none", listed |-> {}] /\ dark = FALSE
      /\ registry = [c \in Linked |-> IF c \in UploadOnly
                                     THEN [NewLink EXCEPT !.mode = "upload", !.days = 0] ELSE NewLink]
  BY DEF LinksInit
<1>2. NewLink.there /\ [NewLink EXCEPT !.mode = "upload", !.days = 0].there
  BY DEF NewLink
<1>3. \A c \in Linked : registry[c].there
  BY <1>1, <1>2
<1>4. CreateFits
  BY <1>1 DEF CreateFits
<1>5. BoardFits
  BY <1>1 DEF BoardFits
<1>6. AsksShaped
  BY <1>1 DEF AsksShaped
<1> QED BY <1>1, <1>3, <1>4, <1>5, <1>6, InitPanelInv DEF LinksInv

(* Every call has its seven parts.                                         *)
Shaped(f) ==
  f = [n |-> f.n, op |-> f.op, of |-> f.of, arg |-> f.arg, life |-> f.life, pc |-> f.pc,
       saw |-> f.saw]

LEMMA ShapedCall ==
  ASSUME NEW n, NEW op, NEW c, NEW arg, NEW life
  PROVE  Shaped([n |-> n, op |-> op, of |-> c, arg |-> arg, life |-> life, pc |-> "sent",
                 saw |-> <<>>])
BY DEF Shaped

LEMMA ShapedMoved ==
  ASSUME NEW f, Shaped(f), NEW pc, NEW seen
  PROVE  Shaped([f EXCEPT !.pc = pc]) /\ Shaped([f EXCEPT !.pc = pc, !.saw = seen])
<1>1. PICK n, op, c, arg, life, p, w :
        f = [n |-> n, op |-> op, of |-> c, arg |-> arg, life |-> life, pc |-> p, saw |-> w]
  BY DEF Shaped
<1>2. [f EXCEPT !.pc = pc]
        = [n |-> n, op |-> op, of |-> c, arg |-> arg, life |-> life, pc |-> pc, saw |-> w]
  BY <1>1
<1>3. [f EXCEPT !.pc = pc, !.saw = seen]
        = [n |-> n, op |-> op, of |-> c, arg |-> arg, life |-> life, pc |-> pc, saw |-> seen]
  <2>1. PICK g : g = [f EXCEPT !.pc = pc]
    OBVIOUS
  <2>2. [g EXCEPT !.saw = seen]
          = [n |-> n, op |-> op, of |-> c, arg |-> arg, life |-> life, pc |-> pc, saw |-> seen]
    <3>1. g = [n |-> n, op |-> op, of |-> c, arg |-> arg, life |-> life, pc |-> pc, saw |-> w]
      BY <1>2, <2>1
    <3> QED BY <3>1
  <2>3. [f EXCEPT !.pc = pc, !.saw = seen] = [g EXCEPT !.saw = seen]
    BY <2>1
  <2> QED BY <2>2, <2>3
<1>4. Shaped([f EXCEPT !.pc = pc])
  BY <1>2 DEF Shaped
<1>5. Shaped([f EXCEPT !.pc = pc, !.saw = seen])
  BY <1>3 DEF Shaped
<1> QED BY <1>4, <1>5

LEMMA ShapedKept ==
  ASSUME AsksShaped, \A f \in asks' : f \in asks \/ Shaped(f)
  PROVE  AsksShaped'
BY DEF AsksShaped, Shaped

LEMMA ShapedStep == AsksShaped /\ LinksNext => AsksShaped'
<1> SUFFICES ASSUME AsksShaped, LinksNext PROVE AsksShaped'
  OBVIOUS
<1>1. \A f \in asks : Shaped(f)
  BY DEF AsksShaped, Shaped
<1>2. ASSUME NEW op, NEW c, NEW arg, NEW life, AskFor(op, c, arg, life, asks)
      PROVE  AsksShaped'
  BY <1>2, ShapedCall, ShapedKept DEF AskFor
<1>3. ASSUME NEW f \in asks, NEW pc, Becomes(f, [f EXCEPT !.pc = pc])
      PROVE  AsksShaped'
  <2>1. PICK g : g = [f EXCEPT !.pc = pc]
    OBVIOUS
  <2>2. Shaped(g) /\ asks' = (asks \ {f}) \cup {g}
    BY <1>1, <1>3, <2>1, ShapedMoved DEF Becomes
  <2> QED BY <2>2, ShapedKept
<1>4. ASSUME asks' \subseteq asks
      PROVE  AsksShaped'
  BY <1>4, ShapedKept
<1>5. ASSUME PanelDesk PROVE AsksShaped'
  <2>1. CASE \E c \in Linked : SelectLink(c) \/ ListArrives(c)
    BY <1>4, <2>1 DEF SelectLink, ListArrives
  <2>2. CASE CloseLink \/ \E what \in ConfirmKinds : OpenConfirm(what) \/ CancelConfirm(what)
    BY <1>4, <2>2 DEF CloseLink, OpenConfirm, CancelConfirm
  <2>3. CASE PressPanel \/ \E what \in ConfirmKinds : ConfirmAsked(what)
    BY <1>2, <2>3 DEF PressPanel, ConfirmAsked, AskPanel
  <2>4. CASE \E f \in asks : ServeLink(f)
    <3>1. PICK f \in asks : ServeLink(f)
      BY <2>4
    <3>2. CASE Becomes(f, [f EXCEPT !.pc = "done"])
      BY <1>3, <3>2
    <3>3. CASE Becomes(f, [f EXCEPT !.pc = "read", !.saw = <<registry[f.of]>>])
      <4>1. PICK g : g = [f EXCEPT !.pc = "read", !.saw = <<registry[f.of]>>]
        OBVIOUS
      <4>2. Shaped(g) /\ asks' = (asks \ {f}) \cup {g}
        BY <1>1, <3>3, <4>1, ShapedMoved DEF Becomes
      <4> QED BY <4>2, ShapedKept
    <3> QED BY <3>1, <3>2, <3>3 DEF ServeLink
  <2>5. CASE \E f \in asks : NotFound(f)
    BY <1>3, <2>5 DEF NotFound
  <2>6. CASE \E f \in asks : HearDone(f) \/ HearFailed(f)
    BY <1>4, <2>6 DEF HearDone, HearFailed
  <2>7. CASE RetryPanel
    BY <1>2, <1>4, <2>7 DEF RetryPanel, AskPanel
  <2> QED BY <1>5, <2>1, <2>2, <2>3, <2>4, <2>5, <2>6, <2>7 DEF PanelDesk
<1>6. ASSUME CreateDesk PROVE AsksShaped'
  <2>1. CASE OpenForm \/ CloseForm \/ CatalogRead \/ FillForm
    BY <1>4, <2>1 DEF OpenForm, CloseForm, CatalogRead, FillForm
  <2>2. CASE SubmitForm \/ RetryCreate
    BY <1>2, <2>2 DEF SubmitForm, RetryCreate
  <2>3. CASE \E f \in asks : ServeCreate(f) \/ HearCreated(f)
    BY <1>3, <1>4, <2>3 DEF ServeCreate, HearCreated
  <2> QED BY <1>6, <2>1, <2>2, <2>3 DEF CreateDesk
<1>7. ASSUME BoardDesk PROVE AsksShaped'
  <2>1. CASE PickBoard
    BY <1>4, <2>1 DEF PickBoard
  <2>2. CASE AssignOrRemove \/ RetryAssign
    BY <1>2, <1>4, <2>2 DEF AssignOrRemove, RetryAssign
  <2>3. CASE \E f \in asks : ServeAssign(f) \/ HearAssigned(f) \/ HearUnassigned(f)
    BY <1>3, <1>4, <2>3 DEF ServeAssign, HearAssigned, HearUnassigned
  <2> QED BY <1>7, <2>1, <2>2, <2>3 DEF BoardDesk
<1>8. ASSUME NEW f \in asks, AskLost(f) PROVE AsksShaped'
  BY <1>3, <1>8 DEF AskLost
<1> QED BY <1>5, <1>6, <1>7, <1>8 DEF LinksNext

LEMMA CreateStep ==
  ASSUME CreateFits, AsksShaped, CreateDesk
  PROVE  CreateFits'
<1>1. /\ \A f \in asks \cup retriable : f.of \in pressed
      /\ linksMade \in Seq(pressed)
  BY DEF CreateFits
<1>2. ASSUME UNCHANGED <<linksMade, pressed>>,
             \A f \in asks' \cup retriable' : \E g \in asks \cup retriable : f.of = g.of
      PROVE  CreateFits'
  BY <1>1, <1>2 DEF CreateFits
<1>3. CASE OpenForm \/ CloseForm \/ CatalogRead \/ FillForm
  <2>1. UNCHANGED <<linksMade, pressed, asks, retriable>>
    BY <1>3 DEF OpenForm, CloseForm, CatalogRead, FillForm
  <2> QED BY <1>2, <2>1
<1>4. CASE SubmitForm
  <2>1. PICK w : w = [system |-> form.system, name |-> form.name]
    OBVIOUS
  <2>2. /\ AskFor("create", w, "none", 0, asks) /\ pressed' = pressed \cup {w}
        /\ linksMade' = linksMade /\ retriable' = retriable
    BY <1>4, <2>1 DEF SubmitForm
  <2>3. \A f \in asks' : f \in asks \/ f.of = w
    BY <2>2 DEF AskFor
  <2>4. linksMade \in Seq(pressed')
    BY <1>1, <2>2, SeqMonotonic
  <2> QED BY <1>1, <2>2, <2>3, <2>4 DEF CreateFits
<1>5. CASE RetryCreate
  <2>1. PICK t \in retriable :
          /\ retriable' = retriable \ {t} /\ AskFor("create", t.of, "none", 0, asks)
          /\ UNCHANGED <<linksMade, pressed>>
    BY <1>5 DEF RetryCreate, RetryOf
  <2>2. \A f \in asks' : f \in asks \/ f.of = t.of
    BY <2>1 DEF AskFor
  <2> QED BY <1>2, <2>1, <2>2
<1>6. ASSUME NEW f \in asks, ServeCreate(f) PROVE CreateFits'
  <2>1. PICK g : g = [f EXCEPT !.pc = "done"]
    OBVIOUS
  <2>2. g.of = f.of
    BY <2>1, CallMoved
  <2>3. /\ asks' = (asks \ {f}) \cup {g} /\ linksMade' = Append(linksMade, f.of)
        /\ pressed' = pressed /\ retriable' = retriable
    BY <1>6, <2>1 DEF ServeCreate, Becomes
  <2>4. f.of \in pressed
    BY <1>1
  <2>5. Append(linksMade, f.of) \in Seq(pressed)
    BY <1>1, <2>4
  <2> QED BY <1>1, <2>2, <2>3, <2>5 DEF CreateFits
<1>7. ASSUME NEW f \in asks, HearCreated(f) PROVE CreateFits'
  <2>1. asks' = asks \ {f} /\ UNCHANGED <<linksMade, pressed>>
    BY <1>7 DEF HearCreated
  <2>2. \A t \in retriable' : t \in retriable \/ t.of = f.of
    BY <1>7 DEF HearCreated, Fails2
  <2> QED BY <1>2, <2>1, <2>2
<1> QED BY <1>3, <1>4, <1>5, <1>6, <1>7 DEF CreateDesk

LEMMA BoardStep ==
  ASSUME BoardFits, AsksShaped, BoardDesk, dark' = dark
  PROVE  BoardFits'
<1>1. /\ board2 = [vertical |-> board2.vertical, email |-> board2.email, listed |-> board2.listed]
      /\ board2.email # "none" => <<board2.email, board2.vertical>> \in pairs
      /\ \A f \in asks : f.op = "add" => f.of \in pairs
      /\ \A t \in retriable : t.op = "add" /\ t.of[1] # "none" => t.of \in pairs
      /\ assigned2 \subseteq pairs
      /\ dark \in BOOLEAN
      /\ ~dark /\ (\A f \in asks : f.pc # "done") => board2.listed = assigned2
  BY DEF BoardFits
<1>2. ASSUME NEW op, NEW c, AskFor(op, c, "none", 0, asks), op = "add" => c \in pairs,
             retriable' \subseteq retriable, UNCHANGED <<board2, assigned2, pairs>>
      PROVE  BoardFits'
  <2>1. PICK f : f = AskCall(asksMade, op, c, "none", 0)
    OBVIOUS
  <2>2. f.op = op /\ f.of = c /\ f.pc = "sent"
    BY <2>1, CallParts
  <2>3. asks' = asks \cup {f}
    BY <1>2, <2>1 DEF AskFor, AskCall
  <2> QED BY <1>1, <1>2, <2>2, <2>3 DEF BoardFits
<1>3. CASE PickBoard
  <2>1. /\ UNCHANGED <<assigned2, asks, retriable>>
        /\ pairs' = pairs \cup (IF board2'.email = "none" THEN {}
                               ELSE {<<board2'.email, board2'.vertical>>})
        /\ \E v : board2' = [board2 EXCEPT !.vertical = v] \/ board2' = [board2 EXCEPT !.email = v]
    BY <1>3 DEF PickBoard
  <2>2. /\ board2' = [vertical |-> board2'.vertical, email |-> board2'.email,
                      listed |-> board2'.listed]
        /\ board2'.listed = board2.listed
    BY <1>1, <2>1
  <2> QED BY <1>1, <2>1, <2>2 DEF BoardFits
<1>4. CASE AssignOrRemove
  <2>1. PICK op, c : AskFor(op, c, "none", 0, asks) /\ (op = "add" => c \in pairs)
    BY <1>1, <1>4 DEF AssignOrRemove
  <2>2. retriable' = retriable /\ UNCHANGED <<board2, assigned2, pairs>>
    BY <1>4 DEF AssignOrRemove, boardSide
  <2> QED BY <1>2, <2>1, <2>2
<1>5. CASE RetryAssign
  <2>1. PICK t \in retriable :
          /\ retriable' = retriable \ {t}
          /\ IF t.op = "add" /\ t.of[1] = "none" THEN UNCHANGED <<asks, asksMade>>
             ELSE AskFor(t.op, t.of, "none", 0, asks)
          /\ UNCHANGED <<board2, assigned2, pairs>>
    BY <1>5 DEF RetryAssign, boardSide
  <2>2. CASE t.op = "add" /\ t.of[1] = "none"
    BY <1>1, <2>1, <2>2 DEF BoardFits
  <2>3. CASE ~(t.op = "add" /\ t.of[1] = "none")
    BY <1>1, <1>2, <2>1, <2>3
  <2> QED BY <2>2, <2>3
<1>6. ASSUME NEW f \in asks, ServeAssign(f) PROVE BoardFits'
  <2>1. PICK g : g = [f EXCEPT !.pc = "done"]
    OBVIOUS
  <2>2. g.op = f.op /\ g.of = f.of /\ g.pc = "done"
    BY <2>1, CallMoved
  <2>3. /\ asks' = (asks \ {f}) \cup {g} /\ UNCHANGED <<board2, pairs, retriable>>
        /\ assigned2' = IF f.op = "add" THEN assigned2 \cup {f.of} ELSE assigned2 \ {f.of}
    BY <1>6, <2>1 DEF ServeAssign, Becomes
  <2> QED BY <1>1, <2>2, <2>3 DEF BoardFits
<1>7. ASSUME NEW f \in asks, HearAssigned(f) PROVE BoardFits'
  <2>1. /\ asks' = asks \ {f} /\ UNCHANGED <<assigned2, pairs, retriable>>
        /\ board2' = [board2 EXCEPT !.listed = assigned2,
                                     !.email = IF f.op = "add" THEN "none" ELSE @]
    BY <1>7 DEF HearAssigned, ReadAgain
  <2>2. /\ board2' = [vertical |-> board2'.vertical, email |-> board2'.email,
                      listed |-> board2'.listed]
        /\ board2'.listed = assigned2 /\ board2'.vertical = board2.vertical
        /\ board2'.email \in {"none", board2.email}
    BY <1>1, <2>1
  <2> QED BY <1>1, <2>1, <2>2 DEF BoardFits
<1>8. ASSUME NEW f \in asks, HearUnassigned(f) PROVE BoardFits'
  <2>1. PICK c : c = AgainWith(f)
    OBVIOUS
  <2>2. PICK t : t = [op |-> f.op, of |-> c, arg |-> f.arg, life |-> f.life]
    OBVIOUS
  <2>3. t.op = f.op /\ t.of = c
    BY <2>2
  <2>4. /\ f.pc = "failed" /\ asks' = asks \ {f} /\ retriable' = retriable \cup {t}
        /\ UNCHANGED <<board2, assigned2, pairs>>
    BY <1>8, <2>1, <2>2 DEF HearUnassigned, Fails2, boardSide, AsksShaped
  <2>5. t.op = "add" /\ t.of[1] # "none" => t.of \in pairs
    BY <1>1, <2>1, <2>3 DEF AgainWith
  <2> QED BY <1>1, <2>4, <2>5 DEF BoardFits
<1> QED BY <1>3, <1>4, <1>5, <1>6, <1>7, <1>8 DEF BoardDesk

LEMMA LinksStep == LinksInv /\ [LinksNext]_linkVars => LinksInv'
<1> SUFFICES ASSUME LinksInv, [LinksNext]_linkVars PROVE LinksInv'
  OBVIOUS
<1>1. /\ AsksShaped
      /\ linkDesk = "panel" => PanelInv
      /\ linkDesk # "panel" => \A c \in Linked : registry[c].there
      /\ IF linkDesk = "create" THEN CreateFits ELSE linksMade = <<>>
      /\ IF linkDesk = "verticals" THEN BoardFits ELSE assigned2 = {}
  BY DEF LinksInv
<1>2. CASE UNCHANGED linkVars
  <2>1. AsksShaped' /\ (PanelInv => PanelInv') /\ (CreateFits => CreateFits')
        /\ (BoardFits => BoardFits')
    BY <1>1, <1>2 DEF linkVars, AsksShaped, PanelInv, PanelTypes, PanelAsk, CallsAlone, GoneKnown,
         RowsFresh, ForcedFresh, DeletesKnown, DeleteDone, ForceDone, CreateFits, BoardFits
  <2> QED BY <1>1, <1>2, <2>1 DEF LinksInv, linkVars
<1>3. CASE LinksNext
  <2>1. AsksShaped' /\ linkDesk' = linkDesk
    BY <1>1, <1>3, ShapedStep DEF LinksNext
  <2>2. CASE linkDesk = "panel" /\ PanelDesk /\ UNCHANGED <<createSide, boardSide>>
    BY <1>1, <2>1, <2>2, PanelStep DEF LinksInv, createSide, boardSide
  <2>3. CASE linkDesk = "create" /\ CreateDesk /\ UNCHANGED <<panelSide, boardSide, dark>>
    BY <1>1, <2>1, <2>3, CreateStep DEF LinksInv, panelSide, boardSide
  <2>4. CASE linkDesk = "verticals" /\ BoardDesk /\ UNCHANGED <<panelSide, createSide, dark>>
    BY <1>1, <2>1, <2>4, BoardStep DEF LinksInv, panelSide, createSide
  <2>5. ASSUME NEW f \in asks, AskLost(f) PROVE LinksInv'
    <3>1. PICK g : g = [f EXCEPT !.pc = "failed"]
      OBVIOUS
    <3>2. g.op = f.op /\ g.of = f.of /\ g.pc = "failed"
      BY <1>1, <3>1, CallMoved
    <3>3. /\ asks' = (asks \ {f}) \cup {g} /\ dark' = (dark \/ f.pc = "done")
          /\ UNCHANGED <<panelSide, createSide, boardSide, retriable>>
      BY <2>5, <3>1 DEF AskLost, Becomes
    <3>4. linkDesk = "panel" => PanelInv'
      BY <1>1, <2>5, AskLostKeeps
    <3>5. CreateFits => CreateFits'
      BY <3>2, <3>3 DEF CreateFits, createSide
    <3>6. BoardFits => BoardFits'
      BY <3>2, <3>3 DEF BoardFits, boardSide
    <3> QED BY <1>1, <2>1, <3>3, <3>4, <3>5, <3>6 DEF LinksInv, panelSide, createSide, boardSide
  <2> QED BY <1>3, <2>2, <2>3, <2>4, <2>5 DEF LinksNext
<1> QED BY <1>2, <1>3

(* What the invariant says of a state.                                     *)
LEMMA LinksTells == LinksInv => LinksTold
<1> SUFFICES ASSUME LinksInv PROVE LinksTold
  OBVIOUS
<1>1. /\ linkDesk = "panel" => PanelInv
      /\ linkDesk # "panel" => \A c \in Linked : registry[c].there
      /\ IF linkDesk = "create" THEN CreateFits ELSE linksMade = <<>>
      /\ IF linkDesk = "verticals" THEN BoardFits ELSE assigned2 = {}
  BY DEF LinksInv
<1>2. ModeShown
  <2> SUFFICES ASSUME linkDesk = "panel", dlg.of # NoLink, asks = {}, fetches = {}, ~dark,
                      dlg.of \notin crossed
               PROVE  ActiveMode = registry[dlg.of].mode
    BY DEF ModeShown
  <2>1. RowsFresh /\ ForcedFresh /\ dlg \in Dialog
    BY <1>1 DEF PanelInv, PanelTypes
  <2>2. dlg.of \in Linked
    BY <2>1 DEF Dialog
  <2>3. ~DeleteDone /\ ~ForceDone(dlg.of)
    BY DEF DeleteDone, ForceDone
  <2>4. dlg.row.mode = registry[dlg.of].mode
    BY <2>1, <2>2, <2>3 DEF RowsFresh
  <2>5. dlg.forced \in {"none", registry[dlg.of].mode}
    BY <2>1, <2>3 DEF ForcedFresh
  <2> QED BY <2>4, <2>5 DEF ActiveMode
<1>3. DeletesAsked
  BY <1>1 DEF PanelInv, DeletesKnown, DeletesAsked
<1>4. CreatedAsPressed
  BY <1>1 DEF CreateFits, CreatedAsPressed
<1>5. AssignedAsShown
  BY <1>1 DEF BoardFits, AssignedAsShown
<1> QED BY <1>2, <1>3, <1>4, <1>5 DEF LinksTold

(* The page of the connections: when everything has arrived the panel of a *)
(* connection shows the mode the server holds, though it keeps the one it  *)
(* was told; only what was on screen when it was asked for is deleted,     *)
(* created or assigned, also by a Retry; and the assignments listed are    *)
(* those there are.                                                        *)
THEOREM ConnectionsTold == LinksSpec => []LinksTold
<1>1. LinksInit => LinksInv
  BY InitLinksInv
<1>2. LinksInv /\ [LinksNext]_linkVars => LinksInv'
  BY LinksStep
<1>3. LinksInv => LinksTold
  BY LinksTells
<1> QED BY <1>1, <1>2, <1>3, PTL DEF LinksSpec

-----------------------------------------------------------------------------
(* The wizard of a data owner                                              *)

(* A step that may come after another.                                     *)
StepAfter(k, x, y) ==
  \/ x = "choice" /\ y \in {"cred", "upload"}
  \/ x = "cred" /\ y = "test"
  \/ x = "test" /\ y = (IF k = "both" THEN "seed" ELSE "cadence")
  \/ x = "seed" /\ y \in {"cadence", "upload"}
  \/ x \in {"upload", "sheets"} /\ y = "mapping"
  \/ x = "mapping" /\ y \in {"email", "cadence"}
  \/ x = "email" /\ y = "delimiter"
  \/ x = "delimiter" /\ y = "cadence"
  \/ x = "cadence" /\ y = "done"

LiveSteps     == {"choice", "cred", "test", "seed"}
BeforeMapping == LiveSteps \cup {"upload", "sheets"}

(* A plan goes on to the last step, or to the choice of a branch.          *)
PlanFits(k, pl) ==
  /\ pl \in Seq(Steps)
  /\ \A i \in 1..Len(pl) :
       /\ i < Len(pl) => StepAfter(k, pl[i], pl[i + 1])
       /\ i = Len(pl) => pl[i] \in {"choice", "done"}
       /\ pl[i] \in LiveSteps => k \in {"live", "both"}

(* The stack is the plan as far as it went; nothing before the mapping     *)
(* comes after it, and the formats come after the mapping.                 *)
StackFits(st, pl) ==
  /\ st \in Seq(Steps) /\ Len(st) <= Len(pl) /\ (st = <<>> => pl = <<>>)
  /\ \A i \in 1..Len(st) : st[i] = pl[i]
  /\ \A i, j \in 1..Len(st) : st[i] \in BeforeMapping /\ st[j] = "mapping" => i < j
  /\ \A i \in 1..Len(st) : st[i] \in Formats => \E j \in 1..Len(st) : j < i /\ st[j] = "mapping"

On(step, st) == \E i \in 1..Len(st) : st[i] = step

ShapeOf(k, st, pl) == PlanFits(k, pl) /\ StackFits(st, pl)

(* Every operation has its operands; nobody is on a step of a dialog that  *)
(* is not shown, nor hears anything there.                                 *)
WizCalls ==
  {c \in [op : Ops \cup {"none"}, mode : Modes \cup {None}, data : Data \cup {None},
          cadence : Cadences \cup {None}, pc : {"sent", "half"} \cup Answer,
          heard : BOOLEAN] :
     /\ c.op \in {"read", "finalize"} => c.data \in Data
     /\ c.op = "mode" => c.mode \in Modes}

Deaf(cs) == \A s \in Slots : cs[s].op \in Moving => ~cs[s].heard

Drafts == [mapping : Mappings, delim : Delims, cadence : Cadences \cup {None},
           csv : BOOLEAN, method : {None, "oauth", "upload"}, sheet : BOOLEAN,
           ready : BOOLEAN, redeemed : BOOLEAN]
Tests  == [phase : {"unmounted", "running", "passed", "failed"}, saved : BOOLEAN]
Offers == {"csv", "sheet", "cadence"}

WizardTyped ==
  /\ kind \in Kinds /\ conn \in Connection /\ cache \in Modes \cup {None}
  /\ page \in {"closed", "open", "away"} /\ opened \in 0..Opens
  /\ draft \in Drafts /\ test \in Tests /\ toasts \subseteq Offers
  /\ ShapeOf(kind, stack, planned)
  /\ calls \in [Slots -> WizCalls]
  /\ page # "open" => stack = <<>> /\ planned = <<>> /\ Deaf(calls)

(* The live credentials were tested, whatever the mode is by now.          *)
Proven(c) == c.rotated /\ c.mode # None

AsDrafted(c, d) ==
  /\ c.data # None /\ c.data.mapping = d.mapping /\ c.data.delim = d.delim
  /\ (c.rotated \/ c.status = "connected") /\ c.mode # None

(* What the steps behind have left at the server.                          *)
Grounds(k, c, d, st) ==
  IF On("mapping", st) THEN AsDrafted(c, d) ELSE Proven(c) /\ k \in {"live", "both"}

HasSource(d) == d.csv \/ (d.method = "oauth" /\ d.sheet)

LastStep(st) == IF st = <<>> THEN "hub" ELSE st[Len(st)]

StepsOf(k, c, d, st, phase) ==
  /\ On("mapping", st) => HasSource(d)
  /\ d.ready => HasSource(d)
  /\ On("seed", st) => Proven(c)
  /\ phase = "passed" => Proven(c)
  /\ LastStep(st) \in {"cadence", "done"} => Grounds(k, c, d, st)
  /\ LastStep(st) = "done" => c.completed /\ c.cadence = d.cadence

StepsLeft == StepsOf(kind, conn, draft, stack, test.phase)

ToConfirm == Top \in {"mapping"} \cup Formats /\ planned[Len(stack) + 1] = "cadence"

(* A call that moves on is heard where it was sent.                        *)
CallFits(c) ==
  /\ c.op \in Moving => c.heard
  /\ c.op \in {"save", "retest"} =>
       /\ Top = "test" /\ test.phase = "running"
       /\ c.pc = "half" /\ c.mode # None => conn.mode # None
       /\ c.pc = "ok" => Proven(conn)
  /\ c.op = "read" => Top \in {"upload", "sheets"} /\ HasSource(draft)
  /\ c.op = "start" => Top = "sheets"
  /\ c.op = "finalize" =>
       /\ ToConfirm /\ c.data.mapping = draft.mapping /\ c.data.delim = draft.delim
       /\ c.data.from = "csv" => draft.csv
       /\ c.data.from = "sheet" => draft.sheet
       /\ c.pc = "ok" => AsDrafted(conn, draft)
  /\ c.op = "cadence" =>
       /\ Top = "cadence" /\ draft.cadence # None /\ c.cadence = draft.cadence
       /\ c.pc \in {"half", "ok"} => conn.cadence = draft.cadence
       /\ c.pc = "ok" => conn.completed

Calm(cs) == \A s \in Slots : cs[s].op \notin Moving

OneCall == \A s, t \in Slots : calls[s].op \in Moving /\ calls[t].op \in Moving => s = t

ToastsFit ==
  /\ toasts # {} => Calm(calls)
  /\ \A a, b \in toasts : a = b
  /\ "csv" \in toasts => ToConfirm /\ draft.csv
  /\ "sheet" \in toasts => ToConfirm /\ draft.sheet
  /\ "cadence" \in toasts => Top = "cadence" /\ draft.cadence # None

Kept ==
  IF page = "open"
    THEN StepsLeft /\ (\A s \in Slots : CallFits(calls[s])) /\ OneCall /\ ToastsFit
    ELSE toasts = {}

WizardInv == WizardTyped /\ Kept

-----------------------------------------------------------------------------
(* The row                                                                 *)

-----------------------------------------------------------------------------
(* The shape of a plan and of the way through it                           *)

LEMMA AheadIs ==
  ASSUME NEW k, NEW st, NEW pl, ShapeOf(k, st, pl),
         NEW ahead, ahead = SubSeq(pl, Len(st) + 1, Len(pl))
  PROVE  /\ ahead \in Seq(Steps) /\ Len(ahead) = Len(pl) - Len(st)
         /\ ahead = <<>> <=> Len(st) = Len(pl)
         /\ \A i \in 1..Len(ahead) : ahead[i] = pl[Len(st) + i]
<1>1. pl \in Seq(Steps) /\ Len(st) \in Nat /\ Len(pl) \in Nat /\ Len(st) <= Len(pl)
  BY DEF ShapeOf, PlanFits, StackFits
<1>2. ahead \in Seq(Steps) /\ Len(ahead) = Len(pl) - Len(st)
  <2>1. \A i \in (Len(st) + 1)..Len(pl) : i \in 1..Len(pl)
    BY <1>1
  <2>2. \A i \in (Len(st) + 1)..Len(pl) : pl[i] \in Steps
    BY <1>1, <2>1
  <2> QED BY <1>1, <2>2, SubSeqProperties
<1>3. \A i \in 1..Len(ahead) : ahead[i] = pl[Len(st) + i]
  BY <1>1, <1>2, SubSeqProperties
<1>4. ahead = <<>> <=> Len(ahead) = 0
  BY <1>2, EmptySeq
<1> QED BY <1>1, <1>2, <1>3, <1>4

LEMMA VisitedIs ==
  ASSUME NEW k, NEW st, NEW pl, ShapeOf(k, st, pl)
  PROVE  SubSeq(pl, 1, Len(st)) = st
<1> DEFINE v == SubSeq(pl, 1, Len(st))
<1>1. v \in Seq(Steps) /\ Len(v) = Len(st) /\ \A i \in 1..Len(v) : v[i] = pl[i]
  BY DEF ShapeOf, PlanFits, StackFits
<1>2. st \in Seq(Steps) /\ \A i \in 1..Len(st) : st[i] = pl[i]
  BY DEF ShapeOf, StackFits
<1> HIDE DEF v
<1>3. v = st
  BY <1>1, <1>2, SeqEqual
<1> QED BY <1>3 DEF v

(* A step forward along a plan.                                            *)
LEMMA Pushed ==
  ASSUME NEW k, NEW st, NEW pl, PlanFits(k, pl), StackFits(st, pl), st # <<>>,
         Len(st) < Len(pl)
  PROVE  StackFits(Append(st, pl[Len(st) + 1]), pl)
<1> DEFINE n == Len(st)
           y == pl[n + 1]
           up == Append(st, y)
<1>1. n \in Nat /\ n > 0 /\ st \in Seq(Steps) /\ pl \in Seq(Steps) /\ y \in Steps
  BY DEF PlanFits, StackFits
<1>2. up \in Seq(Steps) /\ Len(up) = n + 1 /\ up # <<>>
      /\ (\A i \in 1..n : up[i] = st[i]) /\ up[n + 1] = y
  BY <1>1
<1>3. StepAfter(k, st[n], y) /\ n \in 1..n
  BY <1>1 DEF PlanFits, StackFits
<1>4. \A i \in 1..(n + 1) : up[i] = pl[i]
  BY <1>1, <1>2 DEF StackFits
<1>5. \A i, j \in 1..(n + 1) : up[i] \in BeforeMapping /\ up[j] = "mapping" => i < j
  <2> SUFFICES ASSUME NEW i \in 1..(n + 1), NEW j \in 1..(n + 1),
                      up[i] \in BeforeMapping, up[j] = "mapping"
               PROVE  i < j
    OBVIOUS
  <2>1. CASE i \in 1..n /\ j \in 1..n
    BY <2>1, <1>2 DEF StackFits
  <2>2. CASE i \in 1..n /\ j = n + 1
    BY <2>2
  <2>3. CASE i = n + 1
    <3>1. y \in BeforeMapping
      BY <2>3, <1>2
    <3>2. st[n] \in BeforeMapping /\ y # "mapping"
      BY <3>1, <1>3 DEF StepAfter, BeforeMapping, LiveSteps
    <3>3. j \in 1..n /\ st[j] = "mapping"
      BY <3>2, <1>2, <1>1
    <3> QED BY <3>2, <3>3, <1>3, <1>1 DEF StackFits
  <2> QED BY <2>1, <2>2, <2>3, <1>1
<1>6. \A i \in 1..(n + 1) : up[i] \in Formats => \E j \in 1..(n + 1) : j < i /\ up[j] = "mapping"
  <2> SUFFICES ASSUME NEW i \in 1..(n + 1), up[i] \in Formats
               PROVE  \E j \in 1..(n + 1) : j < i /\ up[j] = "mapping"
    OBVIOUS
  <2>1. CASE i \in 1..n
    <3>1. PICK j \in 1..n : j < i /\ st[j] = "mapping"
      BY <2>1, <1>2 DEF StackFits
    <3> QED BY <3>1, <1>2, <1>1
  <2>2. CASE i = n + 1
    <3>1. y \in Formats
      BY <2>2, <1>2
    <3>2. st[n] = "mapping" \/ st[n] = "email"
      BY <3>1, <1>3 DEF StepAfter, Formats
    <3>3. CASE st[n] = "mapping"
      BY <3>3, <2>2, <1>2, <1>3, <1>1
    <3>4. CASE st[n] = "email"
      <4>1. PICK j \in 1..n : j < n /\ st[j] = "mapping"
        BY <3>4, <1>3 DEF StackFits, Formats
      <4> QED BY <4>1, <2>2, <1>2, <1>1
    <3> QED BY <3>2, <3>3, <3>4
  <2> QED BY <2>1, <2>2, <1>1
<1> HIDE DEF up
<1> QED BY <1>1, <1>2, <1>4, <1>5, <1>6 DEF StackFits, up

(* The stack under another plan that starts with it.                       *)
LEMMA Replanned ==
  ASSUME NEW k, NEW st, NEW pl, ShapeOf(k, st, pl), st # <<>>,
         NEW ahead \in Seq(Steps), ahead # <<>>, StepAfter(k, st[Len(st)], ahead[1]),
         PlanFits(k, ahead)
  PROVE  /\ PlanFits(k, st \o ahead) /\ StackFits(st, st \o ahead)
         /\ Len(st \o ahead) = Len(st) + Len(ahead)
         /\ (st \o ahead)[Len(st) + 1] = ahead[1]
         /\ st[Len(st)] # "choice" \/ k \in {"live", "both"}
<1> DEFINE n == Len(st)
           m == Len(ahead)
           new == st \o ahead
<1>1. n \in Nat /\ n > 0 /\ m \in Nat /\ m > 0 /\ st \in Seq(Steps) /\ ahead \in Seq(Steps)
  BY DEF ShapeOf, StackFits
<1>2. new \in Seq(Steps) /\ Len(new) = n + m
      /\ (\A i \in 1..n : new[i] = st[i])
      /\ (\A i \in 1..m : new[n + i] = ahead[i])
  BY <1>1
<1>3. \A i \in 1..n : st[i] = pl[i]
  BY DEF ShapeOf, StackFits
<1>4. n <= Len(pl) /\ Len(pl) \in Nat
  BY DEF ShapeOf, StackFits, PlanFits
<1> HIDE DEF new
<1>5. ASSUME NEW i \in 1..(n + m)
      PROVE  /\ i < n + m => StepAfter(k, new[i], new[i + 1])
             /\ i = n + m => new[i] \in {"choice", "done"}
             /\ new[i] \in LiveSteps => k \in {"live", "both"}
  <2>1. CASE i < n
    <3>1. i \in 1..n /\ i + 1 \in 1..n /\ i \in 1..Len(pl) /\ i < Len(pl) /\ i # n + m
      BY <2>1, <1>1, <1>4
    <3>2. StepAfter(k, pl[i], pl[i + 1]) /\ (pl[i] \in LiveSteps => k \in {"live", "both"})
      BY <3>1 DEF ShapeOf, PlanFits
    <3> QED BY <3>1, <3>2, <1>2, <1>3
  <2>2. CASE i = n
    <3>1. i \in 1..n /\ i \in 1..Len(pl) /\ i # n + m /\ 1 \in 1..m
      BY <2>2, <1>1, <1>4
    <3>2. new[i] = st[n] /\ new[i + 1] = ahead[1]
      BY <3>1, <2>2, <1>2
    <3>3. pl[i] \in LiveSteps => k \in {"live", "both"}
      BY <3>1 DEF ShapeOf, PlanFits
    <3> QED BY <3>1, <3>2, <3>3, <1>2, <1>3
  <2>3. CASE i > n
    <3>1. PICK j \in 1..m : i = n + j
      <4>1. i - n \in 1..m /\ i = n + (i - n)
        BY <2>3, <1>1
      <4> QED BY <4>1
    <3>2. new[i] = ahead[j] /\ (j < m => new[i + 1] = ahead[j + 1])
      <4>1. j < m => j + 1 \in 1..m /\ i + 1 = n + (j + 1)
        BY <3>1, <1>1
      <4> QED BY <4>1, <3>1, <1>2
    <3>3. (i < n + m <=> j < m) /\ (i = n + m <=> j = m)
      BY <3>1, <1>1
    <3>4. /\ j < m => StepAfter(k, ahead[j], ahead[j + 1])
          /\ j = m => ahead[j] \in {"choice", "done"}
          /\ ahead[j] \in LiveSteps => k \in {"live", "both"}
      BY DEF PlanFits
    <3> QED BY <3>2, <3>3, <3>4
  <2> QED BY <2>1, <2>2, <2>3, <1>1
<1>6. PlanFits(k, new)
  BY <1>2, <1>5 DEF PlanFits
<1>7. StackFits(st, new)
  BY <1>1, <1>2 DEF ShapeOf, StackFits
<1>8. st[n] = "choice" => k \in {"live", "both"}
  <2>1. n \in 1..Len(pl) /\ st[n] = pl[n]
    BY <1>1, <1>3, <1>4
  <2> QED BY <2>1 DEF ShapeOf, PlanFits, LiveSteps
<1>9. 1 \in 1..m
  BY <1>1
<1> QED BY <1>2, <1>6, <1>7, <1>8, <1>9 DEF new

(* A step back.                                                            *)
LEMMA Popped ==
  ASSUME NEW k, NEW st, NEW pl, ShapeOf(k, st, pl), Len(st) > 1
  PROVE  ShapeOf(k, SubSeq(st, 1, Len(st) - 1), pl)
<1> DEFINE n == Len(st)
           dn == SubSeq(st, 1, n - 1)
<1>1. n \in Nat /\ n > 1 /\ st \in Seq(Steps)
  BY DEF ShapeOf, StackFits
<1>2. dn \in Seq(Steps) /\ Len(dn) = n - 1 /\ dn # <<>> /\ \A i \in 1..(n - 1) : dn[i] = st[i]
  <2>1. dn \in Seq(Steps) /\ Len(dn) = n - 1 /\ \A i \in 1..(n - 1) : dn[i] = st[i]
    BY <1>1
  <2> HIDE DEF dn
  <2>2. dn # <<>>
    BY <1>1, <2>1, EmptySeq
  <2> QED BY <2>1, <2>2
<1>3. \A i \in 1..(n - 1) : i \in 1..n
  BY <1>1
<1> HIDE DEF dn
<1>4. ASSUME NEW i \in 1..(n - 1), dn[i] \in Formats
      PROVE  \E j \in 1..(n - 1) : j < i /\ dn[j] = "mapping"
  <2>1. PICK j \in 1..n : j < i /\ st[j] = "mapping"
    BY <1>4, <1>2, <1>3 DEF ShapeOf, StackFits
  <2>2. j \in 1..(n - 1)
    BY <2>1, <1>1
  <2> QED BY <2>1, <2>2, <1>2
<1>5. StackFits(dn, pl)
  <2>1. Len(dn) <= Len(pl)
    BY <1>1, <1>2 DEF ShapeOf, StackFits, PlanFits
  <2> QED BY <1>2, <1>3, <1>4, <2>1 DEF ShapeOf, StackFits
<1> QED BY <1>5 DEF ShapeOf, dn

-----------------------------------------------------------------------------
(* The plans                                                               *)

LEMMA SuffixFits ==
  ASSUME NEW k, NEW pl, PlanFits(k, pl), NEW m \in 1..Len(pl)
  PROVE  /\ PlanFits(k, SubSeq(pl, m, Len(pl)))
         /\ Len(SubSeq(pl, m, Len(pl))) = Len(pl) - m + 1
         /\ \A i \in 1..(Len(pl) - m + 1) : SubSeq(pl, m, Len(pl))[i] = pl[m + i - 1]
<1> DEFINE u == SubSeq(pl, m, Len(pl))
<1>1. pl \in Seq(Steps) /\ Len(pl) \in Nat /\ m \in Nat /\ m > 0 /\ m <= Len(pl)
  BY DEF PlanFits
<1>2. u \in Seq(Steps) /\ Len(u) = Len(pl) - m + 1 /\ \A i \in 1..Len(u) : u[i] = pl[m + i - 1]
  <2>1. \A i \in m..Len(pl) : i \in 1..Len(pl)
    BY <1>1
  <2>2. \A i \in m..Len(pl) : pl[i] \in Steps
    BY <1>1, <2>1
  <2> QED BY <1>1, <2>2, SubSeqProperties
<1> HIDE DEF u
<1>3. ASSUME NEW i \in 1..Len(u)
      PROVE  /\ i < Len(u) => StepAfter(k, u[i], u[i + 1])
             /\ i = Len(u) => u[i] \in {"choice", "done"}
             /\ u[i] \in LiveSteps => k \in {"live", "both"}
  <2>1. PICK j \in 1..Len(pl) : j = m + i - 1
    BY <1>1, <1>2
  <2>2. /\ j < Len(pl) => StepAfter(k, pl[j], pl[j + 1])
        /\ j = Len(pl) => pl[j] \in {"choice", "done"}
        /\ pl[j] \in LiveSteps => k \in {"live", "both"}
    BY DEF PlanFits
  <2>3. (i < Len(u) <=> j < Len(pl)) /\ (i = Len(u) <=> j = Len(pl)) /\ u[i] = pl[j]
    BY <2>1, <1>1, <1>2
  <2>4. i < Len(u) => u[i + 1] = pl[j + 1]
    <3> SUFFICES ASSUME i < Len(u) PROVE u[i + 1] = pl[j + 1]
      OBVIOUS
    <3>1. i + 1 \in 1..Len(u) /\ m + (i + 1) - 1 = j + 1
      BY <2>1, <1>1, <1>2
    <3>2. u[i + 1] = pl[m + (i + 1) - 1]
      BY <3>1, <1>2
    <3> QED BY <3>1, <3>2
  <2> QED BY <2>2, <2>3, <2>4
<1>4. PlanFits(k, u)
  BY <1>2, <1>3 DEF PlanFits
<1> QED BY <1>2, <1>4 DEF u

LEMMA FormatsFit ==
  ASSUME NEW k, NEW tail, PlanFits(k, tail), tail # <<>>, tail[1] = "cadence"
  PROVE  PlanFits(k, <<"email", "delimiter">> \o tail)
<1> DEFINE u == <<"email", "delimiter">> \o tail
<1>1. tail \in Seq(Steps) /\ Len(tail) \in Nat /\ Len(tail) > 0
  BY EmptySeq DEF PlanFits
<1>2. /\ u \in Seq(Steps) /\ Len(u) = Len(tail) + 2 /\ u[1] = "email" /\ u[2] = "delimiter"
      /\ \A i \in 1..Len(tail) : u[i + 2] = tail[i]
  <2>1. <<"email", "delimiter">> \in Seq(Steps) /\ Len(<<"email", "delimiter">>) = 2
    BY DEF Steps, Formats
  <2> QED BY <1>1, <2>1
<1> HIDE DEF u
<1>3. u[3] = "cadence"
  <2>1. 1 \in 1..Len(tail) /\ 1 + 2 = 3
    BY <1>1
  <2> QED BY <2>1, <1>2
<1>4. ASSUME NEW i \in 1..Len(u)
      PROVE  /\ i < Len(u) => StepAfter(k, u[i], u[i + 1])
             /\ i = Len(u) => u[i] \in {"choice", "done"}
             /\ u[i] \in LiveSteps => k \in {"live", "both"}
  <2>1. CASE i = 1
    BY <2>1, <1>1, <1>2 DEF StepAfter, LiveSteps
  <2>2. CASE i = 2
    BY <2>2, <1>1, <1>2, <1>3 DEF StepAfter, LiveSteps
  <2>3. CASE i > 2
    <3>1. PICK j \in 1..Len(tail) : i = j + 2
      <4>1. i - 2 \in 1..Len(tail) /\ i = (i - 2) + 2
        BY <2>3, <1>1, <1>2
      <4> QED BY <4>1
    <3>2. u[i] = tail[j] /\ (j < Len(tail) => u[i + 1] = tail[j + 1])
      <4>1. j < Len(tail) => j + 1 \in 1..Len(tail) /\ i + 1 = (j + 1) + 2
        BY <3>1, <1>1
      <4> QED BY <4>1, <3>1, <1>2
    <3>3. (i < Len(u) <=> j < Len(tail)) /\ (i = Len(u) <=> j = Len(tail))
      BY <3>1, <1>1, <1>2
    <3>4. /\ j < Len(tail) => StepAfter(k, tail[j], tail[j + 1])
          /\ j = Len(tail) => tail[j] \in {"choice", "done"}
          /\ tail[j] \in LiveSteps => k \in {"live", "both"}
      BY DEF PlanFits
    <3> QED BY <3>2, <3>3, <3>4
  <2> QED BY <2>1, <2>2, <2>3, <1>1, <1>2
<1> QED BY <1>2, <1>4 DEF PlanFits, u

LEMMA PlansFit ==
  ASSUME kind \in Kinds
  PROVE  /\ PlanFits(kind, Subflow) /\ Len(Subflow) > 0
         /\ Subflow[1] \in {"sheets", "choice", "cred", "upload"}
         /\ PlanFits(kind, UploadBranch) /\ Len(UploadBranch) > 0 /\ UploadBranch[1] = "upload"
         /\ kind \in {"both", "live"} =>
              PlanFits(kind, LiveBranch) /\ Len(LiveBranch) > 0 /\ LiveBranch[1] = "cred"
<1>1. PlanFits(kind, UploadBranch) /\ Len(UploadBranch) > 0 /\ UploadBranch[1] = "upload"
  BY DEF UploadBranch, PlanFits, StepAfter, LiveSteps, Steps, Formats
<1>2. ASSUME kind = "both"
      PROVE  PlanFits(kind, LiveBranch) /\ Len(LiveBranch) > 0 /\ LiveBranch[1] = "cred"
  BY <1>2 DEF LiveBranch, PlanFits, StepAfter, LiveSteps, Steps, Formats
<1>3. ASSUME kind = "live"
      PROVE  PlanFits(kind, LiveBranch) /\ Len(LiveBranch) > 0 /\ LiveBranch[1] = "cred"
  BY <1>3 DEF LiveBranch, PlanFits, StepAfter, LiveSteps, Steps, Formats
<1>4. PlanFits(kind, Subflow) /\ Len(Subflow) > 0
      /\ Subflow[1] \in {"sheets", "choice", "cred", "upload"}
  <2>1. CASE kind = "sheets"
    BY <2>1 DEF Subflow, PlanFits, StepAfter, LiveSteps, Steps, Formats
  <2>2. CASE kind = "both"
    BY <2>2 DEF Subflow, PlanFits, StepAfter, LiveSteps, Steps, Formats
  <2>3. CASE kind = "live"
    BY <2>3, <1>3 DEF Subflow, Branch
  <2>4. CASE kind = "upload"
    BY <2>4, <1>1 DEF Subflow, Branch
  <2> QED BY <2>1, <2>2, <2>3, <2>4 DEF Kinds
<1> QED BY <1>1, <1>2, <1>3, <1>4

(* The mapping is followed by its formats or by the cadence.               *)
LEMMA MappingAhead ==
  ASSUME ShapeOf(kind, stack, planned), Top = "mapping"
  PROVE  /\ PlanFits(kind, Unformatted) /\ Unformatted # <<>> /\ Unformatted[1] = "cadence"
         /\ StepAfter(kind, "mapping", "cadence") /\ StepAfter(kind, "mapping", "email")
<1> DEFINE n == Len(stack)
<1>1. /\ planned \in Seq(Steps) /\ stack \in Seq(Steps) /\ n \in Nat /\ Len(planned) \in Nat
      /\ n > 0 /\ n <= Len(planned) /\ planned[n] = "mapping"
  BY EmptySeq DEF ShapeOf, PlanFits, StackFits, Top
<1>2. n < Len(planned) /\ planned[n + 1] \in {"email", "cadence"}
  BY <1>1 DEF ShapeOf, PlanFits, StepAfter
<1>3. /\ Ahead \in Seq(Steps) /\ Len(Ahead) = Len(planned) - n /\ Ahead # <<>>
      /\ \A i \in 1..Len(Ahead) : Ahead[i] = planned[n + i]
  <2>1. Ahead = SubSeq(planned, Len(stack) + 1, Len(planned))
    BY DEF Ahead
  <2>2. /\ Ahead \in Seq(Steps) /\ Len(Ahead) = Len(planned) - Len(stack)
        /\ Ahead = <<>> <=> Len(stack) = Len(planned)
        /\ \A i \in 1..Len(Ahead) : Ahead[i] = planned[Len(stack) + i]
    BY <2>1, AheadIs
  <2>3. Ahead # <<>>
    BY <2>2, <1>2
  <2> QED BY <2>2, <2>3
<1>4. PlanFits(kind, Ahead) /\ Len(Ahead) > 0 /\ Ahead[1] = planned[n + 1]
  <2>1. n + 1 \in 1..Len(planned) /\ 1 \in 1..Len(Ahead)
    BY <1>1, <1>2, <1>3
  <2> QED BY <2>1, <1>1, <1>2, <1>3, SuffixFits DEF ShapeOf, Ahead
<1>5. CASE Ahead[1] = "cadence"
  BY <1>5, <1>3, <1>4 DEF Unformatted, StepAfter, Formats
<1>6. CASE Ahead[1] = "email"
  <2>1. Len(Ahead) > 1 /\ Ahead[2] = "delimiter"
    <3>1. 1 \in 1..Len(Ahead) /\ Len(Ahead) \in Nat
      BY <1>4, <1>3
    <3> QED BY <3>1, <1>4, <1>6 DEF PlanFits, StepAfter
  <2>2. Len(Ahead) > 2 /\ Ahead[3] = "cadence"
    <3>1. 2 \in 1..Len(Ahead) /\ Len(Ahead) \in Nat
      BY <2>1, <1>3
    <3> QED BY <3>1, <2>1, <1>4 DEF PlanFits, StepAfter
  <2>3. 3 \in 1..Len(Ahead) /\ 1 \in 1..(Len(Ahead) - 3 + 1)
    BY <2>2, <1>3
  <2>4. PlanFits(kind, SubSeq(Ahead, 3, Len(Ahead))) /\ SubSeq(Ahead, 3, Len(Ahead))[1] = Ahead[3]
        /\ Len(SubSeq(Ahead, 3, Len(Ahead))) = Len(Ahead) - 3 + 1
    BY <2>3, <1>4, SuffixFits
  <2>5. Unformatted = SubSeq(Ahead, 3, Len(Ahead))
    BY <1>3, <1>6 DEF Unformatted, Formats
  <2>6. Unformatted # <<>>
    <3>1. Len(Unformatted) > 0
      BY <2>2, <2>4, <2>5, <1>3
    <3>2. Len(<<>>) = 0
      OBVIOUS
    <3> HIDE <2>5
    <3> QED BY ONLY <3>1, <3>2
  <2> QED BY <2>2, <2>4, <2>5, <2>6 DEF StepAfter
<1> QED BY <1>2, <1>4, <1>5, <1>6

-----------------------------------------------------------------------------
(* The calls and the types                                                 *)

LEMMA CallsTyped ==
  ASSUME NEW cs \in [Slots -> WizCalls], NEW c \in WizCalls, NEW s \in Slots, NEW ops
  PROVE  /\ Send(cs, c) \in [Slots -> WizCalls] /\ Drop(cs, s) \in [Slots -> WizCalls]
         /\ Unheard(cs, ops) \in [Slots -> WizCalls] /\ NoCalls \in [Slots -> WizCalls]
<1>1. FreeSlot \in WizCalls
  BY DEF FreeSlot, Call, WizCalls, Ops, Moving
<1>2. Send(cs, c) \in [Slots -> WizCalls]
  BY DEF Send
<1>3. Drop(cs, s) \in [Slots -> WizCalls] /\ NoCalls \in [Slots -> WizCalls]
  BY <1>1 DEF Drop, NoCalls
<1>4. ASSUME NEW t \in Slots
      PROVE  [cs[t] EXCEPT !.heard = FALSE] \in WizCalls
  <2>1. cs[t] \in WizCalls
    OBVIOUS
  <2> QED BY <2>1 DEF WizCalls
<1>5. Unheard(cs, ops) \in [Slots -> WizCalls]
  BY <1>1, <1>4 DEF Unheard
<1> QED BY <1>2, <1>3, <1>5

LEMMA ModeTyped ==
  ASSUME NEW cs \in [Slots -> WizCalls], NEW m \in Modes
  PROVE  WithMode(cs, m) \in [Slots -> WizCalls]
<1>1. [Call("mode") EXCEPT !.mode = m] \in WizCalls
  BY DEF Call, WizCalls, Ops, Moving, Modes
<1> QED BY <1>1 DEF WithMode, Send

(* What Show leaves is typed when what it shows is.                        *)
LEMMA Shown ==
  ASSUME WizardTyped, NEW st, NEW pl, NEW cs \in [Slots -> WizCalls],
         ShapeOf(kind, st, pl), Show(st, pl, cs)
  PROVE  /\ ShapeOf(kind, stack', planned') /\ calls' \in [Slots -> WizCalls]
         /\ test' \in Tests
<1>1. Untested \in Tests
  BY DEF Untested, Tests
<1>2. Unheard(cs, StepOps) \in [Slots -> WizCalls]
  <2>1. ASSUME NEW t \in Slots
        PROVE  [cs[t] EXCEPT !.heard = FALSE] \in WizCalls
    <3>1. cs[t] \in WizCalls
      OBVIOUS
    <3> QED BY <3>1 DEF WizCalls
  <2>2. FreeSlot \in WizCalls
    BY DEF FreeSlot, Call, WizCalls, Ops, Moving
  <2> QED BY <2>1, <2>2 DEF Unheard
<1> QED BY <1>1, <1>2 DEF Show, WizardTyped

LEMMA StayIs ==
  ASSUME WizardTyped, NEW cs \in [Slots -> WizCalls], Stay(cs)
  PROVE  /\ stack' = stack /\ planned' = planned /\ calls' = cs /\ test' = test
         /\ ShapeOf(kind, stack', planned') /\ calls' \in [Slots -> WizCalls]
         /\ test' \in Tests
BY DEF Stay, Show, WizardTyped

LEMMA AdvanceIs ==
  ASSUME WizardTyped, NEW cs \in [Slots -> WizCalls], Advance(cs)
  PROVE  /\ planned' = planned
         /\ stack' = IF Len(stack) < Len(planned) THEN Append(stack, planned[Len(stack) + 1])
                                                  ELSE stack
         /\ Show(stack', planned, cs)
         /\ ShapeOf(kind, stack', planned') /\ calls' \in [Slots -> WizCalls]
         /\ test' \in Tests
<1>1. /\ ShapeOf(kind, stack, planned) /\ Len(stack) <= Len(planned)
      /\ Len(stack) \in Nat /\ Len(planned) \in Nat
  BY DEF WizardTyped, ShapeOf, StackFits, PlanFits
<1>2. /\ Ahead = <<>> <=> Len(stack) = Len(planned)
      /\ Ahead # <<>> => Ahead[1] = planned[Len(stack) + 1]
  <2>1. Ahead = SubSeq(planned, Len(stack) + 1, Len(planned))
    BY DEF Ahead
  <2>2. /\ Ahead \in Seq(Steps) /\ Len(Ahead) = Len(planned) - Len(stack)
        /\ Ahead = <<>> <=> Len(stack) = Len(planned)
        /\ \A i \in 1..Len(Ahead) : Ahead[i] = planned[Len(stack) + i]
    BY <2>1, <1>1, AheadIs
  <2>3. Ahead # <<>> => 1 \in 1..Len(Ahead)
    BY <2>2, EmptySeq
  <2> QED BY <2>2, <2>3
<1> DEFINE st == IF Ahead = <<>> THEN stack ELSE Append(stack, Ahead[1])
<1>3. st = IF Len(stack) < Len(planned) THEN Append(stack, planned[Len(stack) + 1]) ELSE stack
  BY <1>1, <1>2
<1>4. Show(st, planned, cs)
  BY DEF Advance
<1>5. ShapeOf(kind, st, planned)
  <2>1. CASE Len(stack) < Len(planned)
    <3>1. stack # <<>>
      BY <2>1, <1>1 DEF ShapeOf, StackFits
    <3>2. StackFits(Append(stack, planned[Len(stack) + 1]), planned)
      BY <2>1, <3>1, <1>1, Pushed DEF ShapeOf
    <3> QED BY <2>1, <3>2, <1>1, <1>3 DEF ShapeOf
  <2>2. CASE ~(Len(stack) < Len(planned))
    BY <2>2, <1>1, <1>3
  <2> QED BY <2>1, <2>2
<1> HIDE DEF st
<1>6. stack' = st /\ planned' = planned
  BY <1>4 DEF Show
<1>7. /\ ShapeOf(kind, stack', planned') /\ calls' \in [Slots -> WizCalls]
      /\ test' \in Tests
  BY <1>4, <1>5, Shown
<1> QED BY <1>3, <1>4, <1>6, <1>7

LEMMA ReplanIs ==
  ASSUME WizardTyped, NEW cs \in [Slots -> WizCalls], NEW ahead, Replan(ahead, cs),
         stack # <<>>, PlanFits(kind, ahead), ahead # <<>>,
         StepAfter(kind, stack[Len(stack)], ahead[1])
  PROVE  /\ stack' = Append(stack, ahead[1]) /\ planned' = stack \o ahead
         /\ Show(stack', planned', cs)
         /\ ShapeOf(kind, stack', planned') /\ calls' \in [Slots -> WizCalls]
         /\ test' \in Tests
<1>1. ShapeOf(kind, stack, planned) /\ ahead \in Seq(Steps)
  BY DEF WizardTyped, PlanFits
<1>2. Visited = stack
  BY <1>1, VisitedIs DEF Visited
<1>3. Show(Append(stack, ahead[1]), stack \o ahead, cs)
  BY <1>2 DEF Replan
<1>4. /\ PlanFits(kind, stack \o ahead) /\ StackFits(stack, stack \o ahead)
      /\ Len(stack \o ahead) = Len(stack) + Len(ahead)
      /\ (stack \o ahead)[Len(stack) + 1] = ahead[1]
  BY <1>1, Replanned
<1>5. Len(stack) < Len(stack \o ahead)
  BY <1>1, <1>4, EmptySeq DEF ShapeOf, StackFits
<1>6. StackFits(Append(stack, ahead[1]), stack \o ahead)
  BY <1>4, <1>5, Pushed
<1>7. ShapeOf(kind, Append(stack, ahead[1]), stack \o ahead)
  BY <1>4, <1>6 DEF ShapeOf
<1>8. stack' = Append(stack, ahead[1]) /\ planned' = stack \o ahead
  BY <1>3 DEF Show
<1>9. /\ ShapeOf(kind, stack', planned') /\ calls' \in [Slots -> WizCalls]
      /\ test' \in Tests
  BY <1>3, <1>7, Shown
<1> QED BY <1>3, <1>8, <1>9

LEMMA TypedInit ==
  ASSUME WizardInit
  PROVE  WizardTyped
<1>1. Cadences \subseteq Cadences \cup {None} /\ Opens \in Nat
  BY WizardAssumption
<1>2. Unlinked \in Connection
  BY DEF Unlinked, Connection
<1>3. conn \in Connection
  <2>1. CASE conn = Unlinked
    BY <2>1, <1>2
  <2>2. CASE \E c \in Connection : conn = Completed(kind, c)
    BY <2>2 DEF Completed, Connection, Modes
  <2> DEFINE tested(k) == SetCadence(Tested(SetMode(Invited(Unlinked), "live"), "live", TRUE), k)
  <2>3. \A k \in Cadences : tested(k) \in Connection
    <3> TAKE k \in Cadences
    <3>1. Invited(Unlinked) \in Connection
      BY <1>2 DEF Invited, Connection
    <3>2. SetMode(Invited(Unlinked), "live") \in Connection
      BY <3>1 DEF SetMode, Connection, Modes
    <3>3. Tested(SetMode(Invited(Unlinked), "live"), "live", TRUE) \in Connection
      BY <3>2 DEF Tested, Connection, Modes
    <3> QED BY <3>3 DEF SetCadence, Connection
  <2>4. \A k \in Cadences, d \in Data :
          SetCadence(Ingested(kind, SetMode(Unlinked, "upload"), d), k) \in Connection
    <3> TAKE k \in Cadences, d \in Data
    <3>1. SetMode(Unlinked, "upload") \in Connection
      BY <1>2 DEF SetMode, Connection, Modes
    <3>2. Ingested(kind, SetMode(Unlinked, "upload"), d) \in Connection
      BY <3>1 DEF Ingested, Connection, Modes
    <3> QED BY <3>2 DEF SetCadence, Connection
  <2>5. conn = Unlinked \/ \E c \in Connection : conn = Completed(kind, c)
    <3> SUFFICES ASSUME conn # Unlinked PROVE \E c \in Connection : conn = Completed(kind, c)
      OBVIOUS
    <3> DEFINE lives == {tested(k) : k \in IF kind \in {"both", "live"} THEN Cadences ELSE {}}
               fed == {SetCadence(Ingested(kind, SetMode(Unlinked, "upload"), d), k) :
                           k \in IF kind \in {"both", "upload"} THEN Cadences ELSE {},
                           d \in {e \in Data : e.from = "csv" /\ e.mapping = Fields}}
    <3>1. PICK c \in lives \cup fed : conn = Completed(kind, c)
      <4>1. conn \in {Unlinked} \cup {Completed(kind, c) : c \in lives \cup fed}
        <5>1. conn \in Earlier
          BY DEF WizardInit
        <5>2. Earlier = {Unlinked} \cup {Completed(kind, c) : c \in lives \cup fed}
          BY DEF Earlier
        <5> HIDE DEF lives, fed
        <5> QED BY <5>1, <5>2
      <4> HIDE DEF lives, fed
      <4> QED BY <4>1
    <3> HIDE DEF tested
    <3>2. \A e \in lives : e \in Connection
      <4>1. \A k : k \in (IF kind \in {"both", "live"} THEN Cadences ELSE {}) => k \in Cadences
        OBVIOUS
      <4>2. SUFFICES ASSUME NEW e \in lives PROVE e \in Connection
        OBVIOUS
      <4>3. PICK k \in (IF kind \in {"both", "live"} THEN Cadences ELSE {}) :
              e = tested(k)
        OBVIOUS
      <4>4. k \in Cadences
        BY <4>1
      <4> QED BY <4>3, <4>4, <2>3
    <3>3. \A e \in fed : e \in Connection
      <4>1. \A k : k \in (IF kind \in {"both", "upload"} THEN Cadences ELSE {}) => k \in Cadences
        OBVIOUS
      <4>2. \A d \in {e \in Data : e.from = "csv" /\ e.mapping = Fields} : d \in Data
        OBVIOUS
      <4> QED BY <4>1, <4>2, <2>4
    <3> HIDE DEF lives, fed
    <3> QED BY <3>1, <3>2, <3>3
  <2> QED BY <2>1, <2>2, <2>5
<1>4. cache \in Modes \cup {None}
  BY <1>3 DEF WizardInit, Connection
<1>5. NoDraft \in Drafts /\ Untested \in Tests
  <2>1. (CHOOSE d \in Delims : TRUE) \in Delims
    BY WizardAssumption
  <2> QED BY <2>1 DEF NoDraft, Drafts, Untested, Tests, Mappings
<1>6. NoCalls \in [Slots -> WizCalls] /\ Deaf(NoCalls)
  BY DEF NoCalls, FreeSlot, Call, WizCalls, Ops, Moving, Deaf
<1>7. ShapeOf(kind, <<>>, <<>>)
  BY DEF ShapeOf, PlanFits, StackFits
<1> QED BY <1>1, <1>3, <1>4, <1>5, <1>6, <1>7 DEF WizardInit, WizardTyped

LEMMA DraftsTyped ==
  ASSUME WizardTyped, NEW from \in {"csv", "sheet"}, NEW redeemed \in BOOLEAN
  PROVE  /\ NoDraft \in Drafts /\ Seeded(redeemed) \in Drafts /\ Untested \in Tests
         /\ [NoDraft EXCEPT !.redeemed = draft.redeemed] \in Drafts
         /\ Chosen(from) \in Data /\ From \in {"csv", "sheet"}
         /\ Source \in {"csv", "sheet", None} /\ NoDraft.delim \in Delims
<1>1. NoDraft \in Drafts /\ NoDraft.delim \in Delims
  <2>1. (CHOOSE d \in Delims : TRUE) \in Delims
    BY WizardAssumption
  <2> QED BY <2>1 DEF NoDraft, Drafts, Mappings
<1>2. conn.cadence \in Cadences \cup {None} /\ (conn.data = None \/ conn.data.mapping \in Mappings)
  BY DEF WizardTyped, Connection, Data
<1>3. Seeded(redeemed) \in Drafts
  BY <1>1, <1>2 DEF Seeded, Drafts, Mappings
<1>4. [NoDraft EXCEPT !.redeemed = draft.redeemed] \in Drafts
  BY <1>1 DEF Drafts, WizardTyped
<1>5. Chosen(from) \in Data
  BY DEF Chosen, Data, WizardTyped, Drafts
<1> QED BY <1>1, <1>3, <1>4, <1>5 DEF Untested, Tests, From, Source

LEMMA ShutTyped ==
  ASSUME WizardTyped, Shut, UNCHANGED cache
  PROVE  WizardTyped'
<1>1. [NoDraft EXCEPT !.redeemed = draft.redeemed] \in Drafts /\ Untested \in Tests
  BY DraftsTyped
<1>2. Unheard(calls, Ops) \in [Slots -> WizCalls]
  <2>1. ASSUME NEW t \in Slots
        PROVE  [calls[t] EXCEPT !.heard = FALSE] \in WizCalls
    <3>1. calls[t] \in WizCalls
      BY DEF WizardTyped
    <3> QED BY <3>1 DEF WizCalls
  <2>2. FreeSlot \in WizCalls
    BY DEF FreeSlot, Call, WizCalls, Ops, Moving
  <2> QED BY <2>1, <2>2 DEF Unheard, WizardTyped
<1>3. Deaf(Unheard(calls, Ops))
  <2> SUFFICES ASSUME NEW t \in Slots, Unheard(calls, Ops)[t].op \in Moving
               PROVE  ~Unheard(calls, Ops)[t].heard
    BY DEF Deaf
  <2>1. calls[t] \in WizCalls /\ FreeSlot.op \notin Moving /\ Moving \subseteq Ops
    BY DEF WizardTyped, FreeSlot, Call, Moving, Ops
  <2> QED BY <2>1 DEF Unheard, WizCalls
<1>4. ShapeOf(kind, <<>>, <<>>)
  BY DEF ShapeOf, PlanFits, StackFits
<1> QED BY <1>1, <1>2, <1>3, <1>4 DEF Shut, WizardTyped

LEMMA EnterTyped ==
  ASSUME WizardTyped, NEW redeemed \in BOOLEAN, Enter(redeemed)
  PROVE  /\ page' = "open" /\ draft' \in Drafts /\ test' \in Tests
         /\ ShapeOf(kind, stack', planned')
         /\ stack' = <<Subflow[1]>> /\ Subflow[1] \in {"sheets", "choice", "cred", "upload"}
<1>1. kind \in Kinds
  BY DEF WizardTyped
<1>2. PlanFits(kind, Subflow) /\ Len(Subflow) > 0
      /\ Subflow[1] \in {"sheets", "choice", "cred", "upload"}
  BY <1>1, PlansFit
<1>3. StackFits(<<Subflow[1]>>, Subflow)
  <2>1. Subflow \in Seq(Steps) /\ Len(Subflow) \in Nat
    BY <1>2 DEF PlanFits
  <2>2. <<Subflow[1]>> \in Seq(Steps) /\ Len(<<Subflow[1]>>) = 1 /\ <<Subflow[1]>>[1] = Subflow[1]
        /\ <<Subflow[1]>> # <<>>
    BY <1>2 DEF Steps
  <2>3. Subflow[1] # "mapping" /\ Subflow[1] \notin Formats
    BY <1>2 DEF Formats
  <2> QED BY <1>2, <2>1, <2>2, <2>3 DEF StackFits
<1> QED BY <1>2, <1>3, DraftsTyped DEF Enter, ShapeOf

(* The owner's actions that show a step.                                   *)
LEMMA MovesTyped ==
  ASSUME WizardTyped, page = "open", ShapeOf(kind, stack', planned'),
         calls' \in [Slots -> WizCalls], test' \in Tests, draft' \in Drafts,
         toasts' \subseteq Offers, UNCHANGED <<kind, conn, cache, page, opened>>
  PROVE  WizardTyped'
BY DEF WizardTyped

LEMMA PlanActsTyped ==
  ASSUME WizardTyped,
         \/ Back \/ \E mode \in Modes : Choose(mode)
         \/ CredentialContinue \/ TestPassed \/ SeedSkip \/ SeedUpload
         \/ SheetsContinue \/ MappingContinue \/ FormatContinue
  PROVE  WizardTyped'
<1>1. /\ kind \in Kinds /\ calls \in [Slots -> WizCalls] /\ draft \in Drafts /\ toasts \subseteq Offers
      /\ ShapeOf(kind, stack, planned) /\ stack \in Seq(Steps) /\ test \in Tests
  BY DEF WizardTyped, ShapeOf, StackFits
<1>2. ASSUME NEW step \in Steps, Top = step
      PROVE  /\ stack # <<>> /\ stack[Len(stack)] = step
             /\ step \in LiveSteps => kind \in {"live", "both"}
  <2>1. stack # <<>> /\ stack[Len(stack)] = step
    BY <1>2 DEF Top, Steps, Formats
  <2>2. Len(stack) \in 1..Len(planned) /\ planned[Len(stack)] = step
    BY <2>1, <1>1, EmptySeq DEF ShapeOf, StackFits, PlanFits
  <2> QED BY <2>1, <2>2, <1>1 DEF ShapeOf, PlanFits
<1>3. CASE Back
  <2>1. ShapeOf(kind, SubSeq(stack, 1, Len(stack) - 1), planned)
    BY <1>3, <1>1, Popped DEF Back
  <2>2. ShapeOf(kind, stack', planned') /\ calls' \in [Slots -> WizCalls] /\ test' \in Tests
    BY <1>3, <1>1, <2>1, Shown DEF Back
  <2> QED BY <1>1, <1>3, <2>2, MovesTyped DEF Back, Presses, Reacts
<1>4. ASSUME NEW mode \in Modes, Choose(mode)
      PROVE  WizardTyped'
  <2>1. stack # <<>> /\ stack[Len(stack)] = "choice" /\ kind \in {"live", "both"}
    BY <1>4, <1>2 DEF Choose, LiveSteps, Steps
  <2>2. PlanFits(kind, Branch(mode)) /\ Branch(mode) # <<>> /\ Branch(mode)[1] \in {"cred", "upload"}
    <3>1. PlanFits(kind, Branch(mode)) /\ Len(Branch(mode)) > 0 /\ Branch(mode)[1] \in {"cred", "upload"}
      BY <2>1, <1>1, PlansFit DEF Branch, Modes
    <3>2. Len(<<>>) = 0
      OBVIOUS
    <3> QED BY ONLY <3>1, <3>2
  <2>3. StepAfter(kind, stack[Len(stack)], Branch(mode)[1])
    BY <2>1, <2>2 DEF StepAfter
  <2>4. WithMode(calls, mode) \in [Slots -> WizCalls]
    BY <1>1, ModeTyped
  <2>5. ShapeOf(kind, stack', planned') /\ calls' \in [Slots -> WizCalls] /\ test' \in Tests
    BY <1>4, <2>1, <2>2, <2>3, <2>4, ReplanIs DEF Choose
  <2> QED BY <1>1, <1>4, <2>5, MovesTyped DEF Choose, Presses, Reacts
<1>5. CASE CredentialContinue \/ TestPassed \/ SeedSkip \/ SheetsContinue
  <2>1. Advance(calls) /\ page = "open" /\ UNCHANGED <<kind, conn, cache, page, opened, draft, toasts>>
    BY <1>5 DEF CredentialContinue, TestPassed, SeedSkip, SheetsContinue, Presses, Reacts
  <2>2. ShapeOf(kind, stack', planned') /\ calls' \in [Slots -> WizCalls] /\ test' \in Tests
    BY <2>1, <1>1, AdvanceIs
  <2> QED BY <1>1, <2>1, <2>2, MovesTyped
<1>6. CASE SeedUpload
  <2>1. stack # <<>> /\ stack[Len(stack)] = "seed"
    BY <1>6, <1>2 DEF SeedUpload, Steps
  <2>2. PlanFits(kind, UploadBranch) /\ UploadBranch # <<>> /\ UploadBranch[1] = "upload"
    <3>1. PlanFits(kind, UploadBranch) /\ Len(UploadBranch) > 0 /\ UploadBranch[1] = "upload"
      BY <1>1, PlansFit
    <3>2. Len(<<>>) = 0
      OBVIOUS
    <3> QED BY ONLY <3>1, <3>2
  <2>3. StepAfter(kind, stack[Len(stack)], UploadBranch[1])
    BY <2>1, <2>2 DEF StepAfter
  <2>4. WithMode(calls, "upload") \in [Slots -> WizCalls]
    BY <1>1, ModeTyped DEF Modes
  <2>5. ShapeOf(kind, stack', planned') /\ calls' \in [Slots -> WizCalls] /\ test' \in Tests
    BY <1>6, <2>1, <2>2, <2>3, <2>4, ReplanIs DEF SeedUpload
  <2> QED BY <1>1, <1>6, <2>5, MovesTyped DEF SeedUpload, Presses, Reacts
<1>7. ASSUME NEW from \in {"csv", "sheet"} PROVE Finalize(from) \in [Slots -> WizCalls]
  <2>1. Chosen(from) \in Data
    BY DraftsTyped
  <2>2. [Call("finalize") EXCEPT !.data = Chosen(from)] \in WizCalls
    BY <2>1 DEF Call, WizCalls, Ops, Moving
  <2> QED BY <2>2, <1>1 DEF Finalize, Send
<1>8. Source \in {"csv", "sheet"} \/ Source = None
  BY DEF Source
<1>9. CASE MappingContinue
  <2>1. Top = "mapping" /\ stack # <<>> /\ stack[Len(stack)] = "mapping"
    BY <1>9, <1>2 DEF MappingContinue, Steps
  <2>2. /\ PlanFits(kind, Unformatted) /\ Unformatted # <<>> /\ Unformatted[1] = "cadence"
        /\ StepAfter(kind, "mapping", "cadence") /\ StepAfter(kind, "mapping", "email")
    BY <2>1, <1>1, MappingAhead
  <2>3. CASE FormatSteps(draft.mapping) # <<>>
    <3> DEFINE ahead == <<"email", "delimiter">> \o Unformatted
    <3>1. Replan(ahead, calls)
      BY <1>9, <2>3 DEF MappingContinue, FormatSteps
    <3>2. PlanFits(kind, ahead)
      BY <2>2, FormatsFit
    <3>3. ahead # <<>> /\ ahead[1] = "email"
      <4>1. Unformatted \in Seq(Steps)
        BY <2>2 DEF PlanFits
      <4>2. Len(ahead) = 2 + Len(Unformatted) /\ Len(Unformatted) \in Nat /\ ahead[1] = "email"
        BY <4>1
      <4>3. Len(ahead) > 0 /\ Len(<<>>) = 0
        BY <4>2
      <4> QED BY <4>2, <4>3
    <3> HIDE DEF ahead
    <3>4. ShapeOf(kind, stack', planned') /\ calls' \in [Slots -> WizCalls] /\ test' \in Tests
      BY <2>1, <2>2, <3>1, <3>2, <3>3, <1>1, ReplanIs
    <3> QED BY <1>1, <1>9, <3>4, MovesTyped DEF MappingContinue, Presses, Reacts
  <2>4. CASE FormatSteps(draft.mapping) = <<>> /\ Source = None
    <3>1. Replan(Unformatted, calls)
      BY <1>9, <2>4 DEF MappingContinue
    <3>2. ShapeOf(kind, stack', planned') /\ calls' \in [Slots -> WizCalls] /\ test' \in Tests
      BY <2>1, <2>2, <3>1, <1>1, ReplanIs
    <3> QED BY <1>1, <1>9, <3>2, MovesTyped DEF MappingContinue, Presses, Reacts
  <2>5. CASE FormatSteps(draft.mapping) = <<>> /\ Source # None
    <3>1. Show(stack, Visited \o Unformatted, Finalize(Source))
      BY <1>9, <2>5 DEF MappingContinue
    <3>2. Unformatted \in Seq(Steps)
      BY <2>2 DEF PlanFits
    <3>3. PlanFits(kind, stack \o Unformatted) /\ StackFits(stack, stack \o Unformatted)
      BY <1>1, <2>1, <2>2, <3>2, Replanned
    <3>4. ShapeOf(kind, stack, Visited \o Unformatted)
      BY <1>1, <3>3, VisitedIs DEF Visited, ShapeOf
    <3>5. ShapeOf(kind, stack', planned') /\ calls' \in [Slots -> WizCalls] /\ test' \in Tests
      BY <3>1, <3>4, <1>7, <1>8, <2>5, Shown
    <3> QED BY <1>1, <1>9, <3>5, MovesTyped DEF MappingContinue, Presses, Reacts
  <2> QED BY <2>3, <2>4, <2>5
<1>10. CASE FormatContinue
  <2>1. CASE Source # None /\ Stay(Finalize(Source))
    <3>1. ShapeOf(kind, stack', planned') /\ calls' \in [Slots -> WizCalls] /\ test' \in Tests
      BY <2>1, <1>7, <1>8, StayIs
    <3> QED BY <1>1, <1>10, <3>1, MovesTyped DEF FormatContinue, Presses, Reacts
  <2>2. CASE Advance(calls)
    <3>1. ShapeOf(kind, stack', planned') /\ calls' \in [Slots -> WizCalls] /\ test' \in Tests
      BY <2>2, <1>1, AdvanceIs
    <3> QED BY <1>1, <1>10, <3>1, MovesTyped DEF FormatContinue, Presses, Reacts
  <2> QED BY <1>10, <2>1, <2>2 DEF FormatContinue
<1> QED BY <1>3, <1>4, <1>5, <1>6, <1>9, <1>10

(* What the owner enters.                                                  *)
LEMMA EntriesTyped ==
  ASSUME WizardTyped,
         \/ \E picked \in BOOLEAN : PickFile(picked)
         \/ \E method \in {"oauth", "upload"} : SelectMethod(method)
         \/ PickSheet \/ SignOut \/ Edit
  PROVE  WizardTyped'
<1>1. draft \in Drafts /\ page = "open" /\ UNCHANGED <<kind, conn, cache, page, opened, toasts, view>>
  BY DEF WizardTyped, PickFile, SelectMethod, PickSheet, SignOut, Edit, Presses, Reacts
<1>2. Cadences \subseteq Cadences \cup {None}
  OBVIOUS
<1>3. draft' \in Drafts
  <2>1. ASSUME NEW picked \in BOOLEAN, PickFile(picked) PROVE draft' \in Drafts
    BY <2>1, <1>1 DEF PickFile, Drafts
  <2>2. ASSUME NEW method \in {"oauth", "upload"}, SelectMethod(method) PROVE draft' \in Drafts
    BY <2>2, <1>1 DEF SelectMethod, Drafts
  <2>3. CASE PickSheet \/ SignOut
    BY <2>3, <1>1 DEF PickSheet, SignOut, Drafts
  <2>4. CASE Edit
    BY <2>4, <1>1 DEF Edit, Drafts
  <2> QED BY <2>1, <2>2, <2>3, <2>4
<1> QED BY <1>1, <1>3 DEF WizardTyped, view, Deaf

LEMMA SendsTyped ==
  ASSUME WizardTyped,
         StartTest \/ Read \/ SignIn \/ CadenceContinue
           \/ \E op \in Offers : RetryCall(op) \/ Dismiss(op)
  PROVE  WizardTyped'
<1>1. /\ draft \in Drafts /\ test \in Tests /\ toasts \subseteq Offers /\ ShapeOf(kind, stack, planned)
      /\ calls \in [Slots -> WizCalls]
  BY DEF WizardTyped
<1>2. ASSUME NEW c \in WizCalls PROVE Send(calls, c) \in [Slots -> WizCalls]
  BY <1>1, <1>2 DEF Send
<1>3. \A op \in {"save", "retest", "start"} : Send(calls, Call(op)) \in [Slots -> WizCalls]
  BY <1>2 DEF Call, WizCalls, Ops, Moving
<1>4. \A d \in Data : /\ Send(calls, [Call("read") EXCEPT !.data = d]) \in [Slots -> WizCalls]
                      /\ Send(calls, [Call("finalize") EXCEPT !.data = d]) \in [Slots -> WizCalls]
  <2> TAKE d \in Data
  <2>1. [Call("read") EXCEPT !.data = d] \in WizCalls
    BY DEF Call, WizCalls, Ops, Moving
  <2>2. [Call("finalize") EXCEPT !.data = d] \in WizCalls
    BY DEF Call, WizCalls, Ops, Moving
  <2> QED BY <2>1, <2>2, <1>2
<1>5. Send(calls, CadenceCall) \in [Slots -> WizCalls]
  <2>1. draft.cadence \in Cadences \cup {None}
    BY <1>1 DEF Drafts
  <2>2. CadenceCall \in WizCalls
    BY <2>1 DEF CadenceCall, Call, WizCalls, Ops, Moving
  <2> QED BY <2>2, <1>2
<1>6. Chosen("csv") \in Data /\ Chosen("sheet") \in Data
      /\ [from |-> From, mapping |-> {}, delim |-> NoDraft.delim] \in Data
  <2>1. Chosen("csv") \in Data /\ Chosen("sheet") \in Data
    BY DraftsTyped
  <2>2. From \in {"csv", "sheet"} /\ NoDraft.delim \in Delims
    <3>1. (CHOOSE d \in Delims : TRUE) \in Delims
      BY WizardAssumption
    <3> QED BY <3>1 DEF From, NoDraft
  <2> QED BY <2>1, <2>2 DEF Data, Mappings
<1>7. CASE StartTest
  <2>1. [test EXCEPT !.phase = "running"] \in Tests
    BY <1>1 DEF Tests
  <2>2. calls' \in [Slots -> WizCalls]
    BY <1>7, <1>3 DEF StartTest
  <2> QED BY <1>7, <2>1, <2>2, <1>1, MovesTyped DEF StartTest
<1>8. CASE Read
  <2>1. PICK d \in Data : Stay(Send(calls, [Call("read") EXCEPT !.data = d]))
    BY <1>8, <1>6 DEF Read
  <2>2. ShapeOf(kind, stack', planned') /\ calls' \in [Slots -> WizCalls] /\ test' \in Tests
    BY <2>1, <1>4, StayIs
  <2> QED BY <1>8, <2>2, <1>1, MovesTyped DEF Read, Presses, Reacts
<1>9. CASE SignIn
  <2>1. ShapeOf(kind, stack', planned') /\ calls' \in [Slots -> WizCalls] /\ test' \in Tests
    BY <1>9, <1>3, StayIs DEF SignIn
  <2> QED BY <1>9, <2>1, <1>1, MovesTyped DEF SignIn, Presses, Reacts
<1>10. CASE CadenceContinue
  <2>1. ShapeOf(kind, stack', planned') /\ calls' \in [Slots -> WizCalls] /\ test' \in Tests
    BY <1>10, <1>5, StayIs DEF CadenceContinue
  <2> QED BY <1>10, <2>1, <1>1, MovesTyped DEF CadenceContinue, Presses, Reacts
<1>11. ASSUME NEW op \in Offers, RetryCall(op) PROVE WizardTyped'
  <2>1. \/ Stay(Send(calls, CadenceCall)) \/ Stay(Finalize("csv")) \/ Stay(Finalize("sheet"))
        \/ Advance(calls)
    BY <1>11 DEF RetryCall, Offers
  <2>2. Finalize("csv") \in [Slots -> WizCalls] /\ Finalize("sheet") \in [Slots -> WizCalls]
    BY <1>4, <1>6 DEF Finalize
  <2>3. ShapeOf(kind, stack', planned') /\ calls' \in [Slots -> WizCalls] /\ test' \in Tests
    BY <2>1, <2>2, <1>1, <1>5, StayIs, AdvanceIs
  <2> QED BY <1>11, <2>3, <1>1, MovesTyped DEF RetryCall, Reacts
<1>12. ASSUME NEW op \in Offers, Dismiss(op) PROVE WizardTyped'
  BY <1>12, <1>1, MovesTyped DEF Dismiss, view
<1> QED BY <1>7, <1>8, <1>9, <1>10, <1>11, <1>12

LEMMA DialogTyped ==
  ASSUME WizardTyped, Open \/ Close \/ Done \/ RefetchCards \/ RefetchCardsFails \/ SignedIn
  PROVE  WizardTyped'
<1>1. CASE Close \/ Done \/ RefetchCardsFails
  BY <1>1, ShutTyped DEF Close, Done, RefetchCardsFails
<1>2. CASE RefetchCards
  BY <1>2 DEF RefetchCards, WizardTyped, Connection, view, Deaf
<1>3. CASE Open
  <2>1. draft.redeemed \in BOOLEAN /\ calls \in [Slots -> WizCalls] /\ opened \in 0..Opens
    BY DEF WizardTyped, Drafts
  <2>2. page' = "open" /\ draft' \in Drafts /\ test' \in Tests /\ ShapeOf(kind, stack', planned')
    BY <1>3, <2>1, EnterTyped DEF Open
  <2>3. calls' \in [Slots -> WizCalls]
    BY <1>3, <2>1, ModeTyped DEF Open
  <2>4. opened' \in 0..Opens
    BY <1>3, <2>1, WizardAssumption DEF Open
  <2> QED BY <1>3, <2>2, <2>3, <2>4 DEF Open, WizardTyped
<1>4. CASE SignedIn
  <2>1. Redeemed(conn) \in Connection
    BY DEF WizardTyped, Redeemed, Connection, Modes
  <2>2. CASE conn' = Redeemed(conn) /\ Enter(TRUE)
    <3>1. page' = "open" /\ draft' \in Drafts /\ test' \in Tests /\ ShapeOf(kind, stack', planned')
      <4>1. \A b \in BOOLEAN : Enter(b) =>
              page' = "open" /\ draft' \in Drafts /\ test' \in Tests /\ ShapeOf(kind, stack', planned')
        BY EnterTyped
      <4> QED BY <4>1, <2>2
    <3> QED BY <1>4, <2>1, <2>2, <3>1 DEF SignedIn, WizardTyped
  <2>3. CASE conn' \in {conn, Redeemed(conn)} /\ page' = "closed" /\ UNCHANGED <<draft, stack, planned, test>>
    BY <1>4, <2>1, <2>3 DEF SignedIn, WizardTyped, Deaf
  <2> QED BY <1>4, <2>2, <2>3 DEF SignedIn
<1> QED BY <1>1, <1>2, <1>3, <1>4

-----------------------------------------------------------------------------
(* The server and its answers                                              *)

LEMMA RepliesTyped ==
  ASSUME WizardTyped, NEW s \in Slots, NEW said \in Answer,
         Reply(s, said) \/ (Half(s) /\ calls[s].op # "mode")
  PROVE  /\ calls' \in [Slots -> WizCalls]
         /\ \A t \in Slots : t # s => calls'[t] = calls[t]
         /\ calls'[s] \in {FreeSlot, [calls[s] EXCEPT !.pc = said]}
              \/ calls'[s] = [calls[s] EXCEPT !.pc = "half", !.mode = conn.mode]
         /\ Deaf(calls) => Deaf(calls')
<1>1. calls \in [Slots -> WizCalls] /\ conn.mode \in Modes \cup {None} /\ FreeSlot \in WizCalls
  BY DEF WizardTyped, Connection, FreeSlot, Call, WizCalls, Ops, Moving
<1>2. CASE Reply(s, said)
  <2>1. [calls[s] EXCEPT !.pc = said] \in WizCalls
    BY <1>1 DEF WizCalls
  <2>2. FreeSlot.op \notin Moving
    BY DEF FreeSlot, Call, Moving
  <2>3. [calls[s] EXCEPT !.pc = said].op = calls[s].op
        /\ [calls[s] EXCEPT !.pc = said].heard = calls[s].heard
    BY <1>1 DEF WizCalls
  <2>4. \/ calls' = [calls EXCEPT ![s] = FreeSlot]
        \/ calls' = [calls EXCEPT ![s] = [calls[s] EXCEPT !.pc = said]]
    BY <1>2, <1>1 DEF Reply, Drop
  <2>5. CASE calls' = [calls EXCEPT ![s] = FreeSlot]
    BY <2>5, <1>1, <2>2 DEF Deaf
  <2>6. CASE calls' = [calls EXCEPT ![s] = [calls[s] EXCEPT !.pc = said]]
    BY <2>6, <1>1, <2>1, <2>3 DEF Deaf
  <2> QED BY <2>4, <2>5, <2>6
<1>3. CASE Half(s) /\ calls[s].op # "mode"
  <2>1. calls' = [calls EXCEPT ![s] = [calls[s] EXCEPT !.pc = "half", !.mode = conn.mode]]
    BY <1>3, <1>1 DEF Half
  <2>2. [calls[s] EXCEPT !.pc = "half", !.mode = conn.mode] \in WizCalls
    BY <1>1, <1>3 DEF WizCalls
  <2>3. [calls[s] EXCEPT !.pc = "half", !.mode = conn.mode].op = calls[s].op
        /\ [calls[s] EXCEPT !.pc = "half", !.mode = conn.mode].heard = calls[s].heard
    BY <1>1 DEF WizCalls
  <2> QED BY <2>1, <2>2, <2>3, <1>1 DEF Deaf
<1> QED BY <1>2, <1>3

(* What a call leaves in the row, and how it is answered.                  *)
LEMMA ServeIs ==
  ASSUME WizardTyped, NEW s \in Slots, Serve(s)
  PROVE  /\ UNCHANGED <<kind, cache, page, opened, stack, planned, draft, test, toasts>>
         /\ \/ /\ calls[s].op = "mode"
               /\ conn' = SetMode(conn, calls[s].mode) /\ Reply(s, "ok")
            \/ /\ calls[s].op = "start"
               /\ conn' = SetMode(conn, "live") /\ Reply(s, "ok")
            \/ /\ calls[s].op \in Moving /\ conn' = conn
               /\ \E said \in {"needs", "error"} : Reply(s, said)
            \/ /\ calls[s].op \in {"save", "retest"} /\ Half(s)
               /\ conn' \in {conn, Invited(conn)}
            \/ /\ calls[s].op \in {"save", "retest"} /\ calls[s].pc = "half"
               /\ conn' = Tested(conn, calls[s].mode, TRUE) /\ Reply(s, "ok")
            \/ /\ calls[s].op \in {"save", "retest"}
               /\ conn' = Tested(conn, calls[s].mode, FALSE) /\ Reply(s, "bad")
            \/ /\ calls[s].op \in {"read", "finalize"}
               /\ conn' = Ingested(kind, conn, calls[s].data) /\ Reply(s, "ok")
            \/ /\ calls[s].op \in {"read", "finalize"}
               /\ conn' = IngestFailed(conn) /\ Reply(s, "bad")
            \/ /\ calls[s].op = "cadence" /\ conn' = SetCadence(conn, calls[s].cadence)
               /\ Half(s)
            \/ /\ calls[s].op = "cadence" /\ calls[s].pc = "half"
               /\ conn' = Completed(kind, SetCadence(conn, calls[s].cadence)) /\ Reply(s, "ok")
<1>1. UNCHANGED <<kind, cache, page, opened, stack, planned, draft, test, toasts>>
  BY DEF Serve
<1> DEFINE c == calls[s]
<1>2. CASE c.op \in {"mode", "start"}
  BY <1>1, <1>2 DEF Serve
<1>3. CASE c.op \in {"save", "retest"}
  <2>1. CASE c.pc = "sent"
    BY <1>1, <1>3, <2>1 DEF Serve, Moving
  <2>2. CASE c.pc = "half"
    <3>1. PICK ok \in BOOLEAN : conn' = Tested(conn, c.mode, ok) /\ Reply(s, IF ok THEN "ok" ELSE "bad")
      BY <1>3, <2>2 DEF Serve
    <3>2. CASE ok = TRUE
      BY <1>1, <1>3, <2>2, <3>1, <3>2
    <3>3. CASE ok = FALSE
      BY <1>1, <1>3, <2>2, <3>1, <3>3
    <3> QED BY <3>2, <3>3
  <2> QED BY <1>3, <2>1, <2>2 DEF Serve
<1>4. CASE c.op \in {"read", "finalize"}
  <2>1. Ingest(s) \/ (Reply(s, "error") /\ UNCHANGED conn)
    BY <1>4 DEF Serve
  <2> QED BY <1>1, <1>4, <2>1 DEF Ingest, Moving
<1>5. CASE c.op = "cadence"
  BY <1>1, <1>5 DEF Serve
<1> QED BY <1>2, <1>3, <1>4, <1>5 DEF Serve

LEMMA ServeTyped ==
  ASSUME WizardTyped, NEW s \in Slots, Serve(s) \/ Fail(s)
  PROVE  WizardTyped'
<1>1. conn \in Connection /\ kind \in Kinds /\ calls[s] \in WizCalls
  BY DEF WizardTyped
<1>2. /\ UNCHANGED <<kind, cache, page, opened, stack, planned, draft, test, toasts>>
      /\ (\E said \in Answer : Reply(s, said)) \/ (Half(s) /\ calls[s].op # "mode")
  BY ServeIs DEF Fail, Answer
<1>3. conn' \in Connection
  <2>1. CASE Fail(s)
    BY <2>1, <1>1 DEF Fail
  <2>2. CASE Serve(s)
    <3>1. /\ calls[s].op = "mode" => calls[s].mode \in Modes
          /\ calls[s].op \in {"read", "finalize"} => calls[s].data \in Data
          /\ calls[s].mode \in Modes \cup {None} /\ calls[s].cadence \in Cadences \cup {None}
      BY <1>1 DEF WizCalls
    <3>2. SetMode(conn, "live") \in Connection
          /\ (calls[s].op = "mode" => SetMode(conn, calls[s].mode) \in Connection)
      BY <1>1, <3>1 DEF SetMode, Connection, Modes
    <3>3. Invited(conn) \in Connection /\ IngestFailed(conn) \in Connection
      BY <1>1 DEF Invited, IngestFailed, Connection
    <3>4. \A ok \in BOOLEAN : Tested(conn, calls[s].mode, ok) \in Connection
      BY <1>1 DEF Tested, Connection, Modes
    <3>5. calls[s].op \in {"read", "finalize"} => Ingested(kind, conn, calls[s].data) \in Connection
      BY <1>1, <3>1 DEF Ingested, Connection, Modes
    <3>6. SetCadence(conn, calls[s].cadence) \in Connection
      BY <1>1, <3>1 DEF SetCadence, Connection
    <3>7. Completed(kind, SetCadence(conn, calls[s].cadence)) \in Connection
      BY <3>6 DEF Completed, Connection, Modes
    <3>8. CASE calls[s].op \in {"save", "retest"} /\ \E ok \in BOOLEAN : conn' = Tested(conn, calls[s].mode, ok)
      BY <3>4, <3>8
    <3> QED BY <2>2, <1>1, <3>2, <3>3, <3>5, <3>6, <3>7, <3>8, ServeIs
  <2> QED BY <2>1, <2>2
<1>4. calls' \in [Slots -> WizCalls] /\ (Deaf(calls) => Deaf(calls'))
  <2>1. "ok" \in Answer
    BY DEF Answer
  <2> QED BY <2>1, <1>2, RepliesTyped
<1> QED BY <1>2, <1>3, <1>4 DEF WizardTyped, Deaf

LEMMA HearsTyped ==
  ASSUME WizardTyped, NEW s \in Slots, Hear(s)
  PROVE  WizardTyped'
<1>1. page = "open"
  <2>1. calls[s].heard /\ calls[s].op \in Moving
    BY DEF Hear, HearStart, HearNoStart, HearTest, HearRead, HearFinalize, HearCadence, Hears, Moving
  <2> QED BY <2>1 DEF WizardTyped, Deaf
<1>2. /\ calls \in [Slots -> WizCalls] /\ draft \in Drafts /\ toasts \subseteq Offers /\ test \in Tests
      /\ ShapeOf(kind, stack, planned)
  BY DEF WizardTyped
<1>3. Drop(calls, s) \in [Slots -> WizCalls]
  <2>1. FreeSlot \in WizCalls
    BY DEF FreeSlot, Call, WizCalls, Ops, Moving
  <2> QED BY <2>1, <1>2 DEF Drop
<1>4. \A cs : cs = Drop(calls, s) /\ (Stay(cs) \/ Advance(cs)) =>
         ShapeOf(kind, stack', planned') /\ calls' \in [Slots -> WizCalls] /\ test' \in Tests
  BY <1>3, StayIs, AdvanceIs
<1>5. CASE HearStart(s)
  <2>1. NoDraft \in Drafts /\ Untested \in Tests
    BY DraftsTyped
  <2>2. Unheard(Drop(calls, s), Ops) \in [Slots -> WizCalls]
    BY <1>3, CallsTyped DEF WizardTyped
  <2>3. Deaf(Unheard(Drop(calls, s), Ops))
    <3> DEFINE cs == Drop(calls, s)
    <3> SUFFICES ASSUME NEW t \in Slots, Unheard(cs, Ops)[t].op \in Moving
                 PROVE  ~Unheard(cs, Ops)[t].heard
      BY DEF Deaf
    <3> HIDE DEF cs
    <3>1. cs[t] \in WizCalls /\ FreeSlot.op \notin Moving /\ Moving \subseteq Ops
      BY <1>3 DEF cs, FreeSlot, Call, Moving, Ops
    <3> QED BY <3>1 DEF Unheard, WizCalls
  <2>4. ShapeOf(kind, <<>>, <<>>)
    BY DEF ShapeOf, PlanFits, StackFits
  <2> QED BY <1>5, <2>1, <2>2, <2>3, <2>4 DEF HearStart, WizardTyped
<1>6. CASE HearNoStart(s)
  BY <1>1, <1>2, <1>4, <1>6, MovesTyped DEF HearNoStart
<1>7. CASE HearTest(s)
  <2>1. test' \in Tests
    BY <1>2, <1>7 DEF HearTest, Tests
  <2> QED BY <1>1, <1>2, <1>3, <1>7, <2>1, MovesTyped DEF HearTest
<1>8. CASE HearRead(s)
  <2>1. draft' \in Drafts
    <3>1. ASSUME NEW found \in Mappings
          PROVE  [draft EXCEPT !.mapping = @ \cup found, !.ready = kind = "sheets"] \in Drafts
      <4>1. draft.mapping \cup found \in Mappings
        BY <1>2, <3>1 DEF Drafts, Mappings
      <4>2. (kind = "sheets") \in BOOLEAN
        OBVIOUS
      <4> QED BY <4>1, <4>2, <1>2 DEF Drafts
    <3>2. [draft EXCEPT !.ready = FALSE] \in Drafts
      BY <1>2 DEF Drafts
    <3> QED BY <3>1, <3>2, <1>8 DEF HearRead
  <2>2. Stay(Drop(calls, s)) \/ Advance(Drop(calls, s))
    BY <1>8 DEF HearRead
  <2> QED BY <1>1, <1>2, <1>4, <1>8, <2>1, <2>2, MovesTyped DEF HearRead
<1>9. CASE HearFinalize(s)
  <2>1. calls[s].data.from \in Offers
    <3>1. calls[s] \in WizCalls /\ calls[s].op = "finalize"
      BY <1>2, <1>9 DEF HearFinalize, Hears
    <3> QED BY <3>1 DEF WizCalls, Data, Offers
  <2>2. toasts' \subseteq Offers /\ (Stay(Drop(calls, s)) \/ Advance(Drop(calls, s)))
    BY <1>2, <1>9, <2>1 DEF HearFinalize
  <2> QED BY <1>1, <1>2, <1>4, <1>9, <2>2, MovesTyped DEF HearFinalize
<1>10. CASE HearCadence(s)
  <2>1. toasts' \subseteq Offers /\ (Stay(Drop(calls, s)) \/ Advance(Drop(calls, s)))
    BY <1>2, <1>10 DEF HearCadence, Offers
  <2> QED BY <1>1, <1>2, <1>4, <1>10, <2>1, MovesTyped DEF HearCadence
<1> QED BY <1>5, <1>6, <1>7, <1>8, <1>9, <1>10 DEF Hear

LEMMA TypedStep ==
  ASSUME WizardTyped, [WizardNext]_wizardVars
  PROVE  WizardTyped'
<1>1. CASE UNCHANGED wizardVars
  BY <1>1 DEF WizardTyped, wizardVars, view, Deaf
<1>2. CASE OwnerActs
  BY <1>2, DialogTyped, PlanActsTyped, EntriesTyped, SendsTyped DEF OwnerActs, Offers
<1>3. CASE RefetchCards \/ RefetchCardsFails
  BY <1>3, DialogTyped
<1>4. CASE \E s \in Slots : Serve(s) \/ Fail(s) \/ Hear(s)
  BY <1>4, ServeTyped, HearsTyped
<1> QED BY <1>1, <1>2, <1>3, <1>4 DEF WizardNext

-----------------------------------------------------------------------------
(* A careful owner: the calls and the steps                                *)

LEMMA OnePress ==
  ASSUME Careful, WizardInv
  PROVE  /\ Reacts => page = "open" /\ Calm(calls)
         /\ Presses => page = "open" /\ Calm(calls) /\ toasts = {}
<1>1. Reacts => page = "open" /\ Calm(calls)
  BY DEF Reacts, Running, WizardInv, Kept, CallFits, Calm
<1> QED BY <1>1 DEF Presses

LEMMA CalmUnheard ==
  ASSUME WizardTyped, NEW cs \in [Slots -> WizCalls], Calm(cs)
  PROVE  Unheard(cs, StepOps) = cs
<1>1. StepOps \subseteq Moving
  BY DEF StepOps, Moving
<1> QED BY <1>1 DEF Unheard, Calm

LEMMA CalmMode ==
  ASSUME NEW cs \in [Slots -> WizCalls], Calm(cs), NEW m \in Modes
  PROVE  Calm(WithMode(cs, m))
<1>1. [Call("mode") EXCEPT !.mode = m].op \notin Moving
  BY DEF Call, Moving
<1> QED BY <1>1 DEF Calm, WithMode, Send

LEMMA TopIs ==
  ASSUME WizardTyped, Top \in Steps
  PROVE  /\ stack # <<>> /\ Len(stack) \in 1..Len(stack) /\ stack \in Seq(Steps)
         /\ stack[Len(stack)] = Top /\ LastStep(stack) = Top /\ page = "open"
         /\ Top \in LiveSteps => kind \in {"live", "both"}
         /\ Top \in BeforeMapping => ~On("mapping", stack)
         /\ Top \in {"mapping"} \cup Formats => On("mapping", stack)
         /\ Top \notin {"choice", "done"} =>
              /\ Len(stack) < Len(planned) /\ StepAfter(kind, Top, planned[Len(stack) + 1])
              /\ planned[Len(stack) + 1] \in Steps
              /\ Ahead # <<>> /\ Ahead[1] = planned[Len(stack) + 1]
<1>1. stack # <<>> /\ stack[Len(stack)] = Top /\ LastStep(stack) = Top
  BY DEF Top, Steps, Formats, LastStep
<1>2. ShapeOf(kind, stack, planned) /\ page = "open"
  BY <1>1 DEF WizardTyped
<1>3. stack \in Seq(Steps) /\ Len(stack) \in 1..Len(stack) /\ Len(stack) <= Len(planned)
      /\ planned \in Seq(Steps) /\ Len(planned) \in Nat
  BY <1>1, <1>2, EmptySeq DEF ShapeOf, StackFits, PlanFits
<1>4. Len(stack) \in 1..Len(planned) /\ planned[Len(stack)] = Top
  BY <1>1, <1>2, <1>3 DEF ShapeOf, StackFits
<1>5. Top \in LiveSteps => kind \in {"live", "both"}
  BY <1>4, <1>2 DEF ShapeOf, PlanFits
<1>6. Top \in BeforeMapping => ~On("mapping", stack)
  <2> SUFFICES ASSUME Top \in BeforeMapping, NEW j \in 1..Len(stack), stack[j] = "mapping"
               PROVE  FALSE
    BY DEF On
  <2>1. Len(stack) < j
    BY <1>1, <1>2, <1>3 DEF ShapeOf, StackFits
  <2> QED BY <2>1, <1>3
<1>7. Top \in {"mapping"} \cup Formats => On("mapping", stack)
  <2>1. CASE Top = "mapping"
    BY <2>1, <1>1, <1>3 DEF On
  <2>2. CASE Top \in Formats
    BY <2>2, <1>1, <1>2, <1>3 DEF On, ShapeOf, StackFits
  <2> QED BY <2>1, <2>2
<1>8. ASSUME Top \notin {"choice", "done"}
      PROVE  /\ Len(stack) < Len(planned) /\ StepAfter(kind, Top, planned[Len(stack) + 1])
             /\ planned[Len(stack) + 1] \in Steps
             /\ Ahead # <<>> /\ Ahead[1] = planned[Len(stack) + 1]
  <2>1. Len(stack) < Len(planned) /\ StepAfter(kind, Top, planned[Len(stack) + 1])
    BY <1>8, <1>2, <1>3, <1>4 DEF ShapeOf, PlanFits
  <2>2. planned[Len(stack) + 1] \in Steps
    BY <2>1, <1>3
  <2>3. Ahead = SubSeq(planned, Len(stack) + 1, Len(planned))
    BY DEF Ahead
  <2>4. /\ Ahead \in Seq(Steps) /\ Len(Ahead) = Len(planned) - Len(stack)
        /\ Ahead = <<>> <=> Len(stack) = Len(planned)
        /\ \A i \in 1..Len(Ahead) : Ahead[i] = planned[Len(stack) + i]
    BY <2>3, <1>2, AheadIs
  <2>5. 1 \in 1..Len(Ahead)
    BY <2>1, <2>4, <1>3
  <2> QED BY <2>1, <2>2, <2>4, <2>5, <1>3
<1> QED BY <1>1, <1>2, <1>3, <1>5, <1>6, <1>7, <1>8

LEMMA PushedIs ==
  ASSUME NEW st \in Seq(Steps), NEW y \in Steps
  PROVE  /\ Append(st, y) # st /\ LastStep(Append(st, y)) = y
         /\ \A step : On(step, Append(st, y)) <=> On(step, st) \/ step = y
<1> DEFINE up == Append(st, y)
           n == Len(st)
<1>1. n \in Nat /\ up \in Seq(Steps) /\ Len(up) = n + 1 /\ up[n + 1] = y
      /\ \A i \in 1..n : up[i] = st[i]
  OBVIOUS
<1> HIDE DEF up
<1>2. up # st
  BY <1>1
<1>3. up # <<>>
  BY <1>1, EmptySeq
<1>4. LastStep(up) = y
  BY <1>1, <1>3 DEF LastStep
<1>5. ASSUME NEW step PROVE On(step, up) <=> On(step, st) \/ step = y
  <2>1. ASSUME On(step, up) PROVE On(step, st) \/ step = y
    <3>1. PICK i \in 1..(n + 1) : up[i] = step
      BY <2>1, <1>1 DEF On
    <3>2. i \in 1..n \/ i = n + 1
      BY <1>1
    <3> QED BY <3>1, <3>2, <1>1 DEF On
  <2>2. ASSUME On(step, st) PROVE On(step, up)
    <3>1. PICK i \in 1..n : st[i] = step
      BY <2>2 DEF On
    <3>2. i \in 1..(n + 1)
      BY <1>1
    <3> QED BY <3>1, <3>2, <1>1 DEF On
  <2>3. n + 1 \in 1..(n + 1)
    BY <1>1
  <2> QED BY <2>1, <2>2, <2>3, <1>1 DEF On
<1> QED BY <1>2, <1>4, <1>5 DEF up

LEMMA CalmKept ==
  ASSUME page' = "open", Calm(calls'), toasts' = {}, StepsLeft'
  PROVE  Kept'
BY DEF Kept, Calm, CallFits, OneCall, ToastsFit, Moving

(* A step is pushed when nothing is under way.                             *)
LEMMA PushKept ==
  ASSUME WizardInv, page = "open", UNCHANGED <<kind, conn, page>>, toasts' = {},
         NEW cs \in [Slots -> WizCalls], Calm(cs), NEW y \in Steps,
         stack' = Append(stack, y), Show(stack', planned', cs),
         HasSource(draft') = HasSource(draft), draft'.ready => HasSource(draft),
         y = "mapping" => HasSource(draft), y = "seed" => Proven(conn),
         y \in {"cadence", "done"} => Grounds(kind, conn, draft', stack'),
         y = "done" => conn.completed /\ conn.cadence = draft'.cadence
  PROVE  Kept'
<1>1. stack \in Seq(Steps) /\ WizardTyped
  BY DEF WizardInv, WizardTyped, ShapeOf, StackFits
<1>2. /\ stack' # stack /\ LastStep(stack') = y
      /\ \A step : On(step, stack') <=> On(step, stack) \/ step = y
  BY <1>1, PushedIs
<1>3. calls' = cs /\ test' = Untested
  BY <1>1, <1>2, CalmUnheard DEF Show
<1>4. StepsOf(kind, conn, draft, stack, test.phase)
  BY DEF WizardInv, Kept, StepsLeft
<1>5. StepsOf(kind', conn', draft', stack', test'.phase)
  BY <1>2, <1>3, <1>4 DEF StepsOf, Untested
<1>6. StepsLeft'
  BY <1>5 DEF StepsLeft
<1> QED BY <1>3, <1>6, CalmKept

LEMMA BackKept ==
  ASSUME Careful, WizardInv, Back
  PROVE  Kept'
<1>1. WizardTyped /\ page = "open" /\ Calm(calls) /\ toasts = {} /\ StepsLeft
  BY OnePress DEF Back, WizardInv, Kept
<1>2. /\ stack \in Seq(Steps) /\ Len(stack) \in Nat /\ Len(stack) > 1 /\ Top = stack[Len(stack)]
      /\ Top # "done" /\ Top \in Steps
  <2>1. stack \in Seq(Steps) /\ Len(stack) > 1
    BY <1>1 DEF Back, WizardTyped, ShapeOf, StackFits
  <2>2. stack # <<>>
    <3>1. Len(<<>>) = 0
      OBVIOUS
    <3> QED BY <2>1, <3>1
  <2> QED BY <2>1, <2>2 DEF Back, Top
<1> DEFINE dn == SubSeq(stack, 1, Len(stack) - 1)
<1>3. /\ dn \in Seq(Steps) /\ Len(dn) = Len(stack) - 1
      /\ \A i \in 1..(Len(stack) - 1) : dn[i] = stack[i]
  BY <1>2
<1>4. Show(dn, planned, calls) /\ UNCHANGED <<kind, conn, cache, page, opened, draft, toasts>>
  BY DEF Back
<1> HIDE DEF dn
<1>5. stack' = dn /\ dn # stack /\ dn # <<>>
  <2>1. Len(dn) > 0 /\ Len(dn) # Len(stack)
    BY <1>2, <1>3
  <2>2. Len(<<>>) = 0
    OBVIOUS
  <2> QED BY <1>4, <2>1, <2>2 DEF Show
<1>6. calls' = calls /\ test' = Untested
  BY <1>1, <1>4, <1>5, CalmUnheard DEF Show, WizardTyped
<1>7. \A step : On(step, dn) => On(step, stack)
  <2> SUFFICES ASSUME NEW step, On(step, dn) PROVE On(step, stack)
    OBVIOUS
  <2>1. PICK i \in 1..(Len(stack) - 1) : dn[i] = step
    BY <1>3 DEF On
  <2>2. i \in 1..Len(stack)
    BY <1>2
  <2> QED BY <2>1, <2>2, <1>3 DEF On
<1>8. LastStep(dn) \notin {"cadence", "done"}
  <2>1. LastStep(dn) = stack[Len(stack) - 1] /\ Len(stack) - 1 \in 1..Len(stack)
    BY <1>2, <1>3, <1>5 DEF LastStep
  <2>2. /\ planned \in Seq(Steps) /\ Len(planned) \in Nat /\ Len(stack) <= Len(planned)
        /\ planned[Len(stack) - 1] = stack[Len(stack) - 1]
        /\ planned[Len(stack)] = stack[Len(stack)]
    BY <1>1, <1>2 DEF WizardTyped, ShapeOf, PlanFits, StackFits
  <2>3. Len(stack) - 1 \in 1..Len(planned) /\ Len(stack) - 1 < Len(planned)
        /\ (Len(stack) - 1) + 1 = Len(stack)
    BY <1>2, <2>2
  <2>4. StepAfter(kind, planned[Len(stack) - 1], planned[(Len(stack) - 1) + 1])
    BY <1>1, <2>3 DEF WizardTyped, ShapeOf, PlanFits
  <2>5. StepAfter(kind, stack[Len(stack) - 1], stack[Len(stack)])
    BY <2>2, <2>3, <2>4
  <2> QED BY <1>2, <2>1, <2>5 DEF StepAfter
<1>9. StepsOf(kind', conn', draft', stack', test'.phase)
  BY <1>1, <1>4, <1>5, <1>6, <1>7, <1>8 DEF StepsLeft, StepsOf, Untested
<1> QED BY <1>1, <1>4, <1>6, <1>9, CalmKept DEF StepsLeft

(* A step forward along the plan.                                          *)
LEMMA OnwardKept ==
  ASSUME WizardInv, UNCHANGED <<kind, conn, page>>, toasts' = {},
         NEW cs \in [Slots -> WizCalls], Calm(cs), Advance(cs),
         Top \in Steps \ {"choice", "done"},
         HasSource(draft') = HasSource(draft), draft'.ready => HasSource(draft),
         Top \in {"upload", "sheets"} => HasSource(draft),
         Top \in {"test", "seed"} => Proven(conn),
         Top = "mapping" /\ planned[Len(stack) + 1] = "cadence" => AsDrafted(conn, draft'),
         Top = "delimiter" => AsDrafted(conn, draft'),
         Top = "cadence" => /\ AsDrafted(conn, draft) => AsDrafted(conn, draft')
                            /\ conn.completed /\ conn.cadence = draft'.cadence
  PROVE  Kept'
<1> DEFINE y == planned[Len(stack) + 1]
<1>1. /\ WizardTyped /\ page = "open" /\ StepAfter(kind, Top, y) /\ y \in Steps
      /\ Len(stack) < Len(planned) /\ stack \in Seq(Steps)
      /\ Top \in LiveSteps => kind \in {"live", "both"}
      /\ Top \in BeforeMapping => ~On("mapping", stack)
      /\ Top \in {"mapping"} \cup Formats => On("mapping", stack)
      /\ LastStep(stack) = Top
  BY TopIs DEF WizardInv
<1>2. stack' = Append(stack, y) /\ Show(stack', planned', cs)
  BY <1>1, AdvanceIs
<1> HIDE DEF y
<1>3. \A step : On(step, stack') <=> On(step, stack) \/ step = y
  BY <1>1, <1>2, PushedIs
<1>4. y = "mapping" => HasSource(draft)
  BY <1>1 DEF StepAfter
<1>5. y = "seed" => Proven(conn)
  BY <1>1 DEF StepAfter
<1>6. y = "cadence" => Grounds(kind, conn, draft', stack')
  <2> SUFFICES ASSUME y = "cadence" PROVE Grounds(kind, conn, draft', stack')
    OBVIOUS
  <2>1. Top \in {"test", "seed", "mapping", "delimiter"}
    BY <1>1 DEF StepAfter
  <2>2. CASE Top \in {"test", "seed"}
    <3>1. ~On("mapping", stack') /\ kind \in {"live", "both"}
      BY <2>2, <1>1, <1>3 DEF BeforeMapping, LiveSteps
    <3> QED BY <2>2, <3>1 DEF Grounds
  <2>3. CASE Top \in {"mapping", "delimiter"}
    <3>1. On("mapping", stack')
      BY <2>3, <1>1, <1>3 DEF Formats
    <3> QED BY <2>3, <3>1 DEF Grounds, y
  <2> QED BY <2>1, <2>2, <2>3
<1>7. y = "done" => /\ Grounds(kind, conn, draft', stack')
                    /\ conn.completed /\ conn.cadence = draft'.cadence
  <2> SUFFICES ASSUME y = "done"
               PROVE  Grounds(kind, conn, draft', stack') /\ conn.completed /\ conn.cadence = draft'.cadence
    OBVIOUS
  <2>1. Top = "cadence"
    BY <1>1 DEF StepAfter
  <2>2. Grounds(kind, conn, draft, stack)
    BY <2>1, <1>1 DEF WizardInv, Kept, StepsLeft, StepsOf
  <2>3. On("mapping", stack') <=> On("mapping", stack)
    BY <1>3
  <2> QED BY <2>1, <2>2, <2>3 DEF Grounds
<1> QED BY <1>1, <1>2, <1>4, <1>5, <1>6, <1>7, PushKept

LEMMA PlanActsKept ==
  ASSUME Careful, WizardInv,
         \/ \E mode \in Modes : Choose(mode)
         \/ CredentialContinue \/ TestPassed \/ SeedSkip \/ SeedUpload
         \/ SheetsContinue \/ MappingContinue \/ FormatContinue
  PROVE  Kept' \/ \E from \in {"csv", "sheet"} :
                    /\ Presses /\ Room /\ from = Source /\ calls' = Finalize(from) /\ test' = test
                    /\ stack' = stack /\ planned'[Len(stack) + 1] = "cadence"
                    /\ Top \in {"mapping"} \cup Formats
                    /\ UNCHANGED <<kind, conn, page, draft, toasts>>
<1>1. WizardTyped /\ StepsLeft /\ calls \in [Slots -> WizCalls]
  BY DEF WizardInv, WizardTyped, Kept, TestPassed, Choose, CredentialContinue, SeedSkip, SeedUpload,
         SheetsContinue, MappingContinue, FormatContinue, Presses, Reacts
<1>2. CASE CredentialContinue
  <2>1. Top = "cred" /\ Calm(calls) /\ toasts = {} /\ Advance(calls)
        /\ UNCHANGED <<kind, conn, page, draft, toasts>>
    BY <1>2, OnePress DEF CredentialContinue
  <2> QED BY <1>1, <2>1, OnwardKept DEF Steps, StepsLeft, StepsOf
<1>3. CASE TestPassed
  <2>1. Top = "test" /\ test.phase = "passed" /\ page = "open" /\ Advance(calls)
        /\ UNCHANGED <<kind, conn, page, draft, toasts>>
    BY <1>3 DEF TestPassed
  <2>2. Calm(calls)
    BY <2>1 DEF WizardInv, Kept, CallFits, ToConfirm, Formats, Calm, Moving
  <2>3. toasts = {}
    <3>1. toasts \subseteq Offers /\ ToastsFit
      BY <2>1, <1>1 DEF WizardInv, Kept, WizardTyped
    <3>2. \A o \in Offers : o \notin toasts
      BY <3>1, <2>1 DEF ToastsFit, ToConfirm, Formats, Offers
    <3> QED BY <3>1, <3>2
  <2>4. Proven(conn)
    BY <1>1, <2>1 DEF StepsLeft, StepsOf
  <2> QED BY <1>1, <2>1, <2>2, <2>3, <2>4, OnwardKept DEF Steps, StepsLeft, StepsOf
<1>4. CASE SeedSkip
  <2>1. Top = "seed" /\ Calm(calls) /\ toasts = {} /\ Advance(calls)
        /\ UNCHANGED <<kind, conn, page, draft, toasts>>
    BY <1>4, OnePress DEF SeedSkip
  <2>2. Proven(conn)
    <3>1. On("seed", stack)
      BY <1>1, <2>1, TopIs DEF Steps, On
    <3> QED BY <1>1, <3>1 DEF StepsLeft, StepsOf
  <2> QED BY <1>1, <2>1, <2>2, OnwardKept DEF Steps, StepsLeft, StepsOf
<1>5. CASE SheetsContinue
  <2>1. Top = "sheets" /\ Calm(calls) /\ toasts = {} /\ Advance(calls) /\ draft.ready
        /\ UNCHANGED <<kind, conn, page, draft, toasts>>
    BY <1>5, OnePress DEF SheetsContinue
  <2> QED BY <1>1, <2>1, OnwardKept DEF Steps, StepsLeft, StepsOf
<1>6. ASSUME NEW ahead, NEW cs \in [Slots -> WizCalls], Calm(cs), Replan(ahead, cs), PlanFits(kind, ahead), ahead # <<>>,
             Top \in Steps, StepAfter(kind, Top, ahead[1]), ahead[1] \in {"cred", "upload", "email"},
             page = "open", toasts = {}, UNCHANGED <<kind, conn, page, draft, toasts>>
      PROVE  Kept'
  <2>1. stack # <<>> /\ stack[Len(stack)] = Top /\ ahead[1] \in Steps
    BY <1>1, <1>6, TopIs DEF Steps, Formats
  <2>2. stack' = Append(stack, ahead[1]) /\ Show(stack', planned', cs)
    BY <1>1, <1>6, <2>1, ReplanIs
  <2> QED BY <1>1, <1>6, <2>1, <2>2, PushKept DEF StepsLeft, StepsOf
<1>7. kind \in Kinds
  BY <1>1 DEF WizardTyped
<1>8. ASSUME NEW mode \in Modes, Choose(mode)
      PROVE  Kept'
  <2>1. /\ Top = "choice" /\ Calm(calls) /\ toasts = {} /\ page = "open"
        /\ Replan(Branch(mode), WithMode(calls, mode))
        /\ UNCHANGED <<kind, conn, page, draft, toasts>>
    BY <1>8, OnePress DEF Choose
  <2>2. kind \in {"live", "both"}
    BY <1>1, <2>1, TopIs DEF Steps, LiveSteps
  <2>3. PlanFits(kind, Branch(mode)) /\ Branch(mode) # <<>> /\ Branch(mode)[1] \in {"cred", "upload"}
    <3>1. PlanFits(kind, Branch(mode)) /\ Len(Branch(mode)) > 0 /\ Branch(mode)[1] \in {"cred", "upload"}
      BY <2>2, <1>7, PlansFit DEF Branch, Modes
    <3>2. Len(<<>>) = 0
      OBVIOUS
    <3> QED BY ONLY <3>1, <3>2
  <2>4. StepAfter(kind, "choice", Branch(mode)[1])
    BY <2>3 DEF StepAfter
  <2>5. WithMode(calls, mode) \in [Slots -> WizCalls] /\ Calm(WithMode(calls, mode))
    BY <1>1, <2>1, ModeTyped, CalmMode
  <2> QED BY <2>1, <2>3, <2>4, <2>5, <1>6 DEF Steps
<1>9. CASE SeedUpload
  <2>1. /\ Top = "seed" /\ Calm(calls) /\ toasts = {} /\ page = "open"
        /\ Replan(UploadBranch, WithMode(calls, "upload"))
        /\ UNCHANGED <<kind, conn, page, draft, toasts>>
    BY <1>9, OnePress DEF SeedUpload
  <2>2. PlanFits(kind, UploadBranch) /\ UploadBranch # <<>> /\ UploadBranch[1] = "upload"
    <3>1. PlanFits(kind, UploadBranch) /\ Len(UploadBranch) > 0 /\ UploadBranch[1] = "upload"
      BY <1>7, PlansFit
    <3>2. Len(<<>>) = 0
      OBVIOUS
    <3> QED BY ONLY <3>1, <3>2
  <2>3. StepAfter(kind, "seed", UploadBranch[1])
    BY <2>2 DEF StepAfter
  <2>4. WithMode(calls, "upload") \in [Slots -> WizCalls] /\ Calm(WithMode(calls, "upload"))
    BY <1>1, <2>1, ModeTyped, CalmMode DEF Modes
  <2> QED BY <2>1, <2>2, <2>3, <2>4, <1>6 DEF Steps
<1>10. HasSource(draft) => Source \in {"csv", "sheet"} /\ Source # None
  BY WizardAssumption DEF HasSource, Source
<1>11. CASE MappingContinue
  <2>1. /\ Top = "mapping" /\ Calm(calls) /\ toasts = {} /\ page = "open" /\ Presses /\ Room
        /\ UNCHANGED <<kind, conn, page, draft, toasts>>
    BY <1>11, OnePress DEF MappingContinue
  <2>2. HasSource(draft)
    BY <1>1, <2>1, TopIs DEF Steps, StepsLeft, StepsOf
  <2>3. /\ PlanFits(kind, Unformatted) /\ Unformatted # <<>> /\ Unformatted[1] = "cadence"
        /\ StepAfter(kind, "mapping", "cadence") /\ StepAfter(kind, "mapping", "email")
    BY <2>1, <1>1, MappingAhead DEF WizardTyped
  <2>4. CASE FormatSteps(draft.mapping) # <<>>
    <3> DEFINE ahead == <<"email", "delimiter">> \o Unformatted
    <3>1. Replan(ahead, calls)
      BY <1>11, <2>4 DEF MappingContinue, FormatSteps
    <3>2. PlanFits(kind, ahead)
      BY <2>3, FormatsFit
    <3>3. ahead # <<>> /\ ahead[1] = "email"
      <4>1. Unformatted \in Seq(Steps)
        BY <2>3 DEF PlanFits
      <4>2. Len(ahead) = 2 + Len(Unformatted) /\ Len(Unformatted) \in Nat /\ ahead[1] = "email"
        BY <4>1
      <4>3. Len(ahead) > 0 /\ Len(<<>>) = 0
        BY <4>2
      <4> QED BY <4>2, <4>3
    <3> HIDE DEF ahead
    <3> QED BY <2>1, <2>3, <3>1, <3>2, <3>3, <1>1, <1>6 DEF Steps
  <2>5. CASE FormatSteps(draft.mapping) = <<>>
    <3>1. Show(stack, Visited \o Unformatted, Finalize(Source))
      BY <1>10, <1>11, <2>2, <2>5 DEF MappingContinue
    <3>2. stack' = stack /\ planned' = stack \o Unformatted /\ calls' = Finalize(Source) /\ test' = test
      BY <3>1, <1>1, VisitedIs DEF Show, Visited, WizardTyped
    <3>3. (stack \o Unformatted)[Len(stack) + 1] = "cadence"
      BY <1>1, <2>1, <2>3, TopIs, Replanned DEF Steps, PlanFits, WizardTyped
    <3>4. PICK from \in {"csv", "sheet"} : from = Source
      BY <1>10, <2>2
    <3> QED BY <2>1, <3>2, <3>3, <3>4
  <2> QED BY <2>4, <2>5
<1>12. CASE FormatContinue
  <2>1. /\ Top \in Formats /\ Calm(calls) /\ toasts = {} /\ page = "open" /\ Presses /\ Room
        /\ UNCHANGED <<kind, conn, page, draft, toasts>>
    BY <1>12, OnePress DEF FormatContinue
  <2>2. /\ HasSource(draft) /\ Ahead # <<>> /\ Ahead[1] = planned[Len(stack) + 1]
        /\ StepAfter(kind, Top, planned[Len(stack) + 1])
    BY <1>1, <2>1, TopIs DEF Steps, Formats, StepsLeft, StepsOf
  <2>3. CASE Top = "delimiter"
    <3>1. Ahead[1] = "cadence" /\ Source # None /\ Source \in {"csv", "sheet"}
      BY <2>2, <2>3, <1>10 DEF StepAfter
    <3>2. Stay(Finalize(Source))
      BY <1>12, <2>2, <3>1 DEF FormatContinue
    <3>3. stack' = stack /\ planned' = planned /\ calls' = Finalize(Source) /\ test' = test
      BY <3>2 DEF Stay, Show
    <3>4. PICK from \in {"csv", "sheet"} : from = Source
      BY <3>1
    <3> QED BY <2>1, <2>2, <3>1, <3>3, <3>4
  <2>4. CASE Top = "email"
    <3>1. Advance(calls)
      BY <1>12, <2>2, <2>4 DEF FormatContinue, StepAfter
    <3> QED BY <1>1, <2>1, <2>4, <3>1, OnwardKept DEF Steps, Formats, StepsLeft, StepsOf
  <2> QED BY <2>1, <2>3, <2>4 DEF Formats
<1> QED BY <1>2, <1>3, <1>4, <1>5, <1>8, <1>9, <1>11, <1>12

LEMMA EntriesKept ==
  ASSUME Careful, WizardInv,
         \/ \E picked \in BOOLEAN : PickFile(picked)
         \/ \E method \in {"oauth", "upload"} : SelectMethod(method)
         \/ PickSheet \/ SignOut \/ Edit
  PROVE  Kept'
<1>1. /\ WizardTyped /\ page = "open" /\ Calm(calls) /\ toasts = {} /\ StepsLeft /\ draft \in Drafts
      /\ UNCHANGED <<kind, conn, page, stack, planned, test, calls, toasts>>
  BY OnePress DEF WizardInv, WizardTyped, Kept, PickFile, SelectMethod, PickSheet, SignOut, Edit, view
<1>2. Top \in {"upload", "sheets", "mapping", "delimiter", "cadence"} /\ Top \in Steps
      /\ LastStep(stack) = Top
  <2>1. Top \in {"upload", "sheets", "mapping", "delimiter", "cadence"}
    BY DEF PickFile, SelectMethod, PickSheet, SignOut, Edit
  <2> QED BY <2>1, <1>1, TopIs DEF Steps, Formats
<1>3. ASSUME Top \in {"upload", "sheets"}, draft'.ready = FALSE PROVE StepsLeft'
  <2>1. ~On("mapping", stack)
    BY <1>1, <1>2, <1>3, TopIs DEF BeforeMapping
  <2>2. StepsOf(kind, conn, draft', stack, test.phase)
    BY <1>1, <1>2, <1>3, <2>1 DEF StepsLeft, StepsOf
  <2> QED BY <1>1, <2>2 DEF StepsLeft
<1>4. ASSUME NEW picked \in BOOLEAN, PickFile(picked) PROVE StepsLeft'
  BY <1>1, <1>3, <1>4 DEF PickFile, Drafts
<1>5. ASSUME NEW method \in {"oauth", "upload"}, SelectMethod(method) PROVE StepsLeft'
  BY <1>1, <1>3, <1>5 DEF SelectMethod, Drafts
<1>6. ASSUME PickSheet \/ SignOut PROVE StepsLeft'
  BY <1>1, <1>3, <1>6 DEF PickSheet, SignOut, Drafts
<1>7. ASSUME Edit PROVE StepsLeft'
  <2>1. /\ Top # "done" /\ HasSource(draft') = HasSource(draft) /\ draft'.ready = draft.ready
        /\ Top = "cadence" => draft'.mapping = draft.mapping /\ draft'.delim = draft.delim
    BY <1>1, <1>2, <1>7 DEF Edit, Drafts, HasSource
  <2>2. StepsOf(kind, conn, draft', stack, test.phase)
    BY <1>1, <1>2, <2>1 DEF StepsLeft, StepsOf, Grounds, AsDrafted
  <2> QED BY <1>1, <2>2 DEF StepsLeft
<1> QED BY <1>1, <1>4, <1>5, <1>6, <1>7, CalmKept

(* A call is sent when nothing is under way.                               *)
LEMMA SentKept ==
  ASSUME WizardInv, page = "open", UNCHANGED <<kind, conn, page, draft, stack>>, toasts' = {},
         Calm(calls), Room, NEW CONSTANT c, calls' = Send(calls, c),
         CallFits(c)', test'.phase = "passed" => Proven(conn)
  PROVE  Kept'
<1>1. calls \in [Slots -> WizCalls] /\ StepsLeft
  BY DEF WizardInv, WizardTyped, Kept
<1>2. PICK x \in Slots : calls' = [calls EXCEPT ![x] = c]
  BY DEF Room, Send
<1>3. \A t \in Slots : t # x => calls'[t] = calls[t] /\ calls'[t].op \notin Moving
  BY <1>1, <1>2 DEF Calm
<1>4. calls'[x] = c
  BY <1>1, <1>2
<1>5. \A t \in Slots : CallFits(calls[t])'
  <2> SUFFICES ASSUME NEW t \in Slots PROVE CallFits(calls[t])'
    OBVIOUS
  <2>1. CASE t = x
    BY <1>4, <2>1 DEF CallFits
  <2>2. CASE t # x
    BY <1>3, <2>2 DEF CallFits, Moving
  <2> QED BY <2>1, <2>2
<1>6. OneCall'
  BY <1>3 DEF OneCall
<1>7. StepsLeft'
  <2>1. StepsOf(kind, conn, draft, stack, test'.phase)
    BY <1>1 DEF StepsLeft, StepsOf
  <2> QED BY <2>1 DEF StepsLeft
<1>8. ToastsFit'
  BY DEF ToastsFit
<1> QED BY <1>5, <1>6, <1>7, <1>8 DEF Kept

LEMMA FinalizeKept ==
  ASSUME WizardInv, page = "open", UNCHANGED <<kind, conn, page, draft, stack, test>>, toasts' = {},
         Calm(calls), Room, NEW from \in {"csv", "sheet"}, calls' = Finalize(from),
         Top \in {"mapping"} \cup Formats, planned'[Len(stack) + 1] = "cadence",
         from = "csv" => draft.csv, from = "sheet" => draft.sheet
  PROVE  Kept'
<1>1. PICK c : c = [Call("finalize") EXCEPT !.data = Chosen(from)]
  OBVIOUS
<1>2. /\ c.op = "finalize" /\ c.heard /\ c.pc = "sent" /\ c.data.from = from
      /\ c.data.mapping = draft.mapping /\ c.data.delim = draft.delim
  BY <1>1 DEF Call, Chosen
<1>3. CallFits(c)'
  <2>1. Top' = Top
    BY DEF Top
  <2>2. ToConfirm'
    BY <2>1 DEF ToConfirm
  <2> QED BY <1>2, <2>2 DEF CallFits, Moving
<1>4. calls' = Send(calls, c)
  BY <1>1 DEF Finalize
<1>5. test'.phase = "passed" => Proven(conn)
  BY DEF WizardInv, Kept, StepsLeft, StepsOf
<1> QED BY <1>3, <1>4, <1>5, SentKept

LEMMA CadenceKept ==
  ASSUME WizardInv, page = "open", UNCHANGED <<kind, conn, page, draft, stack, test>>, toasts' = {},
         Calm(calls), Room, calls' = Send(calls, CadenceCall), Top = "cadence", draft.cadence # None
  PROVE  Kept'
<1>1. PICK c : c = CadenceCall
  OBVIOUS
<1>2. c.op = "cadence" /\ c.heard /\ c.pc = "sent" /\ c.cadence = draft.cadence
  BY <1>1 DEF Call, CadenceCall
<1>3. CallFits(c)'
  <2>1. Top' = Top
    BY DEF Top
  <2> QED BY <1>2, <2>1 DEF CallFits, Moving
<1>4. test'.phase = "passed" => Proven(conn)
  BY DEF WizardInv, Kept, StepsLeft, StepsOf
<1> QED BY <1>1, <1>3, <1>4, SentKept

LEMMA SendsKept ==
  ASSUME Careful, WizardInv, StartTest \/ Read \/ SignIn \/ CadenceContinue
  PROVE  Kept'
<1>1. WizardTyped /\ page = "open" /\ StepsLeft /\ test \in Tests /\ draft \in Drafts
  BY DEF WizardInv, WizardTyped, Kept, StartTest, Read, SignIn, CadenceContinue, Presses, Reacts
<1>2. ASSUME stack' = stack PROVE Top' = Top
  BY <1>2 DEF Top
<1>3. CASE StartTest
  <2>1. /\ Top = "test" /\ Room /\ test.phase # "running" /\ stack' = stack /\ planned' = planned
        /\ test' = [test EXCEPT !.phase = "running"]
        /\ UNCHANGED <<kind, conn, page, draft, toasts>>
    BY <1>3 DEF StartTest
  <2>2. Calm(calls)
    BY <1>1, <2>1 DEF WizardInv, Kept, CallFits, ToConfirm, Formats, Calm, Moving
  <2>3. toasts = {}
    <3>1. toasts \subseteq Offers /\ ToastsFit
      BY <1>1 DEF WizardInv, Kept, WizardTyped
    <3>2. \A o \in Offers : o \notin toasts
      BY <3>1, <2>1 DEF ToastsFit, ToConfirm, Formats, Offers
    <3> QED BY <3>1, <3>2
  <2>4. PICK c : c = Call(IF test.saved THEN "retest" ELSE "save") /\ calls' = Send(calls, c)
    BY <1>3 DEF StartTest
  <2>5. c.op \in {"save", "retest"} /\ c.heard /\ c.pc = "sent"
    BY <2>4 DEF Call
  <2>6. test'.phase = "running"
    BY <1>1, <2>1 DEF Tests
  <2>7. CallFits(c)'
    BY <1>2, <2>1, <2>5, <2>6 DEF CallFits, Moving
  <2> QED BY <1>1, <2>1, <2>2, <2>3, <2>4, <2>6, <2>7, SentKept
<1>4. CASE Read
  <2>1. Calm(calls) /\ toasts = {} /\ Room /\ UNCHANGED <<kind, conn, page, draft, toasts>>
    BY <1>4, OnePress DEF Read
  <2>2. PICK d : Stay(Send(calls, [Call("read") EXCEPT !.data = d])) /\ Top \in {"upload", "sheets"}
                 /\ HasSource(draft)
    BY <1>4 DEF Read, From, HasSource
  <2>3. PICK c : c = [Call("read") EXCEPT !.data = d]
    OBVIOUS
  <2>4. c.op = "read" /\ c.heard
    BY <2>3 DEF Call
  <2>5. stack' = stack /\ test' = test /\ calls' = Send(calls, c)
    BY <2>2, <2>3 DEF Stay, Show
  <2>6. CallFits(c)'
    BY <1>2, <2>1, <2>2, <2>4, <2>5 DEF CallFits, Moving
  <2> QED BY <1>1, <2>1, <2>5, <2>6, SentKept DEF StepsLeft, StepsOf
<1>5. CASE SignIn
  <2>1. Calm(calls) /\ toasts = {} /\ Room /\ Top = "sheets" /\ UNCHANGED <<kind, conn, page, draft, toasts>>
    BY <1>5, OnePress DEF SignIn
  <2>2. PICK c : c = Call("start")
    OBVIOUS
  <2>3. c.op = "start" /\ c.heard
    BY <2>2 DEF Call
  <2>4. stack' = stack /\ test' = test /\ calls' = Send(calls, c)
    BY <1>5, <2>2 DEF SignIn, Stay, Show
  <2>5. CallFits(c)'
    BY <1>2, <2>1, <2>3, <2>4 DEF CallFits, Moving
  <2> QED BY <1>1, <2>1, <2>4, <2>5, SentKept DEF StepsLeft, StepsOf
<1>6. CASE CadenceContinue
  <2>1. Calm(calls) /\ toasts = {} /\ Room /\ Top = "cadence" /\ draft.cadence # None
        /\ UNCHANGED <<kind, conn, page, draft, toasts>>
    BY <1>6, OnePress DEF CadenceContinue
  <2>2. stack' = stack /\ test' = test /\ calls' = Send(calls, CadenceCall)
    BY <1>6 DEF CadenceContinue, Stay, Show
  <2> QED BY <1>1, <2>1, <2>2, CadenceKept
<1> QED BY <1>3, <1>4, <1>5, <1>6

LEMMA RetryKept ==
  ASSUME Careful, WizardInv, NEW op \in Offers, RetryCall(op) \/ Dismiss(op)
  PROVE  Kept'
<1>1. WizardTyped /\ page = "open" /\ StepsLeft /\ ToastsFit /\ op \in toasts /\ toasts' = toasts \ {op}
      /\ UNCHANGED <<kind, conn, page, draft>>
  BY DEF WizardInv, Kept, RetryCall, Dismiss, Reacts
<1>2. toasts' = {} /\ Calm(calls)
  BY <1>1 DEF ToastsFit
<1>3. CASE Dismiss(op)
  <2>1. UNCHANGED <<stack, planned, test, calls>>
    BY <1>3 DEF Dismiss, view
  <2>2. StepsLeft'
    BY <1>1, <2>1 DEF StepsLeft
  <2> QED BY <1>1, <1>2, <2>1, <2>2, CalmKept
<1>4. CASE RetryCall(op)
  <2>1. CASE op = "cadence"
    <3>1. Stay(Send(calls, CadenceCall)) /\ Room /\ Top = "cadence" /\ draft.cadence # None
      BY <1>1, <1>4, <2>1 DEF RetryCall, ToastsFit
    <3>2. stack' = stack /\ test' = test /\ calls' = Send(calls, CadenceCall)
      BY <3>1 DEF Stay, Show
    <3> QED BY <1>1, <1>2, <3>1, <3>2, CadenceKept
  <2>2. CASE op \in {"csv", "sheet"}
    <3>1. ToConfirm /\ (op = "csv" => draft.csv) /\ (op = "sheet" => draft.sheet)
      BY <1>1, <2>2 DEF ToastsFit
    <3>2. Stay(Finalize(op)) /\ Room
      BY <1>4, <2>2, <3>1 DEF RetryCall
    <3>3. stack' = stack /\ planned' = planned /\ test' = test /\ calls' = Finalize(op)
      BY <3>2 DEF Stay, Show
    <3> QED BY <1>1, <1>2, <2>2, <3>1, <3>2, <3>3, FinalizeKept DEF ToConfirm
  <2> QED BY <2>1, <2>2 DEF Offers
<1> QED BY <1>3, <1>4

LEMMA DialogKept ==
  ASSUME Careful, WizardInv, Open \/ Close \/ Done \/ RefetchCards \/ RefetchCardsFails \/ SignedIn
  PROVE  Kept'
<1>1. CASE Close \/ Done \/ RefetchCardsFails
  BY <1>1 DEF Close, Done, RefetchCardsFails, Shut, Kept
<1>2. CASE RefetchCards
  <2>1. UNCHANGED <<kind, conn, page, draft, toasts, stack, planned, test, calls>>
    BY <1>2 DEF RefetchCards, view
  <2> QED BY <2>1 DEF WizardInv, Kept, StepsLeft, CallFits, ToConfirm, Top, OneCall, ToastsFit, Calm
<1>3. ASSUME NEW redeemed \in BOOLEAN, Enter(redeemed), Calm(calls'), toasts' = {}
      PROVE  Kept'
  <2>1. /\ page' = "open" /\ stack' = <<Subflow[1]>>
        /\ Subflow[1] \in {"sheets", "choice", "cred", "upload"} /\ test' = Untested
        /\ draft' = Seeded(redeemed)
    BY <1>3, EnterTyped DEF WizardInv, Enter
  <2>2. ~On("mapping", stack') /\ ~On("seed", stack') /\ LastStep(stack') \notin {"cadence", "done"}
    BY <2>1 DEF On, LastStep
  <2>3. draft'.ready = FALSE
    BY <2>1 DEF Seeded, NoDraft
  <2>4. StepsOf(kind', conn', draft', stack', test'.phase)
    BY <2>1, <2>2, <2>3 DEF StepsOf, Untested
  <2> QED BY <1>3, <2>1, <2>4, CalmKept DEF StepsLeft
<1>4. Calm(NoCalls)
  BY DEF Calm, NoCalls, FreeSlot, Call, Moving
<1>5. CASE Open
  <2>1. page = "closed" /\ toasts = {} /\ toasts' = {} /\ calls = NoCalls
    BY <1>5 DEF Open, Alone, WizardInv, Kept
  <2>2. draft.redeemed \in BOOLEAN /\ calls \in [Slots -> WizCalls]
    BY DEF WizardInv, WizardTyped, Drafts
  <2>3. Calm(calls')
    BY <1>4, <1>5, <2>1, <2>2, CalmMode DEF Open
  <2> QED BY <1>3, <1>5, <2>1, <2>2, <2>3 DEF Open
<1>6. CASE SignedIn
  <2>1. page = "away" /\ toasts = {} /\ toasts' = {} /\ calls = NoCalls /\ calls' = calls
    BY <1>6 DEF SignedIn, Alone, WizardInv, Kept
  <2>2. CASE page' = "closed"
    BY <2>1, <2>2 DEF Kept
  <2>3. CASE Enter(TRUE)
    <3>1. \A b \in BOOLEAN : Enter(b) => Kept'
      BY <1>3, <1>4, <2>1
    <3> QED BY <2>3, <3>1
  <2> QED BY <1>6, <2>2, <2>3 DEF SignedIn
<1> QED BY <1>1, <1>2, <1>5, <1>6

LEMMA HearsKept ==
  ASSUME WizardInv, NEW s \in Slots, Hear(s)
  PROVE  Kept'
<1>1. calls[s].heard /\ calls[s].op \in Moving /\ kind' = kind /\ conn' = conn
  BY DEF Hear, HearStart, HearNoStart, HearTest, HearRead, HearFinalize, HearCadence, Hears, Moving
<1>2. /\ WizardTyped /\ page = "open" /\ StepsLeft /\ ToastsFit /\ OneCall /\ CallFits(calls[s])
      /\ calls \in [Slots -> WizCalls] /\ draft \in Drafts
  BY <1>1 DEF WizardInv, WizardTyped, Kept, Deaf
<1>3. toasts = {}
  BY <1>1, <1>2 DEF ToastsFit, Calm
<1> DEFINE cs == Drop(calls, s)
<1>4. cs \in [Slots -> WizCalls] /\ Calm(cs)
  <2>1. FreeSlot \in WizCalls /\ FreeSlot.op \notin Moving
    BY DEF FreeSlot, Call, WizCalls, Ops, Moving
  <2> QED BY <1>1, <1>2, <2>1 DEF Drop, Calm, OneCall
<1>5. /\ Top \in {"test", "upload", "sheets", "mapping", "email", "delimiter", "cadence"}
      /\ Top \in Steps
  BY <1>1, <1>2 DEF CallFits, Moving, ToConfirm, Formats, Steps
<1>6. ASSUME Stay(cs)
      PROVE  stack' = stack /\ planned' = planned /\ calls' = cs /\ test' = test /\ Calm(calls')
             /\ Top' = Top
  BY <1>4, <1>6 DEF Stay, Show, Top
<1> HIDE DEF cs
<1>7. CASE HearStart(s)
  BY <1>7 DEF HearStart, Kept
<1>8. CASE HearNoStart(s)
  <2>1. Stay(cs) /\ page' = page /\ toasts' = {} /\ draft' = draft
    BY <1>3, <1>8 DEF HearNoStart, cs
  <2>2. StepsLeft'
    BY <1>1, <1>2, <1>6, <2>1 DEF StepsLeft
  <2> QED BY <1>2, <1>6, <2>1, <2>2, CalmKept
<1>9. CASE HearTest(s)
  <2>1. /\ calls' = cs /\ stack' = stack /\ page' = page /\ toasts' = {} /\ draft' = draft
        /\ test'.phase = "passed" => calls[s].pc = "ok" /\ calls[s].op \in {"save", "retest"}
    BY <1>3, <1>9 DEF HearTest, Hears, cs
  <2>2. test'.phase = "passed" => Proven(conn)
    BY <1>2, <2>1 DEF CallFits
  <2>3. StepsOf(kind, conn, draft, stack, test'.phase)
    BY <1>2, <2>2 DEF StepsLeft, StepsOf
  <2>4. StepsLeft'
    BY <1>1, <2>1, <2>3 DEF StepsLeft
  <2> QED BY <1>2, <1>4, <2>1, <2>4, CalmKept
<1>10. CASE HearRead(s)
  <2>1. /\ Top \in {"upload", "sheets"} /\ HasSource(draft) /\ page' = page /\ toasts' = {}
        /\ HasSource(draft') = HasSource(draft)
    BY <1>2, <1>3, <1>10 DEF HearRead, Hears, CallFits, Drafts, HasSource
  <2>2. CASE Advance(cs)
    BY <1>1, <1>2, <1>4, <2>1, <2>2, OnwardKept DEF Steps
  <2>3. CASE Stay(cs) /\ draft' = [draft EXCEPT !.ready = FALSE]
    <3>1. StepsOf(kind, conn, draft', stack, test.phase)
      <4>1. LastStep(stack) = Top
        BY <1>2, <1>5, TopIs
      <4> QED BY <1>2, <2>1, <2>3, <4>1 DEF StepsLeft, StepsOf
    <3>2. StepsLeft'
      BY <1>1, <1>6, <2>3, <3>1 DEF StepsLeft
    <3> QED BY <1>2, <1>6, <2>1, <2>3, <3>2, CalmKept
  <2> QED BY <1>10, <2>2, <2>3 DEF HearRead, cs
<1>11. ASSUME Stay(cs), NEW op, toasts' = {op}, page' = page, draft' = draft, op \in Offers,
              op \in {"csv", "sheet"} => ToConfirm,
              op = "csv" => draft.csv, op = "sheet" => draft.sheet,
              op = "cadence" => Top = "cadence" /\ draft.cadence # None
       PROVE  Kept'
  <2>1. StepsLeft'
    BY <1>1, <1>2, <1>6, <1>11 DEF StepsLeft
  <2>2. \A t \in Slots : CallFits(calls[t])'
    BY <1>6, <1>11 DEF Calm, CallFits, Moving
  <2>3. OneCall'
    BY <1>6, <1>11 DEF Calm, OneCall
  <2>4. ToConfirm' <=> ToConfirm
    BY <1>6, <1>11 DEF ToConfirm
  <2>5. ToastsFit'
    BY <1>6, <1>11, <2>4 DEF ToastsFit
  <2> QED BY <1>2, <1>11, <2>1, <2>2, <2>3, <2>5 DEF Kept
<1>12. CASE HearFinalize(s)
  <2>1. /\ calls[s].op = "finalize" /\ page' = page /\ draft' = draft /\ ToConfirm
        /\ calls[s].data.from \in {"csv", "sheet"}
        /\ calls[s].data.from = "csv" => draft.csv
        /\ calls[s].data.from = "sheet" => draft.sheet
        /\ calls[s].pc = "ok" => AsDrafted(conn, draft)
    <3>1. calls[s].op = "finalize" /\ calls[s] \in WizCalls
      BY <1>2, <1>12 DEF HearFinalize, Hears
    <3>2. calls[s].data.from \in {"csv", "sheet"}
      BY <3>1 DEF WizCalls, Data
    <3> QED BY <1>2, <1>12, <3>1, <3>2 DEF HearFinalize, CallFits
  <2>2. CASE calls[s].pc = "ok"
    <3>1. Advance(cs) /\ toasts' = {} /\ AsDrafted(conn, draft)
      BY <1>3, <1>12, <2>1, <2>2 DEF HearFinalize, cs
    <3> QED BY <1>1, <1>2, <1>4, <1>5, <2>1, <3>1, OnwardKept DEF ToConfirm, Formats, StepsLeft, StepsOf
  <2>3. CASE calls[s].pc # "ok"
    <3>1. Stay(cs) /\ toasts' = {calls[s].data.from}
      BY <1>3, <1>12, <2>3 DEF HearFinalize, cs
    <3>2. PICK op \in Offers : op = calls[s].data.from
      BY <2>1 DEF Offers
    <3> QED BY <1>11, <2>1, <3>1, <3>2
  <2> QED BY <2>2, <2>3
<1>13. CASE HearCadence(s)
  <2>1. /\ page' = page /\ draft' = draft /\ Top = "cadence" /\ draft.cadence # None
        /\ calls[s].pc = "ok" => conn.completed /\ conn.cadence = draft.cadence
    BY <1>2, <1>13 DEF HearCadence, Hears, CallFits
  <2>2. CASE calls[s].pc = "ok"
    <3>1. Advance(cs) /\ toasts' = {}
      BY <1>3, <1>13, <2>2 DEF HearCadence, cs
    <3> QED BY <1>1, <1>2, <1>4, <1>5, <2>1, <2>2, <3>1, OnwardKept DEF StepsLeft, StepsOf
  <2>3. CASE calls[s].pc # "ok"
    <3>1. Stay(cs) /\ toasts' = {"cadence"}
      BY <1>3, <1>13, <2>3 DEF HearCadence, cs
    <3> QED BY <1>11, <2>1, <3>1 DEF Offers
  <2> QED BY <2>2, <2>3
<1> QED BY <1>7, <1>8, <1>9, <1>10, <1>12, <1>13 DEF Hear

(* Nothing but mode calls runs beside a call that moves on.                *)
LEMMA BesideKept ==
  ASSUME WizardInv, page = "open", NEW s \in Slots, NEW c,
         UNCHANGED <<kind, page, stack, planned, draft, test, toasts>>,
         calls' = [calls EXCEPT ![s] = c], c.op \in {calls[s].op, "none"}, CallFits(c)',
         Proven(conn) => Proven(conn'),
         Grounds(kind, conn, draft, stack) /\ Top \in {"cadence", "done"}
           => Grounds(kind, conn', draft, stack),
         Top = "done" /\ conn.completed /\ conn.cadence = draft.cadence
           => conn'.completed /\ conn'.cadence = conn.cadence,
         \A t \in Slots : t # s /\ calls[t].op \in Moving => CallFits(calls[t])'
  PROVE  Kept'
<1>1. WizardTyped /\ StepsLeft /\ ToastsFit /\ OneCall /\ calls \in [Slots -> WizCalls]
  BY DEF WizardInv, WizardTyped, Kept
<1>2. calls'[s] = c /\ \A t \in Slots : t # s => calls'[t] = calls[t]
  BY <1>1
<1>3. \A t \in Slots : CallFits(calls[t])'
  <2> SUFFICES ASSUME NEW t \in Slots PROVE CallFits(calls[t])'
    OBVIOUS
  <2>1. CASE t = s
    BY <1>2, <2>1 DEF CallFits
  <2>2. CASE t # s /\ calls[t].op \in Moving
    BY <2>2
  <2>3. CASE t # s /\ calls[t].op \notin Moving
    BY <1>2, <2>3 DEF CallFits, Moving
  <2> QED BY <2>1, <2>2, <2>3
<1>4. \A t \in Slots : calls'[t].op \in Moving => calls[t].op \in Moving
  BY <1>2 DEF Moving
<1>5. OneCall'
  BY <1>1, <1>4 DEF OneCall
<1>6. ToastsFit'
  <2>1. Calm(calls) => Calm(calls')
    BY <1>4 DEF Calm
  <2> QED BY <1>1, <2>1 DEF ToastsFit, ToConfirm, Top
<1>7. StepsLeft'
  <2>1. LastStep(stack) \in {"cadence", "done"} => LastStep(stack) = Top
    BY <1>1 DEF LastStep, Top
  <2>2. StepsOf(kind, conn', draft, stack, test.phase)
    BY <1>1, <2>1 DEF StepsLeft, StepsOf
  <2> QED BY <2>2 DEF StepsLeft
<1> QED BY <1>3, <1>5, <1>6, <1>7 DEF Kept

LEMMA ModeKept ==
  ASSUME WizardInv, page = "open", NEW s \in Slots, calls[s].op = "mode",
         UNCHANGED <<kind, page, stack, planned, draft, test, toasts>>, calls' = Drop(calls, s),
         conn' \in {conn, SetMode(conn, calls[s].mode)}
  PROVE  Kept'
<1>1. /\ conn \in Connection /\ calls[s].mode \in Modes
      /\ \A t \in Slots : CallFits(calls[t])
  BY DEF WizardInv, WizardTyped, WizCalls, Kept
<1>2. /\ conn'.data = conn.data /\ conn'.status = conn.status /\ conn'.rotated = conn.rotated
      /\ conn'.cadence = conn.cadence /\ conn'.completed = conn.completed
      /\ conn.mode # None => conn'.mode # None
  BY <1>1, WizardAssumption DEF SetMode, Connection
<1>3. calls' = [calls EXCEPT ![s] = FreeSlot] /\ FreeSlot.op = "none"
  BY DEF Drop, FreeSlot, Call
<1>4. \A t \in Slots : t # s => calls'[t] = calls[t]
  BY <1>3 DEF WizardInv, WizardTyped
<1>5. /\ Proven(conn) => Proven(conn')
      /\ AsDrafted(conn, draft) => AsDrafted(conn', draft)
  BY <1>2 DEF Proven, AsDrafted
<1>6. (Top' = Top) /\ (ToConfirm' <=> ToConfirm)
  BY DEF Top, ToConfirm
<1>7. \A t \in Slots : t # s /\ calls[t].op \in Moving => CallFits(calls[t])'
  BY <1>1, <1>2, <1>4, <1>5, <1>6 DEF CallFits
<1>8. CallFits(FreeSlot)'
  BY <1>3 DEF CallFits, Moving
<1> QED BY <1>2, <1>3, <1>5, <1>7, <1>8, BesideKept DEF Grounds

(* A call that moves on is alone, and what it leaves fits its step.        *)
LEMMA MoveKept ==
  ASSUME WizardInv, page = "open", NEW s \in Slots, calls[s].op \in Moving, NEW c,
         UNCHANGED <<kind, page, stack, planned, draft, test, toasts>>,
         calls' = [calls EXCEPT ![s] = c], c.op = calls[s].op, CallFits(c)',
         Proven(conn) => Proven(conn'),
         Top = "cadence" /\ AsDrafted(conn, draft) => AsDrafted(conn', draft)
  PROVE  Kept'
<1>1. CallFits(calls[s]) /\ OneCall
  BY DEF WizardInv, Kept
<1>2. Top # "done"
  BY <1>1 DEF CallFits, Moving, ToConfirm, Formats
<1>3. \A t \in Slots : t # s => calls[t].op \notin Moving
  BY <1>1 DEF OneCall
<1> QED BY <1>2, <1>3, BesideKept DEF Grounds

LEMMA ServeKept ==
  ASSUME WizardInv, NEW s \in Slots, Serve(s) \/ Fail(s)
  PROVE  Kept'
<1>1. /\ UNCHANGED <<kind, cache, page, opened, stack, planned, draft, test, toasts>>
      /\ calls[s].op \in Ops
  BY ServeIs DEF Fail, WizardInv, Ops, Moving
<1>2. CASE page # "open"
  BY <1>1, <1>2 DEF WizardInv, Kept
<1>3. CASE page = "open" /\ calls[s].op = "mode"
  <2>1. calls' = Drop(calls, s) /\ conn' \in {conn, SetMode(conn, calls[s].mode)}
    BY <1>3, ServeIs DEF Fail, Reply, WizardInv, Moving
  <2> QED BY <1>1, <1>3, <2>1, ModeKept
<1>4. CASE page = "open" /\ calls[s].op \in Moving
  <2>1. PICK k, c : k = calls[s] /\ c = calls'[s]
    OBVIOUS
  <2>2. /\ conn \in Connection /\ k \in WizCalls /\ CallFits(k) /\ k.heard /\ kind \in Kinds
        /\ calls \in [Slots -> WizCalls] /\ StepsLeft /\ draft \in Drafts /\ k.op \in Moving
    <3>1. calls[s] \in WizCalls /\ CallFits(calls[s])
      BY <1>4 DEF WizardInv, WizardTyped, Kept
    <3> QED BY <1>4, <2>1, <3>1 DEF WizardInv, WizardTyped, Kept, CallFits
  <2>3. (Top' = Top) /\ (ToConfirm' <=> ToConfirm)
    BY <1>1 DEF Top, ToConfirm
  <2>4. ASSUME NEW said, Reply(s, said)
        PROVE  /\ calls' = [calls EXCEPT ![s] = c] /\ c.op = k.op /\ c.pc = said /\ c.heard
               /\ c.data = k.data /\ c.cadence = k.cadence /\ c.mode = k.mode
    <3>1. calls' = [calls EXCEPT ![s].pc = said]
      BY <2>1, <2>2, <2>4 DEF Reply, Moving
    <3> QED BY <2>1, <2>2, <3>1 DEF WizCalls
  <2>5. ASSUME Half(s)
        PROVE  /\ calls' = [calls EXCEPT ![s] = c] /\ c.op = k.op /\ c.pc = "half" /\ c.heard
               /\ c.data = k.data /\ c.cadence = k.cadence /\ c.mode = conn.mode
    <3>1. calls' = [calls EXCEPT ![s] = [calls[s] EXCEPT !.pc = "half", !.mode = conn.mode]]
      BY <2>2, <2>5 DEF Half
    <3> QED BY <2>1, <2>2, <3>1 DEF WizCalls
  <2>6. ASSUME calls' = [calls EXCEPT ![s] = c], c.op = k.op, CallFits(c)',
               Proven(conn) => Proven(conn'),
               Top = "cadence" /\ AsDrafted(conn, draft) => AsDrafted(conn', draft)
        PROVE  Kept'
    BY <1>1, <1>4, <2>1, <2>6, MoveKept
  <2>7. ASSUME NEW said \in {"needs", "error", "bad"}, Reply(s, said),
               conn' \in {conn, Tested(conn, k.mode, FALSE), IngestFailed(conn)},
               Top = "cadence" => conn' = conn
        PROVE  Kept'
    <3>1. Proven(conn) => Proven(conn')
      BY <2>2, <2>7 DEF Proven, Tested, IngestFailed, Connection
    <3>2. c.op = k.op /\ c.pc = said /\ c.heard /\ c.data = k.data /\ c.cadence = k.cadence
      BY <2>4, <2>7
    <3>3. said # "ok" /\ said # "half"
      OBVIOUS
    <3>4. CallFits(c)'
      BY <1>1, <2>2, <2>3, <2>7, <3>2, <3>3 DEF CallFits
    <3> QED BY <2>4, <2>6, <2>7, <3>1, <3>4
  <2>8. CASE Fail(s)
    BY <2>7, <2>8 DEF Fail
  <2>9. CASE Serve(s)
    <3>0. k.mode \in Modes \cup {None} /\ k.cadence \in Cadences \cup {None}
          /\ (k.op \in {"read", "finalize"} => k.data \in Data)
      BY <2>2 DEF WizCalls
    <3>1. CASE k.op = "start"
      <4>1. Top = "sheets"
        BY <2>2, <3>1 DEF CallFits
      <4>2. CASE Reply(s, "ok") /\ conn' = SetMode(conn, "live")
        <5>1. c.op = "start" /\ c.heard
          BY <2>4, <3>1, <4>2
        <5>2. CallFits(c)'
          BY <2>3, <4>1, <5>1 DEF CallFits
        <5>3. Proven(conn) => Proven(conn')
          BY <2>2, <4>2, WizardAssumption DEF Proven, SetMode, Connection, Modes
        <5> QED BY <2>4, <2>6, <4>1, <4>2, <5>2, <5>3
      <4>3. CASE conn' = conn /\ \E said \in {"needs", "error"} : Reply(s, said)
        BY <2>7, <4>3
      <4> QED BY <2>1, <2>9, <3>1, <4>2, <4>3, ServeIs DEF WizardInv
    <3>2. CASE k.op \in {"save", "retest"}
      <4>1. /\ Top = "test" /\ test.phase = "running"
            /\ k.pc = "half" /\ k.mode # None => conn.mode # None
        BY <2>2, <3>2 DEF CallFits
      <4>2. CASE Half(s) /\ conn' \in {conn, Invited(conn)}
        <5>1. c.op = k.op /\ c.heard /\ c.pc = "half" /\ c.mode = conn.mode
          BY <2>5, <4>2
        <5>2. conn'.mode = conn.mode /\ conn'.rotated = conn.rotated
          BY <2>2, <4>2 DEF Invited, Connection
        <5>3. CallFits(c)'
          BY <1>1, <2>3, <3>2, <4>1, <5>1, <5>2 DEF CallFits
        <5> QED BY <2>5, <2>6, <4>1, <4>2, <5>2, <5>3 DEF Proven
      <4>3. CASE k.pc = "half" /\ conn' = Tested(conn, k.mode, TRUE) /\ Reply(s, "ok")
        <5>1. c.op = k.op /\ c.heard /\ c.pc = "ok"
          BY <2>4, <4>3
        <5>2. Proven(conn')
          <6>1. conn'.rotated = TRUE /\ conn'.mode = IF k.mode = "live" THEN conn.mode ELSE "live"
            BY <2>2, <4>3 DEF Tested, Connection
          <6>2. "live" # None
            BY WizardAssumption DEF Modes
          <6> QED BY <4>1, <4>3, <6>1, <6>2 DEF Proven
        <5>3. CallFits(c)'
          BY <1>1, <2>3, <3>2, <4>1, <5>1, <5>2 DEF CallFits
        <5> QED BY <2>4, <2>6, <4>1, <4>3, <5>2, <5>3
      <4>4. CASE conn' = Tested(conn, k.mode, FALSE) /\ Reply(s, "bad")
        BY <2>7, <4>1, <4>4
      <4>5. CASE conn' = conn /\ \E said \in {"needs", "error"} : Reply(s, said)
        BY <2>7, <4>5
      <4> QED BY <2>1, <2>9, <3>2, <4>2, <4>3, <4>4, <4>5, ServeIs DEF WizardInv
    <3>3. CASE k.op \in {"read", "finalize"}
      <4>1. Top # "cadence"
        BY <2>2, <3>3 DEF CallFits, ToConfirm, Formats
      <4>2. CASE conn' = Ingested(kind, conn, k.data) /\ Reply(s, "ok")
        <5>1. c.op = k.op /\ c.heard /\ c.data = k.data
          BY <2>4, <4>2
        <5>2. /\ conn'.data = k.data /\ conn'.status = "connected" /\ conn'.rotated = conn.rotated
              /\ conn'.mode # None
          <6>1. "live" # None /\ "upload" # None
            BY WizardAssumption DEF Modes
          <6> QED BY <2>2, <3>0, <3>3, <4>2, <6>1 DEF Ingested, Connection
        <5>3. k.op = "finalize" => AsDrafted(conn', draft)
          <6>1. k.data # None
            BY <3>0, <3>3, WizardAssumption
          <6> QED BY <2>2, <5>2, <6>1 DEF CallFits, AsDrafted
        <5>4. k.op = "finalize" => AsDrafted(conn', draft')
          BY <1>1, <5>3
        <5>5. CallFits(c)'
          BY <1>1, <2>2, <2>3, <3>3, <5>1, <5>4 DEF CallFits
        <5> QED BY <2>4, <2>6, <4>1, <4>2, <5>2, <5>5 DEF Proven
      <4>3. CASE conn' = IngestFailed(conn) /\ Reply(s, "bad")
        BY <2>7, <4>1, <4>3
      <4>4. CASE conn' = conn /\ \E said \in {"needs", "error"} : Reply(s, said)
        BY <2>7, <4>4
      <4> QED BY <2>1, <2>9, <3>3, <4>2, <4>3, <4>4, ServeIs DEF WizardInv
    <3>4. CASE k.op = "cadence"
      <4>1. /\ Top = "cadence" /\ draft.cadence # None /\ k.cadence = draft.cadence
            /\ k.pc \in {"half", "ok"} => conn.cadence = draft.cadence
        BY <2>2, <3>4 DEF CallFits
      <4> DEFINE set == SetCadence(conn, k.cadence)
      <4>2. /\ set \in Connection /\ set.cadence = draft.cadence /\ set.data = conn.data
            /\ set.mode = conn.mode /\ set.rotated = conn.rotated /\ set.status = conn.status
        BY <2>2, <3>0, <4>1 DEF SetCadence, Connection
      <4>3. CASE conn' = set /\ Half(s)
        <5>1. c.op = "cadence" /\ c.heard /\ c.pc = "half" /\ c.cadence = draft.cadence
          BY <2>5, <3>4, <4>1, <4>3
        <5>2. CallFits(c)'
          BY <1>1, <2>3, <4>1, <4>2, <4>3, <5>1 DEF CallFits
        <5>3. /\ Proven(conn) => Proven(conn')
              /\ AsDrafted(conn, draft) => AsDrafted(conn', draft)
          BY <4>2, <4>3 DEF Proven, AsDrafted
        <5> QED BY <2>5, <2>6, <4>3, <5>2, <5>3
      <4>4. CASE conn' = Completed(kind, set) /\ Reply(s, "ok")
        <5>1. c.op = "cadence" /\ c.heard /\ c.cadence = draft.cadence
          BY <2>4, <3>4, <4>1, <4>4
        <5>2. Grounds(kind, conn, draft, stack)
          <6>1. LastStep(stack) = "cadence"
            BY <2>2, <4>1 DEF LastStep, Top
          <6> QED BY <2>2, <6>1 DEF StepsLeft, StepsOf
        <5>3. WizardReady(kind, set)
          <6>1. set.mode \in {"live", "upload"}
            BY <2>2, <4>2, <5>2 DEF Grounds, AsDrafted, Proven, Connection, Modes
          <6>2. set.rotated \/ set.status = "connected"
            BY <4>2, <5>2 DEF Grounds, AsDrafted, Proven
          <6>3. set.data # None \/ kind \in {"live", "both"}
            BY <4>2, <5>2 DEF Grounds, AsDrafted
          <6>4. set.cadence # None
            BY <4>1, <4>2
          <6> HIDE DEF set
          <6> QED BY <6>1, <6>2, <6>3, <6>4
                  DEF WizardReady, LiveCredentialsReady, LiveOverridesUpload, CompletesUnfed
        <5> HIDE DEF set
        <5>4. /\ conn'.completed /\ conn'.cadence = set.cadence /\ conn'.data = set.data
              /\ conn'.rotated = set.rotated /\ conn'.status = set.status
              /\ set.mode # None => conn'.mode # None
          <6>1. "live" # None
            BY WizardAssumption DEF Modes
          <6> QED BY <4>2, <4>4, <5>3, <6>1 DEF Completed, Connection
        <5>5. CallFits(c)'
          BY <1>1, <2>3, <4>1, <4>2, <5>1, <5>4 DEF CallFits
        <5>6. /\ Proven(conn) => Proven(conn')
              /\ AsDrafted(conn, draft) => AsDrafted(conn', draft)
          BY <4>2, <5>4 DEF Proven, AsDrafted
        <5> QED BY <2>4, <2>6, <4>4, <5>5, <5>6
      <4>5. CASE conn' = conn /\ \E said \in {"needs", "error"} : Reply(s, said)
        BY <2>7, <4>5
      <4> QED BY <2>1, <2>9, <3>4, <4>3, <4>4, <4>5, ServeIs DEF WizardInv
    <3> QED BY <2>2, <3>1, <3>2, <3>3, <3>4 DEF Moving
  <2> QED BY <2>8, <2>9
<1>5. calls[s].op \in Moving \/ calls[s].op = "mode"
  BY <1>1 DEF Ops
<1> QED BY <1>2, <1>3, <1>4, <1>5

LEMMA KeptStep ==
  ASSUME Careful, WizardInv, [WizardNext]_wizardVars
  PROVE  Kept'
<1>1. CASE UNCHANGED wizardVars
  BY <1>1 DEF WizardInv, Kept, wizardVars, view, StepsLeft, CallFits, ToConfirm, Top, OneCall,
              ToastsFit, Calm
<1>2. CASE OwnerActs
  <2>1. CASE \E from \in {"csv", "sheet"} :
               /\ Presses /\ Room /\ from = Source /\ calls' = Finalize(from) /\ test' = test
               /\ stack' = stack /\ planned'[Len(stack) + 1] = "cadence"
               /\ Top \in {"mapping"} \cup Formats
               /\ UNCHANGED <<kind, conn, page, draft, toasts>>
    <3>1. PICK from \in {"csv", "sheet"} :
               /\ Presses /\ Room /\ from = Source /\ calls' = Finalize(from) /\ test' = test
               /\ stack' = stack /\ planned'[Len(stack) + 1] = "cadence"
               /\ Top \in {"mapping"} \cup Formats
               /\ UNCHANGED <<kind, conn, page, draft, toasts>>
      BY <2>1
    <3>2. page = "open" /\ Calm(calls) /\ toasts = {}
      BY <3>1, OnePress
    <3>3. (from = "csv" => draft.csv) /\ (from = "sheet" => draft.sheet)
      BY <3>1, WizardAssumption DEF Source
    <3> QED BY <3>1, <3>2, <3>3, FinalizeKept
  <2> QED BY <1>2, <2>1, DialogKept, BackKept, PlanActsKept, EntriesKept, SendsKept, RetryKept
          DEF OwnerActs, Offers
<1>3. CASE RefetchCards \/ RefetchCardsFails
  BY <1>3, DialogKept
<1>4. CASE \E s \in Slots : Serve(s) \/ Fail(s) \/ Hear(s)
  BY <1>4, ServeKept, HearsKept
<1> QED BY <1>1, <1>2, <1>3, <1>4 DEF WizardNext

(* The variables of the wizard have their types, however hasty the owner.  *)
THEOREM WizardTypes == WizardSpec => []WizardTypeOK
<1>1. WizardInit => WizardTyped
  BY TypedInit
<1>2. WizardTyped /\ [WizardNext]_wizardVars => WizardTyped'
  BY TypedStep
<1>3. WizardTyped => WizardTypeOK
  BY DEF WizardTyped, WizardTypeOK, ShapeOf, PlanFits, StackFits, Drafts, Tests, Offers, WizCalls
<1> QED BY <1>1, <1>2, <1>3, PTL DEF WizardSpec

(* The wizard of a careful owner says done of what the server has stored   *)
(* and stamped: the cadence, and the mapping and formats of an upload.     *)
THEOREM DoneIsStored ==
  ASSUME Careful
  PROVE  WizardSpec => []DoneMeansStored
<1>1. WizardInit => WizardInv
  <2> SUFFICES ASSUME WizardInit PROVE Kept
    BY TypedInit DEF WizardInv
  <2>1. page = "closed" /\ toasts = {}
    BY DEF WizardInit
  <2> QED BY <2>1 DEF Kept
<1>2. WizardInv /\ [WizardNext]_wizardVars => WizardInv'
  BY TypedStep, KeptStep DEF WizardInv
<1>3. WizardInv => DoneMeansStored
  <2> SUFFICES ASSUME WizardInv, Top = "done" PROVE conn.completed /\ Persisted
    BY DEF DoneMeansStored, DoneMeansCompleted, DoneMeansPersisted
  <2>1. page = "open" /\ LastStep(stack) = "done"
    BY TopIs DEF WizardInv, Steps
  <2>2. conn.completed /\ conn.cadence = draft.cadence /\ Grounds(kind, conn, draft, stack)
    BY <2>1 DEF WizardInv, Kept, StepsLeft, StepsOf
  <2> QED BY <2>2 DEF Persisted, Grounds, On, AsDrafted
<1> QED BY <1>1, <1>2, <1>3, PTL DEF WizardSpec
=============================================================================
