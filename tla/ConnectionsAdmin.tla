-------------------------- MODULE ConnectionsAdmin --------------------------
(***************************************************************************)
(* The page on which a super admin keeps the connections (connections.tsx  *)
(* of routes/ops).  A behaviour is about one of its parts, linkDesk:       *)
(* "panel", the dialog of one connection (ConnectionInvitePanel.tsx) with  *)
(* the handlers of connections_admin.py; "create", the dialog of a new one *)
(* (ConnectionCreateDialog.tsx); "verticals", who reviews the matches of a *)
(* vertical (VerticalCatalogPanel.tsx, vertical_assignments.py).  Nobody   *)
(* else changes what is shown, and reading the list does not fail.         *)
(***************************************************************************)
EXTENDS Integers, Sequences, FiniteSets

CONSTANTS
  Linked,            \* connections
  NoLink,
  UploadOnly,        \* those without a live mode (UPLOAD_ONLY_SYSTEMS)
  Creatable,         \* systems the dialog offers before the catalogue is read
  CatalogSystems,    \* systems it offers after
  OwnerEmails,
  MaxAsks            \* bound on the calls of a behaviour, on the times a
                     \* dialog is opened and on the times a vertical is picked

ASSUME LinksAssumption ==
  /\ NoLink \notin Linked /\ UploadOnly \subseteq Linked /\ MaxAsks \in Nat
  /\ CatalogSystems # {} /\ Creatable # {}

VARIABLES
  linkDesk,
  registry,    \* connection -> [there, mode, days, setup, test], days 0 for
               \* no override, test whether the last one passed
  rows,        \* the same, as last listed
  dlg,         \* the dialog: [of, row, life, forced, test, asks]: life
               \* counts the mounted panels, asks the confirmations open
  asks,        \* calls: [n, op, of, arg, life, pc, saw]
  fetches,     \* connections whose row a list on its way is for
  retriable,   \* Retry buttons on screen: [op, of, arg, life]
  askedOf,     \* connections that were shown when "Delete" was pressed
  crossed,     \* connections that two calls were about at a time, or whose
               \* mode the panel shown was not told
  switched,    \* an answer put another connection under an open confirmation
  form,        \* the new connection: [open, phase, system, name, offers]
  linksMade,   \* connections created: [system, name]
  pressed,     \* what the form showed when "Create" was pressed
  board2,      \* [vertical, email, listed]: the vertical picked, the address
               \* in the field, the assignments on screen
  assigned2,   \* assignments: <<email, vertical>>
  pairs,       \* addresses and verticals that were on screen together
  dark,        \* an answer was lost
  asksMade

linkVars == <<linkDesk, registry, rows, dlg, asks, fetches, retriable, askedOf, crossed, switched,
              form, linksMade, pressed, board2, assigned2, pairs, dark, asksMade>>

panelSide  == <<registry, rows, dlg, fetches, askedOf, crossed, switched>>
createSide == <<form, linksMade, pressed>>
boardSide  == <<board2, assigned2, pairs>>

-----------------------------------------------------------------------------
(* Calls                                                                   *)

AskFor(op, c, arg, life, rest) ==
  /\ asksMade < MaxAsks /\ asksMade' = asksMade + 1
  /\ asks' = rest \cup {[n |-> asksMade, op |-> op, of |-> c, arg |-> arg, life |-> life,
                          pc |-> "sent", saw |-> <<>>]}

Becomes(f, g) == asks' = (asks \ {f}) \cup {g}

(* An answer that does not come, or comes as an error: before the server   *)
(* did anything, or after.                                                 *)
AskLost(f) ==
  /\ f.pc \in {"sent", "done"} /\ Becomes(f, [f EXCEPT !.pc = "failed"])
  /\ dark' = (dark \/ f.pc = "done")
  /\ UNCHANGED <<panelSide, createSide, boardSide, retriable, asksMade>>

Fails2(f) == retriable' = retriable \cup {[op |-> f.op, of |-> f.of, arg |-> f.arg, life |-> f.life]}

-----------------------------------------------------------------------------
(* The dialog of a connection                                              *)

BusyPanel == \E f \in asks : f.life = dlg.life

PanelOn(c, row) ==
  [of |-> c, row |-> row, life |-> dlg.life + 1, forced |-> "none", test |-> row.test,
   asks |-> {}]

(* The panel has no key: with the props of another connection it keeps its *)
(* state but for what its effects reset.                                   *)
Rerendered(c, row) ==
  [dlg EXCEPT !.of = c, !.row = row,
     !.forced = IF c = dlg.of THEN @ ELSE "none",
     !.test = IF row.test = dlg.row.test THEN @ ELSE row.test]

AskPanel(op, c, arg, life) ==
  /\ AskFor(op, c, arg, life, asks)
  /\ crossed' = IF \E g \in asks : g.of = c THEN crossed \cup {c} ELSE crossed

ActiveMode == IF dlg.forced # "none" THEN dlg.forced ELSE dlg.row.mode

(* The list is read every 30 seconds: a poll may have come before.        *)
SelectLink(c) ==
  /\ dlg.of = NoLink /\ dlg.life < MaxAsks
  /\ rows' \in {rows, registry} /\ rows'[c].there /\ dlg' = PanelOn(c, rows'[c])
  /\ UNCHANGED <<registry, fetches, askedOf, crossed, switched, asks, retriable, asksMade>>

CloseLink ==
  /\ dlg.of # NoLink /\ dlg.asks = {} /\ dlg' = [dlg EXCEPT !.of = NoLink]
  /\ UNCHANGED <<registry, rows, fetches, askedOf, crossed, switched, asks, retriable, asksMade>>

(* handleForceMode, handleSaveCadence: an override is saved where there is *)
(* none, and cleared where there is one.                                   *)
PressPanel ==
  /\ dlg.of # NoLink /\ dlg.asks = {} /\ ~BusyPanel
  /\ \/ dlg.of \notin UploadOnly /\ AskPanel("force", dlg.of, "live", dlg.life)
     \/ ActiveMode # "upload" /\ AskPanel("force", dlg.of, "upload", dlg.life)
     \/ dlg.row.days = 0 /\ AskPanel("save", dlg.of, 30, dlg.life)
     \/ dlg.row.days # 0 /\ AskPanel("save", dlg.of, 0, dlg.life)
  /\ UNCHANGED <<registry, rows, dlg, fetches, askedOf, switched, retriable>>

OpenConfirm(what) ==
  /\ dlg.of # NoLink /\ dlg.asks = {} /\ ~BusyPanel
  /\ what = "test" => dlg.of \notin UploadOnly
  /\ dlg' = [dlg EXCEPT !.asks = {what}]
  /\ askedOf' = IF what = "delete" THEN askedOf \cup {dlg.of} ELSE askedOf
  /\ UNCHANGED <<registry, rows, fetches, crossed, switched, asks, retriable, asksMade>>

Confirming2(what) == \E f \in asks : f.op = what /\ f.life = dlg.life

CancelConfirm(what) ==
  /\ what \in dlg.asks /\ ~Confirming2(what) /\ dlg' = [dlg EXCEPT !.asks = @ \ {what}]
  /\ UNCHANGED <<registry, rows, fetches, askedOf, crossed, switched, asks, retriable, asksMade>>

ConfirmAsked(what) ==
  /\ what \in dlg.asks /\ ~Confirming2(what) /\ AskPanel(what, dlg.of, "none", dlg.life)
  /\ UNCHANGED <<registry, rows, dlg, fetches, askedOf, switched, retriable>>

(* The handlers of the server.  Clearing the override and resetting the    *)
(* wizard read the metadata and write all of it back.                      *)
WritesBack(f) == f.op = "reset" \/ (f.op = "save" /\ f.arg = 0)

Patched(f, r) ==
  CASE f.op = "force"  -> {[r EXCEPT !.mode = f.arg]}
    [] f.op = "save"   -> {[r EXCEPT !.days = f.arg]}
    [] f.op = "reset"  -> {[r EXCEPT !.setup = FALSE]}
    [] f.op = "test"   -> {[r EXCEPT !.test = ok] : ok \in BOOLEAN}
    [] f.op = "delete" -> {[r EXCEPT !.there = FALSE]}

ServeLink(f) ==
  /\ registry[f.of].there
  /\ \/ /\ f.pc = "sent" /\ WritesBack(f)
        /\ Becomes(f, [f EXCEPT !.pc = "read", !.saw = <<registry[f.of]>>])
        /\ UNCHANGED registry
     \/ /\ f.pc = "sent" /\ ~WritesBack(f)
        /\ \E r \in Patched(f, registry[f.of]) : registry' = [registry EXCEPT ![f.of] = r]
        /\ Becomes(f, [f EXCEPT !.pc = "done"])
     \/ /\ f.pc = "read"
        /\ \E r \in Patched(f, f.saw[1]) :
             registry' = [registry EXCEPT ![f.of].mode = r.mode, ![f.of].days = r.days,
                                          ![f.of].setup = r.setup]
        /\ Becomes(f, [f EXCEPT !.pc = "done"])
  /\ UNCHANGED <<rows, dlg, fetches, askedOf, crossed, switched, retriable, dark, asksMade>>

NotFound(f) ==
  /\ f.pc \in {"sent", "read"} /\ ~registry[f.of].there
  /\ Becomes(f, [f EXCEPT !.pc = "failed"])
  /\ UNCHANGED <<panelSide, retriable, dark, asksMade>>

(* An answer is heard by the panel that asked, if it is mounted still, and *)
(* by the page, which then lists the connections and puts the one it was   *)
(* about into the dialog (onUpdated), or closes it (onDeleted).            *)
Mine2(f) == dlg.of # NoLink /\ dlg.life = f.life

ForcedAfter(f)  == IF f.op = "force" THEN f.arg ELSE dlg.forced

(* A mode set by a panel that was closed since, by its Retry: the one that *)
(* is open is not told, and keeps the mode it was told before.             *)
Overlooked(f) ==
  f.op = "force" /\ f.of = dlg.of /\ f.life # dlg.life /\ dlg.forced # "none"

HearDone(f) ==
  /\ f.pc = "done" /\ asks' = asks \ {f}
  /\ IF f.op = "delete"
       THEN dlg' = [dlg EXCEPT !.of = NoLink, !.asks = {}] /\ rows' = registry /\ UNCHANGED fetches
       ELSE /\ dlg' = IF ~Mine2(f) THEN dlg
                      ELSE [dlg EXCEPT !.forced = ForcedAfter(f),
                              !.test = IF f.op = "test" THEN registry[f.of].test ELSE @,
                              !.asks = @ \ {f.op}]
            /\ fetches' = fetches \cup {f.of} /\ UNCHANGED rows
  /\ crossed' = IF Overlooked(f) THEN crossed \cup {f.of} ELSE crossed
  /\ UNCHANGED <<registry, askedOf, switched, retriable, dark, asksMade>>

(* An error leaves the confirmation open, but that of a test, which is     *)
(* taken for failed.                                                       *)
HearFailed(f) ==
  /\ f.pc = "failed" /\ asks' = asks \ {f} /\ Fails2(f)
  /\ dlg' = IF Mine2(f) /\ f.op = "test"
              THEN [dlg EXCEPT !.test = FALSE, !.asks = @ \ {"test"}] ELSE dlg
  /\ UNCHANGED <<registry, rows, fetches, askedOf, crossed, switched, dark, asksMade>>

(* A Retry is for the connection it failed for.  A mutant takes the shown. *)
RetriedShown(t) == IF dlg.of = NoLink THEN t.of ELSE dlg.of
RetriedOf(t)    == t.of

RetryPanel ==
  \E t \in retriable :
    /\ retriable' = retriable \ {t}
    /\ IF t.op = "test"
         THEN /\ dlg' = IF Mine2(t) THEN [dlg EXCEPT !.asks = @ \cup {"test"}] ELSE dlg
              /\ UNCHANGED <<asks, asksMade, crossed>>
         ELSE AskPanel(t.op, RetriedOf(t), t.arg, t.life) /\ UNCHANGED dlg
    /\ UNCHANGED <<registry, rows, fetches, askedOf, switched, dark>>

(* The list arrives; the connection a call was about is shown, whatever is *)
(* open by then.                                                           *)
ListArrives(c) ==
  /\ c \in fetches /\ fetches' = fetches \ {c} /\ rows' = registry
  /\ dlg' = IF ~registry[c].there THEN dlg
            ELSE IF dlg.of = NoLink THEN PanelOn(c, registry[c]) ELSE Rerendered(c, registry[c])
  /\ switched' = (switched \/ (dlg.of \notin {c, NoLink} /\ dlg.asks # {} /\ registry[c].there))
  /\ UNCHANGED <<registry, askedOf, crossed, asks, retriable, dark, asksMade>>

ConfirmKinds == {"test", "delete", "reset"}

PanelDesk ==
  \/ /\ \/ (\E c \in Linked : SelectLink(c)) \/ CloseLink \/ PressPanel
        \/ \E what \in ConfirmKinds : OpenConfirm(what) \/ CancelConfirm(what) \/ ConfirmAsked(what)
     /\ UNCHANGED dark
  \/ (\E f \in asks : ServeLink(f) \/ NotFound(f) \/ HearDone(f) \/ HearFailed(f))
  \/ RetryPanel \/ (\E c \in Linked : ListArrives(c))

-----------------------------------------------------------------------------
(* The dialog of a new connection                                          *)

BlankForm == [open |-> FALSE, phase |-> "form", system |-> "axios_hq", name |-> "none",
              offers |-> Creatable]

OpenForm ==
  /\ ~form.open /\ form' = [form EXCEPT !.open = TRUE]
  /\ UNCHANGED <<linksMade, pressed, asks, retriable, asksMade>>

(* Closing resets it, and is refused while a call is on its way.           *)
CloseForm ==
  /\ form.open /\ asks = {} /\ form' = [BlankForm EXCEPT !.offers = form.offers]
  /\ UNCHANGED <<linksMade, pressed, asks, retriable, asksMade>>

(* getConnectionSystems: the choice is kept if it is among them.           *)
CatalogRead ==
  /\ form.open /\ form.offers = Creatable
  /\ form' = [form EXCEPT !.offers = CatalogSystems,
                !.system = IF @ \in CatalogSystems THEN @ ELSE CHOOSE s \in CatalogSystems : TRUE]
  /\ UNCHANGED <<linksMade, pressed, asks, retriable, asksMade>>

(* The fields are not disabled while it is created.                        *)
FillForm ==
  /\ form.open /\ form.phase = "form"
  /\ \/ \E s \in form.offers \ {form.system} : form' = [form EXCEPT !.system = s]
     \/ \E name \in {"a", "b"} \ {form.name} : form' = [form EXCEPT !.name = name]
  /\ UNCHANGED <<linksMade, pressed, asks, retriable, asksMade>>

SubmitForm ==
  /\ form.open /\ form.phase = "form" /\ asks = {} /\ form.name # "none"
  /\ AskFor("create", [system |-> form.system, name |-> form.name], "none", 0, asks)
  /\ pressed' = pressed \cup {[system |-> form.system, name |-> form.name]}
  /\ UNCHANGED <<form, linksMade, retriable>>

ServeCreate(f) ==
  /\ f.pc = "sent" /\ linksMade' = Append(linksMade, f.of) /\ Becomes(f, [f EXCEPT !.pc = "done"])
  /\ UNCHANGED <<form, pressed, retriable, asksMade>>

HearCreated(f) ==
  /\ asks' = asks \ {f}
  /\ \/ f.pc = "done" /\ form' = [form EXCEPT !.phase = "success"] /\ UNCHANGED retriable
     \/ f.pc = "failed" /\ Fails2(f) /\ UNCHANGED form
  /\ UNCHANGED <<linksMade, pressed, asksMade>>

(* Retry calls runCreate as it was: the name and the system that failed.  *)
RetryOf(t)  == t.of

RetryCreate ==
  \E t \in retriable :
    /\ retriable' = retriable \ {t} /\ AskFor("create", RetryOf(t), "none", 0, asks)
    /\ UNCHANGED <<form, linksMade, pressed>>

CreateDesk ==
  \/ OpenForm \/ CloseForm \/ CatalogRead \/ FillForm \/ SubmitForm \/ RetryCreate
  \/ \E f \in asks : ServeCreate(f) \/ HearCreated(f)

-----------------------------------------------------------------------------
(* Who reviews the matches of a vertical                                   *)

(* The vertical may be picked at any time, the address not during a call.  *)
PickBoard ==
  /\ \/ \E v \in {"v1", "v2"} \ {board2.vertical} : board2' = [board2 EXCEPT !.vertical = v]
     \/ asks = {} /\ \E e \in OwnerEmails \ {board2.email} : board2' = [board2 EXCEPT !.email = e]
  /\ pairs' = pairs \cup (IF board2'.email = "none" THEN {} ELSE {<<board2'.email, board2'.vertical>>})
  /\ UNCHANGED <<assigned2, asks, retriable, asksMade>>

AssignOrRemove ==
  /\ asks = {}
  /\ \/ board2.email # "none" /\ AskFor("add", <<board2.email, board2.vertical>>, "none", 0, asks)
     \/ \E p \in board2.listed : p[2] = board2.vertical /\ AskFor("remove", p, "none", 0, asks)
  /\ UNCHANGED <<boardSide, retriable>>

(* add_assignment upserts, remove_assignment makes inactive.               *)
ServeAssign(f) ==
  /\ f.pc = "sent" /\ Becomes(f, [f EXCEPT !.pc = "done"])
  /\ assigned2' = IF f.op = "add" THEN assigned2 \cup {f.of} ELSE assigned2 \ {f.of}
  /\ UNCHANGED <<board2, pairs, retriable, asksMade>>

(* The list is read again; the address is cleared after an addition.      *)
ReadAgain(f)       == assigned2

HearAssigned(f) ==
  /\ f.pc = "done" /\ asks' = asks \ {f}
  /\ board2' = [board2 EXCEPT !.listed = ReadAgain(f), !.email = IF f.op = "add" THEN "none" ELSE @]
  /\ UNCHANGED <<assigned2, pairs, retriable, asksMade>>

(* The Retry of an addition is for the vertical and the address on screen  *)
(* as the error appears, that of a removal for the row.                    *)
AgainWith(f) == IF f.op = "add" THEN <<board2.email, board2.vertical>> ELSE f.of

HearUnassigned(f) ==
  /\ f.pc = "failed" /\ asks' = asks \ {f} /\ Fails2([f EXCEPT !.of = AgainWith(f)])
  /\ UNCHANGED <<boardSide, asksMade>>

RetryAssign ==
  \E t \in retriable :
    /\ retriable' = retriable \ {t}
    /\ IF t.op = "add" /\ t.of[1] = "none" THEN UNCHANGED <<asks, asksMade>>
       ELSE AskFor(t.op, t.of, "none", 0, asks)
    /\ UNCHANGED boardSide

BoardDesk ==
  \/ PickBoard \/ AssignOrRemove \/ RetryAssign
  \/ \E f \in asks : ServeAssign(f) \/ HearAssigned(f) \/ HearUnassigned(f)

-----------------------------------------------------------------------------

NewLink == [there |-> TRUE, mode |-> "live", days |-> 7, setup |-> TRUE,
            test |-> TRUE]

LinksInit ==
  /\ linkDesk \in {"panel", "create", "verticals"}
  /\ registry = [c \in Linked |-> IF c \in UploadOnly THEN [NewLink EXCEPT !.mode = "upload", !.days = 0]
                                  ELSE NewLink]
  /\ rows = registry
  /\ dlg = [of |-> NoLink, row |-> NewLink, life |-> 0, forced |-> "none", test |-> NewLink.test,
            asks |-> {}]
  /\ asks = {} /\ fetches = {} /\ retriable = {} /\ askedOf = {} /\ crossed = {}
  /\ switched = FALSE /\ form = BlankForm /\ linksMade = <<>> /\ pressed = {}
  /\ board2 = [vertical |-> "v1", email |-> "none", listed |-> {}]
  /\ assigned2 = {} /\ pairs = {} /\ dark = FALSE /\ asksMade = 0

LinksNext ==
  /\ UNCHANGED linkDesk
  /\ \/ linkDesk = "panel" /\ PanelDesk /\ UNCHANGED <<createSide, boardSide>>
     \/ linkDesk = "create" /\ CreateDesk /\ UNCHANGED <<panelSide, boardSide, dark>>
     \/ linkDesk = "verticals" /\ BoardDesk /\ UNCHANGED <<panelSide, createSide, dark>>
     \/ \E f \in asks : AskLost(f)

-----------------------------------------------------------------------------
(* Properties                                                              *)

(* At most MaxAsks calls were made, and the dialog shows a connection.     *)
LinksTypeOK ==
  /\ asksMade \in 0..MaxAsks /\ dlg.of \in Linked \cup {NoLink}
  /\ dlg.forced \in {"none", "live", "upload"} /\ dlg.asks \subseteq ConfirmKinds
  /\ form.phase \in {"form", "success"} /\ Len(linksMade) <= MaxAsks

(* When every answer and list has arrived the panel shows the mode the     *)
(* server holds, though it keeps the mode it was told apart from the row   *)
(* (forcedMode), whatever panel was closed with a call on its way and      *)
(* whatever connection it is by now; unless two calls about it were on     *)
(* their way at a time, one of which may write back metadata it read       *)
(* before the other's change, a Retry of a closed panel changed it while   *)
(* another showed the mode it had been told, or an answer was lost.        *)
ModeShown ==
  linkDesk = "panel" /\ dlg.of # NoLink /\ asks = {} /\ fetches = {} /\ ~dark /\ dlg.of \notin crossed
    => ActiveMode = registry[dlg.of].mode

(* Only a connection that was shown when "Delete" was pressed is deleted,  *)
(* also by a Retry after another one was opened; unless a list put another *)
(* one under the confirmation, which names none.                           *)
DeletesAsked == ~switched => \A c \in Linked : registry[c].there \/ c \in askedOf

(* Every connection there is was shown in the form as "Create" was         *)
(* pressed, also if a Retry made it after the form had changed.            *)
CreatedAsPressed == \A i \in DOMAIN linksMade : linksMade[i] \in pressed

(* Nobody reviews a vertical but by an address that was in the field while *)
(* the vertical was shown; and what is listed is so, once nothing is on    *)
(* its way, unless an answer was lost.                                     *)
AssignedAsShown ==
  /\ assigned2 \subseteq pairs
  /\ linkDesk = "verticals" /\ asks = {} /\ ~dark => board2.listed = assigned2

LinksTold == ModeShown /\ DeletesAsked /\ CreatedAsPressed /\ AssignedAsShown

=============================================================================
