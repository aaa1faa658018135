--------------------------- MODULE LegalSettings ----------------------------
(***************************************************************************)
(* Forms in which the settings of the program are kept.  A behaviour is    *)
(* about one of them, legalDesk: "rule", the condition that sends requests *)
(* to triage (ConditionsEditor.tsx); "fields", the deadlines and the hour  *)
(* of the weekly upload, saved as a field is left; "template", the texts   *)
(* of the e-mails; "team", who hears of assignments (all of                *)
(* LegalSettingsSheet.tsx, slas.tsx); "limits", how often an attempt is    *)
(* retried (RetryConfigPanel.tsx).  Each shows what was read of the        *)
(* server, lets some of it be changed, and sends a part: a function from   *)
(* keys to values.  Somebody else may change a key at any time, once.      *)
(***************************************************************************)
EXTENDS Integers, FiniteSets

CONSTANTS
  UsStates,      \* states of the condition
  SlaFields,     \* fields saved one by one
  MailTypes,     \* types of templates
  LegalTeam,     \* addresses
  AttemptTables, \* tables with a limit
  MaxPatches     \* bound on the calls of a behaviour, on the times a form is
                 \* left and on its edits

ASSUME LegalAssumption ==
  /\ MaxPatches \in Nat /\ UsStates # {} /\ MailTypes # {}

VARIABLES
  legalDesk,
  onServer,    \* key -> value, on the server
  known,       \* as last read
  pane,        \* [text, dirty, pick, open, life, past]: what is in the form,
               \* whether it was edited, the template picked; life counts the
               \* times it was mounted, past is its text as it was left
  patches,     \* calls: [n, body, kind, pc, life]; kind tells additions to
               \* the team from removals
  rereads,     \* a reading is on its way
  toRetry,     \* Retry buttons: [body, kind, life]; one per toast
  givenAs,     \* <<key, value>> that were on screen as they were sent, or that
               \* somebody else gave
  theirs,      \* <<key, value>> somebody else gave, not sent from here since
  outdated,    \* known may lag behind: somebody else's change, a lost answer
  meant,       \* a rule as its editor left it
  hasty,       \* it was edited with a save or a reading on its way
  patchesMade, edits

legalVars == <<legalDesk, onServer, known, pane, patches, rereads, toRetry, givenAs, theirs, outdated,
               meant, hasty, patchesMade, edits>>

Floor == 4
NoText == "none"   \* an empty text

(* A body with one key; what holds after a body was written.               *)
Keyed(k, v)      == [x \in {k} |-> v]
Over(body, base) ==
  [x \in DOMAIN body \cup DOMAIN base |-> IF x \in DOMAIN body THEN body[x] ELSE base[x]]

-----------------------------------------------------------------------------
(* Sending                                                                 *)

Patch(body, kind, life) ==
  /\ patchesMade < MaxPatches /\ patchesMade' = patchesMade + 1
  /\ patches' = patches \cup {[n |-> patchesMade, body |-> body, kind |-> kind, pc |-> "sent",
                               life |-> life]}
  /\ theirs' = {t \in theirs : t[1] \notin DOMAIN body}

ShownNow(body) == givenAs' = givenAs \cup {<<k, body[k]>> : k \in DOMAIN body}

Turns(f, pc) == patches' = (patches \ {f}) \cup {[f EXCEPT !.pc = pc]}

(* Handlers.  A condition must name states and a reason, and of two that   *)
(* are saved at a time the second finds no rule to replace; a deadline has *)
(* at least a day; a limit has a floor and, for the server only, a ceiling.*)
Accepted(body) ==
  CASE legalDesk = "rule"   -> body["states"] # {} /\ body["note"] # NoText
    [] legalDesk = "fields" -> \A k \in DOMAIN body : body[k] >= 1
    [] legalDesk = "limits" -> \A t \in DOMAIN body : body[t] \in Floor..20
    [] OTHER -> TRUE

Crowded(f) == legalDesk = "rule" /\ \E g \in patches \ {f} : g.pc \in {"sent", "done"}

ServePatch(f) ==
  /\ f.pc = "sent"
  /\ \/ /\ Accepted(f.body) /\ onServer' = Over(f.body, onServer) /\ Turns(f, "done")
     \/ (~Accepted(f.body) \/ Crowded(f)) /\ Turns(f, "failed") /\ UNCHANGED onServer
  /\ UNCHANGED <<known, pane, rereads, toRetry, givenAs, theirs, outdated, meant, hasty,
                 patchesMade, edits>>

(* An answer that does not come, before the server did anything or after:  *)
(* a bound, that of the first call.                                        *)
PatchLost(f) ==
  /\ f.n = 0 /\ f.pc \in {"sent", "done"} /\ Turns(f, "failed")
  /\ outdated' = (outdated \/ f.pc = "done")
  /\ UNCHANGED <<onServer, known, pane, rereads, toRetry, givenAs, theirs, meant, hasty,
                 patchesMade, edits>>

(* Somebody else, by the same forms: not over a call that is on its way,   *)
(* and always the same key, those of a form being alike.                   *)
TheirKey == IF legalDesk = "rule" THEN "states" ELSE CHOOSE k \in DOMAIN onServer : TRUE

Otherwise(k) ==
  CASE legalDesk = "rule" -> IF k = "states" THEN {UsStates} ELSE {onServer[k]}
    [] legalDesk = "team" -> {~onServer[k]}
    [] legalDesk = "template" -> {"theirs"}
    [] OTHER -> {7}

SomebodyElse(k) ==
  /\ theirs = {} /\ ~outdated /\ \A f \in patches : k \notin DOMAIN f.body
  /\ \E v \in Otherwise(k) \ {onServer[k]} : /\ onServer' = Over(Keyed(k, v), onServer)
                                             /\ theirs' = {<<k, v>>}
                                             /\ givenAs' = givenAs \cup {<<k, v>>}
  /\ outdated' = TRUE
  /\ UNCHANGED <<known, pane, patches, rereads, toRetry, meant, hasty, patchesMade, edits>>

-----------------------------------------------------------------------------
(* What the form shows of what was read                                    *)

(* The effects: a rule follows what is read unless it was edited, a       *)
(* template whenever what is read has changed; the fields take it as they *)
(* are mounted only.                                                      *)
Follows(text, dirty, data) ==
  CASE legalDesk = "rule" /\ ~dirty -> data
    [] legalDesk = "template" /\ data # known -> data[pane.pick]
    [] OTHER -> text

(* A query is read again when it is invalidated with its tab open, when    *)
(* the tab is opened, and when the window is focused or its time has come. *)
Reread ==
  /\ pane.open /\ outdated /\ ~rereads /\ rereads' = TRUE
  /\ UNCHANGED <<onServer, known, pane, patches, toRetry, givenAs, theirs, outdated, meant, hasty,
                 patchesMade, edits>>

ReadArrivesS ==
  /\ rereads /\ rereads' = FALSE /\ known' = onServer /\ outdated' = FALSE
  /\ pane' = [pane EXCEPT !.text = IF legalDesk = "rule" /\ ~pane.open THEN @
                                   ELSE Follows(@, pane.dirty, onServer),
                          !.dirty = IF legalDesk = "template" /\ onServer # known THEN FALSE ELSE @]
  /\ meant' = IF pane.dirty THEN meant ELSE pane'.text
  /\ UNCHANGED <<onServer, patches, toRetry, givenAs, theirs, hasty, patchesMade, edits>>

ReadFailsS ==
  /\ legalDesk = "rule" /\ rereads /\ rereads' = FALSE /\ outdated' = TRUE
  /\ UNCHANGED <<onServer, known, pane, patches, toRetry, givenAs, theirs, meant, hasty,
                 patchesMade, edits>>

-----------------------------------------------------------------------------
(* Answers                                                                 *)

(* A success replaces the toast of an error with its id.  The list is     *)
(* read again.                                                            *)
SameToast(t, f) == legalDesk # "limits" /\ t.kind = f.kind
RereadAfter(f)   == rereads \/ pane.open

HearSaved(f) ==
  /\ f.pc = "done" /\ patches' = patches \ {f} /\ rereads' = RereadAfter(f)
  /\ outdated' = (outdated \/ ~pane.open)
  /\ toRetry' = {t \in toRetry : ~SameToast(t, f)}
  /\ pane' = CASE legalDesk = "rule" /\ pane.open /\ f.life = pane.life ->
                  [pane EXCEPT !.dirty = FALSE, !.text = known]
               [] legalDesk = "team" /\ f.kind -> [pane EXCEPT !.text = NoText]
               [] OTHER -> pane
  /\ UNCHANGED <<onServer, known, givenAs, theirs, meant, hasty, patchesMade, edits>>

(* Saving a template offers no Retry.                                      *)
HearRefused(f) ==
  /\ f.pc = "failed" /\ patches' = patches \ {f}
  /\ toRetry' = IF legalDesk = "template" THEN toRetry
                ELSE {t \in toRetry : ~SameToast(t, f)} \cup
                     {[body |-> f.body, kind |-> f.kind, life |-> f.life]}
  /\ UNCHANGED <<onServer, known, pane, rereads, givenAs, theirs, outdated, meant, hasty,
                 patchesMade, edits>>

(* Retry sends what was sent; that of a rule, which passes no variables,   *)
(* what its editor shows by then or showed as it was left, whether or not  *)
(* it could be saved.                                                      *)
RetryPatch ==
  \E t \in toRetry :
    LET shows == IF t.life = pane.life THEN pane.text ELSE pane.past
    IN
    /\ toRetry' = toRetry \ {t}
    /\ IF legalDesk = "rule" THEN Patch(shows, t.kind, t.life) /\ ShownNow(shows)
       ELSE Patch(t.body, t.kind, t.life) /\ UNCHANGED givenAs
    /\ UNCHANGED <<onServer, known, pane, rereads, outdated, meant, hasty, edits>>

-----------------------------------------------------------------------------
(* Edits                                                                   *)

OnItsWay == rereads \/ patches # {}

EditRule ==
  /\ edits < MaxPatches /\ edits' = edits + 1
  /\ \E text \in {[pane.text EXCEPT !["states"] = (@ \ {s}) \cup ({s} \ @)] : s \in UsStates}
                 \cup {[pane.text EXCEPT !["mode"] = IF @ = "in" THEN "not_in" ELSE "in"],
                       [pane.text EXCEPT !["note"] = IF @ = NoText THEN "why" ELSE NoText]} :
       pane' = [pane EXCEPT !.text = text, !.dirty = TRUE] /\ meant' = text
  /\ hasty' = (hasty \/ OnItsWay)
  /\ UNCHANGED <<onServer, known, patches, rereads, toRetry, givenAs, theirs, outdated, patchesMade>>

FieldTexts == {[pane.text EXCEPT ![k] = IF k = TheirKey THEN 0 ELSE 2] : k \in SlaFields}
LimitTexts ==
  UNION {{Over(Keyed(t, v), pane.text) : v \in IF t = TheirKey THEN {25} ELSE {0, 6}} : t \in AttemptTables}

Texts ==
  CASE legalDesk = "fields"   -> FieldTexts
    [] legalDesk = "template" -> {NoText, "ours"}
    [] legalDesk = "team"     -> LegalTeam
    [] legalDesk = "limits"   -> LimitTexts

TypeText ==
  /\ edits < MaxPatches /\ edits' = edits + 1
  /\ \E text \in Texts \ {pane.text} : pane' = [pane EXCEPT !.text = text, !.dirty = TRUE]
  /\ UNCHANGED <<onServer, known, patches, rereads, toRetry, givenAs, theirs, outdated, meant,
                 hasty, patchesMade>>

(* What may be sent: a rule that was edited, has states and a reason; a    *)
(* field as it is left, edited or not; a template with a text; a member to *)
(* be added or, of those listed, removed; a limit not below the floor.     *)
SendsRule ==
  {t \in {pane.text} : pane.dirty /\ t["states"] # {} /\ t["note"] # NoText /\ patches = {}}
SendsField  == {Keyed(k, pane.text[k]) : k \in SlaFields}
SendsMail   == {Keyed(p, pane.text) : p \in {q \in {pane.pick} : pane.text # NoText /\ patches = {}}}
SendsMember == {Keyed(e, TRUE) : e \in {pane.text} \ {NoText}}
               \cup {Keyed(e, FALSE) : e \in {m \in LegalTeam : known[m]}}
LimitShown(t) == IF t \in DOMAIN pane.text THEN pane.text[t] ELSE known[t]
SendsLimit ==
  {Keyed(t, LimitShown(t)) : t \in {x \in AttemptTables : LimitShown(x) >= Floor /\ patches = {}}}

Sendable ==
  CASE legalDesk = "rule"     -> SendsRule
    [] legalDesk = "fields"   -> SendsField
    [] legalDesk = "template" -> SendsMail
    [] legalDesk = "team"     -> SendsMember
    [] legalDesk = "limits"   -> SendsLimit

KindOf(body) == IF legalDesk = "team" THEN body[CHOOSE e \in DOMAIN body : TRUE] ELSE TRUE

(* A mutant sends all fields with the one that is left.                    *)
WholeForm(body) == IF legalDesk = "fields" THEN pane.text ELSE body
OnlyThis(body)  == body

SendPatch ==
  /\ \E body \in Sendable : Patch(OnlyThis(body), KindOf(body), pane.life) /\ ShownNow(body)
  /\ UNCHANGED <<onServer, known, pane, rereads, toRetry, outdated, meant, hasty, edits>>

(* Another type of template: its text as last read.                        *)
PickMail ==
  /\ legalDesk = "template"
  /\ \E p \in MailTypes \ {pane.pick} :
       pane' = [pane EXCEPT !.pick = p, !.text = known[p], !.dirty = FALSE]
  /\ UNCHANGED <<onServer, known, patches, rereads, toRetry, givenAs, theirs, outdated, meant,
                 hasty, patchesMade, edits>>

(* The form is left and comes again: rules and fields are mounted anew,    *)
(* with what was read before; drafts of templates and members stay.  A     *)
(* rule read within 15 seconds is not read again.                          *)
LeaveForm ==
  /\ pane.open /\ pane.life = 0
  /\ pane' = [pane EXCEPT !.open = FALSE, !.past = IF legalDesk = "rule" THEN pane.text ELSE NoText]
  /\ UNCHANGED <<onServer, known, patches, rereads, toRetry, givenAs, theirs, outdated, meant,
                 hasty, patchesMade, edits>>

ComeAgain ==
  /\ ~pane.open /\ rereads' \in IF legalDesk = "rule" THEN {rereads, TRUE} ELSE {TRUE}
  /\ pane' = [pane EXCEPT !.open = TRUE, !.life = @ + 1,
                !.text = IF legalDesk \in {"rule", "fields"} THEN known
                         ELSE IF legalDesk = "limits" THEN <<>> ELSE @,
                !.dirty = IF legalDesk = "rule" THEN FALSE ELSE @]
  /\ meant' = pane'.text /\ hasty' = FALSE
  /\ UNCHANGED <<onServer, known, patches, toRetry, givenAs, theirs, outdated, patchesMade, edits>>

-----------------------------------------------------------------------------

KeysS ==
  CASE legalDesk = "rule" -> {"mode", "states", "note"}
    [] legalDesk = "fields" -> SlaFields
    [] legalDesk = "template" -> MailTypes
    [] legalDesk = "team" -> LegalTeam
    [] legalDesk = "limits" -> AttemptTables

StartOf2(k) ==
  CASE legalDesk = "rule" -> (IF k = "mode" THEN "not_in" ELSE IF k = "note" THEN "why"
                              ELSE {CHOOSE s \in UsStates : TRUE})
    [] legalDesk = "fields" -> 3
    [] legalDesk = "template" -> NoText
    [] legalDesk = "team" -> FALSE
    [] legalDesk = "limits" -> 5

LegalInit ==
  /\ legalDesk \in {"rule", "fields", "template", "team", "limits"}
  /\ onServer = [k \in KeysS |-> StartOf2(k)] /\ known = onServer
  /\ pane = [text |-> CASE legalDesk \in {"rule", "fields"} -> onServer
                        [] legalDesk = "limits" -> <<>>
                        [] OTHER -> NoText,
             dirty |-> FALSE, pick |-> CHOOSE p \in MailTypes : TRUE, open |-> TRUE, life |-> 0,
             past |-> NoText]
  /\ patches = {} /\ rereads = FALSE /\ toRetry = {} /\ theirs = {} /\ outdated = FALSE
  /\ givenAs = {<<k, onServer[k]>> : k \in KeysS} /\ meant = pane.text /\ hasty = FALSE
  /\ patchesMade = 0 /\ edits = 0

LegalNext ==
  /\ UNCHANGED legalDesk
  /\ \/ \E f \in patches : ServePatch(f) \/ PatchLost(f) \/ HearSaved(f) \/ HearRefused(f)
     \/ SomebodyElse(TheirKey)
     \/ Reread \/ ReadArrivesS \/ ReadFailsS \/ RetryPatch \/ ComeAgain
     \/ pane.open /\ \/ legalDesk = "rule" /\ EditRule
                     \/ legalDesk # "rule" /\ TypeText
                     \/ SendPatch \/ PickMail \/ LeaveForm

-----------------------------------------------------------------------------
(* Properties                                                              *)

(* The form is mounted at most once more than it is left, and a rule that  *)
(* is not edited shows what was read.                                      *)
LegalTypeOK ==
  /\ DOMAIN onServer = KeysS /\ DOMAIN known = KeysS /\ patchesMade \in 0..MaxPatches
  /\ pane.life \in 0..1 /\ pane.pick \in MailTypes
  /\ \A f \in patches : DOMAIN f.body \subseteq KeysS /\ f.pc \in {"sent", "done", "failed"}

(* What the server holds under a key was on screen under that key as it    *)
(* was sent (or as a rule's editor was left), or is somebody else's: also  *)
(* after another template was picked with a save on its way, and by a      *)
(* Retry after the form has changed.                                       *)
AsLeft == \A k \in KeysS : <<k, onServer[k]>> \in givenAs

(* A key somebody else changed, and that was not sent from here since,     *)
(* stays as it was set, though the form shows its former value.            *)
TheirsKept == legalDesk # "rule" => \A t \in theirs : onServer[t[1]] = t[2]

(* Once nothing is on its way what was read is what the server holds,      *)
(* unless somebody else changed it or an answer or a reading was lost.     *)
ReadAfterSave == ~OnItsWay /\ ~outdated => known = onServer

(* The editor of a rule never changes what its user set and did not save;  *)
(* and what it shows as saved was read of the server; unless the user went *)
(* on editing with a save or the reading after it on its way, which is     *)
(* dropped or starts from the former rule.                                 *)
EditsKept ==
  legalDesk = "rule" =>
    IF pane.dirty THEN hasty \/ pane.text = meant ELSE ~pane.open \/ pane.text = known

LegalTold == AsLeft /\ TheirsKept /\ ReadAfterSave /\ EditsKept

=============================================================================
