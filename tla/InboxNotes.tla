----------------------------- MODULE InboxNotes -----------------------------
(***************************************************************************)
(* What a reviewer writes beside an item of the inbox: the composer that   *)
(* posts a reply and then takes a decision (LegalInboxComposer), the plain *)
(* note (commentMutation) and the assignee picker (AssigneeAvatarPicker).  *)
(*                                                                         *)
(* None of the three is keyed by the item: text, status and search stay    *)
(* while the pane moves on, an answer finds another item on screen, and    *)
(* the Retry of an old toast acts on whatever item is shown by then.       *)
(***************************************************************************)
EXTENDS InboxItems

CONSTANTS
  NoteRows,       \* rows of the inbox
  Replies,        \* replies a reviewer writes, "" not among them
  Reviewer,       \* the viewer's email
  LegalMembers,   \* active members of the Legal team
  Colleagues,     \* emails the picker knows: operators, or an owner's own list
  FoundBy,        \* search text -> the emails that contain it
  Addresses,      \* search texts that are whole addresses
  MaxPosts1       \* bound on the calls of a behaviour

RowFields == {"request", "vertical", "system", "connections", "gate", "target", "assignee"}

ASSUME NotesAssumption ==
  /\ "" \notin Replies /\ "" \notin DOMAIN FoundBy /\ LegalMembers # {} /\ MaxPosts1 \in Nat
  /\ \A r \in NoteRows : /\ r = [f \in DOMAIN r |-> r[f]]
                         /\ RowFields \subseteq DOMAIN r
  /\ \A r, s \in NoteRows : ItemKey(r) = ItemKey(s) => r = s

VARIABLES
  noteDesk,    \* what the behaviour is about, and for whom
  kept,        \* server: the rows still in the inbox, with their assignment
  onList,      \* the rows on screen
  noteItem,    \* key of the item in the pane, NoPane for none
  choice,      \* statusId of the composer
  noteText,    \* body, commentDraft
  noteCalls,   \* calls in flight
  lastNote,    \* number of the latest call: the one isPending is about
  noteRetries, \* error toasts: the variables their Retry sends again
  ledger,      \* server: comments, decisions and assignments, in order
  pickerOpen, search,
  noteRetried, \* history: somebody has pressed Retry
  dropped,     \* history: texts an answer cleared that it had not stored
  strayed      \* history: an assignment was answered beside another item

noteCallVars == <<noteCalls, lastNote, noteRetries, noteRetried>>
writeVars == <<choice, noteText>>
pickVars1 == <<pickerOpen, search>>
rowState  == <<noteDesk, kept, onList>>
notesVars == <<rowState, noteItem, writeVars, noteCallVars, ledger, pickVars1, dropped, strayed>>

NoPane     == [request |-> "", vertical |-> "", system |-> ""]
RowOf(key) == CHOOSE r \in onList : ItemKey(r) = key
Posting    == \E c \in noteCalls : c.n = lastNote

-----------------------------------------------------------------------------
(* The composer's options                                                  *)

(* In the order of the menu: the first is the one a new item starts on.    *)
ComposerOptions(i) ==
  LET lanes ==
        (IF IsTriage(i)   THEN <<"triage_reject", "triage_match">> ELSE <<>>)
        \o (IF IsNotice(i)   THEN <<"notice_approve">> ELSE <<>>)
        \o (IF IsDelivery(i) THEN <<"delivery_delivered", "delivery_failed">> ELSE <<>>)
        \o (IF IsAssignmentToLegal(i) THEN <<"assignment_review">>
            ELSE IF IsFulfillmentLegal(i) THEN <<"fulfillment_note">> ELSE <<>>)
        \o (IF IsUnassigned(i) THEN <<"take_it">> ELSE <<>>)
  IN IF lanes = <<>> THEN <<"inbox_note">> ELSE lanes

NeedsBody == {"assignment_review", "fulfillment_note", "inbox_note"}
Offers1(i, o) == \E k \in DOMAIN ComposerOptions(i) : ComposerOptions(i)[k] = o

(* The effect on the options: a status the item does not offer gives way   *)
(* to its first one; any other is carried over from the item before.       *)
Settled1(o, i) == IF noteDesk.what # "composer" THEN ""
                  ELSE IF Offers1(i, o) THEN o ELSE Head(ComposerOptions(i))

(* What an option does once its reply is posted: the rows it leaves.       *)
HandedTo(r, kind, role, email) ==
  [r EXCEPT !.gate = kind, !.target = role, !.assignee = email]

Assigned1(rows, request, kind, role, email) ==
  {IF r.request # request THEN r ELSE HandedTo(r, kind, role, email) : r \in rows}

TakesOff(o, r) == \/ o \in {"triage_reject", "triage_match"} /\ IsTriage(r)
                  \/ o = "notice_approve" /\ IsNotice(r)
                  \/ o = "delivery_delivered" /\ IsDelivery(r)

Applied(o, i) ==
  IF o = "take_it" THEN Assigned1(kept, i.request, "assign", "reviewer", Reviewer)
  ELSE {r \in kept : r.request = i.request => ~TakesOff(o, r)}

-----------------------------------------------------------------------------
(* The item in the pane                                                    *)

NotesInit ==
  /\ noteDesk \in [what : {"composer"}, viewer : {"legal"}]
                  \cup [what : {"note"}, viewer : {"ops"}]
                  \cup [what : {"assign"}, viewer : {"legal", "ops", "owner"}]
  /\ kept = NoteRows /\ onList = NoteRows /\ noteItem \in {ItemKey(r) : r \in NoteRows}
  /\ choice = Settled1("", RowOf(noteItem)) /\ noteText = ""
  /\ noteCalls = {} /\ lastNote = 0 /\ noteRetries = {} /\ noteRetried = FALSE
  /\ ledger = <<>> /\ pickerOpen = FALSE /\ search = "" /\ dropped = {} /\ strayed = FALSE

(* Clicking a row also clicks beside an open picker, which closes first.   *)
OpenBeside(r) ==
  /\ r \in onList /\ noteItem # NoPane /\ ItemKey(r) # noteItem /\ ~pickerOpen
  /\ noteItem' = ItemKey(r) /\ choice' = Settled1(choice, r)
  /\ UNCHANGED <<rowState, noteText, noteCallVars, ledger, pickVars1, dropped, strayed>>

(* The list is read again; when the item has gone another takes its place, *)
(* when none is left the pane and what was typed in it go.                 *)
RefetchRows ==
  /\ onList # kept /\ onList' = kept
  /\ IF kept = {} THEN noteItem' = NoPane /\ choice' = "" /\ noteText' = "" /\ pickerOpen' = FALSE
                       /\ search' = ""
     ELSE /\ \E r \in kept :
               /\ (\E s \in kept : ItemKey(s) = noteItem) => ItemKey(r) = noteItem
               /\ noteItem' = ItemKey(r) /\ choice' = Settled1(choice, r)
          /\ UNCHANGED <<noteText, pickVars1>>
  /\ UNCHANGED <<noteDesk, kept, noteCallVars, ledger, dropped, strayed>>

-----------------------------------------------------------------------------
(* Writing and sending                                                     *)

OnDesk(what) == noteDesk.what = what /\ noteItem # NoPane

(* A call is for the item on screen when it starts.  Its handlers are those*)
(* of the latest render until another call overtakes it: beside, NoPane    *)
(* until then, is the item they are left with.                             *)
Overtaken(c) == [c EXCEPT !.beside = IF @ = NoPane THEN noteItem ELSE @]

Post1(what, text, step) ==
  /\ lastNote < MaxPosts1 /\ lastNote' = lastNote + 1
  /\ noteCalls' =
       {Overtaken(c) : c \in noteCalls}
       \cup {[item |-> RowOf(noteItem), what |-> what, text |-> text, step |-> step,
              n |-> lastNote + 1, beside |-> NoPane]}

NoReply(text)   == "decide"                               \* mutant: the reply is left out
FirstStep(text) == IF text = "" THEN "decide" ELSE "comment"

WriteDraft(t) ==
  /\ \/ OnDesk("composer") /\ ~Posting      \* the composer's box is disabled while it sends
     \/ OnDesk("note")
  /\ noteText' = t
  /\ UNCHANGED <<rowState, noteItem, choice, noteCallVars, ledger, pickVars1, dropped, strayed>>

ChooseStatus(o) ==
  /\ OnDesk("composer") /\ ~Posting /\ Offers1(RowOf(noteItem), o) /\ choice' = o
  /\ UNCHANGED <<rowState, noteItem, noteText, noteCallVars, ledger, pickVars1, dropped, strayed>>

Typing == UNCHANGED <<rowState, noteItem, writeVars, ledger, dropped, strayed>>

SendStatus ==
  /\ OnDesk("composer") /\ ~Posting /\ (choice \in NeedsBody => noteText # "")
  /\ Post1(choice, noteText, FirstStep(noteText))
  /\ UNCHANGED <<noteRetries, noteRetried, pickVars1>> /\ Typing

SendNote ==
  /\ OnDesk("note") /\ ~Posting /\ noteText # ""
  /\ Post1("note", noteText, "comment")
  /\ UNCHANGED <<noteRetries, noteRetried, pickVars1>> /\ Typing

(* mutate(variables), which looks the status up among the options of the   *)
(* item now shown; one it does not offer ends in an inline error.          *)
RetryNote(t) ==
  /\ t \in noteRetries /\ noteItem # NoPane
  /\ noteRetries' = noteRetries \ {t} /\ noteRetried' = TRUE
  /\ IF noteDesk.what = "composer" /\ ~Offers1(RowOf(noteItem), t.what)
       THEN UNCHANGED <<noteCalls, lastNote>>
       ELSE Post1(t.what, t.text, IF noteDesk.what = "composer" THEN FirstStep(t.text) ELSE t.step)
  /\ UNCHANGED pickVars1 /\ Typing

-----------------------------------------------------------------------------
(* Answers                                                                 *)

Entry(c, kind, email) ==
  [kind |-> kind, item |-> c.item.request, what |-> c.what, text |-> c.text, email |-> email]

(* What the server does with a step of a call: an assignment to legal goes *)
(* to every member of the team, one of whom the inbox names.               *)
AssignedTo(c, email, kind, role) ==
  /\ ledger' = Append(ledger, Entry(c, "assign", email))
  /\ kept' = Assigned1(kept, c.item.request, kind, role, email)

ServesPost(c) ==
  \/ /\ c.step = "comment" /\ ledger' = Append(ledger, Entry(c, "comment", ""))
     /\ UNCHANGED kept
  \/ /\ c.step = "decide" /\ ledger' = Append(ledger, Entry(c, "decision", ""))
     /\ kept' = Applied(c.what, c.item)
  \/ /\ c.step = "assign" /\ c.what = "legal"
     /\ \E e \in LegalMembers : AssignedTo(c, e, "escalate", "legal")
  \/ /\ c.step = "assign" /\ c.what # "legal"
     /\ AssignedTo(c, c.what, "assign", "reviewer")

Answers == UNCHANGED <<noteDesk, noteItem, choice, lastNote, noteRetried, pickVars1>>

(* A reply is stored; unless it was all there was to send, the decision    *)
(* goes out.  onSuccess of the composer and of the note empties the box,   *)
(* whatever is in it by now.                                               *)
Stored(c) ==
  /\ c \in noteCalls /\ c.step \in {"comment", "decide"} /\ ServesPost(c)
  /\ IF c.step = "comment" /\ c.what \notin NeedsBody \cup {"note"}
       THEN /\ noteCalls' = (noteCalls \ {c}) \cup {[c EXCEPT !.step = "decide"]}
            /\ UNCHANGED <<noteText, dropped>>
       ELSE /\ noteCalls' = noteCalls \ {c} /\ noteText' = ""
            /\ dropped' = dropped \cup ({noteText} \ {"", c.text})
  /\ UNCHANGED <<onList, noteRetries, strayed>> /\ Answers

(* An error, before the server did the step or after: a reply stored by    *)
(* then is posted once more by a Retry.  "data" is refused before any call.*)
PostFails(c, done) ==
  /\ c \in noteCalls /\ noteCalls' = noteCalls \ {c}
  /\ noteRetries' = noteRetries \cup {[what |-> c.what, text |-> c.text, step |-> c.step]}
  /\ IF done THEN c.what # "data" /\ ServesPost(c) ELSE UNCHANGED <<ledger, kept>>
  /\ UNCHANGED <<onList, noteText, dropped, strayed>> /\ Answers

-----------------------------------------------------------------------------
(* The assignee picker                                                     *)

Owner2     == noteDesk.viewer = "owner"
Assignables ==
  IF Owner2 THEN Colleagues
  ELSE {Reviewer} \cup Colleagues \cup ({r.assignee : r \in onList} \ {""})
Predicted  == IF search = "" THEN Assignables ELSE Assignables \cap FoundBy[search]
CanAssignTyped == ~Owner2 /\ search \in Addresses \ Assignables

(* "Data" is offered to legal alone, and always refused before any call.   *)
Teams == IF noteDesk.viewer = "legal" THEN {"legal", "data"} ELSE {"legal"}

OpenPicker ==
  /\ OnDesk("assign") /\ ~pickerOpen /\ ~Posting /\ pickerOpen' = TRUE
  /\ UNCHANGED <<noteCallVars, search>> /\ Typing

ClosePicker ==
  /\ pickerOpen /\ pickerOpen' = FALSE /\ search' = "" /\ UNCHANGED noteCallVars /\ Typing

SearchFor(q) ==
  /\ pickerOpen /\ search' = q /\ UNCHANGED <<noteCallVars, pickerOpen>> /\ Typing

AssignTo(email) == Post1(email, "", "assign") /\ UNCHANGED <<noteRetries, noteRetried>>

PressEnter ==
  /\ pickerOpen /\ pickerOpen' = FALSE /\ search' = ""
  /\ IF CanAssignTyped THEN AssignTo(search)
     ELSE Cardinality(Predicted) = 1 /\ \E e \in Predicted : AssignTo(e)
  /\ Typing

(* A choice from the list closes the picker and keeps the search.          *)
PickPerson(e) ==
  /\ pickerOpen /\ ~Posting /\ e \in Predicted /\ pickerOpen' = FALSE
  /\ AssignTo(e) /\ UNCHANGED search /\ Typing

PickTeam(g) ==
  /\ pickerOpen /\ ~Posting /\ g \in Teams /\ pickerOpen' = FALSE
  /\ IF g = "legal" THEN AssignTo("legal")
     ELSE noteRetries' = noteRetries \cup {[what |-> "data", text |-> "", step |-> "assign"]}
          /\ UNCHANGED <<noteCalls, lastNote, noteRetried>>
  /\ UNCHANGED search /\ Typing

(* The rows on screen are patched before they are read again: those of the *)
(* item shown by now.                                                      *)
About1(c) == IF c.beside = NoPane THEN noteItem ELSE c.beside

SameReview(r, i) ==
  r.request = i.request /\ (i.vertical = "" \/ r.vertical \in {"", i.vertical})

PatchedRows(rows, i, what) ==
  {IF ~SameReview(r, i) THEN r
   ELSE IF what = "legal" THEN HandedTo(r, "escalate", "legal", "")
   ELSE HandedTo(r, "assign", "reviewer", what) : r \in rows}

AssignAnswered(c) ==
  /\ c \in noteCalls /\ c.step = "assign" /\ c.what # "data" /\ noteCalls' = noteCalls \ {c}
  /\ ServesPost(c)
  /\ onList' = IF \E r \in onList : ItemKey(r) = About1(c)
                THEN PatchedRows(onList, RowOf(About1(c)), c.what) ELSE onList
  /\ strayed' = (strayed \/ About1(c) # ItemKey(c.item))
  /\ UNCHANGED <<noteText, dropped, noteRetries>> /\ Answers

NotesNext ==
  \/ RefetchRows \/ SendStatus \/ SendNote \/ OpenPicker \/ ClosePicker \/ PressEnter
  \/ \E r \in onList : OpenBeside(r)
  \/ \E t \in Replies \cup {""} : WriteDraft(t)
  \/ \E r \in onList : \E o \in ToSet(ComposerOptions(r)) : ChooseStatus(o)
  \/ \E c \in noteCalls : \/ Stored(c) \/ AssignAnswered(c)
                          \/ \E done \in BOOLEAN : PostFails(c, done)
  \/ \E t \in noteRetries : RetryNote(t)
  \/ \E q \in DOMAIN FoundBy : SearchFor(q)
  \/ \E e \in Assignables : PickPerson(e)
  \/ \E g \in Teams : PickTeam(g)

NotesSpec == NotesInit /\ [][NotesNext]_notesVars

-----------------------------------------------------------------------------
(* Properties                                                              *)

NotesTypeOK ==
  /\ noteItem \in {NoPane} \cup {ItemKey(r) : r \in onList} /\ noteText \in Replies \cup {""}
  /\ OnDesk("composer") => Offers1(RowOf(noteItem), choice)
  /\ \A c \in noteCalls : c.n <= lastNote /\ c.step \in {"comment", "decide", "assign"}
  /\ search \in {""} \cup DOMAIN FoundBy /\ pickerOpen \in BOOLEAN

(* A decision stands in the record after the reply that was sent with it,  *)
(* on the same request, whatever failed, was retried or moved in between   *)
(* (buildLegalComposerOptions, run).                                       *)
ReplyBeforeDecision ==
  \A k \in DOMAIN ledger : ledger[k].kind = "decision" /\ ledger[k].text # "" =>
    \E j \in 1..(k - 1) : /\ ledger[j].kind = "comment" /\ ledger[j].item = ledger[k].item
                          /\ ledger[j].text = ledger[k].text

(* No decision is asked for an item whose lane does not offer it, by a     *)
(* Retry beside another item neither (LegalInboxComposer, mutationFn).     *)
OnlyOffered ==
  noteDesk.what = "composer" => \A c \in noteCalls : Offers1(c.item, c.what)

(* The composer's box is emptied of a text only when that text is stored,  *)
(* until somebody presses Retry (disabled textarea, setBody).              *)
KeepsWriting == noteDesk.what = "composer" /\ ~noteRetried => dropped = {}

(* As long as no answer comes beside another item, a row on screen names   *)
(* only people its request was assigned to (assignMutation, onSuccess).    *)
NamesAssignee ==
  ~strayed => \A r \in onList :
    \/ r.assignee = "" \/ \E s \in NoteRows : s.request = r.request /\ s.assignee = r.assignee
    \/ \E k \in DOMAIN ledger :
         /\ ledger[k].item = r.request
         /\ r.assignee = IF ledger[k].kind = "assign" THEN ledger[k].email
                         ELSE IF ledger[k].what = "take_it" THEN Reviewer ELSE ""

(* What is written beside an item is stored with the decision it goes with,*)
(* for an item that offers it, and is not lost; rows name whom they are    *)
(* assigned to.                                                            *)
NotesTold == ReplyBeforeDecision /\ OnlyOffered /\ KeepsWriting /\ NamesAssignee

=============================================================================
