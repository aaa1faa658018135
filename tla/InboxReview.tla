---------------------------- MODULE InboxReview -----------------------------
(***************************************************************************)
(* The review pane of the inbox (InboxReviewPane): one pane, not keyed by  *)
(* item, in which a reviewer picks a disposition, ticks the matched people *)
(* and promotes, declines, escalates, triages or approves the open item,   *)
(* while refetches, answers and the retry buttons of old toasts change     *)
(* what is underneath.                                                     *)
(*                                                                         *)
(* Of the pane's state only the tab and the connection follow the item;    *)
(* the disposition, the ticks, the batch default and the dialog stay.      *)
(***************************************************************************)
EXTENDS Integers, FiniteSets

CONSTANTS
  Items,         \* inbox rows
  People,        \* DWIDs
  NoItem,
  Work,          \* item -> "matching", "triage" or "notice": what it waits for
  MatchedPeople, \* item -> matched_contacts of its matching detail
  RowAdvice,     \* item -> recommended response status on the inbox row
  DetailAdvice,  \* item -> the same, on the matching detail
  MaxDecisions   \* bound on the calls of a behaviour

Codes == {3, 4, 5}            \* Confirm match, Multi-person, Not a match
NoCode == 0
NoOne == {}

ASSUME ReviewAssumption ==
  /\ NoItem \notin Items /\ MaxDecisions \in Nat
  /\ Work \in [Items -> {"matching", "triage", "notice"}]
  /\ MatchedPeople \in [Items -> SUBSET People]
  /\ RowAdvice \in [Items -> Codes] /\ DetailAdvice \in [Items -> Codes]

VARIABLES
  openItems,  \* server: items nobody has dealt with
  listed,     \* the last answer of the inbox query
  item,       \* the item in the pane
  shown,      \* whose matching detail the pane shows
  code,       \* fulfillStatus
  picked,     \* selectedDwids
  batchCode,  \* matchingBatchDefault, NoCode for null
  follow,     \* matchingUseBatchDefault
  dialog,     \* confirmAction, "none" for null
  sent,      \* calls in flight
  latest,     \* mutation -> its latest call: the one isPending is about
  retries,   \* error toasts: the variables their Retry sends again
  retried    \* history: somebody has pressed Retry

pickVars   == <<code, picked, batchCode, follow>>
wireVars   == <<sent, latest, retries, retried>>
reviewVars == <<openItems, listed, item, shown, pickVars, dialog, wireVars>>

Mutations == {"promote", "decline", "escalate", "triage_reject", "triage_match",
              "notice_approve"}

Dialogs(work) == CASE work = "matching" -> {"fulfill", "decline", "escalate"}
                   [] work = "triage"   -> {"triage_match", "triage_reject"}
                   [] work = "notice"   -> {"notice_approve"}

-----------------------------------------------------------------------------
(* What the pane shows                                                     *)

Contacts  == IF shown = NoItem THEN NoOne ELSE MatchedPeople[shown]
Suggested == IF shown = NoItem THEN RowAdvice[item] ELSE DetailAdvice[shown]

BatchDefault == IF batchCode = NoCode THEN Suggested ELSE batchCode

(* The status the summary of the two-tier view names.                      *)
Effective == IF follow THEN BatchDefault ELSE code

CallsMade == latest[CHOOSE m \in Mutations : \A n \in Mutations : latest[n] <= latest[m]]

Pending == \E c \in sent : latest[c.kind] = c.n         \* actionPending
Confirming == Pending /\ dialog # "none"

AnyPeople(c, dwids)    == TRUE                            \* mutant: no check
DwidsReady(c, dwids)   == c \in {3, 4} => dwids # NoOne
TwoTier   == item # NoItem /\ Work[item] = "matching" /\ shown # NoItem /\ dialog = "none"

-----------------------------------------------------------------------------
(* Opening items, and what loads by itself                                 *)

(* The first render of the pane, on the item the inbox picked: nothing is  *)
(* loaded, the status is the row's and nobody is ticked.                   *)
ReviewInit ==
  /\ openItems = Items /\ listed = Items
  /\ item \in Items /\ shown = NoItem
  /\ code = RowAdvice[item] /\ picked = NoOne
  /\ batchCode = NoCode /\ follow = TRUE /\ dialog = "none"
  /\ sent = {} /\ latest = [m \in Mutations |-> 0] /\ retries = {}
  /\ retried = FALSE

OpenItem(i) ==
  /\ item # NoItem /\ dialog = "none" /\ i \in listed \ {item}
  /\ item' = i
  /\ UNCHANGED <<openItems, listed, shown, pickVars, dialog, wireVars>>

(* placeholderData keeps the previous item's detail until this.            *)
DetailLoads ==
  /\ item # NoItem /\ shown # item
  /\ shown' = item
  /\ UNCHANGED <<openItems, listed, item, pickVars, dialog, wireVars>>

(* Somebody else deals with an item.                                       *)
HandledElsewhere(i) ==
  /\ i \in openItems /\ openItems' = openItems \ {i}
  /\ UNCHANGED <<listed, item, shown, pickVars, dialog, wireVars>>

(* The inbox refetches; when the item in the pane has gone, the effect on  *)
(* the rows puts the first of those left in its place, dialog or not.      *)
ActiveRow(i, open) ==
  IF i \in open THEN {i} ELSE IF open = {} THEN {NoItem} ELSE open

RefetchList ==
  /\ listed # openItems /\ listed' = openItems
  /\ item' \in ActiveRow(item, openItems)
  /\ UNCHANGED <<openItems, shown, pickVars, dialog, wireVars>>

-----------------------------------------------------------------------------
(* Picking                                                                 *)

(* handleFulfillStatusChange, with the contacts of the detail on show.     *)
Disposes(c) == code' = c /\ picked' = IF c = 5 THEN NoOne ELSE Contacts

Idle == /\ ~Pending
        /\ UNCHANGED <<openItems, listed, item, shown, dialog, wireVars>>

PickBatchDefault(c) ==
  /\ TwoTier /\ batchCode' = c
  /\ IF follow THEN Disposes(c) ELSE UNCHANGED <<code, picked>>
  /\ UNCHANGED follow /\ Idle

PickRow(c) ==
  /\ TwoTier /\ ~follow
  /\ Disposes(c) /\ UNCHANGED <<batchCode, follow>> /\ Idle

(* The checkbox "Use batch default for this row": ticking it calls        *)
(* onStatusChange, which clears it again.                                  *)
TickFollow(on) ==
  /\ TwoTier /\ on # follow
  /\ IF on THEN Disposes(BatchDefault) ELSE UNCHANGED <<code, picked>>
  /\ follow' = FALSE
  /\ UNCHANGED batchCode /\ Idle

PickInDialog(c) ==
  /\ dialog = "fulfill" /\ item # NoItem
  /\ Disposes(c) /\ UNCHANGED <<batchCode, follow>> /\ Idle

Toggle(p, dwids) == IF p \in dwids THEN dwids \ {p} ELSE dwids \cup {p}

TickPerson(p) ==
  /\ p \in Contacts
  /\ \/ TwoTier /\ Effective # 5
     \/ dialog = "fulfill" /\ item # NoItem /\ code \in {3, 4}
  /\ picked' = Toggle(p, picked)
  /\ UNCHANGED <<code, batchCode, follow>> /\ Idle

-----------------------------------------------------------------------------
(* Deciding                                                                *)

(* A mutation: for the item in the pane when it is called; seen is the     *)
(* status on screen at the click.                                          *)
Decide(kind, c, dwids, seen, again) ==
  /\ CallsMade < MaxDecisions
  /\ latest' = [latest EXCEPT ![kind] = CallsMade + 1]
  /\ sent' = sent \cup {[kind |-> kind, item |-> item, n |-> CallsMade + 1, code |-> c,
                           dwids |-> IF c = 5 THEN NoOne ELSE dwids, seen |-> seen]}
  /\ retried' = (retried \/ again)

Ask(d) ==
  /\ item # NoItem /\ dialog = "none" /\ ~Pending /\ d \in Dialogs(Work[item])
  /\ dialog' = d
  /\ UNCHANGED <<openItems, listed, item, shown, pickVars, wireVars>>

Cancel ==
  /\ item # NoItem /\ dialog # "none" /\ ~Confirming /\ dialog' = "none"
  /\ UNCHANGED <<openItems, listed, item, shown, pickVars, wireVars>>

Confirm ==
  /\ item # NoItem /\ dialog # "none" /\ ~Confirming
  /\ IF dialog = "fulfill"
       THEN DwidsReady(code, picked) /\ Decide("promote", code, picked, code, FALSE)
       ELSE Decide(dialog, NoCode, NoOne, NoCode, FALSE)
  /\ UNCHANGED <<openItems, listed, item, shown, pickVars, dialog, retries>>

(* The view hands the click event on as its draft, so that the pane takes  *)
(* its own fulfillStatus for the status on screen; without people the      *)
(* call is dropped in silence.                                             *)
Apply ==
  /\ TwoTier /\ ~Pending /\ DwidsReady(Effective, picked)
  /\ DwidsReady(code, picked)
  /\ Decide("promote", code, picked, Effective, FALSE)
  /\ UNCHANGED <<openItems, listed, item, shown, pickVars, dialog, retries>>

(* Answers.  onSuccess closes the dialog, whichever is open, but not that  *)
(* of decline; onError leaves it open and offers to send the same again.   *)
Closes(kind) == kind # "decline"

Succeeds(c) ==
  /\ c \in sent /\ c.item \in openItems
  /\ openItems' = openItems \ {c.item}
  /\ sent' = sent \ {c}
  /\ dialog' = IF Closes(c.kind) THEN "none" ELSE dialog
  /\ UNCHANGED <<listed, item, shown, pickVars, latest, retries, retried>>

Fails(c) ==
  /\ c \in sent /\ sent' = sent \ {c}
  /\ retries' = retries \cup {[kind |-> c.kind, code |-> c.code, dwids |-> c.dwids]}
  /\ UNCHANGED <<openItems, listed, item, shown, pickVars, dialog, latest, retried>>

(* Retry on a toast: mutate(variables), but for the item now in the pane.  *)
Retry(t) ==
  /\ item # NoItem /\ t \in retries /\ retries' = retries \ {t}
  /\ Decide(t.kind, t.code, t.dwids, t.code, TRUE)
  /\ UNCHANGED <<openItems, listed, item, shown, pickVars, dialog>>

ReviewNext ==
  \/ DetailLoads \/ RefetchList \/ Cancel \/ Confirm \/ Apply
  \/ \E i \in Items : OpenItem(i) \/ HandledElsewhere(i)
  \/ \E c \in Codes : PickBatchDefault(c) \/ PickRow(c) \/ PickInDialog(c)
  \/ \E on \in BOOLEAN : TickFollow(on)
  \/ \E p \in People : TickPerson(p)
  \/ \E d \in UNION {Dialogs(w) : w \in {"matching", "triage", "notice"}} : Ask(d)
  \/ \E c \in sent : Succeeds(c) \/ Fails(c)
  \/ \E t \in retries : Retry(t)

ReviewSpec == ReviewInit /\ [][ReviewNext]_reviewVars

-----------------------------------------------------------------------------
(* Properties                                                              *)

(* Only people who are DWIDs are ticked, only mutations the pane has are   *)
(* in flight (the state of InboxReviewPane).                               *)
ReviewTypeOK ==
  /\ openItems \subseteq listed /\ listed \subseteq Items
  /\ item \in listed \cup {NoItem} /\ shown \in Items \cup {NoItem}
  /\ code \in Codes /\ picked \subseteq People
  /\ batchCode \in Codes \cup {NoCode} /\ follow \in BOOLEAN
  /\ dialog \in {"none"} \cup UNION {Dialogs(w) : w \in {"matching", "triage", "notice"}}
  /\ \A c \in sent : c.kind \in Mutations /\ c.item \in Items /\ c.n <= latest[c.kind]

(* Whatever was switched, picked, cleared, failed and sent again before,   *)
(* a promotion carries people exactly when its status says that people     *)
(* matched: "empty contacts must not enable confirm"                       *)
(* (needs-attention.tsx, fulfillDwidsReady).                               *)
PromotesPeople ==
  \A c \in sent : c.kind = "promote" => (c.dwids = NoOne <=> c.code = 5)

(* Until a reviewer presses Retry, one decision at a time is in flight,    *)
(* though six mutations of the pane, two ways to promote and a changing    *)
(* item share the pane (actionPending).  Afterwards a call overtaken by a  *)
(* Retry of its own mutation is watched by nothing, and a second decision  *)
(* goes out beside it once the Retry is answered.                          *)
OneDecisionAtATime == ~retried => Cardinality(sent) <= 1

(* A decision leaves the pane once, and with the people its status speaks  *)
(* of (actionPending, fulfillDwidsReady).                                  *)
DecidesOnce == PromotesPeople /\ OneDecisionAtATime

(* A promotion sends the status on screen when it was asked for: "Row      *)
(* follows batch default" (TwoTierView.tsx).  Violated: Apply sends the    *)
(* pane's own status, which the batch default on screen need not be.       *)
SentAsShown ==
  \A c \in sent : c.kind = "promote" => c.code = c.seen

=============================================================================
