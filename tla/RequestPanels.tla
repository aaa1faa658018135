---------------------------- MODULE RequestPanels ----------------------------
(***************************************************************************)
(* The panels inside the detail of a request, each with its own mutation:  *)
(* the fulfilment gate (identity, kickoff), the owner's status of a        *)
(* vertical, notes in two composers, attachments, the access e-mail and    *)
(* the activity list.  They share nothing but the request and the          *)
(* invalidation that refetches it, so a behaviour is about one, desk.      *)
(***************************************************************************)
EXTENDS Integers, SequencesExt

CONSTANTS
  Verticals,     \* of the request's fulfilment cluster
  Automatic,     \* AUTOMATIC_FULFILLMENT_VERTICALS
  MaxSends,      \* bound on the calls of a behaviour
  MaxEntries     \* bound on the entries of the timeline

ASSUME PanelsAssumption == Automatic \subseteq Verticals /\ MaxSends \in Nat

Desks == {"gate", "owner", "notes", "files", "email", "activity"}

VARIABLES
  desk,
  kicked,        \* server: verticals kicked off
  rowsKicked,    \* the same as the rows on screen say
  verified,      \* server: identity verified
  override,      \* statusOverride, 0 for "keep current disposition"
  typed,         \* field -> text: notes, comments, status of a vertical
  sends,         \* calls in flight, [what, about, text, n]; settled while they await the refetch
  latestSend,    \* mutation -> number of its latest call
  sendsMade,
  retryable,     \* error toasts with a Retry
  kicks,         \* history: vertical -> kickoffs asked for that did not fail
  missed,        \* history: a refetch failed, or the panel was mounted again
  artifact,      \* the artifact on screen: its URI and when its URL was signed
  email,         \* the rendered e-mail: what it was rendered for
  entries,       \* the timeline: [kind, id, at], oldest first
  chosen, detail,\* selectedTimelineKey, selectedTimelineEntry
  railTab, listFilter

gateState  == <<kicked, rowsKicked, verified, override, kicks, missed>>
wireState  == <<sends, latestSend, sendsMade, retryable>>
emailState == <<artifact, email>>
listState  == <<entries, chosen, detail, railTab, listFilter>>
panelVars  == <<desk, gateState, typed, wireState, emailState, listState>>

-----------------------------------------------------------------------------
(* Mutations                                                               *)

Sending(what) == \E c \in sends : c.what = what /\ c.n = latestSend[what]

(* mutate(): the newest call is the one isPending and variables are about. *)
SendCall(what, about, text) ==
  /\ sendsMade < MaxSends /\ sendsMade' = sendsMade + 1
  /\ latestSend' = [latestSend EXCEPT ![what] = sendsMade + 1]
  /\ sends' = sends \cup {[what |-> what, about |-> about, text |-> text,
                           n |-> sendsMade + 1, settled |-> FALSE]}

Settle1(c) == sends' = (sends \ {c}) \cup {[c EXCEPT !.settled = TRUE]}
Forget(c)    == sends' = sends \ {c}

Mutations1 == {"identity", "kickoff", "owner", "note", "comment", "upload", "delete"}

-----------------------------------------------------------------------------
(* FulfillmentGateControls                                                 *)

NeedsIdentity == ~verified
Candidates    == Verticals \ rowsKicked

TypeIdentity(text) ==
  /\ desk = "gate" /\ NeedsIdentity /\ typed["identity"] # text
  /\ typed' = [typed EXCEPT !["identity"] = text]
  /\ UNCHANGED <<desk, gateState, wireState, emailState, listState>>

VerifyIdentity ==
  /\ desk = "gate" /\ NeedsIdentity /\ typed["identity"] # "" /\ ~Sending("identity")
  /\ SendCall("identity", "", typed["identity"])
  /\ UNCHANGED <<desk, gateState, typed, retryable, emailState, listState>>

PickOverride(c) ==
  /\ desk = "gate" /\ Candidates # {} /\ override # c /\ override' = c
  /\ UNCHANGED <<desk, kicked, rowsKicked, verified, kicks, missed, typed, wireState,
                 emailState, listState>>

(* Every kickoff button waits for the one in flight, its refetch included. *)
KickReady == ~\E c \in sends : c.what = "kickoff" /\ c.n = latestSend["kickoff"] /\ ~c.settled
                                                       \* mutant: not awaited
KickIdle  == ~Sending("kickoff")

KickOff(v) ==
  /\ desk = "gate" /\ v \in Candidates /\ ~NeedsIdentity /\ KickIdle
  /\ SendCall("kickoff", v, override)
  /\ kicks' = [kicks EXCEPT ![v] = @ + 1]
  /\ UNCHANGED <<desk, kicked, rowsKicked, verified, override, missed, typed, retryable,
                 emailState, listState>>

(* The server has done it; onSuccess invalidates and waits for the rows.   *)
GateSucceeds(c) ==
  /\ c \in sends /\ c.what \in {"identity", "kickoff"} /\ ~c.settled
  /\ IF c.what = "kickoff"
     THEN kicked' = kicked \cup {c.about} /\ override' = 0 /\ UNCHANGED <<verified, typed>>
     ELSE /\ verified' = TRUE /\ typed' = [typed EXCEPT !["identity"] = ""]
          /\ UNCHANGED <<kicked, override>>
  /\ Settle1(c)
  /\ UNCHANGED <<desk, rowsKicked, kicks, missed, latestSend, sendsMade, retryable,
                 emailState, listState>>

(* The refetch it awaited; a failed one resolves all the same.             *)
RowsArrive(c, ok) ==
  /\ c \in sends /\ c.settled /\ Forget(c)
  /\ rowsKicked' = IF ok THEN kicked ELSE rowsKicked
  /\ missed' = (missed \/ ~ok)
  /\ UNCHANGED <<desk, kicked, verified, override, kicks, typed, latestSend, sendsMade,
                 retryable, emailState, listState>>

GateFails(c) ==
  /\ c \in sends /\ c.what \in {"identity", "kickoff"} /\ ~c.settled /\ Forget(c)
  /\ kicks' = IF c.what = "kickoff" THEN [kicks EXCEPT ![c.about] = @ - 1] ELSE kicks
  /\ UNCHANGED <<desk, kicked, rowsKicked, verified, override, missed, typed, latestSend,
                 sendsMade, retryable, emailState, listState>>

(* Leaving the Fulfillment tab and coming back mounts the panel again, and *)
(* its mutations know nothing of the calls in flight.                      *)
Remount ==
  /\ desk = "gate" /\ sends # {} /\ ~missed
  /\ override' = 0 /\ typed' = [typed EXCEPT !["identity"] = ""] /\ missed' = TRUE
  /\ latestSend' = [latestSend EXCEPT !["kickoff"] = 0, !["identity"] = 0]
  /\ UNCHANGED <<desk, kicked, rowsKicked, verified, kicks, sends, sendsMade, retryable,
                 emailState, listState>>

-----------------------------------------------------------------------------
(* OwnerFulfillmentStatusPanel                                             *)

WaitsForKickoff(v) == v \notin Automatic /\ v \notin rowsKicked

(* pending: only the vertical of the latest call.                          *)
OwnerBusy(v) == \E c \in sends : c.what = "owner" /\ c.n = latestSend["owner"] /\ c.about = v

OwnerOpen(v) == v \notin Automatic /\ ~WaitsForKickoff(v) /\ ~OwnerBusy(v)

PickOwnerStatus(v, s) ==
  /\ desk = "owner" /\ OwnerOpen(v) /\ typed[v] # s
  /\ typed' = [typed EXCEPT ![v] = s]
  /\ UNCHANGED <<desk, gateState, wireState, emailState, listState>>

SubmitStatus(v) ==
  /\ desk = "owner" /\ OwnerOpen(v) /\ typed[v] # "" /\ SendCall("owner", v, typed[v])
  /\ UNCHANGED <<desk, gateState, typed, retryable, emailState, listState>>

(* Legal kicks a vertical off, and a poll shows it.                        *)
KickedElsewhere(v) ==
  /\ desk = "owner" /\ v \notin rowsKicked
  /\ kicked' = kicked \cup {v} /\ rowsKicked' = kicked'
  /\ UNCHANGED <<desk, verified, override, kicks, missed, typed, wireState, emailState, listState>>

-----------------------------------------------------------------------------
(* Notes and attachments                                                   *)

Composers == {"note", "comment"}         \* ActivityPanel, the comments column

Write(k, text) ==
  /\ desk = "notes" /\ typed[k] # text
  /\ typed' = [typed EXCEPT ![k] = text]
  /\ UNCHANGED <<desk, gateState, wireState, emailState, listState>>

PostNote(k) ==
  /\ desk = "notes" /\ typed[k] # "" /\ ~Sending(k) /\ SendCall(k, "", typed[k])
  /\ UNCHANGED <<desk, gateState, typed, retryable, emailState, listState>>

Attach(what) ==
  /\ desk = "files" /\ ~Sending(what) /\ SendCall(what, "", "file")
  /\ UNCHANGED <<desk, gateState, typed, retryable, emailState, listState>>

(* Success empties the composer, whatever was typed meanwhile; the owner's *)
(* panel only empties its comment.                                         *)
Succeeds1(c) ==
  /\ c \in sends /\ c.what \notin {"identity", "kickoff"} /\ Forget(c)
  /\ typed' = IF c.what \in Composers THEN [typed EXCEPT ![c.what] = ""] ELSE typed
  /\ UNCHANGED <<desk, gateState, latestSend, sendsMade, retryable, emailState, listState>>

Offers(what) == what \in {"owner", "note"}

Fails1(c) ==
  /\ c \in sends /\ c.what \notin {"identity", "kickoff"} /\ Forget(c)
  /\ retryable' = IF Offers(c.what) THEN retryable \cup {c} ELSE retryable
  /\ UNCHANGED <<desk, gateState, typed, latestSend, sendsMade, emailState, listState>>

(* Retry: the owner's panel sends what it sent, the activity composer what *)
(* its field holds by now.                                                 *)
Retry1(t) ==
  /\ t \in retryable /\ retryable' = retryable \ {t}
  /\ SendCall(t.what, t.about, IF t.what = "owner" THEN t.text ELSE typed["note"])
  /\ UNCHANGED <<desk, gateState, typed, emailState, listState>>

-----------------------------------------------------------------------------
(* AccessDeliveryEmailCard: the artifact's URL is signed anew by every     *)
(* poll, and expires; the e-mail is rendered once per artifact.            *)

ExpiresAfter == 2

EmailKey(a) == a.uri                                        \* its query key, of what changes here

ArtifactPolled(uri) ==
  /\ desk = "email" /\ uri >= artifact.uri /\ artifact.now < ExpiresAfter + 1
  /\ artifact' = [uri |-> uri, signed |-> artifact.now + 1, now |-> artifact.now + 1]
  /\ UNCHANGED <<desk, gateState, typed, wireState, email, listState>>

(* Another artifact is another query; an invalidation renders it again.    *)
EmailRenders(invalidated) ==
  /\ desk = "email" /\ artifact.uri > 0
  /\ email.uri # EmailKey(artifact) \/ invalidated
  /\ email' = [uri |-> EmailKey(artifact), signed |-> artifact.signed]
  /\ UNCHANGED <<desk, gateState, typed, wireState, artifact, listState>>

-----------------------------------------------------------------------------
NoEntry == [kind |-> "", id |-> 0, at |-> 0]

(* ActivityPanel: the timeline, its filter and its selection.  An entry is *)
(* named by the row behind it; the timeline is sorted by time.             *)

Human(e) == e.kind = "assignment"                            \* HUMAN_ACTIVITY_KINDS

Listed(f) == {i \in DOMAIN entries : CASE f = "notes" -> Human(entries[i])
                                       [] f = "system" -> ~Human(entries[i]) [] OTHER -> TRUE}

(* Approvals and notes are named by their id, stages and commands also by  *)
(* their time.                                                             *)
KeyOfEntry(i) == IF entries[i].kind \in {"assignment", "approval"} THEN <<"approval", entries[i].id>>
                 ELSE <<entries[i].kind, entries[i].id, entries[i].at>>

(* A click on the selected row deselects it; a stage also opens its tab.   *)
SelectEntry(i) ==
  /\ desk = "activity" /\ i \in Listed(listFilter)
  /\ IF chosen = KeyOfEntry(i) THEN chosen' = <<>> /\ detail' = NoEntry /\ UNCHANGED railTab
     ELSE /\ chosen' = KeyOfEntry(i) /\ detail' = entries[i]
          /\ railTab' = IF entries[i].kind = "stage" THEN entries[i].id ELSE railTab
  /\ UNCHANGED <<desk, gateState, typed, wireState, emailState, entries, listFilter>>

PickFilter(f) ==
  /\ desk = "activity" /\ listFilter # f /\ listFilter' = f
  /\ UNCHANGED <<desk, gateState, typed, wireState, emailState, entries, chosen, detail, railTab>>

(* A poll brings an entry, or an entry whose time moved: an approval that  *)
(* was decided, a stage that got further.                                  *)
Now1 == IF entries = <<>> THEN 1 ELSE entries[Len(entries)].at + 1

EntryArrives(k) ==
  /\ desk = "activity" /\ Len(entries) < MaxEntries
  /\ entries' = Append(entries, [kind |-> k, id |-> Len(entries) + 1, at |-> Now1])
  /\ UNCHANGED <<desk, gateState, typed, wireState, emailState, chosen, detail, railTab, listFilter>>

EntryMoves(i) ==
  /\ desk = "activity" /\ i \in DOMAIN entries /\ entries[i].kind # "audit"
  /\ entries[Len(entries)].at < MaxEntries + 1
  /\ entries' = Append(RemoveAt(entries, i), [entries[i] EXCEPT !.at = Now1])
  /\ UNCHANGED <<desk, gateState, typed, wireState, emailState, chosen, detail, railTab, listFilter>>

-----------------------------------------------------------------------------

PanelsInit ==
  /\ desk \in Desks
  /\ kicked = {} /\ rowsKicked = {} /\ verified \in BOOLEAN /\ (desk # "gate" => verified)
  /\ override = 0 /\ kicks = [v \in Verticals |-> 0] /\ missed = FALSE
  /\ typed = [f \in {"identity"} \cup Composers \cup Verticals |-> ""]
  /\ sends = {} /\ sendsMade = 0 /\ latestSend = [m \in Mutations1 |-> 0] /\ retryable = {}
  /\ artifact = [uri |-> 0, signed |-> 0, now |-> 0] /\ email = [uri |-> 0, signed |-> 0]
  /\ entries = <<>> /\ chosen = <<>> /\ detail = NoEntry /\ railTab = 0 /\ listFilter = "all"

PanelsNext ==
  \/ VerifyIdentity \/ Remount
  \/ \E text \in {"", "a"} : TypeIdentity(text) \/ \E k \in Composers : Write(k, text)
  \/ \E c \in {0, 4} : PickOverride(c)
  \/ \E v \in Verticals : KickOff(v) \/ SubmitStatus(v) \/ KickedElsewhere(v)
  \/ \E v \in Verticals \ Automatic, s \in {"in_progress", "blocked"} : PickOwnerStatus(v, s)
  \/ \E c \in sends : GateSucceeds(c) \/ GateFails(c) \/ Succeeds1(c) \/ Fails1(c)
  \/ \E c \in sends, ok \in BOOLEAN : RowsArrive(c, ok)
  \/ \E k \in Composers : PostNote(k)
  \/ \E what \in {"upload", "delete"} : Attach(what)
  \/ \E t \in retryable : Retry1(t)
  \/ \E uri \in 1 .. 2 : ArtifactPolled(uri)
  \/ \E invalidated \in BOOLEAN : EmailRenders(invalidated)
  \/ \E i \in 1 .. MaxEntries : SelectEntry(i) \/ EntryMoves(i)
  \/ \E f \in {"all", "notes", "system"} : PickFilter(f)
  \/ \E k \in {"assignment", "approval", "stage", "audit"} : EntryArrives(k)

-----------------------------------------------------------------------------
(* Properties                                                              *)

(* What a panel holds.                                                     *)
PanelsTypeOK ==
  /\ kicked \in SUBSET Verticals /\ rowsKicked \subseteq kicked
  /\ \A c \in sends : c.n \in 1 .. sendsMade /\ (c.settled => c.what \in {"identity", "kickoff"})
  /\ \A m \in Mutations1 : latestSend[m] \in 0 .. sendsMade
  /\ email.uri <= artifact.uri /\ email.signed <= artifact.now

(* A vertical is kicked off at most once from a panel that stays mounted   *)
(* and whose refetches succeed: the buttons wait for the rows that say it  *)
(* was.                                                                    *)
KickedOnce == missed \/ \A v \in Verticals : kicks[v] <= 1

(* The row highlighted in the timeline is the one the detail below         *)
(* describes, whatever the filter, the polls and the entries that moved.   *)
SelectionNamesEntry ==
  \A i \in DOMAIN entries :
    i \in Listed(listFilter) /\ KeyOfEntry(i) = chosen => entries[i].id = detail.id

(* Both of them.                                                           *)
PanelsTold == KickedOnce /\ SelectionNamesEntry

=============================================================================
