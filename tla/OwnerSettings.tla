---------------------------- MODULE OwnerSettings ---------------------------
(***************************************************************************)
(* The owner's page of connections and the helpers behind it               *)
(* (routes/owner/connectors.tsx, lib/owner-connector-ui.ts).  A behaviour  *)
(* is about one corner: "walk", the linear walk through the systems of a   *)
(* vertical and what a connection test leads to; "save", a preference      *)
(* saved from a card (refresh cadence, notifications) while the card's     *)
(* data are refetched; "file", a CSV file that is written and read again.  *)
(* The dialog that sets one system up is OwnerWizard.                      *)
(***************************************************************************)
EXTENDS Naturals, Sequences, SequencesExt, FiniteSets

CONSTANTS
  Bound,        \* vertical -> sequence of [system, ways] bound to it
  Stamps,       \* what the metadata of a system may say of its cadence:
                \* [cadence, policy, days], the last two of older writers
  MaxSaves,     \* bound on the calls that save it
  Letters,      \* the characters that are not special in a file
  Documents     \* CSV documents: [headers, rows], each cell a sequence of
                \* characters

VARIABLES
  corner,
  walked,       \* the vertical walked through
  clean,        \* needsMappingClean: "absent", TRUE or FALSE, as a string
  stepNo,       \* index of the step on screen
  ofSheet,      \* the card is of an owner's Google Sheet
  stored,       \* server: the stamp of the system
  cached,       \* the same as the card last fetched it
  saves,        \* calls in flight: [n, value, pc]
  saved,        \* calls so far
  again,        \* error messages that offer Retry: their values
  reading,      \* refetch: [pc, got], pc one of "no", "sent", "served"
  unread,       \* the last refetch failed
  lost,         \* an answer to a stored call was lost
  document      \* the document of the file

walkVars == <<walked, clean, stepNo>>
saveVars == <<ofSheet, stored, cached, saves, saved, again, reading, unread, lost>>
settingsVars == <<corner, walkVars, saveVars, document>>

-----------------------------------------------------------------------------
(* What is known of the systems                                            *)

SheetsOwner      == {"hr_alumni", "bizdev_contacts"}
LivePingOnly     == {"lever", "paylocity"}
HiddenSystem     == "cassandra"
UploadAdvertised == {"paylocity", "lever", "axios_headquarters"} \cup SheetsOwner

MethodLabels == {"paylocity", "lever", "auth0", "google_sheets"} \cup SheetsOwner

(* SYSTEM_COPY: the how-to texts of a system.                              *)
Copies(s) ==
  CASE s = "axios_headquarters"      -> {"howto-upload"}
    [] s \in SheetsOwner             -> {"howto", "oauth", "howto-upload"}
    [] s \in LivePingOnly \cup {"auth0"} -> {"howto-live", "howto-upload"}
    [] OTHER                         -> {}

(* The catalogue binds a system to a vertical once, and it knows these.    *)
Systems == {"axios_headquarters", "auth0", HiddenSystem} \cup LivePingOnly \cup SheetsOwner

ASSUME BoundAssumption ==
  /\ DOMAIN Bound # {}
  /\ \A v \in DOMAIN Bound :
       /\ Bound[v] \in Seq([system : Systems, ways : SUBSET {"live", "upload"}])
       /\ \A i, k \in 1..Len(Bound[v]) : Bound[v][i].system = Bound[v][k].system => i = k
       /\ \A i \in 1..Len(Bound[v]) :
            Bound[v][i].system = "axios_headquarters" => Bound[v][i].ways \subseteq {"upload"}

AllowsUpload(b) == "upload" \in b.ways
AllowsLive(b)   == "live" \in b.ways \/ "oauth" \in b.ways

(* isModeAllowed, and the cards of buildModeStepCards.                     *)
IsModeAllowed(mode, b) ==
  /\ mode = "upload" => b.system \in UploadAdvertised
  /\ \/ b.system \in SheetsOwner
     \/ IF mode = "upload" THEN AllowsUpload(b) ELSE AllowsLive(b)

ModeCards(b) ==
  {m \in {"live", "upload"} :
     IF m = "live" THEN b.system \in MethodLabels ELSE b.system \in UploadAdvertised}

(* displayStatusChip: what a card says of display_status while the gate of *)
(* the system is open or shut.                                             *)
Chip(displayStatus, gateAllowed) ==
  IF gateAllowed THEN displayStatus
  ELSE CASE displayStatus = "connected" -> "needs_refresh"
         [] displayStatus \in {"needs_refresh", "action_required", "needs_setup"} -> displayStatus
         [] OTHER -> "action_required"

-----------------------------------------------------------------------------
(* The walk                                                                *)

StepOf(system, what) == <<system, what>>

(* The last steps of a walk are of no system.                              *)
NoSystem == ""

(* liveConnectOffersUploadFallback.                                       *)
OffersUpload(b) ==
  b.system # HiddenSystem /\ b.system \in UploadAdvertised /\ AllowsUpload(b)

(* shouldIncludeLiveMappingFollowOn, the columns not known to be mapped.   *)
MapsAfterLive(b) ==
  /\ b.system \in LivePingOnly \ {HiddenSystem} /\ b.system \in UploadAdvertised
  /\ AllowsUpload(b) /\ AllowsLive(b) /\ clean # "FALSE"

SystemSteps(b) ==
  LET only(cond, s) == IF cond THEN s ELSE <<>>
      of(whats) == [i \in 1..Len(whats) |-> StepOf(b.system, whats[i])]
  IN IF b.system \in SheetsOwner
       THEN of(<<"howto", "connect">> \o only(clean # "FALSE", <<"mapping-clean">>))
       ELSE of(only(AllowsLive(b), <<"howto-live", "live-creds">>
                                    \o only(MapsAfterLive(b), <<"mapping">>))
               \o only(b.system \in UploadAdvertised /\ AllowsUpload(b),
                       <<"howto-upload", "upload">>))

InWalk(b) ==
  b.system # HiddenSystem /\ (b.system \in SheetsOwner \/ AllowsUpload(b) \/ AllowsLive(b))

WalkSteps ==
  FlattenSeq([i \in 1..Len(Bound[walked]) |->
                IF InWalk(Bound[walked][i]) THEN SystemSteps(Bound[walked][i]) ELSE <<>>])
  \o <<StepOf(NoSystem, "cadence"), StepOf(NoSystem, "confirm")>>

StepHere  == WalkSteps[stepNo]
BoundHere == CHOOSE b \in Range(Bound[walked]) : b.system = StepHere[1]

(* liveConnectSuccessFollowOn; without a step the next linear one follows. *)
FollowOn(b) ==
  IF MapsAfterLive(b) THEN <<StepOf(b.system, "mapping")>>
  ELSE IF OffersUpload(b) /\ b.system \in LivePingOnly
    THEN <<StepOf(b.system, "howto-upload")>>
  ELSE <<>>

(* "Set up manual upload", after a failed test and, for systems whose test *)
(* is only a ping, after a passed one.                                     *)
ManualUpload(b, passed) ==
  IF OffersUpload(b) /\ (passed => b.system \in LivePingOnly)
    THEN <<StepOf(b.system, "howto-upload")>> ELSE <<>>

GoToStep(s) ==
  /\ s # <<>> /\ Contains(WalkSteps, s[1])
  /\ stepNo' = SelectInSeq(WalkSteps, LAMBDA t : t = s[1])

Forwards == stepNo < Len(WalkSteps) /\ stepNo' = stepNo + 1
Backwards == stepNo > 1 /\ stepNo' = stepNo - 1

TestPasses ==
  /\ StepHere[2] = "live-creds"
  /\ IF FollowOn(BoundHere) = <<>> THEN stepNo' = stepNo + 1 ELSE GoToStep(FollowOn(BoundHere))

SetsUpUpload ==
  StepHere[2] = "live-creds" /\ \E passed \in BOOLEAN : GoToStep(ManualUpload(BoundHere, passed))

WalkNext == (Forwards \/ Backwards \/ TestPasses \/ SetsUpUpload) /\ UNCHANGED <<walked, clean>>

-----------------------------------------------------------------------------
(* A preference: useMutation that saves it, useQuery that shows it.  It is *)
(* the cadence; the notification channels behave alike.                    *)

CadenceOptions == {"rarely", "with_new_batches"} \cup (IF ofSheet THEN {} ELSE {"weekly"})

(* cadenceOptionFromMetadata, and 7 days of an older writer for "weekly".  *)
OptionOf(stamp) ==
  IF stamp.cadence # "" THEN stamp.cadence
  ELSE CASE stamp.policy = "static"   -> "rarely"
         [] stamp.policy = "volatile" -> "with_new_batches"
         [] OTHER -> IF stamp.days = 7 THEN "weekly" ELSE ""

CadenceShown(stamp) == OptionOf(stamp)

SavePending == \E s \in saves : s.n = saved

SendSave(v) ==
  /\ saved < MaxSaves /\ saved' = saved + 1
  /\ saves' = saves \cup {[n |-> saved + 1, value |-> v, pc |-> "sent"]}

(* The control is off while its last call is in flight; Retry of an error  *)
(* message is not.                                                         *)
Prefer(v) ==
  /\ ~SavePending /\ ~unread /\ v # CadenceShown(cached)
  /\ SendSave(v) /\ UNCHANGED <<ofSheet, stored, cached, again, reading, unread, lost>>

SaveAgain(v) ==
  /\ v \in again /\ again' = again \ {v}
  /\ SendSave(v) /\ UNCHANGED <<ofSheet, stored, cached, reading, unread, lost>>

(* The server stores or refuses; an answer may be lost.                    *)
Serves(s) ==
  /\ s.pc = "sent"
  /\ \E pc \in {"stored", "refused", "lost"} :
       /\ saves' = (saves \ {s}) \cup {[s EXCEPT !.pc = pc]}
       /\ stored' = IF pc = "refused" THEN stored ELSE [stored EXCEPT !.cadence = s.value]
       /\ lost' = (lost \/ pc = "lost")
  /\ UNCHANGED <<ofSheet, cached, saved, again, reading, unread>>

(* invalidateQueries cancels a running fetch.                             *)
Invalidate == [reading EXCEPT !.pc = "sent"]

HearSave(s) ==
  /\ s.pc # "sent" /\ saves' = saves \ {s}
  /\ IF s.pc = "stored" THEN reading' = Invalidate /\ again' = again
     ELSE again' = again \cup {s.value} /\ reading' = reading
  /\ UNCHANGED <<ofSheet, stored, cached, saved, unread, lost>>

(* Refetching: on focus, by "Retry load", after a save.                    *)
Reload ==
  /\ reading.pc = "no" /\ reading' = [reading EXCEPT !.pc = "sent"]
  /\ UNCHANGED <<ofSheet, stored, cached, saves, saved, again, unread, lost>>

ReadServed ==
  /\ reading.pc = "sent" /\ reading' = [pc |-> "served", got |-> stored]
  /\ UNCHANGED <<ofSheet, stored, cached, saves, saved, again, unread, lost>>

ReadHeard ==
  /\ reading.pc # "no" /\ reading' = [reading EXCEPT !.pc = "no"]
  /\ \/ reading.pc = "served" /\ cached' = reading.got /\ unread' = FALSE
     \/ cached' = cached /\ unread' = TRUE
  /\ UNCHANGED <<ofSheet, stored, saves, saved, again, lost>>

SaveNext ==
  \/ \E v \in CadenceOptions : Prefer(v) \/ SaveAgain(v)
  \/ \E s \in saves : Serves(s) \/ HearSave(s)
  \/ Reload \/ ReadServed \/ ReadHeard

-----------------------------------------------------------------------------
(* A file.  Characters: quote, comma, line feed, carriage return, blank,    *)
(* byte-order mark, and letters.                                           *)

Quote == "q"
Comma == "c"
Feed  == "n"
Cr    == "r"
Mark  == "m"
Space == "b"
Blanks     == {Feed, Cr, Mark, Space}
Characters == Letters \cup Blanks \cup {Quote, Comma}

(* csvEscapeField; a mutant quotes a cell for commas and quotes only.      *)
Doubled(ch) == IF ch = Quote THEN <<Quote, Quote>> ELSE <<ch>>
Enquote(cell) ==
  <<Quote>> \o FlattenSeq([i \in 1..Len(cell) |-> Doubled(cell[i])]) \o <<Quote>>
EscapeFewer(cell) ==
  IF Range(cell) \cap {Quote, Comma} # {} THEN Enquote(cell) ELSE cell
EscapeField(cell) ==
  IF Range(cell) \cap {Quote, Comma, Feed, Cr} # {} THEN Enquote(cell) ELSE cell

(* The lines of a document: the header, then the rows.                     *)
Lines(d) == <<d.headers>> \o d.rows

SerializeLine(cells) ==
  FlattenSeq([i \in 1..Len(cells) |->
    (IF i = 1 THEN <<>> ELSE <<Comma>>) \o EscapeField(cells[i])]) \o <<Feed>>

SerializeCsv(d) == FlattenSeq([i \in 1..Len(Lines(d)) |-> SerializeLine(Lines(d)[i])])

(* parseCsvRecords, character by character; skip says that the next one is *)
(* the second of a doubled quote.                                          *)
StartReading == [records |-> <<>>, row |-> <<>>, cell |-> <<>>, quoted |-> FALSE, skip |-> FALSE]

Put(p, ch) == [p EXCEPT !.cell = Append(@, ch)]
EndCell(p) == [p EXCEPT !.row = Append(@, p.cell), !.cell = <<>>]
EndRow(p)  == [EndCell(p) EXCEPT !.records = Append(@, EndCell(p).row), !.row = <<>>]

ReadQuoted(p, ch, doubled) ==
  IF ch # Quote THEN Put(p, ch)
  ELSE IF doubled THEN [Put(p, Quote) EXCEPT !.skip = TRUE] ELSE [p EXCEPT !.quoted = FALSE]

ReadPlain(p, ch) ==
  CASE ch = Quote -> [p EXCEPT !.quoted = TRUE]
    [] ch = Comma -> EndCell(p)
    [] ch = Feed  -> EndRow(p)
    [] ch = Cr    -> p
    [] OTHER      -> Put(p, ch)

ReadOne(p, ch, doubled) ==
  IF p.skip THEN [p EXCEPT !.skip = FALSE]
  ELSE IF p.quoted THEN ReadQuoted(p, ch, doubled) ELSE ReadPlain(p, ch)

DoubledAt(text, i) == i < Len(text) /\ text[i + 1] = Quote

ParseRecords(text) ==
  LET read[i \in 0..Len(text)] ==
        IF i = 0 THEN StartReading ELSE ReadOne(read[i - 1], text[i], DoubledAt(text, i))
      last == read[Len(text)]
  IN IF last.cell # <<>> \/ last.row # <<>> THEN EndRow(last).records ELSE last.records

(* Blanks around a header do not count, nor does a mark before the file.   *)
Trim(cell) ==
  LET solid == {k \in 1..Len(cell) : cell[k] \notin Blanks}
  IN IF solid = {} THEN <<>> ELSE SubSeq(cell, Min(solid), Max(solid))

(* A document is one that was read: it has a column, its rows are as wide  *)
(* as its header and no blanks surround a name in it.                      *)
ASSUME DocumentsAssumption ==
  \A d \in Documents :
    /\ d = [headers |-> d.headers, rows |-> d.rows]
    /\ d.headers \in Seq(Seq(Characters)) /\ d.rows \in Seq(Seq(Seq(Characters)))
    /\ d.headers # <<>> /\ \A k \in 1..Len(d.headers) : Trim(d.headers[k]) = d.headers[k]
    /\ \A k \in 1..Len(d.rows) : Len(d.rows[k]) = Len(d.headers)

Unmarked(text) == IF text # <<>> /\ text[1] = Mark THEN Tail(text) ELSE text

(* parseCsvDocument: rows are cut or filled to the width of the header.    *)
ParseCsv(text) ==
  LET records == ParseRecords(Unmarked(text))
      headers == IF records = <<>> THEN <<>>
                 ELSE [i \in 1..Len(records[1]) |-> Trim(records[1][i])]
      fit(r)  == [i \in 1..Len(headers) |-> IF i <= Len(r) THEN r[i] ELSE <<>>]
  IN [headers |-> headers,
      rows |-> [i \in 1..Len(records) - 1 |-> fit(records[i + 1])]]

-----------------------------------------------------------------------------

(* What the corners a behaviour is not about rest at.                      *)
Resting(S) == CHOOSE x \in S : TRUE

SettingsInit ==
  /\ corner \in {"walk", "save", "file"}
  /\ IF corner = "walk" THEN walked \in DOMAIN Bound /\ clean \in {"absent", "TRUE", "FALSE"}
                        ELSE walked = Resting(DOMAIN Bound) /\ clean = "absent"
  /\ IF corner = "save" THEN stored \in Stamps /\ ofSheet \in BOOLEAN
                        ELSE stored = Resting(Stamps) /\ ofSheet = FALSE
  /\ IF corner = "file" THEN document \in Documents ELSE document = Resting(Documents)
  /\ stepNo = 1 /\ cached = stored
  /\ saves = {} /\ saved = 0 /\ again = {} /\ reading = [pc |-> "no", got |-> stored]
  /\ unread = FALSE /\ lost = FALSE

SettingsNext ==
  /\ UNCHANGED <<corner, document>>
  /\ \/ corner = "walk" /\ WalkNext /\ UNCHANGED saveVars
     \/ corner = "save" /\ SaveNext /\ UNCHANGED walkVars

SettingsSpec == SettingsInit /\ [][SettingsNext]_settingsVars

-----------------------------------------------------------------------------
(* Properties                                                              *)

(* The owner is on a step of the walk; calls are known.                    *)
SettingsTypeOK ==
  /\ stepNo \in 1..Len(WalkSteps) /\ ofSheet \in BOOLEAN
  /\ \A s \in saves : s.n <= saved /\ s.pc \in {"sent", "stored", "refused", "lost"}

(* Three places decide apart what a system can do: the steps of the walk,  *)
(* what a connection test offers next, and the cards of the mode step.     *)
(* They agree: a test offers only steps that follow in the same walk, a    *)
(* passed one never passes over the mapping of its system, every how-to    *)
(* has its text, and a card may be picked exactly when its steps are there.*)
StepsLead ==
  corner = "walk" =>
    LET b == BoundHere
        ahead == {WalkSteps[i] : i \in stepNo + 1..Len(WalkSteps)}
        offered == {FollowOn(b), ManualUpload(b, TRUE), ManualUpload(b, FALSE)} \ {<<>>}
    IN /\ StepHere[2] = "live-creds" =>
            /\ \A s \in offered : s[1] \in ahead
            /\ StepOf(b.system, "mapping") \in ahead => FollowOn(b) = <<StepOf(b.system, "mapping")>>
       /\ StepHere[2] \in {"howto", "howto-live", "howto-upload"} => StepHere[2] \in Copies(b.system)
       /\ StepHere[1] # NoSystem /\ b.system \notin SheetsOwner =>
            \A m \in ModeCards(b) :
              IsModeAllowed(m, b) <=>
                Contains(SystemSteps(b), StepOf(b.system, IF m = "live" THEN "live-creds" ELSE "upload"))

(* What a card shows once its calls and its refetch are over is what the   *)
(* server keeps, whatever Retry of an older error message and refetches on *)
(* focus came between - but for calls whose answer was lost and a refetch  *)
(* that failed (ConnectorCadenceSelect, VerticalNotificationsControl).     *)
ShownIsStored ==
  saves = {} /\ reading.pc = "no" /\ ~unread /\ ~lost =>
    /\ cached = stored
    /\ stored.cadence # "" => CadenceShown(cached) = stored.cadence

(* A document written as a file reads as the same document, whatever is in *)
(* its cells: quotes, separators, line ends (serializeCsvDocument,         *)
(* parseCsvDocument).                                                      *)
CsvRoundTrips == corner = "file" => ParseCsv(SerializeCsv(document)) = document

(* "never show Connected when gate fails" (owner-connector-ui.ts).         *)
GateTold ==
  \A d \in {"needs_setup", "action_required", "needs_refresh", "connected", "view_only"} :
    Chip(d, FALSE) \notin {"connected", "view_only"}

(* What the owner's page offers, keeps and reads is what is there.         *)
SettingsTold == StepsLead /\ ShownIsStored /\ CsvRoundTrips /\ GateTold

=============================================================================
