--------------------------- MODULE OwnerConnection --------------------------
(***************************************************************************)
(* What the admin API keeps of one system an owner connects, and what each *)
(* call of the owner's wizard does to it.  Every operator maps the row of  *)
(* integration_connections before a call to the row after it.              *)
(*                                                                         *)
(* The row is the record conn: mode is metadata.active_mode, test is       *)
(* last_test_ok, rotated says that credentials_rotated_at is set, data is  *)
(* what the last accepted file or sheet was ingested with                  *)
(* (last_successful_upload_at, column_mapping, multi_pii_delimiter),       *)
(* completed is wizard_completed_at.  Merging one key of the metadata is   *)
(* one UPDATE, so calls interleave but do not lose each other's keys.      *)
(***************************************************************************)
EXTENDS Naturals, Sequences

CONSTANTS
  None,
  Fields,    \* identifier columns a mapping may name; "email" has formats
  Delims,    \* what separates several values in a cell
  Cadences   \* refresh cadences

Mappings == SUBSET Fields

(* both: paylocity, lever; live: auth0; upload: axios_hq;                  *)
(* sheets: hr_alumni, bizdev_contacts.                                     *)
Kinds == {"both", "live", "upload", "sheets"}
Modes == {"live", "upload"}

Data == [from : {"csv", "sheet"}, mapping : Mappings, delim : Delims]

Connection ==
  [mode : Modes \cup {None}, status : {"pending", "invited", "failed", "connected"},
   test : {"none", "ok", "failed"}, rotated : BOOLEAN, secret : BOOLEAN,
   data : Data \cup {None}, cadence : Cadences \cup {None}, completed : BOOLEAN]

Unlinked == [mode |-> None, status |-> "pending", test |-> "none", rotated |-> FALSE,
             secret |-> FALSE, data |-> None, cadence |-> None, completed |-> FALSE]

-----------------------------------------------------------------------------
PingOnly(kind)          == kind = "both"
CompletesUnfed(kind)    == kind \in {"live", "both"}

SetMode(c, m)           == [c EXCEPT !.mode = m]
SetCadence(c, k)        == [c EXCEPT !.cadence = k]

LiveTestFailed(c)       == c.test = "failed" \/ c.status = "failed"
LiveCredentialsReady(c) == c.rotated \/ c.test = "ok" \/ c.status = "connected"
LiveRefused(c)          == c.mode = "upload"

(* save_live_credentials: the secret first, the test later.                *)
Invited(c) == [c EXCEPT !.secret = TRUE, !.status = "invited"]

(* _apply_live_test_outcome; before is the mode read when the call began.  *)
Tested(c, before, ok) ==
  IF ok THEN [c EXCEPT !.test = "ok", !.rotated = TRUE, !.status = "connected",
                       !.mode = IF before = "live" THEN @ ELSE "live"]
        ELSE [c EXCEPT !.test = "failed", !.status = "failed"]

(* _ingest_owner_csv, of a file or of an extracted sheet.                  *)
UploadRefused(kind, c) == c.mode = "live" /\ ~LiveTestFailed(c) /\ ~PingOnly(kind)

Ingested(kind, c, d) ==
  [c EXCEPT !.data = d, !.status = "connected", !.test = "ok",
            !.mode = IF @ # "live" \/ LiveTestFailed(c) \/ PingOnly(kind)
                       THEN "upload" ELSE @]

IngestFailed(c) == [c EXCEPT !.test = "failed"]

Redeemed(c) == [c EXCEPT !.mode = "live", !.rotated = TRUE, !.secret = TRUE,
                         !.status = "invited"]

(* complete_system_wizard: not ready is answered 200, without the stamp.   *)
LiveOverridesUpload(kind, c) ==
  CompletesUnfed(kind) /\ c.data = None /\ LiveCredentialsReady(c)

WizardReady(kind, c) ==
  /\ c.cadence # None
  /\ \/ c.mode = "live" /\ LiveCredentialsReady(c)
     \/ c.mode = "upload" /\ (c.data # None \/ LiveOverridesUpload(kind, c))

Completed(kind, c) ==
  IF WizardReady(kind, c)
    THEN [c EXCEPT !.completed = TRUE,
                   !.mode = IF LiveOverridesUpload(kind, c) THEN "live" ELSE @]
    ELSE c
=============================================================================
