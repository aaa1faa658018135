---------------------------- MODULE OwnerWizard -----------------------------
(***************************************************************************)
(* The owner's connection wizard in the browser, against the admin API of  *)
(* OwnerConnection: one system, its steps as a history stack over a plan,  *)
(* and the calls the steps send.  Calls are answered in any order; an      *)
(* answer runs its callback wherever the owner has gone meanwhile, except  *)
(* where the component that sent it ignores it once unmounted (heard).     *)
(*                                                                         *)
(* Bounds: MaxCalls caps the calls in flight, Opens the times it is opened.*)
(***************************************************************************)
EXTENDS OwnerConnection

CONSTANTS
  MaxCalls,
  Opens,
  Careful    \* the owner waits for every call, answers an error at once

ASSUME WizardAssumption ==
  /\ None \notin Modes \cup Cadences \cup Data \cup {"csv", "sheet"} /\ Delims # {}
  /\ MaxCalls \in Nat /\ Opens \in Nat /\ Careful \in BOOLEAN

VARIABLES
  kind,      \* of the system, fixed
  conn,      \* the row at the admin API
  cache,     \* the mode in the row the connectors query last fetched
  page,      \* the dialog: closed, open, away for the Google sign-in
  opened,    \* times it was opened
  stack,     \* the steps visited, the current one last (the hub left out)
  planned,   \* the steps of the plan
  draft,     \* what the owner entered
  test,      \* the live test on screen
  calls,     \* calls in flight, in the slots 1..MaxCalls
  toasts     \* error toasts that offer a RetryCall

view == <<stack, planned, test, calls>>
wizardVars == <<kind, conn, cache, page, opened, draft, toasts, view>>

-----------------------------------------------------------------------------
(* The flow model: lib/owner-wizard-flow.ts                                *)

LiveBranch == IF kind = "both" THEN <<"cred", "test", "seed", "cadence", "done">>
                               ELSE <<"cred", "test", "cadence", "done">>
UploadBranch == <<"upload", "mapping", "cadence", "done">>

Branch(mode) == IF mode = "live" THEN LiveBranch ELSE UploadBranch

Subflow == CASE kind = "sheets" -> <<"sheets", "mapping", "cadence", "done">>
             [] kind = "both"   -> <<"choice">>
             [] OTHER           -> Branch(kind)

FormatSteps(mapping) == IF "email" \in mapping THEN <<"email", "delimiter">> ELSE <<>>
Formats == {"email", "delimiter"}

Steps == {"choice", "cred", "test", "seed", "upload", "mapping", "sheets", "cadence",
          "done"} \cup Formats

Top == IF stack = <<>> THEN "hub" ELSE stack[Len(stack)]
Visited == SubSeq(planned, 1, Len(stack))
Ahead   == SubSeq(planned, Len(stack) + 1, Len(planned))

-----------------------------------------------------------------------------
(* Calls.  pc: sent, half (the server is between two steps), or the answer *)
(* on its way.  An idle slot holds the call of no operation.               *)

Call(op) == [op |-> op, mode |-> None, data |-> None, cadence |-> None,
             pc |-> "sent", heard |-> TRUE]
Answer == {"ok", "bad", "needs", "error"}

Slots    == 1..MaxCalls
FreeSlot == Call("none")
NoCalls  == [s \in Slots |-> FreeSlot]

Room        == \E s \in Slots : calls[s] = FreeSlot
Send(cs, c) == [cs EXCEPT ![CHOOSE s \in Slots : cs[s] = FreeSlot] = c]
Drop(cs, s) == [cs EXCEPT ![s] = FreeSlot]

(* Calls whose callback moves the wizard on.  The mode call is not shown.  *)
Moving == {"save", "retest", "read", "finalize", "cadence", "start"}
Ops    == Moving \cup {"mode"}

Running(ops) == \E s \in Slots : calls[s].op \in ops /\ calls[s].heard

(* The owner may press a button; a careful one does not while a call runs  *)
(* or an error toast is open.                                              *)
Reacts  == page = "open" /\ (Careful => ~Running(Moving))
Presses == Reacts /\ (Careful => toasts = {})

(* A dialog that is mounted anew knows nothing of the calls of the last.   *)
Alone == Careful => calls = NoCalls

(* What an unmounted component sent still reaches the server; the answer   *)
(* is not heard.                                                           *)
Unheard(cs, ops) ==
  [s \in Slots |-> IF cs[s].op \notin ops THEN cs[s]
                   ELSE IF cs[s].pc \in {"sent", "half"} THEN [cs[s] EXCEPT !.heard = FALSE]
                   ELSE FreeSlot]

(* UploadFileStep and LiveTestStep ignore their calls once left; the sheets*)
(* panel and the dialog itself do not.                                     *)
StepOps == {"save", "retest"} \cup (IF kind = "sheets" THEN {} ELSE {"read"})

Untested == [phase |-> "unmounted", saved |-> FALSE]

Show(st, pl, cs) ==
  /\ stack' = st /\ planned' = pl
  /\ IF st = stack THEN calls' = cs /\ UNCHANGED test
                   ELSE calls' = Unheard(cs, StepOps) /\ test' = Untested

Stay(cs) == Show(stack, planned, cs)

Advance(cs) ==
  Show(IF Ahead = <<>> THEN stack ELSE Append(stack, Ahead[1]), planned, cs)

(* Push the first step of a new plan for what lies ahead.                  *)
Replan(ahead, cs) == Show(Append(stack, ahead[1]), Visited \o ahead, cs)

WithMode(cs, mode) ==
  IF cache = mode THEN cs ELSE Send(cs, [Call("mode") EXCEPT !.mode = mode])

-----------------------------------------------------------------------------
(* Opening and closing the dialog                                          *)

NoDraft == [mapping |-> {}, delim |-> CHOOSE d \in Delims : TRUE, cadence |-> None,
            csv |-> FALSE, method |-> None, sheet |-> FALSE, ready |-> FALSE,
            redeemed |-> FALSE]

Seeded(redeemed) ==
  [NoDraft EXCEPT !.mapping = IF conn.data = None THEN {} ELSE conn.data.mapping,
                  !.cadence = conn.cadence, !.redeemed = redeemed,
                  !.method = IF redeemed THEN "oauth" ELSE None]

Enter(redeemed) ==
  /\ page' = "open" /\ draft' = Seeded(redeemed)
  /\ stack' = <<Subflow[1]>> /\ planned' = Subflow /\ test' = Untested

Open ==
  /\ page = "closed" /\ opened < Opens /\ Room /\ Alone
  /\ opened' = opened + 1 /\ Enter(draft.redeemed)
  /\ calls' = IF kind \in Modes THEN WithMode(calls, kind) ELSE calls
  /\ UNCHANGED <<kind, conn, cache, toasts>>

Shut ==
  /\ page' = "closed" /\ stack' = <<>> /\ planned' = <<>> /\ test' = Untested
  /\ draft' = [NoDraft EXCEPT !.redeemed = draft.redeemed]
  /\ calls' = Unheard(calls, Ops) /\ toasts' = {}
  /\ UNCHANGED <<kind, conn, opened>>

Close == Presses /\ Shut /\ UNCHANGED cache

(* The connectors query, after an invalidation or by itself; a refetch     *)
(* that fails unmounts the dialog with everything the owner entered.       *)
RefetchCards       == cache' = conn.mode /\ UNCHANGED <<kind, conn, page, opened, draft, toasts, view>>
RefetchCardsFails == page = "open" /\ Shut /\ UNCHANGED cache

Back ==
  /\ Presses /\ Top \notin {"done", "hub"} /\ Len(stack) > 1
  /\ Show(SubSeq(stack, 1, Len(stack) - 1), planned, calls)
  /\ UNCHANGED <<kind, conn, cache, page, opened, draft, toasts>>

-----------------------------------------------------------------------------
(* Steps of the live branch                                                *)

Choose(mode) ==
  /\ Presses /\ Top = "choice" /\ Room
  /\ Replan(Branch(mode), WithMode(calls, mode))
  /\ UNCHANGED <<kind, conn, cache, page, opened, draft, toasts>>

CredentialContinue ==
  /\ Presses /\ Top = "cred" /\ Advance(calls)
  /\ UNCHANGED <<kind, conn, cache, page, opened, draft, toasts>>

(* LiveTestStep saves when it mounts; Try again tests what was saved.      *)
StartTest ==
  /\ page = "open" /\ Top = "test" /\ Room
  /\ \/ test.phase = "unmounted"
     \/ test.phase = "failed" /\ Presses
  /\ test' = [test EXCEPT !.phase = "running"]
  /\ calls' = Send(calls, Call(IF test.saved THEN "retest" ELSE "save"))
  /\ UNCHANGED <<kind, conn, cache, page, opened, draft, toasts, stack, planned>>

(* Continue, or 1400 ms after the test passed.                             *)
TestPassed ==
  /\ page = "open" /\ Top = "test" /\ test.phase = "passed" /\ Advance(calls)
  /\ UNCHANGED <<kind, conn, cache, page, opened, draft, toasts>>

(* "Skip for now" moves on along the plan, whatever it holds by then.      *)
SeedSkip ==
  /\ Presses /\ Top = "seed" /\ Advance(calls)
  /\ UNCHANGED <<kind, conn, cache, page, opened, draft, toasts>>

SeedUpload ==
  /\ Presses /\ Top = "seed" /\ Room
  /\ Replan(UploadBranch, WithMode(calls, "upload"))
  /\ UNCHANGED <<kind, conn, cache, page, opened, draft, toasts>>

-----------------------------------------------------------------------------
(* Steps of the upload branch and the sheets panel                         *)

PickFile(picked) ==
  /\ Presses /\ \/ Top = "upload"
                \/ Top = "sheets" /\ draft.method = "upload"
  /\ draft' = [draft EXCEPT !.csv = picked, !.ready = FALSE]
  /\ UNCHANGED <<kind, conn, cache, page, opened, toasts, view>>

SelectMethod(method) ==
  /\ Presses /\ Top = "sheets"
  /\ draft' = [draft EXCEPT !.method = method, !.sheet = FALSE, !.ready = FALSE]
  /\ UNCHANGED <<kind, conn, cache, page, opened, toasts, view>>

PickSheet ==
  /\ Presses /\ Top = "sheets" /\ draft.method = "oauth" /\ draft.redeemed
  /\ draft' = [draft EXCEPT !.sheet = TRUE, !.ready = FALSE]
  /\ UNCHANGED <<kind, conn, cache, page, opened, toasts, view>>

From == IF draft.method = "oauth" THEN "sheet" ELSE "csv"
Chosen(from) == [from |-> from, mapping |-> draft.mapping, delim |-> draft.delim]

(* Upload & check; in the sheets panel Read columns, without choices.      *)
Read ==
  /\ Presses /\ Room /\ ~Running({"read"})
  /\ \/ /\ Top = "upload" /\ draft.csv
        /\ Stay(Send(calls, [Call("read") EXCEPT !.data = Chosen("csv")]))
     \/ /\ Top = "sheets" /\ (IF From = "sheet" THEN draft.sheet ELSE draft.csv)
        /\ Stay(Send(calls, [Call("read") EXCEPT !.data =
                  [from |-> From, mapping |-> {}, delim |-> NoDraft.delim]]))
  /\ UNCHANGED <<kind, conn, cache, page, opened, draft, toasts>>

SheetsContinue ==
  /\ Presses /\ Top = "sheets" /\ draft.ready /\ Advance(calls)
  /\ UNCHANGED <<kind, conn, cache, page, opened, draft, toasts>>

(* Google sign-in leaves the page; redeeming its code is a call on return. *)
SignIn ==
  /\ Presses /\ Room /\ Top = "sheets" /\ draft.method = "oauth" /\ ~draft.redeemed
  /\ ~Running({"start"})
  /\ Stay(Send(calls, Call("start")))
  /\ UNCHANGED <<kind, conn, cache, page, opened, draft, toasts>>

SignedIn ==
  /\ page = "away" /\ Alone
  /\ \/ conn' = Redeemed(conn) /\ Enter(TRUE)
     \/ /\ conn' \in {conn, Redeemed(conn)} /\ page' = "closed"
        /\ UNCHANGED <<draft, stack, planned, test>>
  /\ UNCHANGED <<kind, cache, opened, toasts, calls>>

SignOut ==
  /\ Presses /\ Top = "sheets" /\ draft.method = "oauth" /\ draft.redeemed
  /\ draft' = [draft EXCEPT !.redeemed = FALSE, !.ready = FALSE]
  /\ UNCHANGED <<kind, conn, cache, page, opened, toasts, view>>

Edit ==
  /\ Presses
  /\ \/ Top = "mapping" /\ \E m \in Mappings : draft' = [draft EXCEPT !.mapping = m]
     \/ Top = "delimiter" /\ \E d \in Delims : draft' = [draft EXCEPT !.delim = d]
     \/ Top = "cadence" /\ \E k \in Cadences : draft' = [draft EXCEPT !.cadence = k]
  /\ UNCHANGED <<kind, conn, cache, page, opened, toasts, view>>

(* finalizeUpload: the file first, then the sheet, else nothing to send.   *)
SourceOfSheet == IF draft.sheet THEN "sheet" ELSE None  \* mutant: the file forgotten
Source == IF draft.csv THEN "csv"
          ELSE IF draft.method = "oauth" /\ draft.sheet THEN "sheet" ELSE None

Finalize(from) == Send(calls, [Call("finalize") EXCEPT !.data = Chosen(from)])

(* What is ahead without the format steps, which come first and in twos.   *)
Unformatted == IF Ahead # <<>> /\ Ahead[1] \in Formats THEN SubSeq(Ahead, 3, Len(Ahead))
                                                       ELSE Ahead

MappingContinue ==
  /\ Presses /\ Room /\ Top = "mapping" /\ draft.mapping # {}
  /\ LET formats == FormatSteps(draft.mapping)
         tail    == Unformatted
     IN IF formats # <<>> THEN Replan(formats \o tail, calls)
        ELSE IF Source = None THEN Replan(tail, calls)
        ELSE Show(stack, Visited \o tail, Finalize(Source))
  /\ UNCHANGED <<kind, conn, cache, page, opened, draft, toasts>>

FormatContinue ==
  /\ Presses /\ Room /\ Top \in Formats
  /\ IF Ahead # <<>> /\ Ahead[1] = "cadence" /\ Source # None
       THEN Stay(Finalize(Source)) ELSE Advance(calls)
  /\ UNCHANGED <<kind, conn, cache, page, opened, draft, toasts>>

CadenceCall == [Call("cadence") EXCEPT !.cadence = draft.cadence]

CadenceContinue ==
  /\ Presses /\ Room /\ Top = "cadence" /\ draft.cadence # None
  /\ ~Running({"cadence"})
  /\ Stay(Send(calls, CadenceCall))
  /\ UNCHANGED <<kind, conn, cache, page, opened, draft, toasts>>

Done == Presses /\ Top = "done" /\ Shut /\ UNCHANGED cache

(* The Retry of an error toast, which stays until it is clicked: it sends  *)
(* the call again, with the drafts of now, from whatever step is shown.    *)
RetryCall(op) ==
  /\ Reacts /\ Room /\ op \in toasts
  /\ toasts' = toasts \ {op}
  /\ CASE op = "cadence" -> Stay(Send(calls, CadenceCall))
       [] op = "csv"     -> IF draft.csv THEN Stay(Finalize("csv")) ELSE Advance(calls)
       [] op = "sheet"   -> IF draft.sheet THEN Stay(Finalize("sheet")) ELSE Advance(calls)
  /\ UNCHANGED <<kind, conn, cache, page, opened, draft>>

Dismiss(op) ==
  /\ page = "open" /\ op \in toasts /\ toasts' = toasts \ {op}
  /\ UNCHANGED <<kind, conn, cache, page, opened, draft, view>>

-----------------------------------------------------------------------------
(* The admin API                                                           *)

(* Nobody hears the answer of a mode call or of an unmounted component.    *)
Reply(s, answer) ==
  calls' = IF calls[s].op = "mode" \/ ~calls[s].heard
             THEN Drop(calls, s) ELSE [calls EXCEPT ![s].pc = answer]
Half(s)          == calls' = [calls EXCEPT ![s].pc = "half", ![s].mode = conn.mode]

Ingest(s) ==
  \/ conn' = Ingested(kind, conn, calls[s].data) /\ Reply(s, "ok")
  \/ UNCHANGED conn /\ Reply(s, "needs")        \* columns to map, or rejected rows
  \/ conn' = IngestFailed(conn) /\ Reply(s, "bad")

Serve(s) ==
  LET c == calls[s] IN
  /\ \/ /\ c.op = "mode" /\ c.pc = "sent"
        /\ conn' = SetMode(conn, c.mode) /\ Reply(s, "ok")
     \/ /\ c.op = "start" /\ c.pc = "sent"
        /\ conn' = SetMode(conn, "live") /\ Reply(s, "ok")
     \/ /\ c.op = "save" /\ c.pc = "sent"
        /\ IF LiveRefused(conn) THEN Reply(s, "error") /\ UNCHANGED conn
                                ELSE Half(s) /\ conn' = Invited(conn)
     \/ /\ c.op = "retest" /\ c.pc = "sent"
        /\ IF LiveRefused(conn) \/ ~conn.secret THEN Reply(s, "error") ELSE Half(s)
        /\ UNCHANGED conn
     \/ /\ c.op \in {"save", "retest"} /\ c.pc = "half"
        /\ \E ok \in BOOLEAN : /\ conn' = Tested(conn, c.mode, ok)
                              /\ Reply(s, IF ok THEN "ok" ELSE "bad")
     \/ /\ c.op \in {"read", "finalize"} /\ c.pc = "sent" /\ c.data.from = "csv"
        /\ IF UploadRefused(kind, conn) THEN Reply(s, "error") /\ UNCHANGED conn
                                        ELSE Ingest(s)
     \/ /\ c.op \in {"read", "finalize"} /\ c.pc = "sent" /\ c.data.from = "sheet"
        /\ IF conn.secret THEN Ingest(s) ELSE Reply(s, "error") /\ UNCHANGED conn
     \/ /\ c.op = "cadence" /\ c.pc = "sent"
        /\ conn' = SetCadence(conn, c.cadence) /\ Half(s)
     \/ /\ c.op = "cadence" /\ c.pc = "half"
        /\ conn' = Completed(kind, SetCadence(conn, c.cadence)) /\ Reply(s, "ok")
  /\ UNCHANGED <<kind, cache, page, opened, stack, planned, draft, test, toasts>>

(* A request, an answer or the server fails: the client sees an error.     *)
Fail(s) ==
  /\ calls[s].op \in Ops /\ calls[s].pc # "error" /\ Reply(s, "error")
  /\ UNCHANGED <<kind, conn, cache, page, opened, stack, planned, draft, test, toasts>>

-----------------------------------------------------------------------------
(* Answers arrive                                                          *)

Hears(s, ops, answers) ==
  calls[s].heard /\ calls[s].op \in ops /\ calls[s].pc \in answers

(* window.location.assign: the page is gone.                               *)
HearStart(s) ==
  /\ Hears(s, {"start"}, {"ok"})
  /\ page' = "away" /\ stack' = <<>> /\ planned' = <<>> /\ test' = Untested
  /\ draft' = NoDraft /\ calls' = Unheard(Drop(calls, s), Ops) /\ toasts' = {}
  /\ UNCHANGED <<kind, conn, cache, opened>>

HearNoStart(s) ==
  /\ Hears(s, {"start"}, {"error"}) /\ Stay(Drop(calls, s))
  /\ UNCHANGED <<kind, conn, cache, page, opened, draft, toasts>>

HearTest(s) ==
  /\ Hears(s, {"save", "retest"}, Answer)
  /\ test' = [phase |-> IF calls[s].pc = "ok" THEN "passed" ELSE "failed",
              saved |-> test.saved \/ (calls[s].op = "save" /\ calls[s].pc # "error")]
  /\ calls' = Drop(calls, s)
  /\ UNCHANGED <<kind, conn, cache, page, opened, stack, planned, draft, toasts>>

(* handleUploaded: suggestions for the columns found, under what was       *)
(* mapped before.  Rejected rows stop only what says so.                   *)
HearRead(s) ==
  /\ Hears(s, {"read"}, Answer)
  /\ \/ /\ calls[s].pc \in {"ok", "needs"}
        /\ \E found \in Mappings :
             draft' = [draft EXCEPT !.mapping = @ \cup found, !.ready = kind = "sheets"]
        /\ Advance(Drop(calls, s))
     \/ /\ calls[s].pc # "ok"
        /\ draft' = [draft EXCEPT !.ready = FALSE]
        /\ Stay(Drop(calls, s))
  /\ UNCHANGED <<kind, conn, cache, page, opened, toasts>>

HearFinalize(s) ==
  /\ Hears(s, {"finalize"}, Answer)
  /\ IF calls[s].pc = "ok"
       THEN Advance(Drop(calls, s)) /\ UNCHANGED toasts
       ELSE Stay(Drop(calls, s)) /\ toasts' = toasts \cup {calls[s].data.from}
  /\ UNCHANGED <<kind, conn, cache, page, opened, draft>>

HearCadence(s) ==
  /\ Hears(s, {"cadence"}, Answer)
  /\ IF calls[s].pc = "ok"
       THEN Advance(Drop(calls, s)) /\ UNCHANGED toasts
       ELSE Stay(Drop(calls, s)) /\ toasts' = toasts \cup {"cadence"}
  /\ UNCHANGED <<kind, conn, cache, page, opened, draft>>

-----------------------------------------------------------------------------
(* A new row, or one that an earlier run of the wizard completed.          *)
Earlier ==
  {Unlinked} \cup
  {Completed(kind, c) :
     c \in {SetCadence(Tested(SetMode(Invited(Unlinked), "live"), "live", TRUE), k) :
              k \in IF kind \in {"both", "live"} THEN Cadences ELSE {}}
       \cup {SetCadence(Ingested(kind, SetMode(Unlinked, "upload"), d), k) :
              k \in IF kind \in {"both", "upload"} THEN Cadences ELSE {},
              d \in {e \in Data : e.from = "csv" /\ e.mapping = Fields}}}

WizardInit ==
  /\ kind \in Kinds /\ conn \in Earlier /\ cache = conn.mode
  /\ page = "closed" /\ opened = 0 /\ stack = <<>> /\ planned = <<>>
  /\ draft = NoDraft /\ test = Untested /\ toasts = {}
  /\ calls = NoCalls

OwnerActs ==
  \/ Open \/ Close \/ Back \/ Done
  \/ \E mode \in Modes : Choose(mode)
  \/ CredentialContinue \/ StartTest \/ TestPassed \/ SeedSkip \/ SeedUpload
  \/ \E picked \in BOOLEAN : PickFile(picked)
  \/ \E method \in {"oauth", "upload"} : SelectMethod(method)
  \/ PickSheet \/ Read \/ SheetsContinue \/ SignIn \/ SignedIn \/ SignOut
  \/ Edit \/ MappingContinue \/ FormatContinue \/ CadenceContinue
  \/ \E op \in {"csv", "sheet", "cadence"} : RetryCall(op) \/ Dismiss(op)

Hear(s) == HearStart(s) \/ HearNoStart(s) \/ HearTest(s) \/ HearRead(s)
             \/ HearFinalize(s) \/ HearCadence(s)

WizardNext == \/ OwnerActs \/ RefetchCards \/ RefetchCardsFails
        \/ \E s \in Slots : Serve(s) \/ Fail(s) \/ Hear(s)

WizardSpec == WizardInit /\ [][WizardNext]_wizardVars

-----------------------------------------------------------------------------
(* Properties                                                              *)

(* The variables have their types: no step, call or answer the dialog does *)
(* not know (the state of OwnerConnectorWizard).                           *)
WizardTypeOK ==
  /\ kind \in Kinds /\ conn \in Connection /\ cache \in Modes \cup {None}
  /\ page \in {"closed", "open", "away"} /\ opened \in 0..Opens
  /\ stack \in Seq(Steps) /\ planned \in Seq(Steps)
  /\ draft \in [mapping : Mappings, delim : Delims, cadence : Cadences \cup {None},
                csv : BOOLEAN, method : {None, "oauth", "upload"}, sheet : BOOLEAN,
                ready : BOOLEAN, redeemed : BOOLEAN]
  /\ test \in [phase : {"unmounted", "running", "passed", "failed"}, saved : BOOLEAN]
  /\ toasts \subseteq {"csv", "sheet", "cadence"}
  /\ calls \in [Slots -> [op : Ops \cup {"none"}, mode : Modes \cup {None},
        data : Data \cup {None}, cadence : Cadences \cup {None},
        pc : {"sent", "half"} \cup Answer, heard : BOOLEAN]]

(* "You are all set" is shown for a system whose setup the server stamped  *)
(* as completed.                                                           *)
DoneMeansCompleted == Top = "done" => conn.completed

(* What the owner confirmed is what is stored when the wizard says so: the *)
(* cadence, and the mapping and formats of an upload.                      *)
Persisted ==
  /\ conn.cadence = draft.cadence
  /\ "mapping" \in {stack[i] : i \in 1..Len(stack)} =>
       /\ conn.data # None
       /\ conn.data.mapping = draft.mapping /\ conn.data.delim = draft.delim
DoneMeansPersisted == Top = "done" => Persisted

(* "Done" tells the truth: the server stamped the setup, and stores what   *)
(* the owner confirmed.                                                    *)
DoneMeansStored == DoneMeansCompleted /\ DoneMeansPersisted
=============================================================================
