---------------------------- MODULE ProdCutover ----------------------------
(***************************************************************************)
(* The page that starts the production pull of the registry                *)
(* (drop-prod-cutover.tsx) and what it starts: one call of admin-api that  *)
(* downloads, lands, promotes, dispatches and drains in turn               *)
(* (drop_prod_cutover.py), over the workers' own tables (land.py,          *)
(* promote.py, dispatch.py).  Nothing keeps two of these runs apart: the   *)
(* page left and opened again, a Retry after an answer that did not come.  *)
(* A download queues two files; an earlier one left a file that was never  *)
(* landed.  A run's process is the attempt of its download.                *)
(***************************************************************************)
EXTENDS Naturals, Sequences, FiniteSets

CONSTANTS
  ApiKeys,   \* keys of the registry that are typed
  MaxRuns    \* bound on the calls

ASSUME CutoverAssumption == MaxRuns \in Nat /\ "" \notin ApiKeys

VARIABLES
  secret,    \* the key in Secret Manager, "" while there is none
  files,     \* file -> how far it has come
  runs,      \* number -> [at, todo]: step it is at, files still to land
  lastRun,   \* [process, run]: what admin-api remembers, 0 for nothing
  cutover,   \* the page: [key, saved, open, armed, pending]
  keySaves,  \* keys being stored
  offers,    \* Retry buttons of its toasts: [key, run]
  polled     \* its query: whether a key is stored, ids of a run

cutoverVars == <<secret, files, runs, lastRun, cutover, keySaves, offers, polled>>

Leftover   == 0
FilesOf(r) == {2 * r - 1, 2 * r}
AllFiles   == {Leftover} \cup UNION {FilesOf(r) : r \in 1..MaxRuns}

Ended == {"ok", "error"}
FreshPage == [key |-> "", saved |-> FALSE, open |-> FALSE, armed |-> FALSE, pending |-> 0]

-----------------------------------------------------------------------------
(* The run, in admin-api and the workers                                   *)

At3(r, step) == runs[r].at = step
Goes(r, step) == runs' = [runs EXCEPT ![r].at = step]

(* Both are remembered as the call ends.                                  *)
ProcessKnown(r, moment) == moment = "end"

Remembers(r, moment, process) ==
  lastRun' = [process |-> IF ProcessKnown(r, moment) THEN process ELSE lastRun.process,
              run |-> IF moment = "end" THEN r ELSE lastRun.run]

(* Any step may fail: a worker that is away, refuses or runs out of time;  *)
(* without the answer to its download the run has no process.              *)
StepFails(r) ==
  /\ runs[r].at \notin Ended \cup {"none"}
  /\ Goes(r, "error")
  /\ \E process \in IF At3(r, "download") THEN {0, r} ELSE {r} : Remembers(r, "end", process)
  /\ UNCHANGED <<secret, files, cutover, keySaves, offers, polled>>

(* The files it queues are those it will land; one whose place no other    *)
(* worker can read ends the run.                                           *)
Download(r) ==
  /\ At3(r, "download") /\ Goes(r, "land") /\ Remembers(r, "download", r)
  /\ files' = [f \in AllFiles |-> IF f \in FilesOf(r) THEN "queued" ELSE files[f]]
  /\ UNCHANGED <<secret, cutover, keySaves, offers, polled>>

OldestFile(r) ==               \* mutant: whatever has been queued longest
  {f \in AllFiles : files[f] = "queued" /\ \A g \in AllFiles : files[g] = "queued" => f <= g}

(* By the number of its attempt, in turn.                                  *)
BoundFile(r) == {f \in FilesOf(r) : Len(runs[r].todo) > 0 /\ f = Head(runs[r].todo)}

Land(r) ==
  /\ At3(r, "land") /\ BoundFile(r) # {}
  /\ files' = [f \in AllFiles |-> IF f \in BoundFile(r) THEN "landed" ELSE files[f]]
  /\ runs' = [runs EXCEPT ![r].todo = Tail(@),
                          ![r].at = IF Len(runs[r].todo) = 1 THEN "promote" ELSE @]
  /\ UNCHANGED <<secret, lastRun, cutover, keySaves, offers, polled>>

(* All there is to promote, of whatever run; then all there is to          *)
(* dispatch.  A step that finds nothing ends the run: someone else has     *)
(* done it.                                                                *)
TakesAll(r, from, to, next) ==
  LET there == {f \in AllFiles : files[f] = from}
  IN
  /\ files' = [f \in AllFiles |-> IF f \in there THEN to ELSE files[f]]
  /\ IF there = {} THEN Goes(r, "error") /\ Remembers(r, "end", r)
     ELSE Goes(r, next) /\ UNCHANGED lastRun
  /\ UNCHANGED <<secret, cutover, keySaves, offers, polled>>

Promote(r)   == At3(r, "promote") /\ TakesAll(r, "landed", "promoted", "dispatch")
DispatchAll(r) == At3(r, "dispatch") /\ TakesAll(r, "promoted", "dispatched", "drain")

EnsureDrain(r) ==
  /\ At3(r, "drain") /\ Goes(r, "ok") /\ Remembers(r, "end", r)
  /\ UNCHANGED <<secret, files, cutover, keySaves, offers, polled>>

(* Somebody else calls the dispatcher: the console, its schedule.          *)
DispatchedBefore ==
  /\ \E f \in AllFiles : files[f] = "promoted"
  /\ files' = [f \in AllFiles |-> IF files[f] = "promoted" THEN "dispatched" ELSE files[f]]
  /\ UNCHANGED <<secret, runs, lastRun, cutover, keySaves, offers, polled>>

(* What admin-api remembers is its process's own: gone with it.            *)
AdminRestarts ==
  /\ lastRun.run # 0 /\ \A r \in DOMAIN runs : runs[r].at \in Ended \cup {"none"}
  /\ lastRun' = [process |-> 0, run |-> 0]
  /\ UNCHANGED <<secret, files, runs, cutover, keySaves, offers, polled>>

-----------------------------------------------------------------------------
(* The page: the key                                                       *)

(* Bound: nothing is typed once a key is stored.                           *)
TypeKey ==
  /\ secret = "" /\ \E k \in ApiKeys \ {cutover.key} : cutover' = [cutover EXCEPT !.key = k]
  /\ UNCHANGED <<secret, files, runs, lastRun, keySaves, offers, polled>>

StoreKey(k) == keySaves' = keySaves \cup {k}

SaveKey ==
  /\ cutover.key # "" /\ keySaves = {} /\ StoreKey(cutover.key)
  /\ UNCHANGED <<secret, files, runs, lastRun, cutover, offers, polled>>

(* The field is cleared, of what was typed meanwhile too; after an error   *)
(* Retry sends what it shows by then.                                      *)
KeyStored(k) ==
  /\ secret' = k /\ keySaves' = keySaves \ {k}
  /\ cutover' = [cutover EXCEPT !.key = "", !.saved = TRUE]
  /\ UNCHANGED <<files, runs, lastRun, offers, polled>>

KeyRefused(k) ==
  /\ keySaves' = keySaves \ {k} /\ offers' = [offers EXCEPT !.key = cutover.key]
  /\ UNCHANGED <<secret, files, runs, lastRun, cutover, polled>>

RetryKey ==
  /\ offers.key # "" /\ keySaves = {} /\ StoreKey(offers.key)
  /\ offers' = [offers EXCEPT !.key = ""]
  /\ UNCHANGED <<secret, files, runs, lastRun, cutover, polled>>

-----------------------------------------------------------------------------
(* The page: the run                                                       *)

Configured == polled.configured \/ cutover.saved

OpenCutover ==
  /\ cutover.pending = 0 /\ Configured /\ ~cutover.open
  /\ cutover' = [cutover EXCEPT !.open = TRUE]
  /\ UNCHANGED <<secret, files, runs, lastRun, keySaves, offers, polled>>

CancelCutover ==
  /\ cutover.open /\ cutover.pending = 0 /\ cutover' = [cutover EXCEPT !.open = FALSE]
  /\ UNCHANGED <<secret, files, runs, lastRun, keySaves, offers, polled>>

(* Its number is the one after those begun.  (It is refused without a key; *)
(* the page does not offer it then.)                                       *)
Begun == {r \in DOMAIN runs : runs[r].at # "none"}

Call2 ==
  LET r == Cardinality(Begun) + 1
  IN
  /\ r <= MaxRuns /\ secret # ""
  /\ runs' = [runs EXCEPT ![r] = [at |-> "download", todo |-> <<2 * r - 1, 2 * r>>]]
  /\ cutover' = [cutover EXCEPT !.pending = r] /\ offers' = [offers EXCEPT !.run = FALSE]

ConfirmCutover ==
  /\ cutover.open /\ cutover.pending = 0 /\ Call2
  /\ UNCHANGED <<secret, files, lastRun, keySaves, polled>>

(* Retry of the toast is not held back by a call that is pending.          *)
RetryCutover ==
  /\ offers.run /\ Call2
  /\ UNCHANGED <<secret, files, lastRun, keySaves, polled>>

(* "Cutover queued", whether the run ended well or not: a failed one is    *)
(* answered with 200 as well.                                              *)
RunAnswered ==
  /\ cutover.pending # 0 /\ runs[cutover.pending].at \in Ended
  /\ cutover' = [cutover EXCEPT !.pending = 0, !.open = FALSE, !.armed = TRUE]
  /\ UNCHANGED <<secret, files, runs, lastRun, keySaves, offers, polled>>

(* The call takes too long; the run goes on.                               *)
AnswerLost ==
  /\ cutover.pending # 0
  /\ cutover' = [cutover EXCEPT !.pending = 0] /\ offers' = [offers EXCEPT !.run = TRUE]
  /\ UNCHANGED <<secret, files, runs, lastRun, keySaves, polled>>

(* The page is left and opened again: a new one, with the former toasts.   *)
OpenAnew ==
  /\ cutover # FreshPage /\ cutover' = FreshPage
  /\ UNCHANGED <<secret, files, runs, lastRun, keySaves, offers, polled>>

SUCCESS_STATUSES == {"succeeded", "success", "completed", "finished"}
FAILURE_STATUSES == {"failed", "error", "cancelled", "canceled"}

(* The answer always says "ok", which is none of these: the monitor stays  *)
(* armed, and its stages, which no answer has, show that word.             *)
StatusSays == "ok"
MonitorEnds == StatusSays \in SUCCESS_STATUSES \cup FAILURE_STATUSES
StageSays   == IF cutover.armed THEN StatusSays ELSE "idle"

StatusPolled ==
  /\ polled' = [configured |-> secret # "", ids |-> lastRun.run # 0]
  /\ polled' # polled
  /\ cutover' = [cutover EXCEPT !.armed = @ /\ ~(lastRun.run # 0 /\ MonitorEnds)]
  /\ UNCHANGED <<secret, files, runs, lastRun, keySaves, offers>>

-----------------------------------------------------------------------------

CutoverInit ==
  /\ secret = "" /\ lastRun = [process |-> 0, run |-> 0]
  /\ files = [f \in AllFiles |-> IF f = Leftover THEN "queued" ELSE "none"]
  /\ runs = [r \in 1..MaxRuns |-> [at |-> "none", todo |-> <<>>]]
  /\ cutover = FreshPage /\ keySaves = {} /\ offers = [key |-> "", run |-> FALSE]
  /\ polled = [configured |-> FALSE, ids |-> FALSE]

CutoverNext ==
  \/ \E r \in DOMAIN runs :
       \/ Download(r) \/ Land(r) \/ Promote(r) \/ DispatchAll(r) \/ EnsureDrain(r) \/ StepFails(r)
  \/ DispatchedBefore \/ AdminRestarts
  \/ TypeKey \/ SaveKey \/ RetryKey \/ \E k \in keySaves : KeyStored(k) \/ KeyRefused(k)
  \/ OpenCutover \/ CancelCutover \/ ConfirmCutover \/ RetryCutover \/ RunAnswered \/ AnswerLost
  \/ OpenAnew \/ StatusPolled

-----------------------------------------------------------------------------
(* Properties                                                              *)

(* A run is pending on the page only once begun, files come from one.      *)
CutoverTypeOK ==
  /\ secret \in ApiKeys \cup {""} /\ cutover.pending \in Begun \cup {0}
  /\ \A r \in DOMAIN runs, f \in AllFiles :
       f \in FilesOf(r) /\ files[f] # "none" => r \in Begun
  /\ Cardinality(keySaves) <= 1 /\ lastRun.run \in Begun \cup {0}

(* A run that ended well has its own files dispatched, whatever another    *)
(* run promoted or dispatched of them meanwhile.                           *)
OkMeansAll == \A r \in DOMAIN runs : At3(r, "ok") => \A f \in FilesOf(r) : files[f] = "dispatched"

(* A run lands the files of its download and no others: not one that was   *)
(* left in the queue, nor another run's.                                   *)
OwnFilesOnly ==
  /\ files[Leftover] = "queued"
  /\ \A r \in DOMAIN runs : \A f \in FilesOf(r) :
       files[f] = "queued" <=> /\ runs[r].at \notin {"none", "download"} /\ files[f] # "none"
                               /\ \E i \in DOMAIN runs[r].todo : runs[r].todo[i] = f

(* The ids told are those of one run, which has ended, also of two that    *)
(* run at a time: a run's id never goes with another's process.            *)
PairOfOne ==
  lastRun.process \in {0, lastRun.run} /\ (lastRun.run # 0 => runs[lastRun.run].at \in Ended)

CutoverTold == OkMeansAll /\ OwnFilesOnly /\ PairOfOne

=============================================================================
