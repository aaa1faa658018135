----------------------------- MODULE AttemptLog -----------------------------
(***************************************************************************)
(* What every attempt table promises its readers (dashboards, the dispatch *)
(* NOT EXISTS filters, the retry anti-join): a per-request log of attempts *)
(* numbered 1, 2, 3, ... that only grows, whose entries are open until     *)
(* they receive one verdict, and whose verdicts are never rewritten.       *)
(***************************************************************************)
EXTENDS Naturals

CONSTANTS Requests, AttemptCap

VARIABLE log

Slots    == Requests \X (1..AttemptCap)
Verdicts == {"success", "submit_error", "outcome_error", "timeout", "abandoned"}

Init == log = [s \in Slots |-> "none"]

(* An entry is opened at the end of its request's log.                     *)
Opens(s) ==
  /\ log[s] = "none"
  /\ log'[s] = "open"
  /\ s[2] > 1 => log[<<s[1], s[2] - 1>>] # "none"

Closes(s) == log[s] = "open" /\ log'[s] \in Verdicts

(* Entries of many requests may move in one transaction.                   *)
Advance ==
  /\ log' \in [Slots -> {"none", "open"} \cup Verdicts]
  /\ \A s \in Slots : log'[s] = log[s] \/ Opens(s) \/ Closes(s)

Spec == Init /\ [][Advance]_log
=============================================================================
