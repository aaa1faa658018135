----------------------------- MODULE DrainLease -----------------------------
(***************************************************************************)
(* The single-flight lease of the chunk drains: one matching_drain_lease   *)
(* row per lease_key.  Every instance of a drain writes the same holder    *)
(* name, so "held by me" and "held" are the same thing, and of the row     *)
(* only the age of its heartbeat is left:                                  *)
(*   free     holder IS NULL                                               *)
(*   fresh    renewed within STALE_HEARTBEAT_MINUTES                       *)
(*   stale    older than that, expires_at not reached                      *)
(*   expired  expires_at reached                                           *)
(***************************************************************************)

LeaseStates == {"free", "fresh", "stale", "expired"}

(* _acquire_available_predicate                                            *)
OnlyFree(lease)  == lease = "free"       \* mutant: a lease is never stolen
Available(lease) == lease # "fresh"

(* renew_drain_lease: a steal is still possible until it runs; a free or   *)
(* expired lease is left alone, and no caller looks at the answer.         *)
Renewed(lease) == IF lease \in {"fresh", "stale"} THEN "fresh" ELSE lease

(* The next thing time does to a lease nobody renews.                      *)
Aged(lease) == IF lease = "fresh" THEN "stale" ELSE "expired"
=============================================================================
