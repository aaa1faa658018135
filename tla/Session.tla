------------------------------ MODULE Session -------------------------------
(***************************************************************************)
(* Who the browser is to the admin API: the Google token in memory and its *)
(* single-flight remint (lib/auth.tsx), the headers and timeouts of every  *)
(* request (lib/api.ts), the GET /me query of AuthProvider and what        *)
(* RoleGate shows meanwhile.                                               *)
(*                                                                         *)
(* One action is one callback: a Google event, a timer, an answer, a       *)
(* click; the React effects it sets off are part of it.                    *)
(***************************************************************************)
EXTENDS Naturals

VARIABLES
  direct,    \* VITE_ADMIN_API_URL names the admin API's own origin
  client,    \* a Google client id is configured
  online,    \* the browser is; otherwise queries pause
  token,     \* the token in memory
  tap,       \* One Tap is on screen
  mint,      \* mintInflight
  waits,     \* what awaits it: the provider, the query's refresh
  ready,     \* tokenReady
  signed,    \* hasUserToken, the provider's copy of "a token is in memory"
  me,        \* role of the last answer, as the page's allow() sees it
  status,    \* of the query
  fetch,     \* of the query
  carried,   \* token on the request that is or was last sent
  slow       \* loadingTimedOut: RoleGate waited ROLE_GATE_FAIL_SOFT_MS

tokenVars   == <<token, tap, mint>>
queryVars   == <<me, status, fetch, carried>>
sessionVars == <<direct, client, online, tokenVars, waits, ready, signed, queryVars, slow>>

Tokens == {"none", "fresh", "near", "dead"}

-----------------------------------------------------------------------------
(* What RoleGate renders                                                   *)

Waiting ==
  me = "none" /\ (~ready \/ (status = "pending" /\ fetch \in {"mint", "sent"}))

ShowGoogle == direct /\ ~signed /\ me = "none" /\ (status = "error" \/ slow)

Gate == CASE Waiting /\ ~slow          -> "skeleton"
          [] ShowGoogle                -> "google"
          [] status = "error" \/ slow  -> "error"
          [] OTHER                     -> IF me = "allowed" THEN "page" ELSE "forbidden"

(* The effect on waitingForMe forgets the timeout once nothing is awaited. *)
Rerender == slow' = (slow /\ Waiting')

-----------------------------------------------------------------------------
(* ensureDirectAdminApiUserToken: at once, or by the one mint in flight.   *)

OnlyDead(t)      == t = "dead"                  \* mutant: no skew before exp
NeedsRefresh(t)  == t \in {"near", "dead"}
NeedsMint(t)     == direct /\ client /\ (t = "none" \/ NeedsRefresh(t))

(* fetchAdminApi: await the refresh, then read the token and send.         *)
RefreshFirst(t)  == direct /\ client /\ NeedsRefresh(t)

(* A fetch of the query begins with token t, over mint m and its waiters w;*)
(* it joins one that is under way, unless there is data to fall back on,   *)
(* when refetch cancels the old one.                                       *)
Stays(m, w) == mint' = m /\ waits' = w /\ UNCHANGED <<fetch, carried, status>>

Starts(t, m, w) ==
  LET awaits == online /\ RefreshFirst(t)
  IN /\ fetch' = IF ~online THEN "paused" ELSE IF awaits THEN "mint" ELSE "sent"
     /\ carried' = IF direct /\ fetch' = "sent" THEN t ELSE "none"
     /\ status' = IF me = "none" THEN "pending" ELSE status
     /\ mint' = IF awaits /\ m = "idle" THEN "script" ELSE m
     /\ waits' = IF awaits THEN w \cup {"query"} ELSE w \ {"query"}

Begin(t, refetch, m, w) ==
  IF fetch # "idle" /\ (me = "none" \/ ~refetch) THEN Stays(m, w) ELSE Starts(t, m, w)

(* The mint in flight settles and leaves t in memory: its finally settles  *)
(* the provider, and a fetch that awaited it goes out with t, whatever t   *)
(* is.  A first token, or a query that is enabled again, makes it fetch.   *)
SignedBy(t)     == t # "none"

Settle(t, stale) ==
  LET first   == t # "none" /\ ~signed
      enables == ~ready /\ "provider" \in waits /\ (me = "none" \/ stale)
  IN /\ token' = t
     /\ ready' = (ready \/ "provider" \in waits)
     /\ signed' = SignedBy(t)
     /\ IF fetch = "mint"
          THEN /\ fetch' = "sent" /\ carried' = t /\ status' = status
               /\ mint' = "idle" /\ waits' = {}
          ELSE IF first \/ enables THEN Begin(t, first, "idle", {})
                                  ELSE Stays("idle", {})
     /\ UNCHANGED me /\ Rerender

-----------------------------------------------------------------------------
(* The script of Google Identity Services loads, or fails or times out.    *)

ScriptFails(stale) ==
  /\ mint = "script"
  /\ Settle(token, stale) /\ UNCHANGED <<direct, client, online, tap>>

(* promptGoogleOneTap: with a token in memory, however old, onToken() at   *)
(* once ends the wait with it; One Tap is on screen all the same.          *)
Prompts(t) == t = "none"
ScriptLoads(stale) ==
  /\ mint = "script" /\ tap' = TRUE
  /\ IF Prompts(token)
       THEN mint' = "tap" /\ UNCHANGED <<token, waits, ready, signed, queryVars, slow>>
       ELSE Settle(token, stale)
  /\ UNCHANGED <<direct, client, online>>

(* The credential callback, from One Tap or from the button of the sign-in *)
(* screen: the listeners of setAdminApiUserToken run at once.              *)
Credential(stale) ==
  /\ tap \/ (Gate = "google" /\ client)
  /\ tap' = FALSE
  /\ IF mint = "tap" THEN Settle("fresh", stale)
       ELSE /\ token' = "fresh" /\ signed' = TRUE
            /\ IF ~signed THEN Begin("fresh", TRUE, mint, waits) ELSE Stays(mint, waits)
            /\ UNCHANGED <<ready, me>> /\ Rerender
  /\ UNCHANGED <<direct, client, online>>

(* Not displayed, skipped, dismissed.                                      *)
TapMissed(stale) ==
  /\ tap /\ tap' = FALSE
  /\ IF mint = "tap" THEN Settle(token, stale)
       ELSE UNCHANGED <<token, mint, waits, ready, signed, queryVars, slow>>
  /\ UNCHANGED <<direct, client, online>>

(* GIS_PROMPT_TIMEOUT_MS.                                                  *)
TapTimeout(stale) ==
  /\ mint = "tap"
  /\ Settle(token, stale) /\ UNCHANGED <<direct, client, online, tap>>

(* The token's exp comes closer.                                           *)
Ages ==
  /\ \/ token = "fresh" /\ token' = "near"
     \/ token = "near" /\ token' = "dead"
  /\ UNCHANGED <<direct, client, online, tap, mint, waits, ready, signed, queryVars, slow>>

-----------------------------------------------------------------------------
(* The /me query                                                           *)

(* A refetch of stale data: window focus, reconnect, a mount.              *)
RefetchMe ==
  /\ ready /\ fetch = "idle"
  /\ Starts(token, mint, waits)
  /\ UNCHANGED <<direct, client, online, token, tap, ready, signed, me>> /\ Rerender

Answered(role) ==
  /\ fetch = "sent" /\ carried # "dead"
  /\ me' = role /\ status' = "success" /\ fetch' = "idle"
  /\ UNCHANGED <<direct, client, online, tokenVars, waits, ready, signed, carried>> /\ Rerender

(* An error status, a network error, or the 8 s abort of getMe.            *)
Failed ==
  /\ fetch = "sent" /\ status' = "error" /\ fetch' = "idle"
  /\ UNCHANGED <<direct, client, online, tokenVars, waits, ready, signed, me, carried>>
  /\ Rerender

GoOffline ==
  /\ online /\ online' = FALSE
  /\ UNCHANGED <<direct, client, tokenVars, waits, ready, signed, queryVars, slow>>

(* A paused fetch goes on where it was.                                    *)
GoOnline ==
  /\ ~online /\ online' = TRUE
  /\ LET awaits == fetch = "paused" /\ RefreshFirst(token)
     IN /\ fetch' = IF fetch # "paused" THEN fetch ELSE IF awaits THEN "mint" ELSE "sent"
        /\ carried' = IF fetch = "paused" /\ direct /\ ~awaits THEN token ELSE carried
        /\ mint' = IF awaits /\ mint = "idle" THEN "script" ELSE mint
        /\ waits' = IF awaits THEN waits \cup {"query"} ELSE waits
  /\ UNCHANGED <<direct, client, token, tap, ready, signed, me, status>> /\ Rerender

-----------------------------------------------------------------------------
(* RoleGate's timer and its Retry button                                   *)

SlowTimer ==
  /\ Waiting /\ ~slow /\ slow' = TRUE
  /\ UNCHANGED <<direct, client, online, tokenVars, waits, ready, signed, queryVars>>

ForgetsProvider(w) == w                        \* mutant: nobody told at the end
WithProvider(w)    == w \cup {"provider"}

(* retryIdentity: without a client id the promise settles at once.         *)
RetryIdentity ==
  /\ Gate = "google"
  /\ IF NeedsMint(token)
       THEN ready' = FALSE /\ Stays(IF mint = "idle" THEN "script" ELSE mint,
                                    WithProvider(waits))
       ELSE ready' = TRUE /\ Begin(token, FALSE, mint, waits)
  /\ UNCHANGED <<direct, client, online, token, tap, signed, me>> /\ Rerender

-----------------------------------------------------------------------------
(* The page has just loaded; AuthProvider's effect has run.                *)
SessionInit ==
  /\ direct \in BOOLEAN /\ client \in BOOLEAN /\ online = TRUE
  /\ token = "none" /\ tap = FALSE /\ signed = FALSE
  /\ LET minting == direct /\ client
     IN /\ mint = IF minting THEN "script" ELSE "idle"
        /\ waits = IF minting THEN {"provider"} ELSE {}
        /\ ready = ~minting
        /\ fetch = IF minting THEN "idle" ELSE "sent"
  /\ me = "none" /\ status = "pending" /\ carried = "none" /\ slow = FALSE

SessionNext ==
  \/ \E stale \in BOOLEAN :
       \/ ScriptFails(stale) \/ ScriptLoads(stale) \/ Credential(stale)
       \/ TapMissed(stale) \/ TapTimeout(stale)
  \/ Ages \/ RefetchMe \/ \E role \in {"allowed", "other"} : Answered(role)
  \/ Failed \/ GoOffline \/ GoOnline \/ SlowTimer \/ RetryIdentity

SessionSpec == SessionInit /\ [][SessionNext]_sessionVars

-----------------------------------------------------------------------------
(* Properties                                                              *)

(* The variables have their types, and the provider's copy of the token's  *)
(* presence agrees with the token in memory (hasUserToken).                *)
SessionTypeOK ==
  /\ direct \in BOOLEAN /\ client \in BOOLEAN /\ online \in BOOLEAN
  /\ token \in Tokens /\ tap \in BOOLEAN
  /\ mint \in {"idle", "script", "tap"}
  /\ waits \subseteq {"provider", "query"}
  /\ ready \in BOOLEAN /\ signed \in BOOLEAN
  /\ me \in {"none", "allowed", "other"} /\ status \in {"pending", "error", "success"}
  /\ fetch \in {"idle", "paused", "mint", "sent"}
  /\ carried \in Tokens /\ slow \in BOOLEAN
  /\ signed <=> token # "none"

(* Nobody waits for a mint that is not running: whatever Google answers,   *)
(* whoever joins or retries, a provider that is not ready and a request    *)
(* that awaits a refresh are both waiters of the one mint in flight.       *)
WaitersAwake ==
  /\ waits # {} => mint # "idle"
  /\ ~ready => "provider" \in waits
  /\ fetch = "mint" => "query" \in waits

(* fetchAdminApi never sends a token within the skew of its exp without    *)
(* having gone through a remint: whatever joined, paused or was cancelled, *)
(* an old token on a request to the admin API aged on the way there.       *)
RemintTried ==
  [][fetch' = "sent" /\ fetch # "sent" /\ carried' \in {"near", "dead"}
       => fetch = "mint"]_sessionVars
=============================================================================
