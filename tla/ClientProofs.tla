---------------------------- MODULE ClientProofs ----------------------------
(***************************************************************************)
(* What the pages of the client share, the session, the frame and the      *)
(* routes; the live cards of the console; the production cutover; the      *)
(* settings; the pages of runs and workers; and the console of the         *)
(* pipeline.                                                               *)
(*                                                                         *)
(* Nobody waits for a Google mint that is not running, and no request      *)
(* carries an old token without a remint, by the inductive invariant       *)
(* SessionInv: the waiters of the mint and the fetch of the query agree,   *)
(* and without a Google client there is neither token nor mint.            *)
(*                                                                         *)
(* What is told of a row follows it, by the inductive invariant LiveInv: a *)
(* process of which no notification was lost is on its way to the flush,   *)
(* is being read by it, or was told of as it is; and whatever is asked for *)
(* or told is of a row that is there, so that the list finds it.           *)
(*                                                                         *)
(* What a production run ends with is its own, by the inductive invariant  *)
(* CutoverInv: a run goes with its two files step by step, others take     *)
(* them at most further on, and what admin-api remembers is of one run.    *)
(*                                                                         *)
(* The settings are kept as they were left, by the inductive invariant     *)
(* LegalInv: every body on its way or behind a Retry was on screen, none   *)
(* is about a key somebody else has set, and what was read lags behind     *)
(* only a call that was not answered yet.                                  *)
(*                                                                         *)
(* The frame keeps its word, by the inductive invariant ShellInv: a tab    *)
(* that knows a role has a chain with steps, a mounted tour stands on one  *)
(* of them, the palette lists what was found for its text and a menu is    *)
(* open for the pointer, its clock or the keys.                            *)
(*                                                                         *)
(* A link leads where it says, by the inductive invariant RoutesInv: an    *)
(* address that is not shown yet is two redirects from its page at most,   *)
(* and a link that is followed lands from where the router is.             *)
(*                                                                         *)
(* The pages of runs and workers agree with what they were asked for, by   *)
(* the inductive invariant OpsInv: what was asked knowing the fleet is of  *)
(* the worker in the address, a page of a queue is a whole number of pages *)
(* from the start, and a schedule behind a Retry fits its hint.            *)
(*                                                                         *)
(* The console of the pipeline rests, by the inductive invariant           *)
(* ConsoleInv: an address without a process was moved once at most and one *)
(* whose process is gone not at all, the panel waits with a refresh in     *)
(* flight, and an open card has had its tab applied.                       *)
(***************************************************************************)
EXTENDS Session, LiveEvents, ProdCutover, LegalSettings, Shell, Routes,
        OpsPages, DropConsole, SequenceTheorems, FiniteSetTheorems, TLAPS

-----------------------------------------------------------------------------
(* The session                                                             *)

Mints   == {"idle", "script", "tap"}
Waiters == {"provider", "query"}

(* The mint, its waiters and the fetch fit together.                       *)
MintFits ==
  /\ mint \in Mints /\ waits \in SUBSET Waiters
  /\ status \in {"pending", "error", "success"}
  /\ fetch \in {"idle", "paused", "mint", "sent"} /\ carried \in Tokens
  /\ waits # {} => mint # "idle"
  /\ fetch = "mint" => "query" \in waits
  /\ ~direct => carried = "none"
  /\ ~(direct /\ client) => mint = "idle"

(* What no callback but the provider's own changes.                        *)
ProviderFits ==
  /\ direct \in BOOLEAN /\ client \in BOOLEAN /\ online \in BOOLEAN
  /\ token \in Tokens /\ tap \in BOOLEAN
  /\ ready \in BOOLEAN /\ signed \in BOOLEAN
  /\ me \in {"none", "allowed", "other"} /\ slow \in BOOLEAN
  /\ signed <=> token # "none"
  /\ ~(direct /\ client) => token = "none" /\ ~tap

SessionInv == MintFits /\ ProviderFits /\ (~ready => "provider" \in waits)

(* A request that goes out with an old token went through the mint.        *)
Remints ==
  fetch' = "sent" /\ fetch # "sent" /\ carried' \in {"near", "dead"} => fetch = "mint"

Setup == direct \in BOOLEAN /\ client \in BOOLEAN /\ online \in BOOLEAN

-----------------------------------------------------------------------------
(* The operators every action is built from                                *)

(* A fetch that starts over a mint m whose waiters are w leaves them       *)
(* fitting, loses no other waiter, and sends no old token.                 *)
LEMMA StartsFits ==
  ASSUME Setup, UNCHANGED <<direct, client>>, status \in {"pending", "error", "success"},
         NEW t \in Tokens, NEW m \in Mints, NEW w \in SUBSET Waiters,
         w # {} => m # "idle", ~(direct /\ client) => m = "idle",
         Starts(t, m, w)
  PROVE  /\ MintFits' /\ ("provider" \in w => "provider" \in waits')
         /\ fetch' = "sent" => carried' \notin {"near", "dead"} \/ ~client
BY DEF Setup, Starts, RefreshFirst, NeedsRefresh, MintFits, Mints, Waiters, Tokens

LEMMA BeginFits ==
  ASSUME Setup, UNCHANGED <<direct, client>>, MintFits,
         NEW t \in Tokens, NEW refetch \in BOOLEAN,
         NEW m \in Mints, NEW w \in SUBSET Waiters,
         w # {} => m # "idle", ~(direct /\ client) => m = "idle",
         fetch = "mint" => "query" \in w, ~(direct /\ client) => t = "none",
         Begin(t, refetch, m, w)
  PROVE  MintFits' /\ ("provider" \in w => "provider" \in waits') /\ Remints
<1>1. CASE Stays(m, w)
  BY <1>1 DEF Stays, MintFits, Remints, Setup
<1>2. CASE Starts(t, m, w)
  BY <1>2, StartsFits DEF MintFits, Remints, Starts
<1> QED BY <1>1, <1>2 DEF Begin

(* The end of a mint leaves nobody waiting.                                *)
LEMMA SettleFits ==
  ASSUME SessionInv, UNCHANGED <<direct, client, online>>,
         NEW t \in Tokens, NEW stale \in BOOLEAN,
         ~(direct /\ client) => t = "none" /\ ~tap', tap' \in BOOLEAN,
         Settle(t, stale)
  PROVE  SessionInv' /\ Remints
<1>1. ready' = TRUE /\ ready \in BOOLEAN
  BY DEF SessionInv, ProviderFits, Settle
<1>2. token' = t /\ signed' = (t # "none") /\ me' = me /\ slow' \in BOOLEAN
  BY DEF Settle, SignedBy, Rerender, SessionInv, ProviderFits
<1>3. ProviderFits'
  BY <1>1, <1>2 DEF SessionInv, ProviderFits
<1>4. MintFits' /\ Remints
  <2>1. CASE fetch = "mint"
    BY <2>1 DEF Settle, SessionInv, MintFits, ProviderFits, Remints, Mints, Waiters, Tokens
  <2>2. CASE fetch # "mint" /\ Stays("idle", {})
    BY <2>2 DEF Stays, SessionInv, MintFits, Remints, Mints, Waiters
  <2>3. ASSUME NEW first \in BOOLEAN, fetch # "mint", Begin(t, first, "idle", {})
        PROVE  MintFits' /\ Remints
    BY <2>3, BeginFits DEF SessionInv, MintFits, ProviderFits, Setup, Mints, Waiters
  <2> QED BY <2>1, <2>2, <2>3 DEF Settle
<1> QED BY <1>1, <1>3, <1>4 DEF SessionInv

-----------------------------------------------------------------------------
(* The actions                                                             *)

LEMMA InitSessionInv == SessionInit => SessionInv
BY DEF SessionInit, SessionInv, MintFits, ProviderFits, Mints, Waiters, Tokens

LEMMA GoogleStep ==
  ASSUME SessionInv, NEW stale \in BOOLEAN,
         \/ ScriptFails(stale) \/ ScriptLoads(stale) \/ Credential(stale)
         \/ TapMissed(stale) \/ TapTimeout(stale)
  PROVE  SessionInv' /\ Remints
<1> USE DEF SessionInv
<1>1. CASE ScriptFails(stale)
  BY <1>1, SettleFits DEF ScriptFails, ProviderFits
<1>2. CASE ScriptLoads(stale)
  <2>1. direct /\ client
    BY <1>2 DEF ScriptLoads, MintFits, ProviderFits
  <2>2. CASE Prompts(token)
    BY <1>2, <2>1, <2>2 DEF ScriptLoads, MintFits, ProviderFits, Remints, Mints, queryVars
  <2>3. CASE ~Prompts(token)
    BY <1>2, <2>1, <2>3, SettleFits DEF ScriptLoads, ProviderFits
  <2> QED BY <2>2, <2>3
<1>3. CASE Credential(stale)
  <2>1. direct /\ client /\ tap' = FALSE
    BY <1>3 DEF Credential, Gate, ShowGoogle, ProviderFits, Waiting
  <2>2. CASE mint = "tap"
    BY <1>3, <2>1, <2>2, SettleFits DEF Credential, ProviderFits, Tokens
  <2>3. CASE mint # "tap"
    <3>1. ProviderFits' /\ ready' = ready
      BY <1>3, <2>1, <2>3 DEF Credential, ProviderFits, Tokens, Rerender
    <3>2. MintFits' /\ Remints /\ ("provider" \in waits => "provider" \in waits')
      <4>1. CASE Stays(mint, waits)
        BY <1>3, <4>1 DEF Credential, Stays, MintFits, Remints
      <4>2. CASE Begin("fresh", TRUE, mint, waits)
        <5>1. Setup /\ UNCHANGED <<direct, client>> /\ mint \in Mints /\ waits \in SUBSET Waiters
          BY <1>3 DEF Credential, ProviderFits, Setup, MintFits
        <5>2. "fresh" \in Tokens
          BY DEF Tokens
        <5> QED BY <2>1, <4>2, <5>1, <5>2, BeginFits DEF MintFits
      <4> QED BY <1>3, <2>3, <4>1, <4>2 DEF Credential
    <3> QED BY <3>1, <3>2
  <2> QED BY <2>2, <2>3
<1>4. CASE TapMissed(stale)
  <2>1. CASE mint = "tap"
    BY <1>4, <2>1, SettleFits DEF TapMissed, ProviderFits
  <2>2. CASE mint # "tap"
    BY <1>4, <2>2 DEF TapMissed, ProviderFits, MintFits, Remints, queryVars
  <2> QED BY <2>1, <2>2
<1>5. CASE TapTimeout(stale)
  BY <1>5, SettleFits DEF TapTimeout, ProviderFits
<1> QED BY <1>1, <1>2, <1>3, <1>4, <1>5

LEMMA QueryStep ==
  ASSUME SessionInv,
         \/ Ages \/ RefetchMe \/ Failed \/ GoOffline \/ GoOnline \/ SlowTimer
         \/ \E who \in {"allowed", "other"} : Answered(who)
  PROVE  SessionInv' /\ Remints
<1> USE DEF SessionInv
<1>1. CASE Ages
  BY <1>1 DEF Ages, MintFits, ProviderFits, Remints, Tokens, queryVars
<1>2. CASE RefetchMe
  <2>1. ProviderFits' /\ ready' = TRUE
    BY <1>2 DEF RefetchMe, ProviderFits, Rerender
  <2>2. Setup /\ UNCHANGED <<direct, client>> /\ fetch = "idle"
    BY <1>2 DEF RefetchMe, ProviderFits, Setup
  <2>3. Begin(token, TRUE, mint, waits)
    BY <1>2 DEF RefetchMe, Begin
  <2> QED BY <2>1, <2>2, <2>3, BeginFits DEF MintFits, ProviderFits
<1>3. CASE Failed
  BY <1>3 DEF Failed, MintFits, ProviderFits, Remints, tokenVars, Rerender
<1>4. CASE GoOffline
  <2>1. ProviderFits' /\ ready' = ready
    BY <1>4 DEF GoOffline, ProviderFits, tokenVars, queryVars
  <2>2. MintFits' /\ Remints /\ waits' = waits
    BY <1>4 DEF GoOffline, MintFits, Remints, tokenVars, queryVars
  <2> QED BY <2>1, <2>2
<1>5. CASE GoOnline
  <2>1. ProviderFits' /\ ready' = ready
    BY <1>5 DEF GoOnline, ProviderFits, Rerender
  <2>2. MintFits' /\ Remints /\ ("provider" \in waits => "provider" \in waits')
    BY <1>5 DEF GoOnline, RefreshFirst, NeedsRefresh, MintFits, ProviderFits, Remints,
                Mints, Waiters, Tokens
  <2> QED BY <2>1, <2>2
<1>6. CASE SlowTimer
  BY <1>6 DEF SlowTimer, MintFits, ProviderFits, Remints, tokenVars, queryVars
<1>7. ASSUME NEW who \in {"allowed", "other"}, Answered(who)
      PROVE  SessionInv' /\ Remints
  BY <1>7 DEF Answered, MintFits, ProviderFits, Remints, tokenVars, Rerender
<1> QED BY <1>1, <1>2, <1>3, <1>4, <1>5, <1>6, <1>7

LEMMA RetryStep ==
  ASSUME SessionInv, RetryIdentity
  PROVE  SessionInv' /\ Remints
<1> USE DEF SessionInv
<1>1. CASE NeedsMint(token)
  <2>1. ProviderFits'
    BY <1>1 DEF RetryIdentity, ProviderFits, Rerender
  <2>2. MintFits' /\ Remints /\ "provider" \in waits'
    BY <1>1 DEF RetryIdentity, NeedsMint, Stays, WithProvider, MintFits, Remints, Mints, Waiters
  <2> QED BY <2>1, <2>2
<1>2. CASE ~NeedsMint(token)
  <2>1. ProviderFits' /\ ready' = TRUE
    BY <1>2 DEF RetryIdentity, ProviderFits, Rerender
  <2>2. Setup /\ UNCHANGED <<direct, client>> /\ Begin(token, FALSE, mint, waits)
    BY <1>2 DEF RetryIdentity, ProviderFits, Setup
  <2> QED BY <2>1, <2>2, BeginFits DEF MintFits, ProviderFits
<1> QED BY <1>1, <1>2

LEMMA NextSessionInv == SessionInv /\ [SessionNext]_sessionVars => SessionInv' /\ Remints
<1> SUFFICES ASSUME SessionInv, [SessionNext]_sessionVars PROVE SessionInv' /\ Remints
  OBVIOUS
<1>1. CASE UNCHANGED sessionVars
  BY <1>1 DEF sessionVars, tokenVars, queryVars, SessionInv, MintFits, ProviderFits, Remints
<1> QED BY <1>1, GoogleStep, QueryStep, RetryStep DEF SessionNext

-----------------------------------------------------------------------------
(* Theorems                                                                *)

LEMMA SessionInvariant == SessionSpec => []SessionInv
<1>1. SessionInit => SessionInv
  BY InitSessionInv
<1>2. SessionInv /\ [SessionNext]_sessionVars => SessionInv'
  BY NextSessionInv
<1> QED BY <1>1, <1>2, PTL DEF SessionSpec

(* The variables keep their types, and "signed in" says that a token is in *)
(* memory.                                                                 *)
THEOREM SessionTyped == SessionSpec => []SessionTypeOK
<1>1. SessionInv => SessionTypeOK
  BY DEF SessionInv, MintFits, ProviderFits, SessionTypeOK, Mints, Waiters
<1> QED BY <1>1, SessionInvariant, PTL

(* A provider that is not ready and a request that awaits a refresh wait   *)
(* for a mint that runs: whatever Google answers, joins or times out       *)
(* (auth.tsx), no session hangs on a mint that is over.                    *)
THEOREM NobodySleeps == SessionSpec => []WaitersAwake
<1>1. SessionInv => WaitersAwake
  BY DEF SessionInv, MintFits, WaitersAwake
<1> QED BY <1>1, SessionInvariant, PTL

(* No request carries an old token that did not go through a remint first  *)
(* (fetchAdminApi).                                                        *)
THEOREM OldTokensReminted == SessionSpec => RemintTried
<1>1. SessionInv /\ [SessionNext]_sessionVars =>
        [fetch' = "sent" /\ fetch # "sent" /\ carried' \in {"near", "dead"}
           => fetch = "mint"]_sessionVars
  BY NextSessionInv DEF Remints
<1> QED BY <1>1, SessionInvariant, PTL DEF SessionSpec, RemintTried

-----------------------------------------------------------------------------
(* The live cards                                                          *)

LiveSpec == LiveInit /\ [][LiveNext]_liveVars

Readers   == {"flush", "backstop", "catchup"}
Versions  == [Cards -> Nat]
BridgeRow == [listening : BOOLEAN, inbox : Seq(Cards), dirty : SUBSET Cards, emitted : Versions,
              latest : Nat]
ReaderRow == [at : {"idle", "asks", "holds"}, seen : Versions]
Event     == [id : Cards, v : Nat]
StreamRow == [at : {"off", "initial", "holds", "open", "dead"}, seen : Versions, queue : Seq(Event)]
PollRow   == [at : {"off", "idle", "asks", "holds"}, seen : Versions, data : BOOLEAN]

LiveTypes ==
  /\ rollup \in Versions /\ bridge \in BridgeRow /\ readers \in [Readers -> ReaderRow]
  /\ stream \in StreamRow /\ paints \in [PaintCaches -> Versions]
  /\ polls \in [PaintCaches -> PollRow] /\ owed \subseteq Cards

(* What is told, asked for or on its way is of a row that is there, and is *)
(* not newer than it.                                                      *)
BridgeOfRows ==
  /\ bridge.dirty \subseteq Existing /\ Range(bridge.inbox) \subseteq Existing
  /\ bridge.latest \in Existing \cup {0}

ReadersOfRows ==
  \A r \in Readers :
    /\ \A p \in Cards : readers[r].seen[p] <= rollup[p]
    /\ readers[r].at = "idle" <=> AskedFor(r) = {}

PageOfRows ==
  /\ \A e \in Range(stream.queue) : e.id \in Existing
  /\ \A p \in Cards : stream.seen[p] <= rollup[p]
  /\ owed \subseteq Existing

OfRows == BridgeOfRows /\ ReadersOfRows /\ PageOfRows

(* A process whose notification was not lost is in the inbox, is dirty, or *)
(* is being read.                                                          *)
Pending(p) == p \in Range(bridge.inbox) \/ p \in bridge.dirty

Followed ==
  liveDesk = "bridge" =>
    \A p \in Cards \ lapsed :
      /\ readers["flush"].at = "holds" /\ p \in AskedFor("flush") /\ ~Pending(p)
           => readers["flush"].seen[p] = rollup[p]
      /\ p \notin regressed /\ p \notin AskedFor("flush") /\ ~Pending(p)
           => bridge.emitted[p] = rollup[p]

PageFits == polls["list"].at # "off" /\ ToldIsFetched /\ DetailRead

LiveInv == LiveTypes /\ OfRows /\ Followed /\ PageFits

LEMMA UnseenTyped == Unseen \in Versions /\ \A p \in Cards : Unseen[p] = 0
BY DEF Unseen, Versions

LEMMA NoElements == Range(<<>>) = {}
BY DEF Range

LEMMA AppendedRange ==
  ASSUME NEW S, NEW s \in Seq(S), NEW e \in S
  PROVE  Append(s, e) \in Seq(S) /\ Range(Append(s, e)) = Range(s) \cup {e}
<1>1. /\ Append(s, e) \in Seq(S) /\ Len(Append(s, e)) = Len(s) + 1
      /\ \A k \in 1 .. Len(s) : Append(s, e)[k] = s[k]
      /\ Append(s, e)[Len(s) + 1] = e
  BY AppendProperties
<1>2. DOMAIN s = 1 .. Len(s) /\ DOMAIN Append(s, e) = 1 .. Len(s) + 1 /\ Len(s) \in Nat
  BY <1>1, LenProperties
<1> DEFINE t == Append(s, e)
<1>3. t = Append(s, e)
  OBVIOUS
<1> HIDE DEF t
<1>4. Range(t) = Range(s) \cup {e}
  BY <1>1, <1>2, <1>3 DEF Range
<1> QED BY <1>1, <1>3, <1>4

LEMMA TailRange ==
  ASSUME NEW S, NEW s \in Seq(S), s # <<>>
  PROVE  /\ Tail(s) \in Seq(S) /\ Head(s) \in S /\ Head(s) \in Range(s)
         /\ Range(s) = Range(Tail(s)) \cup {Head(s)}
<1>1. /\ Head(s) \in S /\ Tail(s) \in Seq(S) /\ Len(Tail(s)) = Len(s) - 1
      /\ \A k \in 1 .. Len(Tail(s)) : Tail(s)[k] = s[k + 1]
  BY HeadTailProperties
<1>2. Head(s) = s[1] /\ Len(s) \in Nat \ {0}
  BY LenProperties, EmptySeq
<1>3. DOMAIN s = 1 .. Len(s) /\ DOMAIN Tail(s) = 1 .. Len(s) - 1
  BY <1>1, LenProperties
<1> DEFINE t == Tail(s)
<1>4. t = Tail(s)
  OBVIOUS
<1> HIDE DEF t
<1>5. \A k \in 1 .. Len(s) - 1 : t[k] = s[k + 1] /\ k + 1 \in 1 .. Len(s)
  BY <1>1, <1>2, <1>4
<1>6. \A k \in 1 .. Len(s) : k = 1 \/ (k - 1 \in 1 .. Len(s) - 1 /\ t[k - 1] = s[k])
  BY <1>2, <1>5
<1>7. Range(s) = {s[k] : k \in 1 .. Len(s)} /\ Range(t) = {t[k] : k \in 1 .. Len(s) - 1}
  BY <1>3, <1>4 DEF Range
<1>8. Range(s) \subseteq Range(t) \cup {s[1]}
  BY <1>6, <1>7
<1>9. Range(t) \subseteq Range(s) /\ s[1] \in Range(s)
  BY <1>2, <1>5, <1>7
<1> QED BY <1>1, <1>2, <1>4, <1>8, <1>9

LEMMA AnEvent ==
  ASSUME NEW p \in Cards, NEW v \in Nat
  PROVE  \E e \in Event : e = [id |-> p, v |-> v] /\ e.id = p
<1> DEFINE e == [id |-> p, v |-> v]
<1>1. e \in Event /\ e.id = p
  BY DEF Event
<1> HIDE DEF e
<1>2. \E f \in Event : f = e /\ f.id = p
  BY <1>1
<1> QED BY <1>2 DEF e

LEMMA InitLiveInv == LiveInit => LiveInv
<1> SUFFICES ASSUME LiveInit PROVE LiveInv
  OBVIOUS
<1> USE UnseenTyped, NoElements
<1>1. /\ rollup = Unseen /\ lapsed = {} /\ regressed = {} /\ owed = {}
      /\ bridge = [listening |-> liveDesk = "bridge", inbox |-> <<>>, dirty |-> {},
                   emitted |-> Unseen, latest |-> 0]
      /\ stream = [at |-> "off", seen |-> Unseen, queue |-> <<>>]
  BY DEF LiveInit
<1>2. readers = [r \in Readers |-> AtRest]
  BY DEF LiveInit, Readers
<1>3. /\ paints = [c \in PaintCaches |-> Unseen]
      /\ polls = [c \in PaintCaches |-> [at |-> IF c = "list" THEN "asks" ELSE "off",
                                        seen |-> Unseen, data |-> FALSE]]
  BY DEF LiveInit
<1>4. bridge \in BridgeRow /\ stream \in StreamRow /\ rollup \in Versions /\ owed \subseteq Cards
  BY <1>1 DEF BridgeRow, StreamRow
<1>5. readers \in [Readers -> ReaderRow] /\ \A r \in Readers : readers[r] = AtRest
  BY <1>2 DEF ReaderRow, AtRest
<1>6. paints \in [PaintCaches -> Versions] /\ polls \in [PaintCaches -> PollRow]
  BY <1>3 DEF PollRow
<1>7. LiveTypes
  BY <1>4, <1>5, <1>6 DEF LiveTypes
<1>8. OfRows
  BY <1>1, <1>5
  DEF OfRows, BridgeOfRows, ReadersOfRows, PageOfRows, AtRest, Readers, AskedFor, Versions
<1>9. Followed
  <2>1. "flush" \in Readers /\ readers["flush"].at = "idle"
    BY <1>5 DEF Readers, AtRest
  <2>2. \A p \in Cards : bridge.emitted[p] = rollup[p]
    BY <1>1
  <2> QED BY <2>1, <2>2 DEF Followed
<1>10. PageFits
  BY <1>1, <1>3 DEF PageFits, ToldIsFetched, DetailRead, PaintCaches
<1> QED BY <1>7, <1>8, <1>9, <1>10 DEF LiveInv

(* What each step that changes only the rows, only the readers or only the *)
(* page leaves alone.                                                      *)
LEMMA PageKept ==
  ASSUME PageFits, polls' = polls, paints' = paints, owed' = owed
  PROVE  PageFits'
BY DEF PageFits, ToldIsFetched, DetailRead, PaintCaches, Unseen

LEMMA BridgeKept ==
  ASSUME BridgeOfRows, ReadersOfRows, Followed, rollup' = rollup, bridge' = bridge,
         readers' = readers, lapsed' = lapsed, regressed' = regressed, liveDesk' = liveDesk
  PROVE  BridgeOfRows' /\ ReadersOfRows' /\ Followed'
BY DEF BridgeOfRows, ReadersOfRows, Followed, Pending, AskedFor, Existing

LEMMA PageRowsKept ==
  ASSUME PageOfRows, rollup' = rollup, stream' = stream, owed' = owed
  PROVE  PageOfRows'
BY DEF PageOfRows, Existing

LEMMA RowChangesKeeps ==
  ASSUME LiveInv, NEW p \in Cards, RowChanges(p), liveDesk' = liveDesk
  PROVE  LiveInv'
<1>1. LiveTypes /\ BridgeOfRows /\ ReadersOfRows /\ PageOfRows /\ Followed /\ PageFits
  BY DEF LiveInv, OfRows
<1>2. /\ rollup' = [rollup EXCEPT ![p] = @ + 1] /\ readers' = readers /\ stream' = stream
      /\ paints' = paints /\ polls' = polls /\ regressed' = regressed /\ owed' = owed
  BY DEF RowChanges
<1>3. rollup \in [Cards -> Nat]
  BY <1>1 DEF LiveTypes, Versions
<1>4. rollup' \in [Cards -> Nat] /\ p \in Existing'
      /\ \A q \in Cards : rollup[q] <= rollup'[q] /\ (q # p => rollup'[q] = rollup[q])
  BY <1>2, <1>3 DEF Existing
<1>5. Existing \subseteq Existing'
  BY <1>3, <1>4 DEF Existing
<1>6. \/ /\ bridge' = [bridge EXCEPT !.inbox = Append(@, p)] /\ lapsed' = lapsed \ {p}
      \/ bridge' = bridge /\ lapsed' = lapsed \cup {p}
  BY DEF RowChanges
<1>7. /\ bridge' \in BridgeRow /\ bridge'.dirty = bridge.dirty /\ bridge'.emitted = bridge.emitted
      /\ bridge'.latest = bridge.latest
      /\ Range(bridge'.inbox) \subseteq Range(bridge.inbox) \cup {p}
      /\ Range(bridge.inbox) \subseteq Range(bridge'.inbox)
      /\ \/ p \in Range(bridge'.inbox) /\ lapsed' = lapsed \ {p}
         \/ lapsed' = lapsed \cup {p}
  <2>1. bridge \in BridgeRow /\ bridge.inbox \in Seq(Cards)
    BY <1>1 DEF LiveTypes, BridgeRow
  <2>2. CASE bridge' = [bridge EXCEPT !.inbox = Append(@, p)] /\ lapsed' = lapsed \ {p}
    <3>1. PICK s \in Seq(Cards) : s = Append(bridge.inbox, p) /\ Range(s) = Range(bridge.inbox) \cup {p}
      BY <2>1, AppendedRange
    <3>2. bridge' = [bridge EXCEPT !.inbox = s]
      BY <2>2, <3>1
    <3>3. bridge' \in BridgeRow /\ bridge'.inbox = s /\ bridge'.dirty = bridge.dirty
          /\ bridge'.emitted = bridge.emitted /\ bridge'.latest = bridge.latest
      BY <2>1, <3>2 DEF BridgeRow
    <3> QED BY <2>2, <3>1, <3>3
  <2>3. CASE bridge' = bridge /\ lapsed' = lapsed \cup {p}
    BY <2>1, <2>3
  <2> QED BY <1>6, <2>2, <2>3
<1>8. LiveTypes'
  BY <1>1, <1>2, <1>4, <1>7 DEF LiveTypes, Versions
<1>9. BridgeOfRows'
  BY <1>1, <1>4, <1>5, <1>7 DEF BridgeOfRows
<1>10. ReadersOfRows'
  <2>1. \A r \in Readers, q \in Cards : readers[r].seen[q] <= rollup'[q]
    <3> TAKE r \in Readers, q \in Cards
    <3>1. readers[r].seen[q] \in Nat /\ readers[r].seen[q] <= rollup[q]
      BY <1>1 DEF LiveTypes, ReadersOfRows, ReaderRow, Versions
    <3> QED BY <3>1, <1>3, <1>4
  <2> QED BY <1>1, <1>2, <2>1 DEF ReadersOfRows, AskedFor
<1>11. PageOfRows'
  <2>1. \A q \in Cards : stream.seen[q] <= rollup'[q]
    <3> TAKE q \in Cards
    <3>1. stream.seen[q] \in Nat /\ stream.seen[q] <= rollup[q]
      BY <1>1 DEF LiveTypes, PageOfRows, StreamRow, Versions
    <3> QED BY <3>1, <1>3, <1>4
  <2> QED BY <1>1, <1>2, <1>5, <2>1 DEF PageOfRows
<1>12. Followed'
  <2> SUFFICES ASSUME liveDesk = "bridge", NEW q \in Cards, q \notin lapsed', ~Pending(q)'
               PROVE  /\ readers["flush"].at = "holds" /\ q \in AskedFor("flush")
                           => readers["flush"].seen[q] = rollup'[q]
                      /\ q \notin regressed /\ q \notin AskedFor("flush")
                           => bridge'.emitted[q] = rollup'[q]
    BY <1>2 DEF Followed, AskedFor
  <2>1. q # p /\ q \notin lapsed /\ ~Pending(q)
    BY <1>7 DEF Pending
  <2> QED BY <1>1, <1>4, <1>7, <2>1 DEF Followed
<1>13. PageFits'
  BY <1>1, <1>2, PageKept
<1> QED BY <1>8, <1>9, <1>10, <1>11, <1>12, <1>13 DEF LiveInv, OfRows

LEMMA ConsumeKeeps ==
  ASSUME LiveInv, Consume, liveDesk' = liveDesk
  PROVE  LiveInv'
<1>1. LiveTypes /\ BridgeOfRows /\ ReadersOfRows /\ PageOfRows /\ Followed /\ PageFits
  BY DEF LiveInv, OfRows
<1>2. /\ rollup' = rollup /\ readers' = readers /\ stream' = stream /\ paints' = paints
      /\ polls' = polls /\ lapsed' = lapsed /\ regressed' = regressed /\ owed' = owed
  BY DEF Consume
<1>3. bridge \in BridgeRow /\ bridge.inbox \in Seq(Cards) /\ bridge.inbox # <<>>
  BY <1>1 DEF LiveTypes, BridgeRow, Consume
<1>4. PICK s \in Seq(Cards), p \in Cards :
        /\ s = Tail(bridge.inbox) /\ p = Head(bridge.inbox)
        /\ Range(bridge.inbox) = Range(s) \cup {p}
  BY <1>3, TailRange
<1>5. bridge' = [bridge EXCEPT !.inbox = s, !.dirty = @ \cup {p}]
  BY <1>4 DEF Consume
<1>6. /\ bridge' \in BridgeRow /\ bridge'.inbox = s /\ bridge'.dirty = bridge.dirty \cup {p}
      /\ bridge'.emitted = bridge.emitted /\ bridge'.latest = bridge.latest
  BY <1>3, <1>5 DEF BridgeRow
<1>7. LiveTypes'
  BY <1>1, <1>2, <1>6 DEF LiveTypes
<1>8. BridgeOfRows'
  BY <1>1, <1>2, <1>4, <1>6 DEF BridgeOfRows, Existing
<1>9. ReadersOfRows'
  BY <1>1, <1>2 DEF ReadersOfRows, AskedFor
<1>10. Followed'
  <2>1. \A q : Pending(q)' <=> Pending(q)
    BY <1>4, <1>6 DEF Pending
  <2> QED BY <1>1, <1>2, <1>6, <2>1 DEF Followed, AskedFor
<1>11. PageOfRows' /\ PageFits'
  BY <1>1, <1>2, PageRowsKept, PageKept
<1> QED BY <1>7, <1>8, <1>9, <1>10, <1>11 DEF LiveInv, OfRows

LEMMA ListenerLostKeeps ==
  ASSUME LiveInv, ListenerLost, liveDesk' = liveDesk
  PROVE  LiveInv'
<1>1. LiveTypes /\ BridgeOfRows /\ ReadersOfRows /\ PageOfRows /\ Followed /\ PageFits
  BY DEF LiveInv, OfRows
<1>2. /\ rollup' = rollup /\ readers' = readers /\ stream' = stream /\ paints' = paints
      /\ polls' = polls /\ lapsed' = lapsed /\ regressed' = regressed /\ owed' = owed
      /\ bridge' = [bridge EXCEPT !.listening = FALSE]
  BY DEF ListenerLost
<1>3. /\ bridge' \in BridgeRow /\ bridge'.inbox = bridge.inbox /\ bridge'.dirty = bridge.dirty
      /\ bridge'.emitted = bridge.emitted /\ bridge'.latest = bridge.latest
  BY <1>1, <1>2 DEF LiveTypes, BridgeRow
<1>4. LiveTypes'
  BY <1>1, <1>2, <1>3 DEF LiveTypes
<1>5. BridgeOfRows' /\ ReadersOfRows' /\ Followed'
  BY <1>1, <1>2, <1>3 DEF BridgeOfRows, ReadersOfRows, Followed, Pending, AskedFor, Existing
<1>6. PageOfRows' /\ PageFits'
  BY <1>1, <1>2, PageRowsKept, PageKept
<1> QED BY <1>4, <1>5, <1>6 DEF LiveInv, OfRows

(* The readers.  What a step does to one of them does not touch the rows;  *)
(* the invariant follows from what it asked for before and asks for after. *)
LEMMA ReaderSet ==
  ASSUME LiveTypes, ReadersOfRows, NEW r \in Readers, NEW row \in ReaderRow,
         \A p \in Cards : row.seen[p] <= rollup[p],
         row.at = "idle" <=> {p \in Cards : row.seen[p] > 0} = {},
         readers' = [readers EXCEPT ![r] = row], rollup' = rollup
  PROVE  /\ readers' \in [Readers -> ReaderRow] /\ ReadersOfRows'
         /\ readers'[r] = row /\ \A q \in Readers \ {r} : readers'[q] = readers[q]
<1>1. readers \in [Readers -> ReaderRow]
  BY DEF LiveTypes
<1>2. readers' \in [Readers -> ReaderRow]
  BY <1>1
<1>3. readers'[r] = row /\ \A q \in Readers \ {r} : readers'[q] = readers[q]
  BY <1>1
<1>4. ReadersOfRows'
  <2> SUFFICES ASSUME NEW q \in Readers
               PROVE  /\ \A p \in Cards : readers'[q].seen[p] <= rollup[p]
                      /\ readers'[q].at = "idle" <=> {p \in Cards : readers'[q].seen[p] > 0} = {}
    BY DEF ReadersOfRows, AskedFor
  <2>1. CASE q = r
    BY <1>3, <2>1
  <2>2. CASE q # r
    BY <1>3, <2>2 DEF ReadersOfRows, AskedFor
  <2> QED BY <2>1, <2>2
<1> QED BY <1>2, <1>3, <1>4

LEMMA WantedRow ==
  ASSUME LiveTypes, NEW ps, ps \subseteq Existing, ps # {}
  PROVE  /\ Wanted(ps) \in ReaderRow /\ Wanted(ps).at = "asks"
         /\ \A p \in Cards : Wanted(ps).seen[p] <= rollup[p]
         /\ {p \in Cards : Wanted(ps).seen[p] > 0} = ps
<1>1. rollup \in [Cards -> Nat] /\ ps \subseteq Cards
  BY DEF LiveTypes, Versions, Existing
<1> QED BY <1>1 DEF Wanted, ReaderRow, Versions, Existing

LEMMA AtRestRow ==
  ASSUME LiveTypes
  PROVE  /\ AtRest \in ReaderRow /\ AtRest.at = "idle"
         /\ \A p \in Cards : AtRest.seen[p] <= rollup[p]
         /\ {p \in Cards : AtRest.seen[p] > 0} = {}
<1>1. rollup \in [Cards -> Nat]
  BY DEF LiveTypes, Versions
<1> QED BY <1>1, UnseenTyped DEF AtRest, ReaderRow

LEMMA FlushKeeps ==
  ASSUME LiveInv, Flush, liveDesk' = liveDesk
  PROVE  LiveInv'
<1>1. LiveTypes /\ BridgeOfRows /\ ReadersOfRows /\ PageOfRows /\ Followed /\ PageFits
  BY DEF LiveInv, OfRows
<1>2. /\ rollup' = rollup /\ stream' = stream /\ paints' = paints
      /\ polls' = polls /\ lapsed' = lapsed /\ regressed' = regressed /\ owed' = owed
      /\ bridge' = [bridge EXCEPT !.dirty = @ \ @]
      /\ bridge.dirty # {} /\ readers["flush"].at = "idle"
      /\ readers' = [readers EXCEPT !["flush"] = Wanted(bridge.dirty)]
  BY <1>1 DEF Flush, DirtyAfter, StartsReading, LiveTypes, BridgeRow
<1>3. /\ bridge' \in BridgeRow /\ bridge'.inbox = bridge.inbox /\ bridge'.dirty = {}
      /\ bridge'.emitted = bridge.emitted /\ bridge'.latest = bridge.latest
  BY <1>1, <1>2 DEF LiveTypes, BridgeRow
<1>4. "flush" \in Readers /\ bridge.dirty \subseteq Existing
  BY <1>1 DEF Readers, BridgeOfRows
<1> DEFINE row == Wanted(bridge.dirty)
<1>5. /\ row \in ReaderRow /\ row.at = "asks" /\ \A p \in Cards : row.seen[p] <= rollup[p]
      /\ {p \in Cards : row.seen[p] > 0} = bridge.dirty
  BY <1>1, <1>2, <1>4, WantedRow
<1>6. PICK w \in ReaderRow : w = row
  BY <1>5
<1> HIDE DEF row
<1>7. /\ readers' \in [Readers -> ReaderRow] /\ ReadersOfRows' /\ readers'["flush"] = w
  BY <1>1, <1>2, <1>4, <1>5, <1>6, ReaderSet DEF row
<1>8. LiveTypes'
  BY <1>1, <1>2, <1>3, <1>7 DEF LiveTypes
<1>9. BridgeOfRows'
  BY <1>1, <1>2, <1>3 DEF BridgeOfRows, Existing
<1>10. Followed'
  <2>1. AskedFor("flush") = {} /\ AskedFor("flush")' = bridge.dirty
    BY <1>1, <1>2, <1>4, <1>5, <1>6, <1>7 DEF AskedFor, ReadersOfRows
  <2>2. readers'["flush"].at # "holds"
    BY <1>5, <1>6, <1>7
  <2> QED BY <1>1, <1>2, <1>3, <2>1, <2>2 DEF Followed, Pending
<1>11. PageOfRows' /\ PageFits'
  BY <1>1, <1>2, PageRowsKept, PageKept
<1> QED BY <1>7, <1>8, <1>9, <1>10, <1>11 DEF LiveInv, OfRows

(* A reader other than the flush that starts: what is followed is what the *)
(* flush reads.                                                            *)
LEMMA FollowedBeside ==
  ASSUME Followed, liveDesk' = liveDesk, rollup' = rollup, lapsed' = lapsed,
         regressed' = regressed, readers'["flush"] = readers["flush"],
         bridge'.inbox = bridge.inbox, bridge'.dirty = bridge.dirty,
         bridge'.emitted = bridge.emitted
  PROVE  Followed'
BY DEF Followed, AskedFor, Pending

LEMMA RefreshLatestKeeps ==
  ASSUME LiveInv, NEW r \in Readers \ {"flush"}, RefreshLatest(r), liveDesk' = liveDesk
  PROVE  LiveInv'
<1>1. LiveTypes /\ BridgeOfRows /\ ReadersOfRows /\ PageOfRows /\ Followed /\ PageFits
  BY DEF LiveInv, OfRows
<1>2. /\ rollup' = rollup /\ stream' = stream /\ paints' = paints /\ bridge' = bridge
      /\ polls' = polls /\ lapsed' = lapsed /\ regressed' = regressed /\ owed' = owed
      /\ readers' = [readers EXCEPT ![r] = Wanted(Latest)] /\ Latest # {}
  BY DEF RefreshLatest, StartsReading
<1> DEFINE row == Wanted(Latest)
<1>3. /\ row \in ReaderRow /\ row.at = "asks" /\ \A p \in Cards : row.seen[p] <= rollup[p]
      /\ {p \in Cards : row.seen[p] > 0} # {}
  <2>1. Latest \subseteq Existing
    BY DEF Latest
  <2> QED BY <1>1, <1>2, <2>1, WantedRow
<1> HIDE DEF row
<1>4. /\ readers' \in [Readers -> ReaderRow] /\ ReadersOfRows'
      /\ \A q \in Readers \ {r} : readers'[q] = readers[q]
  BY <1>1, <1>2, <1>3, ReaderSet DEF row
<1>5. LiveTypes'
  BY <1>1, <1>2, <1>4 DEF LiveTypes
<1>6. BridgeOfRows'
  BY <1>1, <1>2 DEF BridgeOfRows, Existing
<1>7. Followed'
  BY <1>1, <1>2, <1>4, FollowedBeside DEF Readers
<1>8. PageOfRows' /\ PageFits'
  BY <1>1, <1>2, PageRowsKept, PageKept
<1> QED BY <1>4, <1>5, <1>6, <1>7, <1>8 DEF LiveInv, OfRows

LEMMA ListensAgainKeeps ==
  ASSUME LiveInv, ListensAgain, liveDesk' = liveDesk
  PROVE  LiveInv'
<1>1. LiveTypes /\ BridgeOfRows /\ ReadersOfRows /\ PageOfRows /\ Followed /\ PageFits
  BY DEF LiveInv, OfRows
<1>2. /\ rollup' = rollup /\ stream' = stream /\ paints' = paints
      /\ bridge' = [bridge EXCEPT !.listening = TRUE]
      /\ polls' = polls /\ lapsed' = lapsed /\ regressed' = regressed /\ owed' = owed
      /\ readers' = [readers EXCEPT !["catchup"] = IF Latest = {} THEN @ ELSE Wanted(Latest)]
  BY DEF ListensAgain
<1>3. /\ bridge' \in BridgeRow /\ bridge'.inbox = bridge.inbox /\ bridge'.dirty = bridge.dirty
      /\ bridge'.emitted = bridge.emitted /\ bridge'.latest = bridge.latest
  BY <1>1, <1>2 DEF LiveTypes, BridgeRow
<1>4. "catchup" \in Readers \ {"flush"} /\ "flush" \in Readers
  BY DEF Readers
<1>5. /\ readers' \in [Readers -> ReaderRow] /\ ReadersOfRows'
      /\ readers'["flush"] = readers["flush"]
  <2>1. CASE Latest = {}
    <3>1. readers' = readers
      BY <1>1, <1>2, <2>1 DEF LiveTypes
    <3> QED BY <1>1, <1>2, <3>1 DEF LiveTypes, ReadersOfRows, AskedFor
  <2>2. CASE Latest # {}
    <3> DEFINE row == Wanted(Latest)
    <3>1. /\ row \in ReaderRow /\ row.at = "asks" /\ \A p \in Cards : row.seen[p] <= rollup[p]
          /\ {p \in Cards : row.seen[p] > 0} # {}
      <4>1. Latest \subseteq Existing
        BY DEF Latest
      <4> QED BY <1>1, <2>2, <4>1, WantedRow
    <3>2. readers' = [readers EXCEPT !["catchup"] = row]
      BY <1>2, <2>2
    <3> HIDE DEF row
    <3> QED BY <1>1, <1>2, <1>4, <3>1, <3>2, ReaderSet
  <2> QED BY <2>1, <2>2
<1>6. LiveTypes'
  BY <1>1, <1>2, <1>3, <1>5 DEF LiveTypes
<1>7. BridgeOfRows'
  BY <1>1, <1>2, <1>3 DEF BridgeOfRows, Existing
<1>8. Followed'
  BY <1>1, <1>2, <1>3, <1>5, FollowedBeside
<1>9. PageOfRows' /\ PageFits'
  BY <1>1, <1>2, PageRowsKept, PageKept
<1> QED BY <1>5, <1>6, <1>7, <1>8, <1>9 DEF LiveInv, OfRows

LEMMA SummariesReadKeeps ==
  ASSUME LiveInv, NEW r \in Readers, SummariesRead(r), liveDesk' = liveDesk
  PROVE  LiveInv'
<1>1. LiveTypes /\ BridgeOfRows /\ ReadersOfRows /\ PageOfRows /\ Followed /\ PageFits
  BY DEF LiveInv, OfRows
<1> DEFINE row == [at |-> "holds",
                   seen |-> [p \in Cards |-> IF p \in AskedFor(r) THEN rollup[p] ELSE 0]]
<1>2. /\ rollup' = rollup /\ stream' = stream /\ paints' = paints /\ bridge' = bridge
      /\ polls' = polls /\ lapsed' = lapsed /\ regressed' = regressed /\ owed' = owed
      /\ readers' = [readers EXCEPT ![r] = row] /\ readers[r].at = "asks"
  BY DEF SummariesRead
<1>3. rollup \in [Cards -> Nat] /\ readers[r] \in ReaderRow
  BY <1>1 DEF LiveTypes, Versions
<1>4. AskedFor(r) # {} /\ \A p \in AskedFor(r) : p \in Cards /\ rollup[p] > 0
  <2>1. \A p \in Cards : readers[r].seen[p] \in Nat
    BY <1>3 DEF ReaderRow, Versions
  <2> QED BY <1>1, <1>2, <1>3, <2>1 DEF ReadersOfRows, AskedFor
<1>5. row.at = "holds" /\ \A p \in Cards : row.seen[p] = IF p \in AskedFor(r) THEN rollup[p] ELSE 0
  OBVIOUS
<1>6. row \in ReaderRow
  BY <1>3 DEF ReaderRow, Versions
<1> HIDE DEF row
<1>7. {p \in Cards : row.seen[p] > 0} = AskedFor(r)
  BY <1>4, <1>5 DEF AskedFor
<1>8. \A p \in Cards : row.seen[p] <= rollup[p]
  BY <1>3, <1>5
<1>9. /\ readers' \in [Readers -> ReaderRow] /\ ReadersOfRows' /\ readers'[r] = row
      /\ \A q \in Readers \ {r} : readers'[q] = readers[q]
  BY <1>1, <1>2, <1>4, <1>5, <1>6, <1>7, <1>8, ReaderSet
<1>10. LiveTypes'
  BY <1>1, <1>2, <1>9 DEF LiveTypes
<1>11. BridgeOfRows'
  BY <1>1, <1>2 DEF BridgeOfRows, Existing
<1>12. Followed'
  <2>1. CASE r # "flush"
    BY <1>1, <1>2, <1>9, <2>1, FollowedBeside DEF Readers
  <2>2. CASE r = "flush"
    <3>1. AskedFor("flush")' = AskedFor("flush")
      BY <1>7, <1>9, <2>2 DEF AskedFor
    <3>2. \A p \in AskedFor("flush") : readers'["flush"].seen[p] = rollup[p]
      BY <1>4, <1>5, <1>9, <2>2
    <3> QED BY <1>1, <1>2, <3>1, <3>2 DEF Followed, Pending
  <2> QED BY <2>1, <2>2
<1>13. PageOfRows' /\ PageFits'
  BY <1>1, <1>2, PageRowsKept, PageKept
<1> QED BY <1>9, <1>10, <1>11, <1>12, <1>13 DEF LiveInv, OfRows

LEMMA ReadingFailsKeeps ==
  ASSUME LiveInv, NEW r \in Readers, ReadingFails(r), liveDesk' = liveDesk
  PROVE  LiveInv'
<1>1. LiveTypes /\ BridgeOfRows /\ ReadersOfRows /\ PageOfRows /\ Followed /\ PageFits
  BY DEF LiveInv, OfRows
<1>2. /\ rollup' = rollup /\ stream' = stream /\ paints' = paints
      /\ polls' = polls /\ regressed' = regressed /\ owed' = owed
      /\ lapsed' = IF r = "flush" THEN lapsed \cup AskedFor(r) ELSE lapsed
      /\ readers' = [readers EXCEPT ![r] = AtRest]
      /\ bridge' = [bridge EXCEPT !.dirty = @]
  BY DEF ReadingFails, DirtyAfter
<1>3. bridge' = bridge
  BY <1>1, <1>2 DEF LiveTypes, BridgeRow
<1>4. /\ readers' \in [Readers -> ReaderRow] /\ ReadersOfRows' /\ readers'[r] = AtRest
      /\ \A q \in Readers \ {r} : readers'[q] = readers[q]
  BY <1>1, <1>2, AtRestRow, ReaderSet
<1>5. LiveTypes'
  BY <1>1, <1>2, <1>3, <1>4 DEF LiveTypes
<1>6. BridgeOfRows'
  BY <1>1, <1>2, <1>3 DEF BridgeOfRows, Existing
<1>7. Followed'
  <2>1. CASE r # "flush"
    BY <1>1, <1>2, <1>3, <1>4, <2>1, FollowedBeside DEF Readers
  <2>2. CASE r = "flush"
    <3>1. readers'["flush"].at # "holds" /\ lapsed' = lapsed \cup AskedFor("flush")
      BY <1>1, <1>2, <1>4, <2>2, AtRestRow
    <3> QED BY <1>1, <1>2, <1>3, <3>1 DEF Followed, Pending
  <2> QED BY <2>1, <2>2
<1>8. PageOfRows' /\ PageFits'
  BY <1>1, <1>2, PageRowsKept, PageKept
<1> QED BY <1>4, <1>5, <1>6, <1>7, <1>8 DEF LiveInv, OfRows

LEMMA EmitKeeps ==
  ASSUME LiveInv, NEW r \in Readers, Emit(r), liveDesk' = liveDesk
  PROVE  LiveInv'
<1>1. LiveTypes /\ BridgeOfRows /\ ReadersOfRows /\ PageOfRows /\ Followed /\ PageFits
  BY DEF LiveInv, OfRows
<1>2. PICK told \in SUBSET Cards, v \in Versions, q \in Existing \cup {0} :
        /\ told = AskedFor(r)
        /\ v = [p \in Cards |-> IF p \in told THEN readers[r].seen[p] ELSE bridge.emitted[p]]
        /\ q = IF r = "flush" THEN bridge.latest ELSE CHOOSE p \in told : TRUE
  <2>1. readers[r] \in ReaderRow /\ readers[r].seen \in Versions /\ bridge.emitted \in Versions
    BY <1>1 DEF LiveTypes, ReaderRow, BridgeRow
  <2>2. AskedFor(r) # {} /\ AskedFor(r) \subseteq Existing
    <3>1. rollup \in [Cards -> Nat] /\ \A p \in Cards : readers[r].seen[p] \in Nat
      BY <1>1, <2>1 DEF LiveTypes, Versions
    <3> QED BY <1>1, <3>1 DEF Emit, ReadersOfRows, AskedFor, Existing
  <2>3. [p \in Cards |-> IF p \in AskedFor(r) THEN readers[r].seen[p] ELSE bridge.emitted[p]]
          \in Versions
    BY <2>1 DEF Versions
  <2>4. (CHOOSE p \in AskedFor(r) : TRUE) \in Existing
    BY <2>2
  <2>5. bridge.latest \in Existing \cup {0} /\ AskedFor(r) \in SUBSET Cards
    BY <1>1 DEF BridgeOfRows, AskedFor
  <2> QED BY <2>3, <2>4, <2>5
<1>3. /\ rollup' = rollup /\ stream' = stream /\ paints' = paints /\ lapsed' = lapsed
      /\ polls' = polls /\ owed' = owed
      /\ regressed' = (regressed \ told)
                         \cup {p \in told : r # "flush" /\ readers[r].seen[p] < rollup[p]}
      /\ readers' = [readers EXCEPT ![r] = AtRest] /\ readers[r].at = "holds"
      /\ bridge' = [bridge EXCEPT !.emitted = v, !.latest = q, !.dirty = @]
  <2>1. [p \in Cards |-> IF p \in told THEN readers[r].seen[p] ELSE bridge.emitted[p]] = v
    BY <1>2
  <2> QED BY <1>2, <2>1 DEF Emit, DirtyAfter
<1>4. /\ bridge' \in BridgeRow /\ bridge'.inbox = bridge.inbox /\ bridge'.dirty = bridge.dirty
      /\ bridge'.emitted = v /\ bridge'.latest = q
  <2>0. \A p \in Cards : p \in Nat
    BY LiveAssumption
  <2>1. q \in Nat
    <3>1. q \in Cards \/ q = 0
      BY <1>2 DEF Existing
    <3> QED BY <2>0, <3>1
  <2> QED BY <1>1, <1>2, <1>3, <2>1 DEF LiveTypes, BridgeRow
<1>5. /\ readers' \in [Readers -> ReaderRow] /\ ReadersOfRows' /\ readers'[r] = AtRest
      /\ \A k \in Readers \ {r} : readers'[k] = readers[k]
  BY <1>1, <1>3, AtRestRow, ReaderSet
<1>6. LiveTypes'
  BY <1>1, <1>3, <1>4, <1>5 DEF LiveTypes
<1>7. BridgeOfRows'
  BY <1>1, <1>2, <1>3, <1>4 DEF BridgeOfRows, Existing
<1>8. Followed'
  <2> SUFFICES ASSUME liveDesk = "bridge", NEW p \in Cards, p \notin lapsed, ~Pending(p)
               PROVE  /\ readers'["flush"].at = "holds" /\ p \in AskedFor("flush")'
                           => readers'["flush"].seen[p] = rollup[p]
                      /\ p \notin regressed' /\ p \notin AskedFor("flush")'
                           => v[p] = rollup[p]
    BY <1>3, <1>4 DEF Followed, Pending
  <2>0. "flush" \in Readers
    BY DEF Readers
  <2>1. CASE r = "flush"
    <3>1. readers'["flush"].at # "holds"
      BY <1>1, <1>5, <2>1, AtRestRow
    <3>2. CASE p \in told
      BY <1>1, <1>2, <1>3, <2>1, <3>1, <3>2 DEF Followed
    <3>3. CASE p \notin told
      BY <1>1, <1>2, <1>3, <2>1, <3>1, <3>3 DEF Followed
    <3> QED BY <3>2, <3>3
  <2>2. CASE r # "flush"
    <3>1. readers'["flush"] = readers["flush"] /\ AskedFor("flush")' = AskedFor("flush")
      BY <1>5, <2>0, <2>2 DEF AskedFor
    <3>2. CASE p \in told
      <4>1. readers[r].seen[p] \in Nat /\ rollup[p] \in Nat /\ readers[r].seen[p] <= rollup[p]
        BY <1>1 DEF LiveTypes, ReaderRow, Versions, ReadersOfRows
      <4>2. p \notin regressed' => v[p] = rollup[p]
        BY <1>2, <1>3, <2>2, <3>2, <4>1
      <4> QED BY <1>1, <3>1, <4>2 DEF Followed
    <3>3. CASE p \notin told
      BY <1>1, <1>2, <1>3, <3>1, <3>3 DEF Followed
    <3> QED BY <3>2, <3>3
  <2> QED BY <2>1, <2>2
<1>9. PageOfRows' /\ PageFits'
  BY <1>1, <1>3, PageRowsKept, PageKept
<1> QED BY <1>5, <1>6, <1>7, <1>8, <1>9 DEF LiveInv, OfRows

(* The page.  The bridge is not followed here, so that nothing is left to  *)
(* show of it but its types.                                               *)
LEMMA PageOnly ==
  ASSUME LiveInv, liveDesk = "page", liveDesk' = liveDesk, rollup' = rollup, readers' = readers
  PROVE  Followed' /\ ReadersOfRows'
BY DEF LiveInv, OfRows, Followed, ReadersOfRows, AskedFor

LEMMA TellsKeeps ==
  ASSUME LiveInv, NEW p \in Cards, Tells(p), liveDesk = "page", liveDesk' = liveDesk
  PROVE  LiveInv'
<1>1. LiveTypes /\ BridgeOfRows /\ ReadersOfRows /\ PageOfRows /\ Followed /\ PageFits
  BY DEF LiveInv, OfRows
<1>2. PICK v \in 1 .. rollup[p], q \in {bridge.latest, p} :
        bridge' = [bridge EXCEPT !.emitted[p] = v, !.latest = q]
  BY DEF Tells
<1>3. PICK v1 \in 1 .. rollup[p] :
        stream' = IF stream.at \in {"off", "dead"} \/ Len(stream.queue) = QueueRoom THEN stream
                  ELSE [stream EXCEPT !.queue = Append(@, [id |-> p, v |-> v1])]
  BY DEF Tells
<1>4. /\ rollup' = rollup /\ readers' = readers /\ paints' = paints
      /\ polls' = polls /\ lapsed' = lapsed /\ regressed' = regressed /\ owed' = owed
  BY DEF Tells
<1>5. rollup \in [Cards -> Nat] /\ p \in Existing
  BY <1>1, <1>2 DEF LiveTypes, Versions, Existing
<1>6. /\ bridge' \in BridgeRow /\ bridge'.inbox = bridge.inbox /\ bridge'.dirty = bridge.dirty
      /\ bridge'.latest = q
  <2>1. \A k \in Cards : k \in Nat
    BY LiveAssumption
  <2>2. bridge \in BridgeRow /\ q \in Nat /\ v \in Nat
    BY <1>1, <1>2, <1>5, <2>1 DEF LiveTypes, BridgeRow
  <2>3. PICK e \in Versions : e = [bridge.emitted EXCEPT ![p] = v]
    BY <2>2 DEF BridgeRow, Versions
  <2>4. bridge' = [bridge EXCEPT !.emitted = e, !.latest = q]
    BY <1>2, <2>3
  <2> QED BY <2>2, <2>3, <2>4 DEF BridgeRow
<1>7. /\ stream' \in StreamRow /\ stream'.seen = stream.seen
      /\ \A e \in Range(stream'.queue) : e.id \in Existing
  <2>1. stream \in StreamRow /\ stream.queue \in Seq(Event)
    BY <1>1 DEF LiveTypes, StreamRow
  <2>2. CASE stream' = stream
    BY <1>1, <2>1, <2>2 DEF PageOfRows
  <2>3. CASE stream' = [stream EXCEPT !.queue = Append(@, [id |-> p, v |-> v1])]
    <3>0. rollup[p] \in Nat /\ v1 \in Nat
      BY <1>5
    <3>1. PICK e \in Event : e = [id |-> p, v |-> v1] /\ e.id = p
      BY <3>0, AnEvent
    <3>2. PICK s \in Seq(Event) : /\ s = Append(stream.queue, e)
                                  /\ Range(s) = Range(stream.queue) \cup {e}
      BY <2>1, AppendedRange
    <3>3. stream' = [stream EXCEPT !.queue = s]
      BY <2>3, <3>1, <3>2
    <3>4. stream' \in StreamRow /\ stream'.seen = stream.seen /\ stream'.queue = s
      BY <2>1, <3>3 DEF StreamRow
    <3> QED BY <1>1, <1>5, <3>1, <3>2, <3>4 DEF PageOfRows
  <2> QED BY <1>3, <2>2, <2>3
<1>8. LiveTypes'
  BY <1>1, <1>4, <1>6, <1>7 DEF LiveTypes
<1>9. BridgeOfRows' /\ PageOfRows'
  BY <1>1, <1>2, <1>4, <1>5, <1>6, <1>7 DEF BridgeOfRows, PageOfRows, Existing
<1>10. ReadersOfRows' /\ Followed' /\ PageFits'
  BY <1>1, <1>4, PageOnly, PageKept
<1> QED BY <1>8, <1>9, <1>10 DEF LiveInv, OfRows

(* The page's steps that read or close the stream.                         *)
LEMMA StreamSet ==
  ASSUME LiveInv, liveDesk' = liveDesk, rollup' = rollup, bridge' = bridge, readers' = readers,
         lapsed' = lapsed, regressed' = regressed, paints' = paints, polls' = polls, owed' = owed,
         stream' \in StreamRow, \A e \in Range(stream'.queue) : e.id \in Existing,
         \A p \in Cards : stream'.seen[p] <= rollup[p]
  PROVE  LiveInv'
<1>1. LiveTypes /\ BridgeOfRows /\ ReadersOfRows /\ PageOfRows /\ Followed /\ PageFits
  BY DEF LiveInv, OfRows
<1>2. LiveTypes'
  BY <1>1 DEF LiveTypes
<1>3. PageOfRows'
  BY <1>1 DEF PageOfRows, Existing
<1>4. BridgeOfRows' /\ ReadersOfRows' /\ Followed' /\ PageFits'
  BY <1>1, BridgeKept, PageKept
<1> QED BY <1>2, <1>3, <1>4 DEF LiveInv, OfRows

LEMMA SubscribeKeeps ==
  ASSUME LiveInv, Subscribe, liveDesk' = liveDesk
  PROVE  LiveInv'
<1>1. LiveTypes /\ BridgeOfRows /\ PageOfRows
  BY DEF LiveInv, OfRows
<1>2. /\ rollup' = rollup /\ bridge' = bridge /\ readers' = readers /\ lapsed' = lapsed
      /\ regressed' = regressed /\ paints' = paints /\ polls' = polls /\ owed' = owed
      /\ stream' = [at |-> "initial", seen |-> Unseen, queue |-> Replay]
  BY DEF Subscribe
<1>3. Replay \in Seq(Event) /\ \A e \in Range(Replay) : e.id \in Existing
  <2>1. bridge.latest \in Existing \cup {0} /\ bridge.emitted \in Versions
    BY <1>1 DEF BridgeOfRows, LiveTypes, BridgeRow
  <2>2. CASE Replay = <<>>
    BY <2>2, NoElements
  <2>3. CASE Replay # <<>>
    <3>1. bridge.latest \in Existing /\ bridge.latest \in Cards
      BY <2>1, <2>3 DEF Replay, Existing
    <3>5. PICK v \in Nat : v = bridge.emitted[bridge.latest]
      BY <2>1, <3>1 DEF Versions
    <3>2. PICK e \in Event : e = [id |-> bridge.latest, v |-> v] /\ e.id = bridge.latest
      BY <3>1, AnEvent
    <3>3. Replay = <<e>>
      BY <2>3, <3>2, <3>5 DEF Replay
    <3>4. <<e>> \in Seq(Event) /\ Range(<<e>>) = {e}
      BY DEF Range
    <3> QED BY <3>1, <3>2, <3>3, <3>4
  <2> QED BY <2>2, <2>3
<1>4. PICK s \in Seq(Event) : s = Replay
  BY <1>3
<1>5. stream' \in StreamRow /\ stream'.queue = s /\ stream'.seen = Unseen
  BY <1>2, <1>4, UnseenTyped DEF StreamRow
<1>6. \A p \in Cards : Unseen[p] <= rollup[p]
  BY <1>1, UnseenTyped DEF LiveTypes, Versions
<1> QED BY <1>2, <1>3, <1>4, <1>5, <1>6, StreamSet

LEMMA InitialReadKeeps ==
  ASSUME LiveInv, InitialRead, liveDesk' = liveDesk
  PROVE  LiveInv'
<1>1. LiveTypes /\ PageOfRows
  BY DEF LiveInv, OfRows
<1>2. /\ rollup' = rollup /\ bridge' = bridge /\ readers' = readers /\ lapsed' = lapsed
      /\ regressed' = regressed /\ paints' = paints /\ polls' = polls /\ owed' = owed
  BY DEF InitialRead
<1>3. stream \in StreamRow /\ rollup \in [Cards -> Nat]
  BY <1>1 DEF LiveTypes, Versions
<1>4. PICK s : s = [p \in Cards |-> IF p \in Latest THEN rollup[p] ELSE 0]
  OBVIOUS
<1>5. s \in Versions /\ \A p \in Cards : s[p] <= rollup[p]
  BY <1>3, <1>4 DEF Versions
<1>6. \/ stream' = [stream EXCEPT !.at = "open"]
      \/ stream' = [stream EXCEPT !.at = "holds", !.seen = s]
  BY <1>4 DEF InitialRead
<1>7. /\ stream' \in StreamRow /\ stream'.queue = stream.queue
      /\ stream'.seen = stream.seen \/ stream'.seen = s
  BY <1>3, <1>5, <1>6 DEF StreamRow
<1> QED BY <1>1, <1>2, <1>5, <1>7, StreamSet DEF PageOfRows

LEMMA StreamFailsKeeps ==
  ASSUME LiveInv, StreamFails, liveDesk' = liveDesk
  PROVE  LiveInv'
<1>1. LiveTypes /\ PageOfRows
  BY DEF LiveInv, OfRows
<1>2. /\ rollup' = rollup /\ bridge' = bridge /\ readers' = readers /\ lapsed' = lapsed
      /\ regressed' = regressed /\ paints' = paints /\ polls' = polls /\ owed' = owed
      /\ stream' = [at |-> "dead", seen |-> Unseen, queue |-> <<>>]
  BY DEF StreamFails
<1>3. stream' \in StreamRow /\ stream'.queue = <<>> /\ stream'.seen = Unseen
  BY <1>2, UnseenTyped DEF StreamRow
<1>4. \A p \in Cards : Unseen[p] <= rollup[p]
  BY <1>1, UnseenTyped DEF LiveTypes, Versions
<1> QED BY <1>2, <1>3, <1>4, NoElements, StreamSet

LEMMA PaintKeeps ==
  ASSUME LiveTypes, PageFits, owed \subseteq Existing, rollup' = rollup,
         NEW p \in Existing, NEW v \in Nat, Paint(p, v)
  PROVE  /\ paints' \in [PaintCaches -> Versions] /\ polls' \in [PaintCaches -> PollRow]
         /\ owed' \subseteq Existing /\ PageFits'
<1>1. /\ paints \in [PaintCaches -> Versions] /\ polls \in [PaintCaches -> PollRow]
      /\ p \in Cards /\ "list" \in PaintCaches
  BY DEF LiveTypes, Existing, PaintCaches
<1>2. PICK over \in [PaintCaches -> Versions] :
        /\ \A c \in PaintCaches : paints[c] = Unseen => over[c] = Unseen
        /\ paints' = over
  <2>1. \A c \in PaintCaches : /\ OverRow(paints[c], p, v) \in Versions
                               /\ paints[c] = Unseen => OverRow(paints[c], p, v) = Unseen
    BY <1>1, UnseenTyped DEF OverRow, Versions
  <2>2. paints' = [c \in PaintCaches |-> IF c = "list" \/ p = OpenCard
                                        THEN OverRow(paints[c], p, v) ELSE paints[c]]
    BY DEF Paint
  <2> QED BY <1>1, <2>1, <2>2
<1>3. \A poll \in PollRow : /\ AskAnew(poll) \in PollRow /\ AskAnew(poll).data = poll.data
                            /\ poll.at # "off" => AskAnew(poll).at # "off"
                            /\ poll.at # "off" /\ poll.data => AskAnew(poll).at = "asks"
                            /\ AskAnew(poll) = poll \/ AskAnew(poll).at = "asks"
  BY UnseenTyped DEF AskAnew, Requested, PollRow
<1>4. CASE polls' = polls /\ owed' = owed
  <2>1. PageFits'
    BY <1>1, <1>2, <1>4 DEF PageFits, ToldIsFetched, DetailRead, Unseen
  <2> QED BY <1>1, <1>2, <1>4, <2>1
<1>5. CASE /\ polls' = [c \in PaintCaches |-> AskAnew(polls[c])]
           /\ owed' = IF polls["list"].data THEN owed \cup {p} ELSE owed
  <2>1. /\ polls' \in [PaintCaches -> PollRow]
        /\ \A c \in PaintCaches : polls'[c] = AskAnew(polls[c])
    BY <1>1, <1>3, <1>5
  <2>2. \A c \in PaintCaches : polls'[c].data = polls[c].data
    BY <1>1, <1>3, <2>1
  <2>3. DetailRead'
    BY <1>1, <1>2, <2>2 DEF PageFits, DetailRead, Unseen
  <2>4. polls'["list"].at # "off"
    BY <1>1, <1>3, <2>1 DEF PageFits
  <2>5. ToldIsFetched'
    <3>1. CASE polls["list"].data
      BY <1>1, <1>3, <2>1, <3>1 DEF PageFits, ToldIsFetched
    <3>2. CASE ~polls["list"].data
      BY <1>1, <1>3, <1>5, <2>1, <3>2 DEF PageFits, ToldIsFetched
    <3> QED BY <3>1, <3>2
  <2> QED BY <1>2, <1>5, <2>1, <2>3, <2>4, <2>5 DEF PageFits
<1> QED BY <1>4, <1>5 DEF Paint

LEMMA HearInitialKeeps ==
  ASSUME LiveInv, HearInitial, liveDesk' = liveDesk
  PROVE  LiveInv'
<1>1. LiveTypes /\ BridgeOfRows /\ ReadersOfRows /\ PageOfRows /\ Followed /\ PageFits
  BY DEF LiveInv, OfRows
<1>2. /\ rollup' = rollup /\ bridge' = bridge /\ readers' = readers /\ lapsed' = lapsed
      /\ regressed' = regressed /\ stream' = [stream EXCEPT !.at = "open", !.seen = Unseen]
  BY DEF HearInitial
<1>3. /\ stream \in StreamRow /\ rollup \in [Cards -> Nat] /\ stream.seen \in [Cards -> Nat]
      /\ owed \subseteq Existing /\ \A p \in Cards : stream.seen[p] <= rollup[p]
  BY <1>1 DEF LiveTypes, Versions, StreamRow, PageOfRows
<1>4. stream' \in StreamRow /\ stream'.seen = Unseen /\ stream'.queue = stream.queue
  BY <1>2, <1>3, UnseenTyped DEF StreamRow
<1>5. /\ paints' \in [PaintCaches -> Versions] /\ polls' \in [PaintCaches -> PollRow]
      /\ owed' \subseteq Existing /\ PageFits'
  <2>1. CASE stream.seen = Unseen
    <3>1. paints' = paints /\ polls' = polls /\ owed' = owed
      BY <2>1 DEF HearInitial
    <3> QED BY <1>1, <1>3, <3>1, PageKept DEF LiveTypes
  <2>2. CASE stream.seen # Unseen
    <3>1. \E q \in Cards : stream.seen[q] > 0
      BY <1>3, <2>2 DEF Unseen
    <3>2. PICK p \in Cards : p = (CHOOSE q \in Cards : stream.seen[q] > 0) /\ stream.seen[p] > 0
      BY <3>1
    <3>3. p \in Existing /\ stream.seen[p] \in Nat
      <4>1. stream.seen[p] > 0
        BY <3>2
      <4>2. stream.seen[p] \in Nat /\ rollup[p] \in Nat /\ stream.seen[p] <= rollup[p]
        BY <1>3
      <4> QED BY <4>1, <4>2 DEF Existing
    <3>4. Paint(p, stream.seen[p])
      BY <2>2, <3>2 DEF HearInitial
    <3> QED BY <1>1, <1>2, <1>3, <3>3, <3>4, PaintKeeps
  <2> QED BY <2>1, <2>2
<1>6. LiveTypes'
  BY <1>1, <1>2, <1>4, <1>5 DEF LiveTypes, Existing
<1>7. PageOfRows'
  BY <1>1, <1>2, <1>3, <1>4, <1>5, UnseenTyped DEF PageOfRows, Existing
<1>8. BridgeOfRows' /\ ReadersOfRows' /\ Followed'
  BY <1>1, <1>2, BridgeKept
<1> QED BY <1>5, <1>6, <1>7, <1>8 DEF LiveInv, OfRows

LEMMA HearEventKeeps ==
  ASSUME LiveInv, HearEvent, liveDesk' = liveDesk
  PROVE  LiveInv'
<1>1. LiveTypes /\ BridgeOfRows /\ ReadersOfRows /\ PageOfRows /\ Followed /\ PageFits
  BY DEF LiveInv, OfRows
<1>2. /\ rollup' = rollup /\ bridge' = bridge /\ readers' = readers /\ lapsed' = lapsed
      /\ regressed' = regressed /\ stream' = [stream EXCEPT !.queue = Tail(@)]
      /\ stream.queue # <<>> /\ Paint(Head(stream.queue).id, Head(stream.queue).v)
  BY DEF HearEvent
<1>3. /\ stream \in StreamRow /\ stream.queue \in Seq(Event) /\ owed \subseteq Existing
  BY <1>1 DEF LiveTypes, StreamRow, PageOfRows
<1>4. PICK s \in Seq(Event), e \in Event :
        /\ s = Tail(stream.queue) /\ e = Head(stream.queue)
        /\ Range(stream.queue) = Range(s) \cup {e}
  BY <1>2, <1>3, TailRange
<1>5. stream' \in StreamRow /\ stream'.seen = stream.seen /\ stream'.queue = s
  <2>1. stream' = [stream EXCEPT !.queue = s]
    BY <1>2, <1>4
  <2> QED BY <1>3, <2>1 DEF StreamRow
<1>6. e.id \in Existing /\ e.v \in Nat /\ Paint(e.id, e.v)
  BY <1>1, <1>2, <1>4 DEF PageOfRows, Event
<1>7. /\ paints' \in [PaintCaches -> Versions] /\ polls' \in [PaintCaches -> PollRow]
      /\ owed' \subseteq Existing /\ PageFits'
  BY <1>1, <1>2, <1>3, <1>6, PaintKeeps
<1>8. LiveTypes'
  BY <1>1, <1>2, <1>5, <1>7 DEF LiveTypes, Existing
<1>9. PageOfRows'
  BY <1>1, <1>2, <1>4, <1>5, <1>7 DEF PageOfRows, Existing
<1>10. BridgeOfRows' /\ ReadersOfRows' /\ Followed'
  BY <1>1, <1>2, BridgeKept
<1> QED BY <1>7, <1>8, <1>9, <1>10 DEF LiveInv, OfRows

(* What fills the caches.                                                  *)
LEMMA PageSet ==
  ASSUME LiveInv, liveDesk' = liveDesk, rollup' = rollup, bridge' = bridge, readers' = readers,
         lapsed' = lapsed, regressed' = regressed, stream' = stream, owed' \subseteq owed,
         paints' \in [PaintCaches -> Versions], polls' \in [PaintCaches -> PollRow], PageFits'
  PROVE  LiveInv'
<1>1. LiveTypes /\ BridgeOfRows /\ ReadersOfRows /\ PageOfRows /\ Followed
  BY DEF LiveInv, OfRows
<1>2. LiveTypes'
  BY <1>1 DEF LiveTypes
<1>3. PageOfRows'
  BY <1>1 DEF PageOfRows, Existing
<1>4. BridgeOfRows' /\ ReadersOfRows' /\ Followed'
  BY <1>1, BridgeKept
<1> QED BY <1>2, <1>3, <1>4 DEF LiveInv, OfRows

LEMMA PollSet ==
  ASSUME LiveInv, NEW c \in PaintCaches, NEW row \in PollRow, polls' = [polls EXCEPT ![c] = row],
         row.data = polls[c].data, c = "list" => row.at = "asks",
         liveDesk' = liveDesk, rollup' = rollup, bridge' = bridge, readers' = readers,
         lapsed' = lapsed, regressed' = regressed, stream' = stream, owed' = owed, paints' = paints
  PROVE  LiveInv'
<1>1. LiveTypes /\ PageFits
  BY DEF LiveInv
<1>2. /\ polls \in [PaintCaches -> PollRow] /\ paints \in [PaintCaches -> Versions]
      /\ owed \subseteq Cards
  BY <1>1 DEF LiveTypes
<1>3. /\ polls' \in [PaintCaches -> PollRow] /\ polls'[c] = row
      /\ \A d \in PaintCaches \ {c} : polls'[d] = polls[d]
  BY <1>2
<1>4. "list" \in PaintCaches
  BY DEF PaintCaches
<1>5. PageFits'
  <2>1. DetailRead'
    BY <1>1, <1>3 DEF PageFits, DetailRead, Unseen
  <2>2. polls'["list"].at # "off" /\ ToldIsFetched'
    BY <1>1, <1>3, <1>4 DEF PageFits, ToldIsFetched
  <2> QED BY <2>1, <2>2 DEF PageFits
<1> QED BY <1>2, <1>3, <1>5, PageSet

LEMMA RequestedRow ==
  ASSUME NEW data \in BOOLEAN
  PROVE  Requested(data) \in PollRow /\ Requested(data).at = "asks" /\ Requested(data).data = data
BY UnseenTyped DEF Requested, PollRow

LEMMA PollsKeeps ==
  ASSUME LiveInv, NEW c \in PaintCaches, Polls(c), liveDesk' = liveDesk
  PROVE  LiveInv'
<1>1. polls[c].data \in BOOLEAN
  BY DEF LiveInv, LiveTypes, PollRow
<1>2. PICK row \in PollRow : /\ row = Requested(polls[c].data) /\ row.at = "asks"
                             /\ row.data = polls[c].data
  BY <1>1, RequestedRow
<1>3. /\ polls' = [polls EXCEPT ![c] = row]
      /\ rollup' = rollup /\ bridge' = bridge /\ readers' = readers /\ lapsed' = lapsed
      /\ regressed' = regressed /\ stream' = stream /\ owed' = owed /\ paints' = paints
  BY <1>2 DEF Polls
<1> QED BY <1>2, <1>3, PollSet

LEMMA OpensCardKeeps ==
  ASSUME LiveInv, OpensCard, liveDesk' = liveDesk
  PROVE  LiveInv'
<1>1. "detail" \in PaintCaches /\ polls["detail"].data \in BOOLEAN
  BY DEF LiveInv, LiveTypes, PollRow, PaintCaches
<1>2. PICK row \in PollRow : /\ row = Requested(polls["detail"].data) /\ row.at = "asks"
                             /\ row.data = polls["detail"].data
  BY <1>1, RequestedRow
<1>3. /\ polls' = [polls EXCEPT !["detail"] = row]
      /\ rollup' = rollup /\ bridge' = bridge /\ readers' = readers /\ lapsed' = lapsed
      /\ regressed' = regressed /\ stream' = stream /\ owed' = owed /\ paints' = paints
  BY <1>2 DEF OpensCard
<1> QED BY <1>1, <1>2, <1>3, PollSet

LEMMA ClosesCardKeeps ==
  ASSUME LiveInv, ClosesCard, liveDesk' = liveDesk
  PROVE  LiveInv'
<1>1. "detail" \in PaintCaches /\ polls \in [PaintCaches -> PollRow]
  BY DEF LiveInv, LiveTypes, PaintCaches
<1>2. PICK row \in PollRow : /\ row = [polls["detail"] EXCEPT !.at = "off"]
                             /\ row.data = polls["detail"].data
  <2> DEFINE w == [polls["detail"] EXCEPT !.at = "off"]
  <2>1. w \in PollRow /\ w.data = polls["detail"].data
    BY <1>1 DEF PollRow
  <2> HIDE DEF w
  <2>2. \E row \in PollRow : row = w /\ row.data = polls["detail"].data
    BY <2>1
  <2> QED BY <2>2 DEF w
<1>3. /\ polls' = [polls EXCEPT !["detail"] = row]
      /\ rollup' = rollup /\ bridge' = bridge /\ readers' = readers /\ lapsed' = lapsed
      /\ regressed' = regressed /\ stream' = stream /\ owed' = owed /\ paints' = paints
  BY <1>1, <1>2 DEF ClosesCard
<1> QED BY <1>1, <1>2, <1>3, PollSet

LEMMA PollServedKeeps ==
  ASSUME LiveInv, NEW c \in PaintCaches, PollServed(c), liveDesk' = liveDesk
  PROVE  LiveInv'
<1>1. LiveTypes /\ PageOfRows /\ PageFits
  BY DEF LiveInv, OfRows
<1>2. PICK s : s = [p \in Cards |-> IF c = "list" \/ p = OpenCard THEN rollup[p] ELSE 0]
  OBVIOUS
<1>3. /\ polls' = [polls EXCEPT ![c].at = "holds", ![c].seen = s]
      /\ rollup' = rollup /\ bridge' = bridge /\ readers' = readers /\ lapsed' = lapsed
      /\ regressed' = regressed /\ stream' = stream /\ owed' = owed /\ paints' = paints
  BY <1>2 DEF PollServed
<1>4. polls \in [PaintCaches -> PollRow] /\ rollup \in [Cards -> Nat] /\ "list" \in PaintCaches
  BY <1>1 DEF LiveTypes, Versions, PaintCaches
<1>5. s \in Versions /\ (c = "list" => \A p \in Cards : s[p] = rollup[p])
  BY <1>2, <1>4 DEF Versions
<1>6. /\ polls' \in [PaintCaches -> PollRow]
      /\ polls'[c].at = "holds" /\ polls'[c].seen = s /\ polls'[c].data = polls[c].data
      /\ \A d \in PaintCaches \ {c} : polls'[d] = polls[d]
  BY <1>3, <1>4, <1>5 DEF PollRow
<1>7. DetailRead'
  BY <1>1, <1>3, <1>6 DEF PageFits, DetailRead, Unseen
<1>8. polls'["list"].at # "off" /\ ToldIsFetched'
  <2>1. CASE c = "list"
    <3>1. \A p \in owed : p \in Cards /\ rollup[p] > 0
      BY <1>1 DEF PageOfRows, Existing
    <3> QED BY <1>3, <1>5, <1>6, <2>1, <3>1 DEF ToldIsFetched
  <2>2. CASE c # "list"
    BY <1>1, <1>3, <1>4, <1>6, <2>2 DEF PageFits, ToldIsFetched
  <2> QED BY <2>1, <2>2
<1>9. PageFits'
  BY <1>7, <1>8 DEF PageFits
<1>10. paints' \in [PaintCaches -> Versions]
  BY <1>1, <1>3 DEF LiveTypes
<1> QED BY <1>3, <1>6, <1>9, <1>10, PageSet

LEMMA PollLandsKeeps ==
  ASSUME LiveInv, NEW c \in PaintCaches, PollLands(c), liveDesk' = liveDesk
  PROVE  LiveInv'
<1>1. LiveTypes /\ PageFits
  BY DEF LiveInv
<1>2. PICK row \in PollRow : /\ row = [at |-> "idle", seen |-> Unseen, data |-> TRUE]
                             /\ row.at = "idle" /\ row.data = TRUE
  <2> DEFINE w == [at |-> "idle", seen |-> Unseen, data |-> TRUE]
  <2>1. w \in PollRow /\ w.at = "idle" /\ w.data = TRUE
    BY UnseenTyped DEF PollRow
  <2> HIDE DEF w
  <2>2. \E row \in PollRow : row = w /\ row.at = "idle" /\ row.data = TRUE
    BY <2>1
  <2> QED BY <2>2 DEF w
<1>3. /\ polls' = [polls EXCEPT ![c] = row] /\ paints' = [paints EXCEPT ![c] = polls[c].seen]
      /\ owed' = IF c = "list" THEN {p \in owed : polls[c].seen[p] = 0} ELSE owed
      /\ polls[c].at = "holds"
      /\ rollup' = rollup /\ bridge' = bridge /\ readers' = readers /\ lapsed' = lapsed
      /\ regressed' = regressed /\ stream' = stream
  BY <1>2 DEF PollLands
<1>4. /\ polls \in [PaintCaches -> PollRow] /\ paints \in [PaintCaches -> Versions]
      /\ polls[c].seen \in Versions /\ "list" \in PaintCaches
  BY <1>1 DEF LiveTypes, PollRow, PaintCaches
<1>5. /\ polls' \in [PaintCaches -> PollRow] /\ paints' \in [PaintCaches -> Versions]
      /\ polls'[c] = row
      /\ \A d \in PaintCaches \ {c} : polls'[d] = polls[d] /\ paints'[d] = paints[d]
  BY <1>3, <1>4
<1>6. DetailRead'
  BY <1>1, <1>2, <1>5 DEF PageFits, DetailRead, Unseen
<1>7. polls'["list"].at # "off" /\ ToldIsFetched'
  <2>1. CASE c = "list"
    <3>1. owed' = {}
      BY <1>1, <1>3, <2>1 DEF PageFits, ToldIsFetched
    <3> QED BY <1>2, <1>5, <2>1, <3>1 DEF ToldIsFetched
  <2>2. CASE c # "list"
    BY <1>1, <1>3, <1>4, <1>5, <2>2 DEF PageFits, ToldIsFetched
  <2> QED BY <2>1, <2>2
<1>8. PageFits'
  BY <1>6, <1>7 DEF PageFits
<1>9. owed' \subseteq owed
  BY <1>3
<1> QED BY <1>3, <1>5, <1>8, <1>9, PageSet

LEMMA PollFailsKeeps ==
  ASSUME LiveInv, NEW c \in PaintCaches, PollFails(c), liveDesk' = liveDesk
  PROVE  LiveInv'
<1>1. LiveTypes /\ PageFits
  BY DEF LiveInv
<1>2. /\ polls' = [polls EXCEPT ![c].at = "idle"] /\ owed' = IF c = "list" THEN {} ELSE owed
      /\ rollup' = rollup /\ bridge' = bridge /\ readers' = readers /\ lapsed' = lapsed
      /\ regressed' = regressed /\ stream' = stream /\ paints' = paints
  BY DEF PollFails
<1>3. /\ polls \in [PaintCaches -> PollRow] /\ paints \in [PaintCaches -> Versions]
      /\ "list" \in PaintCaches
  BY <1>1 DEF LiveTypes, PaintCaches
<1>4. /\ polls' \in [PaintCaches -> PollRow]
      /\ polls'[c].at = "idle" /\ polls'[c].data = polls[c].data
      /\ \A d \in PaintCaches \ {c} : polls'[d] = polls[d]
  BY <1>2, <1>3 DEF PollRow
<1>5. DetailRead'
  BY <1>1, <1>2, <1>4 DEF PageFits, DetailRead, Unseen
<1>6. polls'["list"].at # "off" /\ ToldIsFetched'
  <2>1. CASE c = "list"
    BY <1>2, <1>4, <2>1 DEF ToldIsFetched
  <2>2. CASE c # "list"
    BY <1>1, <1>2, <1>3, <1>4, <2>2 DEF PageFits, ToldIsFetched
  <2> QED BY <2>1, <2>2
<1>7. PageFits' /\ owed' \subseteq owed
  BY <1>2, <1>5, <1>6 DEF PageFits
<1> QED BY <1>2, <1>3, <1>4, <1>7, PageSet

LEMMA NextLiveInv == LiveInv /\ [LiveNext]_liveVars => LiveInv'
<1> SUFFICES ASSUME LiveInv, [LiveNext]_liveVars PROVE LiveInv'
  OBVIOUS
<1>1. CASE UNCHANGED liveVars
  <2>1. LiveTypes /\ BridgeOfRows /\ ReadersOfRows /\ PageOfRows /\ Followed /\ PageFits
    BY DEF LiveInv, OfRows
  <2>2. LiveTypes'
    BY <1>1, <2>1 DEF LiveTypes, liveVars
  <2>3. BridgeOfRows' /\ ReadersOfRows' /\ Followed' /\ PageOfRows' /\ PageFits'
    BY <1>1, <2>1, BridgeKept, PageRowsKept, PageKept DEF liveVars
  <2> QED BY <2>2, <2>3 DEF LiveInv, OfRows
<1>2. CASE LiveNext
  <2>1. liveDesk' = liveDesk /\ DOMAIN readers = Readers
    BY <1>2 DEF LiveNext, LiveInv, LiveTypes
  <2>2. CASE \E p \in Cards : RowChanges(p)
    BY <2>1, <2>2, RowChangesKeeps
  <2>3. CASE /\ liveDesk = "bridge"
             /\ \/ Consume \/ Flush \/ RefreshLatest("backstop") \/ ListenerLost \/ ListensAgain
                \/ \E r \in DOMAIN readers : SummariesRead(r) \/ ReadingFails(r) \/ Emit(r)
    <3>1. "backstop" \in Readers \ {"flush"}
      BY DEF Readers
    <3> QED BY <2>1, <2>3, <3>1, ConsumeKeeps, FlushKeeps, RefreshLatestKeeps, ListenerLostKeeps,
               ListensAgainKeeps, SummariesReadKeeps, ReadingFailsKeeps, EmitKeeps
  <2>4. CASE /\ liveDesk = "page"
             /\ \/ \E p \in Cards : Tells(p)
                \/ Subscribe \/ InitialRead \/ HearInitial \/ HearEvent \/ StreamFails
    BY <2>1, <2>4, TellsKeeps, SubscribeKeeps, InitialReadKeeps, HearInitialKeeps,
       HearEventKeeps, StreamFailsKeeps
  <2>5. CASE \/ OpensCard \/ ClosesCard
             \/ \E c \in PaintCaches : Polls(c) \/ PollServed(c) \/ PollLands(c) \/ PollFails(c)
    BY <2>1, <2>5, OpensCardKeeps, ClosesCardKeeps, PollsKeeps, PollServedKeeps, PollLandsKeeps,
       PollFailsKeeps
  <2> QED BY <1>2, <2>2, <2>3, <2>4, <2>5 DEF LiveNext
<1> QED BY <1>1, <1>2

LEMMA LiveInvTells == LiveInv => LiveTold
<1> SUFFICES ASSUME LiveInv PROVE LiveTold
  OBVIOUS
<1>1. LiveTypes /\ ReadersOfRows /\ Followed /\ ToldIsFetched /\ DetailRead
  BY DEF LiveInv, OfRows, PageFits
<1>2. BridgeExact
  <2> SUFFICES ASSUME liveDesk = "bridge", bridge.inbox = <<>>, bridge.dirty = {},
                      readers["flush"].at = "idle", NEW p \in Cards \ (lapsed \cup regressed)
               PROVE  bridge.emitted[p] = rollup[p]
    BY DEF BridgeExact
  <2>1. AskedFor("flush") = {}
    BY <1>1 DEF ReadersOfRows, Readers
  <2>2. ~Pending(p)
    BY NoElements DEF Pending
  <2> QED BY <1>1, <2>1, <2>2 DEF Followed
<1> QED BY <1>1, <1>2 DEF LiveTold

(* What the bridge told last of a process is what its row holds, once it   *)
(* has nothing left to do and nothing was lost; the console asks for every *)
(* process it was told of; events never make a card of their own.          *)
THEOREM LiveCardsTold == LiveSpec => []LiveTold
<1>1. LiveInit => LiveInv
  BY InitLiveInv
<1>2. LiveInv /\ [LiveNext]_liveVars => LiveInv'
  BY NextLiveInv
<1>3. LiveInv => LiveTold
  BY LiveInvTells
<1> QED BY <1>1, <1>2, <1>3, PTL DEF LiveSpec

-----------------------------------------------------------------------------
(* The production cutover                                                  *)

CutoverSpec == CutoverInit /\ [][CutoverNext]_cutoverVars

Past  == {"landed", "promoted", "dispatched"}
RunSteps == {"none", "download", "land", "promote", "dispatch", "drain", "ok", "error"}

First(r)  == 2 * r - 1
Second(r) == 2 * r

(* Where a run is, the files it has still to land, and how far its files   *)
(* have come.                                                              *)
NotBegun(r)  == runs[r].at = "none" /\ runs[r].todo = <<>>
Downloads(r) == runs[r].at \in {"download", "error"} /\ runs[r].todo = <<First(r), Second(r)>>
LandsBoth(r) == runs[r].at \in {"land", "error"} /\ runs[r].todo = <<First(r), Second(r)>>
LandsOne(r)  == runs[r].at \in {"land", "error"} /\ runs[r].todo = <<Second(r)>>
Landed(r)    ==
  runs[r].at \in {"promote", "dispatch", "drain", "ok", "error"} /\ runs[r].todo = <<>>

(* What is behind a step that ended well.                                  *)
Behind(leg) ==
  IF leg = "dispatch" THEN {"promoted", "dispatched"}
  ELSE IF leg \in {"drain", "ok"} THEN {"dispatched"} ELSE Past

RunFits(r) ==
  \/ (NotBegun(r) \/ Downloads(r)) /\ files[First(r)] = "none" /\ files[Second(r)] = "none"
  \/ LandsBoth(r) /\ files[First(r)] = "queued" /\ files[Second(r)] = "queued"
  \/ LandsOne(r) /\ files[First(r)] \in Past /\ files[Second(r)] = "queued"
  \/ Landed(r) /\ files[First(r)] \in Behind(runs[r].at) /\ files[Second(r)] \in Behind(runs[r].at)

RunRow == [at : RunSteps, todo : Seq(Nat)]

(* The runs begun are numbered from one.                                   *)
Numbered == \E n \in 0..MaxRuns : Begun = 1..n

CutoverInv ==
  /\ runs \in [1..MaxRuns -> RunRow] /\ files \in [AllFiles -> Past \cup {"none", "queued"}]
  /\ \A r \in 1..MaxRuns : RunFits(r)
  /\ files[Leftover] = "queued"
  /\ Numbered
  /\ lastRun = [process |-> lastRun.process, run |-> lastRun.run]
  /\ lastRun.run \in 0..MaxRuns /\ PairOfOne

LEMMA RunFiles ==
  ASSUME NEW r \in 1..MaxRuns
  PROVE  /\ r \in Nat /\ First(r) \in AllFiles /\ Second(r) \in AllFiles
         /\ FilesOf(r) = {First(r), Second(r)} /\ First(r) # Second(r)
         /\ First(r) \in Nat /\ Second(r) \in Nat
         /\ Leftover \notin FilesOf(r)
         /\ \A q \in 1..MaxRuns : q # r => First(r) \notin FilesOf(q) /\ Second(r) \notin FilesOf(q)
<1>1. MaxRuns \in Nat
  BY CutoverAssumption
<1>2. r \in Nat /\ r >= 1
  BY <1>1
<1>3. First(r) \in FilesOf(r) /\ Second(r) \in FilesOf(r) /\ FilesOf(r) = {First(r), Second(r)}
  BY DEF First, Second, FilesOf
<1>4. First(r) \in AllFiles /\ Second(r) \in AllFiles
  BY <1>3 DEF AllFiles
<1>5. First(r) \in Nat /\ Second(r) \in Nat /\ First(r) # Second(r) /\ Leftover \notin FilesOf(r)
  BY <1>2 DEF First, Second, FilesOf, Leftover
<1>6. ASSUME NEW q \in 1..MaxRuns, q # r
      PROVE  First(r) \notin FilesOf(q) /\ Second(r) \notin FilesOf(q)
  BY <1>1, <1>2, <1>6 DEF First, Second, FilesOf
<1> QED BY <1>2, <1>3, <1>4, <1>5, <1>6

(* A file that is there stays, or comes one step further.                  *)
Further(f) ==
  \/ files'[f] = files[f]
  \/ (files[f] = "landed" /\ files'[f] = "promoted")
  \/ (files[f] = "promoted" /\ files'[f] = "dispatched")

LEMMA FitsOn ==
  ASSUME NEW r \in 1..MaxRuns, RunFits(r), runs'[r] = runs[r], Further(First(r)), Further(Second(r))
  PROVE  RunFits(r)'
BY DEF RunFits, NotBegun, Downloads, LandsBoth, LandsOne, Landed, Behind, Past, Further,
       First, Second

(* A step of a run, or of somebody else, that leaves the page alone or     *)
(* not.                                                                    *)
LEMMA CutoverKeeps ==
  ASSUME CutoverInv,
         runs' \in [1..MaxRuns -> RunRow], files' \in [AllFiles -> Past \cup {"none", "queued"}],
         \A q \in 1..MaxRuns : RunFits(q)', files'[Leftover] = "queued", Numbered',
         lastRun' = [process |-> lastRun'.process, run |-> lastRun'.run],
         lastRun'.run \in 0..MaxRuns, PairOfOne'
  PROVE  CutoverInv'
BY DEF CutoverInv

(* One run moves on.                                                       *)
LEMMA RunMoves ==
  ASSUME CutoverInv, NEW r \in 1..MaxRuns, NEW leg \in RunSteps, NEW todo \in Seq(Nat),
         runs[r].at \notin Ended \cup {"none"}, leg # "none",
         runs' = [runs EXCEPT ![r] = [at |-> leg, todo |-> todo]],
         files' \in [AllFiles -> Past \cup {"none", "queued"}],
         files'[Leftover] = "queued",
         \A q \in 1..MaxRuns : q # r => Further(First(q)) /\ Further(Second(q)),
         RunFits(r)',
         \/ lastRun' = lastRun
         \/ /\ leg \in Ended
            /\ \E process \in {0, r} : lastRun' = [process |-> process, run |-> r]
  PROVE  CutoverInv'
<1>1. /\ runs \in [1..MaxRuns -> RunRow] /\ \A q \in 1..MaxRuns : RunFits(q)
      /\ Numbered /\ PairOfOne /\ lastRun.run \in 0..MaxRuns
      /\ lastRun = [process |-> lastRun.process, run |-> lastRun.run]
  BY DEF CutoverInv
<1>2. PICK row \in RunRow : row = [at |-> leg, todo |-> todo]
  BY DEF RunRow
<1>3. row.at = leg /\ row.todo = todo /\ runs' = [runs EXCEPT ![r] = row]
  BY <1>2
<1>4. /\ runs' \in [1..MaxRuns -> RunRow] /\ runs'[r] = row
      /\ \A q \in 1..MaxRuns \ {r} : runs'[q] = runs[q]
  BY <1>1, <1>3
<1>5. \A q \in 1..MaxRuns : RunFits(q)'
  BY <1>1, <1>4, FitsOn
<1>6. Numbered'
  <2>1. \A q \in 1..MaxRuns : runs'[q].at # "none" <=> runs[q].at # "none"
    BY <1>3, <1>4
  <2>2. DOMAIN runs = 1..MaxRuns /\ DOMAIN runs' = 1..MaxRuns
    BY <1>1, <1>4
  <2>3. Begun' = Begun
    BY <2>1, <2>2 DEF Begun
  <2> QED BY <1>1, <2>3 DEF Numbered
<1>7. /\ lastRun' = [process |-> lastRun'.process, run |-> lastRun'.run]
      /\ lastRun'.run \in 0..MaxRuns /\ PairOfOne'
  <2>0. MaxRuns \in Nat
    BY CutoverAssumption
  <2>1. r \in Nat /\ r # 0 /\ r \in 0..MaxRuns
    BY <2>0
  <2>2. CASE lastRun' = lastRun
    <3>1. lastRun.run # 0 => lastRun.run \in 1..MaxRuns /\ lastRun.run # r
      BY <1>1, <2>1 DEF PairOfOne
    <3> QED BY <1>1, <1>4, <2>2, <3>1 DEF PairOfOne
  <2>3. CASE /\ leg \in Ended
             /\ \E process \in {0, r} : lastRun' = [process |-> process, run |-> r]
    <3>1. PICK process \in {0, r} : lastRun' = [process |-> process, run |-> r]
      BY <2>3
    <3>2. lastRun'.process = process /\ lastRun'.run = r
      BY <3>1
    <3> QED BY <1>3, <1>4, <2>1, <2>3, <3>1, <3>2 DEF PairOfOne
  <2> QED BY <2>2, <2>3
<1> QED BY <1>4, <1>5, <1>6, <1>7, CutoverKeeps

LEMMA GoesRow ==
  ASSUME NEW r \in 1..MaxRuns, runs \in [1..MaxRuns -> RunRow], NEW step, Goes(r, step)
  PROVE  /\ runs' = [runs EXCEPT ![r] = [at |-> step, todo |-> runs[r].todo]]
         /\ runs[r].todo \in Seq(Nat)
<1>1. PICK row \in RunRow : row = runs[r]
  OBVIOUS
<1>2. [row EXCEPT !.at = step] = [at |-> step, todo |-> row.todo] /\ row.todo \in Seq(Nat)
  BY DEF RunRow
<1>3. runs' = [runs EXCEPT ![r] = [row EXCEPT !.at = step]]
  BY <1>1 DEF Goes
<1> QED BY <1>1, <1>2, <1>3

LEMMA CutoverParts ==
  ASSUME CutoverInv, NEW r \in 1..MaxRuns
  PROVE  /\ runs \in [1..MaxRuns -> RunRow] /\ files \in [AllFiles -> Past \cup {"none", "queued"}]
         /\ RunFits(r) /\ files[Leftover] = "queued" /\ Leftover \in AllFiles
         /\ lastRun = [process |-> lastRun.process, run |-> lastRun.run]
         /\ \A q \in 1..MaxRuns : RunFits(q)
BY DEF CutoverInv, AllFiles

LEMMA StepFailsKeeps ==
  ASSUME CutoverInv, NEW r \in 1..MaxRuns, StepFails(r)
  PROVE  CutoverInv'
<1>1. /\ runs[r].at \notin Ended \cup {"none"} /\ Goes(r, "error") /\ files' = files
      /\ \E process \in {0, r} : Remembers(r, "end", process)
  BY DEF StepFails
<1>2. \E process \in {0, r} : lastRun' = [process |-> process, run |-> r]
  BY <1>1 DEF Remembers, ProcessKnown
<1>3. PICK todo \in Seq(Nat) :
        todo = runs[r].todo /\ runs' = [runs EXCEPT ![r] = [at |-> "error", todo |-> todo]]
  BY <1>1, GoesRow, CutoverParts
<1>4. RunFits(r)'
  <2>1. runs'[r].at = "error" /\ runs'[r].todo = runs[r].todo
    BY <1>3, CutoverParts
  <2> QED BY <1>1, <2>1, CutoverParts
         DEF RunFits, NotBegun, Downloads, LandsBoth, LandsOne, Landed, Behind,
             Past, Ended, First, Second
<1>5. "error" \in RunSteps \cap Ended /\ \A f : Further(f)
  BY <1>1 DEF RunSteps, Ended, Further
<1> QED BY <1>1, <1>2, <1>3, <1>4, <1>5, CutoverParts, RunMoves

LEMMA DownloadKeeps ==
  ASSUME CutoverInv, NEW r \in 1..MaxRuns, Download(r)
  PROVE  CutoverInv'
<1>1. /\ runs[r].at = "download" /\ Goes(r, "land")
      /\ files' = [f \in AllFiles |-> IF f \in FilesOf(r) THEN "queued" ELSE files[f]]
  BY DEF Download, At3
<1>2. lastRun' = lastRun
  BY CutoverParts DEF Download, Remembers, ProcessKnown
<1>3. PICK todo \in Seq(Nat) :
        todo = runs[r].todo /\ runs' = [runs EXCEPT ![r] = [at |-> "land", todo |-> todo]]
  BY <1>1, GoesRow, CutoverParts
<1>4. runs'[r].at = "land" /\ runs'[r].todo = runs[r].todo
  BY <1>3, CutoverParts
<1>5. /\ files' \in [AllFiles -> Past \cup {"none", "queued"}] /\ files'[Leftover] = "queued"
      /\ files'[First(r)] = "queued" /\ files'[Second(r)] = "queued"
  BY <1>1, CutoverParts, RunFiles
<1>6. \A q \in 1..MaxRuns : q # r => Further(First(q)) /\ Further(Second(q))
  BY <1>1, RunFiles DEF Further
<1>7. RunFits(r)'
  BY <1>1, <1>4, <1>5, CutoverParts
     DEF RunFits, NotBegun, Downloads, LandsBoth, LandsOne, Landed, First, Second
<1>8. "land" \in RunSteps /\ runs[r].at \notin Ended \cup {"none"}
  BY <1>1 DEF RunSteps, Ended
<1> QED BY <1>2, <1>3, <1>5, <1>6, <1>7, <1>8, RunMoves

(* The run lands the first of those it has to.                             *)
LEMMA LandKeeps ==
  ASSUME CutoverInv, NEW r \in 1..MaxRuns, Land(r)
  PROVE  CutoverInv'
<1>1. /\ runs[r].at = "land" /\ BoundFile(r) # {} /\ lastRun' = lastRun
      /\ files' = [f \in AllFiles |-> IF f \in BoundFile(r) THEN "landed" ELSE files[f]]
      /\ runs' = [runs EXCEPT ![r].todo = Tail(@),
                               ![r].at = IF Len(runs[r].todo) = 1 THEN "promote" ELSE @]
  BY DEF Land, At3
<1>2. \/ /\ runs[r].todo = <<First(r), Second(r)>>
         /\ files[First(r)] = "queued" /\ files[Second(r)] = "queued"
      \/ runs[r].todo = <<Second(r)>> /\ files[First(r)] \in Past /\ files[Second(r)] = "queued"
  BY <1>1, CutoverParts DEF RunFits, NotBegun, Downloads, LandsBoth, LandsOne, Landed
<1>3. PICK todo \in Seq(Nat), leg \in {"land", "promote"} :
        /\ runs' = [runs EXCEPT ![r] = [at |-> leg, todo |-> todo]]
        /\ todo = Tail(runs[r].todo)
        /\ leg = IF Len(runs[r].todo) = 1 THEN "promote" ELSE "land"
  <2>1. PICK row \in RunRow : row = runs[r]
    BY CutoverParts
  <2>2. PICK todo \in Seq(Nat) : todo = Tail(row.todo)
    <3>1. row.todo \in Seq(Nat)
      BY DEF RunRow
    <3>2. row.todo # <<>>
      BY <1>1, <2>1 DEF BoundFile
    <3>3. Tail(row.todo) \in Seq(Nat)
      BY <3>1, <3>2
    <3> QED BY <3>3
  <2>3. PICK leg \in {"land", "promote"} : leg = IF Len(row.todo) = 1 THEN "promote" ELSE "land"
    OBVIOUS
  <2>4. [row EXCEPT !.todo = todo, !.at = leg] = [at |-> leg, todo |-> todo]
    <3>1. PICK mid : mid = [row EXCEPT !.todo = todo]
      OBVIOUS
    <3>2. mid = [at |-> row.at, todo |-> todo]
      BY <3>1 DEF RunRow
    <3>3. [mid EXCEPT !.at = leg] = [at |-> leg, todo |-> todo]
      BY <3>2
    <3>4. [row EXCEPT !.todo = todo, !.at = leg] = [mid EXCEPT !.at = leg]
      BY <3>1
    <3> QED BY <3>3, <3>4
  <2>5. runs' = [runs EXCEPT ![r] = [row EXCEPT !.todo = todo, !.at = leg]]
    BY <1>1, <2>1, <2>2, <2>3, CutoverParts
  <2> QED BY <2>1, <2>2, <2>3, <2>4, <2>5
<1>4. runs'[r].at = leg /\ runs'[r].todo = todo
  BY <1>3, CutoverParts
<1>5. CASE /\ runs[r].todo = <<First(r), Second(r)>>
           /\ files[First(r)] = "queued" /\ files[Second(r)] = "queued"
  <2>1. BoundFile(r) = {First(r)} /\ todo = <<Second(r)>> /\ leg = "land"
    BY <1>3, <1>5, RunFiles DEF BoundFile
  <2>2. /\ files' \in [AllFiles -> Past \cup {"none", "queued"}] /\ files'[Leftover] = "queued"
        /\ files'[First(r)] = "landed" /\ files'[Second(r)] = "queued"
    BY <1>1, <1>5, <2>1, CutoverParts, RunFiles DEF Past
  <2>3. \A q \in 1..MaxRuns : q # r => Further(First(q)) /\ Further(Second(q))
    BY <1>1, <2>1, RunFiles DEF Further
  <2>4. RunFits(r)'
    BY <1>4, <2>1, <2>2 DEF RunFits, LandsOne, Past, First, Second
  <2>5. "land" \in RunSteps /\ runs[r].at \notin Ended \cup {"none"}
    BY <1>1 DEF RunSteps, Ended
  <2> QED BY <1>1, <1>3, <2>1, <2>2, <2>3, <2>4, <2>5, RunMoves
<1>6. CASE runs[r].todo = <<Second(r)>> /\ files[First(r)] \in Past /\ files[Second(r)] = "queued"
  <2>1. BoundFile(r) = {Second(r)} /\ todo = <<>> /\ leg = "promote"
    BY <1>3, <1>6, RunFiles DEF BoundFile
  <2>2. /\ files' \in [AllFiles -> Past \cup {"none", "queued"}] /\ files'[Leftover] = "queued"
        /\ files'[First(r)] = files[First(r)] /\ files'[Second(r)] = "landed"
    BY <1>1, <1>6, <2>1, CutoverParts, RunFiles DEF Past
  <2>3. \A q \in 1..MaxRuns : q # r => Further(First(q)) /\ Further(Second(q))
    BY <1>1, <2>1, RunFiles DEF Further
  <2>4. RunFits(r)'
    BY <1>4, <1>6, <2>1, <2>2 DEF RunFits, Landed, Behind, Past, First, Second
  <2>5. "promote" \in RunSteps /\ runs[r].at \notin Ended \cup {"none"}
    BY <1>1 DEF RunSteps, Ended
  <2> QED BY <1>1, <1>3, <2>1, <2>2, <2>3, <2>4, <2>5, RunMoves
<1> QED BY <1>2, <1>5, <1>6

LEMMA TakesAllKeeps ==
  ASSUME CutoverInv, NEW r \in 1..MaxRuns, NEW from, NEW to, NEW next,
         runs[r].at \in {"promote", "dispatch"}, TakesAll(r, from, to, next),
         \/ runs[r].at = "promote" /\ from = "landed" /\ to = "promoted" /\ next = "dispatch"
         \/ runs[r].at = "dispatch" /\ from = "promoted" /\ to = "dispatched" /\ next = "drain"
  PROVE  CutoverInv'
<1>1. /\ files' = [f \in AllFiles |-> IF files[f] = from THEN to ELSE files[f]]
      /\ \/ Goes(r, "error") /\ Remembers(r, "end", r)
         \/ Goes(r, next) /\ lastRun' = lastRun
  BY DEF TakesAll
<1>2. PICK leg \in {"error", next} :
        /\ Goes(r, leg)
        /\ \/ lastRun' = lastRun
           \/ leg \in Ended /\ \E process \in {0, r} : lastRun' = [process |-> process, run |-> r]
  BY <1>1 DEF Remembers, ProcessKnown, Ended
<1>3. PICK todo \in Seq(Nat) :
        todo = runs[r].todo /\ runs' = [runs EXCEPT ![r] = [at |-> leg, todo |-> todo]]
  BY <1>2, GoesRow, CutoverParts
<1>4. runs'[r].at = leg /\ runs'[r].todo = runs[r].todo
  BY <1>3, CutoverParts
<1>5. /\ runs[r].todo = <<>> /\ files[First(r)] \in Behind(runs[r].at)
      /\ files[Second(r)] \in Behind(runs[r].at)
  BY CutoverParts DEF RunFits, NotBegun, Downloads, LandsBoth, LandsOne, Landed
<1>6. \A f \in AllFiles : Further(f)
  BY <1>1 DEF Further
<1>7. /\ files' \in [AllFiles -> Past \cup {"none", "queued"}] /\ files'[Leftover] = "queued"
      /\ files'[First(r)] = IF files[First(r)] = from THEN to ELSE files[First(r)]
      /\ files'[Second(r)] = IF files[Second(r)] = from THEN to ELSE files[Second(r)]
  BY <1>1, CutoverParts, RunFiles DEF Past
<1>8. RunFits(r)'
  <2>1. files'[First(r)] \in Behind(leg) /\ files'[Second(r)] \in Behind(leg)
    BY <1>5, <1>7 DEF Behind, Past
  <2>2. Landed(r)'
    BY <1>4, <1>5 DEF Landed
  <2> QED BY <1>4, <2>1, <2>2 DEF RunFits, First, Second
<1>9. leg \in RunSteps /\ leg # "none" /\ runs[r].at \notin Ended \cup {"none"}
  BY DEF RunSteps, Ended
<1>10. \A q \in 1..MaxRuns : Further(First(q)) /\ Further(Second(q))
  BY <1>6, RunFiles
<1> QED BY <1>2, <1>3, <1>7, <1>8, <1>9, <1>10, RunMoves

LEMMA EnsureDrainKeeps ==
  ASSUME CutoverInv, NEW r \in 1..MaxRuns, EnsureDrain(r)
  PROVE  CutoverInv'
<1>1. runs[r].at = "drain" /\ Goes(r, "ok") /\ Remembers(r, "end", r) /\ files' = files
  BY DEF EnsureDrain, At3
<1>2. \E process \in {0, r} : lastRun' = [process |-> process, run |-> r]
  BY <1>1 DEF Remembers, ProcessKnown
<1>3. PICK todo \in Seq(Nat) :
        todo = runs[r].todo /\ runs' = [runs EXCEPT ![r] = [at |-> "ok", todo |-> todo]]
  BY <1>1, GoesRow, CutoverParts
<1>4. RunFits(r)'
  <2>1. runs'[r].at = "ok" /\ runs'[r].todo = runs[r].todo
    BY <1>3, CutoverParts
  <2> QED BY <1>1, <2>1, CutoverParts
         DEF RunFits, NotBegun, Downloads, LandsBoth, LandsOne, Landed, Behind,
             First, Second
<1>5. "ok" \in RunSteps \cap Ended /\ (\A f : Further(f)) /\ runs[r].at \notin Ended \cup {"none"}
  BY <1>1 DEF RunSteps, Ended, Further
<1> QED BY <1>1, <1>2, <1>3, <1>4, <1>5, CutoverParts, RunMoves

(* What leaves the runs alone.                                             *)
LEMMA RunsAlone ==
  ASSUME CutoverInv, runs' = runs, files' \in [AllFiles -> Past \cup {"none", "queued"}],
         files'[Leftover] = "queued", \A f \in AllFiles : Further(f),
         lastRun' = lastRun \/ lastRun' = [process |-> 0, run |-> 0]
  PROVE  CutoverInv'
<1>1. \A q \in 1..MaxRuns : RunFits(q)'
  BY FitsOn, RunFiles, CutoverParts
<1>2. Numbered'
  BY DEF CutoverInv, Numbered, Begun
<1>3. MaxRuns \in Nat
  BY CutoverAssumption
<1>4. /\ lastRun' = [process |-> lastRun'.process, run |-> lastRun'.run]
      /\ lastRun'.run \in 0..MaxRuns /\ PairOfOne'
  <2>1. CASE lastRun' = lastRun
    BY <2>1 DEF CutoverInv, PairOfOne
  <2>2. CASE lastRun' = [process |-> 0, run |-> 0]
    <3>1. lastRun'.process = 0 /\ lastRun'.run = 0
      BY <2>2
    <3> QED BY <1>3, <2>2, <3>1 DEF PairOfOne
  <2> QED BY <2>1, <2>2
<1>5. runs' \in [1..MaxRuns -> RunRow]
  BY DEF CutoverInv
<1> QED BY <1>1, <1>2, <1>4, <1>5, CutoverKeeps

LEMMA DispatchedBeforeKeeps == CutoverInv /\ DispatchedBefore => CutoverInv'
<1> SUFFICES ASSUME CutoverInv, DispatchedBefore PROVE CutoverInv'
  OBVIOUS
<1>1. /\ files' = [f \in AllFiles |-> IF files[f] = "promoted" THEN "dispatched" ELSE files[f]]
      /\ runs' = runs /\ lastRun' = lastRun
  BY DEF DispatchedBefore
<1>2. /\ files \in [AllFiles -> Past \cup {"none", "queued"}] /\ files[Leftover] = "queued"
      /\ Leftover \in AllFiles
  BY DEF CutoverInv, AllFiles
<1>3. files' \in [AllFiles -> Past \cup {"none", "queued"}] /\ files'[Leftover] = "queued"
  BY <1>1, <1>2 DEF Past
<1>4. \A f \in AllFiles : Further(f)
  BY <1>1 DEF Further
<1> QED BY <1>1, <1>3, <1>4, RunsAlone

(* A call: the run after those begun.                                      *)
LEMMA CallKeeps ==
  ASSUME CutoverInv, Call2, files' = files, lastRun' = lastRun
  PROVE  CutoverInv'
<1>1. PICK n \in 0..MaxRuns : Begun = 1..n
  BY DEF CutoverInv, Numbered
<1>2. MaxRuns \in Nat /\ n \in Nat
  <2>1. MaxRuns \in Nat
    BY CutoverAssumption
  <2> QED BY <2>1
<1>3. Cardinality(Begun) = n
  BY <1>1, <1>2, FS_Interval
<1>4. PICK r :
        /\ r = n + 1 /\ r \in 1..MaxRuns
        /\ runs' = [runs EXCEPT ![r] = [at |-> "download", todo |-> <<First(r), Second(r)>>]]
  <2>1. PICK k : /\ k = Cardinality(Begun) + 1 /\ k <= MaxRuns
                 /\ runs' = [runs EXCEPT ![k] = [at |-> "download", todo |-> <<2 * k - 1, 2 * k>>]]
    BY ZenonT(20) DEF Call2
  <2>2. k = n + 1 /\ k \in 1..MaxRuns
    BY <1>2, <1>3, <2>1
  <2>3. runs' = [runs EXCEPT ![k] = [at |-> "download", todo |-> <<First(k), Second(k)>>]]
    BY <2>1 DEF First, Second
  <2> QED BY <2>2, <2>3
<1>5. /\ runs \in [1..MaxRuns -> RunRow] /\ files \in [AllFiles -> Past \cup {"none", "queued"}]
      /\ \A q \in 1..MaxRuns : RunFits(q)
      /\ PairOfOne /\ lastRun = [process |-> lastRun.process, run |-> lastRun.run]
      /\ lastRun.run \in 0..MaxRuns /\ files[Leftover] = "queued"
  BY DEF CutoverInv
<1>6. runs[r].at = "none"
  <2>1. r \notin Begun /\ r \in DOMAIN runs
    BY <1>1, <1>2, <1>4, <1>5
  <2> QED BY <2>1 DEF Begun
<1>7. PICK row \in RunRow : row = [at |-> "download", todo |-> <<First(r), Second(r)>>]
  <2>1. PICK a, b : a = First(r) /\ b = Second(r) /\ a \in Nat /\ b \in Nat
    BY <1>4, RunFiles
  <2>2. [at |-> "download", todo |-> <<a, b>>] \in RunRow
    BY <2>1 DEF RunRow, RunSteps
  <2> QED BY <2>1, <2>2
<1>8. /\ runs' \in [1..MaxRuns -> RunRow] /\ runs'[r].at = "download"
      /\ runs'[r].todo = <<First(r), Second(r)>>
      /\ \A q \in 1..MaxRuns \ {r} : runs'[q] = runs[q]
  BY <1>4, <1>5, <1>7
<1>9. RunFits(r)'
  <2>1. files[First(r)] = "none" /\ files[Second(r)] = "none"
    BY <1>4, <1>5, <1>6 DEF RunFits, NotBegun, Downloads, LandsBoth, LandsOne, Landed
  <2> QED BY <1>8, <2>1 DEF RunFits, Downloads, First, Second
<1>10. \A q \in 1..MaxRuns : RunFits(q)'
  BY <1>5, <1>8, <1>9, FitsOn DEF Further
<1>11. Numbered'
  <2>1. DOMAIN runs = 1..MaxRuns /\ DOMAIN runs' = 1..MaxRuns
    BY <1>5, <1>8
  <2>2. Begun' = Begun \cup {r}
    BY <1>4, <1>8, <2>1 DEF Begun
  <2>3. Begun' = 1..r /\ r \in 0..MaxRuns
    BY <1>1, <1>2, <1>4, <2>2
  <2> QED BY <2>3 DEF Numbered
<1>12. PairOfOne'
  <2>1. lastRun.run # 0 => lastRun.run \in 1..MaxRuns /\ lastRun.run # r
    BY <1>2, <1>5, <1>6 DEF PairOfOne, Ended
  <2> QED BY <1>5, <1>8, <2>1 DEF PairOfOne
<1> QED BY <1>5, <1>8, <1>10, <1>11, <1>12, CutoverKeeps

LEMMA InitCutoverInv == CutoverInit => CutoverInv
<1> SUFFICES ASSUME CutoverInit PROVE CutoverInv
  OBVIOUS
<1>1. /\ files = [f \in AllFiles |-> IF f = Leftover THEN "queued" ELSE "none"]
      /\ runs = [r \in 1..MaxRuns |-> [at |-> "none", todo |-> <<>>]]
      /\ lastRun = [process |-> 0, run |-> 0]
  BY DEF CutoverInit
<1>2. MaxRuns \in Nat
  BY CutoverAssumption
<1>3. PICK row \in RunRow : row = [at |-> "none", todo |-> <<>>]
  <2>1. <<>> \in Seq(Nat) /\ "none" \in RunSteps
    BY DEF RunSteps
  <2> QED BY <2>1 DEF RunRow
<1>4. /\ runs \in [1..MaxRuns -> RunRow]
      /\ \A r \in 1..MaxRuns : runs[r].at = "none" /\ runs[r].todo = <<>>
  BY <1>1, <1>3
<1>5. files \in [AllFiles -> Past \cup {"none", "queued"}] /\ files[Leftover] = "queued"
  BY <1>1 DEF AllFiles
<1>6. \A r \in 1..MaxRuns : RunFits(r)
  <2>1. ASSUME NEW r \in 1..MaxRuns PROVE files[First(r)] = "none" /\ files[Second(r)] = "none"
    BY <1>1, RunFiles
  <2> QED BY <1>4, <2>1 DEF RunFits, NotBegun
<1>7. Numbered
  <2>1. Begun = 1..0 /\ 0 \in 0..MaxRuns
    BY <1>2, <1>4 DEF Begun
  <2> QED BY <2>1 DEF Numbered
<1>8. PairOfOne /\ lastRun.run \in 0..MaxRuns
      /\ lastRun = [process |-> lastRun.process, run |-> lastRun.run]
  <2>1. lastRun.process = 0 /\ lastRun.run = 0
    BY <1>1
  <2> QED BY <1>1, <1>2, <2>1 DEF PairOfOne
<1> QED BY <1>4, <1>5, <1>6, <1>7, <1>8 DEF CutoverInv

LEMMA CutoverStep == CutoverInv /\ [CutoverNext]_cutoverVars => CutoverInv'
<1> SUFFICES ASSUME CutoverInv, [CutoverNext]_cutoverVars PROVE CutoverInv'
  OBVIOUS
<1>1. DOMAIN runs = 1..MaxRuns
  BY DEF CutoverInv
<1>2. ASSUME runs' = runs, files' = files,
             lastRun' = lastRun \/ lastRun' = [process |-> 0, run |-> 0]
      PROVE  CutoverInv'
  <2>1. files \in [AllFiles -> Past \cup {"none", "queued"}] /\ files[Leftover] = "queued"
    BY DEF CutoverInv
  <2> QED BY <1>2, <2>1, RunsAlone DEF Further
<1>3. CASE UNCHANGED cutoverVars
  BY <1>2, <1>3 DEF cutoverVars
<1>4. ASSUME NEW r \in DOMAIN runs,
             \/ Download(r) \/ Land(r) \/ Promote(r) \/ DispatchAll(r) \/ EnsureDrain(r)
             \/ StepFails(r)
      PROVE  CutoverInv'
  <2>1. CASE Promote(r) \/ DispatchAll(r)
    BY <1>1, <2>1, TakesAllKeeps DEF Promote, DispatchAll, At3
  <2> QED BY <1>1, <1>4, <2>1, DownloadKeeps, LandKeeps, EnsureDrainKeeps, StepFailsKeeps
<1>5. CASE DispatchedBefore
  BY <1>5, DispatchedBeforeKeeps
<1>6. CASE AdminRestarts
  BY <1>2, <1>6 DEF AdminRestarts
<1>7. CASE TypeKey \/ SaveKey \/ RetryKey
  BY <1>2, <1>7, Zenon DEF TypeKey, SaveKey, RetryKey
<1>8. CASE \E k \in keySaves : KeyStored(k) \/ KeyRefused(k)
  BY <1>2, <1>8, Zenon DEF KeyStored, KeyRefused
<1>9. CASE OpenCutover \/ CancelCutover
  BY <1>2, <1>9 DEF OpenCutover, CancelCutover
<1>10. CASE ConfirmCutover \/ RetryCutover
  BY <1>10, CallKeeps DEF ConfirmCutover, RetryCutover
<1>11. CASE RunAnswered \/ AnswerLost
  BY <1>2, <1>11 DEF RunAnswered, AnswerLost
<1>12. CASE OpenAnew
  BY <1>2, <1>12, Zenon DEF OpenAnew
<1>13. CASE StatusPolled
  BY <1>2, <1>13 DEF StatusPolled
<1> QED BY <1>3, <1>4, <1>5, <1>6, <1>7, <1>8, <1>9, <1>10, <1>11, <1>12, <1>13 DEF CutoverNext

LEMMA CutoverTells == CutoverInv => CutoverTold
<1> SUFFICES ASSUME CutoverInv PROVE CutoverTold
  OBVIOUS
<1>1. DOMAIN runs = 1..MaxRuns /\ PairOfOne /\ files[Leftover] = "queued"
  BY DEF CutoverInv
<1>2. OkMeansAll
  <2> SUFFICES ASSUME NEW r \in 1..MaxRuns, runs[r].at = "ok", NEW f \in FilesOf(r)
               PROVE  files[f] = "dispatched"
    BY <1>1 DEF OkMeansAll, At3
  <2>1. files[First(r)] = "dispatched" /\ files[Second(r)] = "dispatched"
    BY CutoverParts DEF RunFits, NotBegun, Downloads, LandsBoth, LandsOne, Landed, Behind
  <2> QED BY <2>1, RunFiles
<1>3. OwnFilesOnly
  <2> SUFFICES ASSUME NEW r \in 1..MaxRuns, NEW f \in {First(r), Second(r)}
               PROVE  files[f] = "queued" <=>
                        /\ runs[r].at \notin {"none", "download"} /\ files[f] # "none"
                        /\ \E i \in DOMAIN runs[r].todo : runs[r].todo[i] = f
    BY <1>1, RunFiles DEF OwnFilesOnly
  <2>1. First(r) # Second(r) /\ First(r) \in Nat /\ Second(r) \in Nat /\ RunFits(r)
    BY RunFiles, CutoverParts
  <2>2. CASE (NotBegun(r) \/ Downloads(r)) /\ files[First(r)] = "none" /\ files[Second(r)] = "none"
    BY <2>2
  <2>3. CASE LandsBoth(r) /\ files[First(r)] = "queued" /\ files[Second(r)] = "queued"
    BY <2>1, <2>3 DEF LandsBoth
  <2>4. CASE LandsOne(r) /\ files[First(r)] \in Past /\ files[Second(r)] = "queued"
    BY <2>1, <2>4 DEF LandsOne, Past
  <2>5. CASE /\ Landed(r) /\ files[First(r)] \in Behind(runs[r].at)
             /\ files[Second(r)] \in Behind(runs[r].at)
    BY <2>1, <2>5 DEF Landed, Behind, Past
  <2> QED BY <2>1, <2>2, <2>3, <2>4, <2>5 DEF RunFits
<1> QED BY <1>1, <1>2, <1>3 DEF CutoverTold

(* Whatever the number of runs that overlap, and whatever becomes of them: *)
(* one that ended well has its own files dispatched, none takes a file it  *)
(* did not download, and the ids the page shows are of one ended run.      *)
THEOREM CutoversTold == CutoverSpec => []CutoverTold
<1>1. CutoverInit => CutoverInv
  BY InitCutoverInv
<1>2. CutoverInv /\ [CutoverNext]_cutoverVars => CutoverInv'
  BY CutoverStep
<1>3. CutoverInv => CutoverTold
  BY CutoverTells
<1> QED BY <1>1, <1>2, <1>3, PTL DEF CutoverSpec

-----------------------------------------------------------------------------
(* The settings                                                            *)

LegalSpec == LegalInit /\ [][LegalNext]_legalVars

PaneShape ==
  /\ pane = [text |-> pane.text, dirty |-> pane.dirty, pick |-> pane.pick, open |-> pane.open,
             life |-> pane.life, past |-> pane.past]
  /\ pane.dirty \in BOOLEAN /\ pane.open \in BOOLEAN

CallShape(f) ==
  f = [n |-> f.n, body |-> f.body, kind |-> f.kind, pc |-> f.pc, life |-> f.life]

(* What is on its way, or may be sent again, was given.                    *)
Given(body) == \A k \in DOMAIN body : <<k, body[k]>> \in givenAs

BodiesGiven ==
  /\ \A f \in patches : CallShape(f) /\ Given(f.body)
  /\ \A t \in toRetry : Given(t.body)

(* No call is about a key that is somebody else's, who set it.             *)
TheirsStay ==
  \A t \in theirs :
    /\ t[1] \in DOMAIN onServer /\ onServer[t[1]] = t[2]
    /\ \A f \in patches : t[1] \notin DOMAIN f.body

(* What was read lags behind only a call that was not answered yet.        *)
KnownFresh ==
  ~rereads /\ ~outdated /\ (\A f \in patches : f.pc # "done") => known = onServer

LegalInv ==
  /\ PaneShape /\ rereads \in BOOLEAN /\ outdated \in BOOLEAN
  /\ BodiesGiven /\ TheirsStay /\ KnownFresh
  /\ KeysS \subseteq DOMAIN onServer /\ AsLeft /\ EditsKept

(* The five forms are as they were: so are their keys.                     *)
LEMMA SameKeys == legalDesk' = legalDesk => KeysS' = KeysS
BY DEF KeysS

(* What is on its way and was given stays given.                           *)
LEMMA BodiesStay ==
  ASSUME BodiesGiven, givenAs \subseteq givenAs', patches' \subseteq patches,
         toRetry' \subseteq toRetry
  PROVE  BodiesGiven'
BY DEF BodiesGiven, Given, CallShape

(* A call comes one step on.                                               *)
LEMMA CallTurns ==
  ASSUME BodiesGiven, NEW f \in patches, NEW pc, Turns(f, pc)
  PROVE  \E g : /\ CallShape(g) /\ g.body = f.body /\ g.pc = pc
                /\ patches' = (patches \ {f}) \cup {g}
<1>1. f = [n |-> f.n, body |-> f.body, kind |-> f.kind, pc |-> f.pc, life |-> f.life]
  BY DEF BodiesGiven, CallShape
<1>2. PICK g : g = [f EXCEPT !.pc = pc]
  OBVIOUS
<1>3. g = [n |-> f.n, body |-> f.body, kind |-> f.kind, pc |-> pc, life |-> f.life]
  BY <1>1, <1>2
<1>4. CallShape(g) /\ g.body = f.body /\ g.pc = pc
  BY <1>3 DEF CallShape
<1>5. patches' = (patches \ {f}) \cup {g}
  BY <1>2 DEF Turns
<1> QED BY <1>4, <1>5

LEMMA TurnedKeepsBodies ==
  ASSUME BodiesGiven, NEW f \in patches, NEW pc, Turns(f, pc), givenAs' = givenAs,
         toRetry' = toRetry
  PROVE  BodiesGiven'
<1>1. PICK g : CallShape(g) /\ g.body = f.body /\ patches' = (patches \ {f}) \cup {g}
  BY CallTurns
<1>2. Given(g.body)
  BY <1>1 DEF BodiesGiven
<1>3. \A h \in patches' : CallShape(h) /\ Given(h.body)
  BY <1>1, <1>2 DEF BodiesGiven
<1> QED BY <1>3 DEF BodiesGiven, Given, CallShape

(* A body written over the server's values: what it names is what it says. *)
LEMMA Overwrites ==
  ASSUME NEW body, onServer' = Over(body, onServer)
  PROVE  /\ DOMAIN onServer' = DOMAIN body \cup DOMAIN onServer
         /\ \A k \in DOMAIN body : onServer'[k] = body[k]
         /\ \A k \in DOMAIN onServer \ DOMAIN body : onServer'[k] = onServer[k]
BY DEF Over

LEMMA OverwritesAsLeft ==
  ASSUME NEW body, onServer' = Over(body, onServer), legalDesk' = legalDesk,
         KeysS \subseteq DOMAIN onServer, AsLeft, givenAs \subseteq givenAs',
         \A k \in DOMAIN body : <<k, body[k]>> \in givenAs'
  PROVE  KeysS' \subseteq DOMAIN onServer' /\ AsLeft'
<1>1. KeysS' = KeysS
  BY SameKeys
<1>2. KeysS \subseteq DOMAIN onServer'
  BY Overwrites
<1>3. ASSUME NEW k \in KeysS PROVE <<k, onServer'[k]>> \in givenAs'
  <2>1. CASE k \in DOMAIN body
    BY <2>1, Overwrites
  <2>2. CASE k \notin DOMAIN body
    BY <2>2, Overwrites DEF AsLeft
  <2> QED BY <2>1, <2>2
<1> QED BY <1>1, <1>2, <1>3 DEF AsLeft

LEMMA SameAsLeft ==
  ASSUME onServer' = onServer, legalDesk' = legalDesk, givenAs \subseteq givenAs',
         KeysS \subseteq DOMAIN onServer, AsLeft
  PROVE  KeysS' \subseteq DOMAIN onServer' /\ AsLeft'
BY SameKeys DEF AsLeft

(* Fewer calls, fewer values of somebody else's.                           *)
LEMMA TheirsLess ==
  ASSUME TheirsStay, onServer' = onServer, theirs' \subseteq theirs,
         \A f \in patches' : \/ \E g \in patches : g.body = f.body
                             \/ \A t \in theirs' : t[1] \notin DOMAIN f.body
  PROVE  TheirsStay'
BY DEF TheirsStay

(* A new text in the form, edited or not.                                  *)
LEMMA Retexts ==
  ASSUME PaneShape, NEW text, NEW dirty, pane' = [pane EXCEPT !.text = text, !.dirty = dirty]
  PROVE  pane' = [text |-> text, dirty |-> dirty, pick |-> pane.pick, open |-> pane.open,
                  life |-> pane.life, past |-> pane.past]
<1>1. PICK mid : mid = [pane EXCEPT !.text = text]
  OBVIOUS
<1>2. mid = [text |-> text, dirty |-> pane.dirty, pick |-> pane.pick, open |-> pane.open,
             life |-> pane.life, past |-> pane.past]
  BY <1>1 DEF PaneShape
<1>3. pane' = [mid EXCEPT !.dirty = dirty]
  BY <1>1
<1> QED BY <1>2, <1>3

LEMMA SameEdits ==
  ASSUME PaneShape, EditsKept, legalDesk' = legalDesk, pane' = pane, known' = known,
         meant' = meant, hasty' = hasty
  PROVE  PaneShape' /\ EditsKept'
BY DEF PaneShape, EditsKept

(* A call is sent: what it says was given, and what it names is no longer  *)
(* somebody else's.                                                        *)
LEMMA Sends ==
  ASSUME LegalInv, NEW body, NEW about, NEW life, Patch(body, about, life),
         givenAs \subseteq givenAs', \A k \in DOMAIN body : <<k, body[k]>> \in givenAs',
         toRetry' \subseteq toRetry, onServer' = onServer, known' = known, rereads' = rereads,
         outdated' = outdated
  PROVE  BodiesGiven' /\ TheirsStay' /\ KnownFresh'
<1>1. PICK g : /\ g = [n |-> patchesMade, body |-> body, kind |-> about, pc |-> "sent",
                     life |-> life]
               /\ patches' = patches \cup {g}
               /\ theirs' = {t \in theirs : t[1] \notin DOMAIN body}
  BY DEF Patch
<1>2. CallShape(g) /\ g.body = body /\ g.pc = "sent"
  BY <1>1 DEF CallShape
<1>3. BodiesGiven'
  <2>1. \A h \in patches' : CallShape(h) /\ \A k \in DOMAIN h.body : <<k, h.body[k]>> \in givenAs'
    BY <1>1, <1>2 DEF LegalInv, BodiesGiven, Given
  <2>2. \A t \in toRetry' : \A k \in DOMAIN t.body : <<k, t.body[k]>> \in givenAs'
    BY DEF LegalInv, BodiesGiven, Given
  <2> QED BY <2>1, <2>2 DEF BodiesGiven, Given, CallShape
<1>4. TheirsStay'
  BY <1>1, <1>2, TheirsLess DEF LegalInv
<1>5. KnownFresh'
  BY <1>1, <1>2 DEF LegalInv, KnownFresh
<1> QED BY <1>3, <1>4, <1>5

LEMMA ServePatchKeeps ==
  ASSUME LegalInv, legalDesk' = legalDesk, NEW f \in patches, ServePatch(f)
  PROVE  LegalInv'
<1>1. /\ rereads' = rereads /\ outdated' = outdated /\ known' = known /\ pane' = pane
      /\ toRetry' = toRetry /\ givenAs' = givenAs /\ theirs' = theirs /\ meant' = meant
      /\ hasty' = hasty /\ f.pc = "sent"
  BY DEF ServePatch
<1>2. PaneShape' /\ EditsKept' /\ rereads' \in BOOLEAN /\ outdated' \in BOOLEAN
  BY <1>1, SameEdits DEF LegalInv
<1>3. /\ Given(f.body) /\ BodiesGiven /\ TheirsStay /\ KnownFresh
      /\ KeysS \subseteq DOMAIN onServer /\ AsLeft
  BY DEF LegalInv, BodiesGiven
<1>4. CASE onServer' = Over(f.body, onServer) /\ Turns(f, "done")
  <2>1. PICK g :
          /\ CallShape(g) /\ g.body = f.body /\ g.pc = "done"
          /\ patches' = (patches \ {f}) \cup {g}
    BY <1>3, <1>4, CallTurns
  <2>2. BodiesGiven'
    BY <1>1, <1>3, <1>4, TurnedKeepsBodies
  <2>3. KeysS' \subseteq DOMAIN onServer' /\ AsLeft'
    BY <1>1, <1>3, <1>4, OverwritesAsLeft DEF Given
  <2>4. TheirsStay'
    <3>1. ASSUME NEW t \in theirs
          PROVE  /\ t[1] \in DOMAIN onServer' /\ onServer'[t[1]] = t[2]
                 /\ \A h \in patches' : t[1] \notin DOMAIN h.body
      <4>1. t[1] \in DOMAIN onServer \ DOMAIN f.body /\ onServer[t[1]] = t[2]
        BY <1>3 DEF TheirsStay
      <4>2. t[1] \in DOMAIN onServer' /\ onServer'[t[1]] = t[2]
        BY <1>4, <4>1, Overwrites
      <4>3. \A h \in patches' : t[1] \notin DOMAIN h.body
        BY <1>3, <2>1 DEF TheirsStay
      <4> QED BY <4>2, <4>3
    <3> QED BY <1>1, <3>1 DEF TheirsStay
  <2>5. KnownFresh'
    BY <2>1 DEF KnownFresh
  <2> QED BY <1>2, <2>2, <2>3, <2>4, <2>5 DEF LegalInv
<1>5. CASE onServer' = onServer /\ Turns(f, "failed")
  <2>1. PICK g :
          /\ CallShape(g) /\ g.body = f.body /\ g.pc = "failed"
          /\ patches' = (patches \ {f}) \cup {g}
    BY <1>3, <1>5, CallTurns
  <2>2. BodiesGiven'
    BY <1>1, <1>3, <1>5, TurnedKeepsBodies
  <2>3. KeysS' \subseteq DOMAIN onServer' /\ AsLeft'
    BY <1>1, <1>3, <1>5, SameAsLeft
  <2>4. TheirsStay'
    BY <1>1, <1>3, <1>5, <2>1, TheirsLess
  <2>5. KnownFresh'
    BY <1>1, <1>3, <1>5, <2>1 DEF KnownFresh
  <2> QED BY <1>2, <2>2, <2>3, <2>4, <2>5 DEF LegalInv
<1> QED BY <1>4, <1>5 DEF ServePatch

LEMMA PatchLostKeeps ==
  ASSUME LegalInv, legalDesk' = legalDesk, NEW f \in patches, PatchLost(f)
  PROVE  LegalInv'
<1>1. /\ rereads' = rereads /\ outdated' = (outdated \/ f.pc = "done")
      /\ known' = known /\ pane' = pane
      /\ toRetry' = toRetry /\ givenAs' = givenAs /\ theirs' = theirs /\ meant' = meant
      /\ hasty' = hasty /\ onServer' = onServer /\ Turns(f, "failed")
  BY DEF PatchLost
<1>2. PaneShape' /\ EditsKept' /\ rereads' \in BOOLEAN /\ outdated' \in BOOLEAN
  BY <1>1, SameEdits DEF LegalInv
<1>3. BodiesGiven /\ TheirsStay /\ KnownFresh /\ KeysS \subseteq DOMAIN onServer /\ AsLeft
  BY DEF LegalInv
<1>4. PICK g :
        /\ CallShape(g) /\ g.body = f.body /\ g.pc = "failed"
        /\ patches' = (patches \ {f}) \cup {g}
  BY <1>1, <1>3, CallTurns
<1>5. BodiesGiven'
  BY <1>1, <1>3, TurnedKeepsBodies
<1>6. KeysS' \subseteq DOMAIN onServer' /\ AsLeft'
  BY <1>1, <1>3, SameAsLeft
<1>7. TheirsStay'
  BY <1>1, <1>3, <1>4, TheirsLess
<1>8. KnownFresh'
  BY <1>1, <1>3, <1>4 DEF KnownFresh
<1> QED BY <1>2, <1>5, <1>6, <1>7, <1>8 DEF LegalInv

(* No call is about the key somebody else sets.                            *)
LEMMA SomebodyElseKeeps ==
  ASSUME LegalInv, legalDesk' = legalDesk, NEW k, SomebodyElse(k)
  PROVE  LegalInv'
<1>1. PICK v : /\ onServer' = Over(Keyed(k, v), onServer)
               /\ theirs' = {<<k, v>>} /\ givenAs' = givenAs \cup {<<k, v>>}
  BY DEF SomebodyElse
<1>2. /\ \A f \in patches : k \notin DOMAIN f.body
      /\ outdated' = TRUE /\ known' = known /\ pane' = pane /\ patches' = patches
      /\ rereads' = rereads /\ toRetry' = toRetry /\ meant' = meant /\ hasty' = hasty
  BY DEF SomebodyElse
<1>3. DOMAIN Keyed(k, v) = {k} /\ Keyed(k, v)[k] = v
  BY DEF Keyed
<1>4. PaneShape' /\ EditsKept' /\ rereads' \in BOOLEAN /\ outdated' \in BOOLEAN
  BY <1>2, SameEdits DEF LegalInv
<1>5. BodiesGiven'
  BY <1>1, <1>2, BodiesStay DEF LegalInv
<1>6. KeysS' \subseteq DOMAIN onServer' /\ AsLeft'
  BY <1>1, <1>3, OverwritesAsLeft DEF LegalInv
<1>7. TheirsStay'
  <2>1. k \in DOMAIN onServer' /\ onServer'[k] = v
    BY <1>1, <1>3, Overwrites
  <2>2. \A t \in theirs' : t[1] = k /\ t[2] = v
    BY <1>1
  <2> QED BY <1>2, <2>1, <2>2 DEF TheirsStay
<1>8. KnownFresh'
  BY <1>2 DEF KnownFresh
<1> QED BY <1>4, <1>5, <1>6, <1>7, <1>8 DEF LegalInv

(* What leaves the server, the calls and the values alone.                 *)
LEMMA CallsAloneKeeps ==
  ASSUME LegalInv, legalDesk' = legalDesk, onServer' = onServer, patches' = patches,
         toRetry' = toRetry, givenAs' = givenAs, theirs' = theirs
  PROVE  BodiesGiven' /\ TheirsStay' /\ KeysS' \subseteq DOMAIN onServer' /\ AsLeft'
<1>1. BodiesGiven'
  BY BodiesStay DEF LegalInv
<1>2. TheirsStay'
  BY TheirsLess DEF LegalInv
<1>3. KeysS' \subseteq DOMAIN onServer' /\ AsLeft'
  BY SameAsLeft DEF LegalInv
<1> QED BY <1>1, <1>2, <1>3

LEMMA RereadKeeps ==
  ASSUME LegalInv, legalDesk' = legalDesk, Reread \/ ReadFailsS
  PROVE  LegalInv'
<1>1. /\ onServer' = onServer /\ known' = known /\ pane' = pane /\ patches' = patches
      /\ toRetry' = toRetry /\ givenAs' = givenAs /\ theirs' = theirs
      /\ meant' = meant /\ hasty' = hasty
      /\ rereads' \in BOOLEAN /\ outdated' \in BOOLEAN /\ (rereads' \/ outdated')
  BY DEF Reread, ReadFailsS, LegalInv
<1>2. PaneShape' /\ EditsKept'
  BY <1>1, SameEdits DEF LegalInv
<1> QED BY <1>1, <1>2, CallsAloneKeeps DEF LegalInv, KnownFresh

LEMMA ReadArrivesKeeps ==
  ASSUME LegalInv, legalDesk' = legalDesk, ReadArrivesS
  PROVE  LegalInv'
<1>1. /\ onServer' = onServer /\ patches' = patches /\ toRetry' = toRetry /\ givenAs' = givenAs
      /\ theirs' = theirs /\ hasty' = hasty /\ known' = onServer
      /\ rereads' = FALSE /\ outdated' = FALSE
      /\ meant' = IF pane.dirty THEN meant ELSE pane'.text
  BY DEF ReadArrivesS
<1>2. PICK text, dirty :
        /\ pane' = [pane EXCEPT !.text = text, !.dirty = dirty]
        /\ text = IF legalDesk = "rule" /\ ~pane.open THEN pane.text
                  ELSE Follows(pane.text, pane.dirty, onServer)
        /\ dirty = IF legalDesk = "template" /\ onServer # known THEN FALSE ELSE pane.dirty
  BY DEF ReadArrivesS
<1>3. PaneShape /\ EditsKept
  BY DEF LegalInv
<1>4. pane' = [text |-> text, dirty |-> dirty, pick |-> pane.pick, open |-> pane.open,
               life |-> pane.life, past |-> pane.past]
  BY <1>2, <1>3, Retexts
<1>5. PaneShape'
  BY <1>2, <1>3, <1>4 DEF PaneShape
<1>6. EditsKept'
  <2>1. ASSUME legalDesk = "rule", dirty PROVE hasty \/ text = meant
    BY <1>2, <1>3, <2>1 DEF Follows, EditsKept, PaneShape
  <2>2. ASSUME legalDesk = "rule", ~dirty, pane.open PROVE text = onServer
    BY <1>2, <1>3, <2>2 DEF Follows, PaneShape
  <2>3. ASSUME legalDesk = "rule" PROVE dirty = pane.dirty
    BY <1>2, <2>3
  <2>4. pane'.text = text /\ pane'.dirty = dirty /\ pane'.open = pane.open
    BY <1>4
  <2> QED BY <1>1, <2>1, <2>2, <2>3, <2>4 DEF EditsKept
<1>7. KnownFresh'
  BY <1>1 DEF KnownFresh
<1> QED BY <1>1, <1>5, <1>6, <1>7, CallsAloneKeeps DEF LegalInv

LEMMA HearSavedKeeps ==
  ASSUME LegalInv, legalDesk' = legalDesk, NEW f \in patches, HearSaved(f)
  PROVE  LegalInv'
<1>1. /\ patches' = patches \ {f} /\ rereads' = RereadAfter(f)
      /\ outdated' = (outdated \/ ~pane.open) /\ onServer' = onServer /\ known' = known
      /\ givenAs' = givenAs /\ theirs' = theirs /\ meant' = meant /\ hasty' = hasty
      /\ toRetry' \subseteq toRetry
  BY DEF HearSaved
<1>2. PaneShape /\ EditsKept /\ rereads \in BOOLEAN /\ outdated \in BOOLEAN
  BY DEF LegalInv
<1>3. PaneShape' /\ EditsKept'
  <2>1. CASE pane' = pane
    BY <1>1, <1>2, <2>1, SameEdits
  <2>2. CASE legalDesk = "rule" /\ pane' = [pane EXCEPT !.dirty = FALSE, !.text = known]
    <3>1. PICK mid : mid = [pane EXCEPT !.dirty = FALSE]
      OBVIOUS
    <3>2. mid = [text |-> pane.text, dirty |-> FALSE, pick |-> pane.pick, open |-> pane.open,
                 life |-> pane.life, past |-> pane.past]
      BY <1>2, <3>1 DEF PaneShape
    <3>3. pane' = [mid EXCEPT !.text = known]
      BY <2>2, <3>1
    <3>4. pane' = [text |-> known, dirty |-> FALSE, pick |-> pane.pick, open |-> pane.open,
                   life |-> pane.life, past |-> pane.past]
      BY <3>2, <3>3
    <3> QED BY <1>1, <1>2, <3>4 DEF PaneShape, EditsKept
  <2>3. CASE legalDesk = "team" /\ pane' = [pane EXCEPT !.text = NoText]
    <3>1. pane' = [text |-> NoText, dirty |-> pane.dirty, pick |-> pane.pick, open |-> pane.open,
                   life |-> pane.life, past |-> pane.past]
      BY <1>2, <2>3 DEF PaneShape
    <3> QED BY <1>2, <2>3, <3>1 DEF PaneShape, EditsKept
  <2> QED BY <2>1, <2>2, <2>3 DEF HearSaved
<1>4. rereads' \in BOOLEAN /\ outdated' \in BOOLEAN /\ (rereads' \/ outdated')
  BY <1>1, <1>2 DEF RereadAfter, PaneShape
<1>5. BodiesGiven'
  BY <1>1, BodiesStay DEF LegalInv
<1>6. TheirsStay'
  BY <1>1, TheirsLess DEF LegalInv
<1>7. KeysS' \subseteq DOMAIN onServer' /\ AsLeft'
  BY <1>1, SameAsLeft DEF LegalInv
<1> QED BY <1>3, <1>4, <1>5, <1>6, <1>7 DEF LegalInv, KnownFresh

LEMMA HearRefusedKeeps ==
  ASSUME LegalInv, legalDesk' = legalDesk, NEW f \in patches, HearRefused(f)
  PROVE  LegalInv'
<1>1. /\ patches' = patches \ {f} /\ f.pc = "failed" /\ rereads' = rereads /\ pane' = pane
      /\ outdated' = outdated /\ onServer' = onServer /\ known' = known
      /\ givenAs' = givenAs /\ theirs' = theirs /\ meant' = meant /\ hasty' = hasty
  BY DEF HearRefused
<1>2. \A t \in toRetry' : t \in toRetry \/ t.body = f.body
  BY DEF HearRefused
<1>3. BodiesGiven'
  <2>1. \A t \in toRetry' : Given(t.body)
    BY <1>2 DEF LegalInv, BodiesGiven
  <2> QED BY <1>1, <2>1 DEF LegalInv, BodiesGiven, Given, CallShape
<1>4. TheirsStay'
  BY <1>1, TheirsLess DEF LegalInv
<1>5. KeysS' \subseteq DOMAIN onServer' /\ AsLeft'
  BY <1>1, SameAsLeft DEF LegalInv
<1>6. KnownFresh'
  BY <1>1 DEF LegalInv, KnownFresh
<1>7. PaneShape' /\ EditsKept' /\ rereads' \in BOOLEAN /\ outdated' \in BOOLEAN
  BY <1>1, SameEdits DEF LegalInv
<1> QED BY <1>3, <1>4, <1>5, <1>6, <1>7 DEF LegalInv

LEMMA RetryPatchKeeps ==
  ASSUME LegalInv, legalDesk' = legalDesk, RetryPatch
  PROVE  LegalInv'
<1>1. /\ onServer' = onServer /\ known' = known /\ pane' = pane /\ rereads' = rereads
      /\ outdated' = outdated /\ meant' = meant /\ hasty' = hasty
  BY DEF RetryPatch
<1>2. PICK t, body :
        /\ t \in toRetry /\ toRetry' = toRetry \ {t} /\ Patch(body, t.kind, t.life)
        /\ \/ ShownNow(body)
           \/ (body = t.body /\ givenAs' = givenAs)
  BY DEF RetryPatch
<1>3. givenAs \subseteq givenAs' /\ \A k \in DOMAIN body : <<k, body[k]>> \in givenAs'
  <2>1. CASE ShownNow(body)
    BY <2>1 DEF ShownNow
  <2>2. CASE body = t.body /\ givenAs' = givenAs
    BY <1>2, <2>2 DEF LegalInv, BodiesGiven, Given
  <2> QED BY <1>2, <2>1, <2>2
<1>4. BodiesGiven' /\ TheirsStay' /\ KnownFresh'
  BY <1>1, <1>2, <1>3, Sends
<1>5. KeysS' \subseteq DOMAIN onServer' /\ AsLeft'
  BY <1>1, <1>3, SameAsLeft DEF LegalInv
<1>6. PaneShape' /\ EditsKept' /\ rereads' \in BOOLEAN /\ outdated' \in BOOLEAN
  BY <1>1, SameEdits DEF LegalInv
<1> QED BY <1>4, <1>5, <1>6 DEF LegalInv

LEMMA SendPatchKeeps ==
  ASSUME LegalInv, legalDesk' = legalDesk, SendPatch
  PROVE  LegalInv'
<1>1. /\ onServer' = onServer /\ known' = known /\ pane' = pane /\ rereads' = rereads
      /\ toRetry' = toRetry /\ outdated' = outdated /\ meant' = meant /\ hasty' = hasty
  BY DEF SendPatch
<1>2. PICK body, about, life : Patch(body, about, life) /\ ShownNow(body)
  BY DEF SendPatch, OnlyThis
<1>3. givenAs \subseteq givenAs' /\ \A k \in DOMAIN body : <<k, body[k]>> \in givenAs'
  BY <1>2 DEF ShownNow
<1>4. BodiesGiven' /\ TheirsStay' /\ KnownFresh'
  BY <1>1, <1>2, <1>3, Sends
<1>5. KeysS' \subseteq DOMAIN onServer' /\ AsLeft'
  BY <1>1, <1>3, SameAsLeft DEF LegalInv
<1>6. PaneShape' /\ EditsKept' /\ rereads' \in BOOLEAN /\ outdated' \in BOOLEAN
  BY <1>1, SameEdits DEF LegalInv
<1> QED BY <1>4, <1>5, <1>6 DEF LegalInv

(* A step of the form alone.                                               *)
LEMMA FormKeeps ==
  ASSUME LegalInv, legalDesk' = legalDesk, onServer' = onServer, known' = known,
         patches' = patches, toRetry' = toRetry, givenAs' = givenAs, theirs' = theirs,
         outdated' = outdated, rereads' \in BOOLEAN, rereads' = rereads \/ rereads' = TRUE,
         PaneShape', EditsKept'
  PROVE  LegalInv'
<1>1. KnownFresh'
  BY DEF LegalInv, KnownFresh
<1> QED BY <1>1, CallsAloneKeeps DEF LegalInv

LEMMA EditRuleKeeps ==
  ASSUME LegalInv, legalDesk' = legalDesk, EditRule
  PROVE  LegalInv'
<1>1. /\ onServer' = onServer /\ known' = known /\ patches' = patches /\ toRetry' = toRetry
      /\ givenAs' = givenAs /\ theirs' = theirs /\ outdated' = outdated /\ rereads' = rereads
  BY DEF EditRule
<1>2. PICK text : pane' = [pane EXCEPT !.text = text, !.dirty = TRUE] /\ meant' = text
  BY DEF EditRule
<1>3. pane' = [text |-> text, dirty |-> TRUE, pick |-> pane.pick, open |-> pane.open,
               life |-> pane.life, past |-> pane.past]
  BY <1>2, Retexts DEF LegalInv
<1>4. PaneShape' /\ EditsKept'
  BY <1>2, <1>3 DEF LegalInv, PaneShape, EditsKept
<1> QED BY <1>1, <1>4, FormKeeps DEF LegalInv

LEMMA TypeTextKeeps ==
  ASSUME LegalInv, legalDesk' = legalDesk, legalDesk # "rule", TypeText
  PROVE  LegalInv'
<1>1. /\ onServer' = onServer /\ known' = known /\ patches' = patches /\ toRetry' = toRetry
      /\ givenAs' = givenAs /\ theirs' = theirs /\ outdated' = outdated /\ rereads' = rereads
  BY DEF TypeText
<1>2. PICK text : pane' = [pane EXCEPT !.text = text, !.dirty = TRUE]
  BY DEF TypeText
<1>3. pane' = [text |-> text, dirty |-> TRUE, pick |-> pane.pick, open |-> pane.open,
               life |-> pane.life, past |-> pane.past]
  BY <1>2, Retexts DEF LegalInv
<1>4. PaneShape' /\ EditsKept'
  BY <1>3 DEF LegalInv, PaneShape, EditsKept
<1> QED BY <1>1, <1>4, FormKeeps DEF LegalInv

LEMMA PickMailKeeps ==
  ASSUME LegalInv, legalDesk' = legalDesk, PickMail
  PROVE  LegalInv'
<1>1. /\ onServer' = onServer /\ known' = known /\ patches' = patches /\ toRetry' = toRetry
      /\ givenAs' = givenAs /\ theirs' = theirs /\ outdated' = outdated /\ rereads' = rereads
      /\ legalDesk = "template"
  BY DEF PickMail
<1>2. PICK p, text : pane' = [pane EXCEPT !.pick = p, !.text = text, !.dirty = FALSE]
  BY DEF PickMail
<1>3. pane' = [text |-> text, dirty |-> FALSE, pick |-> p, open |-> pane.open,
               life |-> pane.life, past |-> pane.past]
  <2>1. PICK one : one = [pane EXCEPT !.pick = p]
    OBVIOUS
  <2>2. one = [text |-> pane.text, dirty |-> pane.dirty, pick |-> p, open |-> pane.open,
               life |-> pane.life, past |-> pane.past]
    BY <2>1 DEF LegalInv, PaneShape
  <2>3. PICK two : two = [one EXCEPT !.text = text]
    OBVIOUS
  <2>4. two = [text |-> text, dirty |-> pane.dirty, pick |-> p, open |-> pane.open,
               life |-> pane.life, past |-> pane.past]
    BY <2>2, <2>3
  <2>5. pane' = [two EXCEPT !.dirty = FALSE]
    BY <1>2, <2>1, <2>3
  <2> QED BY <2>4, <2>5
<1>4. PaneShape' /\ EditsKept'
  BY <1>1, <1>3 DEF LegalInv, PaneShape, EditsKept
<1> QED BY <1>1, <1>4, FormKeeps DEF LegalInv

LEMMA LeaveFormKeeps ==
  ASSUME LegalInv, legalDesk' = legalDesk, LeaveForm
  PROVE  LegalInv'
<1>1. /\ onServer' = onServer /\ known' = known /\ patches' = patches /\ toRetry' = toRetry
      /\ givenAs' = givenAs /\ theirs' = theirs /\ outdated' = outdated /\ rereads' = rereads
      /\ meant' = meant /\ hasty' = hasty
  BY DEF LeaveForm
<1>2. PICK past : pane' = [pane EXCEPT !.open = FALSE, !.past = past]
  BY DEF LeaveForm
<1>3. pane' = [text |-> pane.text, dirty |-> pane.dirty, pick |-> pane.pick, open |-> FALSE,
               life |-> pane.life, past |-> past]
  <2>1. PICK mid : mid = [pane EXCEPT !.open = FALSE]
    OBVIOUS
  <2>2. mid = [text |-> pane.text, dirty |-> pane.dirty, pick |-> pane.pick, open |-> FALSE,
               life |-> pane.life, past |-> pane.past]
    BY <2>1 DEF LegalInv, PaneShape
  <2>3. pane' = [mid EXCEPT !.past = past]
    BY <1>2, <2>1
  <2> QED BY <2>2, <2>3
<1>4. PaneShape' /\ EditsKept'
  BY <1>1, <1>3 DEF LegalInv, PaneShape, EditsKept
<1> QED BY <1>1, <1>4, FormKeeps DEF LegalInv

LEMMA ComeAgainKeeps ==
  ASSUME LegalInv, legalDesk' = legalDesk, ComeAgain
  PROVE  LegalInv'
<1>1. /\ onServer' = onServer /\ known' = known /\ patches' = patches /\ toRetry' = toRetry
      /\ givenAs' = givenAs /\ theirs' = theirs /\ outdated' = outdated
      /\ rereads' \in BOOLEAN /\ (rereads' = rereads \/ rereads' = TRUE)
  BY DEF ComeAgain, LegalInv
<1>2. PICK life, text, dirty :
        /\ pane' = [pane EXCEPT !.open = TRUE, !.life = life, !.text = text, !.dirty = dirty]
        /\ legalDesk = "rule" => text = known
        /\ dirty = IF legalDesk = "rule" THEN FALSE ELSE pane.dirty
  BY DEF ComeAgain
<1>3. pane' = [text |-> text, dirty |-> dirty, pick |-> pane.pick, open |-> TRUE,
               life |-> life, past |-> pane.past]
  <2>1. PICK one : one = [pane EXCEPT !.open = TRUE]
    OBVIOUS
  <2>2. one = [text |-> pane.text, dirty |-> pane.dirty, pick |-> pane.pick, open |-> TRUE,
               life |-> pane.life, past |-> pane.past]
    BY <2>1 DEF LegalInv, PaneShape
  <2>3. PICK two : two = [one EXCEPT !.life = life]
    OBVIOUS
  <2>4. two = [text |-> pane.text, dirty |-> pane.dirty, pick |-> pane.pick, open |-> TRUE,
               life |-> life, past |-> pane.past]
    BY <2>2, <2>3
  <2>5. PICK three : three = [two EXCEPT !.text = text]
    OBVIOUS
  <2>6. three = [text |-> text, dirty |-> pane.dirty, pick |-> pane.pick, open |-> TRUE,
                 life |-> life, past |-> pane.past]
    BY <2>4, <2>5
  <2>7. pane' = [three EXCEPT !.dirty = dirty]
    BY <1>2, <2>1, <2>3, <2>5
  <2> QED BY <2>6, <2>7
<1>4. dirty \in BOOLEAN
  BY <1>2 DEF LegalInv, PaneShape
<1>5. PaneShape' /\ EditsKept'
  BY <1>1, <1>2, <1>3, <1>4 DEF PaneShape, EditsKept
<1> QED BY <1>1, <1>5, FormKeeps

LEMMA InitLegalInv == LegalInit => LegalInv
<1> SUFFICES ASSUME LegalInit PROVE LegalInv
  OBVIOUS
<1>1. /\ DOMAIN onServer = KeysS /\ known = onServer /\ patches = {} /\ toRetry = {} /\ theirs = {}
      /\ rereads = FALSE /\ outdated = FALSE
      /\ givenAs = {<<k, onServer[k]>> : k \in KeysS}
  BY DEF LegalInit
<1>2. PICK text, pick :
        /\ pane = [text |-> text, dirty |-> FALSE, pick |-> pick, open |-> TRUE, life |-> 0,
                   past |-> NoText]
        /\ legalDesk = "rule" => text = onServer
  BY DEF LegalInit
<1>3. PaneShape /\ EditsKept
  BY <1>1, <1>2 DEF PaneShape, EditsKept
<1>4. AsLeft
  BY <1>1 DEF AsLeft
<1> QED BY <1>1, <1>3, <1>4 DEF LegalInv, BodiesGiven, TheirsStay, KnownFresh

LEMMA LegalStep == LegalInv /\ [LegalNext]_legalVars => LegalInv'
<1> SUFFICES ASSUME LegalInv, [LegalNext]_legalVars PROVE LegalInv'
  OBVIOUS
<1>1. CASE UNCHANGED legalVars
  <2>1. PaneShape' /\ EditsKept'
    BY <1>1, SameEdits DEF legalVars, LegalInv
  <2> QED BY <1>1, <2>1, FormKeeps DEF legalVars, LegalInv
<1>2. ASSUME LegalNext PROVE legalDesk' = legalDesk
  BY <1>2 DEF LegalNext
<1>3. CASE LegalNext
  BY <1>2, <1>3, ServePatchKeeps, PatchLostKeeps, HearSavedKeeps, HearRefusedKeeps,
     SomebodyElseKeeps, RereadKeeps, ReadArrivesKeeps, RetryPatchKeeps, ComeAgainKeeps,
     EditRuleKeeps, TypeTextKeeps, SendPatchKeeps, PickMailKeeps, LeaveFormKeeps DEF LegalNext
<1> QED BY <1>1, <1>3

LEMMA LegalTells == LegalInv => LegalTold
BY DEF LegalInv, LegalTold, TheirsKept, TheirsStay, ReadAfterSave, KnownFresh, OnItsWay

(* Whatever the settings, their values and the order in which calls,       *)
(* answers, readings and other people's changes come: the server holds     *)
(* what was on screen as it was sent, or what somebody else set.           *)
THEOREM SettingsAsLeft == LegalSpec => []LegalTold
<1>1. LegalInit => LegalInv
  BY InitLegalInv
<1>2. LegalInv /\ [LegalNext]_legalVars => LegalInv'
  BY LegalStep
<1>3. LegalInv => LegalTold
  BY LegalTells
<1> QED BY <1>1, <1>2, <1>3, PTL DEF LegalSpec

-----------------------------------------------------------------------------
(* The frame around the pages                                              *)

ShellSpec == ShellInit /\ [][ShellNext]_shellVars

EntryFields ==
  {"open", "connect", "seen", "later", "as", "knows", "needs", "links", "up", "chain", "over",
   "tour", "unoffered", "switched2"}

Chained(c) == Len(c) \in Nat \ {0} /\ DOMAIN c = 1..Len(c)

(* A tour that is mounted stands on one of its steps.                      *)
TourFits(e) ==
  /\ DOMAIN e.tour = {"steps", "ix"}
  /\ e.tour = NoTour \/ e.switched2 \/ (Chained(e.tour.steps) /\ e.tour.ix \in 1..Len(e.tour.steps))

(* A tab, of which welcomed says that its browser answered the welcome.    *)
EntryFits(e, welcomed) ==
  /\ DOMAIN e = EntryFields
  /\ {e.connect, e.needs, e.unoffered, e.switched2} \subseteq BOOLEAN
  /\ e.as \in {"none", "data_owner"}
  /\ e.knows = "unknown" => e.up = "page" /\ ~e.needs /\ e.tour = NoTour
  /\ e.up = "splash" => ~e.connect
  /\ e.knows # "unknown" /\ e.up = "page" => Chained(e.chain)
  /\ TourFits(e)
  /\ e.up = "page" /\ e.needs /\ ~welcomed => e.unoffered

EntriesInv ==
  /\ DOMAIN browser = {"user", "welcomed", "tour"} /\ browser.welcomed \in BOOLEAN
  /\ browser.user \in {"data_owner", "admin", "super_admin"}
  /\ DOMAIN entries2 = EntryTabs /\ \A t \in EntryTabs : EntryFits(entries2[t], browser.welcomed)

PaletteFields == {"open", "text", "ix", "asked", "results", "people", "opened"}

PaletteShape(p) ==
  /\ DOMAIN p = PaletteFields
  /\ p.text \in PaletteTexts /\ p.ix \in Nat \ {0}
  /\ p.results \in [PaletteTexts -> Seq(PaletteIds)]
  /\ \A q \in PaletteTexts : p.results[q] = <<>> \/ p.results[q] \in PaletteFinds(q)
  /\ p.opened.it = "none" \/ \E s \in PaletteGroups(p.opened.text) : \E i \in DOMAIN s : p.opened.it = s[i]

(* The highlight is on the list.                                           *)
HighlightFits(p) == p.open /\ Items2(p) # <<>> => p.ix <= Len(Items2(p))

PaletteInv == PaletteShape(palette) /\ HighlightFits(palette)

MenuShapes == [open : BOOLEAN, timer : BOOLEAN, inside : BOOLEAN, keys : BOOLEAN]

MenuInv == menus \in [Menus -> MenuShapes] /\ MenuTold

ShellInv == EntriesInv /\ PaletteInv /\ MenuInv

-----------------------------------------------------------------------------
(* The chain of the tour                                                   *)

LEMMA LengthOfFunction ==
  ASSUME NEW n \in Nat, NEW S, NEW f \in [1..n -> S]
  PROVE  f \in Seq(S) /\ Len(f) = n
OBVIOUS

LEMMA ChainsHaveSteps == ASSUME NEW r PROVE Chained(ChainFor(r))
<1>1. CASE r = "super_admin"
  BY <1>1 DEF Chained, ChainFor
<1>2. CASE r = "data_owner"
  BY <1>2 DEF Chained, ChainFor
<1>3. CASE r = "admin"
  BY <1>3 DEF Chained, ChainFor
<1>4. CASE r # "super_admin" /\ r # "data_owner" /\ r # "admin"
  <2>1. ChainFor(r) = <<"requests", "inbox", "docs">>
    BY <1>4 DEF ChainFor
  <2> QED BY <2>1 DEF Chained
<1> QED BY <1>1, <1>2, <1>3, <1>4

(* Steps remain when those without a link are dropped.                     *)
LEMMA AnchoredHasSteps ==
  ASSUME NEW steps, Chained(steps), NEW nav
  PROVE  Chained(Anchored(steps, nav))
<1> DEFINE there  == {i \in DOMAIN steps : steps[i] \in NavOf(nav)}
<1> DEFINE ith(k) == CHOOSE i \in there : Cardinality({j \in there : j <= i}) = k
<1> DEFINE kept   == [k \in 1..Cardinality(there) |-> steps[ith(k)]]
<1>1. there \subseteq 1..Len(steps) /\ Len(steps) \in Nat
  BY DEF Chained
<1>2. IsFiniteSet(1..Len(steps))
  BY <1>1, FS_Interval
<1>3. IsFiniteSet(there)
  BY <1>1, <1>2, FS_Subset
<1>4. Cardinality(there) \in Nat
  BY <1>3, FS_CardinalityType
<1>5. Anchored(steps, nav) = IF there = {} THEN steps ELSE kept
  BY DEF Anchored
<1>6. ASSUME there # {} PROVE Chained(kept)
  <2>1. PICK n : n = Cardinality(there) /\ n \in Nat \ {0}
    BY <1>3, <1>4, <1>6, FS_EmptySet
  <2> DEFINE S == {steps[ith(k)] : k \in 1..n}
  <2>2. kept \in [1..n -> S]
    BY <2>1
  <2>3. kept \in Seq(S) /\ Len(kept) = n
    <3> HIDE DEF kept, S
    <3> QED BY <2>1, <2>2, LengthOfFunction
  <2>4. DOMAIN kept = 1..n
    BY <2>1
  <2> HIDE DEF kept
  <2> QED BY <2>1, <2>3, <2>4 DEF Chained
<1> HIDE DEF there, kept
<1> QED BY <1>5, <1>6

-----------------------------------------------------------------------------
(* The tabs                                                                *)

(* The rendering of TourHost mounts, keeps or drops the tour.              *)
LEMMA RenderFits ==
  ASSUME NEW e, NEW b, NEW nav, NEW w, EntryFits(e, w)
  PROVE  EntryFits(Rendered(e, b, nav), w)
<1> DEFINE first == [steps |-> Anchored(e.chain, nav), ix |-> 1]
<1>1. Rendered(e, b, nav) = [e EXCEPT !.tour = IF ~OffersTour(e, b) THEN NoTour
                                               ELSE IF e.tour = NoTour THEN first ELSE e.tour]
  BY DEF Rendered
<1>2. DOMAIN e = EntryFields /\ TourFits(e)
  BY DEF EntryFits
<1>3. OffersTour(e, b) => Chained(e.chain) /\ e.knows # "unknown"
  BY DEF OffersTour, Eligible2, ShowsConnectorsNav, EntryFits
<1>4. PICK tr : /\ Rendered(e, b, nav) = [e EXCEPT !.tour = tr]
                /\ tr = NoTour \/ (OffersTour(e, b) /\ tr \in {first, e.tour})
  BY <1>1
<1>5. TourFits([e EXCEPT !.tour = tr])
  <2>1. CASE tr = NoTour
    BY <2>1, <1>2 DEF TourFits, NoTour, EntryFields
  <2>2. CASE OffersTour(e, b) /\ tr = first
    <3>1. Chained(first.steps) /\ first.ix \in 1..Len(first.steps)
      BY <1>3, <2>2, AnchoredHasSteps DEF Chained
    <3> HIDE DEF first
    <3>2. DOMAIN first = {"steps", "ix"}
      BY DEF first
    <3> QED BY <2>2, <3>1, <3>2, <1>2 DEF TourFits, EntryFields
  <2>3. CASE tr = e.tour
    BY <2>3, <1>2 DEF TourFits, EntryFields
  <2> QED BY <1>4, <2>1, <2>2, <2>3
<1> QED BY <1>2, <1>3, <1>4, <1>5 DEF EntryFits, EntryFields

LEMMA BackFits ==
  ASSUME NEW e, NEW b, NEW w, EntryFits([e EXCEPT !.up = "welcome"], w), DOMAIN e = EntryFields,
         e.knows # "unknown", e.needs => w \/ e.unoffered
  PROVE  EntryFits(BackToPage(e, b), w)
<1> DEFINE back == [e EXCEPT !.up = "page", !.chain = ChainFor(e.knows)]
<1>1. Chained(ChainFor(e.knows))
  BY ChainsHaveSteps
<1>2. EntryFits(back, w)
  BY <1>1 DEF EntryFits, EntryFields, TourFits
<1> HIDE DEF back
<1>3. BackToPage(e, b) = Rendered(back, b, "none")
  BY DEF BackToPage, back
<1> QED BY <1>2, <1>3, RenderFits

LEMMA AnsweredFits ==
  ASSUME NEW e, NEW w, EntryFits(e, w) PROVE EntryFits(e, TRUE)
BY DEF EntryFits

LEMMA TabKeeps ==
  ASSUME EntriesInv, NEW t \in EntryTabs, NEW e, InTab(t, e), EntryFits(e, browser'.welcomed),
         DOMAIN browser' = {"user", "welcomed", "tour"}, browser'.user = browser.user,
         browser'.welcomed \in {TRUE, browser.welcomed}
  PROVE  EntriesInv'
<1>1. \A u \in EntryTabs : EntryFits(entries2[u], browser'.welcomed)
  BY AnsweredFits DEF EntriesInv
<1>2. entries2' = [entries2 EXCEPT ![t] = e] /\ DOMAIN entries2 = EntryTabs
  BY DEF InTab, EntriesInv
<1>3. \A u \in EntryTabs : EntryFits(entries2'[u], browser'.welcomed)
  BY <1>1, <1>2
<1> QED BY <1>2, <1>3 DEF EntriesInv, EntryFits, TourFits, Chained

LEMMA TabOnlyKeeps ==
  ASSUME EntriesInv, NEW t \in EntryTabs, NEW e, InTab(t, e), EntryFits(e, browser.welcomed),
         UNCHANGED browser
  PROVE  EntriesInv'
BY TabKeeps DEF EntriesInv

LEMMA Load2Keeps ==
  ASSUME EntriesInv, NEW t \in EntryTabs, Load2(t) PROVE EntriesInv'
<1>1. PICK path \in BOOLEAN :
        InTab(t, [NoEntry2 EXCEPT !.open = TRUE, !.connect = path, !.seen = entries2[t].seen,
                                  !.later = entries2[t].later, !.as = entries2[t].as])
  BY DEF Load2
<1>2. PICK e : e = [NoEntry2 EXCEPT !.open = TRUE, !.connect = path, !.seen = entries2[t].seen,
                                    !.later = entries2[t].later, !.as = entries2[t].as]
  OBVIOUS
<1>3. entries2[t].as \in {"none", "data_owner"}
  BY DEF EntriesInv, EntryFits
<1>4. EntryFits(e, browser.welcomed)
  BY <1>2, <1>3 DEF EntryFits, EntryFields, NoEntry2, TourFits, NoTour
<1> QED BY <1>1, <1>2, <1>4, TabOnlyKeeps DEF Load2

LEMMA SplashDoneKeeps ==
  ASSUME EntriesInv, NEW t \in EntryTabs, SplashDone(t) PROVE EntriesInv'
<1>1. PICK e, b, new : e = entries2[t] /\ b = browser /\ new = AfterSplash(e, b)
  OBVIOUS
<1>2. InTab(t, new) /\ e.up = "splash" /\ UNCHANGED browser
  BY <1>1 DEF SplashDone
<1>3. EntryFits(e, b.welcomed) /\ b.welcomed \in BOOLEAN
  BY <1>1 DEF EntriesInv
<1> DEFINE seen == [e EXCEPT !.seen = TRUE]
<1>4. ~e.connect /\ e.knows # "unknown" /\ DOMAIN e = EntryFields
  BY <1>2, <1>3 DEF EntryFits
<1>5. ASSUME WelcomeDue(e, b) PROVE EntryFits(new, b.welcomed)
  <2>1. new = [e EXCEPT !.seen = TRUE, !.up = "welcome"]
    BY <1>1, <1>5 DEF AfterSplash
  <2> QED BY <1>3, <1>4, <2>1 DEF EntryFits, EntryFields, TourFits
<1>6. ASSUME ~WelcomeDue(e, b) PROVE EntryFits(new, b.welcomed)
  <2>1. new = BackToPage(seen, b)
    BY <1>1, <1>6 DEF AfterSplash
  <2>2. e.needs => b.welcomed
    BY <1>4, <1>6 DEF WelcomeDue
  <2>3. /\ DOMAIN seen = EntryFields /\ seen.knows # "unknown" /\ (seen.needs => b.welcomed)
        /\ EntryFits([seen EXCEPT !.up = "welcome"], b.welcomed)
    BY <1>3, <1>4, <2>2 DEF EntryFits, EntryFields, TourFits
  <2> HIDE DEF seen
  <2> QED BY <2>1, <2>3, BackFits
<1> QED BY <1>1, <1>2, <1>5, <1>6, <1>3, TabOnlyKeeps

LEMMA AnswerWelcomeKeeps ==
  ASSUME EntriesInv, NEW t \in EntryTabs, AnswerWelcome(t) PROVE EntriesInv'
<1>1. PICK e, b, new : e = entries2[t] /\ b = browser' /\ new = BackToPage(e, b)
  OBVIOUS
<1>2. InTab(t, new) /\ e.up = "welcome" /\ browser' = [browser EXCEPT !.welcomed = TRUE]
  BY <1>1 DEF AnswerWelcome
<1>3. EntryFits(e, TRUE)
  BY <1>1, AnsweredFits DEF EntriesInv
<1>4. /\ DOMAIN e = EntryFields /\ e.knows # "unknown"
      /\ EntryFits([e EXCEPT !.up = "welcome"], TRUE)
  BY <1>2, <1>3 DEF EntryFits, EntryFields, TourFits
<1>5. EntryFits(new, TRUE)
  BY <1>1, <1>4, BackFits
<1>6. /\ DOMAIN browser' = {"user", "welcomed", "tour"} /\ browser'.user = browser.user
      /\ browser'.welcomed = TRUE
  BY <1>2 DEF EntriesInv
<1> QED BY <1>2, <1>5, <1>6, TabKeeps

LEMMA LeaveInviteKeeps ==
  ASSUME EntriesInv, NEW t \in EntryTabs, LeaveInvite(t) PROVE EntriesInv'
<1>1. PICK e, new : e = entries2[t] /\ new = [e EXCEPT !.connect = FALSE]
  OBVIOUS
<1>2. EntryFits(e, browser.welcomed) /\ InTab(t, new) /\ UNCHANGED browser
  BY <1>1 DEF EntriesInv, LeaveInvite
<1>3. EntryFits(new, browser.welcomed)
  BY <1>1, <1>2 DEF EntryFits, EntryFields, TourFits
<1> QED BY <1>2, <1>3, TabOnlyKeeps

LEMMA SimulateKeeps ==
  ASSUME EntriesInv, NEW t \in EntryTabs, Simulate(t) PROVE EntriesInv'
<1>1. PICK r \in {"none", "data_owner"} : InTab(t, [entries2[t] EXCEPT !.as = r])
  BY DEF Simulate
<1>2. PICK e, new : e = entries2[t] /\ new = [e EXCEPT !.as = r]
  OBVIOUS
<1>3. EntryFits(e, browser.welcomed) /\ InTab(t, new) /\ UNCHANGED browser
  BY <1>1, <1>2 DEF EntriesInv, Simulate
<1>4. EntryFits(new, browser.welcomed)
  BY <1>2, <1>3 DEF EntryFits, EntryFields, TourFits
<1> QED BY <1>3, <1>4, TabOnlyKeeps

LEMMA LinksReadKeeps ==
  ASSUME EntriesInv, NEW t \in EntryTabs, LinksRead(t) PROVE EntriesInv'
<1>1. PICK o, b, links :
        o = entries2[t] /\ b = browser /\ links = IF setup.done THEN "ready" ELSE "unready"
  OBVIOUS
<1>2. PICK e : e = [o EXCEPT !.links = links]
  OBVIOUS
<1>3. PICK new : new = IF e.up = "page" THEN Rendered(e, b, e.knows) ELSE e
  OBVIOUS
<1>4. EntryFits(o, browser.welcomed) /\ InTab(t, new) /\ UNCHANGED browser
  BY <1>1, <1>2, <1>3 DEF EntriesInv, LinksRead
<1>5. EntryFits(e, browser.welcomed)
  BY <1>2, <1>4 DEF EntryFits, EntryFields, TourFits
<1>6. EntryFits(new, browser.welcomed)
  BY <1>3, <1>5, RenderFits
<1> QED BY <1>4, <1>6, TabOnlyKeeps

(* The end of a tour leaves a page without one.                            *)
LEMMA EndFits ==
  ASSUME NEW e, NEW w, NEW later, EntryFits(e, w)
  PROVE  EntryFits([e EXCEPT !.over = TRUE, !.tour = NoTour], w)
      /\ EntryFits([e EXCEPT !.over = TRUE, !.tour = NoTour, !.later = later], w)
BY DEF EntryFits, EntryFields, TourFits, NoTour

LEMMA NextStepKeeps ==
  ASSUME EntriesInv, NEW t \in EntryTabs, NextStep(t) PROVE EntriesInv'
<1>0. PICK e : e = entries2[t]
  OBVIOUS
<1>1. PICK over, new :
        over = [e EXCEPT !.over = TRUE, !.tour = NoTour] /\ new = [e EXCEPT !.tour.ix = @ + 1]
  OBVIOUS
<1>2. EntryFits(e, browser.welcomed) /\ EntryFits(over, browser.welcomed)
  BY <1>0, <1>1, EndFits DEF EntriesInv
<1>3. CASE e.tour.ix >= Len(e.tour.steps)
  <2>1. InTab(t, over) /\ browser' = [browser EXCEPT !.tour = "completed"]
    BY <1>0, <1>1, <1>3 DEF NextStep, EndsTour
  <2>2. /\ DOMAIN browser' = {"user", "welcomed", "tour"} /\ browser'.user = browser.user
        /\ browser'.welcomed = browser.welcomed
    BY <2>1 DEF EntriesInv
  <2> QED BY <1>2, <2>1, <2>2, TabKeeps
<1>4. CASE ~(e.tour.ix >= Len(e.tour.steps))
  <2>1. InTab(t, new) /\ UNCHANGED browser
    BY <1>0, <1>1, <1>4 DEF NextStep
  <2>2. e.tour # NoTour /\ DOMAIN e = EntryFields /\ TourFits(e)
    BY <1>0, <1>1, <1>2 DEF NextStep, TourUp, EntryFits
  <2>3. TourFits(new) /\ e.knows # "unknown"
    <3>1. new.tour = [e.tour EXCEPT !.ix = e.tour.ix + 1] /\ new.switched2 = e.switched2
      BY <1>0, <1>1, <2>2 DEF EntryFields
    <3>2. /\ DOMAIN new.tour = {"steps", "ix"} /\ new.tour.steps = e.tour.steps
          /\ new.tour.ix = e.tour.ix + 1
      BY <2>2, <3>1 DEF TourFits
    <3>3. e.switched2 \/ (Chained(new.tour.steps) /\ new.tour.ix \in 1..Len(new.tour.steps))
      BY <2>2, <3>2, <1>4 DEF TourFits, Chained
    <3>4. e.knows # "unknown"
      BY <1>2, <2>2 DEF EntryFits
    <3> QED BY <3>1, <3>2, <3>3, <3>4 DEF TourFits
  <2>4. EntryFits(new, browser.welcomed)
    BY <1>0, <1>1, <1>2, <2>3 DEF EntryFits, EntryFields
  <2> QED BY <2>1, <2>4, TabOnlyKeeps
<1> QED BY <1>3, <1>4

LEMMA SkipTourKeeps ==
  ASSUME EntriesInv, NEW t \in EntryTabs, SkipTour(t) PROVE EntriesInv'
<1>1. PICK e, over : e = entries2[t] /\ over = [e EXCEPT !.over = TRUE, !.tour = NoTour]
  OBVIOUS
<1>2. InTab(t, over) /\ browser' = [browser EXCEPT !.tour = "skipped"]
  BY <1>1 DEF SkipTour, EndsTour
<1>3. EntryFits(over, browser.welcomed)
  BY <1>1, EndFits DEF EntriesInv
<1>4. /\ DOMAIN browser' = {"user", "welcomed", "tour"} /\ browser'.user = browser.user
      /\ browser'.welcomed = browser.welcomed
  BY <1>2 DEF EntriesInv
<1> QED BY <1>2, <1>3, <1>4, TabKeeps

LEMMA NotNowKeeps ==
  ASSUME EntriesInv, NEW t \in EntryTabs, NotNow(t) PROVE EntriesInv'
<1>1. PICK e, over :
        e = entries2[t] /\ over = [e EXCEPT !.over = TRUE, !.tour = NoTour, !.later = TRUE]
  OBVIOUS
<1>2. InTab(t, over) /\ UNCHANGED browser
  BY <1>1 DEF NotNow
<1>3. EntryFits(over, browser.welcomed)
  BY <1>1, EndFits DEF EntriesInv
<1> QED BY <1>2, <1>3, TabOnlyKeeps

(* The answer of /me, by what the frame shows when it comes.               *)
LEMMA AfterMeFits ==
  ASSUME NEW e, NEW b, NEW done, EntryFits(e, b.welcomed), b.welcomed \in BOOLEAN,
         b.user \in {"data_owner", "admin", "super_admin"}
  PROVE  EntryFits(AfterMe(e, b, done), b.welcomed)
<1> DEFINE r     == IF e.as = "none" THEN b.user ELSE e.as
<1> DEFINE needs == r # "super_admin" /\ ~done
<1> DEFINE told  == [e EXCEPT !.knows = r, !.needs = needs]
<1> DEFINE chain == IF r = e.knows THEN e.chain ELSE Anchored(ChainFor(r), e.knows)
<1> DEFINE again == [told EXCEPT !.chain = chain,
                      !.unoffered = @ \/ (needs /\ ~e.needs /\ e.up = "page"),
                      !.switched2 = @ \/ (r # e.knows /\ e.tour # NoTour),
                      !.tour.steps = IF r # e.knows /\ @ # <<>>
                                     THEN Anchored(chain, e.knows) ELSE @]
<1> DEFINE new == AfterMe(e, b, done)
<1>1. new = IF e.knows # "unknown" /\ e.up = "page" THEN Rendered(again, b, e.knows)
            ELSE IF e.knows # "unknown" THEN told
            ELSE IF ~e.connect /\ ~e.seen THEN [told EXCEPT !.up = "splash"]
            ELSE IF WelcomeDue(told, b) THEN [told EXCEPT !.up = "welcome", !.seen = TRUE]
            ELSE [told EXCEPT !.seen = TRUE, !.chain = chain, !.unoffered = needs]
  BY DEF AfterMe
<1>2. DOMAIN e = EntryFields /\ r # "unknown" /\ needs \in BOOLEAN
  BY DEF EntryFits
<1> HIDE DEF new
<1>3. ASSUME r # e.knows \/ (e.knows # "unknown" /\ e.up = "page") PROVE Chained(chain)
  <2>1. Chained(ChainFor(r))
    BY ChainsHaveSteps
  <2>2. Chained(Anchored(ChainFor(r), e.knows))
    BY <2>1, AnchoredHasSteps
  <2>3. CASE r = e.knows
    <3>1. Chained(e.chain)
      BY <1>2, <1>3, <2>3 DEF EntryFits
    <3> QED BY <2>3, <3>1
  <2>4. CASE r # e.knows
    BY <2>2, <2>4
  <2> QED BY <2>3, <2>4
<1>4. ASSUME e.knows # "unknown", e.up = "page" PROVE EntryFits(new, b.welcomed)
  <2>1. TourFits(again)
    <3>1. DOMAIN e.tour = {"steps", "ix"} /\ TourFits(e)
      BY <1>2 DEF EntryFits, TourFits
    <3>2. PICK steps, changed :
            /\ steps = IF r # e.knows /\ e.tour.steps # <<>>
                       THEN Anchored(chain, e.knows) ELSE e.tour.steps
            /\ changed = (e.switched2 \/ (r # e.knows /\ e.tour # NoTour))
      OBVIOUS
    <3>3. again.tour = [e.tour EXCEPT !.steps = steps] /\ again.switched2 = changed
      BY <1>2, <3>2 DEF EntryFields
    <3>4. CASE r = e.knows
      <4>1. again.tour.steps = e.tour.steps /\ again.tour.ix = e.tour.ix
            /\ DOMAIN again.tour = {"steps", "ix"} /\ again.switched2 = changed
        BY <3>1, <3>2, <3>3, <3>4
      <4>2. changed = e.switched2
        BY <3>2, <3>4, <1>2 DEF EntryFits
      <4>3. e.tour = NoTour => again.tour = NoTour
        BY <4>1, <3>1 DEF NoTour
      <4> QED BY <3>1, <4>1, <4>2, <4>3 DEF TourFits
    <3>5. CASE r # e.knows /\ e.tour # NoTour
      BY <3>1, <3>2, <3>3, <3>5 DEF TourFits
    <3>6. CASE e.tour = NoTour
      BY <3>1, <3>2, <3>3, <3>6 DEF TourFits, NoTour
    <3> QED BY <3>4, <3>5, <3>6
  <2>2. DOMAIN again = EntryFields
    BY <1>2 DEF EntryFields
  <2>3. /\ again.knows = r /\ again.needs = needs /\ again.up = "page" /\ again.connect = e.connect
        /\ again.as = e.as /\ again.chain = chain
        /\ again.unoffered = (e.unoffered \/ (needs /\ ~e.needs))
        /\ again.switched2 = (e.switched2 \/ (r # e.knows /\ e.tour # NoTour))
    BY <1>2, <1>4 DEF EntryFields
  <2>4. EntryFits(again, b.welcomed)
    BY <1>2, <1>3, <1>4, <2>1, <2>2, <2>3 DEF EntryFits
  <2> QED BY <1>1, <1>4, <2>4, RenderFits
<1>5. ASSUME e.knows # "unknown", e.up # "page" PROVE EntryFits(new, b.welcomed)
  BY <1>1, <1>2, <1>5 DEF EntryFits, EntryFields, TourFits
<1>6. ASSUME e.knows = "unknown" PROVE EntryFits(new, b.welcomed)
  <2>1. Chained(chain) /\ e.tour = NoTour /\ e.up = "page"
    BY <1>2, <1>3, <1>6 DEF EntryFits
  <2>2. CASE ~e.connect /\ ~e.seen
    <3>1. new = [told EXCEPT !.up = "splash"]
      BY <1>1, <1>6, <2>2
    <3> QED BY <1>2, <2>1, <2>2, <3>1 DEF EntryFits, EntryFields, TourFits
  <2>3. CASE ~(~e.connect /\ ~e.seen) /\ WelcomeDue(told, b)
    <3>1. new = [told EXCEPT !.up = "welcome", !.seen = TRUE]
      BY <1>1, <1>6, <2>3
    <3> QED BY <1>2, <2>1, <3>1 DEF EntryFits, EntryFields, TourFits
  <2>4. CASE ~(~e.connect /\ ~e.seen) /\ ~WelcomeDue(told, b)
    <3>1. new = [told EXCEPT !.seen = TRUE, !.chain = chain, !.unoffered = needs]
      BY <1>1, <1>6, <2>4
    <3> QED BY <1>2, <2>1, <3>1 DEF EntryFits, EntryFields, TourFits
  <2> QED BY <2>2, <2>3, <2>4
<1> QED BY <1>4, <1>5, <1>6 DEF new

LEMMA MeToldKeeps ==
  ASSUME EntriesInv, NEW t \in EntryTabs, MeTold(t) PROVE EntriesInv'
<1>1. PICK e, b, done, new :
        e = entries2[t] /\ b = browser /\ done = setup.done /\ new = AfterMe(e, b, done)
  OBVIOUS
<1>2. EntryFits(new, browser.welcomed)
  BY <1>1, AfterMeFits DEF EntriesInv
<1> QED BY <1>1, <1>2, TabOnlyKeeps DEF MeTold

LEMMA EntriesStep ==
  ASSUME EntriesInv, ShellNext, shellDesk = "entry" PROVE EntriesInv'
<1>1. \/ \E t \in EntryTabs :
           \/ Load2(t) \/ MeTold(t) \/ SplashDone(t) \/ AnswerWelcome(t) \/ LinksRead(t)
           \/ LeaveInvite(t) \/ Simulate(t) \/ NextStep(t) \/ SkipTour(t) \/ NotNow(t)
      \/ SetupMoves
  BY DEF ShellNext
<1>2. CASE SetupMoves
  BY <1>2 DEF SetupMoves, EntriesInv
<1> QED BY <1>1, <1>2, Load2Keeps, MeToldKeeps, SplashDoneKeeps, AnswerWelcomeKeeps, LinksReadKeeps,
           LeaveInviteKeeps, SimulateKeeps, NextStepKeeps, SkipTourKeeps, NotNowKeeps

-----------------------------------------------------------------------------
(* The palette                                                             *)

LEMMA FoundIsListed ==
  ASSUME NEW p, PaletteShape(p)
  PROVE  /\ FoundFor(p) \in Seq(PaletteIds) /\ Items2(p) \in Seq(PaletteIds)
         /\ Len(Items2(p)) \in Nat
<1>1. p.text \in PaletteTexts /\ p.results \in [PaletteTexts -> Seq(PaletteIds)]
  BY DEF PaletteShape
<1>2. FoundFor(p) \in Seq(PaletteIds)
  BY <1>1 DEF FoundFor
<1>3. PalettePeople \in Seq(PaletteIds) /\ PaletteActions(p.text) \in Seq(PaletteIds)
  BY <1>1, ShellAssumption
<1>4. PICK people :
        people \in {PalettePeople, <<>>} /\ people = IF p.people THEN PalettePeople ELSE <<>>
  OBVIOUS
<1>5. people \in Seq(PaletteIds)
  BY <1>3, <1>4
<1>6. FoundFor(p) \o people \in Seq(PaletteIds)
  BY <1>2, <1>5, ConcatProperties
<1>7. Items2(p) = (FoundFor(p) \o people) \o PaletteActions(p.text)
  BY <1>4 DEF Items2
<1>8. Items2(p) \in Seq(PaletteIds)
  BY <1>3, <1>6, <1>7, ConcatProperties
<1> QED BY <1>2, <1>8, LenProperties

(* An item of the list is one of the people, of the actions or of what was *)
(* found for the text.                                                     *)
LEMMA ItemListed ==
  ASSUME NEW p, PaletteShape(p), NEW k \in 1..Len(Items2(p))
  PROVE  \E s \in PaletteGroups(p.text) : \E i \in DOMAIN s : Items2(p)[k] = s[i]
<1>1. p.text \in PaletteTexts /\ p.results \in [PaletteTexts -> Seq(PaletteIds)]
  BY DEF PaletteShape
<1>2. FoundFor(p) \in Seq(PaletteIds)
  BY FoundIsListed
<1>3. PalettePeople \in Seq(PaletteIds) /\ PaletteActions(p.text) \in Seq(PaletteIds)
  BY <1>1, ShellAssumption
<1>4. PICK people :
        people \in {PalettePeople, <<>>} /\ people = IF p.people THEN PalettePeople ELSE <<>>
  OBVIOUS
<1>5. people \in Seq(PaletteIds)
  BY <1>3, <1>4
<1>6. PICK found, acts : found = FoundFor(p) /\ acts = PaletteActions(p.text)
  OBVIOUS
<1>7. Items2(p) = (found \o people) \o acts
  BY <1>4, <1>6 DEF Items2
<1>8. /\ found \in Seq(PaletteIds) /\ acts \in Seq(PaletteIds)
      /\ found \o people \in Seq(PaletteIds)
      /\ Len(found) \in Nat /\ Len(people) \in Nat /\ Len(acts) \in Nat
      /\ DOMAIN found = 1..Len(found) /\ DOMAIN people = 1..Len(people)
      /\ DOMAIN acts = 1..Len(acts)
      /\ Len(found \o people) = Len(found) + Len(people)
      /\ Len(Items2(p)) = Len(found) + Len(people) + Len(acts)
  <2>1. found \in Seq(PaletteIds) /\ acts \in Seq(PaletteIds)
    BY <1>2, <1>3, <1>6
  <2>2. found \o people \in Seq(PaletteIds) /\ Len(found \o people) = Len(found) + Len(people)
    BY <2>1, <1>5, ConcatProperties
  <2>3. Len(Items2(p)) = Len(found \o people) + Len(acts)
    BY <2>1, <2>2, <1>7, ConcatProperties
  <2> QED BY <2>1, <2>2, <2>3, <1>5, LenProperties
<1>9. CASE k <= Len(found)
  <2>1. (found \o people)[k] = found[k] /\ Items2(p)[k] = found[k]
    <3>1. k \in 1..Len(found) + Len(people) /\ k \in 1..Len(found \o people) + Len(acts)
      BY <1>8, <1>9
    <3>2. (found \o people)[k] = found[k]
      BY <3>1, <1>5, <1>8, <1>9, ConcatProperties
    <3>3. ((found \o people) \o acts)[k] = (found \o people)[k]
      BY <3>1, <1>8, <1>9, ConcatProperties
    <3> QED BY <3>2, <3>3, <1>7
  <2>2. k \in DOMAIN found /\ found # <<>>
    BY <1>8, <1>9
  <2>3. found \in PaletteFinds(p.text)
    BY <1>1, <1>6, <2>2 DEF FoundFor, PaletteShape
  <2> QED BY <2>1, <2>2, <2>3 DEF PaletteGroups
<1>10. CASE ~(k <= Len(found)) /\ k <= Len(found) + Len(people)
  <2>1. k \in 1..Len(found) + Len(people) /\ k \in 1..Len(found \o people) + Len(acts)
    BY <1>8, <1>10
  <2>2. (found \o people)[k] = people[k - Len(found)]
    BY <2>1, <1>5, <1>8, <1>10, ConcatProperties
  <2>3. ((found \o people) \o acts)[k] = (found \o people)[k]
    BY <2>1, <1>8, <1>10, ConcatProperties
  <2>4. k - Len(found) \in DOMAIN people /\ people # <<>>
    BY <1>8, <1>10
  <2>5. people = PalettePeople
    BY <1>4, <2>4
  <2> QED BY <2>2, <2>3, <2>4, <2>5, <1>7 DEF PaletteGroups
<1>11. CASE ~(k <= Len(found) + Len(people))
  <2>1. k \in 1..Len(found \o people) + Len(acts)
    BY <1>8
  <2>2. ((found \o people) \o acts)[k] = acts[k - Len(found \o people)]
    BY <2>1, <1>8, <1>11, ConcatProperties
  <2>3. k - Len(found \o people) \in DOMAIN acts
    BY <1>8, <1>11
  <2> QED BY <2>2, <2>3, <1>6, <1>7 DEF PaletteGroups
<1> QED BY <1>8, <1>9, <1>10, <1>11

(* What the palette lists depends on the text, the answers and the people. *)
LEMMA SameItems ==
  ASSUME NEW p, NEW q, p.text = q.text, p.results = q.results, p.people = q.people
  PROVE  Items2(p) = Items2(q)
BY DEF Items2, FoundFor

LEMMA ClampFits ==
  ASSUME NEW p, PaletteShape(p)
  PROVE  PaletteShape(Clamped(p)) /\ HighlightFits(Clamped(p))
<1> DEFINE n  == Len(Items2(p))
<1> DEFINE ix == IF n = 0 THEN 1 ELSE IF p.ix > n THEN n ELSE p.ix
<1>1. Clamped(p) = [p EXCEPT !.ix = ix]
  BY DEF Clamped
<1>2. n \in Nat /\ p.ix \in Nat \ {0} /\ DOMAIN p = PaletteFields
  BY FoundIsListed DEF PaletteShape, PaletteFields
<1>3. ix \in Nat \ {0} /\ (n # 0 => ix <= n)
  BY <1>2
<1> HIDE DEF n, ix
<1>4. PICK c : c = Clamped(p)
  OBVIOUS
<1>5. /\ DOMAIN c = PaletteFields /\ c.ix = ix /\ c.text = p.text /\ c.results = p.results
      /\ c.people = p.people /\ c.opened = p.opened /\ c.asked = p.asked /\ c.open = p.open
  BY <1>1, <1>2, <1>4 DEF PaletteFields
<1>6. PaletteShape(c)
  BY <1>3, <1>5 DEF PaletteShape, PaletteFields
<1>7. Items2(c) = Items2(p)
  BY <1>5, SameItems
<1>8. Items2(c) # <<>> => n # 0
  BY FoundIsListed, EmptySeq, <1>7 DEF n
<1>9. HighlightFits(c)
  BY <1>3, <1>5, <1>7, <1>8 DEF HighlightFits, n
<1> QED BY <1>4, <1>6, <1>9

LEMMA ClearFits ==
  ASSUME NEW p, PaletteShape(p)
  PROVE  PaletteShape(Cleared(p)) /\ HighlightFits(Cleared(p))
<1>1. PICK c : c = Cleared(p)
  OBVIOUS
<1>2. Blank2 \in PaletteTexts
  BY ShellAssumption DEF Blank2
<1>3. DOMAIN p = PaletteFields
  BY DEF PaletteShape, PaletteFields
<1>4. /\ DOMAIN c = PaletteFields /\ c.ix = 1 /\ c.text = Blank2 /\ c.results = p.results
      /\ c.people = p.people /\ c.opened = p.opened /\ c.open = FALSE
  BY <1>1, <1>3 DEF Cleared, PaletteFields
<1>5. PaletteShape(c) /\ HighlightFits(c)
  BY <1>2, <1>4 DEF PaletteShape, HighlightFits, PaletteFields
<1> QED BY <1>1, <1>5

LEMMA PaletteStep ==
  ASSUME PaletteInv, ShellNext, shellDesk = "palette" PROVE PaletteInv'
<1>1. \/ OpenPalette \/ ShutPalette \/ TypeInPalette \/ SearchAnswered \/ PeopleTold
      \/ MoveInPalette \/ ChooseInPalette
  BY DEF ShellNext
<1>2. PICK p, new : p = palette /\ new = palette'
  OBVIOUS
<1>3. PaletteShape(p) /\ HighlightFits(p) /\ DOMAIN p = PaletteFields
  BY <1>2 DEF PaletteInv, HighlightFits, PaletteShape, PaletteFields
<1>4. SUFFICES PaletteShape(new) /\ HighlightFits(new)
  BY <1>2 DEF PaletteInv, HighlightFits, PaletteShape, Items2, FoundFor
<1>5. CASE OpenPalette
  <2>1. PICK o : o = [p EXCEPT !.open = TRUE, !.ix = 1]
    OBVIOUS
  <2>2. PaletteShape(o)
    BY <1>3, <2>1 DEF PaletteShape, PaletteFields
  <2> QED BY <1>2, <1>5, <2>1, <2>2, ClampFits DEF OpenPalette
<1>6. CASE ShutPalette
  <2>1. CASE new = Cleared(p)
    BY <1>3, <2>1, ClearFits
  <2>2. CASE new = [p EXCEPT !.open = FALSE]
    BY <1>3, <2>2 DEF PaletteShape, HighlightFits, PaletteFields
  <2> QED BY <1>2, <1>6, <2>1, <2>2 DEF ShutPalette
<1>7. CASE TypeInPalette
  <2>1. PICK q \in PaletteTexts : 
          new = Clamped([p EXCEPT !.text = q, !.ix = 1, !.asked = @ \cup {q}])
    BY <1>2, <1>7 DEF TypeInPalette
  <2>2. PICK o : o = [p EXCEPT !.text = q, !.ix = 1, !.asked = @ \cup {q}]
    OBVIOUS
  <2>3. PaletteShape(o)
    BY <1>3, <2>2 DEF PaletteShape, PaletteFields
  <2> QED BY <2>1, <2>2, <2>3, ClampFits
<1>8. CASE SearchAnswered
  <2>0. PICK q \in PaletteTexts :
          \E found \in PaletteFinds(q) : new = Clamped([p EXCEPT !.results[q] = found])
    BY <1>2, <1>8 DEF SearchAnswered
  <2>1. PICK found \in PaletteFinds(q) : new = Clamped([p EXCEPT !.results[q] = found])
    BY <2>0
  <2>2. PICK o : o = [p EXCEPT !.results[q] = found]
    OBVIOUS
  <2>3. found \in Seq(PaletteIds)
    BY <2>1, ShellAssumption
  <2>4. /\ DOMAIN o = PaletteFields /\ o.ix = p.ix /\ o.text = p.text
        /\ o.results = [p.results EXCEPT ![q] = found] /\ o.opened = p.opened
    BY <1>3, <2>2 DEF PaletteFields
  <2>5. PaletteShape(o)
    BY <1>3, <2>1, <2>3, <2>4 DEF PaletteShape, PaletteFields
  <2> QED BY <2>1, <2>2, <2>5, ClampFits
<1>9. CASE PeopleTold
  <2>1. PICK o : o = [p EXCEPT !.people = TRUE]
    OBVIOUS
  <2>2. PaletteShape(o)
    BY <1>3, <2>1 DEF PaletteShape, PaletteFields
  <2> QED BY <1>2, <1>9, <2>1, <2>2, ClampFits DEF PeopleTold
<1>10. CASE MoveInPalette
  <2>1. PICK n : n = Len(Items2(p)) /\ n \in Nat
    BY <1>3, FoundIsListed
  <2>2. n > 0 /\ \E i \in {1 + (p.ix % n), 1 + ((p.ix + n - 2) % n)} : new = [p EXCEPT !.ix = i]
    BY <1>2, <1>10, <2>1 DEF MoveInPalette
  <2>3. PICK i \in {1 + (p.ix % n), 1 + ((p.ix + n - 2) % n)} : new = [p EXCEPT !.ix = i]
    BY <2>2
  <2>4. p.ix \in Nat \ {0}
    BY <1>3 DEF PaletteShape
  <2>5. i \in 1..n
    <3>1. PICK x, y : x = p.ix % n /\ y = (p.ix + n - 2) % n
      OBVIOUS
    <3>2. p.ix \in Nat /\ p.ix + n - 2 \in Int /\ n \in Nat \ {0}
      BY <2>1, <2>2, <2>4
    <3>3. x \in 0..(n - 1) /\ y \in 0..(n - 1)
      BY <3>1, <3>2
    <3> QED BY <2>1, <2>3, <3>1, <3>3
  <2>6. /\ DOMAIN new = PaletteFields /\ new.ix = i /\ new.text = p.text /\ new.results = p.results
        /\ new.people = p.people /\ new.opened = p.opened
    BY <1>3, <2>3 DEF PaletteFields
  <2>7. Items2(new) = Items2(p)
    BY <2>6, SameItems
  <2>8. PaletteShape(new)
    BY <1>3, <2>1, <2>5, <2>6 DEF PaletteShape, PaletteFields
  <2> QED BY <2>1, <2>5, <2>6, <2>7, <2>8 DEF HighlightFits
<1>11. CASE ChooseInPalette
  <2>1. PICK k : k = p.ix /\ k \in 1..Len(Items2(p))
    BY <1>2, <1>3, <1>11, FoundIsListed DEF ChooseInPalette, PaletteShape
  <2>2. PICK it : it = Items2(p)[k]
    OBVIOUS
  <2>3. \E s \in PaletteGroups(p.text) : \E i \in DOMAIN s : it = s[i]
    BY <1>3, <2>1, <2>2, ItemListed
  <2>4. PICK o : o = [p EXCEPT !.opened = [text |-> p.text, it |-> it]]
    OBVIOUS
  <2>5. PaletteShape(o)
    BY <1>3, <2>3, <2>4 DEF PaletteShape, PaletteFields
  <2>6. new = Cleared(o)
    BY <1>2, <1>11, <2>1, <2>2, <2>4 DEF ChooseInPalette
  <2> QED BY <2>5, <2>6, ClearFits
<1> QED BY <1>1, <1>5, <1>6, <1>7, <1>8, <1>9, <1>10, <1>11

-----------------------------------------------------------------------------
(* The menus                                                               *)

MenuFits(v) ==
  v \in MenuShapes /\ (v.timer => ~v.inside) /\ (v.open /\ ~v.inside /\ ~v.timer => v.keys)

(* What an action makes of a menu.                                         *)
LEMMA MenuForms ==
  ASSUME NEW x, MenuFits(x)
  PROVE  /\ MenuFits([[x EXCEPT !.open = TRUE, !.timer = FALSE] EXCEPT !.inside = TRUE])
         /\ MenuFits([x EXCEPT !.inside = FALSE, !.timer = TRUE])
         /\ MenuFits([[x EXCEPT !.open = FALSE, !.timer = FALSE, !.keys = FALSE]
                         EXCEPT !.timer = FALSE])
         /\ MenuFits([x EXCEPT !.open = ~@, !.keys = ~x.open /\ ~x.inside])
         /\ MenuFits([[x EXCEPT !.open = TRUE, !.timer = FALSE] EXCEPT !.keys = TRUE])
         /\ MenuFits([x EXCEPT !.open = FALSE, !.timer = FALSE, !.keys = FALSE])
BY DEF MenuFits, MenuShapes

LEMMA MenuStep ==
  ASSUME MenuInv, ShellNext, shellDesk = "menu" PROVE MenuInv'
<1>1. menus \in [Menus -> MenuShapes] /\ \A m \in Menus : MenuFits(menus[m])
  BY DEF MenuInv, MenuTold, MenuShapes, MenuFits
<1>2. SUFFICES menus' \in [Menus -> MenuShapes] /\ \A m \in Menus : MenuFits(menus'[m])
  BY DEF MenuInv, MenuTold, MenuShapes, MenuFits
<1>3. ASSUME NEW m \in Menus, NEW v, MenuFits(v), OnMenu(m, v)
      PROVE  menus' \in [Menus -> MenuShapes] /\ \A n \in Menus : MenuFits(menus'[n])
  BY <1>1, <1>3 DEF OnMenu, MenuFits
<1>4. ASSUME NEW m \in Menus,
             \/ PointerEnters(m) \/ PointerLeaves(m) \/ MenuTimer(m) \/ PressMenuButton(m)
             \/ ArrowDown(m) \/ LeaveMenu(m)
      PROVE  \E v : OnMenu(m, v) /\ MenuFits(v)
  <2> USE <1>1, MenuForms
  <2>1. CASE PointerEnters(m)
    BY <2>1 DEF PointerEnters, Opened
  <2>2. CASE PointerLeaves(m)
    BY <2>2 DEF PointerLeaves
  <2>3. CASE MenuTimer(m)
    BY <2>3 DEF MenuTimer, Closed2
  <2>4. CASE PressMenuButton(m)
    BY <2>4 DEF PressMenuButton
  <2>5. CASE ArrowDown(m)
    BY <2>5 DEF ArrowDown, Opened
  <2>6. CASE LeaveMenu(m)
    BY <2>6 DEF LeaveMenu, Closed2
  <2> QED BY <1>4, <2>1, <2>2, <2>3, <2>4, <2>5, <2>6
<1>5. CASE PressElsewhere
  BY <1>1, <1>5 DEF PressElsewhere, Closed2, MenuFits, MenuShapes
<1> QED BY <1>3, <1>4, <1>5 DEF ShellNext

-----------------------------------------------------------------------------
(* The frame                                                               *)

LEMMA ShellStarts == ShellInit => ShellInv
<1> SUFFICES ASSUME ShellInit PROVE ShellInv
  OBVIOUS
<1>1. EntriesInv
  <2>1. /\ DOMAIN browser = {"user", "welcomed", "tour"} /\ browser.welcomed = FALSE
        /\ browser.user \in Principals \cup {"admin"}
    BY DEF ShellInit
  <2>2. EntryFits(NoEntry2, FALSE)
    BY DEF EntryFits, EntryFields, NoEntry2, TourFits, NoTour
  <2>3. entries2 = [t \in EntryTabs |-> NoEntry2]
    BY DEF ShellInit
  <2> QED BY <2>1, <2>2, <2>3, ShellAssumption DEF EntriesInv
<1>2. PaletteInv
  <2>1. Blank2 \in PaletteTexts
    BY ShellAssumption DEF Blank2
  <2>2. palette = [open |-> FALSE, text |-> Blank2, ix |-> 1,
                   results |-> [q \in PaletteTexts |-> <<>>],
                   people |-> FALSE, asked |-> {}, opened |-> [text |-> Blank2, it |-> "none"]]
    BY DEF ShellInit
  <2>3. [q \in PaletteTexts |-> <<>>] \in [PaletteTexts -> Seq(PaletteIds)]
    BY EmptySeq
  <2> QED BY <2>1, <2>2, <2>3 DEF PaletteInv, HighlightFits, PaletteShape, PaletteFields
<1>3. MenuInv
  BY DEF ShellInit, MenuInv, MenuTold, MenuShapes
<1> QED BY <1>1, <1>2, <1>3 DEF ShellInv

LEMMA ShellStep == ShellInv /\ [ShellNext]_shellVars => ShellInv'
<1> SUFFICES ASSUME ShellInv, [ShellNext]_shellVars PROVE ShellInv'
  OBVIOUS
<1> USE DEF ShellInv
<1>1. CASE ShellNext /\ shellDesk = "entry"
  <2>1. UNCHANGED <<palette, menus>>
    BY <1>1 DEF ShellNext
  <2>2. PaletteInv' /\ MenuInv'
    BY <2>1 DEF PaletteInv, HighlightFits, PaletteShape, Items2, FoundFor, MenuInv, MenuTold
  <2> QED BY <1>1, <2>2, EntriesStep
<1>2. CASE ShellNext /\ shellDesk = "palette"
  <2>1. UNCHANGED <<browser, entries2, menus>>
    BY <1>2 DEF ShellNext
  <2>2. EntriesInv' /\ MenuInv'
    BY <2>1 DEF EntriesInv, EntryFits, TourFits, Chained, MenuInv, MenuTold
  <2> QED BY <1>2, <2>2, PaletteStep
<1>3. CASE ShellNext /\ shellDesk = "menu"
  <2>1. UNCHANGED <<browser, entries2, palette>>
    BY <1>3 DEF ShellNext
  <2>2. EntriesInv' /\ PaletteInv'
    BY <2>1 DEF EntriesInv, EntryFits, TourFits, Chained, PaletteInv, HighlightFits, PaletteShape,
                Items2, FoundFor
  <2> QED BY <1>3, <2>2, MenuStep
<1>4. CASE UNCHANGED shellVars
  <2>1. UNCHANGED <<browser, entries2, palette, menus>>
    BY <1>4 DEF shellVars
  <2> QED BY <2>1 DEF EntriesInv, EntryFits, TourFits, Chained, PaletteInv, HighlightFits, PaletteShape,
                      Items2, FoundFor, MenuInv, MenuTold
<1> QED BY <1>1, <1>2, <1>3, <1>4 DEF ShellNext

LEMMA ShellShows == ShellInv => ShellTold
<1> SUFFICES ASSUME ShellInv PROVE ShellTold
  OBVIOUS
<1>1. WelcomeOffered
  BY DEF ShellInv, EntriesInv, EntryFits, WelcomeOffered
<1>2. TourStands
  <2> SUFFICES ASSUME NEW t \in EntryTabs, entries2[t].tour # NoTour, ~entries2[t].switched2
               PROVE  TourUp(t)
    BY DEF TourStands
  <2>1. TourFits(entries2[t])
    BY DEF ShellInv, EntriesInv, EntryFits
  <2> QED BY <2>1 DEF TourFits, Chained, TourUp
<1>3. PaletteTold
  <2>1. PaletteShape(palette) /\ HighlightFits(palette)
    BY DEF ShellInv, PaletteInv
  <2>2. Len(Items2(palette)) \in Nat /\ palette.ix \in Nat \ {0}
    BY <2>1, FoundIsListed DEF PaletteShape
  <2> QED BY <2>1, <2>2 DEF PaletteTold, PaletteShape, HighlightFits
<1> QED BY <1>1, <1>2, <1>3 DEF ShellInv, MenuInv, ShellTold

(* The frame keeps its word: an owner is welcomed, a tour has a step to    *)
(* show, the palette opens what it showed, a menu follows the pointer.     *)
THEOREM FrameAsTold == ShellSpec => []ShellTold
<1>1. ShellInit => ShellInv
  BY ShellStarts
<1>2. ShellInv /\ [ShellNext]_shellVars => ShellInv'
  BY ShellStep
<1>3. ShellInv => ShellTold
  BY ShellShows
<1> QED BY <1>1, <1>2, <1>3, PTL DEF ShellSpec

-----------------------------------------------------------------------------
(* The routes and their searches                                           *)

LEMMA PickTwice ==
  ASSUME NEW raw, NEW oks
  PROVE  Pick(Pick(raw, oks), oks) = Pick(raw, oks)
BY DEF Pick

LEMMA PickKeeps ==
  ASSUME NEW raw, NEW oks, NEW k \in DOMAIN raw, k \in DOMAIN oks, raw[k] \in oks[k]
  PROVE  k \in DOMAIN Pick(raw, oks) /\ Pick(raw, oks)[k] = raw[k]
BY DEF Pick

(* The pages of the pipeline.                                              *)
LEMMA PipelineTwice ==
  ASSUME NEW raw
  PROVE  ParsePipeline(ParsePipeline(raw)) = ParsePipeline(raw)
<1> DEFINE old == IF "tab" \in DOMAIN raw /\ raw["tab"] \in PipelineStages
                    THEN [stage |-> raw["tab"]] ELSE NoSearch
           s   == ParsePipeline(raw)
<1>1. /\ DOMAIN Pick(raw, PipelineKeys) = {k \in DOMAIN raw \cap DOMAIN PipelineKeys : raw[k] \in PipelineKeys[k]}
      /\ \A k \in DOMAIN Pick(raw, PipelineKeys) : Pick(raw, PipelineKeys)[k] = raw[k]
  BY DEF Pick
<1>2. DOMAIN PipelineKeys = {"tab", "process", "stage"}
      /\ PipelineKeys["tab"] = PipelineTabs /\ PipelineKeys["stage"] = PipelineStages
  BY DEF PipelineKeys
<1>3. \A k \in DOMAIN s : k \in DOMAIN PipelineKeys /\ s[k] \in PipelineKeys[k]
  BY <1>1, <1>2 DEF ParsePipeline, Onto, NoSearch, PipelineTabs, PipelineStages
<1>4. "tab" \in DOMAIN s /\ s = [k \in DOMAIN s |-> s[k]]
  BY DEF ParsePipeline, Onto
<1> HIDE DEF s
<1>5. s["tab"] \notin PipelineStages
  BY <1>2, <1>3, <1>4 DEF PipelineTabs, PipelineStages
<1>6. Pick(s, PipelineKeys) = s
  <2>1. {k \in DOMAIN s \cap DOMAIN PipelineKeys : s[k] \in PipelineKeys[k]} = DOMAIN s
    BY <1>3
  <2> QED BY <2>1, <1>4 DEF Pick
<1>7. ParsePipeline(s) = Onto(s, Onto(NoSearch, [tab |-> "pipeline"]))
  BY <1>5, <1>6 DEF ParsePipeline
<1>8. DOMAIN Onto(NoSearch, [tab |-> "pipeline"]) = {"tab"}
  BY DEF Onto, NoSearch
<1>9. Onto(s, Onto(NoSearch, [tab |-> "pipeline"])) = s
  BY <1>4, <1>8 DEF Onto
<1> QED BY <1>7, <1>9 DEF s

(* The other pages, one keeping or rewriting what it picks.                *)
LEMMA PickIs ==
  ASSUME NEW raw, NEW oks
  PROVE  /\ DOMAIN Pick(raw, oks) = {k \in DOMAIN raw \cap DOMAIN oks : raw[k] \in oks[k]}
         /\ \A k \in DOMAIN Pick(raw, oks) : Pick(raw, oks)[k] = raw[k]
         /\ \A k \in DOMAIN Pick(raw, oks) : k \in DOMAIN oks /\ Pick(raw, oks)[k] \in oks[k]
         /\ Pick(raw, oks) = [k \in DOMAIN Pick(raw, oks) |-> Pick(raw, oks)[k]]
BY DEF Pick

(* A function whose values are all good is picked as it is.                *)
LEMMA PickGood ==
  ASSUME NEW f, NEW oks, f = [k \in DOMAIN f |-> f[k]],
         \A k \in DOMAIN f : k \in DOMAIN oks /\ f[k] \in oks[k]
  PROVE  Pick(f, oks) = f
<1>1. {k \in DOMAIN f \cap DOMAIN oks : f[k] \in oks[k]} = DOMAIN f
  OBVIOUS
<1> QED BY <1>1 DEF Pick

(* Writing a good value over a key of a picked search leaves it good.      *)
LEMMA RewriteGood ==
  ASSUME NEW raw, NEW oks, NEW key, NEW v, key \in DOMAIN oks, v \in oks[key]
  PROVE  LET s == [Pick(raw, oks) EXCEPT ![key] = v] IN Pick(s, oks) = s
<1> DEFINE f == Pick(raw, oks)
           s == [f EXCEPT ![key] = v]
<1>1. DOMAIN s = DOMAIN f /\ s = [k \in DOMAIN s |-> s[k]]
  OBVIOUS
<1>2. \A k \in DOMAIN s : s[k] = IF k = key THEN v ELSE f[k]
  OBVIOUS
<1>3. \A k \in DOMAIN s : k \in DOMAIN oks /\ s[k] \in oks[k]
  BY <1>1, <1>2, PickIs
<1> QED BY <1>1, <1>3, PickGood

LEMMA RunsTwice ==
  ASSUME NEW raw
  PROVE  ParseRuns(ParseRuns(raw)) = ParseRuns(raw)
<1> DEFINE f == Pick(raw, RunsKeys)
           s == [f EXCEPT !["since"] = "instant"]
<1>1. CASE "since" \in DOMAIN f
  <2>1. "since" \in DOMAIN RunsKeys /\ "instant" \in RunsKeys["since"]
    BY DEF RunsKeys
  <2>2. Pick(s, RunsKeys) = s
    BY <2>1, RewriteGood
  <2>3. ParseRuns(raw) = s
    BY <1>1 DEF ParseRuns
  <2>4. [s EXCEPT !["since"] = "instant"] = s
    OBVIOUS
  <2> QED BY <2>2, <2>3, <2>4 DEF ParseRuns
<1>2. CASE "since" \notin DOMAIN f
  <2>1. ParseRuns(raw) = f
    BY <1>2 DEF ParseRuns
  <2> QED BY <1>2, <2>1, PickTwice DEF ParseRuns
<1> QED BY <1>1, <1>2

LEMMA QueueTwice ==
  ASSUME NEW raw
  PROVE  ParseQueue(ParseQueue(raw)) = ParseQueue(raw)
<1> DEFINE f == Pick(raw, QueueKeys)
           s == [f EXCEPT !["limit"] = "200"]
<1>1. CASE "limit" \in DOMAIN f /\ f["limit"] = "900"
  <2>1. "limit" \in DOMAIN QueueKeys /\ "200" \in QueueKeys["limit"]
    BY DEF QueueKeys
  <2>2. Pick(s, QueueKeys) = s
    BY <2>1, RewriteGood
  <2>3. ParseQueue(raw) = s
    BY <1>1 DEF ParseQueue
  <2>4. s["limit"] # "900"
    BY <1>1
  <2> QED BY <2>2, <2>3, <2>4 DEF ParseQueue
<1>2. CASE ~("limit" \in DOMAIN f /\ f["limit"] = "900")
  <2>1. ParseQueue(raw) = f
    BY <1>2 DEF ParseQueue
  <2> QED BY <1>2, <2>1, PickTwice DEF ParseQueue
<1> QED BY <1>1, <1>2

LEMMA RequestsTwice ==
  ASSUME NEW raw
  PROVE  ParseRequests(ParseRequests(raw)) = ParseRequests(raw)
<1> DEFINE f == Pick(raw, RequestsKeys)
           s == [f EXCEPT !["state"] = "CA"]
<1>1. CASE "state" \in DOMAIN f /\ f["state"] = "ca"
  <2>1. "state" \in DOMAIN RequestsKeys /\ "CA" \in RequestsKeys["state"]
    BY DEF RequestsKeys, Text
  <2>2. Pick(s, RequestsKeys) = s
    BY <2>1, RewriteGood
  <2>3. ParseRequests(raw) = s
    BY <1>1 DEF ParseRequests
  <2>4. s["state"] # "ca"
    BY <1>1
  <2> QED BY <2>2, <2>3, <2>4 DEF ParseRequests
<1>2. CASE ~("state" \in DOMAIN f /\ f["state"] = "ca")
  <2>1. ParseRequests(raw) = f
    BY <1>2 DEF ParseRequests
  <2> QED BY <1>2, <2>1, PickTwice DEF ParseRequests
<1> QED BY <1>1, <1>2

(* What ParsePipeline keeps, and what it gives.                            *)
LEMMA PipelineIs ==
  ASSUME NEW raw
  PROVE  /\ "tab" \in DOMAIN ParsePipeline(raw)
         /\ ParsePipeline(raw) = [k \in DOMAIN ParsePipeline(raw) |-> ParsePipeline(raw)[k]]
         /\ \A k \in DOMAIN ParsePipeline(raw) :
              k \in DOMAIN PipelineKeys /\ ParsePipeline(raw)[k] \in PipelineKeys[k]
         /\ \A k \in DOMAIN Pick(raw, PipelineKeys) :
              k \in DOMAIN ParsePipeline(raw) /\ ParsePipeline(raw)[k] = raw[k]
<1>2. DOMAIN PipelineKeys = {"tab", "process", "stage"}
      /\ PipelineKeys["tab"] = PipelineTabs /\ PipelineKeys["stage"] = PipelineStages
  BY DEF PipelineKeys
<1> DEFINE f   == Pick(raw, PipelineKeys)
           old == IF "tab" \in DOMAIN raw /\ raw["tab"] \in PipelineStages
                    THEN [stage |-> raw["tab"]] ELSE NoSearch
           g   == Onto(old, [tab |-> "pipeline"])
           s   == Onto(f, g)
<1>3. /\ DOMAIN f \subseteq DOMAIN raw \cap DOMAIN PipelineKeys
      /\ \A k \in DOMAIN f : f[k] = raw[k] /\ f[k] \in PipelineKeys[k]
  BY DEF Pick
<1>4. /\ "tab" \in DOMAIN g
      /\ \A k \in DOMAIN g : k \in DOMAIN PipelineKeys /\ g[k] \in PipelineKeys[k]
  BY <1>2 DEF Onto, NoSearch, PipelineTabs, PipelineStages
<1>5. ParsePipeline(raw) = s
  BY DEF ParsePipeline
<1> HIDE DEF f, g
<1>6. /\ DOMAIN s = DOMAIN f \cup DOMAIN g /\ s = [k \in DOMAIN s |-> s[k]]
      /\ \A k \in DOMAIN s : s[k] = IF k \in DOMAIN f THEN f[k] ELSE g[k]
  BY DEF Onto
<1> HIDE DEF s
<1> QED BY <1>3, <1>4, <1>5, <1>6 DEF f

(* "/" keeps the window of Legal Home beside the search of the pipeline.   *)
HomeKeys == [home_window |-> HomeWindows]

LEMMA HomeTwice ==
  ASSUME NEW raw
  PROVE  Parse("/", Parse("/", raw)) = Parse("/", raw)
<1> DEFINE a == ParsePipeline(raw)
           h == Pick(raw, HomeKeys)
           s == Onto(a, h)
<1>1. \A r : Parse("/", r) = Onto(ParsePipeline(r), Pick(r, HomeKeys))
  BY DEF Parse, HomeKeys
<1>2. DOMAIN PipelineKeys = {"tab", "process", "stage"} /\ DOMAIN HomeKeys = {"home_window"}
  BY DEF PipelineKeys, HomeKeys
<1>3. DOMAIN a \subseteq DOMAIN PipelineKeys /\ DOMAIN h \subseteq DOMAIN HomeKeys
  BY PipelineIs, PickIs
<1> HIDE DEF a, h
<1>4. /\ DOMAIN s = DOMAIN a \cup DOMAIN h /\ s = [k \in DOMAIN s |-> s[k]]
      /\ \A k \in DOMAIN a : s[k] = a[k]
      /\ \A k \in DOMAIN h : s[k] = h[k]
  BY <1>2, <1>3 DEF Onto
<1> USE DEF a, h
<1>5. /\ a = [k \in DOMAIN a |-> a[k]]
      /\ \A k \in DOMAIN a : a[k] \in PipelineKeys[k]
  BY PipelineIs
<1>6. /\ h = [k \in DOMAIN h |-> h[k]]
      /\ \A k \in DOMAIN h : h[k] \in HomeKeys[k]
  BY PickIs
<1>7. ParsePipeline(a) = a /\ "tab" \in DOMAIN a
  BY PipelineTwice, PipelineIs
<1> HIDE DEF a, h, s
<1>8. Pick(s, PipelineKeys) = a
  <2>1. {k \in DOMAIN s \cap DOMAIN PipelineKeys : s[k] \in PipelineKeys[k]} = DOMAIN a
    BY <1>2, <1>4, <1>3, <1>5
  <2> QED BY <2>1, <1>4, <1>5 DEF Pick
<1>9. Pick(a, PipelineKeys) = a
  BY <1>3, <1>5, PickGood
<1>10. s["tab"] = a["tab"] /\ "tab" \in DOMAIN s
  BY <1>4, <1>7
<1>11. ParsePipeline(s) = ParsePipeline(a)
  BY <1>7, <1>8, <1>9, <1>10 DEF ParsePipeline
<1>12. Pick(s, HomeKeys) = h
  <2>1. {k \in DOMAIN s \cap DOMAIN HomeKeys : s[k] \in HomeKeys[k]} = DOMAIN h
    BY <1>2, <1>3, <1>4, <1>6
  <2> QED BY <2>1, <1>4, <1>6 DEF Pick
<1>13. Parse("/", raw) = s
  BY <1>1 DEF s, a, h
<1> QED BY <1>1, <1>7, <1>11, <1>12, <1>13 DEF s

(* What a page is shown with is in its own normal form.                    *)
LEMMA ParseTwice ==
  ASSUME NEW to, NEW raw
  PROVE  Parse(to, Parse(to, raw)) = Parse(to, raw)
<1>1. CASE to = "/"
  BY <1>1, HomeTwice
<1>2. CASE to = "/ops/drop-pipeline"
  BY <1>2, PipelineTwice DEF Parse
<1>3. CASE to = "/ops/runs"
  BY <1>3, RunsTwice DEF Parse
<1>4. CASE to = "/ops/workers/$workerName/queue"
  BY <1>4, QueueTwice DEF Parse
<1>5. CASE to = "/requests"
  BY <1>5, RequestsTwice DEF Parse
<1>6. CASE to \in {"/requests/needs-attention", "/requests/inbox-status-lab"}
  BY <1>6, PickTwice DEF Parse, ParseInbox
<1>7. CASE to = "/ops/workers"
  BY <1>7, PickTwice DEF Parse
<1>8. CASE to = "/ops/de-monitor"
  BY <1>8, PickTwice DEF Parse
<1>9. CASE to = "/ops/workers/settings/tables"
  BY <1>9, PickTwice DEF Parse
<1>10. CASE to = "/requests/$requestId"
  BY <1>10, PickTwice DEF Parse
<1>11. CASE to = "/owner/connectors"
  BY <1>11, PickTwice DEF Parse
<1> QED BY <1>1, <1>2, <1>3, <1>4, <1>5, <1>6, <1>7, <1>8, <1>9, <1>10, <1>11 DEF Parse

-----------------------------------------------------------------------------
(* Redirects                                                               *)

(* How many redirects are ahead of a place.                                *)
Rests(p) == Redirect(p) = Nowhere
Once(p)  == Rests(p) \/ Rests(Redirect(p))

LEMMA GoIs ==
  ASSUME NEW to, NEW id, NEW search
  PROVE  /\ Go(to, search).to = to /\ Go(to, search).search = search
         /\ Go(to, search).id = BlankText /\ IsAddress(Go(to, search))
         /\ GoId(to, id).to = to /\ GoId(to, id).id = id /\ GoId(to, id).search = NoSearch
         /\ IsAddress(GoId(to, id))
         /\ InboxPage(search) = Go("/requests/needs-attention", search)
BY DEF Go, GoId, InboxPage, IsAddress

(* "nowhere" is the address of no page.                                    *)
LEMMA GoSomewhere ==
  ASSUME NEW to, to # "nowhere", NEW search
  PROVE  Go(to, search) # Nowhere
BY GoIs DEF Nowhere

(* The pages no redirect leaves.                                           *)
Ends0 == {"/requests/needs-attention", "/requests", "/requests/new", "/docs", "/ops/workers",
          "/ops/workers/settings", "/ops/workers/settings/tables", "/ops/workers/escalations",
          "/ops/workers/$workerName/queue", "/ops/connections", "/ops/runs", "/owner/connectors",
          "/ops/runs/$job/$attemptId", "nowhere"}

LEMMA EndsStay ==
  ASSUME NEW p, p.to \in Ends0
  PROVE  Rests(p)
BY DEF Rests, Ends0, Redirect

(* "/" leaves for the settings only from a tab ParsePipeline does not know. *)
LEMMA HomeStays ==
  ASSUME NEW p, p.to = "/",
         "tab" \in DOMAIN p.search => p.search["tab"] # "configurations"
  PROVE  Rests(p)
BY DEF Rests, Redirect

LEMMA PipelineStays ==
  ASSUME NEW search
  PROVE  Rests(Go("/", ParsePipeline(search)))
<1>1. "tab" \in DOMAIN ParsePipeline(search) => ParsePipeline(search)["tab"] # "configurations"
  BY PipelineIs DEF PipelineKeys, PipelineTabs
<1> QED BY <1>1, GoIs, HomeStays

LEMMA RedirectIs ==
  ASSUME NEW p
  PROVE  /\ IsAddress(Redirect(p))
         /\ \/ Rests(p)
            \/ Redirect(p).to \in Ends0
            \/ p.to = "/ops/drop-pipeline" /\ Redirect(p) = Go("/", ParsePipeline(p.search))
            \/ p.to = "/ops/dashboard" /\ Redirect(p).to = "/ops/drop-pipeline"
<1>1. CASE p.to = "/ops/drop-pipeline"
  <2>1. Redirect(p) = Go("/", ParsePipeline(p.search))
    BY <1>1 DEF Redirect, Parse
  <2> QED BY <2>1, <1>1, GoIs
<1>2. CASE p.to = "/"
  BY <1>2, GoIs DEF Redirect, Settings, Rests, Nowhere, Ends0
<1>3. CASE p.to = "/requests/inbox-status-lab"
  BY <1>3, GoIs DEF Redirect, Ends0
<1>4. CASE p.to = "/requests/$requestId"
  BY <1>4, GoIs DEF Redirect, Rests, Nowhere, Ends0
<1>5. CASE p.to = "/approvals/matching-review"
  BY <1>5, GoIs DEF Redirect, Ends0
<1>6. CASE p.to = "/ops/dashboard"
  BY <1>6, GoIs DEF Redirect
<1>7. CASE p.to \in {"/ops/workers/failed", "/ops/workers/$workerName", "/ops/de-monitor",
                     "/ops/health", "/ops/health/escalations", "/ops/health/configuration"}
  BY <1>7, GoIs DEF Redirect, Ends0
<1>8. CASE p.to \notin {"/", "/ops/drop-pipeline", "/requests/inbox-status-lab",
                        "/requests/$requestId", "/approvals/matching-review", "/ops/dashboard",
                        "/ops/workers/failed", "/ops/workers/$workerName", "/ops/de-monitor",
                        "/ops/health", "/ops/health/escalations", "/ops/health/configuration"}
  BY <1>8, GoIs DEF Redirect, Rests, Nowhere
<1> QED BY <1>1, <1>2, <1>3, <1>4, <1>5, <1>6, <1>7, <1>8

(* Two redirects at most.                                                  *)
LEMMA OnceThenOnce ==
  ASSUME NEW p
  PROVE  Once(Redirect(p)) /\ (Once(p) => Rests(Redirect(p)))
<1>0. Rests(Nowhere)
  BY EndsStay, GoIs DEF Nowhere, Ends0
<1>1. CASE Rests(p)
  BY <1>0, <1>1 DEF Rests, Once
<1>2. CASE Redirect(p).to \in Ends0
  BY <1>2, EndsStay DEF Once
<1>3. CASE Redirect(p) = Go("/", ParsePipeline(p.search))
  BY <1>3, PipelineStays DEF Once
<1>4. CASE p.to = "/ops/dashboard" /\ Redirect(p).to = "/ops/drop-pipeline"
  <2>1. Redirect(Redirect(p)) = Go("/", ParsePipeline(Redirect(p).search))
    BY <1>4 DEF Redirect, Parse
  <2>2. Rests(Redirect(Redirect(p)))
    BY <2>1, PipelineStays
  <2>3. ~Rests(p) /\ ~Rests(Redirect(p))
    <3>1. Redirect(p) # Nowhere
      BY <1>4, GoIs DEF Nowhere
    <3>2. Redirect(Redirect(p)) # Nowhere
      BY <2>1, GoSomewhere
    <3> QED BY <3>1, <3>2 DEF Rests
  <2> QED BY <2>2, <2>3 DEF Once
<1> QED BY <1>1, <1>2, <1>3, <1>4, RedirectIs

-----------------------------------------------------------------------------
(* Links                                                                   *)

(* What the link l asks for is in the search.                              *)
Kept(l, search) ==
  \A k \in DOMAIN l.search : k \in DOMAIN search /\ search[k] = l.search[k]

(* From p the link l lands: here, or past one redirect.                    *)
LandsAt(r, p, l) == Rests(p) /\ Allowed(r, p.to) /\ Kept(l, Parse(p.to, p.search))
Lands(r, p, l)   ==
  IsAddress(p) /\ (LandsAt(r, p, l) \/ (~Rests(p) /\ LandsAt(r, Redirect(p), l)))

Good(f, oks) == \A k \in DOMAIN f : k \in DOMAIN oks /\ f[k] \in oks[k]

LEMMA PickedKept ==
  ASSUME NEW f, NEW oks, Good(f, oks)
  PROVE  \A k \in DOMAIN f : k \in DOMAIN Pick(f, oks) /\ Pick(f, oks)[k] = f[k]
BY DEF Pick, Good

LEMMA BareLands ==
  ASSUME NEW r, NEW p, IsAddress(p), p.to \in Ends0, Allowed(r, p.to), p.search = NoSearch
  PROVE  Lands(r, p, p)
<1>1. DOMAIN p.search = {}
  BY DEF NoSearch
<1> QED BY <1>1, EndsStay DEF Lands, LandsAt, Kept

LEMMA InboxLands ==
  ASSUME NEW r, NEW f, Good(f, InboxKeys)
  PROVE  Lands(r, InboxPage(f), InboxPage(f))
<1> DEFINE p == InboxPage(f)
<1>1. p.to = "/requests/needs-attention" /\ p.search = f /\ IsAddress(p)
  BY GoIs
<1>2. Rests(p) /\ Allowed(r, p.to)
  BY <1>1, EndsStay DEF Ends0, Allowed, OpsPages
<1>3. Parse(p.to, p.search) = Pick(f, InboxKeys)
  BY <1>1 DEF Parse, ParseInbox
<1> QED BY <1>1, <1>2, <1>3, PickedKept DEF Lands, LandsAt, Kept

LEMMA RunsLands ==
  ASSUME NEW f, Good(f, RunsKeys), "since" \notin DOMAIN f
  PROVE  Lands("super_admin", Go("/ops/runs", f), Go("/ops/runs", f))
<1> DEFINE p == Go("/ops/runs", f)
<1>1. p.to = "/ops/runs" /\ p.search = f /\ IsAddress(p)
  BY GoIs
<1>2. Rests(p) /\ Allowed("super_admin", p.to)
  BY <1>1, EndsStay DEF Ends0, Allowed
<1>3. "since" \notin DOMAIN Pick(f, RunsKeys)
  BY DEF Pick
<1>4. Parse(p.to, p.search) = Pick(f, RunsKeys)
  BY <1>1, <1>3 DEF Parse, ParseRuns
<1> QED BY <1>1, <1>2, <1>4, PickedKept DEF Lands, LandsAt, Kept

LEMMA RequestsLands ==
  ASSUME NEW r, NEW f, Good(f, RequestsKeys), "state" \in DOMAIN f => f["state"] # "ca"
  PROVE  Lands(r, Go("/requests", f), Go("/requests", f))
<1> DEFINE p == Go("/requests", f)
<1>1. p.to = "/requests" /\ p.search = f /\ IsAddress(p)
  BY GoIs
<1>2. Rests(p) /\ Allowed(r, p.to)
  BY <1>1, EndsStay DEF Ends0, Allowed, OpsPages
<1>3. "state" \in DOMAIN Pick(f, RequestsKeys) => Pick(f, RequestsKeys)["state"] # "ca"
  BY PickIs DEF Pick
<1>4. Parse(p.to, p.search) = Pick(f, RequestsKeys)
  BY <1>1, <1>3 DEF Parse, ParseRequests
<1> QED BY <1>1, <1>2, <1>4, PickedKept DEF Lands, LandsAt, Kept

LEMMA HomeParses ==
  ASSUME NEW f
  PROVE  /\ \A k \in DOMAIN Pick(f, PipelineKeys) :
              k \in DOMAIN Parse("/", f) /\ Parse("/", f)[k] = f[k]
         /\ \A k \in DOMAIN Pick(f, HomeKeys) :
              k \in DOMAIN Parse("/", f) /\ Parse("/", f)[k] = f[k]
<1> DEFINE a == ParsePipeline(f)
           h == Pick(f, HomeKeys)
           s == Onto(a, h)
<1>1. DOMAIN a \subseteq DOMAIN PipelineKeys /\ DOMAIN h \subseteq DOMAIN HomeKeys
  BY PipelineIs, PickIs
<1>2. /\ \A k \in DOMAIN Pick(f, PipelineKeys) : k \in DOMAIN a /\ a[k] = f[k]
      /\ \A k \in DOMAIN h : h[k] = f[k]
  BY PipelineIs DEF Pick
<1>3. DOMAIN PipelineKeys = {"tab", "process", "stage"} /\ DOMAIN HomeKeys = {"home_window"}
  BY DEF PipelineKeys, HomeKeys
<1>4. Parse("/", f) = s
  BY DEF Parse, HomeKeys
<1> HIDE DEF a, h
<1>5. /\ \A k \in DOMAIN a : k \in DOMAIN s /\ s[k] = a[k]
      /\ \A k \in DOMAIN h : k \in DOMAIN s /\ s[k] = h[k]
  BY <1>1, <1>3 DEF Onto
<1> HIDE DEF s
<1> QED BY <1>2, <1>4, <1>5 DEF h

LEMMA HomeLands ==
  ASSUME NEW r, NEW f,
         \A k \in DOMAIN f : \/ k \in DOMAIN PipelineKeys /\ f[k] \in PipelineKeys[k]
                             \/ k \in DOMAIN HomeKeys /\ f[k] \in HomeKeys[k]
  PROVE  Lands(r, Go("/", f), Go("/", f))
<1> DEFINE p == Go("/", f)
<1>1. p.to = "/" /\ p.search = f /\ IsAddress(p)
  BY GoIs
<1>2. "tab" \in DOMAIN f => f["tab"] # "configurations"
  BY DEF PipelineKeys, HomeKeys, PipelineTabs
<1>3. Rests(p) /\ Allowed(r, p.to)
  BY <1>1, <1>2, HomeStays DEF Allowed, OpsPages
<1>4. \A k \in DOMAIN f : k \in DOMAIN Pick(f, PipelineKeys) \cup DOMAIN Pick(f, HomeKeys)
  BY DEF Pick
<1>5. Kept(p, Parse("/", f))
  BY <1>1, <1>4, HomeParses DEF Kept
<1> QED BY <1>1, <1>3, <1>5 DEF Lands, LandsAt

(* The former address of the pipeline lands past its redirect.             *)
LEMMA PipelineLands ==
  ASSUME NEW r, NEW f, Good(f, PipelineKeys)
  PROVE  Lands(r, Go("/ops/drop-pipeline", f), Go("/ops/drop-pipeline", f))
<1> DEFINE p == Go("/ops/drop-pipeline", f)
           q == Go("/", ParsePipeline(f))
<1>1. IsAddress(p) /\ p.to = "/ops/drop-pipeline" /\ p.search = f /\ q.to = "/" /\ q.search = ParsePipeline(f)
  BY GoIs
<1>2. Redirect(p) = q
  BY <1>1 DEF Redirect, Parse
<1>3. ~Rests(p)
  BY <1>2, GoSomewhere DEF Rests
<1>4. Rests(q) /\ Allowed(r, q.to)
  BY <1>1, PipelineStays DEF Allowed, OpsPages
<1>5. \A k \in DOMAIN f : k \in DOMAIN ParsePipeline(f) /\ ParsePipeline(f)[k] = f[k]
  BY PipelineIs, PickedKept
<1>6. \A k \in DOMAIN ParsePipeline(f) : k \in DOMAIN Pick(ParsePipeline(f), PipelineKeys)
  BY PipelineIs DEF Pick
<1>7. \A k \in DOMAIN f : k \in DOMAIN Parse("/", ParsePipeline(f))
                          /\ Parse("/", ParsePipeline(f))[k] = f[k]
  BY <1>5, <1>6, HomeParses
<1>8. Kept(p, Parse(q.to, q.search))
  BY <1>1, <1>7 DEF Kept
<1> QED BY <1>1, <1>2, <1>3, <1>4, <1>8 DEF Lands, LandsAt

(* A link without a search, to a page of Ends0 or to a request.            *)
LEMMA GoBareLands ==
  ASSUME NEW r, NEW to, to \in Ends0, Allowed(r, to)
  PROVE  /\ Lands(r, Go(to, NoSearch), Go(to, NoSearch))
         /\ \A id : Lands(r, GoId(to, id), GoId(to, id))
BY GoIs, BareLands

LEMMA RequestLands ==
  ASSUME NEW r
  PROVE  Lands(r, GoId("/requests/$requestId", "uuid"), GoId("/requests/$requestId", "uuid"))
<1> DEFINE p == GoId("/requests/$requestId", "uuid")
<1>1. p.to = "/requests/$requestId" /\ p.id = "uuid" /\ p.search = NoSearch /\ IsAddress(p)
  BY GoIs
<1>2. Rests(p) /\ Allowed(r, p.to)
  BY <1>1 DEF Rests, Redirect, Allowed, OpsPages
<1>3. DOMAIN p.search = {}
  BY <1>1 DEF NoSearch
<1> QED BY <1>1, <1>2, <1>3 DEF Lands, LandsAt, Kept

LEMMA GoodNoSearch == \A oks : Good(NoSearch, oks)
BY DEF Good, NoSearch

(* What one key of a search asks for.                                      *)
LEMMA GoodInbox ==
  /\ \A k \in InboxKinds : Good([kind |-> k], InboxKeys)
  /\ \A f \in InboxFilters : Good([filter |-> f], InboxKeys)
  /\ Good([bulk |-> "7"], InboxKeys)
  /\ Good([kind |-> "matching", assignee |-> "x"], InboxKeys)
  /\ Good(NoSearch, InboxKeys)
<1>1. \A k \in InboxKinds : Good([kind |-> k], InboxKeys)
  BY DEF Good, InboxKeys
<1>2. \A f \in InboxFilters : Good([filter |-> f], InboxKeys)
  BY DEF Good, InboxKeys
<1>3. Good([bulk |-> "7"], InboxKeys)
  BY DEF Good, InboxKeys, ProcessIds
<1>4. Good([kind |-> "matching", assignee |-> "x"], InboxKeys)
  BY DEF Good, InboxKeys, InboxKinds, Text
<1> QED BY <1>1, <1>2, <1>3, <1>4, GoodNoSearch

LEMMA NavLand ==
  ASSUME NEW r \in Roles, NEW l \in NavLinks(r)
  PROVE  Lands(r, l, l)
<1>1. CASE r = "super_admin" /\ l = Go("/ops/drop-pipeline", NoSearch)
  BY <1>1, PipelineLands, GoodNoSearch
<1>2. CASE r = "super_admin" /\ l \in {Go("/ops/workers", NoSearch),
             Go("/ops/workers/settings", NoSearch), Go("/ops/runs", NoSearch),
             Go("/ops/connections", NoSearch)}
  BY <1>2, GoBareLands DEF Ends0, Allowed
<1>3. CASE l = Go("/", NoSearch)
  <2>1. DOMAIN NoSearch = {}
    BY DEF NoSearch
  <2> QED BY <1>3, <2>1, HomeLands
<1>4. CASE l \in {InboxPage([kind |-> "triage"]), InboxPage(NoSearch)}
  BY <1>4, InboxLands, GoodInbox DEF InboxKinds
<1>5. CASE l \in {Go("/requests", NoSearch), Go("/docs", NoSearch)}
  BY <1>5, GoBareLands DEF Ends0, Allowed, OpsPages
<1>6. CASE l = Go("/requests", [view |-> "batch"])
  <2>1. Good([view |-> "batch"], RequestsKeys)
    BY DEF Good, RequestsKeys
  <2> QED BY <1>6, <2>1, RequestsLands
<1>7. CASE ShowsConnectors(r) /\ l = Go("/owner/connectors", NoSearch)
  BY <1>7, GoBareLands DEF Ends0, Allowed, OpsPages, ShowsConnectors
<1> QED BY <1>1, <1>2, <1>3, <1>4, <1>5, <1>6, <1>7 DEF NavLinks

LEMMA PaletteLand ==
  ASSUME NEW r \in Roles, NEW l \in PaletteLinks(r)
  PROVE  Lands(r, l, l)
<1>1. CASE l = Go("/", [tab |-> "pipeline"])
  BY <1>1, HomeLands DEF PipelineKeys, PipelineTabs
<1>2. CASE l \in {Go("/requests", NoSearch), Go("/docs", NoSearch), Go("/requests/new", NoSearch)}
  BY <1>2, GoBareLands DEF Ends0, Allowed, OpsPages
<1>3. CASE l = InboxPage(NoSearch)
  BY <1>3, InboxLands, GoodInbox
<1>4. CASE l = GoId("/requests/$requestId", "uuid")
  BY <1>4, RequestLands
<1>5. CASE r = "super_admin" /\ l = Go("/ops/drop-pipeline", [tab |-> "pipeline"])
  <2>1. Good([tab |-> "pipeline"], PipelineKeys)
    BY DEF Good, PipelineKeys, PipelineTabs
  <2> QED BY <1>5, <2>1, PipelineLands
<1>6. CASE r = "super_admin" /\ l \in {Go("/ops/workers", NoSearch), Go("/ops/runs", NoSearch),
             Go("/ops/connections", NoSearch), Go("/ops/workers/escalations", NoSearch)}
  BY <1>6, GoBareLands DEF Ends0, Allowed
<1>7. CASE \E k \in {"matching", "fulfillment", "pending_tasks"} : l = InboxPage([kind |-> k])
  BY <1>7, InboxLands, GoodInbox DEF InboxKinds
<1>8. CASE r \in Owners /\ l = Go("/owner/connectors", NoSearch)
  BY <1>8, GoBareLands DEF Ends0, Allowed, OpsPages
<1>9. CASE \E f \in InboxFilters : l = InboxPage([filter |-> f])
  BY <1>9, InboxLands, GoodInbox
<1> QED BY <1>1, <1>2, <1>3, <1>4, <1>5, <1>6, <1>7, <1>8, <1>9 DEF PaletteLinks

(* What the links to the runs ask for.                                     *)
RunsAsk(f) == Good(f, RunsKeys) /\ "since" \notin DOMAIN f

LEMMA WorkerAsks == \A worker : RunsAsk(RunsForWorker(worker))
BY DEF RunsAsk, Good, RunsForWorker, RunsKeys, RunsWindows

LEMMA WindowAsks ==
  ASSUME NEW w \in WorkersWindows
  PROVE  RunsAsk(Onto([window |-> w], RunsForWorker("matching")))
<1> DEFINE f == RunsForWorker("matching")
           g == [window |-> w]
<1>1. RunsAsk(f)
  BY WorkerAsks
<1>2. Good(g, RunsKeys) /\ "since" \notin DOMAIN g
  BY DEF Good, RunsKeys, RunsWindows, WorkersWindows
<1> HIDE DEF f, g
<1>3. RunsAsk(Onto(g, f))
  BY <1>1, <1>2 DEF RunsAsk, Good, Onto
<1> QED BY <1>3 DEF f, g

LEMMA StageAsks ==
  ASSUME NEW g \in DOMAIN StageJob, NEW t \in DOMAIN StateStatus
  PROVE  RunsAsk(RunsForStage(g, t))
<1>1. StageJob[g] \in RunsJobs
  BY DEF StageJob, RunsJobs
<1>2. StateStatus[t] \in RunsStatus
  BY DEF StateStatus, RunsStatus
<1> QED BY <1>1, <1>2 DEF RunsAsk, Good, RunsForStage, RunsKeys, RunsWindows, ProcessIds

LEMMA OtherAsks ==
  /\ RunsAsk([status |-> "failed"]) /\ RunsAsk([job |-> "matching", window |-> "24h"])
  /\ RunsAsk([request_id |-> "x", window |-> "1w"])
  /\ \A w \in WorkersWindows : RunsAsk([status |-> "failed", window |-> w])
<1>1. RunsAsk([status |-> "failed"])
  BY DEF RunsAsk, Good, RunsKeys, RunsStatus
<1>2. RunsAsk([job |-> "matching", window |-> "24h"])
  BY DEF RunsAsk, Good, RunsKeys, RunsJobs, RunsWindows
<1>3. RunsAsk([request_id |-> "x", window |-> "1w"])
  BY DEF RunsAsk, Good, RunsKeys, Text, RunsWindows
<1>4. \A w \in WorkersWindows : RunsAsk([status |-> "failed", window |-> w])
  BY DEF RunsAsk, Good, RunsKeys, RunsStatus, WorkersWindows, RunsWindows
<1> QED BY <1>1, <1>2, <1>3, <1>4

LEMMA AskLands ==
  ASSUME NEW f, RunsAsk(f)
  PROVE  Lands("super_admin", Go("/ops/runs", f), Go("/ops/runs", f))
BY RunsLands DEF RunsAsk

(* The rows of a table, from the tables page or from a worker.             *)
QueueLink == [GoId("/ops/workers/$workerName/queue", "matching") EXCEPT !.search = [table |-> "x"]]

LEMMA QueueLands == Lands("super_admin", QueueLink, QueueLink)
<1> DEFINE f == [table |-> "x"]
<1>1. /\ QueueLink.to = "/ops/workers/$workerName/queue" /\ QueueLink.search = f
      /\ IsAddress(QueueLink)
  BY DEF QueueLink, GoId, IsAddress
<1>2. Rests(QueueLink) /\ Allowed("super_admin", QueueLink.to)
  BY <1>1, EndsStay DEF Ends0, Allowed
<1>3. Good(f, QueueKeys)
  BY DEF Good, QueueKeys, Text
<1>4. "limit" \notin DOMAIN Pick(f, QueueKeys)
  BY DEF Pick
<1>5. Parse(QueueLink.to, QueueLink.search) = Pick(f, QueueKeys)
  BY <1>1, <1>4 DEF Parse, ParseQueue
<1> QED BY <1>1, <1>2, <1>3, <1>5, PickedKept DEF Lands, LandsAt, Kept

LEMMA TableLands ==
  Lands("super_admin", Go("/ops/workers/settings/tables", [table |-> "x"]),
                       Go("/ops/workers/settings/tables", [table |-> "x"]))
<1> DEFINE f == [table |-> "x"]
           p == Go("/ops/workers/settings/tables", f)
<1>1. p.to = "/ops/workers/settings/tables" /\ p.search = f /\ IsAddress(p)
  BY GoIs
<1>2. Rests(p) /\ Allowed("super_admin", p.to)
  BY <1>1, EndsStay DEF Ends0, Allowed
<1>3. Good(f, TablesKeys)
  BY DEF Good, TablesKeys, Text
<1>4. Parse(p.to, p.search) = Pick(f, TablesKeys)
  BY <1>1 DEF Parse
<1> QED BY <1>1, <1>2, <1>3, <1>4, PickedKept DEF Lands, LandsAt, Kept

LEMMA ConnectorLands ==
  ASSUME NEW r \in Owners
  PROVE  Lands(r, Go("/owner/connectors", [vertical |-> "x"]),
                  Go("/owner/connectors", [vertical |-> "x"]))
<1> DEFINE f == [vertical |-> "x"]
           p == Go("/owner/connectors", f)
<1>1. p.to = "/owner/connectors" /\ p.search = f /\ IsAddress(p)
  BY GoIs
<1>2. Rests(p) /\ Allowed(r, p.to)
  BY <1>1, EndsStay DEF Ends0, Allowed, OpsPages
<1>3. Good(f, ConnectorsKeys)
  BY DEF Good, ConnectorsKeys, Text
<1>4. Parse(p.to, p.search) = Pick(f, ConnectorsKeys)
  BY <1>1 DEF Parse
<1> QED BY <1>1, <1>2, <1>3, <1>4, PickedKept DEF Lands, LandsAt, Kept

(* The pages of Home.                                                      *)
LEMMA DrillLand ==
  ASSUME NEW r, NEW l \in DrillLinks \cup DeadlineLinks \cup HeatmapLinks
  PROVE  Lands(r, l, l)
<1>1. CASE l = Go("/requests", [attention |-> "needs"])
  <2>1. Good([attention |-> "needs"], RequestsKeys)
    BY DEF Good, RequestsKeys
  <2> QED BY <1>1, <2>1, RequestsLands
<1>2. CASE l = Go("/requests", [stage |-> "matching"])
  <2>1. Good([stage |-> "matching"], RequestsKeys)
    BY DEF Good, RequestsKeys, Text
  <2> QED BY <1>2, <2>1, RequestsLands
<1>3. CASE \E s \in RequestsKeys.source : l = Go("/requests", [source |-> s])
  <2>1. \A s \in RequestsKeys.source : Good([source |-> s], RequestsKeys)
    BY DEF Good, RequestsKeys
  <2> QED BY <1>3, <2>1, RequestsLands
<1>4. CASE \E d \in {"overdue", "due_soon", "on_track"} : l = Go("/requests", [due |-> d])
  <2>1. \A d \in {"overdue", "due_soon", "on_track"} : Good([due |-> d], RequestsKeys)
    BY DEF Good, RequestsKeys
  <2> QED BY <1>4, <2>1, RequestsLands
<1>5. CASE \E s \in RequestsKeys.source :
             l = Go("/requests", [source |-> s, request_type |-> "x"])
  <2>1. \A s \in RequestsKeys.source : Good([source |-> s, request_type |-> "x"], RequestsKeys)
    BY DEF Good, RequestsKeys, Text
  <2> QED BY <1>5, <2>1, RequestsLands
<1>6. CASE l = Go("/requests", [request_type |-> "x"])
  <2>1. Good([request_type |-> "x"], RequestsKeys)
    BY DEF Good, RequestsKeys, Text
  <2> QED BY <1>6, <2>1, RequestsLands
<1>7. CASE l = Go("/requests", [state |-> "CA"])
  <2>1. Good([state |-> "CA"], RequestsKeys)
    BY DEF Good, RequestsKeys, Text
  <2> QED BY <1>7, <2>1, RequestsLands
<1>8. "drop" \in RequestsKeys.source
  BY DEF RequestsKeys
<1> QED BY <1>1, <1>2, <1>3, <1>4, <1>5, <1>6, <1>7, <1>8 DEF DrillLinks, DeadlineLinks, HeatmapLinks

LEMMA PipelinePageLand ==
  ASSUME NEW l \in BulkStageLinks \cup PipelineLinks
  PROVE  Lands("super_admin", l, l)
<1>1. CASE \E g \in DOMAIN StageJob, t \in DOMAIN StateStatus : l = Go("/ops/runs", RunsForStage(g, t))
  BY <1>1, StageAsks, AskLands
<1>2. CASE l \in {InboxPage([bulk |-> "7"]), InboxPage(NoSearch)}
  BY <1>2, InboxLands, GoodInbox
<1>3. CASE \E t \in PipelineTabs, g \in PipelineStages :
             l = Go("/", [tab |-> t, process |-> "7", stage |-> g])
  BY <1>3, HomeLands DEF PipelineKeys, ProcessIds
<1>4. CASE l = Go("/ops/runs", RunsForWorker("hash_index_refresh"))
  BY <1>4, WorkerAsks, AskLands
<1>5. CASE l \in {Go("/ops/workers/settings", NoSearch),
                  GoId("/ops/runs/$job/$attemptId", "matching")}
  BY <1>5, GoBareLands DEF Ends0, Allowed
<1>6. CASE l = GoId("/requests/$requestId", "uuid")
  BY <1>6, RequestLands
<1>7. CASE l \in BulkStageLinks
  BY <1>7, <1>1, <1>2 DEF BulkStageLinks
<1>8. CASE l \in PipelineLinks
  BY <1>8, <1>2, <1>3, <1>4, <1>5, <1>6 DEF PipelineLinks
<1> QED BY <1>7, <1>8

LEMMA HomeLand ==
  ASSUME NEW r \in Roles, NEW l \in HomeLinks(r)
  PROVE  Lands(r, l, l)
<1>1. CASE r = "super_admin"
  <2>1. l \in BulkStageLinks \cup PipelineLinks
    BY <1>1 DEF HomeLinks, LegalAdmin
  <2> QED BY <1>1, <2>1, PipelinePageLand
<1>2. CASE r \in LegalAdmin
  <2>0. l \in LegalHomeLinks \cup DrillLinks \cup DeadlineLinks \cup HeatmapLinks
               \cup OwnerQueueLinks
    BY <1>2 DEF HomeLinks, LegalAdmin
  <2>1. CASE l \in DrillLinks \cup DeadlineLinks \cup HeatmapLinks
    BY <2>1, DrillLand
  <2>2. CASE l \in OwnerQueueLinks
    BY <2>2, InboxLands, GoodInbox DEF OwnerQueueLinks, InboxKinds
  <2>3. CASE \E f \in {"unassigned", "assignment_to_legal", "assigned_to_me"} :
               l = InboxPage([filter |-> f])
    BY <2>3, InboxLands, GoodInbox DEF InboxFilters
  <2>4. CASE l = InboxPage(NoSearch)
    BY <2>4, InboxLands, GoodInbox
  <2>5. CASE l = Go("/requests", NoSearch)
    BY <2>5, GoBareLands DEF Ends0, Allowed, OpsPages
  <2>6. CASE l = Go("/", [tab |-> "pipeline", home_window |-> "90"])
    BY <2>6, HomeLands DEF PipelineKeys, PipelineTabs, HomeKeys, HomeWindows
  <2> QED BY <2>0, <2>1, <2>2, <2>3, <2>4, <2>5, <2>6 DEF LegalHomeLinks
<1>3. CASE r \in Owners
  <2>0. l \in OwnerHomeLinks
    BY <1>3 DEF HomeLinks, LegalAdmin, Owners
  <2>1. CASE \E k \in {"matching", "pending_tasks", "fulfillment"} : l = InboxPage([kind |-> k])
    BY <2>1, InboxLands, GoodInbox DEF InboxKinds
  <2>2. CASE l = Go("/owner/connectors", NoSearch)
    BY <1>3, <2>2, GoBareLands DEF Ends0, Allowed, OpsPages
  <2>3. CASE l = Go("/owner/connectors", [vertical |-> "x"])
    BY <1>3, <2>3, ConnectorLands
  <2>4. CASE l = GoId("/requests/$requestId", "uuid")
    BY <2>4, RequestLands
  <2> QED BY <2>0, <2>1, <2>2, <2>3, <2>4 DEF OwnerHomeLinks
<1> QED BY <1>1, <1>2, <1>3 DEF Roles, LegalAdmin, Owners

(* The operations pages, which only a super admin is shown.                *)
LEMMA RunPagesLand ==
  ASSUME NEW l, NEW job,
         \/ l \in RunDetailLinks(job) \/ l \in WorkersLinks \/ l \in QueueLinks(job)
         \/ l \in TablesLinks \/ l \in SettingsLinks
         \/ l = Go("/ops/runs", [status |-> "failed"])
         \/ l = Go("/ops/runs", [job |-> "matching", window |-> "24h"])
  PROVE  Lands("super_admin", l, l)
<1>1. CASE l \in {Go("/ops/runs", NoSearch), Go("/ops/workers/escalations", NoSearch),
                  Go("/ops/workers/settings", NoSearch), Go("/ops/workers", NoSearch),
                  Go("/ops/workers/settings/tables", NoSearch), Go("/ops/connections", NoSearch),
                  GoId("/ops/runs/$job/$attemptId", "matching"),
                  GoId("/ops/workers/$workerName/queue", "matching")}
  BY <1>1, GoBareLands DEF Ends0, Allowed
<1>2. CASE l = Go("/ops/runs", RunsForWorker(job))
  BY <1>2, WorkerAsks, AskLands
<1>3. CASE l = GoId("/requests/$requestId", "uuid")
  BY <1>3, RequestLands
<1>4. CASE \E g \in {"download", "ingest", "matching"} : l = Go("/", [tab |-> "pipeline", stage |-> g])
  BY <1>4, HomeLands DEF PipelineKeys, PipelineTabs, PipelineStages
<1>5. CASE l = Go("/", [tab |-> "hash_refresh"])
  BY <1>5, HomeLands DEF PipelineKeys, PipelineTabs
<1>6. CASE l = QueueLink
  BY <1>6, QueueLands
<1>7. CASE \E w \in WorkersWindows : l = Go("/ops/runs", [status |-> "failed", window |-> w])
  BY <1>7, OtherAsks, AskLands
<1>8. CASE \E w \in WorkersWindows :
             l = Go("/ops/runs", Onto([window |-> w], RunsForWorker("matching")))
  BY <1>8, WindowAsks, AskLands
<1>9. CASE l = Go("/ops/workers/settings/tables", [table |-> "x"])
  BY <1>9, TableLands
<1>10. CASE l \in {Go("/ops/runs", [status |-> "failed"]),
                   Go("/ops/runs", [job |-> "matching", window |-> "24h"])}
  BY <1>10, OtherAsks, AskLands
<1> QED BY <1>1, <1>2, <1>3, <1>4, <1>5, <1>6, <1>7, <1>8, <1>9, <1>10
        DEF RunDetailLinks, WorkersLinks, QueueLinks, TablesLinks, SettingsLinks, QueueLink

LEMMA PageLand ==
  ASSUME NEW r \in Roles, NEW p, Allowed(r, p.to), NEW l \in PageLinks(r, p)
  PROVE  Lands(r, l, l)
<1>0. p.to \in OpsPages => r = "super_admin"
  BY DEF Allowed, OpsPages
<1>1. CASE p.to = "/"
  <2>1. l \in HomeLinks(r)
    BY <1>1 DEF PageLinks
  <2> QED BY <2>1, HomeLand
<1>2. CASE p.to = "/ops/runs"
  <2>1. l \in {GoId("/ops/runs/$job/$attemptId", "matching"),
               GoId("/requests/$requestId", "uuid")} /\ r = "super_admin"
    BY <1>2, <1>0 DEF PageLinks, OpsPages
  <2> QED BY <2>1, GoBareLands, RequestLands DEF Ends0, Allowed
<1>3. CASE p.to = "/ops/runs/$job/$attemptId"
  <2>1. l \in RunDetailLinks(p.id) /\ r = "super_admin"
    BY <1>3, <1>0 DEF PageLinks, OpsPages
  <2> QED BY <2>1, RunPagesLand
<1>4. CASE p.to = "/ops/workers"
  <2>1. l \in WorkersLinks /\ r = "super_admin"
    BY <1>4, <1>0 DEF PageLinks, OpsPages
  <2> QED BY <2>1, RunPagesLand
<1>5. CASE p.to = "/ops/workers/trends"
  <2>1. l \in {Go("/ops/workers", NoSearch), Go("/ops/runs", RunsForWorker("matching"))}
        /\ r = "super_admin"
    BY <1>5, <1>0 DEF PageLinks, OpsPages
  <2> QED BY <2>1, GoBareLands, WorkerAsks, AskLands DEF Ends0, Allowed
<1>6. CASE p.to = "/ops/workers/escalations"
  <2>1. l \in {Go("/ops/workers", NoSearch), Go("/ops/workers/settings", NoSearch)}
        /\ r = "super_admin"
    BY <1>6, <1>0 DEF PageLinks, OpsPages
  <2> QED BY <2>1, GoBareLands DEF Ends0, Allowed
<1>7. CASE p.to = "/ops/workers/settings"
  <2>1. l \in SettingsLinks /\ r = "super_admin"
    BY <1>7, <1>0 DEF PageLinks, OpsPages
  <2> QED BY <2>1, RunPagesLand
<1>8. CASE p.to = "/ops/connections"
  <2>1. l = Go("/ops/workers/settings", NoSearch) /\ r = "super_admin"
    BY <1>8, <1>0 DEF PageLinks, OpsPages
  <2> QED BY <2>1, GoBareLands DEF Ends0, Allowed
<1>9. CASE p.to = "/ops/workers/$workerName/queue"
  <2>1. l \in QueueLinks(p.id) /\ r = "super_admin"
    BY <1>9, <1>0 DEF PageLinks, OpsPages
  <2> QED BY <2>1, RunPagesLand
<1>10. CASE p.to = "/ops/workers/settings/tables"
  <2>1. l \in TablesLinks /\ r = "super_admin"
    BY <1>10, <1>0 DEF PageLinks, OpsPages
  <2> QED BY <2>1, RunPagesLand
<1>11. CASE p.to = "/ops/incidents"
  <2>1. l = Go("/ops/runs", [status |-> "failed"]) /\ r = "super_admin"
    BY <1>11, <1>0 DEF PageLinks, OpsPages
  <2> QED BY <2>1, RunPagesLand
<1>12. CASE p.to = "/ops/jobs"
  <2>1. l = Go("/ops/runs", [job |-> "matching", window |-> "24h"]) /\ r = "super_admin"
    BY <1>12, <1>0 DEF PageLinks, OpsPages
  <2> QED BY <2>1, RunPagesLand
<1>13. CASE p.to = "/requests"
  <2>1. l \in RequestsLinks(r)
    BY <1>13 DEF PageLinks
  <2>2. CASE l = InboxPage(NoSearch)
    BY <2>2, InboxLands, GoodInbox
  <2>3. CASE l = GoId("/requests/$requestId", "uuid")
    BY <2>3, RequestLands
  <2>4. CASE l = Go("/requests", [view |-> "batch"])
    <3>1. Good([view |-> "batch"], RequestsKeys)
      BY DEF Good, RequestsKeys
    <3> QED BY <2>4, <3>1, RequestsLands
  <2>5. CASE l = Go("/requests/new", NoSearch)
    BY <2>5, GoBareLands DEF Ends0, Allowed, OpsPages
  <2> QED BY <2>1, <2>2, <2>3, <2>4, <2>5 DEF RequestsLinks
<1>14. CASE p.to = "/requests/needs-attention"
  <2>1. r \in Owners /\ l = Go("/owner/connectors", [vertical |-> "x"])
    BY <1>14 DEF PageLinks, ConnectorLinks
  <2> QED BY <2>1, ConnectorLands
<1>15. CASE p.to = "/requests/$requestId"
  <2>1. \/ l = Go("/requests", NoSearch)
        \/ r = "super_admin" /\ l = Go("/ops/runs", [request_id |-> "x", window |-> "1w"])
    BY <1>15 DEF PageLinks, DetailLinks
  <2>2. CASE l = Go("/requests", NoSearch)
    BY <2>2, GoBareLands DEF Ends0, Allowed, OpsPages
  <2> QED BY <2>1, <2>2, OtherAsks, AskLands
<1>16. CASE p.to = "/requests/new"
  <2>1. l \in {Go("/requests", NoSearch), InboxPage([kind |-> "triage"])}
    BY <1>16 DEF PageLinks
  <2>2. CASE l = Go("/requests", NoSearch)
    BY <2>2, GoBareLands DEF Ends0, Allowed, OpsPages
  <2> QED BY <2>1, <2>2, InboxLands, GoodInbox DEF InboxKinds
<1>17. CASE p.to = "/requests/slas"
  <2>1. l = InboxPage([filter |-> "fulfillment"])
    BY <1>17 DEF PageLinks
  <2> QED BY <2>1, InboxLands, GoodInbox DEF InboxFilters
<1> QED BY <1>1, <1>2, <1>3, <1>4, <1>5, <1>6, <1>7, <1>8, <1>9, <1>10, <1>11, <1>12, <1>13,
           <1>14, <1>15, <1>16, <1>17 DEF PageLinks

-----------------------------------------------------------------------------
(* The specification                                                       *)

(* Before the page is shown: the redirects behind and ahead.               *)
TwoAtMost ==
  ~settled => \/ hops = 0
              \/ hops = 1 /\ Once(at)
              \/ hops = 2 /\ Rests(at)

(* A link has landed, or lands from where the router is.                   *)
LinkHeads ==
  asked # Nowhere =>
    IF settled THEN Allowed(role, at.to) /\ Kept(asked, at.search) ELSE Lands(role, at, asked)

RoutesInv ==
  /\ RoutesTypeOK /\ IsAddress(at) /\ TwoAtMost /\ LinkHeads
  /\ SearchSettled

LEMMA RoutesStart == RoutesInit => RoutesInv
<1> SUFFICES ASSUME RoutesInit PROVE RoutesInv
  OBVIOUS
<1>1. at.to = "/" /\ at.search = Parse("/", NoSearch) /\ IsAddress(at)
  BY GoIs DEF RoutesInit
<1>2. RoutesTypeOK /\ TwoAtMost /\ LinkHeads
  BY DEF RoutesInit, RoutesTypeOK, TwoAtMost, LinkHeads
<1>3. SearchSettled
  BY <1>1, ParseTwice DEF SearchSettled
<1> QED BY <1>1, <1>2, <1>3 DEF RoutesInv

(* A merged search: what was shown and what the patch names are good.      *)
LEMMA MergedLands ==
  ASSUME NEW r, NEW f, NEW patch \in Patches, Pick(f, InboxKeys) = f
  PROVE  Lands(r, InboxPage(MergeInbox(f, patch)), InboxPage(MergeInbox(f, patch)))
<1> DEFINE m == MergeInbox(f, patch)
<1>1. \A k \in DOMAIN f : k \in DOMAIN InboxKeys /\ f[k] \in InboxKeys[k]
  BY PickIs
<1>2. \A k \in DOMAIN patch :
        /\ k \in DOMAIN InboxKeys
        /\ \/ patch[k] \in InboxKeys[k] \/ patch[k] = BlankText
           \/ k = "source" /\ patch[k] \in IdentifierSurfaces
  BY RoutesAssumption
<1>3. \A k \in DOMAIN m :
        /\ k \in DOMAIN patch \cup DOMAIN f
        /\ m[k] = IF k \in DOMAIN patch THEN patch[k] ELSE f[k]
        /\ m[k] # BlankText /\ (k = "source" => m[k] \notin IdentifierSurfaces)
  BY DEF MergeInbox, Onto
<1> HIDE DEF m
<1>4. Good(m, InboxKeys)
  BY <1>1, <1>2, <1>3 DEF Good
<1> QED BY <1>4, InboxLands DEF m

LEMMA RoutesStep == RoutesInv /\ [RoutesNext]_routeVars => RoutesInv'
<1> SUFFICES ASSUME RoutesInv, [RoutesNext]_routeVars PROVE RoutesInv'
  OBVIOUS
<1> USE DEF RoutesInv
<1>n. ASSUME NEW p, NEW from, Navigate(p, from), IsAddress(p),
             from # Nowhere => Lands(role, p, from)
      PROVE  RoutesInv'
  <2>1. at' = p /\ hops' = 0 /\ settled' = FALSE /\ asked' = from /\ role' = role
    BY <1>n DEF Navigate
  <2>2. RoutesTypeOK' /\ TwoAtMost'
    BY <2>1, hops' \in 0 .. 2 DEF RoutesTypeOK, TwoAtMost
  <2>3. LinkHeads'
    BY <1>n, <2>1 DEF LinkHeads
  <2>4. SearchSettled'
    BY <2>1 DEF SearchSettled
  <2> QED BY <1>n, <2>1, <2>2, <2>3, <2>4
<1>1. CASE Follow
  <2>1. PICK l \in IF Allowed(role, at.to) THEN Links ELSE NavLinks(role) \cup PaletteLinks(role) :
          Navigate(l, l)
    BY <1>1 DEF Follow
  <2>2. Lands(role, l, l)
    BY <2>1, NavLand, PaletteLand, PageLand DEF Links, RoutesTypeOK
  <2> QED BY <2>1, <2>2, <1>n DEF Lands
<1>2. CASE Redirected
  <2>1. /\ ~settled /\ ~Rests(at) /\ at' = Redirect(at) /\ hops' = hops + 1
        /\ UNCHANGED <<role, settled, asked>>
    BY <1>2 DEF Redirected, Rests
  <2>4. IsAddress(at')
    BY <2>1, RedirectIs
  <2>2. hops' \in 0 .. 2 /\ TwoAtMost'
    BY <2>1, OnceThenOnce DEF TwoAtMost, RoutesTypeOK, Once
  <2>3. LinkHeads'
    BY <2>1, <2>4 DEF LinkHeads, Lands, LandsAt
  <2>5. SearchSettled'
    BY <2>1 DEF SearchSettled
  <2> QED BY <2>1, <2>2, <2>3, <2>4, <2>5 DEF RoutesTypeOK
<1>3. CASE Shown
  <2>1. /\ ~settled /\ Rests(at) /\ at' = [at EXCEPT !.search = Parse(at.to, at.search)]
        /\ settled' /\ UNCHANGED <<role, hops, asked>>
    BY <1>3 DEF Shown, Rests
  <2>2. at'.to = at.to /\ at'.search = Parse(at.to, at.search) /\ IsAddress(at')
    BY <2>1 DEF IsAddress
  <2>3. LinkHeads'
    BY <2>1, <2>2 DEF LinkHeads, Lands, LandsAt
  <2>4. SearchSettled'
    BY <2>2, ParseTwice DEF SearchSettled
  <2> QED BY <2>1, <2>2, <2>3, <2>4 DEF RoutesTypeOK, TwoAtMost
<1>4. CASE \E p \in Urls : OpenUrl(p)
  BY <1>4, <1>n, RoutesAssumption DEF OpenUrl
<1>5. CASE \E patch \in Patches : PatchInbox(patch)
  <2>1. PICK patch \in Patches : PatchInbox(patch)
    BY <1>5
  <2> DEFINE p == InboxPage(MergeInbox(at.search, patch))
  <2>2. at.to = "/requests/needs-attention" /\ settled /\ Navigate(p, p)
    BY <2>1 DEF PatchInbox, Navigate
  <2>3. Pick(at.search, InboxKeys) = at.search
    BY <2>2 DEF SearchSettled, Parse, ParseInbox
  <2>4. Lands(role, p, p) /\ IsAddress(p)
    BY <2>3, MergedLands, GoIs
  <2> QED BY <2>2, <2>4, <1>n
<1>6. CASE UNCHANGED routeVars
  BY <1>6 DEF routeVars, RoutesTypeOK, TwoAtMost, LinkHeads, SearchSettled
<1> QED BY <1>1, <1>2, <1>3, <1>4, <1>5, <1>6 DEF RoutesNext

(* Redirects settle: wherever someone starts, no more than two follow each *)
(* other before a page is shown (router.tsx).                              *)
THEOREM RoutesSettle == RoutesSpec => []RoutesTypeOK
<1>1. RoutesInv => RoutesTypeOK
  BY DEF RoutesInv
<1> QED BY <1>1, RoutesStart, RoutesStep, PTL DEF RoutesSpec

(* A link of the navigation, the palette or a page lands, past every       *)
(* redirect, on a page the role may open, with every parameter it named;   *)
(* and what a page is shown with is what a reload shows it with            *)
(* (NavMenu.tsx, CommandPalette.tsx, router.tsx).                          *)
THEOREM LinksLandAsTold == RoutesSpec => []RoutesTold
<1>1. RoutesInv => RoutesTold
  BY DEF RoutesInv, LinkHeads, RoutesTold, LinksLand, LinksOpen, LinkSearchKept, SearchSettled, Kept
<1> QED BY <1>1, RoutesStart, RoutesStep, PTL DEF RoutesSpec

-----------------------------------------------------------------------------
(* The pages of runs and workers                                           *)

OpsDesks == {"runs", "overview", "queue", "plan", "fleet"}

IsSpot(a) ==
  a \in [of : {a.of}, status : {a.status}, window : {a.window}, since : 0..4,
         limit : OpsLimits, offset : Nat]

(* What is asked, and answered, with the fleet known is of the worker.     *)
OverviewFits ==
  /\ \A i \in DOMAIN wire : ~wire[i].blind => wire[i].job = spot.of
  /\ ~grid.blind => \A r \in grid.rows : spot.of \in {"none", r.job}

QueueFits ==
  /\ \E k \in Nat : spot.offset = k * spot.limit
  /\ QueueOwner(spot) \in DOMAIN OpsTables /\ spot.of \in OpsTables[QueueOwner(spot)]
  /\ QueueOwner(grid.asked) = QueueOwner(spot)

(* A body says what the hint said as it was made.                          *)
BodyFits(body, hint) ==
  /\ body.days \subseteq 1..31
  /\ body.days # {} => hint = <<body.days, 0>>
  /\ body.days = {} => body.every # 0 /\ hint = <<{}, body.every>>

PlanInv ==
  /\ planDraft = [kind |-> planDraft.kind, every |-> planDraft.every, text |-> planDraft.text]
  /\ planDraft.kind \in {"month_days", "interval_days"} /\ planDraft.every # 0
  /\ \A f \in refused : BodyFits(f[1], f[2])
  /\ RunsAsHinted

(* The page keeps what was picked; the address has it or nothing.          *)
HealthInv ==
  /\ health = [address |-> health.address, page |-> health.page, picked |-> health.picked]
  /\ health.page = health.picked /\ health.address \in {"none", health.picked}

GridInv ==
  /\ IsSpot(spot) /\ fleetKnown \in BOOLEAN /\ Len(wire) <= 1
  /\ opsDesk = "overview" => OverviewFits
  /\ opsDesk = "queue" => QueueFits

OpsInv ==
  /\ opsDesk \in OpsDesks /\ moves \in 0..MaxOps
  /\ GridInv /\ PlanInv /\ HealthInv

(* SetToSeq lists the whole set: an injection of 1..n into a set of n.     *)
LEMMA SetToSeqCovers ==
  ASSUME NEW S, IsFiniteSet(S)
  PROVE  Range(SetToSeq(S)) = S
<1> DEFINE n == Cardinality(S)
<1>1. n \in Nat /\ ExistsBijection(1..n, S)
  BY FS_CardinalityType
<1>2. PICK b \in Bijection(1..n, S) : TRUE
  BY <1>1 DEF ExistsBijection
<1>3. b \in [1..n -> S] /\ IsInjective(b)
  BY <1>2 DEF Bijection, Injection
<1>4. SetToSeq(S) \in [1..n -> S] /\ IsInjective(SetToSeq(S))
  BY <1>3 DEF SetToSeq
<1> DEFINE s == SetToSeq(S)
<1>5. s \in Injection(1..n, S)
  BY <1>4 DEF Injection
<1>6. IsFiniteSet(1..n) /\ Cardinality(1..n) = n
  BY <1>1, FS_Interval
<1>7. s \in Surjection(1..n, S)
  BY <1>1, <1>5, <1>6, FS_Injection
<1> QED BY <1>7 DEF Surjection, Range

-----------------------------------------------------------------------------

(* Saving a body that fits a hint leaves a schedule with that hint.        *)
LEMMA PatchShows ==
  ASSUME NEW body, NEW hint, BodyFits(body, hint), PatchPlan(body)
  PROVE  Hint(DraftOf(plan))' = hint
<1>1. CASE body.days # {}
  <2>1. plan' = [kind |-> "month_days", every |-> 0, days |-> body.days]
    BY <1>1 DEF PatchPlan
  <2>2. IsFiniteSet(body.days)
    <3>1. \A n \in Nat : IsFiniteSet(1..n)
      BY FS_Interval
    <3>2. IsFiniteSet(1..31)
      BY <3>1
    <3> QED BY <3>2, FS_Subset DEF BodyFits
  <2>3. Range(TextOfDays(body.days)) = body.days
    BY <2>2, SetToSeqCovers DEF TextOfDays
  <2>4. MonthDaysOf(TextOfDays(body.days)) = body.days
    BY <2>3 DEF MonthDaysOf, BodyFits
  <2>5. DraftOf(plan)' = [kind |-> "month_days", every |-> 15, text |-> TextOfDays(body.days)]
    BY <1>1, <2>1 DEF DraftOf
  <2> QED BY <1>1, <2>4, <2>5 DEF Hint, BodyFits
<1>2. CASE body.days = {}
  <2>1. plan' = [kind |-> "interval_days", every |-> body.every, days |-> {}]
    BY <1>2 DEF PatchPlan
  <2>2. DraftOf(plan)'.kind = "interval_days" /\ DraftOf(plan)'.every = body.every
    BY <1>2, <2>1 DEF DraftOf, BodyFits
  <2> QED BY <1>2, <2>2 DEF Hint, BodyFits
<1> QED BY <1>1, <1>2

LEMMA SaveKeeps ==
  ASSUME PlanInv, UNCHANGED planDraft,
         NEW body, NEW hint, BodyFits(body, hint), SavesBody(body, hint)
  PROVE  PlanInv'
<1>1. CASE PatchPlan(body) /\ hinted' = hint /\ UNCHANGED refused
  <2>1. RunsAsHinted'
    BY <1>1, PatchShows DEF RunsAsHinted
  <2> QED BY <1>1, <2>1 DEF PlanInv
<1>2. CASE refused' = refused \cup {<<body, hint>>} /\ UNCHANGED <<plan, hinted>>
  <2>1. RunsAsHinted'
    BY <1>2 DEF RunsAsHinted, PlanInv, DraftOf, Hint
  <2> QED BY <1>2, <2>1 DEF PlanInv
<1> QED BY <1>1, <1>2 DEF SavesBody

(* The schedule.                                                           *)
LEMMA PlanKeeps ==
  ASSUME PlanInv, PlanDesk
  PROVE  PlanInv'
<1>1. CASE EditsPlan
  <2>1. RunsAsHinted'
    BY <1>1 DEF EditsPlan, RunsAsHinted, PlanInv, DraftOf, Hint
  <2>2. UNCHANGED refused
    BY <1>1 DEF EditsPlan
  <2>3. /\ planDraft' = [kind |-> planDraft'.kind, every |-> planDraft'.every, text |-> planDraft'.text]
        /\ planDraft'.kind \in {"month_days", "interval_days"} /\ planDraft'.every # 0
    BY <1>1 DEF EditsPlan, PlanInv
  <2> QED BY <2>1, <2>2, <2>3 DEF PlanInv
<1>2. CASE SavesPlan
  <2>1. BodyFits(BodyOf(planDraft), Hint(planDraft))
    <3>1. CASE planDraft.kind = "month_days"
      BY <1>2, <3>1 DEF SavesPlan, BodyFits, BodyOf, Hint, MonthDaysOf
    <3>2. CASE planDraft.kind # "month_days"
      BY <3>2 DEF PlanInv, BodyFits, BodyOf, Hint
    <3> QED BY <3>1, <3>2
  <2> QED BY <1>2, <2>1, SaveKeeps DEF SavesPlan
<1>3. CASE RetriesPlan
  <2>1. PICK f \in refused : SavesBody(f[1], f[2])
    BY <1>3 DEF RetriesPlan
  <2>2. BodyFits(f[1], f[2]) /\ UNCHANGED planDraft
    BY <1>3 DEF PlanInv, RetriesPlan
  <2> QED BY <2>1, <2>2, SaveKeeps
<1>4. CASE OthersPlan
  BY <1>4 DEF OthersPlan, PlanInv, RunsAsHinted
<1> QED BY <1>1, <1>2, <1>3, <1>4 DEF PlanDesk

(* The health filter.                                                      *)
LEMMA HealthKeeps ==
  ASSUME HealthInv, HealthDesk
  PROVE  HealthInv'
<1>1. HealthShown = health.picked
  BY DEF HealthInv, HealthShown
<1>2. CASE \E h \in {"none", "ok", "down"} : HealthPicked(h)
  BY <1>2 DEF HealthPicked, BothHealth, HealthInv
<1>3. CASE HealthMoves
  BY <1>1, <1>3 DEF HealthMoves, HealthInv
<1> QED BY <1>2, <1>3 DEF HealthDesk

(* An address changed in a field is an address.                            *)
LEMMA SpotEdited ==
  ASSUME NEW a, IsSpot(a)
  PROVE  /\ \A x : IsSpot([a EXCEPT !.of = x]) /\ IsSpot([a EXCEPT !.status = x])
                /\ IsSpot([a EXCEPT !.window = x])
         /\ \A t \in 0..4 : IsSpot([a EXCEPT !.since = t])
         /\ \A n \in Nat : IsSpot([a EXCEPT !.offset = n])
         /\ \A l \in OpsLimits : IsSpot([a EXCEPT !.limit = l])
         /\ IsSpot(BuildRunsSearch(a))
  BY DEF IsSpot, BuildRunsSearch

(* The list of runs.                                                       *)
LEMMA RunsDeskKeeps ==
  ASSUME GridInv, opsDesk = "runs", UNCHANGED opsDesk, RunsDesk
  PROVE  GridInv'
<1>1. CASE RunsToolbar
  <2>1. PICK a : IsSpot(a) /\ GoesTo(a)
    <3>1. CASE \E s \in RunsTabs : GoesTo(BuildRunsSearch([spot EXCEPT !.status = s]))
      BY <3>1, SpotEdited DEF GridInv
    <3>2. CASE \E j \in Unified \cup {"none"} : GoesTo(BuildRunsSearch([spot EXCEPT !.of = j]))
      BY <3>2, SpotEdited DEF GridInv
    <3>3. CASE \E w \in {"8h", "24h", "1w", "3m"} : GoesTo(BuildRunsSearch([spot EXCEPT !.window = w]))
      BY <3>3, SpotEdited DEF GridInv
    <3>4. CASE GoesTo(BuildRunsSearch([spot EXCEPT !.window = "custom",
                                         !.since = IF @ = 0 THEN 3 ELSE @]))
      <4>1. IsSpot([spot EXCEPT !.window = "custom", !.since = IF @ = 0 THEN 3 ELSE @])
        <5>1. IsSpot([spot EXCEPT !.window = "custom"])
          BY SpotEdited DEF GridInv
        <5>2. PICK t \in 0..4 : t = IF spot.since = 0 THEN 3 ELSE spot.since
          BY DEF GridInv, IsSpot
        <5>3. [spot EXCEPT !.window = "custom", !.since = IF @ = 0 THEN 3 ELSE @]
                = [[spot EXCEPT !.window = "custom"] EXCEPT !.since = t]
          BY <5>2 DEF GridInv, IsSpot
        <5> QED BY <5>1, <5>3, SpotEdited
      <4> QED BY <3>4, <4>1, SpotEdited
    <3>5. CASE spot.window = "custom" /\ \E t \in {0, 1, 2} : GoesTo([spot EXCEPT !.since = t])
      <4>1. \A t \in {0, 1, 2} : t \in 0..4
        OBVIOUS
      <4> QED BY <3>5, <4>1, SpotEdited DEF GridInv
    <3> QED BY <1>1, <3>1, <3>2, <3>3, <3>4, <3>5 DEF RunsToolbar
  <2> QED BY <2>1 DEF GoesTo, GridInv
<1>2. CASE RunsAnswered
  BY <1>2 DEF RunsAnswered, GridInv
<1> QED BY <1>1, <1>2 DEF RunsDesk

(* The overview: the query is for the worker of the address.               *)
LEMMA AskFits ==
  ASSUME NEW a, fleetKnown \in BOOLEAN, AsksRuns(a)
  PROVE  Len(wire') <= 1 /\ \A i \in DOMAIN wire' : ~wire'[i].blind => wire'[i].job = a.of
<1>1. CASE RunJob(a.of) = Absent
  BY <1>1 DEF AsksRuns
<1>2. CASE RunJob(a.of) # Absent
  <2>1. wire' = <<[asked |-> a, job |-> RunJob(a.of), blind |-> ~fleetKnown]>>
    BY <1>2 DEF AsksRuns
  <2>2. fleetKnown => RunJob(a.of) = a.of
    BY <1>2 DEF RunJob
  <2>3. Len(wire') = 1 /\ wire'[1].job = RunJob(a.of) /\ wire'[1].blind = ~fleetKnown
    BY <2>1
  <2>4. DOMAIN wire' = {1}
    BY <2>1
  <2>5. CASE fleetKnown
    BY <2>2, <2>3, <2>4, <2>5
  <2>6. CASE ~fleetKnown
    <3>1. wire'[1].blind
      BY <2>3, <2>6
    <3> QED BY <2>3, <2>4, <3>1
  <2> QED BY <2>5, <2>6
<1> QED BY <1>1, <1>2

LEMMA OverviewKeeps ==
  ASSUME GridInv, opsDesk = "overview", UNCHANGED opsDesk, OverviewDesk
  PROVE  GridInv'
<1> USE DEF GridInv
<1>1. CASE OverviewControls
  <2>1. PICK a : IsSpot(a) /\ OverviewGoes(a)
    <3>1. CASE \E v \in OverviewTabs : OverviewGoes([spot EXCEPT !.status = v])
      BY <3>1, SpotEdited
    <3>2. CASE \E v \in DOMAIN OpsTables \cup {"none"} : OverviewGoes([spot EXCEPT !.of = v])
      BY <3>2, SpotEdited
    <3>3. CASE \E w \in {"8h", "1w", "3m"} : OverviewGoes([spot EXCEPT !.window = w, !.since = 0])
      <4>1. PICK w \in {"8h", "1w", "3m"} : OverviewGoes([spot EXCEPT !.window = w, !.since = 0])
        BY <3>3
      <4>2. IsSpot([[spot EXCEPT !.window = w] EXCEPT !.since = 0])
        <5>1. 0 \in 0..4
          OBVIOUS
        <5>2. IsSpot([spot EXCEPT !.window = w])
          BY SpotEdited
        <5> QED BY <5>1, <5>2, SpotEdited
      <4>3. [[spot EXCEPT !.window = w] EXCEPT !.since = 0] = [spot EXCEPT !.window = w, !.since = 0]
        BY DEF IsSpot
      <4> QED BY <4>1, <4>2, <4>3
    <3>4. CASE OverviewGoes([spot EXCEPT !.window = "custom"])
      BY <3>4, SpotEdited
    <3>5. CASE \E t \in {0, 1} : OverviewGoes([spot EXCEPT !.since = t])
      <4>1. \A t \in {0, 1} : t \in 0..4
        OBVIOUS
      <4> QED BY <3>5, <4>1, SpotEdited
    <3> QED BY <1>1, <3>1, <3>2, <3>3, <3>4, <3>5 DEF OverviewControls
  <2>2. CASE KeyOf(a) = KeyOf(spot)
    <3>1. a.of = spot.of
      BY <2>2 DEF KeyOf
    <3> QED BY <2>1, <2>2, <3>1 DEF OverviewGoes, OverviewFits
  <2>3. CASE KeyOf(a) # KeyOf(spot)
    <3>1. /\ grid' = [asked |-> a, rows |-> {}, blind |-> FALSE] /\ AsksRuns(a)
          /\ spot' = a /\ UNCHANGED fleetKnown
      BY <2>1, <2>3 DEF OverviewGoes
    <3> QED BY <2>1, <3>1, AskFits DEF OverviewFits
  <2> QED BY <2>2, <2>3
<1>2. CASE FleetLoads
  BY <1>2 DEF FleetLoads, OverviewFits
<1>3. CASE OverviewPolls
  BY <1>3, AskFits DEF OverviewPolls, OverviewFits
<1>4. CASE OverviewAnswered
  <2>1. /\ wire # <<>> /\ wire' = <<>> /\ UNCHANGED <<spot, fleetKnown>>
        /\ grid'.blind = wire[1].blind
        /\ grid'.rows = ListRuns([spot EXCEPT !.status = "none"], wire[1].job)
    BY <1>4 DEF OverviewAnswered
  <2>2. 1 \in DOMAIN wire
    BY <2>1
  <2>3. \A r \in grid'.rows : wire[1].job \in {"none", r.job}
    BY <2>1 DEF ListRuns
  <2> QED BY <2>1, <2>2, <2>3 DEF OverviewFits
<1> QED BY <1>1, <1>2, <1>3, <1>4 DEF OverviewDesk

(* A table has one owner.                                                  *)
LEMMA OneOwner ==
  ASSUME NEW a, NEW w \in DOMAIN OpsTables, a.of \in OpsTables[w]
  PROVE  QueueOwner(a) = w
BY OpsAssumption DEF QueueOwner

(* The queue: another filter or size starts at its first page, Prev and    *)
(* Next move by a page.                                                    *)
LEMMA QueueKeeps ==
  ASSUME GridInv, opsDesk = "queue", UNCHANGED opsDesk, QueueDesk
  PROVE  GridInv'
<1> USE DEF GridInv
<1> DEFINE w == QueueOwner(spot)
<1>1. w \in DOMAIN OpsTables /\ spot.of \in OpsTables[w] /\ QueueOwner(grid.asked) = w
  BY DEF QueueFits
<1>2. ASSUME NEW a, IsSpot(a), a.of \in OpsTables[w], GoesTo(a),
             \E k \in Nat : a.offset = k * a.limit
      PROVE  GridInv'
  <2>1. QueueOwner(a) = w
    BY <1>1, <1>2, OneOwner
  <2>2. spot' = a /\ UNCHANGED <<grid, fleetKnown>> /\ Len(wire') <= 1
    BY <1>2 DEF GoesTo
  <2>3. QueueFits'
    BY <1>1, <1>2, <2>1, <2>2 DEF QueueFits
  <2> QED BY <1>2, <2>2, <2>3
<1>3. \A l \in OpsLimits : l \in Nat /\ 0 = 0 * l
  BY OpsAssumption
<1>4. CASE QueueFilters
  <2>1. CASE \E t \in OpsTables[w] : GoesTo([spot EXCEPT !.of = t, !.offset = 0])
    <3>1. PICK t \in OpsTables[w] : GoesTo([spot EXCEPT !.of = t, !.offset = 0])
      BY <2>1
    <3> DEFINE a == [spot EXCEPT !.of = t, !.offset = 0]
    <3>2. IsSpot(a) /\ a.of = t /\ a.offset = 0 /\ a.limit \in OpsLimits
      BY DEF IsSpot
    <3> QED BY <1>2, <1>3, <3>1, <3>2
  <2>2. CASE \E s \in {"none", "pending", "failed"} : GoesTo([spot EXCEPT !.status = s, !.offset = 0])
    <3>1. PICK s \in {"none", "pending", "failed"} : GoesTo([spot EXCEPT !.status = s, !.offset = 0])
      BY <2>2
    <3> DEFINE a == [spot EXCEPT !.status = s, !.offset = 0]
    <3>2. IsSpot(a) /\ a.of = spot.of /\ a.offset = 0 /\ a.limit \in OpsLimits
      BY DEF IsSpot
    <3> QED BY <1>1, <1>2, <1>3, <3>1, <3>2
  <2>3. CASE \E n \in OpsLimits : GoesTo(PicksLimit(spot, n))
    <3>1. PICK n \in OpsLimits : GoesTo(PicksLimit(spot, n))
      BY <2>3
    <3> DEFINE a == PicksLimit(spot, n)
    <3>2. IsSpot(a) /\ a.of = spot.of /\ a.offset = 0 /\ a.limit \in OpsLimits
      BY DEF IsSpot, PicksLimit
    <3>3. GoesTo(a)
      BY <3>1
    <3> HIDE DEF a
    <3>4. \E k \in Nat : a.offset = k * a.limit
      BY <1>3, <3>2
    <3> QED BY <1>1, <1>2, <3>2, <3>3, <3>4
  <2>4. CASE GoesTo([spot EXCEPT !.status = "none", !.limit = DefaultLimit, !.offset = 0])
    <3> DEFINE a == [spot EXCEPT !.status = "none", !.limit = DefaultLimit, !.offset = 0]
    <3>1. IsSpot(a) /\ a.of = spot.of /\ a.offset = 0 /\ a.limit \in OpsLimits
      BY OpsAssumption DEF IsSpot
    <3> QED BY <1>1, <1>2, <1>3, <2>4, <3>1
  <2> QED BY <1>4, <2>1, <2>2, <2>3, <2>4 DEF QueueFilters
<1>5. CASE QueuePages
  <2>1. PICK k \in Nat : spot.offset = k * spot.limit
    BY DEF QueueFits
  <2>2. spot.limit \in Nat \ {0} /\ spot.offset \in Nat
    BY OpsAssumption DEF IsSpot
  <2>3. CASE spot.offset > 0 /\ GoesTo([spot EXCEPT !.offset = IF @ < spot.limit THEN 0 ELSE @ - spot.limit])
    <3> DEFINE n == IF spot.offset < spot.limit THEN 0 ELSE spot.offset - spot.limit
               a == [spot EXCEPT !.offset = IF @ < spot.limit THEN 0 ELSE @ - spot.limit]
    <3>1. n \in Nat /\ \E j \in Nat : n = j * spot.limit
      <4>1. CASE spot.offset < spot.limit
        BY <2>2, <4>1
      <4>2. CASE ~(spot.offset < spot.limit)
        <5>1. k - 1 \in Nat /\ n = (k - 1) * spot.limit
          BY <2>1, <2>2, <4>2
        <5> QED BY <2>2, <4>2, <5>1
      <4> QED BY <4>1, <4>2
    <3>2. IsSpot(a) /\ a.of = spot.of /\ a.limit = spot.limit /\ a.offset = n
      BY <3>1 DEF IsSpot
    <3> HIDE DEF n, a
    <3> QED BY <1>1, <1>2, <2>3, <3>1, <3>2 DEF a
  <2>4. CASE GoesTo([spot EXCEPT !.offset = @ + spot.limit])
    <3> DEFINE a == [spot EXCEPT !.offset = @ + spot.limit]
    <3>1. IsSpot(a) /\ a.of = spot.of /\ a.limit = spot.limit /\ a.offset = spot.offset + spot.limit
      BY <2>2 DEF IsSpot
    <3>2. k + 1 \in Nat /\ spot.offset + spot.limit = (k + 1) * spot.limit
      BY <2>1, <2>2
    <3> HIDE DEF a
    <3> QED BY <1>1, <1>2, <2>4, <3>1, <3>2 DEF a
  <2> QED BY <1>5, <2>3, <2>4 DEF QueuePages
<1>6. CASE QueueAnswered
  <2>1. wire' = <<>> /\ grid'.asked = spot /\ UNCHANGED <<spot, fleetKnown>>
    BY <1>6 DEF QueueAnswered
  <2> QED BY <1>1, <2>1 DEF QueueFits
<1> QED BY <1>4, <1>5, <1>6 DEF QueueDesk

LEMMA OpsStarts ==
  ASSUME OpsInit
  PROVE  OpsInv
<1>1. opsDesk \in OpsDesks /\ moves \in 0..MaxOps
  BY OpsAssumption DEF OpsInit, OpsDesks
<1>2. IsSpot(spot) /\ spot.offset = 0 /\ Len(wire) <= 1 /\ fleetKnown \in BOOLEAN
  <2>1. \A x : IsSpot(OpsSpot(x)) /\ OpsSpot(x).offset = 0
    BY OpsAssumption DEF IsSpot, OpsSpot
  <2>2. IsSpot(spot) /\ spot.offset = 0
    <3>1. CASE opsDesk = "queue"
      BY <2>1, <3>1 DEF OpsInit
    <3>2. CASE opsDesk = "overview"
      <4>1. PICK x : spot = [OpsSpot(x) EXCEPT !.status = "waiting"]
        BY <3>2 DEF OpsInit
      <4> QED BY <2>1, <4>1 DEF IsSpot, OpsSpot
    <3>3. CASE opsDesk \notin {"queue", "overview"}
      BY <2>1, <3>3 DEF OpsInit
    <3> QED BY <3>1, <3>2, <3>3
  <2>3. Len(wire) = 1
    <3>1. CASE opsDesk = "overview"
      BY <3>1 DEF OpsInit
    <3>2. CASE opsDesk # "overview"
      BY <3>2 DEF OpsInit
    <3> QED BY <3>1, <3>2
  <2>4. fleetKnown \in BOOLEAN
    BY DEF OpsInit
  <2> QED BY <2>2, <2>3, <2>4
<1>3. opsDesk = "overview" => OverviewFits
  <2> SUFFICES ASSUME opsDesk = "overview"
               PROVE  OverviewFits
    OBVIOUS
  <2>1. wire = <<[asked |-> spot, job |-> RunJob(spot.of), blind |-> TRUE]>> /\ grid.rows = {}
    BY DEF OpsInit
  <2> QED BY <2>1 DEF OverviewFits
<1>4. opsDesk = "queue" => QueueFits
  <2> SUFFICES ASSUME opsDesk = "queue"
               PROVE  QueueFits
    OBVIOUS
  <2>1. PICK t \in UNION {OpsTables[v] : v \in DOMAIN OpsTables} : spot = OpsSpot(t)
    BY DEF OpsInit
  <2>2. PICK v \in DOMAIN OpsTables : spot.of \in OpsTables[v]
    BY <2>1 DEF OpsSpot
  <2>3. QueueOwner(spot) = v /\ grid.asked = spot
    BY <2>2, OneOwner DEF OpsInit
  <2>4. 0 \in Nat /\ spot.offset = 0 * spot.limit
    BY <1>2, OpsAssumption DEF IsSpot
  <2> QED BY <2>2, <2>3, <2>4 DEF QueueFits
<1>5. PlanInv
  <2>1. planDraft = [kind |-> "month_days", every |-> 15, text |-> TextOfDays({1, 15})]
    BY DEF OpsInit, DraftOf
  <2> QED BY <2>1 DEF OpsInit, PlanInv, RunsAsHinted
<1>6. HealthInv
  BY DEF OpsInit, HealthInv
<1> QED BY <1>1, <1>2, <1>3, <1>4, <1>5, <1>6 DEF OpsInv, GridInv

(* No step of a desk touches what the others are about.                    *)
LEMMA OpsKeeps ==
  ASSUME OpsInv, [OpsNext]_opsVars
  PROVE  OpsInv'
<1>1. CASE UNCHANGED opsVars
  BY <1>1 DEF OpsInv, opsVars, GridInv, OverviewFits, QueueFits, QueueOwner, PlanInv, RunsAsHinted,
              DraftOf, Hint, HealthInv
<1>2. CASE OpsNext
  <2>1. opsDesk' \in OpsDesks /\ UNCHANGED opsDesk
    BY <1>2 DEF OpsNext, OpsInv
  <2>2. moves' \in 0..MaxOps
    <3>1. UNCHANGED moves \/ Acts
      <4>1. RunsDesk => UNCHANGED moves \/ Acts
        BY DEF RunsDesk, RunsToolbar, RunsAnswered, GoesTo
      <4>2. OverviewDesk => UNCHANGED moves \/ Acts
        BY DEF OverviewDesk, OverviewControls, OverviewGoes, FleetLoads, OverviewPolls, OverviewAnswered
      <4>3. QueueDesk => UNCHANGED moves \/ Acts
        BY DEF QueueDesk, QueueFilters, QueuePages, QueueAnswered, GoesTo
      <4>4. PlanDesk \/ HealthDesk => Acts
        BY DEF PlanDesk, EditsPlan, SavesPlan, RetriesPlan, OthersPlan, HealthDesk
      <4> QED BY <1>2, <4>1, <4>2, <4>3, <4>4 DEF OpsNext
    <3> QED BY <3>1, OpsAssumption DEF OpsInv, Acts
  <2>3. UNCHANGED gridVars => GridInv'
    BY <2>1 DEF OpsInv, GridInv, gridVars, OverviewFits, QueueFits, QueueOwner
  <2>4. UNCHANGED planVars => PlanInv'
    BY DEF OpsInv, PlanInv, planVars, RunsAsHinted, DraftOf, Hint
  <2>5. UNCHANGED health => HealthInv'
    BY DEF OpsInv, HealthInv
  <2>6. CASE opsDesk = "runs" /\ RunsDesk /\ UNCHANGED <<planVars, health>>
    BY <2>1, <2>2, <2>4, <2>5, <2>6, RunsDeskKeeps DEF OpsInv
  <2>7. CASE opsDesk = "overview" /\ OverviewDesk /\ UNCHANGED <<planVars, health>>
    BY <2>1, <2>2, <2>4, <2>5, <2>7, OverviewKeeps DEF OpsInv
  <2>8. CASE opsDesk = "queue" /\ QueueDesk /\ UNCHANGED <<planVars, health>>
    BY <2>1, <2>2, <2>4, <2>5, <2>8, QueueKeeps DEF OpsInv
  <2>9. CASE opsDesk = "plan" /\ PlanDesk /\ UNCHANGED <<gridVars, health>>
    BY <2>1, <2>2, <2>3, <2>5, <2>9, PlanKeeps DEF OpsInv
  <2>10. CASE opsDesk = "fleet" /\ HealthDesk /\ UNCHANGED <<gridVars, planVars>>
    BY <2>1, <2>2, <2>3, <2>4, <2>10, HealthKeeps DEF OpsInv
  <2> QED BY <1>2, <2>6, <2>7, <2>8, <2>9, <2>10 DEF OpsNext
<1> QED BY <1>1, <1>2

(* The failed tab and the pages' marks are of the same runs.               *)
LEMMA FailuresAgree ==
  ASSUME IsSpot(spot)
  PROVE  FailedAlike
<1> DEFINE win    == [spot EXCEPT !.status = "none"]
           under(s) == [win EXCEPT !.status = s]
           all    == ListRuns(win, spot.of)
<1>1. \A s : /\ under(s).status = s /\ under(s).window = win.window /\ under(s).since = win.since
             /\ win.status = "none"
  BY DEF IsSpot
<1>2. \A s : OldestAge(under(s)) = OldestAge(win)
  BY <1>1 DEF OldestAge
<1>3. all \subseteq OpsRuns /\ \A r \in all : r.status \in RunStatuses
  BY OpsAssumption DEF ListRuns
<1> HIDE DEF win, under
<1>4. ListRuns(under("failed"), spot.of) = {r \in all : FailsOn(r.status)}
  BY <1>1, <1>2 DEF ListRuns, FailedStatuses, FailsOn
<1>5. ASSUME NEW r \in all, NEW s \in {"pending", "in_flight", "claimed", "abandoned", "success"}, r.status = s
      PROVE  r \in ListRuns(under(s), spot.of)
  BY <1>1, <1>2, <1>5 DEF ListRuns
<1>6. ASSUME NEW r \in all
      PROVE  \E s \in RunsTabs \ {"none"} : r \in ListRuns(under(s), spot.of)
  <2>1. CASE FailsOn(r.status)
    BY <1>4, <1>6, <2>1 DEF RunsTabs
  <2>2. CASE ~FailsOn(r.status)
    <3>1. r.status \in {"pending", "in_flight", "claimed", "success"}
      BY <1>3, <2>2 DEF RunStatuses, FailsOn
    <3> QED BY <1>5, <3>1 DEF RunsTabs
  <2> QED BY <2>1, <2>2
<1>7. ASSUME NEW r \in all
      PROVE  /\ FailsOn(r.status) <=> PillOfRun(r.status) = "fail"
             /\ PillOfRun(r.status) = "fail" <=> PillOfDetail(r.status) = "fail"
             /\ PillOfRun(r.status) = "fail" <=> PillOfWorker(r.status) = "fail"
  BY DEF PillOfRun, PillOfDetail, PillOfWorker
<1>8. TallyRuns(all).failed = Cardinality(ListRuns(under("failed"), spot.of))
  BY <1>4 DEF TallyRuns
<1> QED BY <1>4, <1>6, <1>7, <1>8 DEF FailedAlike, win, under

(* A page of a queue is a whole number of pages from the start.            *)
LEMMA PagesFit ==
  ASSUME GridInv
  PROVE  PagesAlign
<1> SUFFICES ASSUME opsDesk = "queue"
             PROVE  /\ \E k \in 0..spot.offset : spot.offset = k * spot.limit
                    /\ QueueOwner(spot) = QueueOwner(grid.asked)
  BY DEF PagesAlign
<1>1. PICK k \in Nat : spot.offset = k * spot.limit
  BY DEF GridInv, QueueFits
<1>2. spot.limit \in Nat \ {0} /\ spot.offset \in Nat
  BY OpsAssumption DEF GridInv, IsSpot
<1>3. k <= k * spot.limit
  BY <1>2
<1> QED BY <1>1, <1>2, <1>3 DEF GridInv, QueueFits

(* The pages of an operator agree with what they were asked for and with   *)
(* each other: the failed tab with the marks and the count of failures     *)
(* (FailedAlike), the runs of a worker with the worker (OfTheWorker), the  *)
(* pages of a queue with their size (PagesAlign), a job with the hint at   *)
(* its Save, its Retry included (RunsAsHinted), and the health filter with *)
(* what was picked (HealthAsPicked; runs.tsx, workers.tsx,                 *)
(* WorkerQueuePage.tsx, ScheduleConfigPanel.tsx, AttemptTablesIndexPage).  *)
THEOREM OpsAsTold == OpsSpec => [](OpsTypeOK /\ OpsTold)
<1>1. OpsInit => OpsInv
  BY OpsStarts
<1>2. OpsInv /\ [OpsNext]_opsVars => OpsInv'
  BY OpsKeeps
<1>3. ASSUME OpsInv
      PROVE  OpsTypeOK /\ OpsTold
  <2>1. OpsTypeOK
    BY <1>3 DEF OpsInv, GridInv, IsSpot, OpsTypeOK
  <2>2. FailedAlike
    BY <1>3, FailuresAgree DEF OpsInv, GridInv
  <2>3. OfTheWorker
    BY <1>3 DEF OfTheWorker, OverviewRows, OpsInv, GridInv, OverviewFits
  <2>4. PagesAlign
    BY <1>3, PagesFit DEF OpsInv
  <2>5. RunsAsHinted /\ HealthAsPicked
    BY <1>3 DEF OpsInv, PlanInv, HealthInv, HealthAsPicked, HealthShown
  <2> QED BY <2>1, <2>2, <2>3, <2>4, <2>5 DEF OpsTold
<1> QED BY <1>1, <1>2, <1>3, PTL DEF OpsSpec

-----------------------------------------------------------------------------
(* The console of the pipeline                                             *)

(* The address follows the recent processes: without one the effects have  *)
(* moved once at most, with one that is gone not yet.                      *)
AddressFits ==
  /\ address \in [tab : PIPELINE_TAB_BAR, process : Bulks \cup {NoBulk}]
  /\ recent \in SUBSET Bulks /\ navs \in 0..2
  /\ address.process = NoBulk => navs <= 1
  /\ address.process \notin recent \cup {NoBulk} => navs = 0

AnswerFits ==
  /\ flights \in [run : {"no", "download", "land", "promote"},
                  hash : {"no", "enqueue", "process"}, from : {"here", "away"}]
  /\ answer \in [label : {"none", "run", "hash"},
                 result : {"none", "run", "hash", "pending", "error"}]
  /\ PanelWaits

(* The card tells what the API told; an open one had its tab applied.      *)
CardFits ==
  /\ card \in [told : Details \cup {Untold}, row : {d.current : d \in Details} \cup {"none"},
               tab : BULK_CARD_STAGE_TABS, open : BOOLEAN, applied : BOOLEAN,
               picked : BULK_CARD_STAGE_TABS \cup {"none"}]
  /\ card.open => card.applied
  /\ card.picked # "none" => card.open /\ card.tab = card.picked

ConsoleInv == AddressFits /\ AnswerFits /\ CardFits

LEMMA ConsoleStarts == ConsoleInit => ConsoleInv
<1> SUFFICES ASSUME ConsoleInit PROVE ConsoleInv
  OBVIOUS
<1>1. AddressFits
  BY DEF ConsoleInit, AddressFits, PIPELINE_TAB_BAR
<1>2. AnswerFits
  BY DEF ConsoleInit, AnswerFits, PanelWaits
<1>3. CardFits
  <2> DEFINE u == Untold
  <2> HIDE DEF u
  <2>1. card = [told |-> u, row |-> "none", tab |-> "download", open |-> FALSE,
                applied |-> FALSE, picked |-> "none"]
    BY DEF ConsoleInit, u
  <2>2. u \in Details \cup {Untold}
    BY DEF u
  <2> QED BY <2>1, <2>2 DEF CardFits, BULK_CARD_STAGE_TABS
<1> QED BY <1>1, <1>2, <1>3 DEF ConsoleInv

LEMMA AddressStands ==
  ASSUME AddressFits, UNCHANGED <<recent, navs>>, address'.process = address.process,
         address' \in [tab : PIPELINE_TAB_BAR, process : Bulks \cup {NoBulk}]
  PROVE  AddressFits'
BY DEF AddressFits

(* Whatever the two effects do, the page comes to rest.                    *)
LEMMA AddressKeeps ==
  ASSUME AddressFits, [ConsoleNext]_consoleVars
  PROVE  AddressFits'
<1> USE DEF AddressFits
<1> DEFINE Address == [tab : PIPELINE_TAB_BAR, process : Bulks \cup {NoBulk}]
<1>1. ASSUME NEW S \in SUBSET Bulks, SnapshotPolled(S)
      PROVE  AddressFits'
  BY <1>1 DEF SnapshotPolled, Eventful, Quiet
<1>2. CASE AutoSelect
  <2> DEFINE new == Max0(RecentFresh)
  <2>1. new \in RecentFresh
    <3>1. RecentFresh \in SUBSET Bulks /\ RecentFresh # {}
      BY <1>2 DEF AutoSelect, RecentFresh
    <3>2. \E b \in RecentFresh : \A c \in RecentFresh : c <= b
      BY <3>1, ConsoleAssumption
    <3> QED BY <3>1, <3>2 DEF Max0
  <2>2. new \in recent /\ new \in Bulks
    BY <2>1 DEF RecentFresh
  <2>3. address'.process = new /\ address' \in Address /\ recent' = recent
    BY <1>2, <2>2 DEF AutoSelect, Quiet
  <2>4. navs' \in 0..2
    BY <1>2, ConsoleAssumption DEF AutoSelect, Effect
  <2>5. new # NoBulk
    BY <2>2, ConsoleAssumption
  <2> QED BY <2>2, <2>3, <2>4, <2>5
<1>3. CASE DropGone
  <2>1. address'.process = NoBulk /\ address' \in Address /\ recent' = recent
    BY <1>3 DEF DropGone, Quiet
  <2>2. navs = 0 /\ navs' \in 0..1
    BY <1>3, ConsoleAssumption DEF DropGone, Effect
  <2> QED BY <2>1, <2>2
<1>4. ASSUME NEW b \in Bulks, ToggleRow(b)
      PROVE  AddressFits'
  BY <1>4 DEF ToggleRow, Eventful, Quiet
<1>5. CASE ChangeWindow
  BY <1>5 DEF ChangeWindow, Eventful, Quiet
<1>6. ASSUME NEW t \in PIPELINE_TAB_BAR, SetTab(t)
      PROVE  AddressFits'
  BY <1>6 DEF SetTab, Eventful, Quiet
<1>8. ASSUME NEW t \in PIPELINE_TAB_BAR,
             UNCHANGED <<recent, navs>>, address' = [address EXCEPT !.tab = t]
      PROVE  AddressFits'
  BY <1>8, AddressStands
<1>9. CASE UNCHANGED consoleVars
  BY <1>9 DEF consoleVars, boardVars
<1>10. ASSUME NEW t \in PIPELINE_TAB_BAR, ChangeTab(t)
       PROVE  AddressFits'
  BY <1>8, <1>10 DEF ChangeTab, OnCalls, boardVars
<1>11. CASE ViewResult
  <2>1. "pipeline" \in PIPELINE_TAB_BAR
    BY DEF PIPELINE_TAB_BAR
  <2>2. UNCHANGED <<recent, navs>>
    BY <1>11 DEF ViewResult, OnCalls, boardVars
  <2>3. address' = address \/ address' = [address EXCEPT !.tab = "pipeline"]
    BY <1>11 DEF ViewResult
  <2> QED BY <1>8, <2>1, <2>2, <2>3
<1>12. ASSUME AskRun \/ CancelRun \/ ConfirmRun \/ RetryRun \/ RunStep \/ RunSucceeds \/ RunFails
              \/ RefreshHash \/ RetryHash \/ HashStep \/ (\E ok \in BOOLEAN : HashEnds(ok))
              \/ ClearPanel
       PROVE  AddressFits'
  BY <1>12 DEF AskRun, CancelRun, ConfirmRun, RetryRun, StartRun, RunStep, RunSucceeds, RunFails,
       RefreshHash, RetryHash, StartHash, HashStep, HashEnds, ClearPanel, OnCalls, boardVars
<1>13. ASSUME NEW c, OnCard(c) PROVE AddressFits'
  BY <1>13 DEF OnCard, boardVars
<1>14. ASSUME NEW h, OnHistory(h) PROVE AddressFits'
  BY <1>14 DEF OnHistory, boardVars
<1>15. ASSUME NEW e, OnExplorer(e) PROVE AddressFits'
  BY <1>15 DEF OnExplorer, boardVars
<1> QED
  BY <1>1, <1>2, <1>3, <1>4, <1>5, <1>6, <1>9, <1>10, <1>11, <1>12, <1>13, <1>14, <1>15
  DEF ConsoleNext, ToggleCard, PickStage, CardPolled, RowPolled, FilterRuns, HistoryPolled,
      HistoryOf, OpenExplorer, ToggleSeverity, TypeQuery, ApplyQuery, ToggleEntry

(* The panel waits only for a refresh in flight.                           *)
LEMMA AnswerKeeps ==
  ASSUME AnswerFits, [ConsoleNext]_consoleVars
  PROVE  AnswerFits'
<1> USE DEF AnswerFits, PanelWaits
<1>1. CASE AskRun \/ CancelRun
  BY <1>1 DEF AskRun, CancelRun, OnCalls
<1>2. ASSUME NEW from \in {"here", "away"}, StartRun(from)
      PROVE  AnswerFits'
  BY <1>2 DEF StartRun, OnCalls
<1>3. CASE ConfirmRun
  BY <1>2, <1>3 DEF ConfirmRun
<1>4. CASE RetryRun
  BY <1>2, <1>4 DEF RetryRun
<1>5. CASE RunStep \/ RunFails
  BY <1>5 DEF RunStep, RunFails, OnCalls
<1>6. CASE RunSucceeds
  BY <1>6 DEF RunSucceeds, OnCalls
<1>7. CASE StartHash
  BY <1>7 DEF StartHash, OnCalls
<1>8. CASE HashStep
  BY <1>8 DEF HashStep, OnCalls
<1>9. ASSUME NEW ok \in BOOLEAN, HashEnds(ok)
      PROVE  AnswerFits'
  <2>1. flights' = [flights EXCEPT !.hash = "no"]
        /\ (answer' = [answer EXCEPT !.result = "hash"]
            \/ answer' = [answer EXCEPT !.result = "error"])
    BY <1>9 DEF HashEnds, ShowsError, OnCalls
  <2> QED BY <2>1
<1>10. CASE ClearPanel
  BY <1>10 DEF ClearPanel, OnCalls
<1>11. CASE UNCHANGED <<flights, answer>>
  BY <1>11
<1>12. ASSUME NEW v, Quiet(v) PROVE AnswerFits'
  BY <1>11, <1>12 DEF Quiet, callVars
<1>13. CASE ViewResult \/ \E t \in PIPELINE_TAB_BAR : ChangeTab(t)
  BY <1>11, <1>13 DEF ViewResult, ChangeTab, OnCalls, callVars
<1>14. ASSUME NEW c, OnCard(c) PROVE AnswerFits'
  BY <1>11, <1>14 DEF OnCard, callVars
<1>15. ASSUME NEW h, OnHistory(h) PROVE AnswerFits'
  BY <1>11, <1>15 DEF OnHistory, callVars
<1>16. ASSUME NEW e, OnExplorer(e) PROVE AnswerFits'
  BY <1>11, <1>16 DEF OnExplorer, callVars
<1>17. CASE UNCHANGED consoleVars
  BY <1>11, <1>17 DEF consoleVars, callVars
<1>18. CASE \/ \E S \in SUBSET Bulks : SnapshotPolled(S)
            \/ AutoSelect \/ DropGone \/ ChangeWindow
            \/ \E b \in Bulks : ToggleRow(b)
            \/ \E t \in PIPELINE_TAB_BAR : SetTab(t)
  BY <1>12, <1>18 DEF SnapshotPolled, AutoSelect, DropGone, ChangeWindow, ToggleRow, SetTab
<1>19. CASE RefreshHash \/ RetryHash
  BY <1>7, <1>19 DEF RefreshHash, RetryHash
<1> QED
  BY <1>1, <1>3, <1>4, <1>5, <1>6, <1>8, <1>9, <1>10, <1>13, <1>14, <1>15, <1>16, <1>17, <1>18, <1>19
  DEF ConsoleNext, ToggleCard, PickStage, CardPolled, RowPolled, FilterRuns, HistoryPolled,
      HistoryOf, OpenExplorer, ToggleSeverity, TypeQuery, ApplyQuery, ToggleEntry

LEMMA StagesHaveTabs ==
  ASSUME NEW stage PROVE TabOf(stage) \in BULK_CARD_STAGE_TABS
BY DEF TabOf, BULK_CARD_STAGE_TABS

(* A picked tab stays while the card is open.                              *)
LEMMA CardKeeps ==
  ASSUME CardFits, [ConsoleNext]_consoleVars
  PROVE  CardFits'
<1> USE DEF CardFits
<1> DEFINE told == Details \cup {Untold}
           Card == [told : told, row : {d.current : d \in Details} \cup {"none"},
                    tab : BULK_CARD_STAGE_TABS, open : BOOLEAN, applied : BOOLEAN,
                    picked : BULK_CARD_STAGE_TABS \cup {"none"}]
<1>1. CASE card' = card
  BY <1>1
<1>2. CASE ToggleCard
  <2>1. CASE card.open
    <3>1. card' = [card EXCEPT !.open = FALSE, !.applied = FALSE, !.picked = "none"]
      BY <1>2, <2>1 DEF ToggleCard, OnCard
    <3> QED BY <3>1
  <2>2. CASE ~card.open
    <3>1. PICK stage : card' = [card EXCEPT !.open = TRUE, !.applied = TRUE, !.tab = TabOf(stage)]
      BY <1>2, <2>2 DEF ToggleCard, OnCard
    <3>2. card.picked = "none"
      BY <2>2
    <3> QED BY <3>1, <3>2, StagesHaveTabs
  <2> QED BY <2>1, <2>2
<1>3. ASSUME NEW t \in BULK_CARD_STAGE_TABS, PickStage(t)
      PROVE  CardFits'
  <2>1. card.open /\ card' = [card EXCEPT !.tab = t, !.picked = t]
    BY <1>3 DEF PickStage, OnCard
  <2> QED BY <2>1
<1>4. ASSUME NEW d \in Details, CardPolled(d)
      PROVE  CardFits'
  <2>1. card.open /\ card.applied
    BY <1>4 DEF CardPolled
  <2>2. card' = [card EXCEPT !.told = d, !.tab = card.tab, !.applied = TRUE]
    BY <1>4, <2>1 DEF CardPolled, OnCard, CardTold
  <2> QED BY <2>1, <2>2
<1>5. ASSUME NEW d \in Details, RowPolled(d)
      PROVE  CardFits'
  <2>1. card' = [card EXCEPT !.row = d.current]
    BY <1>5 DEF RowPolled, OnCard
  <2> QED BY <2>1
<1>6. ASSUME NEW v, Quiet(v) \/ OnCalls(v) PROVE CardFits'
  BY <1>1, <1>6 DEF Quiet, OnCalls
<1>7. ASSUME NEW h, OnHistory(h) \/ OnExplorer(h) PROVE CardFits'
  BY <1>1, <1>7 DEF OnHistory, OnExplorer
<1>8. CASE UNCHANGED consoleVars
  BY <1>1, <1>8 DEF consoleVars
<1>9. CASE \/ \E S \in SUBSET Bulks : SnapshotPolled(S)
           \/ AutoSelect \/ DropGone \/ ChangeWindow
           \/ \E b \in Bulks : ToggleRow(b)
           \/ \E t \in PIPELINE_TAB_BAR : SetTab(t) \/ ChangeTab(t)
  BY <1>6, <1>9 DEF SnapshotPolled, AutoSelect, DropGone, ChangeWindow, ToggleRow, SetTab,
       ChangeTab
<1>10. CASE \/ AskRun \/ CancelRun \/ ConfirmRun \/ RetryRun \/ RunStep \/ RunSucceeds \/ RunFails
            \/ RefreshHash \/ RetryHash \/ HashStep
            \/ \E ok \in BOOLEAN : HashEnds(ok)
            \/ ClearPanel \/ ViewResult
  BY <1>6, <1>10 DEF AskRun, CancelRun, ConfirmRun, RetryRun, StartRun, RunStep, RunSucceeds,
       RunFails, RefreshHash, RetryHash, StartHash, HashStep, HashEnds, ClearPanel, ViewResult
<1>11. CASE \/ \E f \in RUN_STATUS_FILTERS : FilterRuns(f)
            \/ \E g \in Histories : HistoryPolled(g)
            \/ \E b \in Bulks : HistoryOf(b)
            \/ \E mode \in {"errors", "logs"} : OpenExplorer(mode)
            \/ \E level \in LOG_SEVERITY_OPTIONS : ToggleSeverity(level)
            \/ \E q \in {"none", "q"} : TypeQuery(q)
            \/ ApplyQuery
            \/ ToggleEntry("e1")
  BY <1>7, <1>11 DEF FilterRuns, HistoryPolled, HistoryOf, OpenExplorer, ToggleSeverity,
       TypeQuery, ApplyQuery, ToggleEntry
<1> QED BY <1>2, <1>3, <1>4, <1>5, <1>8, <1>9, <1>10, <1>11 DEF ConsoleNext

(* Attempts of the API: a finite number, each with a status.               *)
IsAttempts(s) == IsFiniteSet(s) /\ \A a \in s : a.status \in StageStatuses

LEMMA StatusCounts ==
  ASSUME NEW s, IsFiniteSet(s), NEW e
  PROVE  StatusIn(s, e) \in Nat /\ IsFiniteSet({a \in s : a.status \in e})
<1>1. {a \in s : a.status \in e} \in SUBSET s
  OBVIOUS
<1> QED BY <1>1, FS_Subset, FS_CardinalityType DEF StatusIn

(* Statuses without one in common are counted apart.                       *)
LEMMA StatusesApart ==
  ASSUME NEW s, IsFiniteSet(s), NEW e, NEW f, e \cap f = {}
  PROVE  StatusIn(s, e \cup f) = StatusIn(s, e) + StatusIn(s, f)
<1> DEFINE E == {a \in s : a.status \in e}
           F == {a \in s : a.status \in f}
<1>1. {a \in s : a.status \in e \cup f} = E \cup F /\ E \cap F = {}
  OBVIOUS
<1>2. IsFiniteSet(E) /\ IsFiniteSet(F) /\ Cardinality(E) \in Nat /\ Cardinality(F) \in Nat
  BY StatusCounts, FS_CardinalityType
<1>3. Cardinality(E \cup F) = Cardinality(E) + Cardinality(F) - Cardinality(E \cap F)
  BY <1>2, FS_Union
<1>4. Cardinality(E \cap F) = 0
  BY <1>1, FS_EmptySet
<1> HIDE DEF E, F
<1>5. Cardinality(E \cup F) = Cardinality(E) + Cardinality(F)
  BY <1>2, <1>3, <1>4
<1> QED BY <1>1, <1>5 DEF StatusIn, E, F

(* Attempts without one in common add up.                                  *)
LEMMA AttemptsApart ==
  ASSUME NEW s, NEW t, IsFiniteSet(s), IsFiniteSet(t), s \cap t = {}, NEW e
  PROVE  StatusIn(s \cup t, e) = StatusIn(s, e) + StatusIn(t, e)
<1> DEFINE S == {a \in s : a.status \in e}
           T == {a \in t : a.status \in e}
<1>1. {a \in s \cup t : a.status \in e} = S \cup T /\ S \cap T = {}
  OBVIOUS
<1>2. IsFiniteSet(S) /\ IsFiniteSet(T) /\ Cardinality(S) \in Nat /\ Cardinality(T) \in Nat
  BY StatusCounts, FS_CardinalityType
<1>3. Cardinality(S \cup T) = Cardinality(S) + Cardinality(T) - Cardinality(S \cap T)
  BY <1>2, FS_Union
<1>4. Cardinality(S \cap T) = 0
  BY <1>1, FS_EmptySet
<1> HIDE DEF S, T
<1>5. Cardinality(S \cup T) = Cardinality(S) + Cardinality(T)
  BY <1>2, <1>3, <1>4
<1> QED BY <1>1, <1>5 DEF StatusIn, S, T

(* The merged counts of two steps are the counts of their attempts.        *)
LEMMA CountsMerge ==
  ASSUME NEW s, NEW t, IsFiniteSet(s), IsFiniteSet(t), s \cap t = {}
  PROVE  MergeCounts(Counts(s), Counts(t)) = Counts(s \cup t)
<1> DEFINE u == s \cup t
<1>1. Cardinality(u) = Cardinality(s) + Cardinality(t)
  <2>1. Cardinality(s) \in Nat /\ Cardinality(t) \in Nat /\ Cardinality(s \cap t) = 0
    BY FS_CardinalityType, FS_EmptySet
  <2>2. Cardinality(u) = Cardinality(s) + Cardinality(t) - Cardinality(s \cap t)
    BY FS_Union
  <2> QED BY <2>1, <2>2
<1>2. \A e : StatusIn(u, e) = StatusIn(s, e) + StatusIn(t, e)
  BY AttemptsApart
<1> HIDE DEF u
<1> DEFINE sums == MergeCounts(Counts(s), Counts(t)).rows
<1> DEFINE keys == {"pending", "claimed", "in_flight", "abandoned"}
           of(w) == Counts(w).rows
<1>3. ASSUME NEW w
      PROVE  /\ of(w) = [k \in keys |-> of(w)[k]]
             /\ of(w)["pending"] = StatusIn(w, {"none", "pending"})
             /\ of(w)["claimed"] = StatusIn(w, {"claimed"})
             /\ of(w)["in_flight"] = StatusIn(w, {"in_flight"})
             /\ of(w)["abandoned"] = StatusIn(w, {"abandoned"})
  BY DEF Counts
<1>4. DOMAIN of(s) = keys
  BY <1>3
<1> HIDE DEF of
<1>5. ASSUME NEW k \in keys PROVE of(u)[k] = of(s)[k] + of(t)[k]
  <2>1. CASE k = "pending"
    BY <1>2, <1>3, <2>1
  <2>2. CASE k = "claimed"
    BY <1>2, <1>3, <2>2
  <2>3. CASE k = "in_flight"
    BY <1>2, <1>3, <2>3
  <2>4. CASE k = "abandoned"
    BY <1>2, <1>3, <2>4
  <2> QED BY <2>1, <2>2, <2>3, <2>4
<1>6. sums = [k \in keys |-> of(s)[k] + of(t)[k]]
  BY <1>4 DEF MergeCounts, of
<1>7. of(u) = [k \in keys |-> of(s)[k] + of(t)[k]]
  BY <1>3, <1>5
<1>8. sums = of(u)
  BY <1>6, <1>7
<1> HIDE DEF sums
<1> QED BY <1>1, <1>2, <1>8 DEF MergeCounts, Counts, u, sums, of

(* The tiles and the open count together are all the attempts.             *)
LEMMA CountsAdd ==
  ASSUME NEW s, IsAttempts(s)
  PROVE  LET c == Counts(s)
             i == Indicators(c)
         IN /\ c.total = Cardinality(s) /\ c.total = c.open + c.success + c.failed
            /\ c.success = StatusIn(s, {"success"})
            /\ c.open \in Nat /\ c.success \in Nat /\ c.failed \in Nat
            /\ i.queued + i.in_flight = c.open
            /\ i.failed + i.abandoned = c.failed /\ i.finished = c.success
            /\ i.failed = StatusIn(s, TerminalFail \ {"abandoned"})
            /\ i.abandoned = StatusIn(s, {"abandoned"})
            /\ i.in_flight \in Nat /\ i.queued \in Nat
<1> DEFINE n(e) == StatusIn(s, e)
           waiting == {"none", "pending"}
           taken == {"claimed"}
           flying == {"in_flight"}
           won == {"success"}
           left == {"abandoned"}
           failing == TerminalFail \ left
<1>1. \A e : n(e) \in Nat
  BY StatusCounts DEF IsAttempts
<1>2. \A e, f : e \cap f = {} => n(e \cup f) = n(e) + n(f)
  BY StatusesApart DEF IsAttempts
<1> HIDE DEF n
<1>3. n({"claimed", "in_flight"}) = n(taken) + n(flying)
  <2>1. {"claimed", "in_flight"} = taken \cup flying /\ taken \cap flying = {}
    OBVIOUS
  <2> QED BY <1>2, <2>1
<1>4. n({"none", "pending", "claimed", "in_flight"}) = n(waiting) + n(taken) + n(flying)
  <2>1. {"none", "pending", "claimed", "in_flight"} = waiting \cup {"claimed", "in_flight"}
        /\ waiting \cap {"claimed", "in_flight"} = {}
    OBVIOUS
  <2>2. n({"none", "pending", "claimed", "in_flight"})
          = n(waiting) + n({"claimed", "in_flight"})
    BY <1>2, <2>1
  <2> QED BY <1>1, <1>3, <2>2
<1>5. n(TerminalFail) = n(failing) + n(left)
  <2>1. TerminalFail = failing \cup left /\ failing \cap left = {}
    BY DEF TerminalFail
  <2> QED BY <1>2, <2>1
<1>6. Cardinality(s) = n({"none", "pending", "claimed", "in_flight"}) + n(won) + n(TerminalFail)
  <2> DEFINE busy == {"none", "pending", "claimed", "in_flight"}
  <2>1. StageStatuses = (busy \cup won) \cup TerminalFail
        /\ (busy \cup won) \cap TerminalFail = {} /\ busy \cap won = {}
    BY DEF StageStatuses, TerminalFail
  <2>2. n(StageStatuses) = n(busy \cup won) + n(TerminalFail) /\ n(busy \cup won) = n(busy) + n(won)
    BY <1>2, <2>1
  <2>3. {a \in s : a.status \in StageStatuses} = s
    BY DEF IsAttempts
  <2>4. n(StageStatuses) = Cardinality(s)
    BY <2>3 DEF n, StatusIn
  <2> QED BY <1>1, <2>2, <2>4
<1> DEFINE c == Counts(s)
           i == Indicators(c)
<1>7. /\ c.total = Cardinality(s) /\ c.success = n(won) /\ c.failed = n(TerminalFail)
      /\ c.open = n({"none", "pending", "claimed", "in_flight"})
      /\ c.rows.pending = n(waiting) /\ c.rows.claimed = n(taken)
      /\ c.rows.in_flight = n(flying) /\ c.rows.abandoned = n(left)
  BY DEF Counts, n
<1> HIDE DEF c
<1>8. /\ i.finished = c.success /\ i.queued = c.rows.pending
      /\ i.in_flight = c.rows.claimed + c.rows.in_flight
      /\ i.failed = IF c.failed > c.rows.abandoned THEN c.failed - c.rows.abandoned ELSE 0
      /\ i.abandoned = c.rows.abandoned
  BY DEF Indicators
<1> HIDE DEF i
<1>9. i.failed = n(failing) /\ i.abandoned = n(left) /\ i.failed + i.abandoned = c.failed
  BY <1>1, <1>5, <1>7, <1>8
<1>10. i.queued + i.in_flight = c.open /\ i.queued \in Nat /\ i.in_flight \in Nat
  BY <1>1, <1>4, <1>7, <1>8
<1>11. c.total = c.open + c.success + c.failed /\ c.open \in Nat /\ c.success \in Nat
       /\ c.failed \in Nat
  BY <1>1, <1>6, <1>7
<1>12. c.success = StatusIn(s, {"success"}) /\ i.failed = StatusIn(s, TerminalFail \ {"abandoned"})
       /\ i.abandoned = StatusIn(s, {"abandoned"})
  BY <1>7, <1>9 DEF n
<1> QED BY <1>7, <1>8, <1>10, <1>11, <1>12, <1>9 DEF i, c

LEMMA ToldCounts ==
  ASSUME NEW d \in Details \cup {Untold}, NEW tb \in {"ingest", "matching"}
  PROVE  IsAttempts(AttemptsOf(d, tb)) /\ CountsForTab(d, tb) = Counts(AttemptsOf(d, tb))
<1>1. /\ IsFiniteSet(d.land) /\ IsFiniteSet(d.promote) /\ IsFiniteSet(d.matching)
      /\ \A a \in d.land \cup d.promote \cup d.matching : a.status \in StageStatuses
      /\ d.land \cap d.promote = {}
  <2>1. CASE d \in Details
    BY <2>1, ConsoleAssumption
  <2>2. CASE d = Untold
    <3>1. d.land = {} /\ d.promote = {} /\ d.matching = {}
      BY <2>2 DEF Untold
    <3> QED BY <3>1, FS_EmptySet
  <2> QED BY <2>1, <2>2
<1>2. IsFiniteSet(d.land \cup d.promote)
  BY <1>1, FS_Union
<1>3. IsAttempts(AttemptsOf(d, tb))
  BY <1>1, <1>2 DEF IsAttempts, AttemptsOf
<1>4. MergeCounts(Counts(d.land), Counts(d.promote)) = Counts(d.land \cup d.promote)
  BY <1>1, CountsMerge
<1> QED BY <1>3, <1>4 DEF CountsForTab, AttemptsOf

LEMMA TilesCount ==
  ASSUME CardFits
  PROVE  TilesCountOnce
<1> SUFFICES ASSUME NEW tb \in {"ingest", "matching"}
             PROVE  LET s == AttemptsOf(card.told, tb)
                        i == Indicators(CountsForTab(card.told, tb))
                        t == Tiles(i)
                    IN /\ t[1] + t[2] + t[3] + t[4] + t[5] = Cardinality(s)
                       /\ i.failed = StatusIn(s, TerminalFail \ {"abandoned"})
                       /\ i.abandoned = StatusIn(s, {"abandoned"})
  BY DEF TilesCountOnce
<1> DEFINE s == AttemptsOf(card.told, tb)
           c == Counts(s)
           i == Indicators(c)
           t == Tiles(i)
<1>1. IsAttempts(s) /\ CountsForTab(card.told, tb) = c
  BY ToldCounts DEF CardFits
<1>2. /\ c.total = Cardinality(s) /\ c.total = c.open + c.success + c.failed
      /\ c.open \in Nat /\ c.success \in Nat /\ c.failed \in Nat
      /\ i.queued + i.in_flight = c.open
      /\ i.failed + i.abandoned = c.failed /\ i.finished = c.success
      /\ i.failed = StatusIn(s, TerminalFail \ {"abandoned"})
      /\ i.abandoned = StatusIn(s, {"abandoned"})
      /\ i.in_flight \in Nat /\ i.queued \in Nat
  BY <1>1, CountsAdd
<1>3. i.failed \in Nat /\ i.abandoned \in Nat
  BY <1>1, <1>2, StatusCounts DEF IsAttempts
<1> HIDE DEF s, c, i
<1>4. t[1] + t[2] + t[3] + t[4] + t[5] = Cardinality(s)
  <2>1. t[1] = i.queued /\ t[2] = i.in_flight /\ t[3] = i.failed /\ t[4] = i.abandoned
        /\ t[5] = i.finished
    BY DEF Tiles
  <2> HIDE DEF t
  <2> QED BY <1>2, <1>3, <2>1
<1> QED BY <1>1, <1>2, <1>4 DEF s, i

LEMMA DoneIsDone ==
  ASSUME CardFits
  PROVE  DoneHasNoWork
<1> SUFFICES ASSUME NEW tb \in {"ingest", "matching"},
                    StageVisual(CountsForTab(card.told, tb), IsTabCurrent(card.told, tb))
                      = "complete"
             PROVE  /\ StatusIn(AttemptsOf(card.told, tb), {"success"})
                          = Cardinality(AttemptsOf(card.told, tb))
                    /\ ~Pulses(card.told, tb, BulkRunning(card.told))
  BY DEF DoneHasNoWork
<1> DEFINE s == AttemptsOf(card.told, tb)
           c == Counts(s)
           current == IsTabCurrent(card.told, tb)
<1>1. IsAttempts(s) /\ CountsForTab(card.told, tb) = c
  BY ToldCounts DEF CardFits
<1>2. /\ c.total = Cardinality(s) /\ c.total = c.open + c.success + c.failed
      /\ c.success = StatusIn(s, {"success"})
      /\ c.open \in Nat /\ c.success \in Nat /\ c.failed \in Nat
  BY <1>1, CountsAdd
<1>3. StageVisual(c, current) = "complete"
  BY <1>1
<1> HIDE DEF s, c
<1>4. c.open = 0 /\ c.failed = 0
  BY <1>2, <1>3 DEF StageVisual, WorkerDone
<1>5. StatusIn(s, {"success"}) = Cardinality(s)
  BY <1>2, <1>4
<1>6. ~Pulses(card.told, tb, BulkRunning(card.told))
  <2>1. CASE current
    <3>1. StageVisual(c, TRUE) = "complete"
      BY <1>3, <2>1 DEF StageVisual
    <3> QED BY <1>1, <3>1 DEF Pulses
  <2>2. CASE ~current
    BY <2>2 DEF Pulses
  <2> QED BY <2>1, <2>2
<1> QED BY <1>5, <1>6 DEF s

(* The default filter of the history keeps what waits and what failed.     *)
LEMMA AttentionKept == AttentionCovers
<1> SUFFICES ASSUME NEW b \in DOMAIN history.groups,
                    NEW st \in history.groups[b],
                    st \in (OPEN_RUN_STATUSES \cup FAILED_RUN_STATUSES) \ {"timeout"}
             PROVE  /\ b \in DOMAIN FilteredGroups(history.groups, "attention")
                    /\ st \in FilteredGroups(history.groups, "attention")[b]
  BY DEF AttentionCovers
<1>1. RunMatches(st, "attention")
  BY DEF RunMatches, OPEN_RUN_STATUSES, FAILED_RUN_STATUSES, SaysError
<1> QED BY <1>1 DEF FilteredGroups

(* The console of the pipeline comes to rest and tells what is there: the  *)
(* two effects that keep its address navigate twice at most, the panel     *)
(* waits only for a refresh in flight (ConsoleRests), five tiles count     *)
(* every attempt of a stage once (TilesCountOnce), a stage shown as done   *)
(* has only successes (DoneHasNoWork), the picked tab stays (PickKept) and *)
(* the default filter of the history hides no run that waits or failed but *)
(* the timed-out ones (AttentionCovers; drop-pipeline.tsx).                *)
THEOREM ConsoleAsTold == ConsoleSpec => []ConsoleTold
<1>1. ConsoleInit => ConsoleInv
  BY ConsoleStarts
<1>2. ConsoleInv /\ [ConsoleNext]_consoleVars => ConsoleInv'
  BY AddressKeeps, AnswerKeeps, CardKeeps DEF ConsoleInv
<1>3. ConsoleInv => ConsoleTold
  <2> SUFFICES ASSUME ConsoleInv PROVE ConsoleTold
    OBVIOUS
  <2>1. ConsoleRests
    BY DEF ConsoleInv, AddressFits, AnswerFits, ConsoleRests, EffectsSettle
  <2>2. TilesCountOnce /\ DoneHasNoWork
    BY TilesCount, DoneIsDone DEF ConsoleInv
  <2>3. PickKept
    BY DEF ConsoleInv, CardFits, PickKept
  <2> QED BY <2>1, <2>2, <2>3, AttentionKept DEF ConsoleTold
<1> QED BY <1>1, <1>2, <1>3, PTL DEF ConsoleSpec
=============================================================================
