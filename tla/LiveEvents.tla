----------------------------- MODULE LiveEvents -----------------------------
(***************************************************************************)
(* The live cards of the pipeline console.  A trigger notifies of each     *)
(* row of statistics that changed; a bridge in admin-api collects the ids, *)
(* reads their summaries and hands them to every open stream               *)
(* (live_rollup_notify.py, drop_pipeline.py); the page puts them over what *)
(* it has read, and reads again from time to time (live-events.ts,         *)
(* drop-pipeline.tsx).  A summary is the version of its row.  A behaviour  *)
(* is about one end, liveDesk: "bridge", where no stream is open, or       *)
(* "page", where the bridge tells whatever it may have read.               *)
(***************************************************************************)
EXTENDS Naturals, Sequences, FiniteSets, Functions

CONSTANTS
  Cards,       \* processes: numbers, a later one is greater
  OpenCard,    \* the one whose card may be opened
  InboxRoom, QueueRoom,  \* places for notifications, for events of a stream
  MaxCommits   \* bound: changes of rows

ASSUME LiveAssumption ==
  Cards \subseteq Nat \ {0} /\ OpenCard \in Cards /\ InboxRoom > 0 /\ MaxCommits \in Nat

VARIABLES
  liveDesk,
  rollup,     \* process -> version of its row, 0: there is none
  bridge,     \* [listening, inbox, dirty, emitted, latest]
  readers,    \* tasks of the bridge: [at, seen]; seen, process -> version or 0
  stream,     \* the page's: [at, seen, queue]
  paints,     \* the page's caches: process -> version, 0: not there
  polls,      \* what fills them: [at, seen, data]
  lapsed,     \* processes whose last notification was lost, or its reading
  regressed,  \* processes on which a refresh told what had changed since
  owed        \* processes told of that no cache holds

liveVars == <<liveDesk, rollup, bridge, readers, stream, paints, polls, lapsed, regressed, owed>>

Unseen == [p \in Cards |-> 0]
AtRest   == [at |-> "idle", seen |-> Unseen]

Existing == {p \in Cards : rollup[p] > 0}
Latest   == {p \in Existing : \A q \in Existing : q <= p}

-----------------------------------------------------------------------------
(* The bridge                                                              *)

(* A row is written; a process comes after those there are.  Its           *)
(* notification is lost if nobody listens or the inbox is full.            *)
Notified(p) == bridge.listening /\ Len(bridge.inbox) < InboxRoom

RowChanges(p) ==
  /\ FoldFunction(+, 0, rollup) < MaxCommits /\ (rollup[p] = 0 => \A q \in Existing : q < p)
  /\ rollup' = [rollup EXCEPT ![p] = @ + 1]
  /\ IF liveDesk = "bridge" /\ Notified(p)
     THEN bridge' = [bridge EXCEPT !.inbox = Append(@, p)] /\ lapsed' = lapsed \ {p}
     ELSE UNCHANGED bridge /\ lapsed' = lapsed \cup {p}
  /\ UNCHANGED <<readers, stream, paints, polls, regressed, owed>>

(* The check whether the process is complete, which follows, only wakes    *)
(* the flush before its window ends.                                       *)
Consume ==
  /\ bridge.inbox # <<>>
  /\ bridge' = [bridge EXCEPT !.inbox = Tail(@), !.dirty = @ \cup {Head(bridge.inbox)}]
  /\ UNCHANGED <<rollup, readers, stream, paints, polls, lapsed, regressed, owed>>

Wanted(ps) == [at |-> "asks", seen |-> [p \in Cards |-> IF p \in ps THEN 1 ELSE 0]]

StartsReading(r, ps) == readers' = [readers EXCEPT ![r] = Wanted(ps)]

AskedFor(r) == {p \in Cards : readers[r].seen[p] > 0}

(* The ids are cleared as the reading starts: one that is notified of     *)
(* meanwhile is dirty anew.                                               *)
DirtyAfter(moment, ps)   == IF moment = "start" THEN bridge.dirty \ ps ELSE bridge.dirty

Flush ==
  /\ readers["flush"].at = "idle" /\ bridge.dirty # {}
  /\ StartsReading("flush", bridge.dirty)
  /\ bridge' = [bridge EXCEPT !.dirty = DirtyAfter("start", @)]
  /\ UNCHANGED <<rollup, stream, paints, polls, lapsed, regressed, owed>>

(* Every five seconds, and once the listener is attached again: the latest *)
(* process, whose id is read before its summary.                           *)
RefreshLatest(r) ==
  /\ readers[r].at = "idle" /\ Latest # {} /\ StartsReading(r, Latest)
  /\ UNCHANGED <<rollup, bridge, stream, paints, polls, lapsed, regressed, owed>>

SummariesRead(r) ==
  /\ readers[r].at = "asks"
  /\ readers' = [readers EXCEPT ![r] = [at |-> "holds",
                   seen |-> [p \in Cards |-> IF p \in AskedFor(r) THEN rollup[p] ELSE 0]]]
  /\ UNCHANGED <<rollup, bridge, stream, paints, polls, lapsed, regressed, owed>>

ReadingFails(r) ==
  /\ readers[r].at = "asks" /\ readers' = [readers EXCEPT ![r] = AtRest]
  /\ lapsed' = IF r = "flush" THEN lapsed \cup AskedFor(r) ELSE lapsed
  /\ bridge' = [bridge EXCEPT !.dirty = IF r = "flush" THEN DirtyAfter("end", AskedFor(r)) ELSE @]
  /\ UNCHANGED <<rollup, stream, paints, polls, regressed, owed>>

(* To all streams, what differs from what was told last: no await between. *)
Emit(r) ==
  LET seen == readers[r].seen
      told == AskedFor(r)
  IN
  /\ readers[r].at = "holds" /\ readers' = [readers EXCEPT ![r] = AtRest]
  /\ bridge' = [bridge EXCEPT
       !.emitted = [p \in Cards |-> IF p \in told THEN seen[p] ELSE @[p]],
       !.latest = IF r = "flush" THEN @ ELSE CHOOSE p \in told : TRUE,
       !.dirty = IF r = "flush" THEN DirtyAfter("end", told) ELSE @]
  /\ regressed' = (regressed \ told) \cup {p \in told : r # "flush" /\ seen[p] < rollup[p]}
  /\ UNCHANGED <<rollup, stream, paints, polls, lapsed, owed>>

ListenerLost ==
  /\ bridge.listening /\ bridge' = [bridge EXCEPT !.listening = FALSE]
  /\ UNCHANGED <<rollup, readers, stream, paints, polls, lapsed, regressed, owed>>

(* It is attached before the latest process is read.                       *)
ListensAgain ==
  /\ ~bridge.listening /\ readers["catchup"].at = "idle"
  /\ bridge' = [bridge EXCEPT !.listening = TRUE]
  /\ readers' = [readers EXCEPT !["catchup"] = IF Latest = {} THEN @ ELSE Wanted(Latest)]
  /\ UNCHANGED <<rollup, stream, paints, polls, lapsed, regressed, owed>>

-----------------------------------------------------------------------------
(* A stream                                                                *)

(* In behaviours about the page: any version a reader may have read, to a  *)
(* stream whose queue has room.                                            *)
Tells(p) ==
  /\ \E v \in (1..rollup[p]) \ {bridge.emitted[p]} :
       /\ \E q \in {bridge.latest, p} :
            bridge' = [bridge EXCEPT !.emitted[p] = v, !.latest = q]
       /\ stream' = IF stream.at \in {"off", "dead"} \/ Len(stream.queue) = QueueRoom THEN stream
                    ELSE [stream EXCEPT !.queue = Append(@, [id |-> p, v |-> v])]
  /\ UNCHANGED <<rollup, readers, paints, polls, lapsed, regressed, owed>>

(* A queue begins with the last word on the latest process.  The emitter   *)
(* reads that process once for itself, and sends it ahead of the queue.    *)
Replay ==
  LET p == bridge.latest
  IN IF p # 0 /\ bridge.emitted[p] > 0 THEN <<[id |-> p, v |-> bridge.emitted[p]]>> ELSE <<>>

Subscribe ==
  /\ stream.at = "off" /\ stream' = [at |-> "initial", seen |-> Unseen, queue |-> Replay]
  /\ UNCHANGED <<rollup, bridge, readers, paints, polls, lapsed, regressed, owed>>

InitialRead ==
  /\ stream.at = "initial"
  /\ stream' \in {[stream EXCEPT !.at = "open"],
                  [stream EXCEPT !.at = "holds",
                     !.seen = [p \in Cards |-> IF p \in Latest THEN rollup[p] ELSE 0]]}
  /\ UNCHANGED <<rollup, bridge, readers, paints, polls, lapsed, regressed, owed>>

-----------------------------------------------------------------------------
(* The page                                                                *)

PaintCaches == {"list", "detail"}
Requested(data) == [at |-> "asks", seen |-> Unseen, data |-> data]

(* What an event tells goes over a row that is there; it makes no row.    *)
OverRow(shown, p, v) == IF shown[p] = 0 THEN shown ELSE [shown EXCEPT ![p] = v]

(* invalidateQueries asks anew, over a reading in flight unless it is the  *)
(* first.  A mutant leaves those in flight.                                *)
JoinsFlight(poll) == IF poll.at \in {"off", "asks", "holds"} THEN poll ELSE Requested(poll.data)
AskAnew(poll) ==
  IF poll.at = "off" \/ (poll.at # "idle" /\ ~poll.data) THEN poll ELSE Requested(poll.data)

Paint(p, v) ==
  /\ paints' = [c \in PaintCaches |-> IF c = "list" \/ p = OpenCard THEN OverRow(paints[c], p, v)
                                 ELSE paints[c]]
  /\ IF \E c \in PaintCaches : paints[c][p] > 0 THEN UNCHANGED <<polls, owed>>
     ELSE /\ polls' = [c \in PaintCaches |-> AskAnew(polls[c])]
          /\ owed' = IF polls["list"].data THEN owed \cup {p} ELSE owed

HearInitial ==
  /\ stream.at = "holds" /\ stream' = [stream EXCEPT !.at = "open", !.seen = Unseen]
  /\ IF stream.seen = Unseen THEN UNCHANGED <<paints, polls, owed>>
     ELSE LET p == CHOOSE q \in Cards : stream.seen[q] > 0 IN Paint(p, stream.seen[p])
  /\ UNCHANGED <<rollup, bridge, readers, lapsed, regressed>>

HearEvent ==
  /\ stream.at = "open" /\ stream.queue # <<>>
  /\ stream' = [stream EXCEPT !.queue = Tail(@)]
  /\ Paint(Head(stream.queue).id, Head(stream.queue).v)
  /\ UNCHANGED <<rollup, bridge, readers, lapsed, regressed>>

(* onerror closes the stream, for as long as the page stays.               *)
StreamFails ==
  /\ stream.at \notin {"off", "dead"}
  /\ stream' = [at |-> "dead", seen |-> Unseen, queue |-> <<>>]
  /\ UNCHANGED <<rollup, bridge, readers, paints, polls, lapsed, regressed, owed>>

Polls(c) ==
  /\ polls[c].at = "idle" /\ polls' = [polls EXCEPT ![c] = Requested(@.data)]
  /\ UNCHANGED <<rollup, bridge, readers, stream, paints, lapsed, regressed, owed>>

OpensCard ==
  /\ polls["detail"].at = "off" /\ paints["list"][OpenCard] > 0
  /\ polls' = [polls EXCEPT !["detail"] = Requested(@.data)]
  /\ UNCHANGED <<rollup, bridge, readers, stream, paints, lapsed, regressed, owed>>

(* It is not asked for further, but stays in the cache.                    *)
ClosesCard ==
  /\ polls["detail"].at = "idle" /\ polls' = [polls EXCEPT !["detail"].at = "off"]
  /\ UNCHANGED <<rollup, bridge, readers, stream, paints, lapsed, regressed, owed>>

PollServed(c) ==
  /\ polls[c].at = "asks"
  /\ polls' = [polls EXCEPT ![c].at = "holds", ![c].seen = [p \in Cards |->
                  IF c = "list" \/ p = OpenCard THEN rollup[p] ELSE 0]]
  /\ UNCHANGED <<rollup, bridge, readers, stream, paints, lapsed, regressed, owed>>

(* It replaces what events have put there since.                           *)
PollLands(c) ==
  /\ polls[c].at = "holds" /\ paints' = [paints EXCEPT ![c] = polls[c].seen]
  /\ polls' = [polls EXCEPT ![c] = [at |-> "idle", seen |-> Unseen, data |-> TRUE]]
  /\ owed' = IF c = "list" THEN {p \in owed : polls[c].seen[p] = 0} ELSE owed
  /\ UNCHANGED <<rollup, bridge, readers, stream, lapsed, regressed>>

PollFails(c) ==
  /\ polls[c].at = "asks" /\ polls' = [polls EXCEPT ![c].at = "idle"]
  /\ owed' = IF c = "list" THEN {} ELSE owed
  /\ UNCHANGED <<rollup, bridge, readers, stream, paints, lapsed, regressed>>

-----------------------------------------------------------------------------

LiveInit ==
  /\ liveDesk \in {"bridge", "page"} /\ rollup = Unseen
  /\ bridge = [listening |-> liveDesk = "bridge", inbox |-> <<>>, dirty |-> {}, emitted |-> Unseen,
               latest |-> 0]
  /\ readers = [r \in {"flush", "backstop", "catchup"} |-> AtRest]
  /\ stream = [at |-> "off", seen |-> Unseen, queue |-> <<>>]
  /\ paints = [c \in PaintCaches |-> Unseen]
  /\ polls = [c \in PaintCaches |-> [at |-> IF c = "list" THEN "asks" ELSE "off", seen |-> Unseen,
                                data |-> FALSE]]
  /\ lapsed = {} /\ regressed = {} /\ owed = {}

LiveNext ==
  /\ UNCHANGED liveDesk
  /\ \/ \E p \in Cards : RowChanges(p)
     \/ /\ liveDesk = "bridge"
        /\ \/ Consume \/ Flush \/ RefreshLatest("backstop") \/ ListenerLost \/ ListensAgain
           \/ \E r \in DOMAIN readers : SummariesRead(r) \/ ReadingFails(r) \/ Emit(r)
     \/ /\ liveDesk = "page"
        /\ \/ \E p \in Cards : Tells(p)
           \/ Subscribe \/ InitialRead \/ HearInitial \/ HearEvent \/ StreamFails
           \/ OpensCard \/ ClosesCard
           \/ \E c \in PaintCaches : Polls(c) \/ PollServed(c) \/ PollLands(c) \/ PollFails(c)

-----------------------------------------------------------------------------
(* Properties                                                              *)

(* One who holds summaries asked for some; a queue keeps to its room.      *)
LiveTypeOK ==
  /\ \A p \in Cards : rollup[p] \in 0..MaxCommits /\ bridge.emitted[p] <= rollup[p]
  /\ bridge.dirty \subseteq Existing /\ Len(bridge.inbox) <= InboxRoom
  /\ Len(stream.queue) <= QueueRoom /\ bridge.latest \in Existing \cup {0}
  /\ \A r \in DOMAIN readers : readers[r].at = "idle" \/ AskedFor(r) # {}

(* With no notification left to handle, what the bridge told last of a     *)
(* process is what its row holds, also if the row changed while its        *)
(* summary was read, and whatever was read beside it: unless a             *)
(* notification was lost after it, or a refresh of the latest process told *)
(* what it had read before.                                                *)
BridgeExact ==
  liveDesk = "bridge" /\ bridge.inbox = <<>> /\ bridge.dirty = {} /\ readers["flush"].at = "idle" =>
    \A p \in Cards \ (lapsed \cup regressed) : bridge.emitted[p] = rollup[p]

(* A process that is told of before the list has it is being asked for, by *)
(* a reading that will find it: not by one that was under way.             *)
ToldIsFetched ==
  \A p \in owed : \/ polls["list"].at = "asks"
                  \/ polls["list"].at = "holds" /\ polls["list"].seen[p] > 0

(* Events alone never make a card: its detail is shown once it was read.   *)
DetailRead == \A c \in PaintCaches : paints[c] # Unseen => polls[c].data

LiveTold == BridgeExact /\ ToldIsFetched /\ DetailRead

=============================================================================
