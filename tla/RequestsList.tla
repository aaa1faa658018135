---------------------------- MODULE RequestsList ----------------------------
(***************************************************************************)
(* The page of all requests (routes/requests/index.tsx): filters kept in   *)
(* the address, a search that is not, pages cut by the server, and the     *)
(* view by intake batch, which the page guesses from the times of receipt. *)
(* The list is asked for again every 15 s and at each change of a filter;  *)
(* until it is answered the rows asked for before stay on screen.  The     *)
(* server's part is requests_list.py.  "attention" stands for the filters  *)
(* the server does not know, "posture" for those only the server knows.    *)
(***************************************************************************)
EXTENDS PageLists, FiniteSetsExt

CONSTANTS
  Intake,       \* the requests, newest first: [id, source, at, posture,
                \* inId, inName], the last two the needles that occur in its
                \* id and in its name; the ids differ
  LateIntake,   \* ids of those that come in while the page is open
  Flagged,      \* ids that need attention
  Needles,      \* searches, NoFilter for none
  ShortNeedles, \* those of one character
  FlatSize, BatchSize,    \* requests of a page in either view
  Gap, Margin,  \* of a batch: longest gap within, widening of its window
  MaxSearches   \* bound on the changes of what is sought

NoFilter == ""

ASSUME RequestsListAssumption ==
  /\ Intake \in Seq(Range(Intake))
  /\ \A i \in DOMAIN Intake : Intake[i].at \in Int
  /\ \A i, j \in DOMAIN Intake :
       i < j => Intake[i].id # Intake[j].id /\ Intake[i].at >= Intake[j].at
  /\ Gap \in Nat /\ Margin \in Nat /\ Margin < Gap
  /\ NoFilter \in Needles /\ ShortNeedles \subseteq Needles \ {NoFilter}
  /\ FlatSize \in Nat \ {0} /\ BatchSize \in Nat \ {0} /\ MaxSearches \in Nat

VARIABLES
  received,     \* ids the server knows
  sought,       \* filters in the address: [source, posture, attention,
                \* window, byBatch], the window <<>> or <<after, before>>
  needle,       \* the search
  leaf,         \* number of the page
  held,         \* rows on screen: [rows, total, offset]
  loaded,       \* they answer what is sought now
  drilled,      \* ids of the batch the reader went into
  searches

listVars == <<received, sought, needle, leaf, held, loaded, drilled, searches>>

Unfiltered == [source |-> NoFilter, posture |-> NoFilter, attention |-> NoFilter, window |-> <<>>,
               byBatch |-> FALSE]
ByBatch == [Unfiltered EXCEPT !.byBatch = TRUE]

Received == {r \in Range(Intake) : r.id \in received}

-----------------------------------------------------------------------------
(* The server: filters, search from two characters on, newest first        *)

Within(r, window) == window = <<>> \/ (window[1] <= r.at /\ r.at <= window[2])

MatchesNeedle(r, what) == what \in r.inId \/ (r.source # "drop" /\ what \in r.inName)

Selected(rs, s, what) ==
  {r \in rs : /\ s.source \in {NoFilter, r.source} /\ s.posture \in {NoFilter, r.posture}
              /\ Within(r, s.window)
              /\ what \in ShortNeedles \cup {NoFilter} \/ MatchesNeedle(r, what)}

Newest(rs) == Keep(Intake, rs)

SizeOfPage(s) == IF s.byBatch THEN BatchSize ELSE FlatSize

Listing(rs, s, what, no) ==
  LET all == Newest(Selected(rs, s, what))
      from == (no - 1) * SizeOfPage(s)
  IN [rows   |-> SubSeq(all, from + 1, Min({Len(all), from + SizeOfPage(s)})),
      total  |-> Len(all), offset |-> from]

-----------------------------------------------------------------------------
(* What is on screen                                                       *)

(* matchesFilters, over the rows of any answer.                            *)
Narrows(r) ==
  /\ sought.source \in {NoFilter, r.source}
  /\ IF needle # NoFilter THEN MatchesNeedle(r, needle)
     ELSE /\ sought.attention = "needs" => r.id \in Flagged
          /\ sought.attention = "clear" => r.id \notin Flagged
          /\ Within(r, sought.window)

OnPage == Keep(held.rows, {r \in Range(held.rows) : Narrows(r)})

(* groupRequestsByBatch.                                                  *)
Flushes(batch, r)   == r.at - batch[Len(batch)].at > Gap

Added(done, r) ==
  IF done = <<>> \/ Flushes(done[Len(done)], r) THEN Append(done, <<r>>)
  ELSE [done EXCEPT ![Len(done)] = Append(@, r)]

ClustersOf(source) ==
  LET oldest  == Reverse(Keep(OnPage, {r \in Range(OnPage) : r.source = source}))
      upTo[n \in 0..Len(oldest)] == IF n = 0 THEN <<>> ELSE Added(upTo[n - 1], oldest[n])
  IN upTo[Len(oldest)]

BatchesShown == UNION {Range(ClustersOf(s)) : s \in {r.source : r \in Range(OnPage)}}

WindowOf(batch) == <<batch[1].at - Margin, batch[Len(batch)].at + Margin>>

LeafCount  == Max({1, (held.total + SizeOfPage(sought) - 1) \div SizeOfPage(sought)})
LeafNow == Min({Max({1, leaf}), LeafCount})

-----------------------------------------------------------------------------
(* The reader                                                              *)

(* Rows asked for before stay, or come from the cache: the answer to the   *)
(* same question when less had come in.                                    *)
Asks(s, what, no) ==
  /\ sought' = s /\ needle' = what /\ leaf' = no /\ loaded' = FALSE
  /\ held' \in {held} \cup
       {Listing({r \in Received : r.id \notin gone}, s, what, no) : gone \in {{}, LateIntake}}

Seeks(s, what) ==
  /\ searches < MaxSearches /\ searches' = searches + 1
  /\ <<s, what>> # <<sought, needle>>
  /\ Asks(s, what, 1) /\ UNCHANGED received

PatchSearch(s) == Seeks(s, needle) /\ drilled' = {}

PickSource    == \E v \in {NoFilter, "drop"} : PatchSearch([sought EXCEPT !.source = v])
PickAttention == \E v \in {NoFilter, "needs", "clear"} : PatchSearch([sought EXCEPT !.attention = v])
PickPosture   == \E v \in {NoFilter, "in_queue"} : PatchSearch([sought EXCEPT !.posture = v])

(* "Clear" of the popover clears the filters it offers.                    *)
ClearSecondary == PatchSearch([sought EXCEPT !.posture = NoFilter, !.window = <<>>])
ClearFilters   == PatchSearch([Unfiltered EXCEPT !.byBatch = sought.byBatch])
ToggleView     == PatchSearch([sought EXCEPT !.byBatch = ~@])
TypeNeedle     == \E n \in Needles : Seeks(sought, n) /\ drilled' = {}

Drill(what) ==
  /\ sought.byBatch
  /\ \E b \in BatchesShown :
       /\ Seeks([Unfiltered EXCEPT !.source = b[1].source, !.window = WindowOf(b)], what)
       /\ drilled' = {r.id : r \in Range(b)}
DrillSearching == Drill(needle)   \* mutant: the search is left as it is
DrillIntoBatch == Drill(NoFilter)

BackToBatches ==
  /\ sought.window # <<>> /\ ~sought.byBatch
  /\ Seeks(ByBatch, NoFilter) /\ drilled' = {}

TurnPage ==
  /\ held.rows # <<>>
  /\ \E no \in {Max({1, LeafNow - 1}), Min({LeafCount, LeafNow + 1})} :
       no # leaf /\ Asks(sought, needle, no)
  /\ UNCHANGED <<received, drilled, searches>>

-----------------------------------------------------------------------------
(* The server                                                              *)

ComesIn ==
  /\ \E id \in LateIntake \ received : received' = received \cup {id}
  /\ UNCHANGED <<sought, needle, leaf, held, loaded, drilled, searches>>

ListAnswered ==
  /\ held' = Listing(Received, sought, needle, leaf) /\ loaded' = TRUE
  /\ UNCHANGED <<received, sought, needle, leaf, drilled, searches>>

ListInit ==
  /\ received = {r.id : r \in Range(Intake)} \ LateIntake
  /\ sought \in {Unfiltered, ByBatch} /\ needle = NoFilter /\ leaf = 1
  /\ held = Listing(Received, sought, NoFilter, 1) /\ loaded = TRUE
  /\ drilled = {} /\ searches = 0

ListNext ==
  \/ PickSource \/ PickAttention \/ PickPosture \/ ClearSecondary \/ ClearFilters
  \/ TypeNeedle \/ ToggleView \/ DrillIntoBatch \/ BackToBatches \/ TurnPage \/ ComesIn \/ ListAnswered

ListSpec == ListInit /\ [][ListNext]_listVars

-----------------------------------------------------------------------------
(* Properties                                                              *)

(* Pages are numbered from one and the rows on screen are requests.        *)
ListTypeOK ==
  /\ leaf >= 1 /\ needle \in Needles /\ loaded \in BOOLEAN
  /\ Range(held.rows) \subseteq Range(Intake)

(* The batches on screen share the rows out, and two rows are of one batch *)
(* exactly if their source sent requests no further apart than the gap     *)
(* from one to the other (groupRequestsByBatch).                           *)
BatchesAreRuns ==
  LET shown == BatchesShown
      rows  == Range(OnPage)
      next(c, e)   == e.source = c.source /\ c.at < e.at /\ e.at - c.at <= Gap
      linked(a, b) == \A c \in rows : c.source = a.source /\ a.at <= c.at /\ c.at < b.at
                                       => \E e \in rows : next(c, e)
  IN /\ \A a, b \in rows : a.at <= b.at =>
          ((\E batch \in shown : {a, b} \subseteq Range(batch)) <=> a.source = b.source /\ linked(a, b))
     /\ \A b1, b2 \in shown : \A k1 \in DOMAIN b1, k2 \in DOMAIN b2 :
          b1[k1] = b2[k2] => b1 = b2 /\ k1 = k2

(* A reader who goes into a batch sees, once the list is loaded, the batch *)
(* as it was and all else that its source had sent in that time, if a page *)
(* holds it: no search, no filter of the view before, no page number hides *)
(* a row ("A stale name/id search combined with the new source +           *)
(* date-window filters would otherwise filter the drilled-in list").       *)
BatchOpensWhole ==
  drilled # {} /\ loaded /\ leaf = 1 /\ held.total <= FlatSize =>
    drilled \cup {r.id : r \in {r \in Range(Intake) : /\ r.id \notin LateIntake
                                           /\ r.source = sought.source /\ Within(r, sought.window)}}
      \subseteq {r.id : r \in Range(OnPage)}

(* The page filters again what the server filtered.  Neither undoes the    *)
(* other: of the loaded rows only attention, or a search too short for the *)
(* server, withholds some.                                                 *)
NothingWithheld ==
  loaded =>
    \A r \in Range(held.rows) :
      Narrows(r) \/ sought.attention # NoFilter \/ needle \in ShortNeedles

RequestsTold == BatchesAreRuns /\ BatchOpensWhole /\ NothingWithheld

=============================================================================
