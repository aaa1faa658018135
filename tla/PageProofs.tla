----------------------------- MODULE PageProofs -----------------------------
(***************************************************************************)
(* Theorems about three pages of the console and the rail above a request. *)
(*                                                                         *)
(* OwnerSettings, for every catalogue, every set of stamps and documents   *)
(* and every number of saves.  A card shows what the server keeps, by the  *)
(* inductive invariant CardInv: while no answer was lost and no stored     *)
(* call is still to be heard of, a refetch that was served has got the     *)
(* stamp of the server, and without one the card has it.                   *)
(*                                                                         *)
(* A document reads back as it was written, by induction along what is     *)
(* written: StepByStep is induction up to a number, FlatParts says where   *)
(* the parts of a flattened sequence stand in it, and PlainRead,           *)
(* QuotedRead, LineRead and TextRead say in which state the reader leaves  *)
(* a field, a line and the text.                                           *)
(*                                                                         *)
(* The walk leads where it says, by WalkInv: the step on screen is one of  *)
(* the walk, so by FlatParts again at a place of the steps of one binding  *)
(* of the vertical.                                                        *)
(*                                                                         *)
(* RequestsList, for every sequence of requests, gap and size of a page.   *)
(* What a filter keeps stands in its order (KeptPlaces, from FlatParts),   *)
(* so a page is newest first and no row is on it twice.  The batches are   *)
(* the runs of a source, by induction along its rows (GroupNew,            *)
(* GroupLonger): up to each row, a batch ends where the gap is too long    *)
(* and nowhere else.  ListInv says of whom the loaded rows are, and that a *)
(* reader who went into a batch seeks its source and its time, no more.    *)
(*                                                                         *)
(* JourneyChrome, for every set of members, journeys and reminders.  A     *)
(* stage of the rail is complete because it is before the least stage of   *)
(* the stack, or because all of its steps are complete for every request   *)
(* that has them (StepDoneForAll), and then each of the requests is past   *)
(* it (StageBehind, over the order of the fine stages).  A system has one  *)
(* row for each request that names it: the first (FirstExists, FirstOnce), *)
(* so the rows and the requests are as many (RowPerRequest).               *)
(*                                                                         *)
(* Inbox, for every list of rows the API answers with, every source and    *)
(* gate and any number of bulk calls.  The stacks leave no row out without *)
(* an induction: every status has its place in the fixed order.  For the   *)
(* ticks the invariant InboxInv says that the rows on screen come from     *)
(* lists of the API, whatever window, merge and sort they went through     *)
(* (KeptIn, AgedIn, CoalescedIn), and that whoever has bulk buttons has    *)
(* ticked what is selected, since the key of a row of his is its review    *)
(* (KeyIsReview).  The counts follow from what a filter keeps              *)
(* (KeptNumber) and from a bijection (ClassesCounted).                     *)
(***************************************************************************)
EXTENDS OwnerSettings, RequestsList, Inbox, SequenceTheorems, FiniteSetTheorems,
        WellFoundedInduction, TLAPS

-----------------------------------------------------------------------------
(* The cards of the owner's page                                           *)
SavePcs == {"sent", "stored", "refused", "lost"}

(* The calls and the refetch have the shape they are sent with.            *)
CallsShaped ==
  /\ \A s \in saves : s = [n |-> s.n, value |-> s.value, pc |-> s.pc] /\ s.pc \in SavePcs
  /\ reading = [pc |-> reading.pc, got |-> reading.got]
  /\ reading.pc \in {"no", "sent", "served"}

(* An answer got lost for good, or every stored call is still to be heard. *)
LossNoted == \A s \in saves : s.pc = "lost" => lost

AllHeard == ~lost /\ \A s \in saves : s.pc # "stored"

CardInv ==
  /\ CallsShaped /\ LossNoted
  /\ AllHeard /\ reading.pc = "no" /\ ~unread => cached = stored
  /\ AllHeard /\ reading.pc = "served" => reading.got = stored

LEMMA CardInitially == SettingsInit => CardInv
<1> SUFFICES ASSUME SettingsInit PROVE CardInv
  OBVIOUS
<1>1. saves = {} /\ reading = [pc |-> "no", got |-> stored] /\ cached = stored
  BY Zenon DEF SettingsInit
<1> QED
  BY <1>1 DEF CardInv, CallsShaped, LossNoted, AllHeard

LEMMA CardAfterSend ==
  ASSUME CardInv, NEW v, SendSave(v),
         UNCHANGED <<stored, cached, reading, unread, lost>>
  PROVE  CardInv'
<1> DEFINE sent == [n |-> saved + 1, value |-> v, pc |-> "sent"]
<1>1. saves' = saves \cup {sent}
  BY DEF SendSave
<1>2. sent.pc = "sent" /\ sent = [n |-> sent.n, value |-> sent.value, pc |-> sent.pc]
  OBVIOUS
<1>3. \A s \in saves' : s \in saves \/ s = sent
  BY <1>1
<1>4. AllHeard' => AllHeard
  BY <1>1 DEF AllHeard
<1>5. CallsShaped' /\ LossNoted'
  BY <1>2, <1>3 DEF CardInv, CallsShaped, LossNoted, SavePcs
<1> QED
  BY <1>4, <1>5 DEF CardInv

LEMMA CardAfterServe ==
  ASSUME CardInv, NEW s \in saves, Serves(s)
  PROVE  CardInv'
<1> PICK pc \in {"stored", "refused", "lost"} :
       /\ saves' = (saves \ {s}) \cup {[s EXCEPT !.pc = pc]}
       /\ stored' = IF pc = "refused" THEN stored ELSE [stored EXCEPT !.cadence = s.value]
       /\ lost' = (lost \/ pc = "lost")
  BY DEF Serves
<1> DEFINE done == [s EXCEPT !.pc = pc]
<1>1. s = [n |-> s.n, value |-> s.value, pc |-> s.pc]
  BY DEF CardInv, CallsShaped
<1>2. done.pc = pc /\ done = [n |-> done.n, value |-> done.value, pc |-> done.pc]
  BY <1>1
<1>3. done \in saves' /\ \A x \in saves' : x \in saves \/ x = done
  OBVIOUS
<1>4. s.pc = "sent" /\ UNCHANGED <<cached, reading, unread>>
  BY DEF Serves
<1> HIDE DEF done
<1>5. CallsShaped'
  BY <1>2, <1>3, <1>4 DEF CardInv, CallsShaped, SavePcs
<1>6. LossNoted'
  BY <1>2, <1>3 DEF CardInv, LossNoted
<1>7. AllHeard' => pc = "refused" /\ AllHeard
  <2>1. \A x \in saves : x = s \/ x \in saves'
    OBVIOUS
  <2> QED
    BY <1>2, <1>3, <1>4, <2>1 DEF AllHeard
<1>8. AllHeard' => stored' = stored
  BY <1>7
<1> QED
  BY <1>4, <1>5, <1>6, <1>7, <1>8 DEF CardInv

LEMMA CardAfterHear ==
  ASSUME CardInv, NEW s \in saves, HearSave(s)
  PROVE  CardInv'
<1>1. saves' = saves \ {s} /\ UNCHANGED <<stored, cached, unread, lost>>
  BY DEF HearSave
<1>2. LossNoted'
  BY <1>1 DEF CardInv, LossNoted
<1>3. CASE s.pc = "stored"
  <2>1. reading' = [reading EXCEPT !.pc = "sent"]
    BY <1>3 DEF HearSave, Invalidate
  <2>2. reading'.pc = "sent" /\ reading' = [pc |-> reading'.pc, got |-> reading'.got]
    BY <2>1 DEF CardInv, CallsShaped
  <2> QED
    BY <1>1, <1>2, <2>2 DEF CardInv, CallsShaped
<1>4. CASE s.pc # "stored"
  <2>1. reading' = reading
    BY <1>4 DEF HearSave
  <2>2. AllHeard' => AllHeard
    BY <1>1, <1>4 DEF AllHeard
  <2> QED
    BY <1>1, <1>2, <2>1, <2>2 DEF CardInv, CallsShaped
<1> QED
  BY <1>3, <1>4

LEMMA CardAfterReload ==
  ASSUME CardInv, Reload PROVE CardInv'
<1>1. reading' = [reading EXCEPT !.pc = "sent"] /\ UNCHANGED <<stored, cached, saves, unread, lost>>
  BY DEF Reload
<1>2. reading'.pc = "sent" /\ reading' = [pc |-> reading'.pc, got |-> reading'.got]
  BY <1>1 DEF CardInv, CallsShaped
<1> QED
  BY <1>1, <1>2 DEF CardInv, CallsShaped, LossNoted

LEMMA CardAfterServed ==
  ASSUME CardInv, ReadServed PROVE CardInv'
<1>1. reading' = [pc |-> "served", got |-> stored] /\ UNCHANGED <<stored, cached, saves, unread, lost>>
  BY DEF ReadServed
<1>2. /\ reading'.pc = "served" /\ reading'.got = stored
      /\ reading' = [pc |-> reading'.pc, got |-> reading'.got]
  BY <1>1
<1> QED
  BY <1>1, <1>2 DEF CardInv, CallsShaped, LossNoted

LEMMA CardAfterHeard ==
  ASSUME CardInv, ReadHeard PROVE CardInv'
<1>1. reading' = [reading EXCEPT !.pc = "no"] /\ UNCHANGED <<stored, saves, lost>>
  BY DEF ReadHeard
<1>2. reading'.pc = "no" /\ reading' = [pc |-> reading'.pc, got |-> reading'.got]
  BY <1>1 DEF CardInv, CallsShaped
<1>3. AllHeard' => AllHeard
  BY <1>1 DEF AllHeard
<1>4. CallsShaped' /\ LossNoted'
  BY <1>1, <1>2 DEF CardInv, CallsShaped, LossNoted
<1>5. CASE reading.pc = "served" /\ cached' = reading.got
  BY <1>1, <1>2, <1>3, <1>4, <1>5 DEF CardInv
<1>6. CASE unread'
  BY <1>1, <1>2, <1>3, <1>4, <1>6 DEF CardInv
<1> QED
  BY <1>5, <1>6 DEF ReadHeard

LEMMA CardInductive == CardInv /\ [SettingsNext]_settingsVars => CardInv'
<1> SUFFICES ASSUME CardInv, [SettingsNext]_settingsVars PROVE CardInv'
  OBVIOUS
<1>1. CASE UNCHANGED saveVars
  BY <1>1 DEF saveVars, CardInv, CallsShaped, LossNoted, AllHeard
<1>2. CASE SaveNext
  <2>1. ASSUME NEW v \in CadenceOptions, Prefer(v) \/ SaveAgain(v)
        PROVE  CardInv'
    BY <2>1, CardAfterSend DEF Prefer, SaveAgain
  <2>2. ASSUME NEW s \in saves, Serves(s) \/ HearSave(s)
        PROVE  CardInv'
    BY <2>2, CardAfterServe, CardAfterHear
  <2> QED
    BY <1>2, <2>1, <2>2, CardAfterReload, CardAfterServed, CardAfterHeard DEF SaveNext
<1> QED
  BY <1>1, <1>2 DEF SettingsNext, settingsVars

(* Once the calls and the refetch are over a card shows what is stored.    *)
LEMMA CardSettled == CardInv => ShownIsStored
<1> SUFFICES ASSUME CardInv, saves = {}, reading.pc = "no", ~unread, ~lost
             PROVE  /\ cached = stored
                    /\ stored.cadence # "" => CadenceShown(cached) = stored.cadence
  BY DEF ShownIsStored
<1>1. cached = stored
  BY DEF CardInv, AllHeard
<1>2. stored.cadence # "" => CadenceShown(stored) = stored.cadence
  BY Zenon DEF CadenceShown, OptionOf
<1> QED
  BY <1>1, <1>2, Zenon

(* A chip of a shut gate never says connected.                             *)
LEMMA ShutGateTold == GateTold
<1> SUFFICES ASSUME NEW d \in {"needs_setup", "action_required", "needs_refresh", "connected",
                               "view_only"}
             PROVE  Chip(d, FALSE) \notin {"connected", "view_only"}
  BY DEF GateTold
<1>1. CASE d = "connected"
  BY <1>1 DEF Chip
<1>2. CASE d \in {"needs_refresh", "action_required", "needs_setup"}
  BY <1>2 DEF Chip
<1>3. CASE d = "view_only"
  BY <1>3 DEF Chip
<1> QED
  BY <1>1, <1>2, <1>3

THEOREM CardsTold == SettingsSpec => [](ShownIsStored /\ GateTold)
<1>1. CardInv => ShownIsStored /\ GateTold
  BY CardSettled, ShutGateTold
<1> QED
  BY CardInitially, CardInductive, <1>1, PTL DEF SettingsSpec

-----------------------------------------------------------------------------
(* Induction, and sequences put together                                   *)

(* What holds at 0 and passes from k to k + 1 holds up to n.               *)
LEMMA StepByStep ==
  ASSUME NEW n \in Nat, NEW S, 0 \in S,
         \A k \in 0..n : k \in S /\ k < n => k + 1 \in S
  PROVE  \A k \in 0..n : k \in S
<1> SUFFICES ASSUME NEW bad \in 0..n, bad \notin S PROVE FALSE
  OBVIOUS
<1> DEFINE T == {k \in 0..n : k \notin S}
           below == {0..k : k \in T}
<1>1. below # {}
  OBVIOUS
<1>2. below \subseteq FiniteSubsetsOf(Nat)
  <2>1. ASSUME NEW k \in T PROVE 0..k \in SUBSET Nat /\ IsFiniteSet(0..k)
    BY FS_Interval
  <2> QED
    BY <2>1 DEF FiniteSubsetsOf
<1> HIDE DEF below
<1>3. PICK x \in below : \A y \in below : <<y, x>> \notin StrictSubsetOrdering(Nat)
  <2>1. IsWellFoundedOn(StrictSubsetOrdering(Nat), FiniteSubsetsOf(Nat))
    BY FS_StrictSubsetOrderingWellFounded
  <2> QED
    BY <1>1, <1>2, <2>1, WFMin
<1> USE DEF below
<1>4. PICK k \in T : x = 0..k
  OBVIOUS
<1>5. k # 0 /\ k - 1 \in 0..n /\ k - 1 \notin S
  OBVIOUS
<1>6. 0..(k-1) \in below
  BY <1>5
<1>7. 0..(k-1) \subseteq 0..k /\ 0..(k-1) # 0..k
  <2>1. k \in 0..k /\ k \notin 0..(k-1)
    OBVIOUS
  <2> QED
    BY <2>1
<1>8. <<0..(k-1), 0..k>> \in StrictSubsetOrdering(Nat)
  BY <1>7 DEF StrictSubsetOrdering
<1> QED
  BY <1>3, <1>4, <1>6, <1>8

(* Two sequences put together.                                             *)
LEMMA Joined ==
  ASSUME NEW S, NEW s \in Seq(S), NEW t \in Seq(S)
  PROVE  /\ s \o t \in Seq(S) /\ Len(s \o t) = Len(s) + Len(t)
         /\ \A k \in 1..Len(s) : (s \o t)[k] = s[k]
         /\ \A k \in 1..Len(t) : (s \o t)[Len(s) + k] = t[k]
<1>1. /\ s \o t \in Seq(S) /\ Len(s \o t) = Len(s) + Len(t)
      /\ \A i \in 1..Len(s) + Len(t) : (s \o t)[i] = IF i <= Len(s) THEN s[i] ELSE t[i - Len(s)]
  BY ConcatProperties
<1>2. Len(s) \in Nat /\ Len(t) \in Nat
  OBVIOUS
<1>3. ASSUME NEW k \in 1..Len(t) PROVE (s \o t)[Len(s) + k] = t[k]
  <2>1. Len(s) + k \in 1..Len(s) + Len(t) /\ ~(Len(s) + k <= Len(s)) /\ Len(s) + k - Len(s) = k
    BY <1>2
  <2> QED
    BY <1>1, <2>1
<1> QED
  BY <1>1, <1>2, <1>3

(* The first i sequences put together, as FlattenSeq does it.              *)
IsJoining(f, seqs, n) ==
  f = [i \in 1..n |-> IF i = 1 THEN seqs[i] ELSE f[i - 1] \o seqs[i]]

JoiningOf(seqs) == CHOOSE f : IsJoining(f, seqs, Len(seqs))

LEMMA JoiningExists ==
  ASSUME NEW S, NEW seqs \in Seq(Seq(S))
  PROVE  IsJoining(JoiningOf(seqs), seqs, Len(seqs))
<1> DEFINE n == Len(seqs)
           G == {k \in 0..n : \E f : IsJoining(f, seqs, k)}
<1>1. n \in Nat
  OBVIOUS
<1>2. 0 \in G
  <2>1. IsJoining(<<>>, seqs, 0)
    BY DEF IsJoining
  <2> QED
    BY <1>1, <2>1
<1>3. ASSUME NEW k \in 0..n, k \in G, k < n PROVE k + 1 \in G
  <2>1. PICK f : IsJoining(f, seqs, k)
    BY <1>3
  <2> DEFINE g == [i \in 1..k+1 |-> IF i <= k THEN f[i]
                                    ELSE IF i = 1 THEN seqs[i] ELSE f[i - 1] \o seqs[i]]
  <2>2. ASSUME NEW i \in 1..k+1
        PROVE  g[i] = IF i = 1 THEN seqs[i] ELSE g[i - 1] \o seqs[i]
    <3>1. CASE i <= k
      <4> DEFINE h == [x \in 1..k |-> IF x = 1 THEN seqs[x] ELSE f[x - 1] \o seqs[x]]
      <4>0. f = h /\ i \in 1..k
        <5>1. f = h
          BY <2>1, Zenon DEF IsJoining
        <5>2. i \in 1..k
          BY <3>1, <1>1
        <5> HIDE DEF h
        <5> QED
          BY <5>1, <5>2
      <4>1. f[i] = IF i = 1 THEN seqs[i] ELSE f[i - 1] \o seqs[i]
        <5>1. h[i] = IF i = 1 THEN seqs[i] ELSE f[i - 1] \o seqs[i]
          BY <4>0
        <5> HIDE DEF h
        <5> QED
          BY <4>0, <5>1
      <4> QED
        BY <4>1, <3>1, <1>1
    <3>2. CASE i = k + 1
      BY <3>2, <1>1
    <3> QED
      BY <3>1, <3>2, <1>1
  <2>3. IsJoining(g, seqs, k + 1)
    <3>1. g = [i \in 1..k+1 |-> g[i]]
      OBVIOUS
    <3> HIDE DEF g
    <3> QED
      BY <2>2, <3>1 DEF IsJoining
  <2> QED
    BY <2>3, <1>1, <1>3
<1>4. n \in G
  <2> HIDE DEF G, n
  <2>1. \A k \in 0..n : k \in G
    BY <1>1, <1>2, <1>3, StepByStep
  <2> QED
    BY <1>1, <2>1
<1> QED
  BY <1>4 DEF JoiningOf

(* A flattened sequence holds its parts one after the other: off[i] is     *)
(* where the i-th ends.                                                    *)
PartsAt(off, seqs, all) ==
  /\ off \in [0..Len(seqs) -> Nat] /\ off[0] = 0 /\ off[Len(seqs)] = Len(all)
  /\ \A i \in 1..Len(seqs) :
       /\ off[i] = off[i - 1] + Len(seqs[i]) /\ off[i] <= Len(all)
       /\ \A k \in 1..Len(seqs[i]) : all[off[i - 1] + k] = seqs[i][k]

LEMMA FlatParts ==
  ASSUME NEW S, NEW seqs \in Seq(Seq(S))
  PROVE  FlattenSeq(seqs) \in Seq(S) /\ \E off : PartsAt(off, seqs, FlattenSeq(seqs))
<1> DEFINE n == Len(seqs)
           f == JoiningOf(seqs)
<1>1. n \in Nat
  OBVIOUS
<1>2. CASE n = 0
  <2>1. FlattenSeq(seqs) = <<>> /\ seqs = <<>>
    BY <1>2 DEF FlattenSeq
  <2>2. PartsAt([k \in 0..0 |-> 0], seqs, FlattenSeq(seqs))
    BY <2>1 DEF PartsAt
  <2> QED
    BY <2>1, <2>2
<1>3. CASE n # 0
  <2>1. FlattenSeq(seqs) = f[n]
    BY <1>3 DEF FlattenSeq, JoiningOf, IsJoining
  <2>2. IsJoining(f, seqs, n)
    BY JoiningExists
  <2> HIDE DEF f
  <2>3. \A i \in 1..n : f[i] = IF i = 1 THEN seqs[i] ELSE f[i - 1] \o seqs[i]
    BY <2>2 DEF IsJoining
  <2>4. \A i \in 0..n : i # 0 => f[i] \in Seq(S)
    <3> DEFINE G == {i \in 0..n : i # 0 => f[i] \in Seq(S)}
    <3>1. ASSUME NEW k \in 0..n, k \in G, k < n PROVE k + 1 \in G
      <4>1. seqs[k + 1] \in Seq(S) /\ k + 1 \in 1..n
        BY <1>1, <3>1
      <4>2. f[k + 1] = IF k = 0 THEN seqs[k + 1] ELSE f[k] \o seqs[k + 1]
        BY <4>1, <2>3
      <4>3. k # 0 => f[k] \in Seq(S)
        BY <3>1
      <4>4. f[k + 1] \in Seq(S)
        BY <4>1, <4>2, <4>3, Joined
      <4> QED
        BY <4>1, <4>4
    <3>2. 0 \in G
      BY <1>1
    <3>3. \A k \in 0..n : k \in G
      <4> HIDE DEF G, n
      <4> QED
        BY <1>1, <3>1, <3>2, StepByStep
    <3> QED
      BY <3>3
  <2> DEFINE off == [k \in 0..n |-> IF k = 0 THEN 0 ELSE Len(f[k])]
  <2>5. ASSUME NEW i \in 1..n
        PROVE  /\ off[i] = off[i - 1] + Len(seqs[i])
               /\ f[i] \in Seq(S)
               /\ \A k \in 1..Len(seqs[i]) : f[i][off[i - 1] + k] = seqs[i][k]
    <3>1. seqs[i] \in Seq(S) /\ f[i] \in Seq(S)
      BY <2>4, <1>1
    <3>2. CASE i = 1
      BY <3>1, <3>2, <2>3, <1>1
    <3>3. CASE i # 1
      <4>1. f[i] = f[i - 1] \o seqs[i] /\ f[i - 1] \in Seq(S)
        <5>1. i - 1 \in 0..n /\ i - 1 # 0
          BY <3>3, <1>1
        <5> HIDE DEF n
        <5> QED
          BY <3>3, <5>1, <2>3, <2>4
      <4>2. off[i] = Len(f[i]) /\ off[i - 1] = Len(f[i - 1])
        BY <3>3, <1>1
      <4> HIDE DEF off, n
      <4>3. Len(f[i - 1] \o seqs[i]) = Len(f[i - 1]) + Len(seqs[i])
        BY <3>1, <4>1, Joined
      <4>4. \A k \in 1..Len(seqs[i]) : (f[i - 1] \o seqs[i])[Len(f[i - 1]) + k] = seqs[i][k]
        <5> DEFINE a == f[i - 1]
                   b == seqs[i]
        <5>1. a \in Seq(S) /\ b \in Seq(S)
          BY <3>1, <4>1
        <5> HIDE DEF a, b
        <5>2. \A k \in 1..Len(b) : (a \o b)[Len(a) + k] = b[k]
          BY <5>1, Joined
        <5> QED
          BY <5>2 DEF a, b
      <4> QED
        BY <3>1, <4>1, <4>2, <4>3, <4>4
    <3> QED
      BY <3>2, <3>3
  <2>6. ASSUME NEW i \in 1..n
        PROVE  Len(f[i]) <= Len(f[n]) /\ \A k \in 1..Len(f[i]) : f[n][k] = f[i][k]
    <3> DEFINE G == {j \in 0..n : j >= i => /\ Len(f[i]) <= Len(f[j])
                                            /\ \A k \in 1..Len(f[i]) : f[j][k] = f[i][k]}
    <3>1. ASSUME NEW j \in 0..n, j \in G, j < n PROVE j + 1 \in G
      <4>1. CASE j + 1 = i
        BY <4>1, <2>5, <1>1
      <4>2. CASE j + 1 > i
        <5>1. f[j + 1] = f[j] \o seqs[j + 1] /\ f[j] \in Seq(S) /\ seqs[j + 1] \in Seq(S)
          <6>1. j \in 0..n /\ j # 0 /\ j + 1 \in 1..n /\ j + 1 # 1 /\ (j + 1) - 1 = j
            BY <4>2, <3>1, <1>1
          <6>2. seqs[j + 1] \in Seq(S)
            BY <6>1
          <6> HIDE DEF n
          <6>3. f[j + 1] = f[(j + 1) - 1] \o seqs[j + 1] /\ f[j] \in Seq(S)
            BY <6>1, <2>3, <2>4
          <6> QED
            BY <6>1, <6>2, <6>3
        <5>2. /\ Len(f[i]) <= Len(f[j]) /\ Len(f[i]) \in Nat
              /\ \A k \in 1..Len(f[i]) : f[j][k] = f[i][k]
          BY <3>1, <4>2, <2>5, <1>1
        <5>3. Len(f[j + 1]) = Len(f[j]) + Len(seqs[j + 1])
          BY <5>1, Joined
        <5>4. \A k \in 1..Len(f[j]) : f[j + 1][k] = f[j][k]
          <6>1. \A k \in 1..Len(f[j]) : (f[j] \o seqs[j + 1])[k] = f[j][k]
            BY <5>1, Joined
          <6> QED
            BY <5>1, <6>1
        <5>5. Len(f[j]) \in Nat /\ Len(seqs[j + 1]) \in Nat
          BY <5>1
        <5>6. ASSUME NEW k \in 1..Len(f[i]) PROVE f[j + 1][k] = f[i][k]
          <6>1. k \in 1..Len(f[j])
            BY <5>2, <5>5
          <6> QED
            BY <6>1, <5>2, <5>4
        <5>7. Len(f[i]) <= Len(f[j + 1])
          <6> DEFINE x == Len(f[i])
                     y == Len(f[j])
                     z == Len(seqs[j + 1])
          <6>1. x <= y /\ x \in Nat /\ y \in Nat /\ z \in Nat /\ Len(f[j + 1]) = y + z
            BY <5>2, <5>3, <5>5
          <6> HIDE DEF x, y, z
          <6>2. x <= Len(f[j + 1])
            BY <6>1
          <6> QED
            BY <6>2 DEF x
        <5> QED
          BY <5>6, <5>7, <3>1, <1>1
      <4>3. CASE j + 1 < i
        BY <4>3, <3>1, <1>1
      <4> QED
        BY <4>1, <4>2, <4>3, <1>1, <3>1
    <3>2. 0 \in G
      BY <1>1
    <3>3. n \in G
      <4> HIDE DEF G, n
      <4>1. \A j \in 0..n : j \in G
        BY <1>1, <3>1, <3>2, StepByStep
      <4> QED
        BY <1>1, <4>1
    <3> QED
      BY <3>3, <1>1
  <2>7. PartsAt(off, seqs, f[n])
    <3>1. off \in [0..n -> Nat] /\ off[0] = 0 /\ off[n] = Len(f[n])
      BY <2>4, <1>1, <1>3
    <3>2. ASSUME NEW i \in 1..n
          PROVE  /\ off[i] = off[i - 1] + Len(seqs[i]) /\ off[i] <= Len(f[n])
                 /\ \A k \in 1..Len(seqs[i]) : f[n][off[i - 1] + k] = seqs[i][k]
      <4>1. off[i] = Len(f[i]) /\ off[i - 1] \in Nat /\ Len(seqs[i]) \in Nat
        BY <1>1, <3>1
      <4>2. off[i] = off[i - 1] + Len(seqs[i]) /\ off[i] <= Len(f[n])
        BY <4>1, <2>5, <2>6
      <4>3. ASSUME NEW k \in 1..Len(seqs[i]) PROVE f[n][off[i - 1] + k] = seqs[i][k]
        <5>1. off[i - 1] + k \in 1..Len(f[i])
          BY <4>1, <4>2
        <5> HIDE DEF off, n
        <5> QED
          BY <5>1, <2>5, <2>6
      <4> QED
        BY <4>2, <4>3
    <3> HIDE DEF off
    <3> QED
      BY <3>1, <3>2 DEF PartsAt
  <2> QED
    BY <2>1, <2>4, <2>7, <1>1, <1>3
<1> QED
  BY <1>2, <1>3

-----------------------------------------------------------------------------
(* A file                                                                  *)

(* One character read.                                                     *)
Plain(W, r, c) ==
  [records |-> W, row |-> r, cell |-> c, quoted |-> FALSE, skip |-> FALSE]
Inside(W, r, c) ==
  [records |-> W, row |-> r, cell |-> c, quoted |-> TRUE, skip |-> FALSE]
Skipping(W, r, c) ==
  [records |-> W, row |-> r, cell |-> c, quoted |-> TRUE, skip |-> TRUE]

Special == {Quote, Comma, Feed, Cr}

LEMMA PlainPut ==
  ASSUME NEW W, NEW r, NEW c, NEW d \in BOOLEAN, NEW ch, ch \notin Special
  PROVE  ReadOne(Plain(W, r, c), ch, d) = Plain(W, r, Append(c, ch))
BY DEF ReadOne, Plain, ReadPlain, Put, Special, Quote, Comma, Feed, Cr

LEMMA PlainQuote ==
  ASSUME NEW W, NEW r, NEW c, NEW d \in BOOLEAN
  PROVE  ReadOne(Plain(W, r, c), Quote, d) = Inside(W, r, c)
BY DEF ReadOne, Plain, Inside, ReadPlain, Put, Quote, Comma, Feed, Cr

LEMMA PlainComma ==
  ASSUME NEW W, NEW r, NEW c, NEW d \in BOOLEAN
  PROVE  ReadOne(Plain(W, r, c), Comma, d) = Plain(W, Append(r, c), <<>>)
BY DEF ReadOne, Plain, ReadPlain, EndCell, Quote, Comma, Feed, Cr

LEMMA PlainFeed ==
  ASSUME NEW W, NEW r, NEW c, NEW d \in BOOLEAN
  PROVE  ReadOne(Plain(W, r, c), Feed, d) = Plain(Append(W, Append(r, c)), <<>>, <<>>)
BY DEF ReadOne, Plain, ReadPlain, EndCell, EndRow, Quote, Comma, Feed, Cr

LEMMA InsidePut ==
  ASSUME NEW W, NEW r, NEW c, NEW d \in BOOLEAN, NEW ch, ch # Quote
  PROVE  ReadOne(Inside(W, r, c), ch, d) = Inside(W, r, Append(c, ch))
BY DEF ReadOne, Inside, ReadQuoted, Put

LEMMA InsideDoubled ==
  ASSUME NEW W, NEW r, NEW c, NEW d \in BOOLEAN, d
  PROVE  ReadOne(Inside(W, r, c), Quote, d) = Skipping(W, r, Append(c, Quote))
BY DEF ReadOne, Inside, Skipping, ReadQuoted, Put

LEMMA InsideQuote ==
  ASSUME NEW W, NEW r, NEW c, NEW d \in BOOLEAN, ~d
  PROVE  ReadOne(Inside(W, r, c), Quote, d) = Plain(W, r, c)
BY DEF ReadOne, Inside, Plain, ReadQuoted, Put

LEMMA SkippingRead ==
  ASSUME NEW W, NEW r, NEW c, NEW d \in BOOLEAN, NEW ch
  PROVE  ReadOne(Skipping(W, r, c), ch, d) = Inside(W, r, c)
BY DEF ReadOne, Inside, Skipping

(* A text read: the reader after i characters is R[i].                     *)
IsReading(R, text, n) ==
  \A i \in 0..n : R[i] = IF i = 0 THEN StartReading
                         ELSE ReadOne(R[i - 1], text[i], DoubledAt(text, i))

LEMMA ReadingExists ==
  ASSUME NEW text, Len(text) \in Nat
  PROVE  \E R : /\ IsReading(R, text, Len(text))
                /\ ParseRecords(text) =
                     IF R[Len(text)].cell # <<>> \/ R[Len(text)].row # <<>>
                       THEN EndRow(R[Len(text)]).records ELSE R[Len(text)].records
<1> DEFINE n == Len(text)
           step(f, i) == IF i = 0 THEN StartReading
                         ELSE ReadOne(f[i - 1], text[i], DoubledAt(text, i))
           G == {k \in 0..n : \E f : f = [i \in 0..k |-> step(f, i)]}
           R == CHOOSE f : f = [i \in 0..n |-> step(f, i)]
<1>1. 0 \in G
  <2> DEFINE g == [i \in 0..0 |-> StartReading]
  <2>1. g = [i \in 0..0 |-> step(g, i)]
    OBVIOUS
  <2> HIDE DEF g, step
  <2>2. \E f : f = [i \in 0..0 |-> step(f, i)]
    BY <2>1, Zenon
  <2> QED
    BY <2>2
<1>2. ASSUME NEW k \in 0..n, k \in G, k < n PROVE k + 1 \in G
  <2>1. PICK f : f = [i \in 0..k |-> step(f, i)]
    BY <1>2
  <2> DEFINE g == [i \in 0..k+1 |-> IF i <= k THEN f[i] ELSE step(f, i)]
  <2>2. ASSUME NEW i \in 0..k+1 PROVE g[i] = step(g, i)
    <3>1. CASE i <= k
      <4> DEFINE h == [x \in 0..k |-> step(f, x)]
      <4>1. i \in 0..k
        BY <3>1
      <4>2. h[i] = step(f, i)
        BY <4>1
      <4>3. f = h
        BY <2>1
      <4>4. f[i] = step(f, i)
        <5> HIDE DEF h, step
        <5> QED
          BY <4>2, <4>3
      <4>5. i # 0 => g[i - 1] = f[i - 1]
        BY <4>1
      <4>6. g[i] = f[i]
        BY <3>1
      <4> HIDE DEF g
      <4> QED
        BY <4>4, <4>5, <4>6
    <3>2. CASE i = k + 1
      <4>1. g[i] = step(f, i) /\ g[i - 1] = f[i - 1] /\ i # 0
        BY <3>2
      <4> HIDE DEF g
      <4> QED
        BY <4>1
    <3> QED
      BY <3>1, <3>2
  <2>3. g = [i \in 0..k+1 |-> step(g, i)]
    <3>1. g = [i \in 0..k+1 |-> g[i]]
      OBVIOUS
    <3> HIDE DEF g, step
    <3> QED
      BY <2>2, <3>1
  <2> HIDE DEF g, step
  <2>4. \E e : e = [i \in 0..k+1 |-> step(e, i)]
    BY <2>3, Zenon
  <2>5. k + 1 \in 0..n
    BY <1>2
  <2> QED
    BY <2>4, <2>5
<1>3. \E f : f = [i \in 0..n |-> step(f, i)]
  <2>1. n \in G
    <3> HIDE DEF G, n
    <3>1. n \in Nat
      BY DEF n
    <3>2. \A k \in 0..n : k \in G
      BY <1>1, <1>2, <3>1, StepByStep
    <3> QED
      BY <3>1, <3>2
  <2> QED
    BY <2>1
<1>4. R = [i \in 0..n |-> step(R, i)]
  <2> HIDE DEF step, n
  <2> QED
    BY <1>3
<1>5. IsReading(R, text, n)
  <2> DEFINE h == [i \in 0..n |-> step(R, i)]
  <2>1. \A i \in 0..n : h[i] = step(R, i)
    OBVIOUS
  <2>2. \A i \in 0..n : R[i] = step(R, i)
    <3> HIDE DEF R, step
    <3>1. R = h
      BY <1>4
    <3> HIDE DEF h
    <3> QED
      BY <2>1, <3>1
  <2> HIDE DEF R
  <2> QED
    BY <2>2 DEF IsReading
<1>6. ParseRecords(text) = IF R[n].cell # <<>> \/ R[n].row # <<>>
                             THEN EndRow(R[n]).records ELSE R[n].records
  BY DEF ParseRecords
<1> HIDE DEF R
<1> QED
  BY <1>5, <1>6

LEMMA PrefixGrows ==
  ASSUME NEW S, NEW s \in Seq(S), NEW k \in 0..Len(s), k < Len(s)
  PROVE  Append(SubSeq(s, 1, k), s[k + 1]) = SubSeq(s, 1, k + 1)
OBVIOUS

LEMMA PrefixWhole ==
  ASSUME NEW S, NEW s \in Seq(S)
  PROVE  SubSeq(s, 1, 0) = <<>> /\ SubSeq(s, 1, Len(s)) = s
OBVIOUS

(* A sequence stands in a text behind its first a characters.              *)
StandsAt(text, a, e) ==
  /\ a \in Nat /\ a + Len(e) <= Len(text)
  /\ \A k \in 1..Len(e) : text[a + k] = e[k]

LEMMA ReadNext ==
  ASSUME NEW text, Len(text) \in Nat, NEW R, IsReading(R, text, Len(text)),
         NEW i \in Nat, i < Len(text)
  PROVE  /\ R[i + 1] = ReadOne(R[i], text[i + 1], DoubledAt(text, i + 1))
         /\ DoubledAt(text, i + 1) \in BOOLEAN
         /\ DoubledAt(text, i + 1) <=> i + 1 < Len(text) /\ text[i + 2] = Quote
<1>1. i + 1 \in 0..Len(text) /\ i + 1 # 0 /\ (i + 1) - 1 = i /\ (i + 1) + 1 = i + 2
  OBVIOUS
<1>2. R[i + 1] = ReadOne(R[(i + 1) - 1], text[i + 1], DoubledAt(text, i + 1))
  BY <1>1, Zenon DEF IsReading
<1> QED
  BY <1>1, <1>2 DEF DoubledAt

(* A field without special characters.                                     *)
LEMMA PlainRead ==
  ASSUME NEW text, Len(text) \in Nat, NEW R, IsReading(R, text, Len(text)),
         NEW cell \in Seq(Characters), \A k \in 1..Len(cell) : cell[k] \notin Special,
         NEW a, StandsAt(text, a, cell), NEW W, NEW r, R[a] = Plain(W, r, <<>>)
  PROVE  R[a + Len(cell)] = Plain(W, r, cell)
<1> DEFINE n == Len(cell)
           G == {k \in 0..n : R[a + k] = Plain(W, r, SubSeq(cell, 1, k))}
<1>1. n \in Nat /\ a \in Nat
  BY DEF StandsAt
<1>2. 0 \in G
  <2>1. SubSeq(cell, 1, 0) = <<>> /\ a + 0 = a
    BY <1>1, PrefixWhole
  <2>2. 0 \in 0..n /\ R[a + 0] = Plain(W, r, SubSeq(cell, 1, 0))
    <3>1. 0 \in 0..n
      BY <1>1
    <3> QED
      BY <2>1, <3>1
  <2> QED
    BY <2>2
<1>3. ASSUME NEW k \in 0..n, k \in G, k < n PROVE k + 1 \in G
  <2>1. a + k \in Nat /\ a + k < Len(text) /\ k + 1 \in 1..n /\ a + (k + 1) = (a + k) + 1
    BY <1>1, <1>3 DEF StandsAt
  <2>2. text[(a + k) + 1] = cell[k + 1] /\ cell[k + 1] \notin Special
    BY <2>1 DEF StandsAt
  <2> DEFINE d == DoubledAt(text, (a + k) + 1)
  <2>3. R[(a + k) + 1] = ReadOne(R[a + k], text[(a + k) + 1], d) /\ d \in BOOLEAN
    BY <2>1, ReadNext
  <2> HIDE DEF d
  <2>4. R[a + k] = Plain(W, r, SubSeq(cell, 1, k))
    BY <1>3
  <2>5. R[(a + k) + 1] = Plain(W, r, Append(SubSeq(cell, 1, k), cell[k + 1]))
    <3>1. ReadOne(Plain(W, r, SubSeq(cell, 1, k)), cell[k + 1], d)
            = Plain(W, r, Append(SubSeq(cell, 1, k), cell[k + 1]))
      BY <2>2, <2>3, PlainPut
    <3> QED
      BY <2>2, <2>3, <2>4, <3>1
  <2>6. Append(SubSeq(cell, 1, k), cell[k + 1]) = SubSeq(cell, 1, k + 1)
    BY <1>3, PrefixGrows
  <2>7. R[a + (k + 1)] = Plain(W, r, SubSeq(cell, 1, k + 1))
    BY <2>1, <2>5, <2>6
  <2> QED
    BY <1>1, <1>3, <2>7
<1>4. n \in G
  <2> HIDE DEF G, n
  <2>1. \A k \in 0..n : k \in G
    BY <1>1, <1>2, <1>3, StepByStep
  <2> QED
    BY <1>1, <2>1
<1> QED
  BY <1>4, PrefixWhole

LEMMA DoubledTyped ==
  ASSUME NEW cell \in Seq(Characters)
  PROVE  [i \in 1..Len(cell) |-> Doubled(cell[i])] \in Seq(Seq(Characters))
<1>1. Quote \in Characters
  BY DEF Characters
<1>2. ASSUME NEW i \in 1..Len(cell) PROVE Doubled(cell[i]) \in Seq(Characters)
  <2>1. cell[i] \in Characters
    OBVIOUS
  <2> QED
    BY <1>1, <2>1 DEF Doubled
<1>3. Len(cell) \in Nat
  OBVIOUS
<1> QED
  BY <1>2, <1>3

(* A field in quotes, before a separator.                                  *)
LEMMA QuotedRead ==
  ASSUME NEW text, Len(text) \in Nat, NEW R, IsReading(R, text, Len(text)),
         NEW cell \in Seq(Characters), NEW a, StandsAt(text, a, Enquote(cell)),
         a + Len(Enquote(cell)) < Len(text), text[a + Len(Enquote(cell)) + 1] # Quote,
         NEW W, NEW r, R[a] = Plain(W, r, <<>>)
  PROVE  R[a + Len(Enquote(cell))] = Plain(W, r, cell)
<1> DEFINE n == Len(cell)
           parts == [i \in 1..n |-> Doubled(cell[i])]
           body == FlattenSeq(parts)
           e == Enquote(cell)
<1>1. n \in Nat /\ a \in Nat
  BY DEF StandsAt
<1>2. parts \in Seq(Seq(Characters)) /\ Len(parts) = n
  <2>1. parts \in Seq(Seq(Characters))
    BY DoubledTyped
  <2> QED
    BY <1>1, <2>1
<1>3. body \in Seq(Characters) /\ \E off : PartsAt(off, parts, body)
  <2> HIDE DEF parts
  <2> QED
    BY <1>2, FlatParts
<1>4. PICK off : PartsAt(off, parts, body)
  BY <1>3
<1>5. e = <<Quote>> \o body \o <<Quote>>
  BY DEF Enquote
<1> HIDE DEF body
<1>6. /\ Len(body) \in Nat /\ Len(e) = Len(body) + 2
      /\ e[1] = Quote /\ e[Len(body) + 2] = Quote
      /\ \A k \in 1..Len(body) : e[k + 1] = body[k]
  <2>1. Quote \in Characters
    BY DEF Characters
  <2>2. <<Quote>> \in Seq(Characters) /\ Len(<<Quote>>) = 1 /\ <<Quote>>[1] = Quote
    BY <2>1
  <2> DEFINE u == <<Quote>> \o body
  <2>3. /\ u \in Seq(Characters) /\ Len(u) = 1 + Len(body) /\ u[1] = Quote
        /\ \A k \in 1..Len(body) : u[1 + k] = body[k]
    BY <1>3, <2>2, Joined
  <2> HIDE DEF u
  <2>4. Len(body) \in Nat
    BY <1>3
  <2>5. /\ Len(u \o <<Quote>>) = Len(u) + 1 /\ (u \o <<Quote>>)[Len(u) + 1] = Quote
        /\ \A k \in 1..Len(u) : (u \o <<Quote>>)[k] = u[k]
    BY <2>2, <2>3, Joined
  <2>6. e = u \o <<Quote>>
    BY <1>5 DEF u
  <2>7. e[1] = Quote
    BY <2>3, <2>4, <2>5, <2>6
  <2>8. ASSUME NEW k \in 1..Len(body) PROVE e[k + 1] = body[k]
    <3>1. k + 1 \in 1..Len(u) /\ 1 + k = k + 1
      BY <2>3, <2>4
    <3> QED
      BY <2>3, <2>5, <2>6, <3>1
  <2> HIDE DEF e
  <2> QED
    BY <2>3, <2>4, <2>5, <2>6, <2>7, <2>8
<1> HIDE DEF e
<1> DEFINE G == {k \in 0..n : R[(a + 1) + off[k]] = Inside(W, r, SubSeq(cell, 1, k))}
<1>7. /\ off \in [0..n -> Nat] /\ off[0] = 0 /\ off[n] = Len(body)
      /\ \A i \in 1..n : off[i] = off[i - 1] + Len(parts[i]) /\ off[i] <= Len(body)
      /\ \A i \in 1..n : \A k \in 1..Len(parts[i]) : body[off[i - 1] + k] = parts[i][k]
  BY <1>2, <1>4, Zenon DEF PartsAt
<1>8. StandsAt(text, a, e)
  BY DEF e
<1>9. 0 \in G
  <2>1. a < Len(text) /\ text[a + 1] = Quote
    <3>1. 1 \in 1..Len(e)
      BY <1>6
    <3> QED
      BY <1>1, <1>6, <1>8, <3>1 DEF StandsAt
  <2> DEFINE d == DoubledAt(text, a + 1)
  <2>2. R[a + 1] = ReadOne(R[a], Quote, d) /\ d \in BOOLEAN
    BY <1>1, <2>1, ReadNext
  <2> HIDE DEF d
  <2>3. R[a + 1] = Inside(W, r, <<>>)
    BY <2>2, PlainQuote
  <2>4. SubSeq(cell, 1, 0) = <<>> /\ (a + 1) + off[0] = a + 1
    BY <1>1, <1>7, PrefixWhole
  <2>5. 0 \in 0..n
    BY <1>1
  <2>6. R[(a + 1) + off[0]] = Inside(W, r, SubSeq(cell, 1, 0))
    BY <2>3, <2>4
  <2> QED
    BY <2>5, <2>6
<1>10. ASSUME NEW k \in 0..n, k \in G, k < n PROVE k + 1 \in G
  <2> DEFINE b == (a + 1) + off[k]
             c == SubSeq(cell, 1, k)
             ch == cell[k + 1]
  <2>1. /\ k + 1 \in 1..n /\ (k + 1) - 1 = k /\ off[k] \in Nat /\ off[k + 1] \in Nat
        /\ parts[k + 1] = Doubled(ch) /\ b \in Nat
    <3>1. k + 1 \in 1..n /\ (k + 1) - 1 = k /\ k + 1 \in 0..n
      BY <1>1, <1>10
    <3>2. off[k] \in Nat /\ off[k + 1] \in Nat
      BY <1>7, <3>1
    <3> QED
      BY <1>1, <3>1, <3>2
  <2> HIDE DEF parts
  <2>2. /\ off[k + 1] = off[k] + Len(Doubled(ch)) /\ off[k + 1] <= Len(body)
        /\ \A j \in 1..Len(Doubled(ch)) : body[off[k] + j] = Doubled(ch)[j]
    <3>1. /\ off[k + 1] = off[(k + 1) - 1] + Len(parts[k + 1]) /\ off[k + 1] <= Len(body)
          /\ \A j \in 1..Len(parts[k + 1]) : body[off[(k + 1) - 1] + j] = parts[k + 1][j]
      BY <1>7, <2>1, Zenon
    <3> QED
      BY <2>1, <3>1
  <2>3. ASSUME NEW j \in Nat \ {0}, j <= Len(Doubled(ch))
        PROVE  text[b + j] = Doubled(ch)[j] /\ b + j < Len(text)
    <3>0. Len(Doubled(ch)) \in Nat
      BY DEF Doubled
    <3>1. off[k] + j \in 1..Len(body)
      <4> DEFINE m == Len(Doubled(ch))
                 x == off[k]
      <4>1. x \in Nat /\ m \in Nat /\ x + m <= Len(body) /\ Len(body) \in Nat /\ j <= m
        BY <2>1, <2>2, <2>3, <1>6, <3>0
      <4> HIDE DEF m, x
      <4>2. x + j \in 1..Len(body)
        BY <4>1
      <4> QED
        BY <4>2 DEF x
    <3>2. e[off[k] + j + 1] = body[off[k] + j] /\ off[k] + j + 1 \in 1..Len(e)
      BY <1>6, <3>1
    <3>3. text[a + (off[k] + j + 1)] = e[off[k] + j + 1] /\ a + Len(e) <= Len(text)
      BY <1>8, <3>2 DEF StandsAt
    <3>4. a + (off[k] + j + 1) = b + j /\ b + j < a + Len(e)
      <4> DEFINE x == off[k]
      <4>1. x \in Nat /\ x + j <= Len(body) /\ Len(e) = Len(body) + 2 /\ Len(body) \in Nat
        BY <1>6, <2>1, <3>1
      <4>2. b = (a + 1) + x
        OBVIOUS
      <4> HIDE DEF x, b
      <4>3. a + (x + j + 1) = b + j /\ b + j < a + Len(e)
        BY <1>1, <4>1, <4>2
      <4> QED
        BY <4>3 DEF x
    <3>5. Len(text) \in Nat /\ Len(e) \in Nat
      BY <1>6
    <3>6. j \in 1..Len(Doubled(ch))
      BY <2>3 DEF Doubled
    <3>7. body[off[k] + j] = Doubled(ch)[j]
      BY <2>2, <3>6
    <3> HIDE DEF b
    <3>8. text[b + j] = Doubled(ch)[j]
      BY <3>2, <3>3, <3>4, <3>7
    <3>9. b + j < Len(text)
      BY <1>1, <2>1, <3>3, <3>4, <3>5
    <3> QED
      BY <3>8, <3>9
  <2>4. R[b] = Inside(W, r, c)
    BY <1>10
  <2>5. Append(c, ch) = SubSeq(cell, 1, k + 1)
    BY <1>10, PrefixGrows
  <2> HIDE DEF b, c, ch
  <2>6. CASE ch = Quote
    <3>1. Doubled(ch) = <<Quote, Quote>>
      BY <2>6 DEF Doubled
    <3>2. /\ text[b + 1] = Quote /\ text[b + 2] = Quote /\ b + 1 < Len(text) /\ b + 2 < Len(text)
          /\ off[k + 1] = off[k] + 2
      BY <2>2, <2>3, <3>1
    <3> DEFINE d1 == DoubledAt(text, b + 1)
               d2 == DoubledAt(text, (b + 1) + 1)
    <3>3. R[b + 1] = ReadOne(R[b], Quote, d1) /\ d1 \in BOOLEAN /\ d1
      <4>1. b < Len(text)
        BY <2>1, <3>2
      <4> QED
        BY <2>1, <3>2, <4>1, ReadNext
    <3>4. R[(b + 1) + 1] = ReadOne(R[b + 1], text[(b + 1) + 1], d2) /\ d2 \in BOOLEAN
      <4>1. b + 1 \in Nat
        BY <2>1
      <4> QED
        BY <3>2, <4>1, ReadNext
    <3> HIDE DEF d1, d2
    <3>5. R[b + 1] = Skipping(W, r, Append(c, Quote))
      BY <2>4, <3>3, InsideDoubled
    <3>6. R[(b + 1) + 1] = Inside(W, r, Append(c, Quote))
      BY <3>4, <3>5, SkippingRead
    <3>7. (b + 1) + 1 = (a + 1) + off[k + 1]
      BY <1>1, <2>1, <3>2 DEF b
    <3>8. Append(c, Quote) = SubSeq(cell, 1, k + 1)
      BY <2>5, <2>6
    <3>9. R[(a + 1) + off[k + 1]] = Inside(W, r, SubSeq(cell, 1, k + 1))
      BY <3>6, <3>7, <3>8
    <3> QED
      BY <1>1, <2>1, <3>9
  <2>7. CASE ch # Quote
    <3>1. Doubled(ch) = <<ch>>
      BY <2>7 DEF Doubled
    <3>2. text[b + 1] = ch /\ b + 1 < Len(text) /\ off[k + 1] = off[k] + 1
      BY <2>2, <2>3, <3>1
    <3> DEFINE d == DoubledAt(text, b + 1)
    <3>3. R[b + 1] = ReadOne(R[b], ch, d) /\ d \in BOOLEAN
      <4>1. b < Len(text)
        BY <2>1, <3>2
      <4> QED
        BY <2>1, <3>2, <4>1, ReadNext
    <3> HIDE DEF d
    <3>4. R[b + 1] = Inside(W, r, Append(c, ch))
      BY <2>4, <2>7, <3>3, InsidePut
    <3>5. b + 1 = (a + 1) + off[k + 1]
      BY <1>1, <2>1, <3>2 DEF b
    <3> QED
      BY <1>10, <2>1, <2>5, <3>4, <3>5
  <2> QED
    BY <2>6, <2>7
<1>11. R[(a + 1) + Len(body)] = Inside(W, r, cell)
  <2>1. n \in G
    <3> HIDE DEF G, n, parts
    <3>1. \A k \in 0..n : k \in G
      BY <1>1, <1>9, <1>10, StepByStep
    <3> QED
      BY <1>1, <3>1
  <2> QED
    BY <1>7, <2>1, PrefixWhole
<1>12. R[((a + 1) + Len(body)) + 1] = Plain(W, r, cell)
  <2> DEFINE b == (a + 1) + Len(body)
             d == DoubledAt(text, b + 1)
  <2>1. /\ b \in Nat /\ b + 1 < Len(text) /\ b < Len(text) /\ b + 1 = a + Len(e)
        /\ a + Len(e) + 1 = b + 2
    BY <1>1, <1>6 DEF e
  <2>2. text[b + 1] = Quote /\ text[b + 2] # Quote
    <3>1. Len(body) + 2 \in 1..Len(e) /\ a + (Len(body) + 2) = b + 1
      BY <1>1, <1>6
    <3>2. text[a + (Len(body) + 2)] = e[Len(body) + 2]
      BY <1>8, <3>1 DEF StandsAt
    <3>3. text[a + Len(e) + 1] # Quote
      BY DEF e
    <3> HIDE DEF b
    <3> QED
      BY <1>6, <2>1, <3>1, <3>2, <3>3
  <2>3. R[b + 1] = ReadOne(R[b], text[b + 1], d) /\ d \in BOOLEAN /\ ~d
    BY <2>1, <2>2, ReadNext
  <2>4. R[b] = Inside(W, r, cell)
    BY <1>11
  <2> HIDE DEF d, b
  <2>5. R[b + 1] = Plain(W, r, cell)
    BY <2>2, <2>3, <2>4, InsideQuote
  <2> QED
    BY <2>5 DEF b
<1>13. ((a + 1) + Len(body)) + 1 = a + Len(e)
  BY <1>1, <1>6
<1> QED
  BY <1>12, <1>13 DEF e

LEMMA EnquoteTyped ==
  ASSUME NEW cell \in Seq(Characters)
  PROVE  Enquote(cell) \in Seq(Characters)
<1> DEFINE parts == [i \in 1..Len(cell) |-> Doubled(cell[i])]
           body == FlattenSeq(parts)
<1>1. <<Quote>> \in Seq(Characters)
  BY DEF Characters
<1>2. body \in Seq(Characters)
  <2>1. parts \in Seq(Seq(Characters))
    BY DoubledTyped
  <2> HIDE DEF parts
  <2> QED
    BY <2>1, FlatParts
<1>3. Enquote(cell) = <<Quote>> \o body \o <<Quote>>
  BY DEF Enquote
<1> HIDE DEF body
<1>4. <<Quote>> \o body \in Seq(Characters)
  BY <1>1, <1>2, Joined
<1> QED
  BY <1>1, <1>3, <1>4, Joined

LEMMA EscapeTyped ==
  ASSUME NEW cell \in Seq(Characters)
  PROVE  EscapeField(cell) \in Seq(Characters)
BY EnquoteTyped DEF EscapeField

(* A field as it is written, before a separator.                           *)
LEMMA CellRead ==
  ASSUME NEW text, Len(text) \in Nat, NEW R, IsReading(R, text, Len(text)),
         NEW cell \in Seq(Characters), NEW a, StandsAt(text, a, EscapeField(cell)),
         a + Len(EscapeField(cell)) < Len(text),
         text[a + Len(EscapeField(cell)) + 1] \in {Comma, Feed},
         NEW W, NEW r, R[a] = Plain(W, r, <<>>)
  PROVE  R[a + Len(EscapeField(cell))] = Plain(W, r, cell)
<1>1. CASE Range(cell) \cap {Quote, Comma, Feed, Cr} # {}
  <2>1. EscapeField(cell) = Enquote(cell)
    BY <1>1 DEF EscapeField
  <2>2. text[a + Len(Enquote(cell)) + 1] # Quote
    BY <2>1 DEF Quote, Comma, Feed
  <2> QED
    BY <2>1, <2>2, QuotedRead
<1>2. CASE Range(cell) \cap {Quote, Comma, Feed, Cr} = {}
  <2>1. EscapeField(cell) = cell
    BY <1>2 DEF EscapeField
  <2>2. \A k \in 1..Len(cell) : cell[k] \notin Special
    <3> SUFFICES ASSUME NEW k \in 1..Len(cell) PROVE cell[k] \notin Special
      OBVIOUS
    <3>1. cell[k] \in Range(cell)
      BY DEF Range
    <3> QED
      BY <1>2, <3>1 DEF Special
  <2> QED
    BY <2>1, <2>2, PlainRead
<1> QED
  BY <1>1, <1>2

(* A line: where its fields end, what separates them, what ends it.        *)
Separated(i) == IF i = 1 THEN 0 ELSE 1

FieldsAt(off, cells, line) ==
  LET n == Len(cells) IN
  /\ line \in Seq(Characters) /\ Len(line) = off[n] + 1 /\ line[off[n] + 1] = Feed
  /\ off \in [0..n -> Nat] /\ off[0] = 0
  /\ \A i \in 1..n :
       /\ off[i] = off[i - 1] + Separated(i) + Len(EscapeField(cells[i])) /\ off[i] <= off[n]
       /\ i # 1 => line[off[i - 1] + 1] = Comma
       /\ \A k \in 1..Len(EscapeField(cells[i])) :
            line[off[i - 1] + Separated(i) + k] = EscapeField(cells[i])[k]

LEMMA LineParts ==
  ASSUME NEW cells \in Seq(Seq(Characters))
  PROVE  \E off : FieldsAt(off, cells, SerializeLine(cells))
<1> DEFINE n == Len(cells)
           sep(i) == IF i = 1 THEN <<>> ELSE <<Comma>>
           part(i) == sep(i) \o EscapeField(cells[i])
           parts == [i \in 1..n |-> part(i)]
           body == FlattenSeq(parts)
           line == SerializeLine(cells)
<1>1. n \in Nat /\ \A i \in 1..n : cells[i] \in Seq(Characters)
  OBVIOUS
<1>2. ASSUME NEW i \in 1..n
      PROVE  /\ parts[i] \in Seq(Characters)
             /\ Len(parts[i]) = Separated(i) + Len(EscapeField(cells[i]))
             /\ i # 1 => parts[i][1] = Comma
             /\ \A k \in 1..Len(EscapeField(cells[i])) :
                  parts[i][Separated(i) + k] = EscapeField(cells[i])[k]
  <2> DEFINE s == sep(i)
             t == EscapeField(cells[i])
  <2>1. s \in Seq(Characters) /\ Len(s) = Separated(i) /\ (i # 1 => 1 \in 1..Len(s) /\ s[1] = Comma)
    <3>1. Comma \in Characters
      BY DEF Characters
    <3> QED
      BY <3>1 DEF Separated
  <2>2. t \in Seq(Characters) /\ parts[i] = s \o t
    <3>1. cells[i] \in Seq(Characters)
      BY <1>1
    <3> QED
      BY <3>1, EscapeTyped
  <2> HIDE DEF s, t, parts
  <2>3. /\ s \o t \in Seq(Characters) /\ Len(s \o t) = Len(s) + Len(t)
        /\ \A k \in 1..Len(s) : (s \o t)[k] = s[k]
        /\ \A k \in 1..Len(t) : (s \o t)[Len(s) + k] = t[k]
    <3>1. s \in Seq(Characters) /\ t \in Seq(Characters)
      BY <2>1, <2>2
    <3> QED
      BY <3>1, Joined
  <2>4. i # 1 => (s \o t)[1] = Comma
    BY <2>1, <2>3
  <2>5. /\ parts[i] \in Seq(Characters) /\ Len(parts[i]) = Separated(i) + Len(t)
        /\ i # 1 => parts[i][1] = Comma
        /\ \A k \in 1..Len(t) : parts[i][Separated(i) + k] = t[k]
    BY <2>1, <2>2, <2>3, <2>4
  <2> QED
    BY <2>5 DEF t
<1>3. parts \in Seq(Seq(Characters)) /\ Len(parts) = n
  <2>1. \A i \in 1..n : part(i) \in Seq(Characters)
    BY <1>2
  <2> HIDE DEF part
  <2> QED
    BY <1>1, <2>1
<1>4. line = body \o <<Feed>>
  BY DEF SerializeLine
<1> HIDE DEF parts
<1>5. body \in Seq(Characters) /\ \E off : PartsAt(off, parts, body)
  BY <1>3, FlatParts
<1>6. PICK off : PartsAt(off, parts, body)
  BY <1>5
<1> HIDE DEF body, line
<1>7. /\ line \in Seq(Characters) /\ Len(line) = Len(body) + 1 /\ line[Len(body) + 1] = Feed
      /\ \A k \in 1..Len(body) : line[k] = body[k]
  <2>1. <<Feed>> \in Seq(Characters) /\ Len(<<Feed>>) = 1 /\ <<Feed>>[1] = Feed
    BY DEF Characters, Blanks
  <2> QED
    BY <1>4, <1>5, <2>1, Joined
<1>8. /\ off \in [0..n -> Nat] /\ off[0] = 0 /\ off[n] = Len(body) /\ Len(body) \in Nat
      /\ \A i \in 1..n : /\ off[i] = off[i - 1] + Len(parts[i]) /\ off[i] <= Len(body)
                         /\ \A k \in 1..Len(parts[i]) : body[off[i - 1] + k] = parts[i][k]
  <2>1. Len(body) \in Nat
    BY <1>5
  <2>2. /\ off \in [0..n -> Nat] /\ off[0] = 0 /\ off[n] = Len(body)
        /\ \A i \in 1..n : /\ off[i] = off[i - 1] + Len(parts[i]) /\ off[i] <= Len(body)
                           /\ \A k \in 1..Len(parts[i]) : body[off[i - 1] + k] = parts[i][k]
    BY <1>3, <1>6, Zenon DEF PartsAt
  <2> QED
    BY <2>1, <2>2
<1>9. ASSUME NEW i \in 1..n
      PROVE  /\ off[i] = off[i - 1] + Separated(i) + Len(EscapeField(cells[i]))
             /\ off[i] <= off[n]
             /\ i # 1 => line[off[i - 1] + 1] = Comma
             /\ \A k \in 1..Len(EscapeField(cells[i])) :
                  line[off[i - 1] + Separated(i) + k] = EscapeField(cells[i])[k]
  <2> DEFINE o == off[i - 1]
             w == Separated(i)
             t == EscapeField(cells[i])
             m == Len(t)
             p == parts[i]
  <2>1. /\ p \in Seq(Characters) /\ Len(p) = w + m /\ (i # 1 => p[1] = Comma)
        /\ \A k \in 1..m : p[w + k] = t[k]
    BY <1>2
  <2>2. w \in {0, 1} /\ (i # 1 => w = 1)
    BY DEF Separated
  <2>3. o \in Nat /\ off[i] \in Nat /\ m \in Nat
    <3>1. i - 1 \in 0..n /\ i \in 0..n
      BY <1>1
    <3>2. t \in Seq(Characters)
      BY <1>1, EscapeTyped
    <3>3. off[i - 1] \in Nat /\ off[i] \in Nat
      BY <1>8, <3>1
    <3> HIDE DEF t
    <3>4. Len(t) \in Nat
      BY <3>2
    <3> QED
      BY <3>3, <3>4
  <2>4. /\ off[i] = o + Len(p) /\ off[i] <= Len(body)
        /\ \A k \in 1..Len(p) : body[o + k] = p[k]
    BY <1>8
  <2> HIDE DEF o, w, m, t, p
  <2>5. ASSUME NEW k \in 1..Len(p) PROVE line[o + k] = p[k]
    <3>1. o + k \in 1..Len(body)
      BY <1>8, <2>1, <2>2, <2>3, <2>4
    <3> QED
      BY <1>7, <2>4, <3>1
  <2>6. i # 1 => line[o + 1] = Comma
    <3>1. CASE i # 1
      <4>1. 1 \in 1..Len(p)
        BY <2>1, <2>2, <2>3, <3>1
      <4> QED
        BY <2>1, <2>5, <3>1, <4>1
    <3> QED
      BY <3>1
  <2>7. ASSUME NEW k \in 1..m PROVE line[o + w + k] = t[k]
    <3>1. w + k \in 1..Len(p) /\ o + (w + k) = o + w + k
      BY <2>1, <2>2, <2>3
    <3> QED
      BY <2>1, <2>5, <3>1
  <2>8. off[i] = o + w + m
    BY <2>1, <2>2, <2>3, <2>4
  <2>9. off[i] <= off[n]
    BY <1>8, <2>4
  <2> QED
    BY <2>6, <2>7, <2>8, <2>9 DEF o, w, m, t
<1>10. FieldsAt(off, cells, line)
  BY <1>7, <1>8, <1>9 DEF FieldsAt
<1> QED
  BY <1>10 DEF line

(* A line as it is written, read from its start.                           *)
LEMMA LineRead ==
  ASSUME NEW text, Len(text) \in Nat, NEW R, IsReading(R, text, Len(text)),
         NEW cells \in Seq(Seq(Characters)), cells # <<>>,
         NEW a, StandsAt(text, a, SerializeLine(cells)),
         NEW W, R[a] = Plain(W, <<>>, <<>>)
  PROVE  R[a + Len(SerializeLine(cells))] = Plain(Append(W, cells), <<>>, <<>>)
<1> DEFINE n == Len(cells)
           line == SerializeLine(cells)
<1>1. n \in Nat /\ n # 0 /\ a \in Nat
  BY DEF StandsAt
<1>2. PICK off : FieldsAt(off, cells, line)
  BY LineParts
<1>3. StandsAt(text, a, line)
  OBVIOUS
<1> HIDE DEF line
<1>4. /\ line \in Seq(Characters) /\ Len(line) = off[n] + 1 /\ line[off[n] + 1] = Feed
      /\ off \in [0..n -> Nat] /\ off[0] = 0
  BY <1>2 DEF FieldsAt
<1> DEFINE State(k) == IF k = 0 THEN Plain(W, <<>>, <<>>)
                       ELSE Plain(W, SubSeq(cells, 1, k - 1), cells[k])
           G == {k \in 0..n : R[a + off[k]] = State(k)}
<1>5. 0 \in G
  <2>1. 0 \in 0..n /\ a + off[0] = a
    BY <1>1, <1>4
  <2>2. R[a + off[0]] = State(0)
    BY <2>1
  <2> QED
    BY <2>1, <2>2
<1>6. ASSUME NEW j \in 1..Len(line) PROVE text[a + j] = line[j] /\ a + j <= Len(text)
  BY <1>1, <1>3, <1>4 DEF StandsAt
<1>7. ASSUME NEW k \in 0..n, k \in G, k < n PROVE k + 1 \in G
  <2> DEFINE cell == cells[k + 1]
             t == EscapeField(cell)
             w == Separated(k + 1)
             o == off[k]
             b == a + o + w
             r == SubSeq(cells, 1, k)
  <2>1. k + 1 \in 1..n /\ (k + 1) - 1 = k /\ cell \in Seq(Characters) /\ k + 1 \in 0..n
    BY <1>1, <1>7
  <2>2. t \in Seq(Characters)
    BY <2>1, EscapeTyped
  <2>3. /\ off[k + 1] = o + w + Len(t) /\ off[k + 1] <= off[n]
        /\ k # 0 => line[o + 1] = Comma
        /\ \A j \in 1..Len(t) : line[o + w + j] = t[j]
    <3>1. /\ off[k + 1] = off[(k + 1) - 1] + Separated(k + 1) + Len(EscapeField(cells[k + 1]))
          /\ off[k + 1] <= off[n]
          /\ k + 1 # 1 => line[off[(k + 1) - 1] + 1] = Comma
          /\ \A j \in 1..Len(EscapeField(cells[k + 1])) :
               line[off[(k + 1) - 1] + Separated(k + 1) + j] = EscapeField(cells[k + 1])[j]
      BY <1>2, <2>1, Zenon DEF FieldsAt
    <3>2. k # 0 => k + 1 # 1
      OBVIOUS
    <3> QED
      BY <2>1, <3>1, <3>2
  <2>4. w \in {0, 1} /\ (k = 0 => w = 0) /\ (k # 0 => w = 1)
    BY DEF Separated
  <2>5. o \in Nat /\ off[k + 1] \in Nat /\ off[n] \in Nat /\ Len(t) \in Nat
    <3>1. n \in 0..n /\ k \in 0..n
      BY <1>1
    <3> QED
      <4>1. off[k] \in Nat /\ off[k + 1] \in Nat /\ off[n] \in Nat
        BY <1>4, <2>1, <3>1
      <4> HIDE DEF t, n
      <4>2. Len(t) \in Nat
        BY <2>2
      <4> QED
        BY <4>1, <4>2
  <2>6. R[a + o] = State(k)
    BY <1>7
  <2>7. k # 0 => text[(a + o) + 1] = Comma /\ a + o < Len(text)
    <3> SUFFICES ASSUME k # 0 PROVE text[(a + o) + 1] = Comma /\ a + o < Len(text)
      OBVIOUS
    <3> HIDE DEF o, w, t
    <3>1. o + 1 \in 1..Len(line) /\ (a + o) + 1 = a + (o + 1)
      BY <1>1, <1>4, <2>3, <2>4, <2>5
    <3> QED
      BY <1>1, <1>6, <2>3, <2>5, <3>1
  <2>8. R[b] = Plain(W, r, <<>>)
    <3>1. CASE k = 0
      <4>1. r = <<>> /\ b = a + o
        BY <1>1, <2>4, <2>5, <3>1, PrefixWhole
      <4> QED
        BY <2>6, <3>1, <4>1
    <3>2. CASE k # 0
      <4> DEFINE d == DoubledAt(text, (a + o) + 1)
      <4>1. a + o \in Nat
        BY <1>1, <2>5
      <4>2. R[(a + o) + 1] = ReadOne(R[a + o], Comma, d) /\ d \in BOOLEAN
        BY <2>7, <3>2, <4>1, ReadNext
      <4>3. R[a + o] = Plain(W, SubSeq(cells, 1, k - 1), cells[k])
        BY <2>6, <3>2
      <4> HIDE DEF d
      <4>4. R[(a + o) + 1] = Plain(W, Append(SubSeq(cells, 1, k - 1), cells[k]), <<>>)
        BY <4>2, <4>3, PlainComma
      <4>5. Append(SubSeq(cells, 1, k - 1), cells[k]) = SubSeq(cells, 1, k)
        <5>1. k - 1 \in 0..n /\ k - 1 < n /\ (k - 1) + 1 = k
          BY <1>1, <3>2
        <5> QED
          BY <5>1, PrefixGrows
      <4>6. b = (a + o) + 1
        BY <1>1, <2>4, <2>5, <3>2
      <4> QED
        BY <4>4, <4>5, <4>6
    <3> QED
      BY <3>1, <3>2
  <2>9. StandsAt(text, b, t) /\ b + Len(t) < Len(text) /\ b + Len(t) = a + off[k + 1]
    <3> HIDE DEF o, w, t
    <3>1. b \in Nat /\ b + Len(t) = a + off[k + 1] /\ a + Len(line) <= Len(text)
      BY <1>1, <1>3, <2>3, <2>4, <2>5 DEF StandsAt
    <3>2. ASSUME NEW j \in 1..Len(t) PROVE text[b + j] = t[j]
      <4>1. o + w + j \in 1..Len(line) /\ b + j = a + (o + w + j)
        <5> DEFINE x == off[k + 1]
                   z == off[n]
                   m == Len(t)
        <5>1. /\ x = o + w + m /\ x <= z /\ Len(line) = z + 1 /\ j \in 1..m
              /\ x \in Nat /\ z \in Nat /\ o \in Nat /\ w \in {0, 1} /\ m \in Nat
          BY <1>4, <2>3, <2>4, <2>5
        <5> HIDE DEF x, z, m
        <5> QED
          BY <1>1, <5>1
      <4> QED
        BY <1>6, <2>3, <4>1
    <3>3. b + Len(t) < Len(text)
      BY <1>1, <1>4, <2>3, <2>5, <3>1
    <3> QED
      BY <2>5, <3>1, <3>2, <3>3 DEF StandsAt
  <2>10. text[a + off[k + 1] + 1] \in {Comma, Feed}
    <3>1. CASE k + 1 = n
      <4>1. off[n] + 1 \in 1..Len(line) /\ a + (off[n] + 1) = a + off[k + 1] + 1
        BY <1>1, <1>4, <2>5, <3>1
      <4> QED
        BY <1>4, <1>6, <4>1
    <3>2. CASE k + 1 # n
      <4> DEFINE i == (k + 1) + 1
      <4>1. i \in 1..n /\ i # 1 /\ i - 1 = k + 1 /\ i \in 0..n
        BY <2>1, <3>2, <1>1
      <4>2. /\ off[i] = off[i - 1] + Separated(i) + Len(EscapeField(cells[i])) /\ off[i] <= off[n]
            /\ line[off[i - 1] + 1] = Comma
        BY <1>2, <4>1, Zenon DEF FieldsAt
      <4>3. Separated(i) = 1 /\ Len(EscapeField(cells[i])) \in Nat
        <5>1. cells[i] \in Seq(Characters)
          BY <4>1
        <5>2. EscapeField(cells[i]) \in Seq(Characters)
          BY <5>1, EscapeTyped
        <5> QED
          BY <4>1, <5>2 DEF Separated
      <4> DEFINE x == off[k + 1]
                 y == Len(EscapeField(cells[i]))
      <4>4. /\ off[i] = x + 1 + y /\ off[i] <= off[n] /\ line[x + 1] = Comma
            /\ x \in Nat /\ y \in Nat /\ off[n] \in Nat
        BY <2>5, <4>1, <4>2, <4>3
      <4> HIDE DEF x, y
      <4>5. x + 1 \in 1..Len(line) /\ a + (x + 1) = a + x + 1
        BY <1>1, <1>4, <4>4
      <4>6. text[a + x + 1] = Comma
        BY <1>6, <4>4, <4>5
      <4> QED
        BY <4>6 DEF x
    <3> QED
      BY <3>1, <3>2
  <2>11. R[b + Len(t)] = Plain(W, r, cell)
    <3>1. text[b + Len(t) + 1] \in {Comma, Feed}
      <4> HIDE DEF b, t
      <4> QED
        BY <2>9, <2>10
    <3> HIDE DEF b, r, cell
    <3> QED
      BY <2>1, <2>8, <2>9, <3>1, CellRead
  <2>12. R[a + off[k + 1]] = State(k + 1)
    <3>1. State(k + 1) = Plain(W, r, cell)
      BY <2>1
    <3> HIDE DEF State, b, t
    <3> QED
      BY <2>9, <2>11, <3>1
  <2> QED
    BY <2>1, <2>12
<1>8. R[a + off[n]] = Plain(W, SubSeq(cells, 1, n - 1), cells[n])
  <2>1. n \in G
    <3> HIDE DEF G, n
    <3>1. \A k \in 0..n : k \in G
      BY <1>1, <1>5, <1>7, StepByStep
    <3> QED
      BY <1>1, <3>1
  <2>2. R[a + off[n]] = State(n)
    BY <2>1
  <2> QED
    BY <1>1, <2>2
<1>9. R[(a + off[n]) + 1] = Plain(Append(W, cells), <<>>, <<>>)
  <2> DEFINE b == a + off[n]
             d == DoubledAt(text, b + 1)
  <2>1. off[n] \in Nat /\ b \in Nat
    <3>1. n \in 0..n
      BY <1>1
    <3>2. off[n] \in Nat
      BY <1>4, <3>1
    <3> QED
      BY <1>1, <3>2
  <2>2. text[b + 1] = Feed /\ b < Len(text)
    <3>1. off[n] + 1 \in 1..Len(line) /\ a + (off[n] + 1) = b + 1
      BY <1>1, <1>4, <2>1
    <3>2. text[b + 1] = Feed /\ b + 1 <= Len(text)
      BY <1>4, <1>6, <3>1
    <3> QED
      BY <2>1, <3>2
  <2>3. R[b + 1] = ReadOne(R[b], Feed, d) /\ d \in BOOLEAN
    BY <2>1, <2>2, ReadNext
  <2> HIDE DEF d
  <2>4. R[b + 1] = Plain(Append(W, Append(SubSeq(cells, 1, n - 1), cells[n])), <<>>, <<>>)
    BY <1>8, <2>3, PlainFeed
  <2>5. Append(SubSeq(cells, 1, n - 1), cells[n]) = cells
    <3>1. n - 1 \in 0..n /\ n - 1 < n /\ (n - 1) + 1 = n
      BY <1>1
    <3>2. Append(SubSeq(cells, 1, n - 1), cells[(n - 1) + 1]) = SubSeq(cells, 1, (n - 1) + 1)
      BY <3>1, PrefixGrows
    <3> QED
      BY <3>1, <3>2, PrefixWhole
  <2> QED
    BY <2>4, <2>5
<1>10. (a + off[n]) + 1 = a + Len(line)
  <2>1. off[n] \in Nat
    <3>1. n \in 0..n
      BY <1>1
    <3> QED
      BY <1>4, <3>1
  <2> QED
    BY <1>1, <1>4, <2>1
<1> QED
  BY <1>9, <1>10 DEF line


LEMMA QuoteFirst ==
  ASSUME NEW cell \in Seq(Characters)
  PROVE  Enquote(cell)[1] = Quote
<1> DEFINE body == FlattenSeq([i \in 1..Len(cell) |-> Doubled(cell[i])])
           u == <<Quote>> \o body
<1>1. <<Quote>> \in Seq(Characters) /\ Len(<<Quote>>) = 1 /\ <<Quote>>[1] = Quote
  BY DEF Characters
<1>2. body \in Seq(Characters)
  <2> DEFINE parts == [i \in 1..Len(cell) |-> Doubled(cell[i])]
  <2>1. parts \in Seq(Seq(Characters))
    BY DoubledTyped
  <2> HIDE DEF parts
  <2>2. FlattenSeq(parts) \in Seq(Characters)
    BY <2>1, FlatParts
  <2> QED
    BY <2>2 DEF parts
<1>3. Enquote(cell) = u \o <<Quote>>
  BY DEF Enquote
<1> HIDE DEF body
<1>4. u \in Seq(Characters) /\ Len(u) = 1 + Len(body) /\ u[1] = Quote
  BY <1>1, <1>2, Joined
<1> HIDE DEF u
<1>5. 1 \in 1..Len(u)
  BY <1>2, <1>4
<1>6. (u \o <<Quote>>)[1] = u[1]
  BY <1>1, <1>4, <1>5, Joined
<1> QED
  BY <1>3, <1>4, <1>6

LEMMA LineTyped ==
  ASSUME NEW cells \in Seq(Seq(Characters)), cells # <<>>
  PROVE  /\ SerializeLine(cells) \in Seq(Characters) /\ SerializeLine(cells) # <<>>
         /\ SerializeLine(cells)[1] = Mark => cells[1] # <<>> /\ cells[1][1] = Mark
<1> DEFINE n == Len(cells)
           line == SerializeLine(cells)
           t == EscapeField(cells[1])
<1>1. n \in Nat /\ 1 \in 1..n /\ cells[1] \in Seq(Characters)
  OBVIOUS
<1>2. PICK off : FieldsAt(off, cells, line)
  BY LineParts
<1> HIDE DEF line, n
<1>3. /\ line \in Seq(Characters) /\ Len(line) = off[n] + 1 /\ line[off[n] + 1] = Feed
      /\ off \in [0..n -> Nat] /\ off[0] = 0
  BY <1>2 DEF FieldsAt, n
<1>4. /\ off[1] = off[0] + Separated(1) + Len(t) /\ off[1] <= off[n]
      /\ \A i \in 2..n : line[off[i - 1] + 1] = Comma /\ off[i] <= off[n]
                         /\ off[i] = off[i - 1] + 1 + Len(EscapeField(cells[i]))
      /\ \A k \in 1..Len(t) : line[off[0] + Separated(1) + k] = t[k]
  <2>1. \A i \in 1..n :
       /\ off[i] = off[i - 1] + Separated(i) + Len(EscapeField(cells[i])) /\ off[i] <= off[n]
       /\ i # 1 => line[off[i - 1] + 1] = Comma
       /\ \A k \in 1..Len(EscapeField(cells[i])) :
            line[off[i - 1] + Separated(i) + k] = EscapeField(cells[i])[k]
    BY <1>2, Zenon DEF FieldsAt, n
  <2>2. /\ off[1] = off[1 - 1] + Separated(1) + Len(t) /\ off[1] <= off[n]
        /\ \A k \in 1..Len(t) : line[off[1 - 1] + Separated(1) + k] = t[k]
    BY <1>1, <2>1, Zenon
  <2>3. 1 - 1 = 0
    OBVIOUS
  <2>4. ASSUME NEW i \in 2..n
        PROVE  /\ line[off[i - 1] + 1] = Comma /\ off[i] <= off[n]
               /\ off[i] = off[i - 1] + 1 + Len(EscapeField(cells[i]))
    <3>1. i \in 1..n /\ i # 1
      BY <1>1
    <3>2. Separated(i) = 1
      BY <3>1 DEF Separated
    <3> QED
      BY <2>1, <3>1, <3>2
  <2> QED
    BY <2>2, <2>3, <2>4
<1>5. Separated(1) = 0 /\ t \in Seq(Characters)
  BY <1>1, EscapeTyped DEF Separated
<1>6. off[1] \in Nat /\ off[n] \in Nat
  <2>1. n \in 0..n /\ 1 \in 0..n
    BY <1>1
  <2> QED
    BY <1>3, <2>1
<1>7. off[1] = Len(t) /\ \A k \in 1..Len(t) : line[k] = t[k]
  <2> HIDE DEF t
  <2>1. Len(t) \in Nat
    BY <1>5
  <2>2. ASSUME NEW k \in 1..Len(t) PROVE line[k] = t[k]
    <3>1. off[0] + Separated(1) + k = k
      BY <1>3, <1>5
    <3> QED
      BY <1>4, <3>1
  <2> QED
    BY <1>3, <1>4, <1>5, <2>1, <2>2
<1>8. line # <<>>
  BY <1>3, <1>6
<1>9. ASSUME line[1] = Mark PROVE cells[1] # <<>> /\ cells[1][1] = Mark
  <2>1. CASE t = <<>>
    <3>1. off[1] = 0
      BY <1>7, <2>1
    <3>2. CASE n = 1
      <4>1. line[1] = Feed
        BY <1>3, <3>1, <3>2
      <4> QED
        BY <1>9, <4>1 DEF Feed, Mark
    <3>3. CASE n # 1
      <4>1. 2 \in 2..n /\ 2 - 1 = 1
        BY <1>1, <3>3
      <4>2. line[off[2 - 1] + 1] = Comma
        BY <1>4, <4>1
      <4>3. line[1] = Comma
        BY <3>1, <4>1, <4>2
      <4> QED
        BY <1>9, <4>3 DEF Comma, Mark
    <3> QED
      BY <3>2, <3>3
  <2>2. CASE t # <<>>
    <3>1. 1 \in 1..Len(t) /\ t[1] = Mark
      <4> HIDE DEF t
      <4>1. 1 \in 1..Len(t)
        BY <1>5, <2>2
      <4> QED
        BY <1>7, <1>9, <4>1
    <3>2. t = Enquote(cells[1]) \/ t = cells[1]
      BY DEF EscapeField
    <3>3. CASE t = Enquote(cells[1])
      <4>1. t[1] = Quote
        BY <1>1, <3>3, QuoteFirst
      <4> QED
        BY <3>1, <4>1 DEF Quote, Mark
    <3>4. CASE t = cells[1]
      BY <2>2, <3>1, <3>4
    <3> QED
      BY <3>2, <3>3, <3>4
  <2> QED
    BY <2>1, <2>2
<1> QED
  BY <1>3, <1>8, <1>9 DEF line

(* A name without blanks around it does not start with one.                *)
LEMMA LeastThere ==
  ASSUME NEW n \in Nat, NEW T, T \subseteq 1..n, T # {}
  PROVE  Min(T) \in T /\ \A k \in T : Min(T) <= k
<1> DEFINE G == {k \in 0..n : \A j \in T : ~(j <= k)}
<1>1. \E m \in T : \A k \in T : m <= k
  <2> SUFFICES ASSUME \A m \in T : \E k \in T : ~(m <= k) PROVE FALSE
    OBVIOUS
  <2>1. 0 \in G
    OBVIOUS
  <2>2. ASSUME NEW k \in 0..n, k \in G, k < n PROVE k + 1 \in G
    <3>1. ASSUME NEW j \in T, j <= k + 1 PROVE FALSE
      <4>1. PICK i \in T : ~(j <= i)
        OBVIOUS
      <4>2. ~(i <= k)
        BY <2>2
      <4>3. i \in 1..n /\ j \in 1..n
        OBVIOUS
      <4> QED
        BY <3>1, <4>1, <4>2, <4>3
    <3>2. k + 1 \in 0..n
      BY <2>2
    <3> QED
      BY <3>1, <3>2
  <2>3. n \in G
    <3> HIDE DEF G
    <3>1. \A k \in 0..n : k \in G
      BY <2>1, <2>2, StepByStep
    <3> QED
      BY <3>1
  <2>4. PICK j \in T : TRUE
    OBVIOUS
  <2>5. j \in 1..n /\ ~(j <= n)
    BY <2>3
  <2> QED
    BY <2>5
<1> QED
  BY <1>1 DEF Min

LEMMA GreatestThere ==
  ASSUME NEW n \in Nat, NEW T, T \subseteq 1..n, T # {}
  PROVE  Max(T) \in T /\ \A k \in T : k <= Max(T)
<1> DEFINE U == {n + 1 - k : k \in T}
           m == Min(U)
<1>1. U \subseteq 1..n /\ U # {}
  <2>1. ASSUME NEW k \in T PROVE n + 1 - k \in 1..n
    <3>1. k \in 1..n
      OBVIOUS
    <3> QED
      BY <3>1
  <2>2. U \subseteq 1..n
    BY <2>1
  <2>3. U # {}
    OBVIOUS
  <2> QED
    BY <2>2, <2>3
<1>2. m \in U /\ \A k \in U : m <= k
  <2> HIDE DEF U
  <2> QED
    BY <1>1, LeastThere
<1> HIDE DEF m
<1>3. PICK x \in T : m = n + 1 - x
  BY <1>2
<1>4. ASSUME NEW k \in T PROVE k <= x
  <2>1. n + 1 - k \in U /\ k \in 1..n /\ x \in 1..n
    OBVIOUS
  <2>2. m <= n + 1 - k
    BY <1>2, <2>1
  <2> QED
    BY <1>3, <2>1, <2>2
<1>5. \E y \in T : \A k \in T : y >= k
  <2>1. x \in 1..n /\ \A k \in T : k \in 1..n
    OBVIOUS
  <2> QED
    BY <1>4, <2>1
<1>6. Max(T) \in T /\ \A k \in T : Max(T) >= k
  BY <1>5 DEF Max
<1>7. Max(T) \in 1..n /\ \A k \in T : k \in 1..n
  BY <1>6
<1> QED
  BY <1>6, <1>7

LEMMA TrimmedStart ==
  ASSUME NEW cell \in Seq(Characters), Trim(cell) = cell, cell # <<>>
  PROVE  cell[1] # Mark
<1> DEFINE n == Len(cell)
           T == {k \in 1..n : cell[k] \notin Blanks}
           a == Min(T)
           b == Max(T)
<1>1. n \in Nat /\ n # 0
  OBVIOUS
<1>2. T # {}
  BY DEF Trim
<1>3. cell = SubSeq(cell, a, b)
  BY <1>2 DEF Trim
<1>4. T \subseteq 1..n
  OBVIOUS
<1>5. a \in T /\ b \in T /\ a <= b
  <2> HIDE DEF T, n
  <2> QED
    BY <1>1, <1>2, <1>4, LeastThere, GreatestThere
<1>6. a \in 1..n /\ b \in 1..n /\ cell[a] \notin Blanks
  <2> HIDE DEF a, b
  <2> QED
    BY <1>5
<1> HIDE DEF a, b, T
<1>7. SubSeq(cell, a, b)[1] = cell[a]
  <2>1. \A i \in a..b : cell[i] \in Characters
    BY <1>6
  <2>2. \A i \in 1..b - a + 1 : SubSeq(cell, a, b)[i] = cell[a + i - 1]
    BY <1>6, <2>1, SubSeqProperties
  <2>3. 1 \in 1..b - a + 1 /\ a + 1 - 1 = a
    BY <1>5, <1>6
  <2> QED
    BY <2>2, <2>3
<1>8. cell[1] = cell[a]
  BY <1>3, <1>7
<1> QED
  BY <1>6, <1>8 DEF Blanks

(* A document as it is written, read from its start.                       *)
LEMMA TextRead ==
  ASSUME NEW lines \in Seq(Seq(Seq(Characters))),
         \A i \in 1..Len(lines) : lines[i] # <<>>
  PROVE  ParseRecords(FlattenSeq([i \in 1..Len(lines) |-> SerializeLine(lines[i])])) = lines
<1> DEFINE n == Len(lines)
           part(i) == SerializeLine(lines[i])
           parts == [i \in 1..n |-> part(i)]
           text == FlattenSeq(parts)
<1>1. n \in Nat /\ \A i \in 1..n : lines[i] \in Seq(Seq(Characters))
  OBVIOUS
<1>2. parts \in Seq(Seq(Characters)) /\ Len(parts) = n
  <2>1. \A i \in 1..n : part(i) \in Seq(Characters)
    BY <1>1, LineTyped
  <2> HIDE DEF part
  <2> QED
    BY <1>1, <2>1
<1>3. text \in Seq(Characters) /\ \E off : PartsAt(off, parts, text)
  <2> HIDE DEF parts
  <2> QED
    BY <1>2, FlatParts
<1>4. PICK off : PartsAt(off, parts, text)
  BY <1>3
<1> HIDE DEF text
<1>5. Len(text) \in Nat
  BY <1>3
<1>6. PICK R : /\ IsReading(R, text, Len(text))
               /\ ParseRecords(text) =
                    IF R[Len(text)].cell # <<>> \/ R[Len(text)].row # <<>>
                      THEN EndRow(R[Len(text)]).records ELSE R[Len(text)].records
  BY <1>5, ReadingExists
<1>7. /\ off \in [0..n -> Nat] /\ off[0] = 0 /\ off[n] = Len(text)
      /\ \A i \in 1..n : /\ off[i] = off[i - 1] + Len(parts[i]) /\ off[i] <= Len(text)
                         /\ \A k \in 1..Len(parts[i]) : text[off[i - 1] + k] = parts[i][k]
  BY <1>2, <1>4, Zenon DEF PartsAt
<1>8. \A i \in 1..n : parts[i] = part(i)
  OBVIOUS
<1> HIDE DEF parts
<1> DEFINE G == {k \in 0..n : R[off[k]] = Plain(SubSeq(lines, 1, k), <<>>, <<>>)}
<1>9. 0 \in G
  <2>1. 0 \in 0..n /\ 0 \in 0..Len(text) /\ SubSeq(lines, 1, 0) = <<>>
    BY <1>1, <1>5, PrefixWhole
  <2>2. R[0] = Plain(<<>>, <<>>, <<>>)
    <3>1. R[0] = StartReading
      BY <1>6, <2>1 DEF IsReading
    <3> QED
      BY <3>1 DEF StartReading, Plain
  <2>3. R[off[0]] = Plain(SubSeq(lines, 1, 0), <<>>, <<>>)
    BY <1>7, <2>1, <2>2
  <2> QED
    BY <2>1, <2>3
<1>10. ASSUME NEW k \in 0..n, k \in G, k < n PROVE k + 1 \in G
  <2> DEFINE o == off[k]
             cells == lines[k + 1]
             line == SerializeLine(cells)
             W == SubSeq(lines, 1, k)
  <2>1. k + 1 \in 1..n /\ (k + 1) - 1 = k /\ k + 1 \in 0..n
    BY <1>1, <1>10
  <2>2. cells \in Seq(Seq(Characters)) /\ cells # <<>>
    BY <1>1, <2>1
  <2>3. parts[k + 1] = line
    BY <1>8, <2>1
  <2>4. /\ off[k + 1] = o + Len(line) /\ off[k + 1] <= Len(text)
        /\ \A j \in 1..Len(line) : text[o + j] = line[j]
    <3>1. /\ off[k + 1] = off[(k + 1) - 1] + Len(parts[k + 1]) /\ off[k + 1] <= Len(text)
          /\ \A j \in 1..Len(parts[k + 1]) : text[off[(k + 1) - 1] + j] = parts[k + 1][j]
      BY <1>7, <2>1, Zenon
    <3> QED
      BY <2>1, <2>3, <3>1
  <2>5. o \in Nat
    BY <1>7
  <2>6. StandsAt(text, o, line)
    BY <2>4, <2>5 DEF StandsAt
  <2>7. R[o] = Plain(W, <<>>, <<>>)
    BY <1>10
  <2>8. Append(W, cells) = SubSeq(lines, 1, k + 1)
    BY <1>10, PrefixGrows
  <2> HIDE DEF o, cells, W
  <2>9. R[o + Len(line)] = Plain(Append(W, cells), <<>>, <<>>)
    BY <1>5, <1>6, <2>2, <2>6, <2>7, LineRead
  <2>10. R[off[k + 1]] = Plain(SubSeq(lines, 1, k + 1), <<>>, <<>>)
    BY <2>4, <2>8, <2>9
  <2> QED
    BY <2>1, <2>10
<1>11. R[Len(text)] = Plain(lines, <<>>, <<>>)
  <2>1. n \in G
    <3> HIDE DEF G, n
    <3>1. \A k \in 0..n : k \in G
      BY <1>1, <1>9, <1>10, StepByStep
    <3> QED
      BY <1>1, <3>1
  <2> QED
    BY <1>7, <2>1, PrefixWhole
<1>12. ParseRecords(text) = lines
  BY <1>6, <1>11 DEF Plain
<1> QED
  BY <1>12 DEF text, parts

(* What is written does not start with a byte-order mark.                  *)
LEMMA TextStart ==
  ASSUME NEW lines \in Seq(Seq(Seq(Characters))),
         \A i \in 1..Len(lines) : lines[i] # <<>>,
         lines # <<>>, lines[1][1] # <<>> => lines[1][1][1] # Mark
  PROVE  LET text == FlattenSeq([i \in 1..Len(lines) |-> SerializeLine(lines[i])])
         IN  Unmarked(text) = text
<1> DEFINE n == Len(lines)
           part(i) == SerializeLine(lines[i])
           parts == [i \in 1..n |-> part(i)]
           text == FlattenSeq(parts)
<1>1. n \in Nat /\ 1 \in 1..n /\ \A i \in 1..n : lines[i] \in Seq(Seq(Characters))
  OBVIOUS
<1>2. parts \in Seq(Seq(Characters)) /\ Len(parts) = n
  <2>1. \A i \in 1..n : part(i) \in Seq(Characters)
    BY <1>1, LineTyped
  <2> HIDE DEF part
  <2> QED
    BY <1>1, <2>1
<1>3. text \in Seq(Characters) /\ \E off : PartsAt(off, parts, text)
  <2> HIDE DEF parts
  <2> QED
    BY <1>2, FlatParts
<1>4. PICK off : PartsAt(off, parts, text)
  BY <1>3
<1>5. parts[1] = part(1)
  BY <1>1
<1> HIDE DEF text, parts
<1>6. /\ part(1) \in Seq(Characters) /\ part(1) # <<>>
      /\ part(1)[1] = Mark => lines[1][1] # <<>> /\ lines[1][1][1] = Mark
  BY <1>1, LineTyped
<1> HIDE DEF part
<1>7. text[1] = part(1)[1]
  <2>1. /\ off[0] = 0
        /\ \A k \in 1..Len(parts[1]) : text[off[1 - 1] + k] = parts[1][k]
    BY <1>1, <1>2, <1>4, Zenon DEF PartsAt
  <2>2. 1 \in 1..Len(parts[1])
    BY <1>5, <1>6
  <2>3. text[off[1 - 1] + 1] = parts[1][1]
    BY <2>1, <2>2, Zenon
  <2>4. off[1 - 1] + 1 = 1
    BY <2>1
  <2> QED
    BY <1>5, <2>3, <2>4
<1>8. text[1] # Mark
  BY <1>6, <1>7
<1>9. Unmarked(text) = text
  BY <1>8 DEF Unmarked
<1> QED
  BY <1>9 DEF text, parts, part

(* What a document is written as reads as that document.                   *)
LEMMA RoundTrip ==
  ASSUME NEW d \in Documents
  PROVE  ParseCsv(SerializeCsv(d)) = d
<1> DEFINE h == d.headers
           body == d.rows
           lines == Lines(d)
<1>1. /\ d = [headers |-> h, rows |-> body]
      /\ h \in Seq(Seq(Characters)) /\ body \in Seq(Seq(Seq(Characters)))
      /\ h # <<>> /\ \A k \in 1..Len(h) : Trim(h[k]) = h[k]
      /\ \A k \in 1..Len(body) : Len(body[k]) = Len(h)
  BY DocumentsAssumption
<1> HIDE DEF h, body
<1>2. /\ lines \in Seq(Seq(Seq(Characters))) /\ Len(lines) = 1 + Len(body) /\ lines[1] = h
      /\ \A k \in 1..Len(body) : lines[k + 1] = body[k]
  <2>1. <<h>> \in Seq(Seq(Seq(Characters))) /\ Len(<<h>>) = 1 /\ <<h>>[1] = h
    BY <1>1
  <2>2. lines = <<h>> \o body
    BY DEF Lines, h, body
  <2> DEFINE s == <<h>>
  <2> HIDE DEF lines, s
  <2>3. /\ s \o body \in Seq(Seq(Seq(Characters))) /\ Len(s \o body) = Len(s) + Len(body)
        /\ \A k \in 1..Len(s) : (s \o body)[k] = s[k]
        /\ \A k \in 1..Len(body) : (s \o body)[Len(s) + k] = body[k]
    <3>1. s \in Seq(Seq(Seq(Characters)))
      BY <2>1 DEF s
    <3> QED
      BY <1>1, <3>1, Joined
  <2>4. lines = s \o body /\ Len(s) = 1 /\ s[1] = h
    BY <2>1, <2>2 DEF s
  <2>5. ASSUME NEW k \in 1..Len(body) PROVE lines[k + 1] = body[k]
    <3>1. 1 + k = k + 1
      OBVIOUS
    <3> QED
      BY <2>3, <2>4, <3>1
  <2> QED
    BY <2>3, <2>4, <2>5
<1> HIDE DEF lines
<1>3. Len(body) \in Nat /\ Len(h) \in Nat /\ Len(h) # 0
  BY <1>1
<1>4. \A i \in 1..Len(lines) : lines[i] # <<>>
  <2>1. ASSUME NEW i \in 1..Len(lines) PROVE Len(lines[i]) = Len(h)
    <3>1. CASE i = 1
      BY <1>2, <3>1
    <3>2. CASE i # 1
      <4>1. i - 1 \in 1..Len(body) /\ (i - 1) + 1 = i
        BY <1>2, <1>3, <3>2
      <4>2. lines[(i - 1) + 1] = body[i - 1] /\ Len(body[i - 1]) = Len(h)
        BY <1>1, <1>2, <4>1
      <4> QED
        BY <4>1, <4>2
    <3> QED
      BY <3>1, <3>2
  <2> QED
    BY <1>3, <2>1
<1>5. lines # <<>> /\ (lines[1][1] # <<>> => lines[1][1][1] # Mark)
  <2>1. 1 \in 1..Len(h) /\ h[1] \in Seq(Characters) /\ Trim(h[1]) = h[1]
    BY <1>1, <1>3
  <2> QED
    BY <1>2, <1>3, <2>1, TrimmedStart
<1> DEFINE text == FlattenSeq([i \in 1..Len(lines) |-> SerializeLine(lines[i])])
<1>6. ParseRecords(text) = lines
  BY <1>2, <1>4, TextRead
<1>7. Unmarked(text) = text
  BY <1>2, <1>4, <1>5, TextStart
<1>8. SerializeCsv(d) = text
  BY DEF SerializeCsv, lines
<1> HIDE DEF text
<1> DEFINE names == [i \in 1..Len(lines[1]) |-> Trim(lines[1][i])]
           fit(r) == [i \in 1..Len(names) |-> IF i <= Len(r) THEN r[i] ELSE <<>>]
<1>9. names = h
  <2>1. names = [i \in 1..Len(h) |-> h[i]]
    <3>1. names = [i \in 1..Len(h) |-> Trim(h[i])]
      BY <1>2
    <3> QED
      BY <1>1, <3>1
  <2>2. h = [i \in 1..Len(h) |-> h[i]]
    BY <1>1
  <2> HIDE DEF names
  <2> QED
    BY <2>1, <2>2
<1>10. lines # <<>>
  BY <1>5
<1>11. ParseCsv(text) =
         [headers |-> names, rows |-> [i \in 1..Len(lines) - 1 |-> fit(lines[i + 1])]]
  BY <1>6, <1>7, <1>10 DEF ParseCsv
<1> HIDE DEF names
<1>12. ASSUME NEW i \in 1..Len(body) PROVE fit(lines[i + 1]) = body[i]
  <2>1. lines[i + 1] = body[i] /\ Len(body[i]) = Len(h) /\ body[i] \in Seq(Seq(Characters))
    <3>1. body[i] \in Seq(Seq(Characters))
      BY <1>1
    <3> QED
      BY <1>1, <1>2, <3>1
  <2>2. fit(body[i]) = [k \in 1..Len(body[i]) |-> body[i][k]]
    BY <1>9, <2>1
  <2>3. body[i] = [k \in 1..Len(body[i]) |-> body[i][k]]
    BY <2>1
  <2> QED
    BY <2>1, <2>2, <2>3
<1>13. [i \in 1..Len(lines) - 1 |-> fit(lines[i + 1])] = body
  <2>1. Len(lines) - 1 = Len(body)
    BY <1>2, <1>3
  <2>2. body = [i \in 1..Len(body) |-> body[i]]
    BY <1>1
  <2> DEFINE g(i) == fit(lines[i + 1])
  <2>3. \A i \in 1..Len(body) : g(i) = body[i]
    BY <1>12
  <2> HIDE DEF g
  <2>4. [i \in 1..Len(body) |-> g(i)] = body
    BY <2>2, <2>3
  <2> QED
    BY <2>1, <2>4 DEF g
<1> QED
  BY <1>1, <1>8, <1>9, <1>11, <1>13

(* A document written as a file reads as the same document.                *)
THEOREM FilesReadBack == SettingsSpec => []CsvRoundTrips
<1> DEFINE Kept == corner = "file" => document \in Documents
<1>1. SettingsInit => Kept
  BY Zenon DEF SettingsInit
<1>2. Kept /\ [SettingsNext]_settingsVars => Kept'
  BY DEF SettingsNext, settingsVars
<1>3. Kept => CsvRoundTrips
  BY RoundTrip DEF CsvRoundTrips
<1> QED
  BY <1>1, <1>2, <1>3, PTL DEF SettingsSpec

-----------------------------------------------------------------------------
(* The walk                                                                *)
Bindings == [system : Systems, ways : SUBSET {"live", "upload"}]

(* What the catalogue says of a binding of its own.                        *)
Known(b) ==
  /\ b \in Bindings
  /\ b.system = "axios_headquarters" => b.ways \subseteq {"upload"}

Whats ==
  {"howto", "connect", "mapping-clean", "howto-live", "live-creds", "mapping", "howto-upload",
   "upload", "cadence", "confirm"}
Steps == (Systems \cup {NoSystem}) \X Whats

Named(b, whats) == [i \in 1..Len(whats) |-> StepOf(b.system, whats[i])]

LiveWhats(b) ==
  IF ~AllowsLive(b) THEN <<>>
  ELSE IF MapsAfterLive(b) THEN <<"howto-live", "live-creds", "mapping">>
  ELSE <<"howto-live", "live-creds">>

UploadWhats(b) ==
  IF b.system \in UploadAdvertised /\ AllowsUpload(b) THEN <<"howto-upload", "upload">> ELSE <<>>

SheetWhats ==
  IF clean # "FALSE" THEN <<"howto", "connect", "mapping-clean">> ELSE <<"howto", "connect">>

LEMMA OneMore ==
  ASSUME NEW x, NEW y, NEW z
  PROVE  <<x, y>> \o <<z>> = <<x, y, z>> /\ <<x, y>> \o <<>> = <<x, y>>
<1> DEFINE s == <<x, y>> \o <<z>>
           S == {x, y, z}
<1>1. <<x, y>> \in Seq(S) /\ <<z>> \in Seq(S)
  OBVIOUS
<1>2. /\ Len(s) = 3 /\ s \in Seq(S)
      /\ \A k \in 1..2 : s[k] = <<x, y>>[k]
      /\ s[3] = z
  <2> DEFINE u == <<x, y>>
             v == <<z>>
  <2>1. u \in Seq(S) /\ v \in Seq(S) /\ Len(u) = 2 /\ Len(v) = 1 /\ v[1] = z
    BY <1>1
  <2> HIDE DEF u, v, S
  <2>2. /\ u \o v \in Seq(S) /\ Len(u \o v) = 3
        /\ \A k \in 1..2 : (u \o v)[k] = u[k]
        /\ \A k \in 1..Len(v) : (u \o v)[Len(u) + k] = v[k]
    BY <2>1, Joined
  <2>3. (u \o v)[Len(u) + 1] = v[1] /\ Len(u) + 1 = 3
    BY <2>1, <2>2
  <2> QED
    BY <2>1, <2>2, <2>3 DEF u, v
<1> HIDE DEF s
<1>3. s = <<x, y, z>>
  BY <1>2
<1> QED
  BY <1>1, <1>3, ConcatEmptySeq DEF s

LEMMA StepsOfSheet ==
  ASSUME NEW b, b.system \in SheetsOwner
  PROVE  SystemSteps(b) = Named(b, SheetWhats)
<1>1. <<"howto", "connect">> \o <<"mapping-clean">> = <<"howto", "connect", "mapping-clean">>
  BY OneMore
<1>2. <<"howto", "connect">> \o <<>> = <<"howto", "connect">>
  BY OneMore
<1>3. (<<"howto", "connect">> \o (IF clean # "FALSE" THEN <<"mapping-clean">> ELSE <<>>)) = SheetWhats
  BY <1>1, <1>2 DEF SheetWhats
<1>4. SystemSteps(b) =
        Named(b, <<"howto", "connect">> \o (IF clean # "FALSE" THEN <<"mapping-clean">> ELSE <<>>))
  BY Zenon DEF SystemSteps, Named
<1> QED
  BY <1>3, <1>4

LEMMA StepsOfOther ==
  ASSUME NEW b, b.system \notin SheetsOwner
  PROVE  SystemSteps(b) = Named(b, LiveWhats(b) \o UploadWhats(b))
<1>1. <<"howto-live", "live-creds">> \o <<"mapping">> = <<"howto-live", "live-creds", "mapping">>
  BY OneMore
<1>2. <<"howto-live", "live-creds">> \o <<>> = <<"howto-live", "live-creds">>
  BY OneMore
<1>3. (IF AllowsLive(b) THEN <<"howto-live", "live-creds">>
                              \o (IF MapsAfterLive(b) THEN <<"mapping">> ELSE <<>>)
                       ELSE <<>>) = LiveWhats(b)
  BY <1>1, <1>2 DEF LiveWhats
<1>4. SystemSteps(b) =
        Named(b, (IF AllowsLive(b) THEN <<"howto-live", "live-creds">>
                              \o (IF MapsAfterLive(b) THEN <<"mapping">> ELSE <<>>)
                       ELSE <<>>) \o UploadWhats(b))
  BY Zenon DEF SystemSteps, Named, UploadWhats
<1> QED
  BY <1>3, <1>4

(* The steps of a system that is not a sheet: live ones, then the upload.  *)
LEMMA OtherWhats ==
  ASSUME NEW b
  PROVE  LET whats == LiveWhats(b) \o UploadWhats(b)
             n     == Len(LiveWhats(b))
         IN
         /\ whats \in Seq(Whats) /\ n \in {0, 2, 3} /\ Len(whats) = n + Len(UploadWhats(b))
         /\ Len(UploadWhats(b)) \in {0, 2}
         /\ AllowsLive(b) <=> n # 0
         /\ n # 0 => whats[1] = "howto-live" /\ whats[2] = "live-creds"
         /\ n = 3 <=> MapsAfterLive(b)
         /\ n = 3 => whats[3] = "mapping"
         /\ b.system \in UploadAdvertised /\ AllowsUpload(b) <=> Len(UploadWhats(b)) # 0
         /\ Len(UploadWhats(b)) # 0 => whats[n + 1] = "howto-upload" /\ whats[n + 2] = "upload"
<1> DEFINE L == LiveWhats(b)
           U == UploadWhats(b)
<1>1. /\ L \in Seq(Whats) /\ Len(L) \in {0, 2, 3}
      /\ AllowsLive(b) <=> Len(L) # 0
      /\ Len(L) # 0 => L[1] = "howto-live" /\ L[2] = "live-creds"
      /\ Len(L) = 3 <=> MapsAfterLive(b)
      /\ Len(L) = 3 => L[3] = "mapping"
  <2>1. MapsAfterLive(b) => AllowsLive(b)
    BY DEF MapsAfterLive
  <2>2. CASE ~AllowsLive(b)
    BY <2>1, <2>2 DEF LiveWhats
  <2>3. CASE AllowsLive(b) /\ MapsAfterLive(b)
    BY <2>3 DEF LiveWhats, Whats
  <2>4. CASE AllowsLive(b) /\ ~MapsAfterLive(b)
    BY <2>4 DEF LiveWhats, Whats
  <2> QED
    BY <2>2, <2>3, <2>4
<1>2. /\ U \in Seq(Whats) /\ Len(U) \in {0, 2}
      /\ b.system \in UploadAdvertised /\ AllowsUpload(b) <=> Len(U) # 0
      /\ Len(U) # 0 => U[1] = "howto-upload" /\ U[2] = "upload"
  <2>1. CASE b.system \in UploadAdvertised /\ AllowsUpload(b)
    BY <2>1 DEF UploadWhats, Whats
  <2>2. CASE ~(b.system \in UploadAdvertised /\ AllowsUpload(b))
    <3>1. U = <<>>
      BY <2>2 DEF UploadWhats
    <3> QED
      BY <2>2, <3>1
  <2> QED
    BY <2>1, <2>2
<1> HIDE DEF L, U
<1>3. /\ L \o U \in Seq(Whats) /\ Len(L \o U) = Len(L) + Len(U)
      /\ \A k \in 1..Len(L) : (L \o U)[k] = L[k]
      /\ \A k \in 1..Len(U) : (L \o U)[Len(L) + k] = U[k]
  BY <1>1, <1>2, Joined
<1>4. /\ Len(L) # 0 => (L \o U)[1] = L[1] /\ (L \o U)[2] = L[2]
      /\ Len(L) = 3 => (L \o U)[3] = L[3]
  BY <1>1, <1>3
<1>5. Len(U) # 0 => (L \o U)[Len(L) + 1] = U[1] /\ (L \o U)[Len(L) + 2] = U[2]
  BY <1>2, <1>3
<1> QED
  BY <1>1, <1>2, <1>3, <1>4, <1>5 DEF L, U

(* The steps of one system.                                                *)
LEMMA SystemStepsAre ==
  ASSUME NEW b, Known(b), b.system # HiddenSystem
  PROVE  /\ SystemSteps(b) \in Seq(Steps)
         /\ \A i \in 1..Len(SystemSteps(b)) :
              LET s == SystemSteps(b)[i] IN
              /\ s = StepOf(b.system, s[2]) /\ s[1] = b.system
              /\ s[2] \notin {"cadence", "confirm"}
              /\ s[2] \in {"howto", "howto-live", "howto-upload"} => s[2] \in Copies(b.system)
              /\ s[2] = "mapping" => MapsAfterLive(b)
<1>1. b.system \in Systems /\ b.ways \subseteq {"live", "upload"}
  BY DEF Known, Bindings
<1>2. ASSUME NEW whats \in Seq(Whats),
             \A i \in 1..Len(whats) :
               /\ whats[i] \notin {"cadence", "confirm"}
               /\ whats[i] \in {"howto", "howto-live", "howto-upload"} => whats[i] \in Copies(b.system)
               /\ whats[i] = "mapping" => MapsAfterLive(b),
             SystemSteps(b) = Named(b, whats)
      PROVE  /\ SystemSteps(b) \in Seq(Steps)
             /\ \A i \in 1..Len(SystemSteps(b)) :
                  LET s == SystemSteps(b)[i] IN
                  /\ s = StepOf(b.system, s[2]) /\ s[1] = b.system
                  /\ s[2] \notin {"cadence", "confirm"}
                  /\ s[2] \in {"howto", "howto-live", "howto-upload"} => s[2] \in Copies(b.system)
                  /\ s[2] = "mapping" => MapsAfterLive(b)
  <2>1. Len(whats) \in Nat /\ \A i \in 1..Len(whats) : whats[i] \in Whats
    OBVIOUS
  <2>2. ASSUME NEW i \in 1..Len(whats) PROVE StepOf(b.system, whats[i]) \in Steps
    <3>1. b.system \in Systems \cup {NoSystem}
      BY <1>1
    <3> QED
      BY <2>1, <3>1 DEF StepOf, Steps
  <2>3. Named(b, whats) \in Seq(Steps) /\ Len(Named(b, whats)) = Len(whats)
    BY <2>1, <2>2 DEF Named
  <2>4. ASSUME NEW i \in 1..Len(whats)
        PROVE  Named(b, whats)[i] = StepOf(b.system, whats[i])
    BY DEF Named
  <2> QED
    BY <1>2, <2>3, <2>4 DEF StepOf
<1>3. CASE b.system \in SheetsOwner
  <2>1. SheetWhats \in Seq(Whats) /\
        \A i \in 1..Len(SheetWhats) : SheetWhats[i] \in {"howto", "connect", "mapping-clean"}
    <3>1. CASE clean # "FALSE"
      BY <3>1 DEF SheetWhats, Whats
    <3>2. CASE clean = "FALSE"
      BY <3>2 DEF SheetWhats, Whats
    <3> QED
      BY <3>1, <3>2
  <2>2. {"howto", "oauth", "howto-upload"} = Copies(b.system)
    BY <1>3 DEF Copies, SheetsOwner, LivePingOnly
  <2>3. SystemSteps(b) = Named(b, SheetWhats)
    BY <1>3, StepsOfSheet
  <2> QED
    BY <1>2, <2>1, <2>2, <2>3
<1>4. CASE b.system \notin SheetsOwner
  <2> DEFINE whats == LiveWhats(b) \o UploadWhats(b)
  <2>1. SystemSteps(b) = Named(b, whats)
    BY <1>4, StepsOfOther
  <2> DEFINE n == Len(LiveWhats(b))
             u == Len(UploadWhats(b))
  <2>2. /\ whats \in Seq(Whats) /\ n \in {0, 2, 3} /\ Len(whats) = n + u /\ u \in {0, 2}
        /\ AllowsLive(b) <=> n # 0
        /\ n # 0 => whats[1] = "howto-live" /\ whats[2] = "live-creds"
        /\ n = 3 <=> MapsAfterLive(b)
        /\ n = 3 => whats[3] = "mapping"
        /\ b.system \in UploadAdvertised /\ AllowsUpload(b) <=> u # 0
        /\ u # 0 => whats[n + 1] = "howto-upload" /\ whats[n + 2] = "upload"
    BY OtherWhats
  <2> HIDE DEF whats, n, u
  <2>3. ASSUME NEW i \in 1..Len(whats)
        PROVE  /\ whats[i] \in {"howto-live", "live-creds", "mapping", "howto-upload", "upload"}
               /\ whats[i] = "howto-live" => AllowsLive(b)
               /\ whats[i] = "howto-upload" => b.system \in UploadAdvertised
               /\ whats[i] = "mapping" => MapsAfterLive(b)
    <3>1. CASE i <= n
      <4>1. n # 0 /\ (i = 1 \/ i = 2 \/ (i = 3 /\ n = 3))
        BY <2>2, <3>1
      <4>2. whats[i] \in {"howto-live", "live-creds"} \/ (whats[i] = "mapping" /\ n = 3)
        BY <2>2, <4>1
      <4> QED
        BY <2>2, <4>1, <4>2
    <3>2. CASE i > n
      <4>1. u # 0 /\ (i = n + 1 \/ i = n + 2)
        BY <2>2, <3>2
      <4>2. whats[i] \in {"howto-upload", "upload"}
        BY <2>2, <4>1
      <4> QED
        BY <2>2, <4>1, <4>2
    <3> QED
      BY <2>2, <3>1, <3>2
  <2>4. AllowsLive(b) => b.system \in LivePingOnly \cup {"auth0", HiddenSystem}
    BY <1>1, <1>4 DEF Known, AllowsLive, Systems
  <2>5. AllowsLive(b) => "howto-live" \in Copies(b.system) \/ b.system = HiddenSystem
    BY <2>4 DEF Copies, SheetsOwner, LivePingOnly
  <2>6. b.system \in UploadAdvertised => "howto-upload" \in Copies(b.system)
    BY <1>4 DEF Copies, SheetsOwner, LivePingOnly, UploadAdvertised
  <2> QED
    BY <1>2, <2>1, <2>2, <2>3, <2>5, <2>6
<1> QED
  BY <1>3, <1>4

(* What a test at the step of a system offers follows it among the steps   *)
(* of that system.                                                         *)
Offered(b) == {FollowOn(b), ManualUpload(b, TRUE), ManualUpload(b, FALSE)} \ {<<>>}

LEMMA OfferedFollow ==
  ASSUME NEW b, b.system # HiddenSystem, b.system \notin SheetsOwner,
         NEW p \in 1..Len(SystemSteps(b)), SystemSteps(b)[p][2] = "live-creds",
         NEW s \in Offered(b)
  PROVE  \E q \in p + 1..Len(SystemSteps(b)) : SystemSteps(b)[q] = s[1]
<1> DEFINE whats == LiveWhats(b) \o UploadWhats(b)
           n == Len(LiveWhats(b))
           u == Len(UploadWhats(b))
<1>1. SystemSteps(b) = Named(b, whats)
  BY StepsOfOther
<1>2. /\ whats \in Seq(Whats) /\ n \in {0, 2, 3} /\ Len(whats) = n + u /\ u \in {0, 2}
      /\ n # 0 => whats[1] = "howto-live" /\ whats[2] = "live-creds"
      /\ n = 3 <=> MapsAfterLive(b)
      /\ n = 3 => whats[3] = "mapping"
      /\ b.system \in UploadAdvertised /\ AllowsUpload(b) <=> u # 0
      /\ u # 0 => whats[n + 1] = "howto-upload" /\ whats[n + 2] = "upload"
  BY OtherWhats
<1> HIDE DEF whats, n, u
<1>3. Len(SystemSteps(b)) = Len(whats) /\ Len(whats) \in Nat
      /\ \A q \in 1..Len(whats) : SystemSteps(b)[q] = StepOf(b.system, whats[q])
  BY <1>1, <1>2 DEF Named
<1>4. p \in 1..Len(whats) /\ whats[p] = "live-creds"
  BY <1>3 DEF StepOf
<1>5. p = 2 /\ n # 0
  <2>1. CASE p <= n
    BY <1>2, <1>4, <2>1
  <2>2. CASE p > n
    <3>1. u # 0 /\ (p = n + 1 \/ p = n + 2)
      BY <1>2, <1>4, <2>2
    <3> QED
      BY <1>2, <1>4, <3>1
  <2> QED
    BY <1>2, <1>4, <2>1, <2>2
<1>6. \/ s = <<StepOf(b.system, "mapping")>> /\ n = 3
      \/ s = <<StepOf(b.system, "howto-upload")>> /\ u # 0
  <2>1. s # <<>> /\ s \in {FollowOn(b), ManualUpload(b, TRUE), ManualUpload(b, FALSE)}
    BY DEF Offered
  <2>2. OffersUpload(b) => u # 0
    BY <1>2 DEF OffersUpload
  <2> DEFINE maps == <<StepOf(b.system, "mapping")>>
             uploads == <<StepOf(b.system, "howto-upload")>>
  <2>3. FollowOn(b) \in {<<>>} \/ (FollowOn(b) = maps /\ n = 3) \/ (FollowOn(b) = uploads /\ u # 0)
    <3> HIDE DEF maps, uploads
    <3> QED
      BY <1>2, <2>2 DEF FollowOn, maps, uploads
  <2>4. ASSUME NEW passed \in BOOLEAN
        PROVE  ManualUpload(b, passed) = <<>> \/ (ManualUpload(b, passed) = uploads /\ u # 0)
    BY <2>2 DEF ManualUpload
  <2>5. /\ ManualUpload(b, TRUE) = <<>> \/ (ManualUpload(b, TRUE) = uploads /\ u # 0)
        /\ ManualUpload(b, FALSE) = <<>> \/ (ManualUpload(b, FALSE) = uploads /\ u # 0)
    BY <2>4
  <2> HIDE DEF maps, uploads
  <2>6. (s = maps /\ n = 3) \/ (s = uploads /\ u # 0)
    BY <2>1, <2>3, <2>5
  <2> QED
    BY <2>6, Zenon DEF maps, uploads
<1>7. CASE s = <<StepOf(b.system, "mapping")>> /\ n = 3
  <2>1. 3 \in p + 1..Len(whats) /\ 3 \in 1..Len(whats)
    BY <1>2, <1>5, <1>7
  <2>2. SystemSteps(b)[3] = s[1]
    BY <1>2, <1>3, <1>7, <2>1
  <2> QED
    BY <1>3, <2>1, <2>2
<1>8. CASE s = <<StepOf(b.system, "howto-upload")>> /\ u # 0
  <2>1. n + 1 \in p + 1..Len(whats) /\ n + 1 \in 1..Len(whats)
    BY <1>2, <1>5, <1>8
  <2>2. SystemSteps(b)[n + 1] = s[1]
    BY <1>2, <1>3, <1>8, <2>1
  <2> QED
    BY <1>3, <2>1, <2>2
<1> QED
  BY <1>6, <1>7, <1>8

(* No sheet has a step at which a connection is tested.                    *)
LEMMA SheetsAreNotTested ==
  ASSUME NEW b, b.system \in SheetsOwner, NEW p \in 1..Len(SystemSteps(b))
  PROVE  SystemSteps(b)[p][2] # "live-creds" /\ SystemSteps(b)[p][2] # "mapping"
<1>1. SystemSteps(b) = Named(b, SheetWhats)
  BY StepsOfSheet
<1>2. Len(SheetWhats) \in Nat
      /\ \A i \in 1..Len(SheetWhats) : SheetWhats[i] \in {"howto", "connect", "mapping-clean"}
  <2>1. CASE clean # "FALSE"
    BY <2>1 DEF SheetWhats
  <2>2. CASE clean = "FALSE"
    BY <2>2 DEF SheetWhats
  <2> QED
    BY <2>1, <2>2
<1> HIDE DEF SheetWhats
<1>3. p \in 1..Len(SheetWhats) /\ SystemSteps(b)[p] = StepOf(b.system, SheetWhats[p])
  BY <1>1, <1>2 DEF Named
<1> QED
  BY <1>2, <1>3 DEF StepOf

(* A place in sequences put together is a place in one of them.            *)
Counted(seqs, all) ==
  /\ Len(seqs) \in Nat /\ Len(all) \in Nat
  /\ \A i \in 1..Len(seqs) : Len(seqs[i]) \in Nat

HasPlace(x, off, seqs, all) ==
  \E i \in 1..Len(seqs) : \E p \in 1..Len(seqs[i]) :
    x = off[i - 1] + p /\ all[x] = seqs[i][p]

LEMMA PlaceInPart ==
  ASSUME NEW seqs, NEW all, NEW off, Counted(seqs, all), PartsAt(off, seqs, all),
         NEW x \in 1..Len(all)
  PROVE  HasPlace(x, off, seqs, all)
<1>0. /\ Len(seqs) \in Nat /\ Len(all) \in Nat
      /\ \A i \in 1..Len(seqs) : Len(seqs[i]) \in Nat
  BY DEF Counted
<1> DEFINE n == Len(seqs)
           T == {i \in 1..n : x <= off[i]}
           i == Min(T)
<1>1. /\ off \in [0..n -> Nat] /\ off[0] = 0 /\ off[n] = Len(all)
      /\ \A k \in 1..n : /\ off[k] = off[k - 1] + Len(seqs[k])
                         /\ \A j \in 1..Len(seqs[k]) : all[off[k - 1] + j] = seqs[k][j]
  BY Zenon DEF PartsAt
<1>2. n \in T
  BY <1>0, <1>1
<1>3. i \in T /\ \A k \in T : i <= k
  <2>1. T \subseteq 1..n /\ T # {}
    BY <1>2
  <2> HIDE DEF T, n
  <2>2. n \in Nat
    BY <1>0 DEF n
  <2> QED
    BY <2>1, <2>2, LeastThere
<1> HIDE DEF i
<1>4. i \in 1..n /\ x <= off[i] /\ i - 1 \in 0..n
  BY <1>0, <1>3
<1>5. off[i - 1] < x /\ off[i - 1] \in Nat
  <2>1. off[i - 1] \in Nat
    BY <1>1, <1>4
  <2>2. CASE i = 1
    BY <1>1, <2>2
  <2>3. CASE i # 1
    <3>1. i - 1 \in 1..n /\ i - 1 \notin T
      BY <1>3, <1>4, <2>3
    <3>2. ~(x <= off[i - 1])
      BY <3>1
    <3> QED
      BY <2>1, <3>2
  <2> QED
    BY <2>1, <2>2, <2>3
<1> HIDE DEF T, n
<1>6. off[i] = off[i - 1] + Len(seqs[i]) /\ Len(seqs[i]) \in Nat
  BY <1>0, <1>1, <1>4 DEF n
<1> DEFINE p == x - off[i - 1]
<1>7. p \in 1..Len(seqs[i]) /\ x = off[i - 1] + p
  BY <1>4, <1>5, <1>6
<1>8. all[x] = seqs[i][p]
  <2> HIDE DEF p
  <2> QED
    BY <1>1, <1>4, <1>7
<1> HIDE DEF p
<1> QED
  BY <1>4, <1>7, <1>8 DEF n, HasPlace

(* The walk: where its steps come from.                                    *)
StepsOf(b) == IF InWalk(b) THEN SystemSteps(b) ELSE <<>>
PartsHere  == [i \in 1..Len(Bound[walked]) |-> StepsOf(Bound[walked][i])]
Body       == FlattenSeq(PartsHere)

LEMMA KnownHere ==
  ASSUME walked \in DOMAIN Bound
  PROVE  /\ Len(Bound[walked]) \in Nat
         /\ \A i \in 1..Len(Bound[walked]) : Known(Bound[walked][i])
         /\ \A i, k \in 1..Len(Bound[walked]) :
              Bound[walked][i].system = Bound[walked][k].system => i = k
<1>1. /\ Bound[walked] \in Seq([system : Systems, ways : SUBSET {"live", "upload"}])
      /\ \A i, k \in 1..Len(Bound[walked]) :
           Bound[walked][i].system = Bound[walked][k].system => i = k
      /\ \A i \in 1..Len(Bound[walked]) :
           Bound[walked][i].system = "axios_headquarters" => Bound[walked][i].ways \subseteq {"upload"}
  BY BoundAssumption
<1>2. Bound[walked] \in Seq(Bindings)
  BY <1>1 DEF Bindings
<1>3. ASSUME NEW i \in 1..Len(Bound[walked]) PROVE Known(Bound[walked][i])
  <2>1. Bound[walked][i] \in Bindings
    BY <1>2
  <2> QED
    BY <1>1, <2>1 DEF Known
<1> QED
  BY <1>1, <1>2, <1>3

LEMMA PartsTyped ==
  ASSUME walked \in DOMAIN Bound
  PROVE  /\ PartsHere \in Seq(Seq(Steps)) /\ Len(PartsHere) = Len(Bound[walked])
         /\ Len(PartsHere) \in Nat
         /\ \A i \in 1..Len(PartsHere) :
              PartsHere[i] = StepsOf(Bound[walked][i]) /\ Len(PartsHere[i]) \in Nat
<1>1. Len(Bound[walked]) \in Nat /\ \A i \in 1..Len(Bound[walked]) : Known(Bound[walked][i])
  BY KnownHere
<1>2. ASSUME NEW b, Known(b) PROVE StepsOf(b) \in Seq(Steps)
  <2>1. CASE InWalk(b)
    <3>1. b.system # HiddenSystem
      BY <2>1 DEF InWalk
    <3>2. SystemSteps(b) \in Seq(Steps)
      BY <1>2, <3>1, SystemStepsAre
    <3> QED
      BY <2>1, <3>2 DEF StepsOf
  <2>2. CASE ~InWalk(b)
    BY <2>2 DEF StepsOf
  <2> QED
    BY <2>1, <2>2
<1>3. \A i \in 1..Len(Bound[walked]) : StepsOf(Bound[walked][i]) \in Seq(Steps)
  BY <1>1, <1>2
<1>4. \A i \in 1..Len(Bound[walked]) : Len(StepsOf(Bound[walked][i])) \in Nat
  BY <1>3
<1> QED
  BY <1>1, <1>3, <1>4 DEF PartsHere

(* The walk is the steps of its systems, then two of no system.            *)
LEMMA WalkIs ==
  ASSUME walked \in DOMAIN Bound
  PROVE  /\ Body \in Seq(Steps) /\ Len(Body) \in Nat /\ Len(WalkSteps) = Len(Body) + 2
         /\ \A k \in 1..Len(Body) : WalkSteps[k] = Body[k]
         /\ WalkSteps[Len(Body) + 1] = StepOf(NoSystem, "cadence")
         /\ WalkSteps[Len(Body) + 2] = StepOf(NoSystem, "confirm")
         /\ \E off : PartsAt(off, PartsHere, Body)
<1> DEFINE tail == <<StepOf(NoSystem, "cadence"), StepOf(NoSystem, "confirm")>>
<1>1. Body \in Seq(Steps) /\ \E off : PartsAt(off, PartsHere, Body)
  BY PartsTyped, FlatParts DEF Body
<1>2. WalkSteps = Body \o tail
  BY DEF WalkSteps, Body, PartsHere, StepsOf
<1>3. /\ tail \in Seq(Steps) /\ Len(tail) = 2
      /\ tail[1] = StepOf(NoSystem, "cadence") /\ tail[2] = StepOf(NoSystem, "confirm")
  <2>1. ASSUME NEW what \in Whats PROVE StepOf(NoSystem, what) \in Steps
    BY DEF StepOf, Steps
  <2>2. "cadence" \in Whats /\ "confirm" \in Whats
    BY DEF Whats
  <2>3. StepOf(NoSystem, "cadence") \in Steps /\ StepOf(NoSystem, "confirm") \in Steps
    BY <2>1, <2>2
  <2> QED
    BY <2>3
<1> HIDE DEF tail
<1>4. /\ Len(Body \o tail) = Len(Body) + 2
      /\ \A k \in 1..Len(Body) : (Body \o tail)[k] = Body[k]
      /\ \A k \in 1..Len(tail) : (Body \o tail)[Len(Body) + k] = tail[k]
  BY <1>1, <1>3, Joined
<1>5. (Body \o tail)[Len(Body) + 1] = tail[1] /\ (Body \o tail)[Len(Body) + 2] = tail[2]
  BY <1>3, <1>4
<1> QED
  BY <1>1, <1>2, <1>3, <1>4, <1>5

(* A step of a system is one of the steps of one binding.                  *)
LEMMA StepOfBinding ==
  ASSUME walked \in DOMAIN Bound, NEW off, PartsAt(off, PartsHere, Body),
         NEW x \in 1..Len(WalkSteps), WalkSteps[x][2] \notin {"cadence", "confirm"}
  PROVE  x \in 1..Len(Body) /\
         \E i \in 1..Len(Bound[walked]) :
           LET b == Bound[walked][i] IN
           /\ Known(b) /\ InWalk(b) /\ b.system # HiddenSystem
           /\ \E p \in 1..Len(SystemSteps(b)) :
                x = off[i - 1] + p /\ WalkSteps[x] = SystemSteps(b)[p]
<1>1. /\ Len(Body) \in Nat /\ Len(WalkSteps) = Len(Body) + 2
      /\ \A k \in 1..Len(Body) : WalkSteps[k] = Body[k]
      /\ WalkSteps[Len(Body) + 1] = StepOf(NoSystem, "cadence")
      /\ WalkSteps[Len(Body) + 2] = StepOf(NoSystem, "confirm")
  BY WalkIs
<1>2. x \in 1..Len(Body)
  <2>1. StepOf(NoSystem, "cadence")[2] = "cadence" /\ StepOf(NoSystem, "confirm")[2] = "confirm"
    BY DEF StepOf
  <2>2. x # Len(Body) + 1 /\ x # Len(Body) + 2
    BY <1>1, <2>1
  <2> QED
    BY <1>1, <2>2
<1>3. PICK i \in 1..Len(PartsHere) : \E p \in 1..Len(PartsHere[i]) :
        x = off[i - 1] + p /\ Body[x] = PartsHere[i][p]
  <2>1. Counted(PartsHere, Body)
    BY <1>1, PartsTyped DEF Counted
  <2>2. HasPlace(x, off, PartsHere, Body)
    BY <1>2, <2>1, PlaceInPart
  <2> QED
    BY <2>2 DEF HasPlace
<1>4. PICK p \in 1..Len(PartsHere[i]) : x = off[i - 1] + p /\ Body[x] = PartsHere[i][p]
  BY <1>3
<1> DEFINE b == Bound[walked][i]
<1>5. i \in 1..Len(Bound[walked]) /\ PartsHere[i] = StepsOf(b) /\ Known(b)
  BY PartsTyped, KnownHere
<1>6. InWalk(b)
  <2>1. CASE ~InWalk(b)
    <3>1. Len(PartsHere[i]) = 0
      BY <1>5, <2>1 DEF StepsOf
    <3> QED
      BY <1>4, <3>1
  <2> QED
    BY <2>1
<1>7. PartsHere[i] = SystemSteps(b) /\ b.system # HiddenSystem
  BY <1>5, <1>6 DEF StepsOf, InWalk
<1>8. WalkSteps[x] = SystemSteps(b)[p] /\ x = off[i - 1] + p /\ p \in 1..Len(SystemSteps(b))
  <2>1. WalkSteps[x] = Body[x]
    BY <1>1, <1>2
  <2> QED
    BY <1>4, <1>7, <2>1
<1> QED
  BY <1>2, <1>5, <1>6, <1>7, <1>8

(* The other way round: a step of a binding stands in the walk.            *)
LEMMA StepInWalk ==
  ASSUME walked \in DOMAIN Bound, NEW off, PartsAt(off, PartsHere, Body),
         NEW i \in 1..Len(Bound[walked]), InWalk(Bound[walked][i]),
         NEW q \in 1..Len(SystemSteps(Bound[walked][i]))
  PROVE  /\ off[i - 1] + q \in 1..Len(Body)
         /\ WalkSteps[off[i - 1] + q] = SystemSteps(Bound[walked][i])[q]
<1> DEFINE b == Bound[walked][i]
<1>1. Len(Body) \in Nat /\ \A k \in 1..Len(Body) : WalkSteps[k] = Body[k]
  BY WalkIs
<1>2. i \in 1..Len(PartsHere) /\ PartsHere[i] = SystemSteps(b) /\ Len(PartsHere[i]) \in Nat
      /\ Len(PartsHere) \in Nat
  BY PartsTyped DEF StepsOf
<1>3. /\ off \in [0..Len(PartsHere) -> Nat]
      /\ off[i] = off[i - 1] + Len(PartsHere[i]) /\ off[i] <= Len(Body)
      /\ \A k \in 1..Len(PartsHere[i]) : Body[off[i - 1] + k] = PartsHere[i][k]
  BY <1>2, Zenon DEF PartsAt
<1>4. off[i - 1] \in Nat
  <2>1. i - 1 \in 0..Len(PartsHere)
    BY <1>2
  <2> QED
    BY <1>3, <2>1
<1> HIDE DEF b
<1>5. q \in 1..Len(PartsHere[i])
  BY <1>2 DEF b
<1>6. off[i - 1] + q \in 1..Len(Body)
  BY <1>1, <1>2, <1>3, <1>4, <1>5
<1>7. WalkSteps[off[i - 1] + q] = PartsHere[i][q]
  BY <1>1, <1>3, <1>5, <1>6
<1> QED
  BY <1>2, <1>6, <1>7 DEF b

(* What a step of the walk leads to.                                       *)
WalkInv == walked \in DOMAIN Bound /\ stepNo \in 1..Len(WalkSteps)

(* At the step of a system the owner is at a place of its binding.         *)
LEMMA HereIsBinding ==
  ASSUME WalkInv, NEW off, PartsAt(off, PartsHere, Body), StepHere[2] \notin {"cadence", "confirm"}
  PROVE  /\ stepNo \in 1..Len(Body)
         /\ \E i \in 1..Len(Bound[walked]) :
              LET b == Bound[walked][i] IN
              /\ BoundHere = b /\ Known(b) /\ InWalk(b) /\ b.system # HiddenSystem
              /\ \E p \in 1..Len(SystemSteps(b)) :
                   stepNo = off[i - 1] + p /\ StepHere = SystemSteps(b)[p]
<1>1. walked \in DOMAIN Bound /\ stepNo \in 1..Len(WalkSteps) /\ StepHere = WalkSteps[stepNo]
  BY DEF WalkInv, StepHere
<1>2. stepNo \in 1..Len(Body) /\
      \E i \in 1..Len(Bound[walked]) :
        LET b == Bound[walked][i] IN
        /\ Known(b) /\ InWalk(b) /\ b.system # HiddenSystem
        /\ \E p \in 1..Len(SystemSteps(b)) :
             stepNo = off[i - 1] + p /\ WalkSteps[stepNo] = SystemSteps(b)[p]
  <2>1. WalkSteps[stepNo][2] \notin {"cadence", "confirm"}
    BY <1>1
  <2> QED
    BY <1>1, <2>1, StepOfBinding
<1>3. PICK i \in 1..Len(Bound[walked]) :
        /\ Known(Bound[walked][i]) /\ InWalk(Bound[walked][i])
        /\ Bound[walked][i].system # HiddenSystem
        /\ \E p \in 1..Len(SystemSteps(Bound[walked][i])) :
             stepNo = off[i - 1] + p /\ WalkSteps[stepNo] = SystemSteps(Bound[walked][i])[p]
  BY <1>2
<1> DEFINE b == Bound[walked][i]
<1>4. PICK p \in 1..Len(SystemSteps(b)) :
        stepNo = off[i - 1] + p /\ WalkSteps[stepNo] = SystemSteps(b)[p]
  BY <1>3
<1>5. StepHere[1] = b.system
  BY <1>1, <1>3, <1>4, SystemStepsAre
<1>6. BoundHere = b
  <2>1. b \in Range(Bound[walked])
    <3>1. DOMAIN Bound[walked] = 1..Len(Bound[walked])
      BY <1>1, BoundAssumption
    <3> QED
      BY <3>1 DEF Range
  <2>2. ASSUME NEW c \in Range(Bound[walked]), c.system = b.system PROVE c = b
    <3>1. PICK k \in DOMAIN Bound[walked] : c = Bound[walked][k]
      BY DEF Range
    <3>2. k \in 1..Len(Bound[walked])
      BY <1>1, BoundAssumption
    <3>3. i = k
      BY <1>1, <2>2, <3>1, <3>2, KnownHere
    <3> QED
      BY <3>1, <3>3
  <2> HIDE DEF b
  <2> QED
    BY <1>5, <2>1, <2>2 DEF BoundHere
<1>7. BoundHere = b /\ Known(b) /\ InWalk(b) /\ b.system # HiddenSystem
  BY <1>3, <1>6
<1>8. \E x \in 1..Len(SystemSteps(b)) : stepNo = off[i - 1] + x /\ StepHere = SystemSteps(b)[x]
  BY <1>1, <1>4
<1>9. stepNo \in 1..Len(Body)
  BY <1>2
<1> HIDE DEF b
<1> QED
  BY <1>7, <1>8, <1>9 DEF b

(* A connection test leads to a later step of the walk, and never past the *)
(* mapping of its system.                                                  *)
Ahead == {WalkSteps[i] : i \in stepNo + 1..Len(WalkSteps)}

LEMMA TestsLead ==
  ASSUME WalkInv, StepHere[2] = "live-creds"
  PROVE  /\ stepNo < Len(WalkSteps)
         /\ \A s \in Offered(BoundHere) : s[1] \in Ahead
         /\ StepOf(BoundHere.system, "mapping") \in Ahead =>
              FollowOn(BoundHere) = <<StepOf(BoundHere.system, "mapping")>>
<1>1. walked \in DOMAIN Bound /\ stepNo \in 1..Len(WalkSteps) /\ StepHere = WalkSteps[stepNo]
  BY DEF WalkInv, StepHere
<1>2. /\ Len(Body) \in Nat /\ Len(WalkSteps) = Len(Body) + 2
      /\ \E off : PartsAt(off, PartsHere, Body)
  BY <1>1, WalkIs
<1>3. PICK off : PartsAt(off, PartsHere, Body)
  BY <1>2
<1>4. stepNo \in 1..Len(Body)
      /\ \E i \in 1..Len(Bound[walked]) :
           LET b == Bound[walked][i] IN
           /\ BoundHere = b /\ Known(b) /\ InWalk(b) /\ b.system # HiddenSystem
           /\ \E p \in 1..Len(SystemSteps(b)) :
                stepNo = off[i - 1] + p /\ StepHere = SystemSteps(b)[p]
  BY <1>3, HereIsBinding
<1>5. PICK i \in 1..Len(Bound[walked]) :
        /\ BoundHere = Bound[walked][i] /\ Known(Bound[walked][i]) /\ InWalk(Bound[walked][i])
        /\ Bound[walked][i].system # HiddenSystem
        /\ \E p \in 1..Len(SystemSteps(Bound[walked][i])) :
             stepNo = off[i - 1] + p /\ StepHere = SystemSteps(Bound[walked][i])[p]
  BY <1>4
<1> DEFINE b == Bound[walked][i]
<1>6. PICK p \in 1..Len(SystemSteps(b)) : stepNo = off[i - 1] + p /\ StepHere = SystemSteps(b)[p]
  BY <1>5
<1>7. b.system \notin SheetsOwner
  BY <1>6, SheetsAreNotTested
<1>8. ASSUME NEW s \in Offered(b) PROVE s[1] \in Ahead
  <2>1. PICK q \in p + 1..Len(SystemSteps(b)) : SystemSteps(b)[q] = s[1]
    BY <1>5, <1>6, <1>7, OfferedFollow
  <2>2. Len(SystemSteps(b)) \in Nat
    BY <1>5, SystemStepsAre
  <2>3. q \in 1..Len(SystemSteps(b)) /\ q > p /\ q \in Nat /\ p \in Nat
    BY <2>2
  <2>4. off[i - 1] + q \in 1..Len(Body) /\ WalkSteps[off[i - 1] + q] = SystemSteps(b)[q]
    BY <1>1, <1>3, <1>5, <2>3, StepInWalk
  <2>5. off[i - 1] \in Nat
    <3>1. Len(PartsHere) = Len(Bound[walked]) /\ Len(PartsHere) \in Nat
      BY <1>1, PartsTyped
    <3>2. off \in [0..Len(PartsHere) -> Nat]
      BY <1>3 DEF PartsAt
    <3>3. i - 1 \in 0..Len(PartsHere)
      BY <3>1
    <3> QED
      BY <3>2, <3>3
  <2>6. off[i - 1] + q \in stepNo + 1..Len(WalkSteps)
    <3> DEFINE o == off[i - 1]
               m == Len(Body)
    <3>1. o \in Nat /\ m \in Nat /\ o + q <= m /\ stepNo = o + p /\ Len(WalkSteps) = m + 2
      BY <1>2, <1>6, <2>4, <2>5
    <3> HIDE DEF o, m
    <3>2. o + q \in stepNo + 1..Len(WalkSteps)
      BY <2>3, <3>1
    <3> QED
      BY <3>2 DEF o
  <2>7. s[1] = WalkSteps[off[i - 1] + q]
    BY <2>1, <2>4
  <2> HIDE DEF b
  <2> QED
    BY <2>6, <2>7 DEF Ahead
<1>9. ASSUME StepOf(b.system, "mapping") \in Ahead
      PROVE  FollowOn(b) = <<StepOf(b.system, "mapping")>>
  <2>1. PICK x \in stepNo + 1..Len(WalkSteps) : WalkSteps[x] = StepOf(b.system, "mapping")
    BY <1>9 DEF Ahead
  <2>2. x \in 1..Len(WalkSteps) /\ WalkSteps[x][2] \notin {"cadence", "confirm"}
    <3>1. x \in 1..Len(WalkSteps)
      BY <1>1, <1>2, <1>4
    <3>2. WalkSteps[x][2] = "mapping"
      BY <2>1 DEF StepOf
    <3> QED
      BY <3>1, <3>2
  <2>3. \E k \in 1..Len(Bound[walked]) :
          LET c == Bound[walked][k] IN
          /\ Known(c) /\ InWalk(c) /\ c.system # HiddenSystem
          /\ \E q \in 1..Len(SystemSteps(c)) :
               x = off[k - 1] + q /\ WalkSteps[x] = SystemSteps(c)[q]
    BY <1>1, <1>3, <2>2, StepOfBinding
  <2>4. PICK k \in 1..Len(Bound[walked]) :
          /\ Known(Bound[walked][k]) /\ InWalk(Bound[walked][k])
          /\ Bound[walked][k].system # HiddenSystem
          /\ \E q \in 1..Len(SystemSteps(Bound[walked][k])) :
               x = off[k - 1] + q /\ WalkSteps[x] = SystemSteps(Bound[walked][k])[q]
    BY <2>3
  <2> DEFINE c == Bound[walked][k]
  <2>5. PICK q \in 1..Len(SystemSteps(c)) : WalkSteps[x] = SystemSteps(c)[q]
    BY <2>4
  <2>6. SystemSteps(c)[q][1] = c.system /\ (SystemSteps(c)[q][2] = "mapping" => MapsAfterLive(c))
    BY <2>4, SystemStepsAre
  <2>7. c.system = b.system /\ MapsAfterLive(c)
    BY <2>1, <2>5, <2>6 DEF StepOf
  <2>8. k = i
    BY <1>1, <2>7, KnownHere
  <2>9. MapsAfterLive(b)
    BY <2>7, <2>8
  <2> HIDE DEF b
  <2> QED
    BY <2>9 DEF FollowOn
<1>10. BoundHere = b
  BY <1>5
<1>11. stepNo < Len(WalkSteps)
  BY <1>2, <1>4
<1> HIDE DEF b
<1> QED
  BY <1>8, <1>9, <1>10, <1>11

(* Every how-to step has its text.                                         *)
LEMMA TextsThere ==
  ASSUME WalkInv, StepHere[2] \in {"howto", "howto-live", "howto-upload"}
  PROVE  StepHere[2] \in Copies(BoundHere.system)
<1>1. walked \in DOMAIN Bound
  BY DEF WalkInv
<1>2. PICK off : PartsAt(off, PartsHere, Body)
  BY <1>1, WalkIs
<1>3. \E i \in 1..Len(Bound[walked]) :
           LET b == Bound[walked][i] IN
           /\ BoundHere = b /\ Known(b) /\ InWalk(b) /\ b.system # HiddenSystem
           /\ \E p \in 1..Len(SystemSteps(b)) :
                stepNo = off[i - 1] + p /\ StepHere = SystemSteps(b)[p]
  BY <1>2, HereIsBinding
<1>4. PICK i \in 1..Len(Bound[walked]) :
        /\ BoundHere = Bound[walked][i] /\ Known(Bound[walked][i])
        /\ Bound[walked][i].system # HiddenSystem
        /\ \E p \in 1..Len(SystemSteps(Bound[walked][i])) :
             StepHere = SystemSteps(Bound[walked][i])[p]
  BY <1>3
<1> DEFINE b == Bound[walked][i]
<1>5. PICK p \in 1..Len(SystemSteps(b)) : StepHere = SystemSteps(b)[p]
  BY <1>4
<1> QED
  BY <1>4, <1>5, SystemStepsAre

(* A card may be picked exactly when its steps are in the walk.            *)
LEMMA CardsHaveSteps ==
  ASSUME NEW b, b.system \notin SheetsOwner, NEW m \in ModeCards(b)
  PROVE  IsModeAllowed(m, b) <=>
           Contains(SystemSteps(b), StepOf(b.system, IF m = "live" THEN "live-creds" ELSE "upload"))
<1> DEFINE whats == LiveWhats(b) \o UploadWhats(b)
           n == Len(LiveWhats(b))
           u == Len(UploadWhats(b))
<1>1. SystemSteps(b) = Named(b, whats)
  BY StepsOfOther
<1>2. /\ whats \in Seq(Whats) /\ n \in {0, 2, 3} /\ Len(whats) = n + u /\ u \in {0, 2}
      /\ AllowsLive(b) <=> n # 0
      /\ n # 0 => whats[1] = "howto-live" /\ whats[2] = "live-creds"
      /\ n = 3 => whats[3] = "mapping"
      /\ b.system \in UploadAdvertised /\ AllowsUpload(b) <=> u # 0
      /\ u # 0 => whats[n + 1] = "howto-upload" /\ whats[n + 2] = "upload"
  BY OtherWhats
<1> HIDE DEF whats, n, u
<1>3. Len(SystemSteps(b)) = Len(whats) /\ Len(whats) \in Nat
      /\ \A q \in 1..Len(whats) : SystemSteps(b)[q] = StepOf(b.system, whats[q])
  BY <1>1, <1>2 DEF Named
<1>4. ASSUME NEW what
      PROVE  Contains(SystemSteps(b), StepOf(b.system, what)) <=> \E q \in 1..Len(whats) : whats[q] = what
  BY <1>3 DEF Contains, StepOf
<1>5. m \in {"live", "upload"}
  BY DEF ModeCards
<1>6. ASSUME NEW q \in 1..Len(whats)
      PROVE  \/ q = 1 /\ n # 0 /\ whats[q] = "howto-live"
             \/ q = 2 /\ n # 0 /\ whats[q] = "live-creds"
             \/ q = 3 /\ n = 3 /\ whats[q] = "mapping"
             \/ q = n + 1 /\ u # 0 /\ whats[q] = "howto-upload"
             \/ q = n + 2 /\ u # 0 /\ whats[q] = "upload"
  BY <1>2
<1>7. CASE m = "live"
  <2>1. IsModeAllowed(m, b) <=> n # 0
    BY <1>2, <1>7 DEF IsModeAllowed
  <2>2. n # 0 => 2 \in 1..Len(whats) /\ whats[2] = "live-creds"
    BY <1>2
  <2>3. (\E q \in 1..Len(whats) : whats[q] = "live-creds") <=> n # 0
    BY <1>6, <2>2
  <2> QED
    BY <1>4, <1>7, <2>1, <2>3
<1>8. CASE m = "upload"
  <2>1. IsModeAllowed(m, b) <=> u # 0
    BY <1>2, <1>8 DEF IsModeAllowed
  <2>2. u # 0 => n + 2 \in 1..Len(whats) /\ whats[n + 2] = "upload"
    BY <1>2
  <2>3. (\E q \in 1..Len(whats) : whats[q] = "upload") <=> u # 0
    BY <1>6, <2>2
  <2> QED
    BY <1>4, <1>8, <2>1, <2>3
<1> QED
  BY <1>5, <1>7, <1>8

LEMMA WalkLeads == WalkInv => StepsLead
<1> SUFFICES ASSUME WalkInv PROVE StepsLead
  OBVIOUS
<1>1. StepHere[2] = "live-creds" =>
        /\ \A s \in Offered(BoundHere) : s[1] \in Ahead
        /\ StepOf(BoundHere.system, "mapping") \in Ahead =>
             FollowOn(BoundHere) = <<StepOf(BoundHere.system, "mapping")>>
  BY TestsLead
<1>2. StepHere[2] \in {"howto", "howto-live", "howto-upload"} =>
        StepHere[2] \in Copies(BoundHere.system)
  BY TextsThere
<1>3. BoundHere.system \notin SheetsOwner =>
        \A m \in ModeCards(BoundHere) :
          IsModeAllowed(m, BoundHere) <=>
            Contains(SystemSteps(BoundHere),
                     StepOf(BoundHere.system, IF m = "live" THEN "live-creds" ELSE "upload"))
  BY CardsHaveSteps
<1> QED
  BY <1>1, <1>2, <1>3, Zenon DEF StepsLead, Offered, Ahead

LEMMA WalkInitially == SettingsInit => WalkInv
<1> SUFFICES ASSUME SettingsInit PROVE WalkInv
  OBVIOUS
<1>1. walked \in DOMAIN Bound /\ stepNo = 1
  <2>1. (corner = "walk" => walked \in DOMAIN Bound)
        /\ (corner # "walk" => walked = Resting(DOMAIN Bound)) /\ stepNo = 1
    BY Zenon DEF SettingsInit
  <2>2. Resting(DOMAIN Bound) \in DOMAIN Bound
    BY BoundAssumption DEF Resting
  <2> QED
    BY <2>1, <2>2
<1>2. Len(Body) \in Nat /\ Len(WalkSteps) = Len(Body) + 2
  BY <1>1, WalkIs
<1> QED
  BY <1>1, <1>2 DEF WalkInv

LEMMA WalkStays ==
  ASSUME UNCHANGED <<walked, clean>>
  PROVE  WalkSteps' = WalkSteps
<1>1. \A b : (SystemSteps(b)') = SystemSteps(b)
  BY DEF SystemSteps, MapsAfterLive
<1> QED
  BY <1>1 DEF WalkSteps

LEMMA GoToFinds ==
  ASSUME WalkInv, NEW s, GoToStep(s)
  PROVE  stepNo' \in 1..Len(WalkSteps)
<1> DEFINE T == {i \in 1..Len(WalkSteps) : WalkSteps[i] = s[1]}
<1>1. Len(WalkSteps) \in Nat
  <2>1. Len(Body) \in Nat /\ Len(WalkSteps) = Len(Body) + 2
    BY WalkIs DEF WalkInv
  <2> QED
    BY <2>1
<1>2. T # {} /\ T \subseteq 1..Len(WalkSteps)
  BY DEF GoToStep, Contains
<1>3. stepNo' = Min(T)
  BY <1>2 DEF GoToStep, SelectInSeq
<1> HIDE DEF T
<1> QED
  BY <1>1, <1>2, <1>3, LeastThere

LEMMA WalkInductive == WalkInv /\ [SettingsNext]_settingsVars => WalkInv'
<1> SUFFICES ASSUME WalkInv, [SettingsNext]_settingsVars PROVE WalkInv'
  OBVIOUS
<1>1. UNCHANGED <<walked, clean>> /\ (UNCHANGED stepNo \/ WalkNext)
  BY DEF SettingsNext, settingsVars, WalkNext, walkVars
<1>2. WalkSteps' = WalkSteps
  BY <1>1, WalkStays
<1>3. Len(WalkSteps) \in Nat /\ stepNo \in 1..Len(WalkSteps) /\ walked \in DOMAIN Bound
  <2>1. Len(Body) \in Nat /\ Len(WalkSteps) = Len(Body) + 2
    BY WalkIs DEF WalkInv
  <2> QED
    BY <2>1 DEF WalkInv
<1>4. stepNo' \in 1..Len(WalkSteps)
  <2>1. CASE UNCHANGED stepNo
    BY <1>3, <2>1
  <2>2. CASE Forwards
    BY <1>3, <2>2 DEF Forwards
  <2>3. CASE Backwards
    BY <1>3, <2>3 DEF Backwards
  <2>4. CASE TestPasses
    <3>1. StepHere[2] = "live-creds"
      BY <2>4 DEF TestPasses
    <3>2. stepNo < Len(WalkSteps)
      BY <3>1, TestsLead
    <3>3. CASE FollowOn(BoundHere) = <<>>
      BY <1>3, <2>4, <3>2, <3>3 DEF TestPasses
    <3>4. CASE FollowOn(BoundHere) # <<>>
      <4>1. GoToStep(FollowOn(BoundHere))
        BY <2>4, <3>4 DEF TestPasses
      <4> QED
        BY <4>1, GoToFinds
    <3> QED
      BY <3>3, <3>4
  <2>5. CASE SetsUpUpload
    BY <2>5, GoToFinds DEF SetsUpUpload
  <2> QED
    BY <1>1, <2>1, <2>2, <2>3, <2>4, <2>5 DEF WalkNext
<1> QED
  BY <1>1, <1>2, <1>3, <1>4 DEF WalkInv

(* Calls are numbered as they are made.                                    *)
CallsNumbered == saved \in Nat /\ \A s \in saves : s.n \in Nat /\ s.n <= saved

LEMMA NumberedInductive ==
  CardInv /\ CallsNumbered /\ [SettingsNext]_settingsVars => CallsNumbered'
<1> SUFFICES ASSUME CardInv, CallsNumbered, [SettingsNext]_settingsVars PROVE CallsNumbered'
  OBVIOUS
<1>1. CASE UNCHANGED <<saves, saved>>
  BY <1>1 DEF CallsNumbered
<1>2. ASSUME NEW v, SendSave(v) PROVE CallsNumbered'
  BY <1>2 DEF SendSave, CallsNumbered
<1>3. ASSUME NEW s \in saves, Serves(s) PROVE CallsNumbered'
  <2>1. s = [n |-> s.n, value |-> s.value, pc |-> s.pc]
    BY DEF CardInv, CallsShaped
  <2>2. PICK pc \in {"stored", "refused", "lost"} : saves' = (saves \ {s}) \cup {[s EXCEPT !.pc = pc]}
    BY <1>3 DEF Serves
  <2>3. [s EXCEPT !.pc = pc].n = s.n
    BY <2>1
  <2>4. saved' = saved
    BY <1>3 DEF Serves
  <2> QED
    BY <2>2, <2>3, <2>4 DEF CallsNumbered
<1>4. ASSUME NEW s \in saves, HearSave(s) PROVE CallsNumbered'
  <2>1. saves' \subseteq saves /\ saved' = saved
    BY <1>4 DEF HearSave
  <2> QED
    BY <2>1 DEF CallsNumbered
<1>5. CASE SaveNext
  <2>1. ASSUME NEW v \in CadenceOptions, Prefer(v) \/ SaveAgain(v) PROVE CallsNumbered'
    BY <1>2, <2>1 DEF Prefer, SaveAgain
  <2>2. CASE Reload \/ ReadServed \/ ReadHeard
    BY <1>1, <2>2 DEF Reload, ReadServed, ReadHeard
  <2> QED
    BY <1>3, <1>4, <1>5, <2>1, <2>2 DEF SaveNext
<1> QED
  BY <1>1, <1>5 DEF SettingsNext, settingsVars, saveVars, WalkNext

-----------------------------------------------------------------------------
(* The page                                                                *)
(* Calls, stamps and steps have their types.                               *)
THEOREM SettingsTyped == SettingsSpec => []SettingsTypeOK
<1> DEFINE Inv == WalkInv /\ CardInv /\ CallsNumbered /\ ofSheet \in BOOLEAN
<1>1. SettingsInit => Inv
  <2>1. SettingsInit => CallsNumbered /\ ofSheet \in BOOLEAN
    <3> SUFFICES ASSUME SettingsInit PROVE CallsNumbered /\ ofSheet \in BOOLEAN
      OBVIOUS
    <3>1. saves = {} /\ saved = 0 /\ (corner = "save" => ofSheet \in BOOLEAN)
          /\ (corner # "save" => ofSheet = FALSE)
      BY Zenon DEF SettingsInit
    <3>2. ofSheet \in BOOLEAN
      BY <3>1
    <3> QED
      BY <3>1, <3>2 DEF CallsNumbered
  <2> QED
    BY <2>1, WalkInitially, CardInitially
<1>2. Inv /\ [SettingsNext]_settingsVars => Inv'
  <2>1. [SettingsNext]_settingsVars => ofSheet' = ofSheet
    BY DEF SettingsNext, settingsVars, saveVars, SaveNext, Prefer, SaveAgain, Serves, HearSave,
           Reload, ReadServed, ReadHeard
  <2> QED
    BY <2>1, WalkInductive, CardInductive, NumberedInductive
<1>3. Inv => SettingsTypeOK
  BY DEF WalkInv, CardInv, CallsShaped, CallsNumbered, SettingsTypeOK, SavePcs
<1> QED
  BY <1>1, <1>2, <1>3, PTL DEF SettingsSpec

(* All the page of connections tells.                                      *)
THEOREM SettingsHonest == SettingsSpec => []SettingsTold
<1>1. SettingsSpec => []StepsLead
  BY WalkInitially, WalkInductive, WalkLeads, PTL DEF SettingsSpec
<1>2. SettingsTold <=> StepsLead /\ (ShownIsStored /\ GateTold) /\ CsvRoundTrips
  BY DEF SettingsTold
<1> QED
  BY <1>1, <1>2, CardsTold, FilesReadBack, PTL

-----------------------------------------------------------------------------
(* The request list: what a filter keeps                                   *)
(* Where what is kept stood.                                               *)
Places(pos, s, t, S) ==
  /\ pos \in [1..Len(t) -> 1..Len(s)]
  /\ \A k \in 1..Len(t) : t[k] = s[pos[k]] /\ t[k] \in S
  /\ \A j, k \in 1..Len(t) : j < k => pos[j] < pos[k]
  /\ \A i \in 1..Len(s) : s[i] \in S => \E k \in 1..Len(t) : pos[k] = i

PartsKept(s, S) == [k \in 1..Len(s) |-> IF s[k] \in S THEN <<s[k]>> ELSE <<>>]

(* The parts a filter puts together: of one row, or of none.               *)
LEMMA PartsOfKeep ==
  ASSUME NEW T, NEW s \in Seq(T), NEW S
  PROVE  /\ PartsKept(s, S) \in Seq(Seq(T)) /\ Len(PartsKept(s, S)) = Len(s)
         /\ Keep(s, S) = FlattenSeq(PartsKept(s, S)) /\ Keep(s, S) \in Seq(T)
         /\ \A i \in 1..Len(s) :
              /\ s[i] \in S => Len(PartsKept(s, S)[i]) = 1 /\ PartsKept(s, S)[i][1] = s[i]
              /\ s[i] \notin S => Len(PartsKept(s, S)[i]) = 0
<1> DEFINE parts == PartsKept(s, S)
<1>1. parts \in Seq(Seq(T)) /\ Len(parts) = Len(s)
  BY DEF PartsKept
<1>2. Keep(s, S) = FlattenSeq(parts)
  BY DEF Keep, PartsKept
<1>3. Keep(s, S) \in Seq(T)
  <2> HIDE DEF parts
  <2> QED
    BY <1>1, <1>2, FlatParts
<1>4. ASSUME NEW i \in 1..Len(s)
      PROVE  /\ s[i] \in S => Len(parts[i]) = 1 /\ parts[i][1] = s[i]
             /\ s[i] \notin S => Len(parts[i]) = 0
  BY DEF PartsKept
<1> QED
  BY <1>1, <1>2, <1>3, <1>4

(* Where parts end does not go back.                                       *)
LEMMA EndsGrow ==
  ASSUME NEW n \in Nat, NEW off \in [0..n -> Nat],
         \A i \in 1..n : off[i - 1] <= off[i],
         NEW i \in 0..n, NEW j \in 0..n, i <= j
  PROVE  off[i] <= off[j]
<1> DEFINE G == {k \in 0..n : i <= k => off[i] <= off[k]}
<1>1. 0 \in G
  <2>1. i <= 0 => i = 0
    OBVIOUS
  <2> QED
    BY <2>1
<1>2. ASSUME NEW k \in 0..n, k \in G, k < n PROVE k + 1 \in G
  <2>1. k + 1 \in 1..n /\ k + 1 - 1 = k /\ k + 1 \in 0..n
    BY <1>2
  <2>2. off[k] <= off[k + 1]
    BY <2>1
  <2>3. ASSUME i <= k + 1 PROVE off[i] <= off[k + 1]
    <3>1. CASE i <= k
      BY <1>2, <2>1, <2>2, <3>1
    <3>2. CASE i = k + 1
      BY <2>1, <3>2
    <3> QED
      BY <2>3, <3>1, <3>2
  <2> QED
    BY <2>1, <2>3
<1>3. \A k \in 0..n : k \in G
  <2> HIDE DEF G
  <2> QED
    BY <1>1, <1>2, StepByStep
<1> QED
  BY <1>3

LEMMA KeptPlaces ==
  ASSUME NEW T, NEW s \in Seq(T), NEW S
  PROVE  Keep(s, S) \in Seq(T) /\ \E pos : Places(pos, s, Keep(s, S), S)
<1> DEFINE parts == PartsKept(s, S)
           all   == Keep(s, S)
           n     == Len(s)
<1>1. /\ parts \in Seq(Seq(T)) /\ Len(parts) = n /\ n \in Nat /\ all \in Seq(T)
      /\ all = FlattenSeq(parts) /\ Len(all) \in Nat
  BY PartsOfKeep
<1>2. \A i \in 1..n : /\ s[i] \in S => Len(parts[i]) = 1 /\ parts[i][1] = s[i]
                      /\ s[i] \notin S => Len(parts[i]) = 0
  BY PartsOfKeep
<1> HIDE DEF parts, all, n
<1>3. PICK off : PartsAt(off, parts, all)
  BY <1>1, FlatParts
<1>4. /\ off \in [0..n -> Nat] /\ off[0] = 0 /\ off[n] = Len(all)
      /\ \A i \in 1..n : /\ off[i] = off[i - 1] + Len(parts[i]) /\ off[i] <= Len(all)
                         /\ \A k \in 1..Len(parts[i]) : all[off[i - 1] + k] = parts[i][k]
  BY <1>1, <1>3, Zenon DEF PartsAt
<1>5. ASSUME NEW i \in 1..n
      PROVE  /\ s[i] \in S => /\ off[i] = off[i - 1] + 1 /\ all[off[i]] = s[i]
                              /\ off[i] \in 1..Len(all)
             /\ s[i] \notin S => off[i] = off[i - 1]
             /\ off[i - 1] \in Nat /\ off[i] \in Nat /\ off[i - 1] <= off[i]
  <2>1. off[i - 1] \in Nat /\ off[i] \in Nat
    <3>1. i - 1 \in 0..n /\ i \in 0..n /\ off \in [0..n -> Nat]
      BY <1>1, <1>4
    <3> QED
      BY <3>1
  <2>2. ASSUME s[i] \in S
        PROVE  off[i] = off[i - 1] + 1 /\ all[off[i]] = s[i] /\ off[i] \in 1..Len(all)
    <3>1. Len(parts[i]) = 1 /\ parts[i][1] = s[i]
      BY <1>2, <2>2
    <3>2. off[i] = off[i - 1] + Len(parts[i]) /\ off[i] <= Len(all)
      BY Zenon, <1>4
    <3>4. off[i] = off[i - 1] + 1 /\ 1 \in 1..Len(parts[i])
      BY <3>1, <3>2
    <3>3. all[off[i - 1] + 1] = parts[i][1]
      BY Zenon, <1>4, <3>4
    <3> QED
      BY <1>1, <2>1, <3>1, <3>2, <3>3, <3>4
  <2>3. ASSUME s[i] \notin S PROVE off[i] = off[i - 1]
    <3>1. Len(parts[i]) = 0 /\ off[i] = off[i - 1] + Len(parts[i])
      BY <1>2, <1>4, <2>3
    <3> QED
      BY <2>1, <3>1
  <2> QED
    BY <2>1, <2>2, <2>3
<1>6. ASSUME NEW i \in 0..n, NEW j \in 0..n, i <= j PROVE off[i] <= off[j]
  <2>1. \A k \in 1..n : off[k - 1] <= off[k]
    BY <1>5
  <2> QED
    BY <1>1, <1>4, <1>6, <2>1, EndsGrow
<1>7. ASSUME NEW i \in 1..n, NEW j \in 1..n, i < j, s[j] \in S PROVE off[i] < off[j]
  <2>1. i \in 0..n /\ j - 1 \in 0..n /\ i <= j - 1
    BY <1>1, <1>7
  <2>2. off[i] <= off[j - 1]
    BY <1>6, <2>1
  <2> QED
    BY <1>5, <1>7, <2>2
<1>8. ASSUME NEW x \in 1..Len(all) PROVE \E i \in 1..n : s[i] \in S /\ off[i] = x
  <2>1. Counted(parts, all)
    <3>1. \A i \in 1..n : Len(parts[i]) \in Nat
      BY <1>2
    <3> QED
      BY <1>1, <3>1 DEF Counted
  <2>2. HasPlace(x, off, parts, all)
    BY <1>3, <2>1, PlaceInPart
  <2>3. PICK i \in 1..n : \E p \in 1..Len(parts[i]) : x = off[i - 1] + p
    BY <1>1, <2>2 DEF HasPlace
  <2>4. PICK p \in 1..Len(parts[i]) : x = off[i - 1] + p
    BY <2>3
  <2>5. s[i] \in S /\ p = 1
    <3>1. CASE s[i] \in S
      <4>1. Len(parts[i]) = 1
        BY <1>2, <3>1
      <4> QED
        BY <2>4, <3>1, <4>1
    <3>2. CASE s[i] \notin S
      <4>1. Len(parts[i]) = 0
        BY <1>2, <3>2
      <4> QED
        BY <2>4, <4>1
    <3> QED
      BY <3>1, <3>2
  <2> QED
    BY <1>5, <2>4, <2>5
<1> DEFINE pos == [x \in 1..Len(all) |-> CHOOSE i \in 1..n : s[i] \in S /\ off[i] = x]
<1>9. \A x \in 1..Len(all) : pos[x] \in 1..n /\ s[pos[x]] \in S /\ off[pos[x]] = x
  BY <1>8
<1>10. pos \in [1..Len(all) -> 1..n]
  BY <1>9
<1> HIDE DEF pos
<1>11. ASSUME NEW k \in 1..Len(all) PROVE all[k] = s[pos[k]] /\ all[k] \in S
  <2> DEFINE i == pos[k]
  <2>1. i \in 1..n /\ s[i] \in S /\ off[i] = k
    BY <1>9
  <2> HIDE DEF i
  <2>2. all[off[i]] = s[i]
    BY <1>5, <2>1
  <2> QED
    BY <2>1, <2>2 DEF i
<1>12. ASSUME NEW j \in 1..Len(all), NEW k \in 1..Len(all), j < k PROVE pos[j] < pos[k]
  <2> DEFINE a == pos[j]
             b == pos[k]
  <2>1. /\ a \in 1..n /\ s[a] \in S /\ off[a] = j
        /\ b \in 1..n /\ s[b] \in S /\ off[b] = k
    BY <1>9
  <2> HIDE DEF a, b
  <2>2. ASSUME ~(a < b) PROVE FALSE
    <3>1. b \in 0..n /\ a \in 0..n /\ b <= a
      BY <1>1, <2>1, <2>2
    <3>2. off[b] <= off[a]
      BY <1>6, <3>1
    <3> QED
      BY <1>12, <2>1, <3>2
  <2> QED
    BY <2>2 DEF a, b
<1>13. ASSUME NEW i \in 1..n, s[i] \in S PROVE \E k \in 1..Len(all) : pos[k] = i
  <2> DEFINE k == off[i]
             j == pos[k]
  <2>1. k \in 1..Len(all)
    BY <1>5, <1>13
  <2>2. j \in 1..n /\ s[j] \in S /\ off[j] = k
    BY <1>9, <2>1
  <2> HIDE DEF j
  <2>3. ~(i < j) /\ ~(j < i)
    <3>1. ASSUME i < j PROVE FALSE
      BY <1>5, <1>7, <2>2, <3>1
    <3>2. ASSUME j < i PROVE FALSE
      BY <1>5, <1>7, <1>13, <2>2, <3>2
    <3> QED
      BY <3>1, <3>2
  <2>4. j = i
    BY <1>1, <2>2, <2>3
  <2> QED
    BY <2>1, <2>4 DEF j
<1> QED
  <2>1. Places(pos, s, all, S)
    BY <1>10, <1>11, <1>12, <1>13 DEF Places, n
  <2> QED
    BY <1>1, <2>1 DEF all

-----------------------------------------------------------------------------
(* Rows in their order                                                     *)
(* Rows of the intake, newest first, no two with one id.                   *)
ByTime(s) ==
  /\ s \in Seq(Range(Intake))
  /\ \A i, j \in 1..Len(s) : i < j => s[i].id # s[j].id /\ s[i].at >= s[j].at

LEMMA RowsTimed == \A r \in Range(Intake) : r.at \in Int
  BY RequestsListAssumption DEF Range

LEMMA IntakeInOrder == ByTime(Intake)
<1>1. Intake \in Seq(Range(Intake)) /\ DOMAIN Intake = 1..Len(Intake)
  BY RequestsListAssumption
<1> QED
  BY <1>1, RequestsListAssumption DEF ByTime

LEMMA RangeIs ==
  ASSUME NEW T, NEW s \in Seq(T)
  PROVE  \A x : x \in Range(s) <=> \E i \in 1..Len(s) : x = s[i]
<1>1. DOMAIN s = 1..Len(s)
  OBVIOUS
<1> QED
  BY <1>1 DEF Range

LEMMA KeepInOrder ==
  ASSUME NEW s, ByTime(s), NEW S
  PROVE  ByTime(Keep(s, S)) /\ Range(Keep(s, S)) = Range(s) \cap S
<1> DEFINE t == Keep(s, S)
<1>1. s \in Seq(Range(Intake)) /\ Len(s) \in Nat
  BY DEF ByTime
<1>2. t \in Seq(Range(Intake)) /\ \E pos : Places(pos, s, t, S)
  BY <1>1, KeptPlaces
<1> HIDE DEF t
<1>3. PICK pos : Places(pos, s, t, S)
  BY <1>2
<1>4. ByTime(t)
  <2>1. ASSUME NEW i \in 1..Len(t), NEW j \in 1..Len(t), i < j
        PROVE  t[i].id # t[j].id /\ t[i].at >= t[j].at
    <3>1. /\ pos[i] \in 1..Len(s) /\ pos[j] \in 1..Len(s) /\ pos[i] < pos[j]
          /\ t[i] = s[pos[i]] /\ t[j] = s[pos[j]]
      BY <1>3, <2>1 DEF Places
    <3> QED
      BY <3>1 DEF ByTime
  <2> QED
    BY <1>2, <2>1 DEF ByTime
<1>5. ASSUME NEW x PROVE x \in Range(t) <=> x \in Range(s) /\ x \in S
  <2>1. x \in Range(t) <=> \E k \in 1..Len(t) : x = t[k]
    BY <1>2, RangeIs
  <2>2. x \in Range(s) <=> \E i \in 1..Len(s) : x = s[i]
    BY <1>1, RangeIs
  <2>3. ASSUME NEW k \in 1..Len(t), x = t[k] PROVE x \in S /\ \E i \in 1..Len(s) : x = s[i]
    BY <1>3, <2>3 DEF Places
  <2>4. ASSUME NEW i \in 1..Len(s), x = s[i], x \in S PROVE \E k \in 1..Len(t) : x = t[k]
    BY <1>3, <2>4 DEF Places
  <2> QED
    BY <2>1, <2>2, <2>3, <2>4
<1> QED
  BY <1>4, <1>5 DEF t

LEMMA LeastOfTwo ==
  ASSUME NEW a \in Int, NEW b \in Int
  PROVE  Min({a, b}) \in {a, b} /\ Min({a, b}) <= a /\ Min({a, b}) <= b
<1>1. \E x \in {a, b} : \A y \in {a, b} : x <= y
  OBVIOUS
<1> QED
  BY <1>1 DEF Min

LEMMA GreatestOfTwo ==
  ASSUME NEW a \in Int, NEW b \in Int
  PROVE  Max({a, b}) \in {a, b} /\ Max({a, b}) >= a /\ Max({a, b}) >= b
<1>1. \E x \in {a, b} : \A y \in {a, b} : x >= y
  OBVIOUS
<1> QED
  BY <1>1 DEF Max

(* A page of rows in order.                                                *)
CutOf(s, from, size) == SubSeq(s, from + 1, Min({Len(s), from + size}))

LEMMA CutInOrder ==
  ASSUME NEW s, ByTime(s), NEW from \in Nat, NEW size \in Nat
  PROVE  /\ ByTime(CutOf(s, from, size)) /\ Range(CutOf(s, from, size)) \subseteq Range(s)
         /\ from = 0 /\ Len(s) <= size => CutOf(s, from, size) = s
<1> DEFINE n == Len(s)
           e == Min({n, from + size})
           t == CutOf(s, from, size)
<1>1. s \in Seq(Range(Intake)) /\ n \in Nat
  BY DEF ByTime
<1>2. e \in {n, from + size} /\ e <= n /\ e \in Nat
  <2>1. n \in Int /\ from + size \in Int /\ from + size \in Nat
    BY <1>1
  <2> HIDE DEF n
  <2>2. e \in {n, from + size} /\ e <= n
    BY <2>1, LeastOfTwo
  <2> QED
    BY <1>1, <2>1, <2>2 DEF n
<1>3. t = SubSeq(s, from + 1, e)
  BY DEF CutOf
<1> HIDE DEF e, t
<1>4. \A i \in (from + 1)..e : s[i] \in Range(Intake) /\ i \in 1..n
  <2>1. ASSUME NEW i \in (from + 1)..e PROVE i \in 1..n
    BY <1>1, <1>2
  <2> QED
    BY <1>1, <2>1
<1>5. /\ t \in Seq(Range(Intake))
      /\ Len(t) = IF from + 1 <= e THEN e - (from + 1) + 1 ELSE 0
      /\ \A i \in 1..(e - (from + 1) + 1) : t[i] = s[(from + 1) + i - 1]
  <2>1. \A i \in (from + 1)..e : s[i] \in Range(Intake)
    BY <1>4
  <2>2. from + 1 \in Int /\ e \in Int
    BY <1>2
  <2> HIDE DEF n
  <2> QED
    BY <1>3, <2>1, <2>2, SubSeqProperties
<1>6. ASSUME NEW i \in 1..Len(t) PROVE from + i \in 1..n /\ t[i] = s[from + i]
  <2>1. i \in 1..(e - (from + 1) + 1) /\ from + i = (from + 1) + i - 1
    BY <1>2, <1>5
  <2>2. from + i \in 1..n
    BY <1>1, <1>2, <2>1
  <2> QED
    BY <1>5, <2>1, <2>2
<1>7. ByTime(t)
  <2>1. ASSUME NEW i \in 1..Len(t), NEW j \in 1..Len(t), i < j
        PROVE  t[i].id # t[j].id /\ t[i].at >= t[j].at
    <3>1. /\ from + i \in 1..n /\ from + j \in 1..n /\ from + i < from + j
          /\ t[i] = s[from + i] /\ t[j] = s[from + j]
      BY <1>6, <2>1
    <3> DEFINE a == from + i
               b == from + j
    <3>2. a \in 1..n /\ b \in 1..n /\ a < b /\ t[i] = s[a] /\ t[j] = s[b]
      BY <3>1
    <3> HIDE DEF a, b
    <3> QED
      BY <3>2 DEF ByTime
  <2> QED
    BY <1>5, <2>1 DEF ByTime
<1>8. Range(t) \subseteq Range(s)
  <2>1. \A x : x \in Range(t) <=> \E i \in 1..Len(t) : x = t[i]
    BY <1>5, RangeIs
  <2>2. \A x : x \in Range(s) <=> \E i \in 1..n : x = s[i]
    BY <1>1, RangeIs
  <2> QED
    BY <1>6, <2>1, <2>2
<1>9. ASSUME from = 0, n <= size PROVE t = s
  <2>1. e = n /\ from + 1 = 1
    BY <1>1, <1>2, <1>9
  <2> QED
    BY <1>1, <1>3, <2>1, SubSeqFull
<1> QED
  BY <1>7, <1>8, <1>9 DEF t

-----------------------------------------------------------------------------
(* Batches: what grouping a prefix of the rows has led to                  *)
(* Rows grouped by gaps: done holds the first n of s, each at one place,   *)
(* and two are in one batch exactly if no gap is between them.             *)
Apart(s, j) == s[j + 1].at - s[j].at > Gap

OldestFirst(s) ==
  /\ s \in Seq(Range(Intake))
  /\ \A i, j \in 1..Len(s) : i < j => s[i].id # s[j].id /\ s[i].at <= s[j].at

InBatch(done, i, x) == \E k \in 1..Len(done[i]) : done[i][k] = x

Covered(done, s, n) ==
  /\ done \in Seq(Seq(Range(Intake)))
  /\ \A i \in 1..Len(done) : Len(done[i]) > 0
  /\ \A i \in 1..Len(done) : \A k \in 1..Len(done[i]) : \E p \in 1..n : done[i][k] = s[p]

LastHolds(done, s, n) ==
  /\ n = 0 => done = <<>>
  /\ n > 0 => /\ Len(done) > 0
              /\ done[Len(done)][Len(done[Len(done)])] = s[n]

PlacedOnce(done) ==
  \A i, j \in 1..Len(done) : \A k \in 1..Len(done[i]), m \in 1..Len(done[j]) :
    done[i][k] = done[j][m] => i = j /\ k = m

SplitAtGaps(done, s, n) ==
  \A p, q \in 1..n :
    p <= q => ((\E i \in 1..Len(done) : InBatch(done, i, s[p]) /\ InBatch(done, i, s[q]))
                 <=> \A j \in p..(q - 1) : ~Apart(s, j))

Spanned(done) ==
  \A i \in 1..Len(done) : \A k \in 1..Len(done[i]) :
    done[i][1].at <= done[i][k].at /\ done[i][k].at <= done[i][Len(done[i])].at

Grouped(done, s, n) ==
  /\ Covered(done, s, n) /\ LastHolds(done, s, n) /\ PlacedOnce(done)
  /\ SplitAtGaps(done, s, n) /\ Spanned(done)

LEMMA NothingGrouped ==
  ASSUME NEW s PROVE Grouped(<<>>, s, 0)
<1>1. Covered(<<>>, s, 0)
  BY DEF Covered
<1>2. LastHolds(<<>>, s, 0) /\ PlacedOnce(<<>>) /\ SplitAtGaps(<<>>, s, 0) /\ Spanned(<<>>)
  BY DEF LastHolds, PlacedOnce, SplitAtGaps, Spanned
<1> QED
  BY <1>1, <1>2 DEF Grouped

(* Two rows at different places are different.                             *)
LEMMA PlacesDiffer ==
  ASSUME NEW s, OldestFirst(s), NEW p \in 1..Len(s), NEW q \in 1..Len(s), s[p] = s[q]
  PROVE  p = q
<1>1. Len(s) \in Nat
  BY DEF OldestFirst
<1>2. ~(p < q) /\ ~(q < p)
  BY DEF OldestFirst
<1> QED
  BY <1>1, <1>2

(* What Added does, by cases.                                              *)
NewBatch(done, after, r) ==
  /\ after \in Seq(Seq(Range(Intake))) /\ Len(after) = Len(done) + 1
  /\ \A i \in 1..Len(done) : after[i] = done[i]
  /\ Len(after[Len(done) + 1]) = 1 /\ after[Len(done) + 1][1] = r

Longer(done, after, r) ==
  /\ after \in Seq(Seq(Range(Intake))) /\ Len(after) = Len(done)
  /\ \A i \in 1..(Len(done) - 1) : after[i] = done[i]
  /\ Len(after[Len(done)]) = Len(done[Len(done)]) + 1
  /\ \A k \in 1..Len(done[Len(done)]) : after[Len(done)][k] = done[Len(done)][k]
  /\ after[Len(done)][Len(done[Len(done)]) + 1] = r

LEMMA AddedIs ==
  ASSUME NEW done \in Seq(Seq(Range(Intake))), NEW r \in Range(Intake)
  PROVE  /\ done = <<>> \/ Flushes(done[Len(done)], r) => NewBatch(done, Added(done, r), r)
         /\ ~(done = <<>> \/ Flushes(done[Len(done)], r)) => Longer(done, Added(done, r), r)
<1> DEFINE R == Range(Intake)
           after == Added(done, r)
           n == Len(done)
<1>1. ASSUME done = <<>> \/ Flushes(done[Len(done)], r) PROVE NewBatch(done, after, r)
  <2>1. after = Append(done, <<r>>)
    BY <1>1 DEF Added
  <2>2. <<r>> \in Seq(R) /\ Len(<<r>>) = 1 /\ <<r>>[1] = r
    OBVIOUS
  <2> DEFINE one == <<r>>
             SR  == Seq(R)
  <2>3. after = Append(done, one) /\ one \in SR /\ done \in Seq(SR) /\ Len(one) = 1 /\ one[1] = r
    BY <2>1, <2>2
  <2> HIDE DEF one, after, SR
  <2>4. /\ after \in Seq(SR) /\ Len(after) = Len(done) + 1
        /\ \A i \in 1..Len(done) : after[i] = done[i]
        /\ after[Len(done) + 1] = one
    BY <2>3, AppendProperties
  <2> QED
    BY <2>3, <2>4 DEF NewBatch, SR
<1>2. ASSUME ~(done = <<>> \/ Flushes(done[Len(done)], r)) PROVE Longer(done, after, r)
  <2>1. n \in Nat /\ n # 0 /\ n \in 1..n /\ DOMAIN done = 1..n
    BY <1>2
  <2> DEFINE last == done[n]
             grown == Append(last, r)
  <2>2. last \in Seq(R)
    BY <2>1
  <2>3. after = [done EXCEPT ![n] = grown]
    BY <1>2 DEF Added
  <2> HIDE DEF last, after
  <2>4. /\ grown \in Seq(R) /\ Len(grown) = Len(last) + 1
        /\ \A k \in 1..Len(last) : grown[k] = last[k]
        /\ grown[Len(last) + 1] = r
    BY <2>2, AppendProperties
  <2> HIDE DEF grown
  <2>5. after \in Seq(Seq(R)) /\ Len(after) = n /\ after[n] = grown
        /\ \A i \in 1..(n - 1) : after[i] = done[i]
    <3> DEFINE SR == Seq(R)
    <3>1. done \in [1..n -> SR] /\ grown \in SR
      BY <2>1, <2>4
    <3> HIDE DEF SR, n
    <3>2. after \in [1..n -> SR] /\ after[n] = grown /\ \A i \in 1..n : i # n => after[i] = done[i]
      BY <2>1, <2>3, <3>1
    <3>3. after \in Seq(SR) /\ Len(after) = n
      BY <2>1, <3>2
    <3>4. \A i \in 1..(n - 1) : i \in 1..n /\ i # n
      BY <2>1
    <3> QED
      BY <3>2, <3>3, <3>4 DEF SR
  <2> QED
    BY <2>4, <2>5 DEF Longer, last
<1> QED
  BY <1>1, <1>2

LEMMA GroupNew ==
  ASSUME NEW s, OldestFirst(s), NEW n \in Nat, n < Len(s), NEW done, Grouped(done, s, n),
         NEW after, NewBatch(done, after, s[n + 1]), n > 0 => Apart(s, n)
  PROVE  Grouped(after, s, n + 1)
<1> DEFINE m == Len(done)
           r == s[n + 1]
<1>1. /\ done \in Seq(Seq(Range(Intake))) /\ m \in Nat /\ Len(s) \in Nat /\ s \in Seq(Range(Intake))
      /\ n + 1 \in 1..Len(s) /\ \A p \in 1..n : p \in 1..Len(s)
      /\ \A p \in 1..(n + 1) : p \in 1..Len(s)
  BY DEF Grouped, Covered, OldestFirst
<1>2. /\ after \in Seq(Seq(Range(Intake))) /\ Len(after) = m + 1
      /\ \A i \in 1..m : after[i] = done[i]
      /\ Len(after[m + 1]) = 1 /\ after[m + 1][1] = r
  BY DEF NewBatch
<1>3. \A p \in 1..n : s[p] # r
  <2>1. ASSUME NEW p \in 1..n PROVE s[p] # r
    <3>1. p # n + 1 /\ p \in 1..Len(s)
      BY <1>1
    <3> QED
      BY <1>1, <3>1, PlacesDiffer
  <2> QED
    BY <2>1
<1> HIDE DEF m, r
<1>4. \A i \in 1..m : \A k \in 1..Len(done[i]) :
        done[i][k] # r /\ \E p \in 1..n : done[i][k] = s[p]
  BY <1>3 DEF Grouped, Covered, m
<1>5. \A i \in 1..(m + 1) : i \in 1..m \/ i = m + 1
  BY <1>1
<1>6. \A i \in 1..m : i \in 1..(m + 1)
  BY <1>1
<1>7. m + 1 \in 1..(m + 1) /\ ~(m + 1 \in 1..m)
  BY <1>1
<1>8. Covered(after, s, n + 1)
  <2>1. ASSUME NEW i \in 1..(m + 1)
        PROVE  Len(after[i]) > 0 /\ \A k \in 1..Len(after[i]) : \E p \in 1..(n + 1) : after[i][k] = s[p]
    <3>1. CASE i \in 1..m
      <4>1. after[i] = done[i] /\ Len(done[i]) > 0
        BY <1>2, <3>1 DEF Grouped, Covered, m
      <4>2. \A p \in 1..n : p \in 1..(n + 1)
        OBVIOUS
      <4> QED
        BY <1>4, <3>1, <4>1, <4>2
    <3>2. CASE i = m + 1
      <4>1. Len(after[i]) = 1 /\ after[i][1] = s[n + 1] /\ n + 1 \in 1..(n + 1)
        BY <1>2, <3>2 DEF r
      <4> QED
        BY <4>1
    <3> QED
      BY <1>5, <3>1, <3>2
  <2> QED
    BY <1>2, <2>1 DEF Covered
<1>9. LastHolds(after, s, n + 1)
  <2>1. Len(after) = m + 1 /\ after[m + 1][Len(after[m + 1])] = s[n + 1] /\ m + 1 > 0
    BY <1>1, <1>2 DEF r
  <2> QED
    BY <2>1 DEF LastHolds
<1>10. PlacedOnce(after)
  <2>1. ASSUME NEW i \in 1..(m + 1), NEW j \in 1..(m + 1), NEW k \in 1..Len(after[i]),
               NEW l \in 1..Len(after[j]), after[i][k] = after[j][l]
        PROVE  i = j /\ k = l
    <3>1. CASE i \in 1..m /\ j \in 1..m
      <4>1. after[i] = done[i] /\ after[j] = done[j]
        BY <1>2, <3>1
      <4> QED
        BY <2>1, <3>1, <4>1 DEF Grouped, PlacedOnce, m
    <3>2. CASE i \in 1..m /\ j = m + 1
      BY <1>2, <1>4, <2>1, <3>2
    <3>3. CASE i = m + 1 /\ j \in 1..m
      BY <1>2, <1>4, <2>1, <3>3
    <3>4. CASE i = m + 1 /\ j = m + 1
      <4>1. Len(after[i]) = 1 /\ Len(after[j]) = 1
        BY <1>2, <3>4
      <4>2. k = 1 /\ l = 1
        BY <4>1
      <4> QED
        BY <3>4, <4>2
    <3> QED
      BY <1>5, <3>1, <3>2, <3>3, <3>4
  <2> QED
    BY <1>2, <2>1 DEF PlacedOnce
<1>11. /\ \A i \in 1..m : \A x : InBatch(after, i, x) <=> InBatch(done, i, x)
       /\ \A x : InBatch(after, m + 1, x) <=> x = r
       /\ \A i \in 1..m : ~InBatch(done, i, r)
  <2>1. \A i \in 1..m : \A x : InBatch(after, i, x) <=> InBatch(done, i, x)
    BY <1>2 DEF InBatch
  <2>2. \A x : InBatch(after, m + 1, x) <=> x = r
    BY <1>2 DEF InBatch
  <2>3. \A i \in 1..m : ~InBatch(done, i, r)
    BY <1>4 DEF InBatch
  <2> QED
    BY <2>1, <2>2, <2>3
<1>12. SplitAtGaps(after, s, n + 1)
  <2>1. ASSUME NEW p \in 1..(n + 1), NEW q \in 1..(n + 1), p <= q
        PROVE  (\E i \in 1..(m + 1) : InBatch(after, i, s[p]) /\ InBatch(after, i, s[q]))
                 <=> \A j \in p..(q - 1) : ~Apart(s, j)
    <3>1. CASE q \in 1..n
      <4>1. p \in 1..n /\ s[p] # r
        BY <1>3, <2>1, <3>1
      <4>2. (\E i \in 1..(m + 1) : InBatch(after, i, s[p]) /\ InBatch(after, i, s[q]))
              <=> \E i \in 1..m : InBatch(done, i, s[p]) /\ InBatch(done, i, s[q])
        BY <1>5, <1>6, <1>11, <4>1
      <4> QED
        BY <2>1, <3>1, <4>1, <4>2 DEF Grouped, SplitAtGaps, m
    <3>2. CASE q = n + 1 /\ p = n + 1
      <4>1. InBatch(after, m + 1, s[p]) /\ InBatch(after, m + 1, s[q])
        BY <1>11, <3>2 DEF r
      <4>2. \A j \in p..(q - 1) : FALSE
        BY <3>2
      <4> QED
        BY <1>7, <4>1, <4>2
    <3>3. CASE q = n + 1 /\ p \in 1..n
      <4>1. n > 0 /\ n \in p..(q - 1)
        BY <3>3
      <4>2. ~\A j \in p..(q - 1) : ~Apart(s, j)
        BY <4>1
      <4>3. s[q] = r /\ s[p] # r
        BY <1>3, <3>3 DEF r
      <4> QED
        BY <1>5, <1>11, <4>2, <4>3
    <3>4. q \in 1..n \/ q = n + 1
      OBVIOUS
    <3>5. p \in 1..n \/ p = n + 1
      OBVIOUS
    <3> QED
      BY <3>1, <3>2, <3>3, <3>4, <3>5
  <2> QED
    BY <1>2, <2>1 DEF SplitAtGaps
<1>13. Spanned(after)
  <2>1. ASSUME NEW i \in 1..(m + 1), NEW k \in 1..Len(after[i])
        PROVE  after[i][1].at <= after[i][k].at /\ after[i][k].at <= after[i][Len(after[i])].at
    <3>1. CASE i \in 1..m
      <4>1. after[i] = done[i]
        BY <1>2, <3>1
      <4> QED
        BY <2>1, <3>1, <4>1 DEF Grouped, Spanned, m
    <3>2. CASE i = m + 1
      <4>0. Len(after[i]) = 1 /\ after[i][1] = r
        BY <1>2, <3>2
      <4>1. k = 1 /\ Len(after[i]) = 1 /\ after[i][1] = r
        BY <4>0
      <4>2. r.at \in Int
        BY <1>1, RowsTimed DEF r
      <4> QED
        BY <4>1, <4>2
    <3> QED
      BY <1>5, <3>1, <3>2
  <2> QED
    BY <1>2, <2>1 DEF Spanned
<1> QED
  BY <1>8, <1>9, <1>10, <1>12, <1>13 DEF Grouped

LEMMA GroupLonger ==
  ASSUME NEW s, OldestFirst(s), NEW n \in Nat, n < Len(s), NEW done, Grouped(done, s, n),
         NEW after, Longer(done, after, s[n + 1]), n > 0, ~Apart(s, n)
  PROVE  Grouped(after, s, n + 1)
<1> DEFINE m == Len(done)
           r == s[n + 1]
           e == Len(done[m])
<1>1. /\ done \in Seq(Seq(Range(Intake))) /\ m \in Nat /\ m > 0 /\ m \in 1..m
      /\ Len(s) \in Nat /\ s \in Seq(Range(Intake)) /\ n \in 1..n
      /\ n + 1 \in 1..Len(s) /\ \A p \in 1..(n + 1) : p \in 1..Len(s)
  BY DEF Grouped, Covered, LastHolds, OldestFirst
<1>2. e \in Nat /\ e > 0 /\ done[m][e] = s[n] /\ done[m] \in Seq(Range(Intake))
  BY <1>1 DEF Grouped, Covered, LastHolds
<1>3. /\ after \in Seq(Seq(Range(Intake))) /\ Len(after) = m
      /\ \A i \in 1..(m - 1) : after[i] = done[i]
      /\ Len(after[m]) = e + 1 /\ after[m][e + 1] = r
      /\ \A k \in 1..e : after[m][k] = done[m][k]
  BY DEF Longer
<1>4. \A p \in 1..n : s[p] # r
  <2>1. ASSUME NEW p \in 1..n PROVE s[p] # r
    <3>1. p # n + 1 /\ p \in 1..Len(s)
      BY <1>1
    <3> QED
      BY <1>1, <3>1, PlacesDiffer
  <2> QED
    BY <2>1
<1>5. /\ \A i \in 1..m : Len(done[i]) \in Nat /\ Len(done[i]) > 0
      /\ \A i \in 1..m : \A k \in 1..Len(done[i]) :
           done[i][k] # r /\ \E p \in 1..n : done[i][k] = s[p]
  BY <1>1, <1>4 DEF Grouped, Covered
<1>6. \A i, j \in 1..m : \A k \in 1..Len(done[i]), l \in 1..Len(done[j]) :
        done[i][k] = done[j][l] => i = j /\ k = l
  BY DEF Grouped, PlacedOnce
<1>7. \A i \in 1..m : \A k \in 1..Len(done[i]) :
        done[i][1].at <= done[i][k].at /\ done[i][k].at <= done[i][Len(done[i])].at
  BY DEF Grouped, Spanned
<1>8. \A p, q \in 1..n :
        p <= q => ((\E i \in 1..m : InBatch(done, i, s[p]) /\ InBatch(done, i, s[q]))
                     <=> \A j \in p..(q - 1) : ~Apart(s, j))
  BY DEF Grouped, SplitAtGaps
<1> HIDE DEF m, r, e
<1>9. \A i \in 1..m : i \in 1..(m - 1) \/ i = m
  BY <1>1
<1>10. \A i \in 1..(m - 1) : i \in 1..m /\ i # m
  BY <1>1
<1>11. \A k \in 1..(e + 1) : k \in 1..e \/ k = e + 1
  BY <1>2
<1>12. e + 1 \in 1..(e + 1) /\ e \in 1..e /\ 1 \in 1..e /\ e + 1 \notin 1..e
       /\ \A k \in 1..e : k \in 1..(e + 1)
  BY <1>2
<1>13. Len(done[m]) = e
  BY DEF e
<1>14. Covered(after, s, n + 1)
  <2>1. ASSUME NEW i \in 1..m
        PROVE  Len(after[i]) > 0 /\ \A k \in 1..Len(after[i]) : \E p \in 1..(n + 1) : after[i][k] = s[p]
    <3>0. \A p \in 1..n : p \in 1..(n + 1)
      OBVIOUS
    <3>1. CASE i \in 1..(m - 1)
      <4>1. after[i] = done[i]
        BY <1>3, <3>1
      <4> QED
        BY <1>5, <3>0, <4>1
    <3>2. CASE i = m
      <4>1. Len(after[m]) > 0
        BY <1>2, <1>3
      <4>2. ASSUME NEW k \in 1..(e + 1) PROVE \E p \in 1..(n + 1) : after[m][k] = s[p]
        <5>1. CASE k \in 1..e
          <6>1. after[m][k] = done[m][k] /\ \E p \in 1..n : done[m][k] = s[p]
            BY <1>1, <1>3, <1>5, <1>13, <5>1
          <6> QED
            BY <3>0, <6>1
        <5>2. CASE k = e + 1
          <6>1. after[m][k] = s[n + 1] /\ n + 1 \in 1..(n + 1)
            BY <1>3, <5>2 DEF r
          <6> QED
            BY <6>1
        <5> QED
          BY <1>11, <5>1, <5>2
      <4> QED
        BY <1>3, <3>2, <4>1, <4>2
    <3> QED
      BY <1>9, <3>1, <3>2
  <2> QED
    BY <1>3, <2>1 DEF Covered
<1>15. LastHolds(after, s, n + 1)
  <2>1. Len(after) = m /\ after[m][Len(after[m])] = s[n + 1] /\ m > 0
    BY <1>1, <1>3 DEF r
  <2> QED
    BY <2>1 DEF LastHolds
<1>16. PlacedOnce(after)
  <2>1. ASSUME NEW i \in 1..m, NEW j \in 1..m, NEW k \in 1..Len(after[i]),
               NEW l \in 1..Len(after[j]), after[i][k] = after[j][l]
        PROVE  i = j /\ k = l
    <3>1. ASSUME NEW a \in 1..m, NEW b \in 1..Len(after[a])
          PROVE  \/ b \in 1..Len(done[a]) /\ after[a][b] = done[a][b] /\ after[a][b] # r
                 \/ a = m /\ b = e + 1 /\ after[a][b] = r
      <4>1. CASE a \in 1..(m - 1)
        <5>1. after[a] = done[a]
          BY <1>3, <4>1
        <5> QED
          BY <1>5, <3>1, <5>1
      <4>2. CASE a = m
        <5>1. b \in 1..(e + 1)
          BY <1>3, <4>2
        <5>2. CASE b = e + 1
          BY <1>3, <4>2, <5>2
        <5>3. CASE b \in 1..e
          <6>1. after[m][b] = done[m][b] /\ b \in 1..Len(done[m])
            BY <1>3, <1>13, <5>3
          <6>2. done[m][b] # r
            BY <1>1, <1>5, <6>1
          <6> QED
            BY <4>2, <6>1, <6>2
        <5> QED
          BY <1>11, <5>1, <5>2, <5>3
      <4> QED
        BY <1>9, <4>1, <4>2
    <3> HIDE DEF m
    <3>2. \/ k \in 1..Len(done[i]) /\ after[i][k] = done[i][k] /\ after[i][k] # r
          \/ i = m /\ k = e + 1 /\ after[i][k] = r
      BY <3>1
    <3>3. \/ l \in 1..Len(done[j]) /\ after[j][l] = done[j][l] /\ after[j][l] # r
          \/ j = m /\ l = e + 1 /\ after[j][l] = r
      BY <3>1
    <3>4. CASE after[i][k] = r
      BY <2>1, <3>2, <3>3, <3>4
    <3>5. CASE after[i][k] # r
      <4>1. /\ k \in 1..Len(done[i]) /\ l \in 1..Len(done[j]) /\ done[i][k] = done[j][l]
        BY <2>1, <3>2, <3>3, <3>5
      <4> QED
        BY <1>6, <4>1
    <3> QED
      BY <3>4, <3>5
  <2> QED
    BY <1>3, <2>1 DEF PlacedOnce
<1>17. /\ \A i \in 1..m : \A x : InBatch(after, i, x) <=> InBatch(done, i, x) \/ (i = m /\ x = r)
       /\ \A i \in 1..m : ~InBatch(done, i, r)
       /\ InBatch(done, m, s[n]) /\ \A i \in 1..m : InBatch(done, i, s[n]) => i = m
  <2>1. ASSUME NEW i \in 1..m, NEW x
        PROVE  InBatch(after, i, x) <=> InBatch(done, i, x) \/ (i = m /\ x = r)
    <3>1. CASE i \in 1..(m - 1)
      <4>1. after[i] = done[i] /\ i # m
        BY <1>3, <1>10, <3>1
      <4> QED
        BY <4>1 DEF InBatch
    <3>2. CASE i = m
      <4>1. InBatch(after, m, x) <=> \E k \in 1..(e + 1) : after[m][k] = x
        BY <1>3 DEF InBatch
      <4>2. InBatch(done, m, x) <=> \E k \in 1..e : done[m][k] = x
        BY <1>13 DEF InBatch
      <4> QED
        BY <1>3, <1>11, <1>12, <3>2, <4>1, <4>2
    <3> QED
      BY <1>9, <3>1, <3>2
  <2>2. \A i \in 1..m : ~InBatch(done, i, r)
    BY <1>5 DEF InBatch
  <2>3. InBatch(done, m, s[n])
    BY <1>2, <1>12, <1>13 DEF InBatch
  <2>4. ASSUME NEW i \in 1..m, InBatch(done, i, s[n]) PROVE i = m
    <3>1. PICK k \in 1..Len(done[i]) : done[i][k] = s[n]
      BY <2>4 DEF InBatch
    <3>2. e \in 1..Len(done[m]) /\ done[m][e] = s[n]
      BY <1>2, <1>12, <1>13
    <3>3. m \in 1..m /\ done[i][k] = done[m][e]
      BY <1>1, <3>1, <3>2
    <3> QED
      BY <1>6, <3>2, <3>3
  <2> QED
    BY <2>1, <2>2, <2>3, <2>4
<1>18. SplitAtGaps(after, s, n + 1)
  <2>1. ASSUME NEW p \in 1..(n + 1), NEW q \in 1..(n + 1), p <= q
        PROVE  (\E i \in 1..m : InBatch(after, i, s[p]) /\ InBatch(after, i, s[q]))
                 <=> \A j \in p..(q - 1) : ~Apart(s, j)
    <3>1. CASE q \in 1..n
      <4>1. p \in 1..n /\ s[p] # r /\ s[q] # r
        BY <1>4, <2>1, <3>1
      <4>2. \A i \in 1..m : InBatch(after, i, s[p]) /\ InBatch(after, i, s[q])
              <=> InBatch(done, i, s[p]) /\ InBatch(done, i, s[q])
        BY <1>17, <4>1
      <4>3. (\E i \in 1..m : InBatch(done, i, s[p]) /\ InBatch(done, i, s[q]))
              <=> \A j \in p..(q - 1) : ~Apart(s, j)
        BY <1>8, <2>1, <3>1, <4>1
      <4> QED
        BY <4>2, <4>3
    <3>2. CASE q = n + 1 /\ p = n + 1
      <4>1. InBatch(after, m, s[p]) /\ InBatch(after, m, s[q])
        BY <1>1, <1>17, <3>2 DEF r
      <4>2. \A j \in p..(q - 1) : FALSE
        BY <3>2
      <4> QED
        BY <1>1, <4>1, <4>2
    <3>3. CASE q = n + 1 /\ p \in 1..n
      <4>1. s[q] = r /\ s[p] # r
        BY <1>4, <3>3 DEF r
      <4>2. \A i \in 1..m : InBatch(after, i, s[p]) /\ InBatch(after, i, s[q])
              <=> InBatch(done, i, s[p]) /\ i = m
        BY <1>17, <4>1
      <4>3. \A i \in 1..m : InBatch(done, i, s[p]) /\ i = m
              <=> InBatch(done, i, s[p]) /\ InBatch(done, i, s[n])
        BY <1>17
      <4>4. (\E i \in 1..m : InBatch(done, i, s[p]) /\ InBatch(done, i, s[n]))
              <=> \A j \in p..(n - 1) : ~Apart(s, j)
        <5>1. p <= n
          BY <3>3
        <5> QED
          BY <1>1, <1>8, <3>3, <5>1
      <4>5. (\A j \in p..(n - 1) : ~Apart(s, j)) <=> \A j \in p..(q - 1) : ~Apart(s, j)
        <5>1. \A j : j \in p..(q - 1) <=> j \in p..(n - 1) \/ j = n
          BY <3>3
        <5> QED
          BY <5>1
      <4> QED
        BY <4>2, <4>3, <4>4, <4>5
    <3>4. q \in 1..n \/ q = n + 1
      OBVIOUS
    <3>5. p \in 1..n \/ p = n + 1
      OBVIOUS
    <3> QED
      BY <3>1, <3>2, <3>3, <3>4, <3>5
  <2> QED
    BY <1>3, <2>1 DEF SplitAtGaps
<1>19. Spanned(after)
  <2>1. ASSUME NEW i \in 1..m, NEW k \in 1..Len(after[i])
        PROVE  after[i][1].at <= after[i][k].at /\ after[i][k].at <= after[i][Len(after[i])].at
    <3>1. CASE i \in 1..(m - 1)
      <4>1. after[i] = done[i]
        BY <1>3, <3>1
      <4> QED
        BY <1>7, <2>1, <4>1
    <3>2. CASE i = m
      <4> DEFINE low == done[m][1].at
                 high == s[n].at
      <4>1. /\ after[m][1] = done[m][1] /\ after[m][e + 1] = r /\ Len(after[m]) = e + 1
        BY <1>3, <1>12
      <4>2. r.at \in Int /\ high \in Int /\ high <= r.at
        <5>1. n \in 1..Len(s) /\ n < n + 1
          BY <1>1
        <5>2. s[n].at <= s[n + 1].at
          BY <1>1, <5>1 DEF OldestFirst
        <5>3. s[n] \in Range(Intake) /\ s[n + 1] \in Range(Intake)
          BY <1>1, <5>1
        <5> QED
          BY <5>2, <5>3, RowsTimed DEF r
      <4>3. \A l \in 1..e : low <= done[m][l].at /\ done[m][l].at <= high /\ done[m][l].at \in Int
        <5>1. \A l \in 1..e : done[m][l] \in Range(Intake)
          BY <1>2, <1>13
        <5> QED
          BY <1>1, <1>2, <1>7, <1>13, <5>1, RowsTimed
      <4>4. low \in Int /\ low <= r.at
        <5>1. low <= done[m][1].at /\ done[m][1].at <= high /\ done[m][1].at \in Int
          BY <1>12, <4>3
        <5> QED
          BY <4>2, <5>1
      <4>5. k \in 1..e \/ k = e + 1
        BY <1>3, <1>11, <3>2
      <4> HIDE DEF high
      <4>6. CASE k \in 1..e
        <5>1. after[i][k] = done[m][k] /\ low <= done[m][k].at /\ done[m][k].at <= high
              /\ done[m][k].at \in Int
          BY <1>3, <3>2, <4>3, <4>6
        <5>2. after[i][1].at = low /\ after[i][Len(after[i])] = r
          BY <3>2, <4>1
        <5> HIDE DEF low
        <5> QED
          BY <4>2, <4>4, <5>1, <5>2
      <4>7. CASE k = e + 1
        <5>1. after[i][k] = r /\ after[i][1].at = low /\ after[i][Len(after[i])] = r
          BY <3>2, <4>1, <4>7
        <5> HIDE DEF low
        <5> QED
          BY <4>2, <4>4, <5>1
      <4> QED
        BY <4>5, <4>6, <4>7
    <3> QED
      BY <1>9, <3>1, <3>2
  <2> QED
    BY <1>3, <2>1 DEF Spanned
<1> QED
  BY <1>14, <1>15, <1>16, <1>18, <1>19 DEF Grouped

(* The batches of the first n rows, as ClustersOf makes them.              *)
IsUpTo(f, s, n) ==
  f = [i \in 0..n |-> IF i = 0 THEN <<>> ELSE Added(f[i - 1], s[i])]

UpTo(s) == CHOOSE f : IsUpTo(f, s, Len(s))

LEMMA UpToExists ==
  ASSUME NEW s, Len(s) \in Nat
  PROVE  IsUpTo(UpTo(s), s, Len(s))
<1> DEFINE n == Len(s)
           G == {k \in 0..n : \E f : IsUpTo(f, s, k)}
<1>1. n \in Nat
  OBVIOUS
<1>2. 0 \in G
  <2> DEFINE f == [i \in 0..0 |-> <<>>]
  <2>1. IsUpTo(f, s, 0)
    BY DEF IsUpTo
  <2> QED
    BY <1>1, <2>1
<1>3. ASSUME NEW k \in 0..n, k \in G, k < n PROVE k + 1 \in G
  <2>1. PICK f : IsUpTo(f, s, k)
    BY <1>3
  <2> DEFINE g == [i \in 0..k+1 |-> IF i <= k THEN f[i] ELSE Added(f[k], s[k + 1])]
  <2>2. ASSUME NEW i \in 0..k+1
        PROVE  g[i] = IF i = 0 THEN <<>> ELSE Added(g[i - 1], s[i])
    <3>1. CASE i <= k
      <4> DEFINE h == [x \in 0..k |-> IF x = 0 THEN <<>> ELSE Added(f[x - 1], s[x])]
      <4>0. f = h /\ i \in 0..k
        <5>1. f = h
          BY <2>1, Zenon DEF IsUpTo
        <5>2. i \in 0..k
          BY <3>1, <1>1
        <5> HIDE DEF h
        <5> QED
          BY <5>1, <5>2
      <4>1. f[i] = IF i = 0 THEN <<>> ELSE Added(f[i - 1], s[i])
        <5>1. h[i] = IF i = 0 THEN <<>> ELSE Added(f[i - 1], s[i])
          BY <4>0
        <5> HIDE DEF h
        <5> QED
          BY <4>0, <5>1
      <4>2. g[i] = f[i] /\ (i # 0 => g[i - 1] = f[i - 1])
        BY <3>1, <1>1
      <4> HIDE DEF g
      <4> QED
        BY <4>1, <4>2
    <3>2. CASE i = k + 1
      <4>1. i # 0 /\ i - 1 = k /\ ~(i <= k) /\ k <= k /\ k \in 0..k+1
        BY <3>2, <1>1
      <4>2. g[i] = Added(f[k], s[k + 1]) /\ g[i - 1] = f[k]
        BY <4>1
      <4> HIDE DEF g
      <4> QED
        BY <3>2, <4>1, <4>2
    <3> QED
      BY <3>1, <3>2, <1>1
  <2>3. IsUpTo(g, s, k + 1)
    <3>1. g = [i \in 0..k+1 |-> g[i]]
      OBVIOUS
    <3> HIDE DEF g
    <3> QED
      BY <2>2, <3>1 DEF IsUpTo
  <2> QED
    BY <2>3, <1>1, <1>3
<1>4. n \in G
  <2> HIDE DEF G, n
  <2>1. \A k \in 0..n : k \in G
    BY <1>1, <1>2, <1>3, StepByStep
  <2> QED
    BY <1>1, <2>1
<1> QED
  BY <1>4 DEF UpTo

LEMMA GroupedUpTo ==
  ASSUME NEW s, OldestFirst(s)
  PROVE  Grouped(UpTo(s)[Len(s)], s, Len(s))
<1> DEFINE n == Len(s)
           f == UpTo(s)
           G == {k \in 0..n : Grouped(f[k], s, k)}
<1>1. n \in Nat /\ s \in Seq(Range(Intake))
  BY DEF OldestFirst
<1>2. \A i \in 0..n : f[i] = IF i = 0 THEN <<>> ELSE Added(f[i - 1], s[i])
  <2> DEFINE h == [i \in 0..n |-> IF i = 0 THEN <<>> ELSE Added(f[i - 1], s[i])]
  <2>1. f = h
    BY <1>1, UpToExists DEF IsUpTo
  <2>2. \A i \in 0..n : h[i] = IF i = 0 THEN <<>> ELSE Added(f[i - 1], s[i])
    OBVIOUS
  <2> HIDE DEF h, f
  <2> QED
    BY <2>1, <2>2
<1> HIDE DEF f, n
<1>3. 0 \in G
  <2>1. f[0] = <<>>
    BY <1>1, <1>2
  <2> QED
    BY <1>1, <2>1, NothingGrouped
<1>4. ASSUME NEW k \in 0..n, k \in G, k < n PROVE k + 1 \in G
  <2> DEFINE done == f[k]
             after == f[k + 1]
             r == s[k + 1]
  <2>1. k \in Nat /\ k + 1 \in 0..n /\ k + 1 \in 1..n /\ k + 1 # 0 /\ k + 1 - 1 = k
    BY <1>1, <1>4
  <2>2. after = Added(done, r)
    BY <1>2, <2>1
  <2>3. Grouped(done, s, k) /\ r \in Range(Intake) /\ done \in Seq(Seq(Range(Intake)))
    BY <1>1, <1>4, <2>1 DEF n, Grouped, Covered
  <2>4. k < Len(s)
    BY <1>4 DEF n
  <2> HIDE DEF done, after
  <2>5. CASE k = 0
    <3>1. done = <<>>
      BY <2>3, <2>5 DEF Grouped, LastHolds
    <3>2. NewBatch(done, after, r)
      BY <2>2, <2>3, <3>1, AddedIs
    <3> QED
      BY <2>1, <2>3, <2>4, <2>5, <3>2, GroupNew DEF after
  <2>6. CASE k > 0
    <3>1. Len(done) > 0 /\ done[Len(done)][Len(done[Len(done)])] = s[k]
      BY <2>3, <2>6 DEF Grouped, LastHolds
    <3>2. done # <<>>
      BY <3>1
    <3>3. Flushes(done[Len(done)], r) <=> Apart(s, k)
      BY <3>1 DEF Flushes, Apart
    <3>4. CASE Apart(s, k)
      <4>1. NewBatch(done, after, r)
        BY <2>2, <2>3, <3>3, <3>4, AddedIs
      <4> QED
        BY <2>1, <2>3, <2>4, <3>4, <4>1, GroupNew DEF after
    <3>5. CASE ~Apart(s, k)
      <4>1. Longer(done, after, r)
        BY <2>2, <2>3, <3>2, <3>3, <3>5, AddedIs
      <4> QED
        BY <2>1, <2>3, <2>4, <2>6, <3>5, <4>1, GroupLonger DEF after
    <3> QED
      BY <3>4, <3>5
  <2> QED
    BY <2>1, <2>5, <2>6
<1>5. n \in G
  <2> HIDE DEF G
  <2>1. \A k \in 0..n : k \in G
    BY <1>1, <1>3, <1>4, StepByStep
  <2> QED
    BY <1>1, <2>1
<1> QED
  BY <1>5 DEF f, n

OldestOf(source) == Reverse(Keep(OnPage, {r \in Range(OnPage) : r.source = source}))

LEMMA OldestOrdered ==
  ASSUME ByTime(OnPage), NEW source
  PROVE  /\ OldestFirst(OldestOf(source))
         /\ Range(OldestOf(source)) = {r \in Range(OnPage) : r.source = source}
<1> DEFINE t == Keep(OnPage, {r \in Range(OnPage) : r.source = source})
           n == Len(t)
           s == OldestOf(source)
<1>1. ByTime(t) /\ Range(t) = {r \in Range(OnPage) : r.source = source}
  BY KeepInOrder
<1>2. t \in Seq(Range(Intake)) /\ n \in Nat
  BY <1>1 DEF ByTime
<1>3. s = [i \in 1..n |-> t[(n - i) + 1]]
  BY DEF OldestOf, Reverse
<1> HIDE DEF t, s
<1>4. \A i \in 1..n : (n - i) + 1 \in 1..n /\ s[i] = t[(n - i) + 1]
  BY <1>2, <1>3
<1>5. s \in Seq(Range(Intake)) /\ Len(s) = n
  <2>1. \A i \in 1..n : t[(n - i) + 1] \in Range(Intake)
    BY <1>2, <1>4
  <2> QED
    BY <1>2, <1>3, <2>1
<1>6. ASSUME NEW i \in 1..n, NEW j \in 1..n, i < j
      PROVE  s[i].id # s[j].id /\ s[i].at <= s[j].at
  <2> DEFINE a == (n - i) + 1
             b == (n - j) + 1
  <2>1. a \in 1..n /\ b \in 1..n /\ b < a /\ s[i] = t[a] /\ s[j] = t[b]
    BY <1>2, <1>4, <1>6
  <2> HIDE DEF a, b, n
  <2>2. t[a] \in Range(Intake) /\ t[b] \in Range(Intake)
    BY <1>2, <2>1 DEF n
  <2>3. t[b].id # t[a].id /\ t[b].at >= t[a].at
    BY <1>1, <2>1 DEF ByTime, n
  <2>4. t[a].at \in Int /\ t[b].at \in Int
    BY <2>2, RowsTimed
  <2> QED
    BY <2>1, <2>3, <2>4
<1>7. OldestFirst(s)
  BY <1>5, <1>6 DEF OldestFirst
<1>8. ASSUME NEW x PROVE x \in Range(s) <=> x \in Range(t)
  <2>1. x \in Range(s) <=> \E i \in 1..n : x = s[i]
    BY <1>5, RangeIs
  <2>2. x \in Range(t) <=> \E i \in 1..n : x = t[i]
    BY <1>2, RangeIs
  <2>3. ASSUME NEW i \in 1..n PROVE \E j \in 1..n : s[j] = t[i]
    <3> DEFINE j == (n - i) + 1
    <3>1. j \in 1..n /\ (n - j) + 1 = i
      BY <1>2
    <3>2. s[j] = t[i]
      BY <1>4, <3>1
    <3> QED
      BY <3>1, <3>2
  <2> QED
    BY <1>4, <2>1, <2>2, <2>3
<1> QED
  BY <1>1, <1>7, <1>8 DEF s

LEMMA ClustersGrouped ==
  ASSUME ByTime(OnPage), NEW source
  PROVE  Grouped(ClustersOf(source), OldestOf(source), Len(OldestOf(source)))
<1>1. ClustersOf(source) = UpTo(OldestOf(source))[Len(OldestOf(source))]
  BY DEF ClustersOf, UpTo, IsUpTo, OldestOf
<1> QED
  BY <1>1, OldestOrdered, GroupedUpTo

-----------------------------------------------------------------------------
(* The batches on screen                                                   *)
Sources == {r.source : r \in Range(OnPage)}

(* A batch on screen is one of the clusters of one source.                 *)
LEMMA BatchOf ==
  ASSUME ByTime(OnPage), NEW b
  PROVE  b \in BatchesShown <=>
           \E src \in Sources : \E i \in 1..Len(ClustersOf(src)) : b = ClustersOf(src)[i]
<1>1. ASSUME NEW src
      PROVE  b \in Range(ClustersOf(src)) <=> \E i \in 1..Len(ClustersOf(src)) : b = ClustersOf(src)[i]
  <2>1. ClustersOf(src) \in Seq(Seq(Range(Intake)))
    BY ClustersGrouped DEF Grouped, Covered
  <2> QED
    BY <2>1, RangeIs
<1>2. b \in BatchesShown <=> \E src \in Sources : b \in Range(ClustersOf(src))
  BY DEF BatchesShown, Sources
<1> QED
  BY <1>1, <1>2

(* Its rows are rows of the page, of that source.                          *)
LEMMA RowOfBatch ==
  ASSUME ByTime(OnPage), NEW src, NEW i \in 1..Len(ClustersOf(src))
  PROVE  /\ ClustersOf(src)[i] \in Seq(Range(Intake)) /\ Len(ClustersOf(src)[i]) > 0
         /\ \A k \in 1..Len(ClustersOf(src)[i]) :
              ClustersOf(src)[i][k] \in Range(OnPage) /\ ClustersOf(src)[i][k].source = src
<1> DEFINE done == ClustersOf(src)
           s == OldestOf(src)
<1>1. Grouped(done, s, Len(s)) /\ OldestFirst(s) /\ Range(s) = {r \in Range(OnPage) : r.source = src}
  BY ClustersGrouped, OldestOrdered
<1> HIDE DEF done, s
<1>2. done \in Seq(Seq(Range(Intake))) /\ i \in 1..Len(done)
  BY <1>1 DEF Grouped, Covered, done
<1>3. s \in Seq(Range(Intake))
  BY <1>1 DEF OldestFirst
<1>4. ASSUME NEW k \in 1..Len(done[i]) PROVE done[i][k] \in Range(OnPage) /\ done[i][k].source = src
  <2>1. PICK p \in 1..Len(s) : done[i][k] = s[p]
    BY <1>1, <1>2 DEF Grouped, Covered
  <2>2. s[p] \in Range(s)
    BY <1>3, RangeIs
  <2> QED
    BY <1>1, <2>1, <2>2
<1>5. done[i] \in Seq(Range(Intake)) /\ Len(done[i]) > 0
  BY <1>1, <1>2 DEF Grouped, Covered
<1> QED
  BY <1>4, <1>5 DEF done

(* Rows of one source are in one batch exactly if no gap is between them.  *)
LEMMA TogetherIfNoGap ==
  ASSUME ByTime(OnPage), NEW a \in Range(OnPage), NEW c \in Range(OnPage),
         NEW p \in 1..Len(OldestOf(a.source)), NEW q \in 1..Len(OldestOf(a.source)), p <= q,
         a = OldestOf(a.source)[p], c = OldestOf(a.source)[q]
  PROVE  (\E batch \in BatchesShown : {a, c} \subseteq Range(batch))
           <=> \A j \in p..(q - 1) : ~Apart(OldestOf(a.source), j)
<1> DEFINE src == a.source
           done == ClustersOf(src)
           s == OldestOf(src)
<1>1. Grouped(done, s, Len(s)) /\ src \in Sources
  BY ClustersGrouped DEF Sources
<1>2. (\E i \in 1..Len(done) : InBatch(done, i, a) /\ InBatch(done, i, c))
        <=> \A j \in p..(q - 1) : ~Apart(s, j)
  <2> HIDE DEF done
  <2> QED
    BY <1>1 DEF Grouped, SplitAtGaps
<1>3. ASSUME NEW batch \in BatchesShown, {a, c} \subseteq Range(batch)
      PROVE  \E i \in 1..Len(done) : InBatch(done, i, a) /\ InBatch(done, i, c)
  <2>1. PICK so \in Sources : \E i \in 1..Len(ClustersOf(so)) : batch = ClustersOf(so)[i]
    BY BatchOf
  <2>2. PICK i \in 1..Len(ClustersOf(so)) : batch = ClustersOf(so)[i]
    BY <2>1
  <2>3. batch \in Seq(Range(Intake)) /\ \A k \in 1..Len(batch) : batch[k].source = so
    BY <2>2, RowOfBatch
  <2>4. /\ \E k \in 1..Len(batch) : a = batch[k]
        /\ \E k \in 1..Len(batch) : c = batch[k]
    BY <1>3, <2>3, RangeIs
  <2>5. so = src
    BY <2>3, <2>4
  <2> QED
    BY <2>2, <2>4, <2>5 DEF InBatch
<1>4. ASSUME NEW i \in 1..Len(done), InBatch(done, i, a), InBatch(done, i, c)
      PROVE  \E batch \in BatchesShown : {a, c} \subseteq Range(batch)
  <2>1. done[i] \in BatchesShown
    BY <1>1, BatchOf
  <2>2. done[i] \in Seq(Range(Intake))
    BY RowOfBatch
  <2>3. a \in Range(done[i]) /\ c \in Range(done[i])
    BY <1>4, <2>2, RangeIs DEF InBatch
  <2> QED
    BY <2>1, <2>3
<1> QED
  BY <1>2, <1>3, <1>4

LEMMA BatchesOfOneSource ==
  ASSUME ByTime(OnPage), NEW batch \in BatchesShown, NEW a, NEW c, {a, c} \subseteq Range(batch)
  PROVE  a.source = c.source
<1>1. PICK so \in Sources : \E i \in 1..Len(ClustersOf(so)) : batch = ClustersOf(so)[i]
  BY BatchOf
<1>2. PICK i \in 1..Len(ClustersOf(so)) : batch = ClustersOf(so)[i]
  BY <1>1
<1>3. batch \in Seq(Range(Intake)) /\ \A k \in 1..Len(batch) : batch[k].source = so
  BY <1>2, RowOfBatch
<1> QED
  BY <1>3, RangeIs

Nexts(c, e)  == e.source = c.source /\ c.at < e.at /\ e.at - c.at <= Gap
Linked(a, b) == \A c \in Range(OnPage) : c.source = a.source /\ a.at <= c.at /\ c.at < b.at
                                           => \E e \in Range(OnPage) : Nexts(c, e)

(* Linked says in times what no gap says in places.                        *)
LEMMA NoGapIfLinked ==
  ASSUME NEW s, OldestFirst(s), NEW src, Range(s) = {r \in Range(OnPage) : r.source = src},
         NEW p \in 1..Len(s), NEW q \in 1..Len(s), p <= q, Linked(s[p], s[q]), NEW j \in p..(q - 1)
  PROVE  ~Apart(s, j)
<1>0. s \in Seq(Range(Intake)) /\ Len(s) \in Nat
  BY DEF OldestFirst
<1>1. j \in 1..Len(s) /\ j + 1 \in 1..Len(s) /\ p <= j /\ j + 1 <= q
  BY <1>0
<1>2. \A i \in 1..Len(s) : s[i] \in Range(Intake) /\ s[i].at \in Int
                           /\ s[i] \in Range(OnPage) /\ s[i].source = src
  <2>1. \A i \in 1..Len(s) : s[i] \in Range(s)
    BY <1>0, RangeIs
  <2> QED
    BY <1>0, <2>1, RowsTimed
<1>3. \A i, k \in 1..Len(s) : i <= k => s[i].at <= s[k].at
  <2>1. ASSUME NEW i \in 1..Len(s), NEW k \in 1..Len(s), i <= k PROVE s[i].at <= s[k].at
    <3>1. CASE i = k
      BY <1>2, <3>1
    <3>2. CASE i < k
      BY <3>2 DEF OldestFirst
    <3> QED
      BY <1>0, <2>1, <3>1, <3>2
  <2> QED
    BY <2>1
<1>4. Gap \in Nat
  BY RequestsListAssumption
<1>5. s[p].at <= s[j].at /\ s[j].at <= s[j + 1].at /\ s[j + 1].at <= s[q].at
      /\ s[j].at \in Int /\ s[j + 1].at \in Int /\ s[q].at \in Int
  <2>1. j <= j + 1 /\ p <= j /\ j + 1 <= q
    BY <1>1
  <2> QED
    BY <1>1, <1>2, <1>3, <2>1
<1>6. CASE s[j].at = s[j + 1].at
  BY <1>4, <1>5, <1>6 DEF Apart
<1>7. CASE s[j].at < s[j + 1].at
  <2>1. s[j] \in Range(OnPage) /\ s[j].source = s[p].source /\ s[j].at < s[q].at
    BY <1>1, <1>2, <1>5, <1>7
  <2>2. PICK e \in Range(OnPage) : Nexts(s[j], e)
    BY <1>5, <2>1 DEF Linked
  <2>3. e.source = src /\ s[j].at < e.at /\ e.at - s[j].at <= Gap
    BY <1>1, <1>2, <2>2 DEF Nexts
  <2>4. PICK k \in 1..Len(s) : e = s[k]
    BY <1>0, <2>3, RangeIs
  <2>5. s[k].at \in Int
    BY <1>2
  <2>6. j + 1 <= k
    <3>1. ~(k <= j)
      BY <1>1, <1>3, <1>5, <2>3, <2>4, <2>5
    <3> QED
      BY <1>1, <3>1
  <2>7. s[j + 1].at <= s[k].at
    BY <1>1, <1>3, <2>6
  <2> QED
    BY <1>4, <1>5, <2>3, <2>4, <2>5, <2>7 DEF Apart
<1> QED
  BY <1>5, <1>6, <1>7

LEMMA LinkedIfNoGap ==
  ASSUME NEW s, OldestFirst(s), NEW src, Range(s) = {r \in Range(OnPage) : r.source = src},
         NEW p \in 1..Len(s), NEW q \in 1..Len(s), p <= q,
         \A j \in p..(q - 1) : ~Apart(s, j)
  PROVE  Linked(s[p], s[q])
<1>0. s \in Seq(Range(Intake)) /\ Len(s) \in Nat
  BY DEF OldestFirst
<1>2. \A i \in 1..Len(s) : s[i] \in Range(Intake) /\ s[i].at \in Int
                           /\ s[i] \in Range(OnPage) /\ s[i].source = src
  <2>1. \A i \in 1..Len(s) : s[i] \in Range(s)
    BY <1>0, RangeIs
  <2> QED
    BY <1>0, <2>1, RowsTimed
<1>3. \A i, k \in 1..Len(s) : i <= k => s[i].at <= s[k].at
  <2>1. ASSUME NEW i \in 1..Len(s), NEW k \in 1..Len(s), i <= k PROVE s[i].at <= s[k].at
    <3>1. CASE i = k
      BY <1>2, <3>1
    <3>2. CASE i < k
      BY <3>2 DEF OldestFirst
    <3> QED
      BY <1>0, <2>1, <3>1, <3>2
  <2> QED
    BY <2>1
<1>4. ASSUME NEW c \in Range(OnPage), c.source = s[p].source, s[p].at <= c.at, c.at < s[q].at
      PROVE  \E e \in Range(OnPage) : Nexts(c, e)
  <2>1. PICK k \in 1..Len(s) : c = s[k]
    <3>1. c.source = src
      BY <1>2, <1>4
    <3> QED
      BY <1>0, <3>1, RangeIs
  <2> DEFINE T == {i \in 1..Len(s) : s[i].at <= c.at}
             m == Max(T)
  <2>2. m \in T /\ \A i \in T : i <= m
    <3>1. k \in T /\ T \subseteq 1..Len(s) /\ p \in T
      BY <1>2, <1>4, <2>1
    <3> HIDE DEF T
    <3> QED
      BY <1>0, <3>1, GreatestThere
  <2>3. p \in T /\ k \in T
    BY <1>2, <1>4, <2>1
  <2> HIDE DEF m
  <2>4. p <= m /\ k <= m /\ m \in 1..Len(s) /\ s[m].at <= c.at
    BY <2>2, <2>3
  <2>5. s[m].at = c.at /\ s[m].at \in Int /\ c.at \in Int
    BY <1>2, <1>3, <2>1, <2>4
  <2>6. m < q
    <3>1. ~(q <= m)
      BY <1>2, <1>3, <1>4, <2>4, <2>5
    <3> QED
      BY <1>0, <2>4, <3>1
  <2>7. m \in p..(q - 1) /\ m + 1 \in 1..Len(s)
    BY <1>0, <2>4, <2>6
  <2>8. s[m + 1].at \in Int /\ s[m + 1] \in Range(OnPage) /\ s[m + 1].source = c.source
    BY <1>2, <1>4, <2>7
  <2>9. c.at < s[m + 1].at
    <3>1. m + 1 \notin T
      BY <2>2, <2>4
    <3> QED
      BY <2>5, <2>7, <2>8, <3>1
  <2>10. s[m + 1].at - c.at <= Gap
    <3>1. ~(s[m + 1].at - s[m].at > Gap)
      BY <2>7 DEF Apart
    <3>2. Gap \in Nat
      BY RequestsListAssumption
    <3> QED
      BY <2>5, <2>8, <3>1, <3>2
  <2> QED
    BY <2>8, <2>9, <2>10 DEF Nexts
<1> QED
  BY <1>4 DEF Linked

LEMMA RunsShown ==
  ASSUME ByTime(OnPage) PROVE BatchesAreRuns
<1>1. ASSUME NEW a \in Range(OnPage), NEW c \in Range(OnPage), a.at <= c.at
      PROVE  (\E batch \in BatchesShown : {a, c} \subseteq Range(batch))
               <=> a.source = c.source /\ Linked(a, c)
  <2>1. ASSUME NEW batch \in BatchesShown, {a, c} \subseteq Range(batch) PROVE a.source = c.source
    BY <2>1, BatchesOfOneSource
  <2>2. CASE a.source = c.source
    <3> DEFINE s == OldestOf(a.source)
    <3>1. OldestFirst(s) /\ Range(s) = {r \in Range(OnPage) : r.source = a.source}
      BY OldestOrdered
    <3>2. s \in Seq(Range(Intake)) /\ Len(s) \in Nat
      BY <3>1 DEF OldestFirst
    <3> HIDE DEF s
    <3>3. PICK p \in 1..Len(s) : a = s[p]
      BY <3>1, <3>2, RangeIs
    <3>4. PICK q \in 1..Len(s) : c = s[q]
      BY <2>2, <3>1, <3>2, RangeIs
    <3>5. a.at \in Int /\ c.at \in Int
      BY <3>2, <3>3, <3>4, RowsTimed
    <3>6. CASE p <= q
      <4>1. (\E batch \in BatchesShown : {a, c} \subseteq Range(batch))
              <=> \A j \in p..(q - 1) : ~Apart(s, j)
        BY <3>3, <3>4, <3>6, TogetherIfNoGap DEF s
      <4>2. (\A j \in p..(q - 1) : ~Apart(s, j)) => Linked(a, c)
        BY <3>1, <3>3, <3>4, <3>6, LinkedIfNoGap
      <4>3. ASSUME Linked(a, c), NEW j \in p..(q - 1) PROVE ~Apart(s, j)
        BY <3>1, <3>3, <3>4, <3>6, <4>3, NoGapIfLinked
      <4> QED
        BY <2>2, <4>1, <4>2, <4>3
    <3>7. CASE q < p
      <4>1. c.at <= a.at
        BY <3>1, <3>3, <3>4, <3>7 DEF OldestFirst
      <4>2. c.at = a.at
        BY <1>1, <3>5, <4>1
      <4>3. Linked(a, c) /\ Linked(c, a)
        <5>1. ASSUME NEW d, a.at <= d.at, d.at < c.at, d \in Range(OnPage) PROVE FALSE
          <6>1. d.at \in Int
            <7>1. OnPage \in Seq(Range(Intake))
              BY DEF ByTime
            <7>2. d \in Range(Intake)
              BY <5>1, <7>1, RangeOfSeq
            <7> QED
              BY <7>2, RowsTimed
          <6> QED
            BY <3>5, <4>2, <5>1, <6>1
        <5> QED
          BY <4>2, <5>1 DEF Linked
      <4>4. q <= p
        BY <3>7
      <4>5. \A j \in q..(p - 1) : ~Apart(s, j)
        <5>1. ASSUME NEW j \in q..(p - 1) PROVE ~Apart(s, j)
          BY <3>1, <3>3, <3>4, <4>3, <4>4, NoGapIfLinked
        <5> QED
          BY <5>1
      <4>6. \E batch \in BatchesShown : {c, a} \subseteq Range(batch)
        BY <2>2, <3>3, <3>4, <4>4, <4>5, TogetherIfNoGap DEF s
      <4> QED
        BY <2>2, <4>3, <4>6
    <3> QED
      BY <3>6, <3>7
  <2> QED
    BY <2>1, <2>2
<1>2. ASSUME NEW b1 \in BatchesShown, NEW b2 \in BatchesShown,
             NEW k1 \in DOMAIN b1, NEW k2 \in DOMAIN b2, b1[k1] = b2[k2]
      PROVE  b1 = b2 /\ k1 = k2
  <2>1. PICK s1 \in Sources : \E i \in 1..Len(ClustersOf(s1)) : b1 = ClustersOf(s1)[i]
    BY BatchOf
  <2>2. PICK i \in 1..Len(ClustersOf(s1)) : b1 = ClustersOf(s1)[i]
    BY <2>1
  <2>3. PICK s2 \in Sources : \E j \in 1..Len(ClustersOf(s2)) : b2 = ClustersOf(s2)[j]
    BY BatchOf
  <2>4. PICK j \in 1..Len(ClustersOf(s2)) : b2 = ClustersOf(s2)[j]
    BY <2>3
  <2>5. /\ b1 \in Seq(Range(Intake)) /\ \A k \in 1..Len(b1) : b1[k].source = s1
        /\ b2 \in Seq(Range(Intake)) /\ \A k \in 1..Len(b2) : b2[k].source = s2
    BY <2>2, <2>4, RowOfBatch
  <2>6. k1 \in 1..Len(b1) /\ k2 \in 1..Len(b2)
    BY <2>5
  <2>7. s1 = s2
    BY <1>2, <2>5, <2>6
  <2>8. PlacedOnce(ClustersOf(s1))
    BY ClustersGrouped DEF Grouped
  <2> QED
    BY <1>2, <2>2, <2>4, <2>6, <2>7, <2>8 DEF PlacedOnce
<1> QED
  BY <1>1, <1>2 DEF BatchesAreRuns, Linked, Nexts

-----------------------------------------------------------------------------
(* The page asked for                                                      *)
LEMMA PageInOrder ==
  ASSUME ByTime(held.rows)
  PROVE  ByTime(OnPage) /\ Range(OnPage) = {r \in Range(held.rows) : Narrows(r)}
<1> DEFINE S == {r \in Range(held.rows) : Narrows(r)}
<1>1. ByTime(OnPage) /\ Range(OnPage) = Range(held.rows) \cap S
  BY KeepInOrder DEF OnPage
<1> QED
  BY <1>1

LEMMA PageSizes == \A s : SizeOfPage(s) \in Nat /\ SizeOfPage(s) > 0
  BY RequestsListAssumption DEF SizeOfPage

(* A page of the server holds rows that were asked for, the first of a     *)
(* short list all of them.                                                 *)
LEMMA ListingIs ==
  ASSUME NEW rs, rs \subseteq Range(Intake), NEW s, NEW what, NEW no \in Nat, no > 0
  PROVE  /\ ByTime(Listing(rs, s, what, no).rows) /\ Listing(rs, s, what, no).total \in Nat
         /\ Range(Listing(rs, s, what, no).rows) \subseteq Selected(rs, s, what)
         /\ no = 1 /\ ~s.byBatch /\ Listing(rs, s, what, no).total <= FlatSize =>
              Range(Listing(rs, s, what, no).rows) = Selected(rs, s, what)
<1> DEFINE wanted == Selected(rs, s, what)
           all    == Newest(wanted)
           size   == SizeOfPage(s)
           from   == (no - 1) * size
           here   == Listing(rs, s, what, no)
<1>1. ByTime(all) /\ Range(all) = wanted
  <2>1. ByTime(all) /\ Range(all) = Range(Intake) \cap wanted
    BY IntakeInOrder, KeepInOrder DEF Newest
  <2>2. wanted \subseteq Range(Intake)
    BY DEF Selected
  <2> QED
    BY <2>1, <2>2
<1>2. size \in Nat /\ size > 0
  BY PageSizes
<1>3. from \in Nat
  <2> HIDE DEF size
  <2>1. no - 1 \in Nat
    OBVIOUS
  <2> QED
    BY <1>2, <2>1
<1>4. here.rows = CutOf(all, from, size) /\ here.total = Len(all)
  BY DEF Listing, CutOf
<1>5. Len(all) \in Nat
  BY <1>1 DEF ByTime
<1>6. no = 1 => from = 0
  <2> HIDE DEF size
  <2> QED
    BY <1>2
<1> HIDE DEF wanted, all, from, here
<1>7. ASSUME no = 1, ~s.byBatch, here.total <= FlatSize PROVE Range(here.rows) = wanted
  <2>1. size = FlatSize
    BY <1>7 DEF SizeOfPage
  <2> HIDE DEF size
  <2>2. from = 0 /\ Len(all) <= size
    BY <1>4, <1>6, <1>7, <2>1
  <2>3. here.rows = all
    BY <1>1, <1>2, <1>3, <1>4, <2>2, CutInOrder
  <2> QED
    BY <1>1, <2>3
<1> HIDE DEF size
<1>8. ByTime(here.rows) /\ Range(here.rows) \subseteq wanted
  BY <1>1, <1>2, <1>3, <1>4, CutInOrder
<1> QED
  BY <1>4, <1>5, <1>7, <1>8 DEF wanted, here

AtFirst == {r.id : r \in Range(Intake)} \ LateIntake

(* Of whom the rows on screen are when they are loaded.                    *)
Answers(ids, entered, h, s, what, no) ==
  AtFirst \cup entered \subseteq ids /\ h = Listing({r \in Range(Intake) : r.id \in ids}, s, what, no)

AnswersFor(ids) == Answers(ids, drilled, held, sought, needle, leaf)

(* A reader who went into a batch seeks its source and its time, no more.  *)
DrilledFrom(known, s, what, ids) ==
  /\ what = NoFilter
  /\ \E src, w :
       /\ s = [Unfiltered EXCEPT !.source = src, !.window = w]
       /\ \A id \in ids :
            id \in known /\ \E r \in Range(Intake) : r.id = id /\ r.source = src /\ Within(r, w)

SeeksBatch == DrilledFrom(received, sought, needle, drilled)

HeldReceived == \A r \in Range(held.rows) : r.id \in received

ListInv ==
  /\ needle \in Needles /\ loaded \in BOOLEAN /\ leaf \in Nat /\ leaf > 0
  /\ AtFirst \subseteq received /\ held.total \in Nat
  /\ ByTime(held.rows) /\ HeldReceived
  /\ loaded => \E ids : AnswersFor(ids)
  /\ drilled # {} => SeeksBatch

LEMMA ListInitially == ListInit => ListInv
<1> SUFFICES ASSUME ListInit PROVE ListInv
  OBVIOUS
<1>1. /\ received = AtFirst /\ needle = NoFilter /\ leaf = 1 /\ loaded = TRUE /\ drilled = {}
      /\ held = Listing(Received, sought, needle, leaf)
  BY DEF ListInit, AtFirst
<1>2. Received \subseteq Range(Intake) /\ Received = {r \in Range(Intake) : r.id \in received}
  BY DEF Received
<1>3. /\ ByTime(held.rows) /\ held.total \in Nat
      /\ Range(held.rows) \subseteq Selected(Received, sought, needle)
  BY <1>1, <1>2, ListingIs
<1>4. HeldReceived
  BY <1>2, <1>3 DEF HeldReceived, Selected
<1>5. AnswersFor(received)
  BY <1>1, <1>2 DEF AnswersFor, Answers
<1>6. needle \in Needles
  BY <1>1, RequestsListAssumption
<1> QED
  BY <1>1, <1>3, <1>4, <1>5, <1>6 DEF ListInv

LEMMA AfterAsking ==
  ASSUME ListInv, NEW s, NEW what \in Needles, NEW no \in Nat, no > 0, Asks(s, what, no),
         UNCHANGED received, drilled' # {} => SeeksBatch'
  PROVE  ListInv'
<1>1. sought' = s /\ needle' = what /\ leaf' = no /\ loaded' = FALSE
  BY DEF Asks
<1>2. PICK gone : \/ held' = held
                  \/ held' = Listing({r \in Received : r.id \notin gone}, s, what, no)
  BY DEF Asks
<1>3. ByTime(held'.rows) /\ held'.total \in Nat /\ \A r \in Range(held'.rows) : r.id \in received
  <2>1. CASE held' = held
    BY <2>1 DEF ListInv, HeldReceived
  <2>2. CASE held' = Listing({r \in Received : r.id \notin gone}, s, what, no)
    <3> DEFINE rs == {r \in Received : r.id \notin gone}
    <3>1. rs \subseteq Range(Intake) /\ \A r \in rs : r.id \in received
      BY DEF Received
    <3> HIDE DEF rs
    <3>2. held' = Listing(rs, s, what, no)
      BY <2>2 DEF rs
    <3>3. ByTime(held'.rows) /\ held'.total \in Nat /\ Range(held'.rows) \subseteq Selected(rs, s, what)
      BY <3>1, <3>2, ListingIs
    <3>4. Selected(rs, s, what) \subseteq rs
      BY DEF Selected
    <3> QED
      BY <3>1, <3>3, <3>4
  <2> QED
    BY <1>2, <2>1, <2>2
<1>4. ByTime(held.rows)' /\ HeldReceived'
  BY <1>3 DEF ByTime, HeldReceived
<1>5. AtFirst \subseteq received' /\ AtFirst' = AtFirst
  BY DEF ListInv, AtFirst
<1> QED
  BY <1>1, <1>3, <1>4, <1>5 DEF ListInv

LEMMA PagesNumbered ==
  ASSUME ListInv
  PROVE  /\ LeafCount \in Nat /\ LeafCount > 0 /\ LeafNow \in Nat /\ LeafNow > 0
         /\ \A no \in {Max({1, LeafNow - 1}), Min({LeafCount, LeafNow + 1})} : no \in Nat /\ no > 0
<1> DEFINE size == SizeOfPage(sought)
           cut  == (held.total + size - 1) \div size
<1>1. size \in Nat /\ size > 0 /\ held.total \in Nat /\ leaf \in Nat
  BY PageSizes DEF ListInv
<1> HIDE DEF size
<1>2. cut \in Int
  BY <1>1
<1> HIDE DEF cut
<1>3. LeafCount \in {1, cut} /\ LeafCount >= 1
  <2>1. LeafCount = Max({1, cut})
    BY DEF LeafCount, cut, size
  <2> QED
    BY <1>2, <2>1, GreatestOfTwo
<1>4. LeafCount \in Nat
  BY <1>2, <1>3
<1> DEFINE top == Max({1, leaf})
<1>5. top \in Nat /\ top >= 1
  <2>1. top \in {1, leaf} /\ top >= 1
    BY <1>1, GreatestOfTwo
  <2> QED
    BY <1>1, <2>1
<1>6. LeafNow \in {top, LeafCount}
  <2>1. LeafNow = Min({top, LeafCount})
    BY DEF LeafNow
  <2> HIDE DEF top
  <2> QED
    BY <1>4, <1>5, <2>1, LeastOfTwo
<1> HIDE DEF top
<1>7. LeafNow \in Nat /\ LeafNow > 0
  BY <1>3, <1>4, <1>5, <1>6
<1>8. Max({1, LeafNow - 1}) \in Nat /\ Max({1, LeafNow - 1}) > 0
  <2> DEFINE less == LeafNow - 1
  <2>1. less \in Int
    BY <1>7
  <2> HIDE DEF less
  <2>2. Max({1, less}) \in {1, less} /\ Max({1, less}) >= 1
    BY <2>1, GreatestOfTwo
  <2> QED
    BY <2>1, <2>2 DEF less
<1>9. Min({LeafCount, LeafNow + 1}) \in Nat /\ Min({LeafCount, LeafNow + 1}) > 0
  <2> DEFINE more == LeafNow + 1
  <2>1. more \in Nat /\ more > 0
    BY <1>7
  <2> HIDE DEF more
  <2>2. Min({LeafCount, more}) \in {LeafCount, more}
    BY <1>4, <2>1, LeastOfTwo
  <2> QED
    BY <1>3, <1>4, <2>1, <2>2 DEF more
<1> QED
  BY <1>3, <1>4, <1>7, <1>8, <1>9

LEMMA StillSeeks ==
  ASSUME SeeksBatch, received \subseteq received', UNCHANGED <<sought, needle, drilled>>
  PROVE  SeeksBatch'
<1>1. DrilledFrom(received, sought, needle, drilled)
  BY DEF SeeksBatch
<1>2. DrilledFrom(received', sought', needle', drilled')
  BY <1>1 DEF DrilledFrom
<1> QED
  BY <1>2 DEF SeeksBatch

LEMMA StillAnswers ==
  ASSUME NEW ids, AnswersFor(ids), UNCHANGED <<sought, needle, leaf, held, drilled>>
  PROVE  AnswersFor(ids)'
<1>1. Answers(ids, drilled', held', sought', needle', leaf')
  BY DEF AnswersFor
<1> QED
  BY <1>1 DEF AnswersFor

LEMMA AfterDrilling == ASSUME ListInv, DrillIntoBatch PROVE ListInv'
<1>1. PICK b \in BatchesShown :
        /\ Seeks([Unfiltered EXCEPT !.source = b[1].source, !.window = WindowOf(b)], NoFilter)
        /\ drilled' = {r.id : r \in Range(b)}
  BY DEF DrillIntoBatch, Drill
<1> DEFINE src == b[1].source
           w == WindowOf(b)
           s == [Unfiltered EXCEPT !.source = src, !.window = w]
<1>2. Asks(s, NoFilter, 1) /\ UNCHANGED received
  BY <1>1 DEF Seeks
<1>3. sought' = s /\ needle' = NoFilter
  BY <1>2 DEF Asks
<1>4. ByTime(OnPage) /\ Range(OnPage) \subseteq Range(held.rows)
  BY PageInOrder DEF ListInv
<1>5. PICK so \in Sources : \E i \in 1..Len(ClustersOf(so)) : b = ClustersOf(so)[i]
  BY <1>4, BatchOf
<1>6. PICK i \in 1..Len(ClustersOf(so)) : b = ClustersOf(so)[i]
  BY <1>5
<1>7. /\ b \in Seq(Range(Intake)) /\ Len(b) > 0
      /\ \A k \in 1..Len(b) : b[k] \in Range(OnPage) /\ b[k].source = so
  BY <1>4, <1>6, RowOfBatch
<1>8. \A k \in 1..Len(b) : b[1].at <= b[k].at /\ b[k].at <= b[Len(b)].at
  BY <1>4, <1>6, ClustersGrouped DEF Grouped, Spanned
<1>9. Len(b) \in Nat /\ 1 \in 1..Len(b) /\ Len(b) \in 1..Len(b)
  BY <1>7
<1>10. Margin \in Nat
  BY RequestsListAssumption
<1>11. ASSUME NEW k \in 1..Len(b)
       PROVE  /\ b[k].id \in received /\ b[k] \in Range(Intake)
              /\ b[k].source = src /\ Within(b[k], w)
  <2>1. b[k] \in Range(Intake) /\ b[1] \in Range(Intake) /\ b[Len(b)] \in Range(Intake)
    BY <1>7, <1>9
  <2>2. b[k].at \in Int /\ b[1].at \in Int /\ b[Len(b)].at \in Int
    BY <2>1, RowsTimed
  <2>3. b[k].id \in received
    BY <1>4, <1>7 DEF ListInv, HeldReceived
  <2>4. b[k].source = src
    BY <1>7, <1>9
  <2>5. w[1] = b[1].at - Margin /\ w[2] = b[Len(b)].at + Margin
    BY DEF WindowOf
  <2> HIDE DEF w
  <2>6. w[1] <= b[k].at /\ b[k].at <= w[2]
    <3>1. b[1].at <= b[k].at /\ b[k].at <= b[Len(b)].at
      BY <1>8
    <3> QED
      BY <1>10, <2>2, <2>5, <3>1
  <2> QED
    BY <2>1, <2>3, <2>4, <2>6 DEF Within
<1> HIDE DEF src, w, s
<1>12. ASSUME NEW id \in drilled'
       PROVE  id \in received /\ \E r \in Range(Intake) : r.id = id /\ r.source = src /\ Within(r, w)
  <2>1. PICK r \in Range(b) : id = r.id
    BY <1>1
  <2>2. PICK k \in 1..Len(b) : r = b[k]
    BY <1>7, RangeIs
  <2> QED
    BY <1>11, <2>1, <2>2
<1>13. SeeksBatch'
  <2>1. sought' = [Unfiltered EXCEPT !.source = src, !.window = w]
    BY <1>3 DEF s
  <2>2. UNCHANGED received
    BY <1>2
  <2>3. DrilledFrom(received', sought', needle', drilled')
    BY <1>3, <1>12, <2>1, <2>2 DEF DrilledFrom
  <2> QED
    BY <2>3 DEF SeeksBatch
<1>14. NoFilter \in Needles
  BY RequestsListAssumption
<1> QED
  BY <1>2, <1>13, <1>14, AfterAsking

LEMMA AfterSeeking ==
  ASSUME ListInv, NEW s, NEW what \in Needles, Seeks(s, what), drilled' = {}
  PROVE  ListInv'
<1>1. Asks(s, what, 1) /\ UNCHANGED received
  BY DEF Seeks
<1> QED
  BY <1>1, AfterAsking

LEMMA ListInductive == ListInv /\ [ListNext]_listVars => ListInv'
<1> SUFFICES ASSUME ListInv, [ListNext]_listVars PROVE ListInv'
  OBVIOUS
<1>0. needle \in Needles /\ NoFilter \in Needles
  BY RequestsListAssumption DEF ListInv
<1>1. ASSUME NEW s, PatchSearch(s) PROVE ListInv'
  BY <1>0, <1>1, AfterSeeking DEF PatchSearch
<1>2. CASE PickSource \/ PickAttention \/ PickPosture
  <2>1. \E s : PatchSearch(s)
    BY <1>2 DEF PickSource, PickAttention, PickPosture
  <2> QED
    BY <1>1, <2>1
<1>3. CASE ClearSecondary \/ ClearFilters \/ ToggleView
  <2>1. \E s : PatchSearch(s)
    BY <1>3 DEF ClearSecondary, ClearFilters, ToggleView
  <2> QED
    BY <1>1, <2>1
<1>4. CASE TypeNeedle
  BY <1>4, AfterSeeking DEF TypeNeedle
<1>5. CASE DrillIntoBatch
  BY <1>5, AfterDrilling
<1>6. CASE BackToBatches
  BY <1>0, <1>6, AfterSeeking DEF BackToBatches
<1>7. CASE TurnPage
  <2>1. PICK no \in {Max({1, LeafNow - 1}), Min({LeafCount, LeafNow + 1})} : Asks(sought, needle, no)
    BY <1>7 DEF TurnPage
  <2>2. no \in Nat /\ no > 0
    BY <2>1, PagesNumbered
  <2>3. sought' = sought /\ needle' = needle /\ UNCHANGED <<received, drilled>>
    BY <1>7, <2>1 DEF TurnPage, Asks
  <2>4. drilled' # {} => SeeksBatch'
    BY <2>3, StillSeeks DEF ListInv
  <2> QED
    BY <1>0, <2>1, <2>2, <2>3, <2>4, AfterAsking
<1>8. CASE ComesIn
  <2>1. received \subseteq received'
        /\ UNCHANGED <<sought, needle, leaf, held, loaded, drilled>>
    BY <1>8 DEF ComesIn
  <2>2. HeldReceived' /\ ByTime(held.rows)'
    BY <2>1 DEF ListInv, HeldReceived, ByTime
  <2>3. drilled' # {} => SeeksBatch'
    BY <2>1, StillSeeks DEF ListInv
  <2>4. loaded' => \E ids : AnswersFor(ids)'
    <3>1. ASSUME loaded PROVE \E ids : AnswersFor(ids)'
      <4>1. PICK ids : AnswersFor(ids)
        BY <3>1 DEF ListInv
      <4>2. AnswersFor(ids)'
        BY <2>1, <4>1, StillAnswers
      <4> QED
        BY <4>2
    <3> QED
      BY <2>1, <3>1
  <2>5. AtFirst' \subseteq received'
    BY <2>1 DEF ListInv, AtFirst
  <2> QED
    BY <2>1, <2>2, <2>3, <2>4, <2>5 DEF ListInv
<1>9. CASE ListAnswered
  <2>1. /\ held' = Listing(Received, sought, needle, leaf) /\ loaded' = TRUE
        /\ UNCHANGED <<received, sought, needle, leaf, drilled>>
    BY <1>9 DEF ListAnswered
  <2>2. Received \subseteq Range(Intake) /\ Received = {r \in Range(Intake) : r.id \in received}
    BY DEF Received
  <2>3. leaf \in Nat /\ leaf > 0
    BY DEF ListInv
  <2>4. ByTime(held'.rows) /\ held'.total \in Nat
        /\ Range(held'.rows) \subseteq Selected(Received, sought, needle)
    BY <2>1, <2>2, <2>3, ListingIs
  <2>5. HeldReceived' /\ ByTime(held.rows)'
    BY <2>1, <2>2, <2>4 DEF HeldReceived, Selected, ByTime
  <2>6. drilled' # {} => SeeksBatch'
    BY <2>1, StillSeeks DEF ListInv
  <2>7. drilled \subseteq received /\ AtFirst \subseteq received
    BY DEF ListInv, SeeksBatch, DrilledFrom
  <2>8. AnswersFor(received)'
    <3>1. held' = Listing({r \in Range(Intake) : r.id \in received'}, sought', needle', leaf')
      BY <2>1, <2>2
    <3>2. Answers(received', drilled', held', sought', needle', leaf')
      BY <2>1, <2>7, <3>1 DEF Answers
    <3> QED
      BY <3>2 DEF AnswersFor
  <2> QED
    BY <2>1, <2>4, <2>5, <2>6, <2>7, <2>8 DEF ListInv, AtFirst
<1>10. CASE UNCHANGED listVars
  <2>1. UNCHANGED <<received, sought, needle, leaf, held, loaded, drilled>>
    BY <1>10 DEF listVars
  <2>2. HeldReceived' /\ ByTime(held.rows)'
    BY <2>1 DEF ListInv, HeldReceived, ByTime
  <2>3. drilled' # {} => SeeksBatch'
    BY <2>1, StillSeeks DEF ListInv
  <2>4. loaded' => \E ids : AnswersFor(ids)'
    <3>1. ASSUME loaded PROVE \E ids : AnswersFor(ids)'
      <4>1. PICK ids : AnswersFor(ids)
        BY <3>1 DEF ListInv
      <4>2. AnswersFor(ids)'
        BY <2>1, <4>1, StillAnswers
      <4> QED
        BY <4>2
    <3> QED
      BY <2>1, <3>1
  <2>5. AtFirst' \subseteq received'
    BY <2>1 DEF ListInv, AtFirst
  <2> QED
    BY <2>1, <2>2, <2>3, <2>4, <2>5 DEF ListInv
<1> QED
  BY <1>2, <1>3, <1>4, <1>5, <1>6, <1>7, <1>8, <1>9, <1>10 DEF ListNext

-----------------------------------------------------------------------------
(* What is told                                                            *)
LEMMA AttentionNamed == NoFilter # "needs" /\ NoFilter # "clear"
  BY Zenon DEF NoFilter

(* What a page was selected by, the page does not filter out.              *)
LEMMA SelectedNarrow ==
  ASSUME NEW rs, NEW r \in Selected(rs, sought, needle),
         sought.attention = NoFilter, needle \notin ShortNeedles
  PROVE  Narrows(r)
<1>1. /\ sought.source \in {NoFilter, r.source} /\ Within(r, sought.window)
      /\ needle = NoFilter \/ MatchesNeedle(r, needle)
  BY DEF Selected
<1> QED
  BY <1>1, AttentionNamed DEF Narrows

LEMMA OpensWhole == ListInv => BatchOpensWhole
<1> SUFFICES ASSUME ListInv, drilled # {}, loaded, leaf = 1, held.total <= FlatSize
             PROVE  drilled \cup {r.id : r \in {r \in Range(Intake) : /\ r.id \notin LateIntake
                                           /\ r.source = sought.source /\ Within(r, sought.window)}}
                      \subseteq {r.id : r \in Range(OnPage)}
  BY DEF BatchOpensWhole
<1>1. PICK ids : AnswersFor(ids)
  BY DEF ListInv
<1>2. DrilledFrom(received, sought, needle, drilled)
  BY DEF ListInv, SeeksBatch
<1>3. PICK src, w :
        /\ sought = [Unfiltered EXCEPT !.source = src, !.window = w]
        /\ \A id \in drilled : \E r \in Range(Intake) : r.id = id /\ r.source = src /\ Within(r, w)
  BY <1>2 DEF DrilledFrom
<1>4. /\ sought.source = src /\ sought.window = w /\ sought.byBatch = FALSE
      /\ sought.posture = NoFilter /\ sought.attention = NoFilter
  BY <1>3 DEF Unfiltered
<1>5. needle = NoFilter /\ needle \notin ShortNeedles
  BY <1>2, RequestsListAssumption DEF DrilledFrom
<1> DEFINE rs == {r \in Range(Intake) : r.id \in ids}
<1>6. AtFirst \cup drilled \subseteq ids /\ held = Listing(rs, sought, needle, 1)
  BY <1>1 DEF AnswersFor, Answers
<1>7. Range(held.rows) = Selected(rs, sought, needle)
  <2>1. rs \subseteq Range(Intake)
    OBVIOUS
  <2> HIDE DEF rs
  <2> DEFINE here == Listing(rs, sought, needle, 1)
  <2>2. here.total <= FlatSize /\ ~sought.byBatch
    BY <1>4, <1>6
  <2>3. Range(here.rows) = Selected(rs, sought, needle)
    BY <2>1, <2>2, ListingIs
  <2> QED
    BY <1>6, <2>3
<1>8. ASSUME NEW r \in Range(Intake), r.source = src, Within(r, w), r.id \in ids
      PROVE  r \in Range(OnPage)
  <2>1. r \in Selected(rs, sought, needle)
    BY <1>4, <1>5, <1>8 DEF Selected
  <2>2. Narrows(r)
    BY <1>4, <1>5, <2>1, SelectedNarrow
  <2> QED
    BY <1>7, <2>1, <2>2, PageInOrder DEF ListInv
<1>9. ASSUME NEW id \in drilled PROVE \E r \in Range(OnPage) : r.id = id
  <2>1. PICK r \in Range(Intake) : r.id = id /\ r.source = src /\ Within(r, w)
    BY <1>3
  <2>2. r \in Range(OnPage)
    BY <1>6, <1>8, <2>1
  <2> QED
    BY <2>1, <2>2
<1>10. ASSUME NEW r \in Range(Intake), r.id \notin LateIntake,
              r.source = sought.source, Within(r, sought.window)
       PROVE  r \in Range(OnPage)
  <2>1. r.id \in ids
    BY <1>6, <1>10 DEF AtFirst
  <2> QED
    BY <1>4, <1>8, <1>10, <2>1
<1> QED
  BY <1>9, <1>10

LEMMA WithholdsNothing == ListInv => NothingWithheld
<1> SUFFICES ASSUME ListInv, loaded, NEW r \in Range(held.rows)
             PROVE  Narrows(r) \/ sought.attention # NoFilter \/ needle \in ShortNeedles
  BY DEF NothingWithheld
<1>1. PICK ids : AnswersFor(ids)
  BY DEF ListInv
<1> DEFINE rs == {q \in Range(Intake) : q.id \in ids}
<1>2. held = Listing(rs, sought, needle, leaf) /\ leaf \in Nat /\ leaf > 0
  BY <1>1 DEF AnswersFor, Answers, ListInv
<1>3. r \in Selected(rs, sought, needle)
  <2>1. rs \subseteq Range(Intake)
    OBVIOUS
  <2> HIDE DEF rs
  <2> QED
    BY <1>2, <2>1, ListingIs
<1> QED
  BY <1>3, SelectedNarrow

LEMMA ListTold == ListInv => RequestsTold
<1> SUFFICES ASSUME ListInv PROVE RequestsTold
  OBVIOUS
<1>1. BatchesAreRuns
  BY PageInOrder, RunsShown DEF ListInv
<1> QED
  BY <1>1, OpensWhole, WithholdsNothing DEF RequestsTold

(* The page of all requests, whatever the requests, the page sizes and the *)
(* gap between batches: pages are numbered from one, and the rows are      *)
(* requests (requests/index.tsx).                                          *)
THEOREM RequestsListTyped == ListSpec => []ListTypeOK
<1>1. ListInv => ListTypeOK
  <2>1. ASSUME ByTime(held.rows) PROVE Range(held.rows) \subseteq Range(Intake)
    BY <2>1, RangeOfSeq DEF ByTime
  <2> QED
    BY <2>1 DEF ListInv, ListTypeOK
<1> QED
  BY <1>1, ListInitially, ListInductive, PTL DEF ListSpec

(* The batches shown are the runs of requests with no longer gap than the  *)
(* page allows, a batch opens whole, and the filters of the page and of    *)
(* the server do not undo each other (groupRequestsByBatch, drillIntoBatch,*)
(* matchesFilters).                                                        *)
THEOREM RequestsListTold == ListSpec => []RequestsTold
<1> QED
  BY ListTold, ListInitially, ListInductive, PTL DEF ListSpec

-----------------------------------------------------------------------------
(* The stages of a stack of requests, and which of them are behind it      *)

(* A set of numbers has a least one.                                       *)
LEMMA LeastOf ==
  ASSUME NEW T, T \subseteq Nat, T # {}
  PROVE  \E m \in T : \A k \in T : m <= k
<1> SUFFICES ASSUME \A m \in T : \E k \in T : k < m PROVE FALSE
  OBVIOUS
<1>1. PICK x \in T : TRUE
  OBVIOUS
<1> DEFINE S == {k \in Nat : \A t \in T : k <= t}
<1>2. 0 \in S
  OBVIOUS
<1>3. ASSUME NEW k \in 0..(x + 1), k \in S PROVE k + 1 \in S
  <2>1. k \notin T
    BY <1>3
  <2>2. ASSUME NEW t \in T PROVE k + 1 <= t
    <3>1. k <= t /\ k # t
      BY <1>3, <2>1
    <3> QED
      BY <3>1
  <2> QED
    BY <2>2
<1>4. x + 1 \in Nat /\ x + 1 \in 0..(x + 1)
  OBVIOUS
<1> HIDE DEF S
<1>5. \A k \in 0..(x + 1) : k \in S
  BY <1>2, <1>3, <1>4, StepByStep
<1>6. x + 1 <= x
  BY <1>4, <1>5 DEF S
<1> QED
  BY <1>6

LEMMA RankIn == \A st : Rank(st) \in 0..5
  BY DEF Rank

(* The worst of some statuses is one of them.                              *)
LEMMA RollupOf ==
  ASSUME NEW S, S \subseteq Statuses
  PROVE  /\ Rollup(S) \in Statuses
         /\ S # {} => Rollup(S) \in S /\ \A other \in S : Rank(other) <= Rank(Rollup(S))
<1>1. CASE S = {}
  BY <1>1 DEF Rollup, Statuses
<1>2. CASE S # {}
  <2> DEFINE T == {5 - Rank(st) : st \in S}
  <2>1. T \subseteq Nat /\ T # {}
    BY <1>2, RankIn
  <2>2. PICK m \in T : \A k \in T : m <= k
    BY <2>1, LeastOf
  <2>3. PICK st \in S : m = 5 - Rank(st)
    OBVIOUS
  <2>4. \A other \in S : Rank(other) <= Rank(st)
    <3>1. ASSUME NEW other \in S PROVE Rank(other) <= Rank(st)
      <4>1. 5 - Rank(other) \in T
        OBVIOUS
      <4>2. m <= 5 - Rank(other)
        BY <2>2, <4>1
      <4> QED
        BY <2>3, <4>2, RankIn
    <3> QED
      BY <3>1
  <2>5. Rollup(S) \in S /\ \A other \in S : Rank(other) <= Rank(Rollup(S))
    BY <1>2, <2>4 DEF Rollup
  <2> QED
    BY <2>5
<1> QED
  BY <1>1, <1>2

LEMMA RankOfDone == \A st \in Statuses : Rank(st) <= Rank("complete") => st = "complete"
  BY DEF Rank, Statuses

LEMMA AllDone ==
  ASSUME NEW S, S \subseteq Statuses, Rollup(S) = "complete"
  PROVE  S # {} /\ \A st \in S : st = "complete"
<1>1. S # {}
  BY DEF Rollup
<1> QED
  BY <1>1, RollupOf, RankOfDone

LEMMA PlaceIs ==
  ASSUME NEW s, NEW e, NEW k \in DOMAIN s, s[k] = e, \A j \in DOMAIN s : s[j] = e => j = k
  PROVE  Place(s, e) = k
  BY DEF Place

LEMMA PlaceNone ==
  ASSUME NEW s, NEW e, \A j \in DOMAIN s : s[j] # e
  PROVE  Place(s, e) = 0
  BY DEF Place

LEMMA FineStages ==
  /\ DOMAIN OPS_SUBSTEP_SEQUENCE = 1..10
  /\ OPS_SUBSTEP_SEQUENCE[1] = "received" /\ OPS_SUBSTEP_SEQUENCE[2] = "triage"
  /\ OPS_SUBSTEP_SEQUENCE[3] = "download" /\ OPS_SUBSTEP_SEQUENCE[4] = "land"
  /\ OPS_SUBSTEP_SEQUENCE[5] = "promote" /\ OPS_SUBSTEP_SEQUENCE[6] = "match"
  /\ OPS_SUBSTEP_SEQUENCE[7] = "review" /\ OPS_SUBSTEP_SEQUENCE[8] = "fulfill"
  /\ OPS_SUBSTEP_SEQUENCE[9] = "notice" /\ OPS_SUBSTEP_SEQUENCE[10] = "delivery"
  BY DEF OPS_SUBSTEP_SEQUENCE

LEMMA FineApart ==
  \A j, k \in 1..10 : OPS_SUBSTEP_SEQUENCE[j] = OPS_SUBSTEP_SEQUENCE[k] => j = k
<1> SUFFICES ASSUME NEW j \in 1..10, NEW k \in 1..10,
                    OPS_SUBSTEP_SEQUENCE[j] = OPS_SUBSTEP_SEQUENCE[k]
             PROVE  j = k
  OBVIOUS
<1>1. j \in {1, 2, 3, 4, 5, 6, 7, 8, 9, 10} /\ k \in {1, 2, 3, 4, 5, 6, 7, 8, 9, 10}
  OBVIOUS
<1> QED
  BY <1>1, FineStages

LEMMA FinePlaces ==
  \A k \in 1..10 : Place(OPS_SUBSTEP_SEQUENCE, OPS_SUBSTEP_SEQUENCE[k]) = k
  BY FineStages, FineApart, PlaceIs

LEMMA FinePlaceOf ==
  /\ Place(OPS_SUBSTEP_SEQUENCE, "received") = 1 /\ Place(OPS_SUBSTEP_SEQUENCE, "triage") = 2
  /\ Place(OPS_SUBSTEP_SEQUENCE, "download") = 3 /\ Place(OPS_SUBSTEP_SEQUENCE, "land") = 4
  /\ Place(OPS_SUBSTEP_SEQUENCE, "promote") = 5 /\ Place(OPS_SUBSTEP_SEQUENCE, "match") = 6
  /\ Place(OPS_SUBSTEP_SEQUENCE, "review") = 7 /\ Place(OPS_SUBSTEP_SEQUENCE, "fulfill") = 8
  /\ Place(OPS_SUBSTEP_SEQUENCE, "notice") = 9 /\ Place(OPS_SUBSTEP_SEQUENCE, "delivery") = 10
<1>1. 1 \in 1..10 /\ 2 \in 1..10 /\ 3 \in 1..10 /\ 4 \in 1..10 /\ 5 \in 1..10
      /\ 6 \in 1..10 /\ 7 \in 1..10 /\ 8 \in 1..10 /\ 9 \in 1..10 /\ 10 \in 1..10
  OBVIOUS
<1> QED
  BY <1>1, FineStages, FinePlaces

FineKeys == {"received", "triage", "download", "land", "promote", "match", "review", "fulfill",
             "notice", "delivery"}

LEMMA FineOrNot ==
  /\ ToSet(OPS_SUBSTEP_SEQUENCE) = FineKeys
  /\ \A e : e \notin FineKeys => Place(OPS_SUBSTEP_SEQUENCE, e) = 0
<1>1. ToSet(OPS_SUBSTEP_SEQUENCE) = {OPS_SUBSTEP_SEQUENCE[k] : k \in 1..10}
  BY FineStages DEF ToSet
<1>2. \A k \in 1..10 : k \in {1, 2, 3, 4, 5, 6, 7, 8, 9, 10}
  OBVIOUS
<1>3. \A k \in 1..10 : OPS_SUBSTEP_SEQUENCE[k] \in FineKeys
  BY <1>2, FineStages DEF FineKeys
<1>4. \A e \in FineKeys : \E k \in 1..10 : OPS_SUBSTEP_SEQUENCE[k] = e
  <2>1. 1 \in 1..10 /\ 2 \in 1..10 /\ 3 \in 1..10 /\ 4 \in 1..10 /\ 5 \in 1..10
        /\ 6 \in 1..10 /\ 7 \in 1..10 /\ 8 \in 1..10 /\ 9 \in 1..10 /\ 10 \in 1..10
    OBVIOUS
  <2> QED
    BY <2>1, FineStages DEF FineKeys
<1>5. ASSUME NEW e, e \notin FineKeys PROVE Place(OPS_SUBSTEP_SEQUENCE, e) = 0
  <2>1. \A j \in DOMAIN OPS_SUBSTEP_SEQUENCE : OPS_SUBSTEP_SEQUENCE[j] # e
    BY <1>3, <1>5, FineStages
  <2> QED
    BY <2>1, PlaceNone
<1> QED
  BY <1>1, <1>3, <1>4, <1>5

LEMMA ParentPlaces ==
  \A stage :
    /\ stage \in {"match", "review"} => ParentPlace(stage) = 2
    /\ stage \in {"fulfill", "fulfillment"} => ParentPlace(stage) = 3
    /\ stage \in {"notice", "delivery"} => ParentPlace(stage) = 4
    /\ stage \notin {"match", "review", "fulfill", "fulfillment", "notice", "delivery"} =>
         ParentPlace(stage) = 1
<1>1. /\ DOMAIN WORKBENCH_STAGE_ORDER = {1, 2, 3, 4}
      /\ WORKBENCH_STAGE_ORDER[1] = "ingest" /\ WORKBENCH_STAGE_ORDER[2] = "matching"
      /\ WORKBENCH_STAGE_ORDER[3] = "fulfillment" /\ WORKBENCH_STAGE_ORDER[4] = "notice"
  BY DEF WORKBENCH_STAGE_ORDER
<1>2. /\ Place(WORKBENCH_STAGE_ORDER, "ingest") = 1 /\ Place(WORKBENCH_STAGE_ORDER, "matching") = 2
      /\ Place(WORKBENCH_STAGE_ORDER, "fulfillment") = 3 /\ Place(WORKBENCH_STAGE_ORDER, "notice") = 4
  BY <1>1 DEF Place
<1> QED
  BY <1>2 DEF ParentPlace, Parent

LEMMA InferredDone ==
  ASSUME NEW key, NEW current, Inferred(key, current) = "complete"
  PROVE  /\ key # "template_notice" /\ Place(OPS_SUBSTEP_SEQUENCE, current) # 0
         /\ Place(OPS_SUBSTEP_SEQUENCE, key) < Place(OPS_SUBSTEP_SEQUENCE, current)
<1> DEFINE k == Place(OPS_SUBSTEP_SEQUENCE, key)
           c == Place(OPS_SUBSTEP_SEQUENCE, current)
<1>1. Inferred(key, current) =
        CASE key = "template_notice" -> "in_progress"
          [] key # "template_notice" /\ (k = 0 \/ c = 0) ->
               IF key = current THEN "in_progress" ELSE "not_started"
          [] OTHER -> IF k < c THEN "complete" ELSE IF k = c THEN "in_progress" ELSE "not_started"
  BY DEF Inferred
<1> HIDE DEF k, c
<1>2. key # "template_notice" /\ c # 0 /\ k < c
  BY <1>1
<1> QED
  BY <1>2 DEF k, c

LEMMA SubstepsOf ==
  ASSUME NEW m
  PROVE  /\ DOMAIN Substeps(m) = {"ingest", "matching", "fulfillment", "notice"}
         /\ Substeps(m).ingest = IF m.drop THEN {"received", "download", "land", "promote"}
                                 ELSE {"received", "triage"}
         /\ Substeps(m).matching = {"match", "review"} /\ Substeps(m).fulfillment = {"fulfill"}
         /\ Substeps(m).notice = IF m.drop THEN {"notice"}
                                 ELSE IF m.access \/ m.stage = "delivery" THEN {"delivery"} ELSE {}
  BY DEF Substeps

LEMMA ApplicableOf ==
  ASSUME NEW m
  PROVE  {"received", "match", "fulfill"} \subseteq
           UNION {Substeps(m)[p] : p \in DOMAIN Substeps(m)}
<1>1. "received" \in Substeps(m)["ingest"] /\ "match" \in Substeps(m)["matching"]
      /\ "fulfill" \in Substeps(m)["fulfillment"]
  BY SubstepsOf
<1> QED
  BY <1>1, SubstepsOf

BelowStage(m) ==
  {k \in DOMAIN OPS_SUBSTEP_SEQUENCE :
     /\ OPS_SUBSTEP_SEQUENCE[k] \in UNION {Substeps(m)[p] : p \in DOMAIN Substeps(m)}
     /\ Parent(OPS_SUBSTEP_SEQUENCE[k]) = m.stage}

LEMMA CurrentIs ==
  ASSUME NEW m
  PROVE  CurrentOps(m) =
           IF m.stage \in FineKeys \/ BelowStage(m) = {} THEN m.stage
           ELSE OPS_SUBSTEP_SEQUENCE[CHOOSE k \in BelowStage(m) : \A j \in BelowStage(m) : k <= j]
  BY FineOrNot DEF CurrentOps, BelowStage

(* Where in the order of the fine stages a request is.                     *)
LEMMA CurrentPlace ==
  ASSUME NEW m, m.stage # "matching"
  PROVE  /\ m.stage \in FineKeys => CurrentOps(m) = m.stage
         /\ m.stage = "fulfillment" => CurrentOps(m) = "fulfill"
         /\ m.stage \notin FineKeys \cup {"fulfillment"} =>
              Place(OPS_SUBSTEP_SEQUENCE, CurrentOps(m)) \in {0, 1}
<1> DEFINE below == BelowStage(m)
           seq   == OPS_SUBSTEP_SEQUENCE
<1>0. \A k \in 1..10 : k \in {1, 2, 3, 4, 5, 6, 7, 8, 9, 10}
  OBVIOUS
<1>1. below \subseteq 1..10
  BY FineStages DEF BelowStage
<1>2. \A k \in below : Parent(seq[k]) = m.stage
  BY DEF BelowStage
<1>3. CASE m.stage \in FineKeys
  <2>1. CurrentOps(m) = m.stage
    BY <1>3, CurrentIs
  <2>2. m.stage # "fulfillment"
    BY <1>3 DEF FineKeys
  <2> QED
    BY <1>3, <2>1, <2>2
<1>4. CASE m.stage = "fulfillment"
  <2>1. "fulfillment" \notin FineKeys
    BY DEF FineKeys
  <2>2. 8 \in below
    <3>1. 8 \in 1..10
      OBVIOUS
    <3> QED
      BY <1>4, <3>1, FineStages, ApplicableOf DEF BelowStage, Parent
  <2>3. \A k \in below : k = 8
    <3>1. \A k \in 1..10 : Parent(seq[k]) = "fulfillment" => k = 8
      BY <1>0, FineStages DEF Parent
    <3> QED
      BY <1>1, <1>2, <1>4, <3>1
  <2>4. (CHOOSE k \in below : \A j \in below : k <= j) = 8
    BY <2>2, <2>3
  <2>5. CurrentOps(m) = seq[8]
    BY <1>4, <2>1, <2>2, <2>4, CurrentIs
  <2>6. CurrentOps(m) = "fulfill"
    BY <2>5, FineStages
  <2> QED
    BY <1>4, <2>1, <2>6
<1>5. CASE m.stage \notin FineKeys \cup {"fulfillment"}
  <2>1. CASE below = {}
    <3>1. CurrentOps(m) = m.stage
      BY <2>1, CurrentIs
    <3> QED
      BY <1>5, <3>1, FineOrNot
  <2>2. CASE below # {}
    <3>1. \A k \in 1..10 : Parent(seq[k]) \in {"ingest", "matching", "fulfillment", "notice"}
      BY <1>0, FineStages DEF Parent
    <3>2. m.stage \in {"ingest", "matching", "fulfillment", "notice"}
      BY <1>1, <1>2, <2>2, <3>1
    <3>3. m.stage = "ingest"
      BY <1>5, <3>2 DEF FineKeys
    <3>4. 1 \in below
      <4>1. 1 \in 1..10
        OBVIOUS
      <4> QED
        BY <3>3, <4>1, FineStages, ApplicableOf DEF BelowStage, Parent
    <3> DEFINE least == CHOOSE k \in below : \A j \in below : k <= j
    <3>5. least \in below /\ \A j \in below : least <= j
      <4>1. \A j \in below : 1 <= j
        BY <1>1
      <4> QED
        BY <3>4, <4>1
    <3>6. least = 1
      BY <1>1, <3>4, <3>5
    <3>7. CurrentOps(m) = seq[least]
      BY <1>5, <2>2, CurrentIs
    <3>8. CurrentOps(m) = "received"
      BY <3>6, <3>7, FineStages
    <3> QED
      BY <1>5, <3>8, FinePlaceOf
  <2> QED
    BY <2>1, <2>2
<1> QED
  BY <1>3, <1>4, <1>5

FourStages == {"ingest", "matching", "fulfillment", "notice"}

LEMMA StagesPlaced ==
  /\ \A k \in 1..4 : WORKBENCH_STAGE_ORDER[k] \in FourStages
  /\ WORKBENCH_STAGE_ORDER[1] = "ingest" /\ WORKBENCH_STAGE_ORDER[2] = "matching"
  /\ WORKBENCH_STAGE_ORDER[3] = "fulfillment" /\ WORKBENCH_STAGE_ORDER[4] = "notice"
  /\ ToSet(WORKBENCH_STAGE_ORDER) = FourStages
<1>1. \A k \in 1..4 : k \in {1, 2, 3, 4}
  OBVIOUS
<1>2. DOMAIN WORKBENCH_STAGE_ORDER = {1, 2, 3, 4}
  BY DEF WORKBENCH_STAGE_ORDER
<1> QED
  BY <1>1, <1>2 DEF WORKBENCH_STAGE_ORDER, ToSet, FourStages

LEMMA KeysAre ==
  ASSUME NEW m
  PROVE  /\ KeysOfMember(m)["ingest"] = Substeps(m).ingest
         /\ KeysOfMember(m)["matching"] = {"match", "review"}
         /\ KeysOfMember(m)["fulfillment"] = {"fulfill"}
         /\ KeysOfMember(m)["notice"] \subseteq Substeps(m).notice \cup {"template_notice"}
  BY SubstepsOf DEF KeysOfMember

LEMMA ParentIn == \A stage : ParentPlace(stage) \in 1..4
<1> SUFFICES ASSUME NEW stage PROVE ParentPlace(stage) \in {1, 2, 3, 4}
  OBVIOUS
<1> QED
  BY ParentPlaces

LEMMA FinePlaceIn == \A e : Place(OPS_SUBSTEP_SEQUENCE, e) \in 0..10
<1> SUFFICES ASSUME NEW e PROVE Place(OPS_SUBSTEP_SEQUENCE, e) \in 0..10
  OBVIOUS
<1>1. CASE e \in FineKeys
  BY <1>1, FinePlaceOf DEF FineKeys
<1>2. CASE e \notin FineKeys
  BY <1>2, FineOrNot
<1> QED
  BY <1>1, <1>2

(* A request that is through with the steps of a stage is past it.         *)
LEMMA StageBehind ==
  ASSUME NEW m \in Members, NEW k \in 1..4,
         KeysOfMember(m)[WORKBENCH_STAGE_ORDER[k]] # {},
         \A key \in KeysOfMember(m)[WORKBENCH_STAGE_ORDER[k]] :
           Inferred(key, CurrentOps(m)) = "complete"
  PROVE  k < ParentPlace(m.stage)
<1> DEFINE c == Place(OPS_SUBSTEP_SEQUENCE, CurrentOps(m))
           at(e) == Place(OPS_SUBSTEP_SEQUENCE, e)
<1>1. /\ m.stage # "matching" /\ m.drop \in BOOLEAN
      /\ IF m.drop THEN m.stage # "delivery" ELSE m.stage \notin {"download", "land", "promote"}
  BY ChromeAssumption
<1>2. \A key \in KeysOfMember(m)[WORKBENCH_STAGE_ORDER[k]] :
        key # "template_notice" /\ c # 0 /\ at(key) < c
  BY InferredDone
<1>3. /\ m.stage \in FineKeys => CurrentOps(m) = m.stage
      /\ m.stage = "fulfillment" => CurrentOps(m) = "fulfill"
      /\ m.stage \notin FineKeys \cup {"fulfillment"} => c \in {0, 1}
  BY <1>1, CurrentPlace
<1>4. k \in {1, 2, 3, 4}
  OBVIOUS
<1>5. CASE k = 1
  <2>1. \A key \in Substeps(m).ingest : c # 0 /\ at(key) < c
    BY <1>2, <1>5, KeysAre, StagesPlaced
  <2>2. CASE m.drop
    <3>1. c > 5
      BY <2>1, <2>2, SubstepsOf, FinePlaceOf
    <3>2. m.stage \notin {"received", "triage", "download", "land", "promote"}
      BY <1>3, <3>1, FinePlaceOf DEF FineKeys
    <3>3. m.stage \in FineKeys \cup {"fulfillment"}
      BY <1>3, <3>1
    <3> QED
      BY <1>5, <3>2, <3>3, ParentPlaces DEF FineKeys
  <2>3. CASE ~m.drop
    <3>1. c > 2
      BY <2>1, <2>3, SubstepsOf, FinePlaceOf
    <3>2. m.stage \notin {"received", "triage", "download", "land", "promote"}
      BY <1>1, <1>3, <2>3, <3>1, FinePlaceOf DEF FineKeys
    <3>3. m.stage \in FineKeys \cup {"fulfillment"}
      BY <1>3, <3>1
    <3> QED
      BY <1>5, <3>2, <3>3, ParentPlaces DEF FineKeys
  <2> QED
    BY <2>2, <2>3
<1>6. CASE k = 2
  <2>1. c > 7
    BY <1>2, <1>6, KeysAre, StagesPlaced, FinePlaceOf
  <2>2. m.stage \in FineKeys \cup {"fulfillment"}
    BY <1>3, <2>1
  <2>3. m.stage \in {"fulfill", "fulfillment", "notice", "delivery"}
    BY <1>3, <2>1, <2>2, FinePlaceOf DEF FineKeys
  <2> QED
    BY <1>6, <2>3, ParentPlaces
<1>7. CASE k = 3
  <2>1. c > 8
    BY <1>2, <1>7, KeysAre, StagesPlaced, FinePlaceOf
  <2>2. m.stage \in FineKeys \cup {"fulfillment"}
    BY <1>3, <2>1
  <2>3. m.stage \in {"notice", "delivery"}
    BY <1>3, <2>1, <2>2, FinePlaceOf DEF FineKeys
  <2> QED
    BY <1>7, <2>3, ParentPlaces
<1>8. CASE k = 4
  <2>1. PICK key \in KeysOfMember(m)["notice"] : TRUE
    BY <1>8, StagesPlaced
  <2>2. key # "template_notice" /\ at(key) < c
    BY <1>2, <1>8, <2>1, StagesPlaced
  <2>3. key \in Substeps(m).notice
    BY <2>1, <2>2, KeysAre
  <2>4. m.stage \in FineKeys \cup {"fulfillment"}
    <3>1. key \in {"notice", "delivery"}
      BY <2>3, SubstepsOf
    <3>2. c > 1
      BY <2>2, <3>1, FinePlaceOf, FinePlaceIn
    <3> QED
      BY <1>3, <3>2
  <2>5. c \in 0..10
    BY FinePlaceIn
  <2>6. m.drop /\ key = "notice"
    BY <1>1, <2>2, <2>3, <2>5, SubstepsOf, FinePlaceOf
  <2>7. c = 10
    BY <2>2, <2>5, <2>6, FinePlaceOf
  <2>8. m.stage = "delivery"
    BY <1>3, <2>4, <2>7, FinePlaceOf DEF FineKeys
  <2> QED
    BY <1>1, <2>6, <2>8
<1> QED
  BY <1>4, <1>5, <1>6, <1>7, <1>8

LEMMA ImageFinite ==
  ASSUME NEW S, IsFiniteSet(S), NEW f, DOMAIN f = S, f = [x \in S |-> f[x]]
  PROVE  IsFiniteSet({f[x] : x \in S}) /\ Cardinality({f[x] : x \in S}) <= Cardinality(S)
<1> DEFINE T == {f[x] : x \in S}
<1>1. f \in Surjection(S, T)
  BY DEF Surjection
<1> HIDE DEF T
<1>2. IsFiniteSet(T) /\ Cardinality(T) <= Cardinality(S)
  BY <1>1, FS_Surjection
<1> QED
  BY <1>2 DEF T

LEMMA FirstsOf ==
  ASSUME NEW s \in Seq(Members)
  PROVE  /\ Firsts(s) \subseteq Members /\ IsFiniteSet(Firsts(s)) /\ (s # <<>> => Firsts(s) # {})
<1>1. DOMAIN s = 1..Len(s) /\ Len(s) \in Nat
  OBVIOUS
<1> DEFINE D == {i \in DOMAIN s : \A j \in 1 .. i - 1 : s[j].id # s[i].id}
<1>2. IsFiniteSet(D)
  <2>1. IsFiniteSet(1..Len(s)) /\ D \subseteq 1..Len(s)
    BY <1>1, FS_Interval
  <2> QED
    BY <2>1, FS_Subset
<1>3. Firsts(s) = {s[k] : k \in D}
  BY DEF Firsts
<1>4. s # <<>> => 1 \in D
  <2>1. s # <<>> => Len(s) > 0
    BY <1>1
  <2>2. \A j \in 1 .. 1 - 1 : FALSE
    OBVIOUS
  <2> QED
    BY <1>1, <2>1, <2>2
<1>5. \A k \in D : s[k] \in Members
  OBVIOUS
<1> HIDE DEF D
<1>6. IsFiniteSet({s[k] : k \in D})
  <2> DEFINE f == [k \in D |-> s[k]]
  <2>1. DOMAIN f = D /\ f = [k \in D |-> f[k]]
    OBVIOUS
  <2>2. {f[k] : k \in D} = {s[k] : k \in D}
    OBVIOUS
  <2> HIDE DEF f
  <2>3. IsFiniteSet({f[k] : k \in D})
    BY <1>2, <2>1, ImageFinite
  <2> QED
    BY <2>2, <2>3
<1> QED
  BY <1>3, <1>4, <1>5, <1>6

LEMMA InferredIn == \A key, current : Inferred(key, current) \in Statuses
<1> SUFFICES ASSUME NEW key, NEW current PROVE Inferred(key, current) \in Statuses
  OBVIOUS
<1> DEFINE k == Place(OPS_SUBSTEP_SEQUENCE, key)
           c == Place(OPS_SUBSTEP_SEQUENCE, current)
<1>1. Inferred(key, current) =
        CASE key = "template_notice" -> "in_progress"
          [] key # "template_notice" /\ (k = 0 \/ c = 0) ->
               IF key = current THEN "in_progress" ELSE "not_started"
          [] OTHER -> IF k < c THEN "complete" ELSE IF k = c THEN "in_progress" ELSE "not_started"
  BY DEF Inferred
<1> HIDE DEF k, c
<1> QED
  BY <1>1 DEF Statuses

(* A step of a stack that is complete is complete for all it is of.        *)
LEMMA StepDoneForAll ==
  ASSUME NEW S, IsFiniteSet(S), NEW p, NEW key, SubstepStatus(S, p, key) = "complete",
         NEW m \in S, key \in KeysOfMember(m)[p]
  PROVE  Inferred(key, CurrentOps(m)) = "complete"
<1> DEFINE st == Inferred(key, CurrentOps(m))
           of == {n \in S : key \in KeysOfMember(n)[p] /\ Inferred(key, CurrentOps(n)) = st}
           counted == {x \in Statuses : Tally(S, p, key, x) > 0}
<1>1. m \in of
  OBVIOUS
<1>2. Tally(S, p, key, st) = Cardinality(of)
  BY DEF Tally
<1>3. IsFiniteSet(of)
  BY FS_Subset
<1> HIDE DEF of
<1>4. Cardinality(of) \in Nat /\ Cardinality(of) # 0
  BY <1>1, <1>3, FS_CardinalityType, FS_EmptySet
<1>5. Tally(S, p, key, st) > 0
  BY <1>2, <1>4
<1>6. st \in counted
  BY <1>5, InferredIn
<1>7. Rollup(counted) = "complete"
  BY DEF SubstepStatus
<1> HIDE DEF counted, st
<1>8. counted \subseteq Statuses
  BY DEF counted
<1>9. st = "complete"
  BY <1>6, <1>7, <1>8, AllDone
<1> QED
  BY <1>9 DEF st

LEMMA SubstepStatusIn == \A S, p, key : SubstepStatus(S, p, key) \in Statuses
<1> SUFFICES ASSUME NEW S, NEW p, NEW key PROVE SubstepStatus(S, p, key) \in Statuses
  OBVIOUS
<1>1. {st \in Statuses : Tally(S, p, key, st) > 0} \subseteq Statuses
  OBVIOUS
<1> QED
  BY <1>1, RollupOf DEF SubstepStatus

GroupOf(s, p) == {SubstepStatus(Firsts(s), p, key) : key \in TalliedKeys(Firsts(s), p)}

(* A stage of a stack all of whose steps are complete is behind all of it. *)
LEMMA GroupDone ==
  ASSUME NEW s \in Seq(Members), NEW k \in 1..4,
         Rollup(GroupOf(s, WORKBENCH_STAGE_ORDER[k])) = "complete",
         NEW m \in Firsts(s)
  PROVE  k < ParentPlace(m.stage)
<1> DEFINE p == WORKBENCH_STAGE_ORDER[k]
           S == Firsts(s)
<1>1. S \subseteq Members /\ IsFiniteSet(S)
  BY FirstsOf
<1>2. GroupOf(s, p) \subseteq Statuses
  BY SubstepStatusIn DEF GroupOf
<1>3. GroupOf(s, p) # {} /\ \A st \in GroupOf(s, p) : st = "complete"
  BY <1>2, AllDone
<1>4. ASSUME NEW n \in S, NEW key \in KeysOfMember(n)[p]
      PROVE  Inferred(key, CurrentOps(n)) = "complete"
  <2>1. key \in TalliedKeys(S, p)
    BY DEF TalliedKeys
  <2>2. SubstepStatus(S, p, key) = "complete"
    BY <1>3, <2>1 DEF GroupOf
  <2> QED
    BY <1>1, <2>2, StepDoneForAll
<1>5. PICK n \in S : KeysOfMember(n)[p] # {}
  <2>1. TalliedKeys(S, p) # {}
    BY <1>3 DEF GroupOf
  <2> QED
    BY <2>1 DEF TalliedKeys
<1>6. k < ParentPlace(n.stage)
  BY <1>1, <1>4, <1>5, StageBehind
<1>7. k \in {1, 2, 3}
  BY <1>6, ParentIn
<1>8. KeysOfMember(m)[p] # {}
  <2>1. Substeps(m).ingest # {}
    BY SubstepsOf
  <2> QED
    BY <1>7, <2>1, StagesPlaced, KeysAre
<1> QED
  BY <1>1, <1>4, <1>8, StageBehind

(* The least place of a stack is the place of one of it and of none before.*)
LEMMA LeastPlaceOf ==
  ASSUME NEW s \in Seq(Members), s # <<>>
  PROVE  /\ LeastPlace(s) \in Int
         /\ \A m \in Firsts(s) : LeastPlace(s) <= ParentPlace(m.stage)
<1> DEFINE T == {ParentPlace(m.stage) : m \in Firsts(s)}
<1>1. T \subseteq Nat /\ T # {}
  BY FirstsOf, ParentIn
<1>2. PICK k \in T : \A j \in T : k <= j
  BY <1>1, LeastOf
<1>3. \A m \in Firsts(s) : k <= ParentPlace(m.stage)
  BY <1>2
<1>4. LeastPlace(s) = CHOOSE i \in T : \A m \in Firsts(s) : i <= ParentPlace(m.stage)
  BY DEF LeastPlace
<1> HIDE DEF T
<1>5. \E i \in T : \A m \in Firsts(s) : i <= ParentPlace(m.stage)
  BY <1>3
<1>6. LeastPlace(s) \in T /\ \A m \in Firsts(s) : LeastPlace(s) <= ParentPlace(m.stage)
  BY <1>4, <1>5
<1>7. \A x \in T : x \in Int
  BY <1>1
<1>8. LeastPlace(s) \in Int
  BY <1>6, <1>7
<1> QED
  BY <1>6, <1>8

(* What the rail paints as complete is before the current stage, or all of *)
(* its steps are.                                                          *)
LEMMA RailDone ==
  ASSUME NEW rails, NEW current \in Int, NEW any, NEW k \in 1..4,
         Rail(rails, current, any)[k] = "complete"
  PROVE  k < current \/ Rollup(rails[WORKBENCH_STAGE_ORDER[k]]) = "complete"
<1> DEFINE p  == WORKBENCH_STAGE_ORDER[k]
           st == Rollup(rails[p])
           sp == Split(rails["matching"], rails["fulfillment"]) /\ p \in {"matching", "fulfillment"}
<1>1. Rail(rails, current, any)[k] =
        CASE sp -> "in_progress"
          [] k < current /\ st \in {"not_started", "skipped"} -> "complete"
          [] k = current /\ st = "not_started" /\ any -> "in_progress"
          [] OTHER -> st
  BY DEF Rail
<1> HIDE DEF st, sp
<1>2. k < current \/ st = "complete"
  BY <1>1
<1> QED
  BY <1>2 DEF st

LEMMA DoneBehind ==
  ASSUME NEW s \in Seq(Members), s # <<>>, NEW k \in 1..4, StackRail(s)[k] = "complete",
         NEW m \in Firsts(s)
  PROVE  k < ParentPlace(m.stage)
<1> DEFINE rails == [p \in ToSet(WORKBENCH_STAGE_ORDER) |-> GroupOf(s, p)]
<1>1. StackRail(s) = Rail(rails, LeastPlace(s), s # <<>>)
  BY DEF StackRail, GroupOf
<1>2. rails[WORKBENCH_STAGE_ORDER[k]] = GroupOf(s, WORKBENCH_STAGE_ORDER[k])
  BY StagesPlaced
<1>3. LeastPlace(s) <= ParentPlace(m.stage) /\ ParentPlace(m.stage) \in Int
  BY LeastPlaceOf, ParentIn
<1>4. LeastPlace(s) \in Int
  BY LeastPlaceOf
<1> HIDE DEF rails
<1>5. CASE k < LeastPlace(s)
  BY <1>3, <1>4, <1>5
<1>6. CASE Rollup(rails[WORKBENCH_STAGE_ORDER[k]]) = "complete"
  BY <1>2, <1>6, GroupDone
<1>7. Rail(rails, LeastPlace(s), s # <<>>)[k] = "complete"
  BY <1>1
<1> DEFINE any == s # <<>>
<1>8. Rail(rails, LeastPlace(s), any)[k] = "complete"
  BY <1>7
<1> HIDE DEF any
<1> QED
  BY <1>4, <1>5, <1>6, <1>8, RailDone

LEMMA StackIsBehind ==
  members \in Seq(Members) => DoneStageIsBehind
  BY DoneBehind DEF DoneStageIsBehind

-----------------------------------------------------------------------------
(* The systems of an owner's stack                                         *)

LEMMA NamedAre ==
  ASSUME NEW s \in Seq(Members), NEW i, NEW j
  PROVE  <<i, j>> \in NamedSystems(s) <=>
           /\ i \in DOMAIN s /\ j \in DOMAIN s[i].systems
           /\ s[i].systems[j].system # Unnamed /\ s[i].systems[j].label
  BY DEF NamedSystems

LEMMA NamedPairs ==
  ASSUME NEW s \in Seq(Members), NEW p \in NamedSystems(s)
  PROVE  /\ p = <<p[1], p[2]>> /\ p[1] \in DOMAIN s /\ p[2] \in DOMAIN s[p[1]].systems
         /\ p[1] \in Nat /\ p[2] \in Nat
         /\ s[p[1]].systems[p[2]].system # Unnamed /\ s[p[1]].systems[p[2]].label
<1>1. PICK i \in DOMAIN s : p \in {<<i, j>> : j \in {n \in DOMAIN s[i].systems :
                              s[i].systems[n].system # Unnamed /\ s[i].systems[n].label}}
  BY DEF NamedSystems
<1>2. PICK j \in DOMAIN s[i].systems :
        p = <<i, j>> /\ s[i].systems[j].system # Unnamed /\ s[i].systems[j].label
  BY <1>1
<1>3. i \in Nat
  OBVIOUS
<1>4. s[i] \in Members
  OBVIOUS
<1>5. s[i].systems \in Seq(Range(s[i].systems))
  BY <1>4, ChromeAssumption
<1>6. j \in Nat
  BY <1>5
<1>7. p[1] = i /\ p[2] = j
  BY <1>2
<1> QED
  BY <1>2, <1>3, <1>6, <1>7

(* Of the rows that name a system of a request one is the first.           *)
LEMMA FirstExists ==
  ASSUME NEW s \in Seq(Members), NEW q \in NamedSystems(s)
  PROVE  \E p \in NamedSystems(s) : FirstOfSystem(s, p) /\ SystemKey(s, p) = SystemKey(s, q)
<1> DEFINE Q == {p \in NamedSystems(s) : SystemKey(s, p) = SystemKey(s, q)}
           I == {p[1] : p \in Q}
<1>1. I \subseteq Nat /\ I # {}
  BY NamedPairs
<1>2. PICK i \in I : \A n \in I : i <= n
  BY <1>1, LeastOf
<1> DEFINE J == {p[2] : p \in {x \in Q : x[1] = i}}
<1>3. J \subseteq Nat /\ J # {}
  BY <1>2, NamedPairs
<1>4. PICK j \in J : \A n \in J : j <= n
  BY <1>3, LeastOf
<1>5. PICK p \in Q : p[1] = i /\ p[2] = j
  BY <1>4
<1>6. ASSUME NEW x \in NamedSystems(s), x[1] < p[1] \/ (x[1] = p[1] /\ x[2] < p[2])
      PROVE  SystemKey(s, x) # SystemKey(s, p)
  <2> SUFFICES ASSUME SystemKey(s, x) = SystemKey(s, p) PROVE FALSE
    OBVIOUS
  <2>1. x \in Q
    BY <1>5
  <2>2. x[1] \in Nat /\ x[2] \in Nat /\ p[1] \in Nat /\ p[2] \in Nat
    BY <1>5, NamedPairs
  <2>3. p[1] <= x[1]
    BY <1>2, <1>5, <2>1
  <2>4. x[1] = p[1]
    BY <1>6, <2>2, <2>3
  <2>5. x[2] \in J
    BY <1>5, <2>1, <2>4
  <2>6. p[2] <= x[2]
    BY <1>4, <1>5, <2>5
  <2> QED
    BY <1>6, <2>2, <2>4, <2>6
<1> QED
  BY <1>5, <1>6 DEF FirstOfSystem

(* And no other.                                                           *)
LEMMA FirstOnce ==
  ASSUME NEW s \in Seq(Members), NEW p \in NamedSystems(s), NEW q \in NamedSystems(s),
         FirstOfSystem(s, p), FirstOfSystem(s, q), SystemKey(s, p) = SystemKey(s, q)
  PROVE  p = q
<1>1. /\ p = <<p[1], p[2]>> /\ p[1] \in Nat /\ p[2] \in Nat
      /\ q = <<q[1], q[2]>> /\ q[1] \in Nat /\ q[2] \in Nat
  BY NamedPairs
<1>2. ~(q[1] < p[1] \/ (q[1] = p[1] /\ q[2] < p[2]))
  BY DEF FirstOfSystem
<1>3. ~(p[1] < q[1] \/ (p[1] = q[1] /\ p[2] < q[2]))
  BY DEF FirstOfSystem
<1>4. p[1] = q[1] /\ p[2] = q[2]
  BY <1>1, <1>2, <1>3
<1> QED
  BY <1>1, <1>4

RowOf(s, p) ==
  [id |-> s[p[1]].id, system |-> s[p[1]].systems[p[2]].system,
   stage |-> IF s[p[1]].systems[p[2]].stage # Unnamed THEN s[p[1]].systems[p[2]].stage
             ELSE s[p[1]].stage]

LEMMA RowIs ==
  \A s, p : RowOf(s, p).id = s[p[1]].id /\ RowOf(s, p).system = s[p[1]].systems[p[2]].system
  BY DEF RowOf

RowsOf(s, sys) == {r \in SystemRows(s) : r.system = sys}

WithSystem(s, sys) ==
  {n.id : n \in {x \in ToSet(s) :
                   \E y \in DOMAIN x.systems : x.systems[y].system = sys /\ x.systems[y].label}}

(* A system has a row for each request that names it.                      *)
LEMMA RowPerRequest ==
  ASSUME NEW s \in Seq(Members), NEW sys, sys # Unnamed
  PROVE  /\ IsFiniteSet(RowsOf(s, sys))
         /\ Cardinality(RowsOf(s, sys)) = Cardinality(WithSystem(s, sys))
<1> DEFINE R == RowsOf(s, sys)
           W == WithSystem(s, sys)
           X == {x \in ToSet(s) :
                   \E y \in DOMAIN x.systems : x.systems[y].system = sys /\ x.systems[y].label}
           f == [r \in R |-> r.id]
<1>1. \A r \in R : \E p \in NamedSystems(s) : FirstOfSystem(s, p) /\ r = RowOf(s, p)
  BY DEF RowsOf, SystemRows, RowOf
<1>2. \A p \in NamedSystems(s) : FirstOfSystem(s, p) => RowOf(s, p) \in SystemRows(s)
  BY DEF SystemRows, RowOf
<1>3. ASSUME NEW r \in R PROVE r.id \in W
  <2>1. PICK p \in NamedSystems(s) : FirstOfSystem(s, p) /\ r = RowOf(s, p)
    BY <1>1
  <2>2. r.id = s[p[1]].id /\ s[p[1]].systems[p[2]].system = sys
    BY <2>1, RowIs DEF RowsOf
  <2>3. p[1] \in DOMAIN s /\ p[2] \in DOMAIN s[p[1]].systems /\ s[p[1]].systems[p[2]].label
    BY NamedPairs
  <2>4. s[p[1]] \in X
    BY <2>2, <2>3 DEF ToSet
  <2> HIDE DEF X
  <2>5. W = {n.id : n \in X}
    BY DEF WithSystem, X
  <2> QED
    BY <2>2, <2>4, <2>5
<1>4. ASSUME NEW w \in W PROVE \E r \in R : r.id = w
  <2>1. PICK x \in X : x.id = w
    BY DEF WithSystem
  <2>2. PICK i \in DOMAIN s : s[i] = x
    BY DEF ToSet
  <2>3. PICK y \in DOMAIN s[i].systems : s[i].systems[y].system = sys /\ s[i].systems[y].label
    BY <2>2
  <2> DEFINE q == <<i, y>>
  <2>4. q \in NamedSystems(s)
    BY <2>3, NamedAre
  <2>5. q[1] = i /\ q[2] = y
    OBVIOUS
  <2>6. SystemKey(s, q) = <<w, sys>>
    BY <2>1, <2>2, <2>3, <2>5 DEF SystemKey
  <2> HIDE DEF q
  <2>7. PICK p \in NamedSystems(s) : FirstOfSystem(s, p) /\ SystemKey(s, p) = SystemKey(s, q)
    BY <2>4, FirstExists
  <2>8. s[p[1]].id = w /\ s[p[1]].systems[p[2]].system = sys
    BY <2>6, <2>7 DEF SystemKey
  <2>9. RowOf(s, p) \in R /\ RowOf(s, p).id = w
    BY <1>2, <2>7, <2>8, RowIs DEF RowsOf
  <2> QED
    BY <2>9
<1>5. ASSUME NEW r \in R, NEW t \in R, r.id = t.id PROVE r = t
  <2>1. PICK p \in NamedSystems(s) : FirstOfSystem(s, p) /\ r = RowOf(s, p)
    BY <1>1
  <2>2. PICK q \in NamedSystems(s) : FirstOfSystem(s, q) /\ t = RowOf(s, q)
    BY <1>1
  <2>3. r.id = s[p[1]].id /\ s[p[1]].systems[p[2]].system = sys
    BY <2>1, RowIs DEF RowsOf
  <2>4. t.id = s[q[1]].id /\ s[q[1]].systems[q[2]].system = sys
    BY <2>2, RowIs DEF RowsOf
  <2>5. SystemKey(s, p) = SystemKey(s, q)
    BY <1>5, <2>3, <2>4 DEF SystemKey
  <2>6. p = q
    BY <2>1, <2>2, <2>5, FirstOnce
  <2> QED
    BY <2>1, <2>2, <2>6
<1>6. IsFiniteSet(W)
  <2>1. IsFiniteSet(1..Len(s)) /\ DOMAIN s = 1..Len(s)
    BY FS_Interval
  <2>2. IsFiniteSet(ToSet(s))
    <3>1. DOMAIN s = DOMAIN s /\ s = [k \in DOMAIN s |-> s[k]]
      OBVIOUS
    <3>2. IsFiniteSet({s[k] : k \in DOMAIN s})
      BY <2>1, <3>1, ImageFinite
    <3> QED
      BY <3>2 DEF ToSet
  <2>3. IsFiniteSet(X)
    BY <2>2, FS_Subset
  <2>4. W = {n.id : n \in X}
    BY DEF WithSystem
  <2> HIDE DEF X
  <2> DEFINE g == [n \in X |-> n.id]
  <2>5. DOMAIN g = X /\ g = [n \in X |-> g[n]]
    OBVIOUS
  <2>6. {g[n] : n \in X} = W
    BY <2>4
  <2> HIDE DEF g
  <2>7. IsFiniteSet({g[n] : n \in X})
    BY <2>3, <2>5, ImageFinite
  <2> QED
    BY <2>6, <2>7
<1> HIDE DEF R, W, X
<1>7. f \in Injection(R, W)
  BY <1>3, <1>5 DEF Injection, IsInjective
<1>8. f \in Surjection(R, W)
  BY <1>3, <1>4 DEF Surjection
<1> HIDE DEF f
<1>9. IsFiniteSet(R) /\ Cardinality(R) <= Cardinality(W)
  BY <1>6, <1>7, FS_Injection
<1>10. Cardinality(W) <= Cardinality(R)
  BY <1>8, <1>9, FS_Surjection
<1>11. Cardinality(R) \in Nat /\ Cardinality(W) \in Nat
  BY <1>6, <1>9, FS_CardinalityType
<1>12. Cardinality(R) = Cardinality(W)
  BY <1>9, <1>10, <1>11
<1> QED
  BY <1>9, <1>12 DEF R, W

LEMMA ParentStatusIn ==
  \A k \in Int : \A stage : ParentStatus(k, stage) \in {"complete", "in_progress", "not_started"}
  BY DEF ParentStatus

LEMMA TwoParts ==
  ASSUME NEW A, NEW B, IsFiniteSet(A), IsFiniteSet(B), A \cap B = {}
  PROVE  IsFiniteSet(A \cup B) /\ Cardinality(A \cup B) = Cardinality(A) + Cardinality(B)
<1>1. /\ IsFiniteSet(A \cup B)
      /\ Cardinality(A \cup B) = Cardinality(A) + Cardinality(B) - Cardinality(A \cap B)
  BY FS_Union
<1>2. Cardinality(A \cap B) = 0
  BY FS_EmptySet
<1>3. Cardinality(A) \in Nat /\ Cardinality(B) \in Nat
  BY FS_CardinalityType
<1> QED
  BY <1>1, <1>2, <1>3

LEMMA ThreeParts ==
  ASSUME NEW S, IsFiniteSet(S), NEW A, NEW B, NEW C, S = A \cup B \cup C,
         A \cap B = {}, A \cap C = {}, B \cap C = {}
  PROVE  Cardinality(A) + Cardinality(B) + Cardinality(C) = Cardinality(S)
<1>1. IsFiniteSet(A) /\ IsFiniteSet(B) /\ IsFiniteSet(C)
  BY FS_Subset
<1> DEFINE D == A \cup B
<1>2. IsFiniteSet(D) /\ Cardinality(D) = Cardinality(A) + Cardinality(B)
  BY <1>1, TwoParts
<1>3. D \cap C = {} /\ S = D \cup C
  OBVIOUS
<1> HIDE DEF D
<1>4. Cardinality(D \cup C) = Cardinality(D) + Cardinality(C)
  BY <1>1, <1>2, <1>3, TwoParts
<1> QED
  BY <1>2, <1>3, <1>4

LEMMA CountedOnce ==
  ASSUME NEW s \in Seq(Members), NEW k \in 1..4, NEW sys, sys # Unnamed
  PROVE  SystemCount(s, k, sys, "complete") + SystemCount(s, k, sys, "in_progress")
         + SystemCount(s, k, sys, "not_started") = Cardinality(WithSystem(s, sys))
<1> DEFINE At(st) == {r \in SystemRows(s) : r.system = sys /\ ParentStatus(k, r.stage) = st}
           R == RowsOf(s, sys)
           A == At("complete")
           B == At("in_progress")
           C == At("not_started")
<1>1. R = A \cup B \cup C
  BY ParentStatusIn DEF RowsOf
<1>2. A \cap B = {} /\ A \cap C = {} /\ B \cap C = {}
  OBVIOUS
<1>3. /\ SystemCount(s, k, sys, "complete") = Cardinality(A)
      /\ SystemCount(s, k, sys, "in_progress") = Cardinality(B)
      /\ SystemCount(s, k, sys, "not_started") = Cardinality(C)
  BY DEF SystemCount
<1>4. IsFiniteSet(R) /\ Cardinality(R) = Cardinality(WithSystem(s, sys))
  BY RowPerRequest
<1> HIDE DEF A, B, C, R
<1>5. Cardinality(A) + Cardinality(B) + Cardinality(C) = Cardinality(R)
  BY <1>1, <1>2, <1>4, ThreeParts
<1> QED
  BY <1>3, <1>4, <1>5

LEMMA StackIsCounted ==
  members \in Seq(Members) => SystemsCountOnce
  BY CountedOnce DEF SystemsCountOnce, WithSystem

-----------------------------------------------------------------------------
(* The connector gate beside a request                                     *)

(* Of some reminders one is the most urgent, the first of its kind.        *)
LEMMA MostUrgent ==
  ASSUME NEW s, NEW P, P \subseteq Nat, P # {}
  PROVE  \E i \in P : \A j \in P : \/ Urgency(s[i]) < Urgency(s[j])
                                   \/ Urgency(s[i]) = Urgency(s[j]) /\ i <= j
<1>1. \A r : Urgency(r) \in Nat
  BY DEF Urgency
<1> DEFINE U == {Urgency(s[k]) : k \in P}
<1>2. U \subseteq Nat /\ U # {}
  BY <1>1
<1>3. PICK u \in U : \A n \in U : u <= n
  BY <1>2, LeastOf
<1> DEFINE I == {k \in P : Urgency(s[k]) = u}
<1>4. I \subseteq Nat /\ I # {}
  BY <1>3
<1>5. PICK i \in I : \A n \in I : i <= n
  BY <1>4, LeastOf
<1>6. ASSUME NEW j \in P
      PROVE  Urgency(s[i]) < Urgency(s[j]) \/ (Urgency(s[i]) = Urgency(s[j]) /\ i <= j)
  <2>1. Urgency(s[i]) = u /\ u <= Urgency(s[j])
    BY <1>3, <1>5
  <2>2. Urgency(s[i]) \in Nat /\ Urgency(s[j]) \in Nat
    BY <1>1
  <2>3. CASE Urgency(s[j]) = u
    <3>1. j \in I
      BY <2>3
    <3>2. i <= j
      BY <1>5, <3>1
    <3> QED
      BY <2>1, <2>3, <3>2
  <2>4. CASE Urgency(s[j]) # u
    BY <2>1, <2>2, <2>4
  <2> QED
    BY <2>3, <2>4
<1> QED
  BY <1>6

(* A pressing reminder among one's own is a gate, named by its code.       *)
LEMMA GateFound ==
  ASSUME NEW s \in Seq(Overdue), NEW mine, mine \subseteq DOMAIN s, NEW n \in mine, Pressing(s[n])
  PROVE  LET gate == GateOfReminders(s, mine)
         IN  /\ gate # NoGate /\ gate.code # Unnamed
             /\ \E k \in mine : gate.code = s[k].code
<1> DEFINE P == {k \in mine : Pressing(s[k])}
           k == CHOOSE i \in P : \A j \in P : \/ Urgency(s[i]) < Urgency(s[j])
                                              \/ Urgency(s[i]) = Urgency(s[j]) /\ i <= j
           gate == GateOfReminders(s, mine)
<1>1. P \subseteq Nat /\ P # {}
  OBVIOUS
<1>2. k \in P
  <2> HIDE DEF P
  <2> QED
    BY <1>1, MostUrgent
<1>3. gate = [system |-> s[k].system, code |-> s[k].code, vertical |-> Unnamed]
  BY <1>1 DEF GateOfReminders
<1>4. s[k] \in Overdue /\ k \in mine
  BY <1>2
<1> HIDE DEF k, gate
<1>5. gate.code = s[k].code /\ gate.code # Unnamed
  BY <1>3, <1>4, ChromeAssumption
<1>6. NoGate.code = Unnamed
  BY DEF NoGate
<1>7. gate # NoGate
  BY <1>5, <1>6
<1>8. gate # NoGate /\ gate.code # Unnamed /\ \E i \in mine : gate.code = s[i].code
  BY <1>4, <1>5, <1>7
<1> QED
  BY <1>8 DEF gate

LEMMA MyGateFound ==
  ASSUME NEW r \in Seq(Overdue), NEW n \in DOMAIN r, Pressing(r[n]), r[n].vertical \in Mine
  PROVE  Callout("data_owner", <<>>, r) # NoGate
<1> DEFINE mine  == MyReminders(r)
           found == ConnectorGateOf(<<>>, r, mine)
           gate  == GateOfReminders(r, mine)
           v     == CalloutVertical(gate, r, mine, <<>>)
<1>1. mine \subseteq DOMAIN r /\ n \in mine /\ \A k \in mine : r[k].vertical \in Mine
  BY DEF MyReminders
<1>2. GateOfAttempts(<<>>) = NoGate
  BY DEF GateOfAttempts
<1>3. found = gate
  BY <1>2 DEF ConnectorGateOf
<1>4. mine \subseteq Nat
  BY <1>1
<1> HIDE DEF mine
<1>5. gate # NoGate /\ gate.code # Unnamed /\ \E k \in mine : gate.code = r[k].code
  BY <1>1, GateFound
<1>6. v \in Mine
  <2> DEFINE named == {k \in mine : r[k].system = gate.system \/ r[k].code = gate.code}
             k     == CHOOSE i \in named : \A j \in named : i <= j
  <2>1. named \subseteq Nat /\ named # {}
    BY <1>4, <1>5
  <2>2. v = r[k].vertical
    BY <2>1 DEF CalloutVertical
  <2>3. k \in named
    <3> HIDE DEF named
    <3> QED
      BY <2>1, LeastOf
  <2> QED
    BY <1>1, <2>2, <2>3
<1>7. Callout("data_owner", <<>>, r) = [gate EXCEPT !.vertical = v]
  <2>1. Callout("data_owner", <<>>, r) =
          LET g == IF found # NoGate THEN found ELSE GateOfErrors(<<>>)
              w == CalloutVertical(g, r, mine, <<>>)
          IN IF g = NoGate \/ (Mine # {} /\ w # Unnamed /\ w \notin Mine /\ "data_owner" = "data_owner")
             THEN NoGate ELSE [g EXCEPT !.vertical = w]
    BY DEF Callout, mine
  <2> HIDE DEF gate, found
  <2>2. (IF found # NoGate THEN found ELSE GateOfErrors(<<>>)) = gate
    BY <1>3, <1>5
  <2> QED
    BY <1>5, <1>6, <2>1, <2>2
<1>8. gate = [system |-> gate.system, code |-> gate.code, vertical |-> gate.vertical]
  BY <1>5 DEF GateOfReminders, NoGate
<1> HIDE DEF gate, v
<1>9. [gate EXCEPT !.vertical = v].code = gate.code
  BY <1>8
<1>10. NoGate.code = Unnamed
  BY DEF NoGate
<1> QED
  BY <1>5, <1>7, <1>9, <1>10

LEMMA GateIsShown ==
  reminded \in Seq(Overdue) => MyGateShown
  BY MyGateFound DEF MyGateShown

-----------------------------------------------------------------------------
(* The statuses of the rails                                               *)

LEMMA RailIn ==
  ASSUME NEW rails, NEW current \in Int, NEW any, NEW k \in 1..4,
         rails[WORKBENCH_STAGE_ORDER[k]] \subseteq Statuses
  PROVE  Rail(rails, current, any)[k] \in Statuses
<1> DEFINE p  == WORKBENCH_STAGE_ORDER[k]
           st == Rollup(rails[p])
           sp == Split(rails["matching"], rails["fulfillment"]) /\ p \in {"matching", "fulfillment"}
<1>1. Rail(rails, current, any)[k] =
        CASE sp -> "in_progress"
          [] k < current /\ st \in {"not_started", "skipped"} -> "complete"
          [] k = current /\ st = "not_started" /\ any -> "in_progress"
          [] OTHER -> st
  BY DEF Rail
<1>2. st \in Statuses
  BY RollupOf
<1> HIDE DEF st, sp
<1> QED
  BY <1>1, <1>2 DEF Statuses

LEMMA StackRailIn ==
  ASSUME NEW s \in Seq(Members), s # <<>>, NEW k \in 1..4
  PROVE  StackRail(s)[k] \in Statuses
<1> DEFINE rails == [p \in ToSet(WORKBENCH_STAGE_ORDER) |-> GroupOf(s, p)]
           any == s # <<>>
<1>1. StackRail(s) = Rail(rails, LeastPlace(s), any)
  BY DEF StackRail, GroupOf
<1>2. rails[WORKBENCH_STAGE_ORDER[k]] = GroupOf(s, WORKBENCH_STAGE_ORDER[k])
  BY StagesPlaced
<1> HIDE DEF rails, any
<1>3. rails[WORKBENCH_STAGE_ORDER[k]] \subseteq Statuses
  BY <1>2, SubstepStatusIn DEF GroupOf
<1>4. LeastPlace(s) \in Int
  BY LeastPlaceOf
<1> QED
  BY <1>1, <1>3, <1>4, RailIn

LEMMA DerivedRailIn ==
  ASSUME NEW j \in Journeys, NEW k \in 1..4
  PROVE  DerivedRail(j)[k] \in Statuses
<1> DEFINE rails == [p \in ToSet(WORKBENCH_STAGE_ORDER) |-> DerivedGroup(j, p)]
           any == TRUE
           here == ParentPlace(j.stage)
<1>1. DerivedRail(j) = Rail(rails, here, any)
  BY DEF DerivedRail
<1>2. rails[WORKBENCH_STAGE_ORDER[k]] = DerivedGroup(j, WORKBENCH_STAGE_ORDER[k])
  BY StagesPlaced
<1>3. here \in Int
  BY ParentIn
<1>4. \A p : DerivedGroup(j, p) \subseteq Statuses
  <2> SUFFICES ASSUME NEW p PROVE DerivedGroup(j, p) \subseteq Statuses
    OBVIOUS
  <2> DEFINE keys == Substeps([j EXCEPT !.stage = Unnamed])[p] \cap DOMAIN j.status
             have == {j.status[key] : key \in keys}
  <2>1. \A key \in keys : j.status[key] \in Statuses
    BY ChromeAssumption
  <2>2. have \subseteq Statuses
    BY <2>1
  <2>3. DerivedGroup(j, p) \in {have, {"in_progress"}}
    BY DEF DerivedGroup
  <2> QED
    BY <2>2, <2>3 DEF Statuses
<1> HIDE DEF rails, any, here
<1>5. rails[WORKBENCH_STAGE_ORDER[k]] \subseteq Statuses
  BY <1>2, <1>4
<1> QED
  BY <1>1, <1>3, <1>5, RailIn

-----------------------------------------------------------------------------
(* What the polls bring is what the constants describe.                    *)
ChromeInv ==
  members \in Seq(Members) /\ ops \in Journeys /\ attempts \in Seq(Attempts) /\ reminded \in Seq(Overdue)

LEMMA ChromeInvStep == ChromeInv /\ [ChromeNext]_chromeVars => ChromeInv'
<1> SUFFICES ASSUME ChromeInv, [ChromeNext]_chromeVars PROVE ChromeInv'
  OBVIOUS
<1> USE DEF ChromeInv
<1>1. CASE \E m \in Members : MemberJoins(m)
  BY <1>1 DEF MemberJoins, StackPolled
<1>2. CASE MemberLeaves
  <2>1. members # <<>> /\ members' = Tail(members) /\ UNCHANGED <<ops, attempts, reminded>>
    BY <1>2 DEF MemberLeaves, StackPolled
  <2>2. Tail(members) \in Seq(Members)
    BY <2>1
  <2> QED
    BY <2>1, <2>2
<1>3. CASE \E j \in Journeys : JourneyPolled(j)
  BY <1>3 DEF JourneyPolled
<1>4. CASE \E a \in Attempts : AttemptEnds(a)
  BY <1>4 DEF AttemptEnds
<1>5. CASE \E s \in SeqOf(Overdue, 2) : RemindersPolled(s)
  <2>1. PICK s \in SeqOf(Overdue, 2) : RemindersPolled(s)
    BY <1>5
  <2>2. s \in UNION {[1..m -> Overdue] : m \in 0..2}
    BY <2>1 DEF SeqOf
  <2>3. PICK m \in 0..2 : s \in [1..m -> Overdue]
    BY <2>2
  <2>4. s \in Seq(Overdue)
    BY <2>3
  <2> QED
    BY <2>1, <2>4 DEF RemindersPolled
<1>6. CASE UNCHANGED chromeVars
  BY <1>6 DEF chromeVars
<1> QED
  BY <1>1, <1>2, <1>3, <1>4, <1>5, <1>6 DEF ChromeNext

(* Whatever the polls bring, every stage of the rail has one of the        *)
(* statuses of the operations journey, for a stack of any length and for a *)
(* journey the API gives in part.                                          *)
THEOREM ChromeTyped == ChromeSpec => []ChromeTypeOK
<1>1. ChromeInit => ChromeInv
  <2> SUFFICES ASSUME ChromeInit PROVE ChromeInv
    OBVIOUS
  <2>1. ops \in Journeys
    BY ChromeAssumption DEF ChromeInit
  <2> QED
    BY <2>1 DEF ChromeInit, ChromeInv
<1>2. ChromeInv => ChromeTypeOK
  BY StackRailIn, DerivedRailIn DEF ChromeInv, ChromeTypeOK
<1> QED
  BY <1>1, <1>2, ChromeInvStep, PTL DEF ChromeSpec

(* The rail of a stack speaks for all of it: a stage painted as complete   *)
(* has no request of the stack in it or before it, and the systems of the  *)
(* owner's stack count every request once under every stage, whatever the  *)
(* order, sources and types of its requests are; and a pressing reminder   *)
(* of one's own is told beside a request without attempts, whatever other  *)
(* reminders there are.                                                    *)
THEOREM StackSpokenFor == ChromeSpec => []ChromeTold
<1>1. ChromeInit => ChromeInv
  <2> SUFFICES ASSUME ChromeInit PROVE ChromeInv
    OBVIOUS
  <2>1. ops \in Journeys
    BY ChromeAssumption DEF ChromeInit
  <2> QED
    BY <2>1 DEF ChromeInit, ChromeInv
<1>2. ChromeInv => ChromeTold
  BY StackIsBehind, StackIsCounted, GateIsShown DEF ChromeInv, ChromeTold, StackSpeaksForAll
<1> QED
  BY <1>1, <1>2, ChromeInvStep, PTL DEF ChromeSpec

-----------------------------------------------------------------------------
(* The stacks of the inbox                                                 *)

(* Every status a row can get has its place in the fixed order.            *)
LEMMA StatusHasPlace ==
  ASSUME NEW i, NEW reminders, NEW gate
  PROVE  WorkStatusKey(i, reminders, gate) \in StatusOrder
<1>1. WorkTypeKey(i) \in StatusOrder
  <2>1. WorkTypeKey(i) \in {"notice", "delivery", "triage", "assignment_to_legal",
                            "communications", "fulfillment", "other"}
    BY DEF WorkTypeKey
  <2> QED
    BY <2>1 DEF StatusOrder
<1>2. BatchStatusKey(i) \in StatusOrder
  <2>1. BatchStatusKey(i) \in {"drop_3", "drop_4", "drop_5", "single_match", "multi_match",
                               "not_found", "unknown", WorkTypeKey(i)}
    BY Zenon DEF BatchStatusKey
  <2> QED
    BY <1>1, <2>1 DEF StatusOrder
<1>3. ConnectorBlock(i, reminders, gate) \in {"", "needs_refresh", "needs_connection"}
  BY Zenon DEF ConnectorBlock
<1>4. WorkStatusKey(i, reminders, gate) \in
        {BatchStatusKey(i), "needs_refresh", "needs_connection"}
  BY <1>3, Zenon DEF WorkStatusKey
<1> QED
  BY <1>2, <1>4 DEF StatusOrder

(* Stacked by status alone, the key of a row is its status.                *)
LEMMA StatusAlone ==
  ASSUME groups = {"status"}, NEW i
  PROVE  StackOf(i)[1] = WorkStatusKey(i, Reminders, ConnectorGate)
<1> DEFINE w == WorkStatusKey(i, Reminders, ConnectorGate)
<1>1. /\ "batch" \notin groups /\ "status" \in groups
      /\ ~("system" \in groups /\ ShowSystem)
  OBVIOUS
<1>2. StackOf(i) = (<<>> \o <<>>) \o <<w>>
  BY <1>1, Zenon DEF StackOf, StackKey
<1> HIDE DEF w
<1>3. (<<>> \o <<>>) \o <<w>> = <<w>>
  OBVIOUS
<1> QED
  BY <1>2, <1>3 DEF w

(* Whatever the switches, the stacks are a partition of the rows shown.    *)
LEMMA OneStackEach == EveryRowStacked
<1> DEFINE on == ToSet(Filtered)
           keys == {StackOf(i) : i \in on}
           placed == IF groups = {"status"} THEN {k \in keys : InOrder(k[1])} ELSE keys
<1>1. placed = keys
  <2>1. ASSUME NEW k \in keys, groups = {"status"} PROVE InOrder(k[1])
    BY <2>1, StatusAlone, StatusHasPlace DEF InOrder
  <2> QED
    BY <2>1
<1>2. Stacks = IF ~Grouping THEN {{i} : i \in on}
               ELSE {{i \in on : StackOf(i) = k} : k \in placed}
  BY Zenon DEF Stacks
<1> HIDE DEF on, placed
<1>3. CASE ~Grouping
  BY <1>2, <1>3, Zenon DEF EveryRowStacked, on
<1>4. CASE Grouping
  <2>1. Stacks = {{i \in on : StackOf(i) = k} : k \in keys}
    BY <1>1, <1>2, <1>4
  <2>2. ASSUME NEW i \in on PROVE i \in UNION Stacks
    BY <2>1
  <2>3. UNION Stacks \subseteq on
    BY <2>1
  <2>4. ASSUME NEW s \in Stacks, NEW u \in Stacks PROVE s = u \/ s \cap u = {}
    <3>1. PICK k \in keys : s = {i \in on : StackOf(i) = k}
      BY <2>1
    <3>2. PICK l \in keys : u = {i \in on : StackOf(i) = l}
      BY <2>1
    <3> HIDE DEF keys
    <3> QED
      BY <3>1, <3>2
  <2>5. UNION Stacks = on
    BY <2>2, <2>3
  <2> QED
    BY <2>4, <2>5, Zenon DEF EveryRowStacked, on
<1> QED
  BY <1>3, <1>4

(* However the rows of an inbox are stacked, and whatever its filters, its *)
(* sources' rows and its gate, each row shown is in exactly one stack      *)
(* (buildGroupedInboxRows of needs-attention.tsx).                         *)
THEOREM EveryRowHasItsStack == InboxSpec => []EveryRowStacked
  BY OneStackEach, PTL

-----------------------------------------------------------------------------
(* The rows of the inbox: sequences of what the API lists                  *)
Listed(i) ==
  /\ i = [f \in DOMAIN i |-> i[f]] /\ ListedFields \subseteq DOMAIN i /\ i.day \in Nat
  /\ i.connections \in Seq(ToSet(i.connections))

LEMMA InToSet ==
  ASSUME NEW T, NEW s \in Seq(T)
  PROVE  /\ s \in Seq(ToSet(s)) /\ ToSet(s) \subseteq T /\ IsFiniteSet(ToSet(s))
         /\ \A x : x \in ToSet(s) <=> \E k \in 1..Len(s) : x = s[k]
<1>1. DOMAIN s = 1..Len(s) /\ Len(s) \in Nat
  OBVIOUS
<1>2. ToSet(s) = {s[k] : k \in 1..Len(s)}
  BY <1>1 DEF ToSet
<1>3. \A k \in 1..Len(s) : s[k] \in T
  OBVIOUS
<1>4. s \in Seq(ToSet(s))
  <2>1. \A k \in 1..Len(s) : s[k] \in ToSet(s)
    BY <1>2
  <2>2. s = [k \in 1..Len(s) |-> s[k]]
    BY <1>1
  <2> QED
    BY <1>1, <2>1, <2>2, IsASeq
<1>5. IsFiniteSet(ToSet(s))
  <2>0. IsFiniteSet(1..Len(s))
    BY <1>1, FS_Interval
  <2>1. IsFiniteSet(1..Len(s)) /\ s = [x \in 1..Len(s) |-> s[x]]
    BY <1>1, <2>0
  <2>2. IsFiniteSet({s[x] : x \in 1..Len(s)})
    BY <1>1, <2>1, ImageFinite
  <2> QED
    BY <1>2, <2>2
<1> QED
  BY <1>2, <1>3, <1>4, <1>5

LEMMA UpToNumber ==
  ASSUME NEW n \in Nat
  PROVE  IsFiniteSet(1..n) /\ Cardinality(1..n) = n
<1>1. IsFiniteSet(1..n) /\ Cardinality(1..n) = IF 1 > n THEN 0 ELSE n - 1 + 1
  BY FS_Interval
<1>2. (IF 1 > n THEN 0 ELSE n - 1 + 1) = n
  OBVIOUS
<1> QED
  BY <1>1, <1>2

LEMMA KeptIn ==
  ASSUME NEW T, NEW s \in Seq(T), NEW S
  PROVE  Keep(s, S) \in Seq(T) /\ ToSet(Keep(s, S)) \subseteq ToSet(s) \cap S
<1>1. Keep(s, S) \in Seq(T)
  BY KeptPlaces
<1>2. PICK pos : Places(pos, s, Keep(s, S), S)
  BY KeptPlaces
<1> DEFINE t == Keep(s, S)
<1> HIDE DEF t
<1>3. ASSUME NEW x \in ToSet(t) PROVE x \in ToSet(s) /\ x \in S
  <2>1. PICK k \in 1..Len(t) : x = t[k]
    BY <1>1, InToSet DEF t
  <2>2. pos[k] \in 1..Len(s) /\ t[k] = s[pos[k]] /\ t[k] \in S
    BY <1>2, <2>1 DEF Places, t
  <2> QED
    BY <2>1, <2>2, InToSet
<1> QED
  BY <1>1, <1>3 DEF t

(* A filter keeps as many rows as there are places it keeps.               *)
LEMMA KeptNumber ==
  ASSUME NEW T, NEW s \in Seq(T), NEW S
  PROVE  Len(Keep(s, S)) = Cardinality({n \in 1..Len(s) : s[n] \in S})
<1> DEFINE t == Keep(s, S)
           P == {n \in 1..Len(s) : s[n] \in S}
<1>1. t \in Seq(T) /\ Len(t) \in Nat /\ Len(s) \in Nat
  BY KeptPlaces
<1>2. PICK pos : Places(pos, s, t, S)
  BY KeptPlaces
<1> HIDE DEF t
<1>3. pos \in Bijection(1..Len(t), P)
  <2>1. \A k \in 1..Len(t) : pos[k] \in P
    BY <1>2 DEF Places
  <2>2. pos \in [1..Len(t) -> P]
    BY <1>2, <2>1 DEF Places
  <2>3. \A j, k \in 1..Len(t) : pos[j] = pos[k] => j = k
    <3>1. ASSUME NEW j \in 1..Len(t), NEW k \in 1..Len(t), j < k PROVE pos[j] # pos[k]
      <4>1. pos[j] < pos[k] /\ pos[j] \in 1..Len(s) /\ pos[k] \in 1..Len(s)
        BY <1>2, <3>1 DEF Places
      <4> QED
        BY <4>1
    <3> QED
      BY <3>1
  <2>4. \A n \in P : \E k \in 1..Len(t) : pos[k] = n
    BY <1>2 DEF Places
  <2> HIDE DEF P
  <2> QED
    BY <2>2, <2>3, <2>4 DEF Bijection, Injection, Surjection, IsInjective
<1>4. IsFiniteSet(1..Len(t)) /\ Cardinality(1..Len(t)) = Len(t)
  BY <1>1, UpToNumber
<1> HIDE DEF P
<1>5. Cardinality(P) = Len(t)
  <2>1. ExistsBijection(1..Len(t), P)
    BY <1>3 DEF ExistsBijection
  <2> QED
    BY <1>4, <2>1, FS_Bijection
<1> QED
  BY <1>5 DEF P, t

LEMMA LeadingIn ==
  ASSUME NEW T, NEW s \in Seq(T), NEW n \in Int
  PROVE  Leading(n, s) \in Seq(T)
<1>1. Len(s) \in Nat /\ Fewest(Len(s), n) \in Int /\ Fewest(Len(s), n) <= Len(s)
  BY DEF Fewest
<1>2. \A i \in 1..Fewest(Len(s), n) : s[i] \in T
  BY <1>1
<1> QED
  BY <1>1, <1>2, SubSeqProperties DEF Leading

LEMMA RemovedIn ==
  ASSUME NEW T, NEW s \in Seq(T), NEW n \in 1..Len(s)
  PROVE  RemoveAt(s, n) \in Seq(T)
<1>1. /\ Len(s) \in Nat /\ n - 1 \in Int /\ n + 1 \in Int
      /\ \A i \in 1..n - 1 : s[i] \in T
      /\ \A i \in n + 1..Len(s) : s[i] \in T
  OBVIOUS
<1>2. SubSeq(s, 1, n - 1) \in Seq(T)
  BY <1>1, SubSeqProperties
<1>3. SubSeq(s, n + 1, Len(s)) \in Seq(T)
  BY <1>1, SubSeqProperties
<1> QED
  BY <1>2, <1>3, ConcatProperties DEF RemoveAt

(* Sorted by age, a row stands where as many rows are not younger: no two  *)
(* rows stand in one place, so every place is taken.                       *)
NotYounger(rows, n) ==
  {m \in 1..Len(rows) : \/ rows[m].day < rows[n].day
                        \/ rows[m].day = rows[n].day /\ m <= n}

LEMMA AgedIn ==
  ASSUME NEW T, NEW rows \in Seq(T), \A i \in T : i.day \in Nat
  PROVE  ByAge(rows) \in Seq(T)
<1> DEFINE N    == 1..Len(rows)
           size == [n \in N |-> Cardinality(NotYounger(rows, n))]
<1>1. /\ Len(rows) \in Nat /\ IsFiniteSet(N) /\ Cardinality(N) = Len(rows)
      /\ \A n \in N : rows[n] \in T /\ rows[n].day \in Nat
  <2>1. Len(rows) \in Nat /\ \A n \in N : rows[n] \in T
    OBVIOUS
  <2> QED
    BY <2>1, UpToNumber
<1>2. ASSUME NEW n \in N
      PROVE  /\ n \in NotYounger(rows, n) /\ NotYounger(rows, n) \in SUBSET N
             /\ IsFiniteSet(NotYounger(rows, n)) /\ Cardinality(NotYounger(rows, n)) \in N
  <2>1. n \in NotYounger(rows, n) /\ NotYounger(rows, n) \in SUBSET N
    BY <1>1 DEF NotYounger
  <2> HIDE DEF N
  <2>2. /\ IsFiniteSet(NotYounger(rows, n))
        /\ Cardinality(NotYounger(rows, n)) <= Len(rows)
        /\ Cardinality(NotYounger(rows, n)) \in Nat
    BY <1>1, <2>1, FS_Subset, FS_CardinalityType
  <2>3. Cardinality(NotYounger(rows, n)) # 0
    BY <2>1, <2>2, FS_EmptySet
  <2> QED
    BY <1>1, <2>1, <2>2, <2>3 DEF N
<1>3. ASSUME NEW m \in N, NEW n \in N,
             rows[m].day < rows[n].day \/ (rows[m].day = rows[n].day /\ m < n)
      PROVE  Cardinality(NotYounger(rows, m)) # Cardinality(NotYounger(rows, n))
  <2>1. n \notin NotYounger(rows, m)
    BY <1>1, <1>3 DEF NotYounger
  <2>2. ASSUME NEW k \in NotYounger(rows, m) PROVE k \in NotYounger(rows, n)
    <3>1. k \in N /\ (rows[k].day < rows[m].day \/ (rows[k].day = rows[m].day /\ k <= m))
      BY DEF NotYounger
    <3>2. rows[k].day \in Nat /\ rows[m].day \in Nat /\ rows[n].day \in Nat
      BY <1>1, <3>1
    <3>3. rows[k].day < rows[n].day \/ (rows[k].day = rows[n].day /\ k <= n)
      BY <1>3, <3>1, <3>2
    <3> QED
      BY <3>1, <3>3 DEF NotYounger
  <2>3. NotYounger(rows, m) \in SUBSET NotYounger(rows, n)
    BY <2>2
  <2>4. NotYounger(rows, m) # NotYounger(rows, n)
    BY <1>2, <2>1
  <2> QED
    BY <1>2, <2>3, <2>4, FS_Subset
<1>4. size \in Injection(N, N)
  <2>1. size \in [N -> N]
    BY <1>2
  <2>2. ASSUME NEW m \in N, NEW n \in N, size[m] = size[n] PROVE m = n
    <3>1. size[m] = Cardinality(NotYounger(rows, m)) /\ size[n] = Cardinality(NotYounger(rows, n))
      OBVIOUS
    <3>2. rows[m].day \in Nat /\ rows[n].day \in Nat /\ m \in Int /\ n \in Int
      BY <1>1
    <3>3. Cardinality(NotYounger(rows, m)) = Cardinality(NotYounger(rows, n))
      BY <2>2, <3>1
    <3> HIDE DEF size, N
    <3>4. ~(rows[m].day < rows[n].day) /\ ~(rows[m].day = rows[n].day /\ m < n)
      BY <1>3, <3>3
    <3>5. ~(rows[n].day < rows[m].day) /\ ~(rows[n].day = rows[m].day /\ n < m)
      BY <1>3, <3>3
    <3> QED
      BY <3>2, <3>4, <3>5
  <2> HIDE DEF size, N
  <2> QED
    BY <2>1, <2>2 DEF Injection, IsInjective
<1>5. ASSUME NEW k \in N PROVE \E n \in N : Cardinality(NotYounger(rows, n)) = k
  <2> HIDE DEF N
  <2>1. size \in Surjection(N, N)
    <3> HIDE DEF size
    <3> QED
      BY <1>1, <1>4, FS_Injection
  <2>2. PICK n \in N : size[n] = k
    BY <2>1 DEF Surjection
  <2> QED
    BY <2>2
<1>6. ASSUME NEW k \in N PROVE rows[CHOOSE n \in N : Cardinality(NotYounger(rows, n)) = k] \in T
  <2> DEFINE n == CHOOSE n \in N : Cardinality(NotYounger(rows, n)) = k
  <2>1. n \in N
    BY <1>5
  <2> HIDE DEF n, N, size
  <2>2. rows[n] \in T
    BY <1>1, <2>1
  <2> QED
    BY <2>2 DEF n
<1>7. ByAge(rows) = [k \in N |-> rows[CHOOSE n \in N : Cardinality(NotYounger(rows, n)) = k]]
  BY DEF ByAge, NotYounger
<1> QED
  BY <1>1, <1>6, <1>7, IsASeq

LEMMA MergedIn ==
  ASSUME NEW T, NEW requests \in Seq(T), NEW kickoffs \in Seq(T)
  PROVE  MergeFulfillment(requests, kickoffs) \in Seq(T)
<1> DEFINE own(k) == {r \in ToSet(requests) : r.request = k.request}
           mine   == [n \in 1..Len(kickoffs) |->
                        IF own(kickoffs[n]) = {} THEN kickoffs[n]
                        ELSE CHOOSE r \in own(kickoffs[n]) : TRUE]
           fresh  == Keep(requests, {r \in ToSet(requests) :
                                       \A k \in ToSet(kickoffs) : k.request # r.request})
<1>1. MergeFulfillment(requests, kickoffs) = mine \o fresh
  BY DEF MergeFulfillment
<1>2. fresh \in Seq(T)
  BY KeptIn
<1>3. mine \in Seq(T)
  <2>1. Len(kickoffs) \in Nat
    OBVIOUS
  <2>2. ASSUME NEW n \in 1..Len(kickoffs) PROVE mine[n] \in T
    <3>1. CASE own(kickoffs[n]) = {}
      BY <3>1
    <3>2. CASE own(kickoffs[n]) # {}
      <4> DEFINE r == CHOOSE r \in own(kickoffs[n]) : TRUE
      <4>1. r \in own(kickoffs[n])
        BY <3>2
      <4>2. r \in T
        BY <4>1, InToSet
      <4> QED
        BY <3>2, <4>2
    <3> QED
      BY <3>1, <3>2
  <2>3. mine = [n \in 1..Len(kickoffs) |-> mine[n]]
    OBVIOUS
  <2> HIDE DEF mine
  <2> QED
    BY <2>1, <2>2, <2>3, IsASeq
<1> QED
  BY <1>1, <1>2, <1>3, ConcatProperties

LEMMA LegalIn ==
  ASSUME NEW T, NEW rows \in Seq(T), \A i \in T : i.day \in Nat, NEW window \in Int
  PROVE  LegalMerge(rows, window) \in Seq(T)
<1> DEFINE lane(k) == Leading(window, Keep(rows, {i \in ToSet(rows) : i.kind = k}))
           lanes   == [n \in 1..4 |-> lane(LegalLanes[n])]
<1>1. \A k : lane(k) \in Seq(T)
  BY KeptIn, LeadingIn
<1>2. lanes \in Seq(Seq(T))
  <2> HIDE DEF lane
  <2>1. \A n \in 1..4 : lanes[n] \in Seq(T)
    BY <1>1
  <2> QED
    BY <2>1
<1>3. LegalMerge(rows, window) = ByAge(FlattenSeq(lanes))
  BY DEF LegalMerge
<1> HIDE DEF lanes
<1>4. FlattenSeq(lanes) \in Seq(T)
  BY <1>2, FlatParts
<1> QED
  BY <1>3, <1>4, AgedIn

(* The rows of connections, and what merging makes of a row.               *)
OfConnections(T) ==
  T \cup UNION {{OnConnection(i, c) : c \in ToSet(i.connections)} : i \in T}

LEMMA ExpandedIn ==
  ASSUME NEW T, NEW rows \in Seq(T), \A i \in T : Listed(i)
  PROVE  Expand(rows) \in Seq(OfConnections(T))
<1> DEFINE U == OfConnections(T)
           part(i) == IF Len(i.connections) <= 1 THEN <<i>>
                      ELSE [k \in 1..Len(i.connections) |-> OnConnection(i, i.connections[k])]
           parts == [n \in 1..Len(rows) |-> part(rows[n])]
<1>1. ASSUME NEW i \in T PROVE part(i) \in Seq(U)
  <2>1. i \in U
    BY DEF OfConnections
  <2>2. i.connections \in Seq(ToSet(i.connections)) /\ Len(i.connections) \in Nat
    BY DEF Listed
  <2>3. ASSUME NEW k \in 1..Len(i.connections) PROVE OnConnection(i, i.connections[k]) \in U
    <3>1. i.connections[k] \in ToSet(i.connections)
      BY <2>2
    <3>2. OnConnection(i, i.connections[k]) \in {OnConnection(i, c) : c \in ToSet(i.connections)}
      BY <3>1
    <3> QED
      BY <3>2, Zenon DEF OfConnections
  <2> DEFINE many == [k \in 1..Len(i.connections) |-> OnConnection(i, i.connections[k])]
  <2>4. many \in Seq(U)
    <3> HIDE DEF U
    <3> QED
      BY <2>2, <2>3, IsASeq
  <2>5. <<i>> \in Seq(U)
    <3> HIDE DEF U
    <3> QED
      BY <2>1
  <2> QED
    BY <2>4, <2>5
<1>2. parts \in Seq(Seq(U))
  <2> HIDE DEF part, U
  <2>1. \A n \in 1..Len(rows) : part(rows[n]) \in Seq(U)
    BY <1>1
  <2> QED
    BY <2>1
<1>3. Expand(rows) = FlattenSeq(parts)
  BY DEF Expand
<1> HIDE DEF parts, U
<1> QED
  BY <1>2, <1>3, FlatParts DEF U

Rechannelled(rows) ==
  UNION {{[rows[n] EXCEPT !.channels = UNION {rows[m].channels : m \in N}] :
            N \in SUBSET (1..Len(rows))} : n \in 1..Len(rows)}

LEMMA CoalescedIn ==
  ASSUME NEW T, NEW rows \in Seq(T)
  PROVE  Coalesce(rows) \in Seq(Rechannelled(rows))
<1> DEFINE same(n)   == {m \in 1..Len(rows) : ItemKey(rows[m]) = ItemKey(rows[n])}
           merged(n) == [rows[n] EXCEPT !.channels = UNION {rows[m].channels : m \in same(n)}]
           indices   == [n \in 1..Len(rows) |-> n]
           firsts    == Keep(indices, {n \in 1..Len(rows) : FirstOfKey(rows, n)})
<1>1. Coalesce(rows) = [k \in 1..Len(firsts) |-> merged(firsts[k])]
  BY DEF Coalesce
<1>2. Len(rows) \in Nat /\ indices \in Seq(1..Len(rows))
  OBVIOUS
<1>3. firsts \in Seq(1..Len(rows)) /\ Len(firsts) \in Nat
  <2>1. firsts \in Seq(1..Len(rows))
    <3> HIDE DEF indices
    <3> QED
      BY <1>2, KeptIn
  <2> HIDE DEF firsts
  <2> QED
    BY <2>1
<1>4. ASSUME NEW n \in 1..Len(rows) PROVE merged(n) \in Rechannelled(rows)
  <2> DEFINE of(N) == [rows[n] EXCEPT !.channels = UNION {rows[m].channels : m \in N}]
  <2>1. same(n) \in SUBSET (1..Len(rows)) /\ merged(n) = of(same(n))
    OBVIOUS
  <2>2. merged(n) \in {of(N) : N \in SUBSET (1..Len(rows))}
    <3> HIDE DEF of, same, merged
    <3> QED
      BY <2>1
  <2>3. {of(N) : N \in SUBSET (1..Len(rows))} \subseteq Rechannelled(rows)
    BY DEF Rechannelled
  <2> HIDE DEF of, merged
  <2> QED
    BY <2>2, <2>3
<1>5. \A k \in 1..Len(firsts) : merged(firsts[k]) \in Rechannelled(rows)
  <2> HIDE DEF firsts, merged
  <2> QED
    BY <1>3, <1>4
<1> HIDE DEF firsts, merged
<1> QED
  BY <1>1, <1>3, <1>5, IsASeq

-----------------------------------------------------------------------------
(* The inbox                                                               *)
RowsOfApi == ToSet(Rows[persona]) \cup (IF Owner THEN ToSet(Kickoffs) ELSE {})

RowsHeld ==
  /\ persona \in DOMAIN Rows /\ server \in Seq(ToSet(Rows[persona]))
  /\ data \in [Queries -> [rows : Seq(RowsOfApi), total : Nat]] /\ pageNo \in Nat \ {0}

(* A key of the reviewers with bulk buttons is the review it stands for.   *)
TicksKept == (Owner => bulkDialog = "none") /\ (~Owner => selected = ticked)

InboxInv == RowsHeld /\ TicksKept

LEMMA KnownRows ==
  ASSUME persona \in DOMAIN Rows
  PROVE  /\ Rows[persona] \in Seq(ToSet(Rows[persona])) /\ ToSet(Rows[persona]) \subseteq RowsOfApi
         /\ Owner => Kickoffs \in Seq(RowsOfApi)
         /\ \A i \in RowsOfApi : Listed(i) /\ i.day \in Nat /\ (~Owner => OneReview(i))
<1>1. Rows[persona] \in Seq(ToSet(Rows[persona])) /\ ToSet(Rows[persona]) \subseteq RowsOfApi
  BY InboxAssumption DEF RowsOfApi
<1>2. ASSUME Owner PROVE Kickoffs \in Seq(RowsOfApi)
  <2>1. Kickoffs \in Seq(ToSet(Kickoffs)) /\ ToSet(Kickoffs) \subseteq RowsOfApi
    BY <1>2, InboxAssumption DEF RowsOfApi
  <2> QED
    BY <2>1, SeqMonotonic
<1>3. ASSUME NEW i \in RowsOfApi PROVE Listed(i) /\ i.day \in Nat
  <2>1. i \in ToSet(Kickoffs) \cup UNION {ToSet(Rows[p]) : p \in DOMAIN Rows}
    BY DEF RowsOfApi
  <2>2. /\ i = [f \in DOMAIN i |-> i[f]] /\ ListedFields \subseteq DOMAIN i /\ i.day \in Nat
        /\ i.connections \in Seq(ToSet(i.connections))
    BY <2>1, InboxAssumption, Zenon
  <2> QED
    BY <2>2, Zenon DEF Listed
<1>4. ASSUME ~Owner, NEW i \in RowsOfApi PROVE OneReview(i)
  <2>1. i \in ToSet(Rows[persona]) /\ persona \in DOMAIN Rows \ {"owner"}
    BY <1>4 DEF RowsOfApi, Owner
  <2> QED
    BY <2>1, InboxAssumption, Zenon
<1> QED
  BY <1>1, <1>2, <1>3, <1>4

LEMMA QueryIn == Query \in Queries /\ (Owner => {"matching", "fulfillment"} = Queries)
  BY DEF Query, Queries

LEMMA RawIn ==
  ASSUME RowsHeld
  PROVE  Raw \in Seq(RowsOfApi)
<1>1. \A q \in Queries : data[q].rows \in Seq(RowsOfApi)
  BY DEF RowsHeld
<1>2. CASE Owner /\ tab = "pending_tasks"
  <2> DEFINE rows == data["matching"].rows \o data["fulfillment"].rows
  <2>1. rows \in Seq(RowsOfApi)
    BY <1>1, <1>2, QueryIn, ConcatProperties
  <2>2. Raw = Keep(rows, {i \in ToSet(rows) : IsOwnerTask(i, MyVerticals)})
    BY <1>2 DEF Raw
  <2> HIDE DEF rows
  <2> QED
    BY <2>1, <2>2, KeptIn
<1>3. CASE ~(Owner /\ tab = "pending_tasks")
  <2>1. Raw = data[Query].rows
    BY <1>3 DEF Raw
  <2> QED
    BY <1>1, <2>1, QueryIn
<1> QED
  BY <1>2, <1>3

LEMMA ItemsIn ==
  ASSUME RowsHeld
  PROVE  /\ PageItems \in Seq(ToSet(PageItems)) /\ Len(PageItems) \in Nat
         /\ Filtered \in Seq(ToSet(PageItems)) /\ ToSet(Filtered) \subseteq ToSet(PageItems)
         /\ IsFiniteSet(ToSet(Filtered))
         /\ ~Owner => PageItems \in Seq(Rechannelled(Raw))
<1>1. Raw \in Seq(RowsOfApi) /\ \A i \in RowsOfApi : Listed(i)
  BY RawIn, KnownRows DEF RowsHeld
<1> DEFINE rows == IF Owner THEN Expand(OwnerVisible(Raw, MyVerticals)) ELSE Raw
<1>2. PageItems = Coalesce(rows)
  BY DEF PageItems
<1>3. ~Owner => rows \in Seq(RowsOfApi) /\ rows = Raw
  BY <1>1
<1>4. Owner => rows \in Seq(OfConnections(RowsOfApi))
  <2>1. OwnerVisible(Raw, MyVerticals) \in Seq(RowsOfApi)
    BY <1>1, KeptIn DEF OwnerVisible
  <2> QED
    BY <1>1, <2>1, ExpandedIn
<1> HIDE DEF rows
<1>5. PageItems \in Seq(Rechannelled(rows))
  BY <1>2, <1>3, <1>4, CoalescedIn
<1>6. PageItems \in Seq(ToSet(PageItems)) /\ Len(PageItems) \in Nat
  BY <1>5, InToSet
<1>7. Filtered \in Seq(ToSet(PageItems)) /\ ToSet(Filtered) \subseteq ToSet(PageItems)
  BY <1>6, KeptIn DEF Filtered
<1>8. IsFiniteSet(ToSet(Filtered))
  BY <1>7, InToSet
<1> QED
  BY <1>3, <1>5, <1>6, <1>7, <1>8

(* Without a vertical and a system, a review is its request.               *)
LEMMA Rescoped ==
  ASSUME NEW r, NEW v, NEW s, NEW w, NEW u
  PROVE  [[request |-> r, vertical |-> v, system |-> s] EXCEPT !.vertical = w, !.system = u]
           = [request |-> r, vertical |-> w, system |-> u]
<1> DEFINE K == {"request", "vertical", "system"}
           old == [request |-> r, vertical |-> v, system |-> s]
           new == [request |-> r, vertical |-> w, system |-> u]
           got == [old EXCEPT !.vertical = w, !.system = u]
<1>1. /\ DOMAIN old = K /\ old = [k \in K |-> old[k]] /\ old["request"] = r
      /\ DOMAIN new = K /\ new = [k \in K |-> new[k]]
      /\ new["request"] = r /\ new["vertical"] = w /\ new["system"] = u
  OBVIOUS
<1>2. DOMAIN got = K /\ got = [k \in K |-> got[k]]
  BY <1>1
<1>3. got["request"] = r /\ got["vertical"] = w /\ got["system"] = u
  <2> HIDE DEF old
  <2> QED
    BY <1>1
<1> HIDE DEF got, new
<1>4. \A k \in K : got[k] = new[k]
  BY <1>1, <1>3
<1>5. got = new
  BY <1>1, <1>2, <1>4
<1> QED
  BY <1>5 DEF got, new

LEMMA UnnamedScope ==
  ASSUME NEW i
  PROVE  /\ OnRequest(i) = [request |-> i.request, vertical |-> Unnamed, system |-> Unnamed]
         /\ i.vertical = Unnamed /\ i.system = Unnamed => OnRequest(i) = Scope(i)
<1> DEFINE b == Unnamed
<1> HIDE DEF b
<1>1. OnRequest(i) = [[request |-> i.request, vertical |-> i.vertical, system |-> i.system]
                        EXCEPT !.vertical = b, !.system = b]
  BY Zenon DEF OnRequest, Scope, b
<1>2. OnRequest(i) = [request |-> i.request, vertical |-> b, system |-> b]
  BY <1>1, Rescoped
<1>3. i.vertical = b /\ i.system = b => OnRequest(i) = Scope(i)
  BY <1>2, Zenon DEF Scope
<1> QED
  BY <1>2, <1>3, Zenon DEF b

(* A row of a super admin or of legal is one review, which its key names.  *)
LEMMA KeyIsReview ==
  ASSUME RowsHeld, ~Owner, NEW i \in ToSet(Filtered)
  PROVE  ItemKey(i) = Scope(i) /\ Targets(i) = {Scope(i)}
<1>1. Raw \in Seq(RowsOfApi) /\ \A r \in RowsOfApi : Listed(r) /\ OneReview(r)
  BY RawIn, KnownRows DEF RowsHeld
<1>2. i \in Rechannelled(Raw)
  BY ItemsIn, InToSet
<1>3. PICK n \in 1..Len(Raw), N \in SUBSET (1..Len(Raw)) :
        i = [Raw[n] EXCEPT !.channels = UNION {Raw[m].channels : m \in N}]
  BY <1>2 DEF Rechannelled
<1> DEFINE r == Raw[n]
           c == UNION {Raw[m].channels : m \in N}
<1>4. i = [r EXCEPT !.channels = c] /\ r \in RowsOfApi
  BY <1>1, <1>3
<1> HIDE DEF r, c
<1>5. /\ r = [f \in DOMAIN r |-> r[f]] /\ ListedFields \subseteq DOMAIN r
      /\ r.connections = <<>> /\ (r.vertical = Unnamed => r.system = Unnamed)
  BY <1>1, <1>4 DEF Listed, OneReview
<1>6. /\ "vertical" \in DOMAIN r /\ "system" \in DOMAIN r /\ "connections" \in DOMAIN r
  BY <1>5 DEF ListedFields
<1>7. i.vertical = r.vertical /\ i.system = r.system /\ i.connections = r.connections
  BY <1>4, <1>6
<1>8. i.connections = <<>> /\ (i.vertical = Unnamed => i.system = Unnamed)
  BY <1>5, <1>7
<1>9. ItemKey(i) = Scope(i)
  <2>1. CASE i.vertical = Unnamed
    <3>1. ItemKey(i) = OnRequest(i)
      BY <2>1 DEF ItemKey
    <3>2. i.system = Unnamed
      BY <1>8, <2>1
    <3> QED
      BY <2>1, <3>1, <3>2, UnnamedScope
  <2>2. CASE i.vertical # Unnamed
    BY <1>8, <2>2 DEF ItemKey
  <2> QED
    BY <2>1, <2>2
<1> QED
  BY <1>8, <1>9 DEF Targets

(* What the API answers is a window of the rows that wait.                 *)
LEMMA ServedIn ==
  ASSUME RowsHeld, NEW q \in Queries
  PROVE  Served(q) \in [rows : Seq(RowsOfApi), total : Nat]
<1> DEFINE lanes    == Keep(server, {i \in ToSet(server) : i.kind \in ToSet(LegalLanes)})
           matching == OfSystem(Keep(server, {i \in ToSet(server) : IsMatching(i)}))
           open     == Keep(server, {i \in ToSet(server) : AtFulfillment(i)})
           merged   == MergeFulfillment(open, Kickoffs)
           answer(s, t) == [rows |-> Leading(Window, s), total |-> Len(t)]
<1>1. server \in Seq(RowsOfApi)
  BY KnownRows, SeqMonotonic DEF RowsHeld
<1>2. ASSUME NEW s \in Seq(RowsOfApi), NEW t \in Seq(RowsOfApi)
      PROVE  answer(s, t) \in [rows : Seq(RowsOfApi), total : Nat]
  <2>1. Window \in Int
    <3>1. pageNo * PageSize \in Int
      BY InboxAssumption DEF RowsHeld
    <3> QED
      BY <3>1 DEF Window, Fewest
  <2>2. Leading(Window, s) \in Seq(RowsOfApi)
    BY <2>1, LeadingIn, Zenon
  <2>3. Len(t) \in Nat
    OBVIOUS
  <2> QED
    BY <2>2, <2>3
<1>3. ASSUME NEW s \in Seq(RowsOfApi) PROVE OfSystem(s) \in Seq(RowsOfApi)
  <2>1. Keep(s, {i \in ToSet(s) : i.system = system}) \in Seq(RowsOfApi)
    BY KeptIn
  <2> QED
    BY <2>1, Zenon DEF OfSystem
<1>4. lanes \in Seq(RowsOfApi)
  BY <1>1, KeptIn
<1>5. matching \in Seq(RowsOfApi)
  <2>1. Keep(server, {i \in ToSet(server) : IsMatching(i)}) \in Seq(RowsOfApi)
    BY <1>1, KeptIn
  <2> QED
    BY <1>3, <2>1
<1>6. Owner => merged \in Seq(RowsOfApi)
  <2>1. open \in Seq(RowsOfApi)
    BY <1>1, KeptIn
  <2> HIDE DEF open
  <2> QED
    BY <2>1, KnownRows, MergedIn DEF RowsHeld
<1>7. LegalMerge(server, Window) \in Seq(RowsOfApi)
  <2>1. Window \in Int
    <3>1. pageNo * PageSize \in Int
      BY InboxAssumption DEF RowsHeld
    <3> QED
      BY <3>1 DEF Window, Fewest
  <2>2. \A i \in RowsOfApi : i.day \in Nat
    BY KnownRows DEF RowsHeld
  <2> QED
    BY <1>1, <2>1, <2>2, LegalIn
<1>8. Served(q) = CASE q = "attention" /\ persona = "legal" -> answer(LegalMerge(server, Window), lanes)
                    [] q = "attention" /\ persona # "legal" -> answer(OfSystem(server), OfSystem(server))
                    [] q = "matching"    -> answer(matching, matching)
                    [] q = "fulfillment" -> answer(merged, merged)
  BY Zenon DEF Served
<1> HIDE DEF lanes, matching, merged, answer
<1>9. CASE Owner
  <2>1. q = "matching" \/ q = "fulfillment"
    BY <1>9 DEF Queries
  <2>2. CASE q = "matching"
    <3>1. Served(q) = answer(matching, matching)
      BY <1>8, <2>2
    <3> QED
      BY <1>2, <1>5, <3>1
  <2>3. CASE q = "fulfillment"
    <3>1. Served(q) = answer(merged, merged)
      BY <1>8, <2>3
    <3> QED
      BY <1>2, <1>6, <1>9, <3>1
  <2> QED
    BY <2>1, <2>2, <2>3
<1>10. CASE ~Owner
  <2>1. q = "attention"
    BY <1>10 DEF Queries
  <2>2. CASE persona = "legal"
    <3>1. Served(q) = answer(LegalMerge(server, Window), lanes)
      BY <1>8, <2>1, <2>2
    <3> QED
      BY <1>2, <1>4, <1>7, <3>1
  <2>3. CASE persona # "legal"
    <3>1. Served(q) = answer(OfSystem(server), OfSystem(server))
      BY <1>8, <2>1, <2>3
    <3> QED
      BY <1>1, <1>2, <1>3, <3>1
  <2> QED
    BY <2>2, <2>3
<1> QED
  BY <1>9, <1>10

(* There is a page for every stack, and never fewer than one.              *)
LEMMA PagesCounted ==
  ASSUME RowsHeld
  PROVE  {LocalPages, CurrentPage, TotalPages, NextPage} \subseteq Nat \ {0}
<1>1. IsFiniteSet(Stacks) /\ Cardinality(Stacks) \in Nat
  <2>1. Stacks \in SUBSET (SUBSET ToSet(Filtered))
    BY OneStackEach DEF EveryRowStacked
  <2>2. IsFiniteSet(SUBSET ToSet(Filtered))
    BY ItemsIn, FS_SUBSET
  <2> QED
    BY <2>1, <2>2, FS_Subset, FS_CardinalityType
<1>2. LocalPages \in Nat \ {0}
  <2>1. (Cardinality(Stacks) + PageSize - 1) \div PageSize \in Int
    BY <1>1, InboxAssumption
  <2> QED
    BY <2>1 DEF LocalPages
<1>3. CurrentPage \in Nat \ {0}
  BY <1>2 DEF CurrentPage, Fewest, RowsHeld
<1>4. TotalPages \in Nat \ {0}
  BY <1>2, <1>3 DEF TotalPages
<1>5. NextPage \in Nat \ {0}
  BY <1>3, <1>4 DEF NextPage, Fewest
<1> QED
  BY <1>2, <1>3, <1>4, <1>5

LEMMA InboxStart == InboxInit => InboxInv
<1> SUFFICES ASSUME InboxInit PROVE InboxInv
  OBVIOUS
<1>1. persona \in DOMAIN Rows /\ Rows[persona] \in Seq(ToSet(Rows[persona]))
  BY InboxAssumption DEF InboxInit
<1>2. server \in Seq(ToSet(Rows[persona]))
  BY <1>1, KeptIn DEF InboxInit
<1>3. data \in [Queries -> [rows : Seq(RowsOfApi), total : Nat]]
  <2>1. data = [q \in Queries |-> [rows |-> <<>>, total |-> 0]]
    BY Zenon DEF InboxInit
  <2>2. [rows |-> <<>>, total |-> 0] \in [rows : Seq(RowsOfApi), total : Nat]
    OBVIOUS
  <2> QED
    BY <2>1, <2>2
<1>4. pageNo \in Nat \ {0} /\ selected = ticked /\ bulkDialog = "none"
  <2>1. pageNo = 1 /\ selected = {} /\ ticked = {} /\ bulkDialog = "none"
    BY Zenon DEF InboxInit
  <2> QED
    BY <2>1
<1> QED
  BY <1>1, <1>2, <1>3, <1>4 DEF InboxInv, RowsHeld, TicksKept

(* A step that keeps the list of the server, the answers and the page.     *)
LEMMA RowsStay ==
  ASSUME RowsHeld, persona' = persona, server' \in Seq(ToSet(Rows[persona])),
         data' \in [Queries -> [rows : Seq(RowsOfApi), total : Nat]], pageNo' \in Nat \ {0}
  PROVE  RowsHeld'
<1>1. RowsOfApi' = RowsOfApi /\ Queries' = Queries /\ Rows[persona]' = Rows[persona]
  BY DEF RowsOfApi, Queries, Owner
<1> QED
  BY <1>1 DEF RowsHeld

LEMMA RowsStep ==
  ASSUME RowsHeld, InboxNext
  PROVE  RowsHeld' /\ persona' = persona
<1> DEFINE R == ToSet(Rows[persona])
           D == [Queries -> [rows : Seq(RowsOfApi), total : Nat]]
<1>0. server \in Seq(R) /\ data \in D /\ pageNo \in Nat \ {0}
  BY DEF RowsHeld
<1> SUFFICES /\ persona' = persona /\ server' \in Seq(R) /\ data' \in D
             /\ pageNo' \in Nat \ {0}
  BY RowsStay
<1>1. ASSUME NEW q, Fetches(q)
      PROVE  persona' = persona /\ server' \in Seq(R) /\ data' \in D /\ pageNo' \in Nat \ {0}
  <2>1. /\ q \in Queries /\ data' = [data EXCEPT ![q] = Served(q)]
        /\ persona' = persona /\ server' = server /\ pageNo' = pageNo
    BY <1>1 DEF Fetches, viewVars
  <2>2. Served(q) \in [rows : Seq(RowsOfApi), total : Nat]
    BY <2>1, ServedIn
  <2> HIDE DEF R
  <2> QED
    BY <1>0, <2>1, <2>2
<1>2. ASSUME NEW n \in 1..Len(server), DecidedElsewhere(n)
      PROVE  persona' = persona /\ server' \in Seq(R) /\ data' \in D /\ pageNo' \in Nat \ {0}
  <2>1. /\ server' = RemoveAt(server, n) /\ persona' = persona /\ data' = data
        /\ pageNo' = pageNo
    BY <1>2 DEF DecidedElsewhere, viewVars
  <2>2. RemoveAt(server, n) \in Seq(R)
    BY <1>0, RemovedIn
  <2> QED
    BY <1>0, <2>1, <2>2
<1>3. ASSUME NEW i, Arrives(i)
      PROVE  persona' = persona /\ server' \in Seq(R) /\ data' \in D /\ pageNo' \in Nat \ {0}
  <2>1. /\ server' = Append(server, i) /\ i \in R /\ persona' = persona /\ data' = data
        /\ pageNo' = pageNo
    BY <1>3 DEF Arrives, viewVars
  <2> HIDE DEF R
  <2>2. Append(server, i) \in Seq(R)
    BY <1>0, <2>1
  <2> QED
    BY <1>0, <2>1, <2>2
<1>4. ASSUME NEW c, NEW failed, Ends(c, failed)
      PROVE  persona' = persona /\ server' \in Seq(R) /\ data' \in D /\ pageNo' \in Nat \ {0}
  <2> DEFINE left == {i \in ToSet(server) : \A t \in c.targets \ failed :
                                              ~Decides(c.action, t, i)}
  <2>1. /\ server' = Keep(server, left) /\ persona' = persona /\ data' = data
        /\ pageNo' = pageNo
    BY <1>4, Zenon DEF Ends, viewVars
  <2> HIDE DEF left
  <2>2. Keep(server, left) \in Seq(R)
    BY <1>0, KeptIn
  <2> QED
    BY <1>0, <2>1, <2>2
<1>5. ASSUME pageNo' \in {1, NextPage, CurrentPage - 1, pageNo},
             pageNo' = CurrentPage - 1 => CurrentPage > 1,
             UNCHANGED <<persona, rowVars>>
      PROVE  persona' = persona /\ server' \in Seq(R) /\ data' \in D /\ pageNo' \in Nat \ {0}
  <2>1. persona' = persona /\ server' = server /\ data' = data
    BY <1>5 DEF rowVars
  <2>2. CurrentPage \in Nat /\ NextPage \in Nat \ {0} /\ CurrentPage \in Int
    BY PagesCounted
  <2>3. pageNo' \in Nat \ {0}
    BY <1>0, <1>5, <2>2
  <2> HIDE DEF R, D
  <2> QED
    BY <1>0, <2>1, <2>3
<1>6. ASSUME \/ \E k \in Uses : OpenTab(k)
             \/ \E f \in LegalFilters \cap Uses : SetFilter(f)
             \/ \E m : SetMatch(m)
             \/ \E s : SetSystem(s)
             \/ \E g : Switch(g)
             \/ PageForward \/ PageBack
      PROVE  /\ pageNo' \in {1, NextPage, CurrentPage - 1, pageNo}
             /\ pageNo' = CurrentPage - 1 => CurrentPage > 1
             /\ UNCHANGED <<persona, rowVars>>
  <2> DEFINE back == CurrentPage - 1
  <2>1. UNCHANGED <<persona, rowVars>>
    BY <1>6 DEF OpenTab, SetFilter, SetMatch, SetSystem, Switch, PageForward, PageBack, Views
  <2>2. pageNo' = 1 \/ pageNo' = NextPage \/ (pageNo' = back /\ CurrentPage > 1)
    BY <1>6 DEF OpenTab, SetFilter, SetMatch, SetSystem, Switch, PageForward, PageBack
  <2>3. CurrentPage \in Nat \ {0} /\ NextPage \in Nat \ {0} /\ NextPage # 0
    BY PagesCounted
  <2> QED
    BY <2>1, <2>2, <2>3
<1>7. ASSUME \/ TickRow \/ TickStack \/ TickAll \/ ClearTicks \/ CancelBulk \/ ConfirmBulk
             \/ \E d \in {"fulfill", "decline", "triage", "notice"} : AskBulk(d)
             \/ \E d \in {"fulfill", "decline"} : DecideStack(d)
             \/ \E t \in bulkToasts : RetryBulk(t)
      PROVE  pageNo' = pageNo /\ UNCHANGED <<persona, rowVars>>
  <2>1. ASSUME NEW items, Tick(items) PROVE pageNo' = pageNo /\ UNCHANGED <<persona, rowVars>>
    BY <2>1, Zenon DEF Tick, viewVars
  <2>2. CASE TickRow \/ TickStack \/ TickAll
    BY <2>1, <2>2, Zenon DEF TickRow, TickStack, TickAll
  <2>3. CASE ClearTicks \/ CancelBulk \/ ConfirmBulk
    BY <2>3, Zenon DEF ClearTicks, CancelBulk, ConfirmBulk, viewVars
  <2>4. ASSUME NEW d, AskBulk(d) \/ DecideStack(d)
        PROVE  pageNo' = pageNo /\ UNCHANGED <<persona, rowVars>>
    BY <2>4, Zenon DEF AskBulk, DecideStack, viewVars
  <2>5. ASSUME NEW t, RetryBulk(t) PROVE pageNo' = pageNo /\ UNCHANGED <<persona, rowVars>>
    BY <2>5, Zenon DEF RetryBulk, viewVars
  <2> QED
    BY <1>7, <2>2, <2>3, <2>4, <2>5, Zenon
<1>8. CASE pageNo' = pageNo /\ UNCHANGED <<persona, rowVars>>
  <2>1. persona' = persona /\ server' = server /\ data' = data /\ pageNo' = pageNo
    BY <1>8 DEF rowVars
  <2> HIDE DEF R, D
  <2> QED
    BY <1>0, <2>1
<1> DEFINE kept == persona' = persona /\ server' \in Seq(R) /\ data' \in D /\ pageNo' \in Nat \ {0}
<1>9. CASE \/ \E q \in {"attention", "matching", "fulfillment"} : Fetches(q)
           \/ \E n \in 1..Len(server) : DecidedElsewhere(n)
           \/ \E i \in LateRows : Arrives(i)
           \/ \E c \in bulkCalls : \E failed \in SUBSET c.targets : Ends(c, failed)
  <2>1. kept
    <3> HIDE DEF kept
    <3>1. /\ \A q : Fetches(q) => kept
          /\ \A n \in 1..Len(server) : DecidedElsewhere(n) => kept
          /\ \A i : Arrives(i) => kept
          /\ \A c, failed : Ends(c, failed) => kept
      BY <1>1, <1>2, <1>3, <1>4, Zenon DEF kept
    <3> QED
      BY <1>9, <3>1, Zenon
  <2> QED
    BY <2>1
<1>10. CASE \/ \E k \in Uses : OpenTab(k)
            \/ \E f \in LegalFilters \cap Uses : SetFilter(f)
            \/ \E m : SetMatch(m)
            \/ \E s : SetSystem(s)
            \/ \E g : Switch(g)
            \/ PageForward \/ PageBack
  BY <1>5, <1>6, <1>10, Zenon
<1> QED
  BY <1>7, <1>8, <1>9, <1>10, Zenon DEF InboxNext

-----------------------------------------------------------------------------
(* Ticks                                                                   *)

(* What Tick adds to the keys it adds to the reviews.                      *)
LEMMA TickedAlike ==
  ASSUME RowsHeld, ~Owner, selected = ticked,
         NEW items, items \subseteq ToSet(Filtered), Tick(items)
  PROVE  selected' = ticked'
<1> DEFINE keys == {ItemKey(i) : i \in items}
           reviews == UNION {Targets(i) : i \in items}
           on == ~(keys \subseteq selected)
<1>1. keys = reviews
  <2>1. \A i \in items : Targets(i) = {ItemKey(i)}
    BY KeyIsReview
  <2> QED
    BY <2>1
<1>2. /\ selected' = (IF on THEN selected \cup keys ELSE selected \ keys)
      /\ ticked' = (IF on THEN ticked \cup reviews ELSE ticked \ reviews)
  BY Zenon DEF Tick
<1> HIDE DEF keys, reviews, on
<1> QED
  BY <1>1, <1>2

LEMMA TicksStep ==
  ASSUME RowsHeld, TicksKept, InboxNext
  PROVE  TicksKept'
<1>0. persona' = persona /\ (Owner' <=> Owner)
  BY RowsStep DEF Owner
<1>1. ASSUME UNCHANGED <<selected, ticked, bulkDialog>> PROVE TicksKept'
  BY <1>0, <1>1 DEF TicksKept
<1>2. ASSUME NEW q, Fetches(q) PROVE UNCHANGED <<selected, ticked, bulkDialog>>
  BY <1>2, Zenon DEF Fetches, bulkVars
<1>3. ASSUME NEW n, DecidedElsewhere(n) PROVE UNCHANGED <<selected, ticked, bulkDialog>>
  BY <1>3, Zenon DEF DecidedElsewhere, bulkVars
<1>4. ASSUME NEW i, Arrives(i) PROVE UNCHANGED <<selected, ticked, bulkDialog>>
  BY <1>4, Zenon DEF Arrives, bulkVars
<1>5. ASSUME Views PROVE UNCHANGED <<selected, ticked, bulkDialog>>
  BY <1>5, Zenon DEF Views, bulkVars
<1>6. ASSUME NEW v, OpenTab(v) \/ SetFilter(v) \/ SetMatch(v) \/ SetSystem(v) \/ Switch(v)
      PROVE  Views
  BY <1>6, Zenon DEF OpenTab, SetFilter, SetMatch, SetSystem, Switch
<1>7. ASSUME PageForward \/ PageBack PROVE Views
  BY <1>7, Zenon DEF PageForward, PageBack
<1>8. ASSUME NEW items, items \subseteq ToSet(Filtered), Tick(items) PROVE TicksKept'
  <2>1. bulkDialog' = bulkDialog
    BY <1>8, Zenon DEF Tick, bulkVars
  <2>2. ~Owner => selected' = ticked'
    BY <1>8, TickedAlike DEF TicksKept
  <2> QED
    BY <1>0, <2>1, <2>2 DEF TicksKept
<1>9. ASSUME TickRow \/ TickStack \/ TickAll PROVE TicksKept'
  <2>1. CASE TickRow
    <3>1. PICK i \in ToSet(Filtered) : Tick({i})
      BY <2>1 DEF TickRow
    <3> QED
      BY <1>8, <3>1
  <2>2. CASE TickStack
    <3>1. PICK s \in Stacks : Tick(s)
      BY <2>2 DEF TickStack
    <3>2. s \subseteq ToSet(Filtered)
      BY <3>1, OneStackEach DEF EveryRowStacked
    <3> QED
      BY <1>8, <3>1, <3>2
  <2>3. CASE TickAll
    BY <1>8, <2>3 DEF TickAll
  <2> QED
    BY <1>9, <2>1, <2>2, <2>3
<1>10. ASSUME ClearTicks PROVE TicksKept'
  <2>1. selected' = ticked' /\ bulkDialog' = bulkDialog
    BY <1>10 DEF ClearTicks, bulkVars
  <2> QED
    BY <1>0, <2>1 DEF TicksKept
<1>11. ASSUME NEW d, AskBulk(d) PROVE TicksKept'
  <2>1. d \in BulkButtons /\ UNCHANGED <<selected, ticked>>
    BY <1>11, Zenon DEF AskBulk
  <2>2. ~Owner
    <3>1. Owner => BulkButtons = {}
      BY Zenon DEF BulkButtons, Owner
    <3> QED
      BY <2>1, <3>1
  <2> QED
    BY <1>0, <2>1, <2>2 DEF TicksKept
<1>12. ASSUME CancelBulk PROVE TicksKept'
  <2>1. bulkDialog' = "none" /\ UNCHANGED <<selected, ticked>>
    BY <1>12, Zenon DEF CancelBulk
  <2> QED
    BY <1>0, <2>1 DEF TicksKept
<1>13. ASSUME ConfirmBulk PROVE UNCHANGED <<selected, ticked, bulkDialog>>
  BY <1>13, Zenon DEF ConfirmBulk
<1>14. ASSUME NEW d, DecideStack(d) PROVE UNCHANGED <<selected, ticked, bulkDialog>>
  BY <1>14, Zenon DEF DecideStack
<1>15. ASSUME NEW c, NEW failed, Ends(c, failed) PROVE TicksKept'
  <2>1. bulkDialog' = "none"
    BY <1>15, Zenon DEF Ends
  <2>2. UNCHANGED <<selected, ticked>> \/ (selected' = {} /\ ticked' = {})
    BY <1>15, Zenon DEF Ends
  <2> QED
    BY <1>0, <2>1, <2>2 DEF TicksKept
<1>16. ASSUME NEW t, RetryBulk(t) PROVE UNCHANGED <<selected, ticked, bulkDialog>>
  BY <1>16, Zenon DEF RetryBulk
<1>17. CASE \/ \E q : Fetches(q)
            \/ \E n : DecidedElsewhere(n)
            \/ \E i : Arrives(i)
            \/ \E v : OpenTab(v) \/ SetFilter(v) \/ SetMatch(v) \/ SetSystem(v) \/ Switch(v)
            \/ PageForward \/ PageBack
            \/ ConfirmBulk \/ (\E d : DecideStack(d)) \/ (\E t : RetryBulk(t))
  <2>1. UNCHANGED <<selected, ticked, bulkDialog>>
    BY <1>2, <1>3, <1>4, <1>5, <1>6, <1>7, <1>13, <1>14, <1>16, <1>17, Zenon
  <2> QED
    BY <1>1, <2>1, Zenon
<1>18. CASE \/ TickRow \/ TickStack \/ TickAll
            \/ ClearTicks \/ CancelBulk
            \/ \E d : AskBulk(d)
            \/ \E c, failed : Ends(c, failed)
  BY <1>9, <1>10, <1>11, <1>12, <1>15, <1>18, Zenon
<1> QED
  BY <1>17, <1>18, Zenon DEF InboxNext

LEMMA InboxKept == InboxInv /\ [InboxNext]_inboxVars => InboxInv'
<1> SUFFICES ASSUME InboxInv, [InboxNext]_inboxVars PROVE InboxInv'
  OBVIOUS
<1>1. CASE InboxNext
  BY <1>1, RowsStep, TicksStep DEF InboxInv
<1>2. CASE UNCHANGED inboxVars
  BY <1>2 DEF InboxInv, RowsHeld, TicksKept, RowsOfApi, Queries, Owner, inboxVars, rowVars,
              viewVars, bulkVars
<1> QED
  BY <1>1, <1>2

(* A bulk call takes the keys that are ticked, which are reviews ticked.   *)
LEMMA BulkIsTicked ==
  ASSUME InboxInv
  PROVE  TickedOnly
<1> DEFINE keys == IF AllSelected THEN FilteredKeys ELSE selected
           work == SelectedTargets(Filtered, keys)
<1> SUFFICES ASSUME bulkDialog # "none", NEW t \in BulkTargets(bulkDialog)
             PROVE  \E u \in ticked : t = u \/ t = OnRequest(u)
  BY DEF TickedOnly
<1>1. RowsHeld /\ ~Owner /\ selected = ticked
  BY DEF InboxInv, TicksKept
<1>2. keys \subseteq ticked
  BY <1>1 DEF AllSelected
<1>3. ASSUME NEW w \in work PROVE w \in ticked
  <2>1. PICK i \in ToSet(Filtered) : ItemKey(i) \in keys /\ w \in Targets(i)
    BY DEF SelectedTargets
  <2>2. w = ItemKey(i)
    BY <1>1, <2>1, KeyIsReview
  <2> QED
    BY <1>2, <2>1, <2>2
<1>4. t \in work \/ \E w \in work : t = OnRequest(w)
  <2>1. BulkTargets(bulkDialog) = work \/ BulkTargets(bulkDialog) = {OnRequest(w) : w \in work}
    BY Zenon DEF BulkTargets
  <2> HIDE DEF work
  <2> QED
    BY <2>1, Zenon
<1> HIDE DEF work
<1> QED
  BY <1>3, <1>4, Zenon

(* The rows shown are the rows that pass, and there are as many of them as *)
(* places of rows that pass.                                               *)
LEMMA Shown ==
  ASSUME RowsHeld
  PROVE  /\ ToSet(Filtered) = {i \in ToSet(PageItems) : Passes(i)}
         /\ Len(Filtered) = Cardinality({n \in 1..Len(PageItems) : Passes(PageItems[n])})
<1> DEFINE S == {i \in ToSet(PageItems) : Passes(i)}
           items == PageItems
<1>1. items \in Seq(ToSet(items)) /\ Len(items) \in Nat
  BY ItemsIn
<1>2. Filtered = Keep(items, S)
  BY DEF Filtered
<1> HIDE DEF items
<1>3. Filtered \in Seq(ToSet(items)) /\ ToSet(Filtered) \subseteq S
  <2> HIDE DEF S
  <2> QED
    BY <1>1, <1>2, KeptIn
<1>4. ASSUME NEW i \in S PROVE i \in ToSet(Filtered)
  <2>1. PICK pos : Places(pos, items, Filtered, S)
    <3> HIDE DEF S
    <3> QED
      BY <1>1, <1>2, KeptPlaces
  <2>2. PICK n \in 1..Len(items) : i = items[n]
    BY <1>1, InToSet DEF items
  <2>3. PICK k \in 1..Len(Filtered) : pos[k] = n
    <3> HIDE DEF S
    <3> QED
      BY <1>4, <2>1, <2>2 DEF Places
  <2>4. Filtered[k] = i
    BY <2>1, <2>2, <2>3 DEF Places
  <2> QED
    BY <1>3, <2>3, <2>4, InToSet
<1>5. Len(Filtered) = Cardinality({n \in 1..Len(items) : Passes(items[n])})
  <2>1. Len(Filtered) = Cardinality({n \in 1..Len(items) : items[n] \in S})
    <3> HIDE DEF S
    <3> QED
      BY <1>1, <1>2, KeptNumber
  <2>2. \A n \in 1..Len(items) : items[n] \in S <=> Passes(items[n])
    BY <1>1, InToSet DEF items
  <2> HIDE DEF S
  <2>3. {n \in 1..Len(items) : items[n] \in S} = {n \in 1..Len(items) : Passes(items[n])}
    BY <2>2
  <2> QED
    BY <2>1, <2>3
<1> QED
  BY <1>3, <1>4, <1>5 DEF items

LEMMA TabsCounted ==
  ASSUME RowsHeld
  PROVE  CountsMatchTabs
<1> SUFFICES ASSUME persona # "legal", match = "all", system = Unnamed \/ ~ShowSystem
             PROVE  KindCount(tab) = Len(Filtered)
  BY DEF CountsMatchTabs
<1>1. \A i : Passes(i) <=> CountsAs(i, tab)
  BY Zenon DEF Passes, CountsAs
<1>2. {n \in 1..Len(PageItems) : Passes(PageItems[n])}
        = {n \in 1..Len(PageItems) : CountsAs(PageItems[n], tab)}
  BY <1>1
<1> QED
  BY <1>2, Shown DEF KindCount

(* Two ways of naming the members of a set that tell the same members      *)
(* apart give as many names as there are classes.                          *)
LEMMA ClassesCounted ==
  ASSUME NEW I, IsFiniteSet(I), NEW u, DOMAIN u = I, u = [i \in I |-> u[i]]
  PROVE  Cardinality({{j \in I : u[j] = u[i]} : i \in I}) = Cardinality({u[i] : i \in I})
<1> DEFINE names   == {u[i] : i \in I}
           class(n) == {j \in I : u[j] = n}
           classes == {class(u[i]) : i \in I}
           f       == [n \in names |-> class(n)]
<1>1. IsFiniteSet(names)
  BY ImageFinite
<1>2. f \in Bijection(names, classes)
  <2>1. f \in [names -> classes]
    OBVIOUS
  <2>2. ASSUME NEW m \in names, NEW n \in names, f[m] = f[n] PROVE m = n
    <3>1. PICK i \in I : m = u[i]
      OBVIOUS
    <3>2. i \in class(m) /\ f[m] = class(m) /\ f[n] = class(n)
      BY <3>1
    <3>3. i \in class(n)
      BY <2>2, <3>2
    <3> QED
      BY <3>1, <3>3
  <2>3. \A c \in classes : \E n \in names : f[n] = c
    OBVIOUS
  <2> HIDE DEF f, names, classes
  <2> QED
    BY <2>1, <2>2, <2>3 DEF Bijection, Injection, Surjection, IsInjective
<1>3. classes = {{j \in I : u[j] = u[i]} : i \in I}
  OBVIOUS
<1> HIDE DEF f, names, classes
<1>4. ExistsBijection(names, classes)
  BY <1>2 DEF ExistsBijection
<1>5. Cardinality(classes) = Cardinality(names)
  BY <1>1, <1>4, FS_Bijection
<1> QED
  BY <1>3, <1>5 DEF names

(* Stacked by batch and status, a row's stack and its unit of the badge    *)
(* are told by the same three fields.                                      *)
LEMMA BadgeCounted ==
  ASSUME RowsHeld
  PROVE  BadgeCountsLines
<1> DEFINE on == ToSet(Filtered)
           w(i) == WorkStatusKey(i, Reminders, ConnectorGate)
           unit == [i \in on |-> <<<<"d", i.day, i.source>>, w(i)>>]
<1> SUFFICES ASSUME persona = "ops", groups = {"batch", "status"}, tab = "all", match = "all",
                    system = Unnamed, \A i \in on : DayOnly(i)
             PROVE  Cardinality(WorkUnits(Raw, Reminders, ConnectorGate)) = Cardinality(Stacks)
  BY DEF BadgeCountsLines
<1>1. IsFiniteSet(on) /\ on = {i \in ToSet(PageItems) : Passes(i)}
  BY ItemsIn, Shown
<1>2. on = ToSet(Coalesce(Raw))
  <2>1. \A i : Passes(i)
    BY Zenon DEF Passes, InLane
  <2>2. PageItems = Coalesce(Raw)
    <3>1. ~Owner
      BY DEF Owner
    <3> QED
      BY <3>1, Zenon DEF PageItems
  <2> HIDE DEF on
  <2> QED
    BY <1>1, <2>1, <2>2
<1>3. ASSUME NEW i \in on
      PROVE  PendingBatchKey(i) = <<"d", i.day, i.source>> /\ StackOf(i) = <<i.day, i.source, w(i)>>
  <2>1. i.day # 0 /\ i.source # Unnamed /\ i.batch = Unnamed
    BY <1>3 DEF DayOnly
  <2>2. PendingBatchKey(i) = <<"d", i.day, i.source>>
    BY <2>1, Zenon DEF PendingBatchKey
  <2>3. "batch" \in groups /\ "status" \in groups /\ "system" \notin groups
    OBVIOUS
  <2> DEFINE s == w(i)
             src == IF i.source = Unnamed THEN "unknown" ELSE i.source
  <2>4. StackOf(i) = (<<i.day, src>> \o <<>>) \o <<s>>
    BY <2>3, Zenon DEF StackOf, StackKey
  <2> HIDE DEF s
  <2>5. src = i.source
    BY <2>1
  <2>6. StackOf(i) = (<<i.day, i.source>> \o <<>>) \o <<s>>
    BY <2>4, <2>5
  <2>7. StackOf(i) = <<i.day, i.source, s>>
    <3>1. <<i.day, i.source>> \o <<>> = <<i.day, i.source>>
      BY OneMore
    <3>2. <<i.day, i.source>> \o <<s>> = <<i.day, i.source, s>>
      BY OneMore
    <3> QED
      BY <2>6, <3>1, <3>2, Zenon
  <2> QED
    BY <2>2, <2>7 DEF s
<1>4. WorkUnits(Raw, Reminders, ConnectorGate) = {unit[i] : i \in on}
  <2>1. WorkUnits(Raw, Reminders, ConnectorGate) = {<<PendingBatchKey(i), w(i)>> : i \in on}
    BY <1>2, Zenon DEF WorkUnits
  <2>2. \A i \in on : unit[i] = <<PendingBatchKey(i), w(i)>>
    BY <1>3
  <2> HIDE DEF on, unit, w
  <2> QED
    BY <2>1, <2>2
<1>5. Stacks = {{j \in on : unit[j] = unit[i]} : i \in on}
  <2>1. Grouping /\ groups # {"status"}
    BY DEF Grouping
  <2>2. Stacks = {{j \in on : StackOf(j) = k} : k \in {StackOf(i) : i \in on}}
    BY <2>1, Zenon DEF Stacks
  <2>3. \A i, j \in on : unit[j] = unit[i] <=> StackOf(j) = StackOf(i)
    <3> DEFINE a(i) == w(i)
    <3>1. \A i \in on : unit[i] = <<<<"d", i.day, i.source>>, a(i)>>
      OBVIOUS
    <3>2. \A i \in on : StackOf(i) = <<i.day, i.source, a(i)>>
      BY <1>3
    <3> HIDE DEF unit, a, on
    <3> QED
      BY <3>1, <3>2
  <2> HIDE DEF on, unit
  <2>4. Stacks = {{j \in on : StackOf(j) = StackOf(i)} : i \in on}
    BY <2>2
  <2>5. \A i \in on : {j \in on : StackOf(j) = StackOf(i)} = {j \in on : unit[j] = unit[i]}
    BY <2>3
  <2> QED
    BY <2>4, <2>5
<1>6. DOMAIN unit = on /\ unit = [i \in on |-> unit[i]]
  OBVIOUS
<1> HIDE DEF on, unit
<1>7. Cardinality({{j \in on : unit[j] = unit[i]} : i \in on}) = Cardinality({unit[i] : i \in on})
  BY <1>1, <1>6, ClassesCounted
<1> QED
  BY <1>4, <1>5, <1>7

(* Of every inbox and every list its API answers with: a bulk decision     *)
(* reaches only reviews the reviewer ticked, every row is in one stack,    *)
(* the counts of the tabs and the badge are of what they lead to, and the  *)
(* pane of a stack says of its stage what holds of its members             *)
(* (needs-attention.tsx, inbox-batch-status.ts, JourneyChrome).            *)
THEOREM InboxHolds == InboxSpec /\ ChromeSpec => []PagesHold
<1>1. InboxInv => TickedOnly /\ CountsMatchTabs /\ BadgeCountsLines
  BY BulkIsTicked, TabsCounted, BadgeCounted DEF InboxInv
<1>2. InboxInv /\ ChromeTold => PagesHold
  BY <1>1, OneStackEach, Zenon DEF PagesHold, StackKept, CountsMatch
<1> QED
  BY <1>2, InboxStart, InboxKept, StackSpokenFor, PTL DEF InboxSpec

=============================================================================
