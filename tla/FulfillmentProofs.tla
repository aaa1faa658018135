-------------------------- MODULE FulfillmentProofs -------------------------
(***************************************************************************)
(* Theorems about the gates of the verticals and the dispatcher that works *)
(* behind them, for every set of requests, dispatchers, callers and        *)
(* dispositions and every number of gates.                                 *)
(*                                                                         *)
(* GatesInv adds to the properties of VerticalGates what the calls in      *)
(* progress know: a call names a request, an edit a disposition, and a     *)
(* kickoff a request that has one.                                         *)
(*                                                                         *)
(* FInv says what a dispatcher still knows statements after it read it:    *)
(* the disposition it carries was kicked off at some time, the file it     *)
(* read held only such dispositions, and the attempt number it computed    *)
(* has no gap before it.                                                   *)
(***************************************************************************)
EXTENDS Fulfillment, AttemptTableProofs, FiniteSetTheorems

-----------------------------------------------------------------------------
(* The gates                                                               *)

Editing == {"lock", "write", "mirror"}
Kicking == {"check", "ensure", "open", "pick", "decide"}

CallsKnow ==
  \A p \in Admins :
    /\ admin[p].pc # "idle" => admin[p].r \in Requests
    /\ admin[p].pc \in Editing => admin[p].choice \in Dispositions
    /\ admin[p].pc \in Kicking => decision[admin[p].r] # None

(* Gate ids are given out in order, and every approval spent one.          *)
GatesCount ==
  \A r \in Requests :
    /\ gates[r].pending \subseteq 1..gates[r].opened
    /\ era[r] + Cardinality(gates[r].pending) <= gates[r].opened

GatesInv ==
  /\ GatesTypeOK
  /\ CallsKnow
  /\ KickoffHasDisposition
  /\ GatesCount

-----------------------------------------------------------------------------
GateRow == [opened : 0..MaxGates, pending : SUBSET (1..MaxGates), approved : BOOLEAN]
Caller == [pc : AdminAt, r : Requests \cup {None},
           choice : Dispositions \cup {None}, gate : 0..MaxGates]

LEMMA PendingFinite ==
  ASSUME NEW g \in GateRow
  PROVE  /\ IsFiniteSet(g.pending) /\ Cardinality(g.pending) \in Nat
         /\ \A x \in g.pending :
              Cardinality(g.pending \ {x}) = Cardinality(g.pending) - 1
<1>1. IsFiniteSet(1..MaxGates)
  BY FS_Interval, GatesAssumption
<1>2. g.pending \subseteq 1..MaxGates
  BY DEF GateRow
<1>3. IsFiniteSet(g.pending)
  BY <1>1, <1>2, FS_Subset
<1> QED BY <1>3, FS_CardinalityType, FS_RemoveElement

LEMMA GatesInitInv == GatesInit => GatesInv
<1> SUFFICES ASSUME GatesInit PROVE GatesInv
  OBVIOUS
<1> USE DEF GatesInit
<1>1. Cardinality({}) = 0
  BY FS_EmptySet
<1>2. GatesTypeOK
  BY GatesAssumption DEF GatesTypeOK, NoGates, Free, AdminAt
<1>3. CallsKnow
  BY DEF CallsKnow, Free, Editing, Kicking
<1>4. KickoffHasDisposition
  BY DEF KickoffHasDisposition, NoGates
<1>5. GatesCount
  <2>1. ASSUME NEW r \in Requests
        PROVE  gates[r].pending = {} /\ gates[r].opened = 0 /\ era[r] = 0
    BY DEF NoGates
  <2>2. ASSUME NEW r \in Requests
        PROVE  /\ gates[r].pending \subseteq 1..gates[r].opened
               /\ era[r] + Cardinality(gates[r].pending) <= gates[r].opened
    <3>1. Cardinality(gates[r].pending) = 0
      BY <2>1, <1>1
    <3> HIDE DEF GatesInit
    <3> QED BY <2>1, <3>1
  <2> QED BY <2>2 DEF GatesCount
<1> QED BY <1>2, <1>3, <1>4, <1>5 DEF GatesInv

-----------------------------------------------------------------------------
(* Steps                                                                   *)

(* A call that begins, moves on or returns.                                *)
LEMMA CallType ==
  ASSUME GatesTypeOK, NEW p \in Admins, NEW pc \in AdminAt, NEW r \in Requests,
         NEW c \in Dispositions \cup {None}
  PROVE  /\ Then(p, pc) => admin' \in [Admins -> Caller]
         /\ Return(p) => admin' \in [Admins -> Caller]
         /\ Call(p, pc, r, c) => admin' \in [Admins -> Caller]
<1>1. admin \in [Admins -> Caller] /\ admin[p] \in Caller
  BY DEF GatesTypeOK, Caller
<1>2. Free \in Caller
  BY GatesAssumption DEF Free, Caller, AdminAt
<1>3. [admin[p] EXCEPT !.pc = pc] \in Caller
  BY <1>1 DEF Caller
<1>4. [Free EXCEPT !.pc = pc, !.r = r, !.choice = c] \in Caller
  BY <1>2 DEF Caller
<1> QED BY <1>1, <1>2, <1>3, <1>4 DEF Then, Return, Call

LEMMA CountType ==
  ASSUME GatesTypeOK, NEW r \in Requests
  PROVE  /\ gates[r] \in GateRow /\ era[r] \in 0..MaxGates
         /\ gates[r].opened \in 0..MaxGates
BY DEF GatesTypeOK, GateRow

(* Approving a gate spends it: the sum of approvals and pending gates is   *)
(* the same as before.                                                     *)
LEMMA ApproveStep ==
  ASSUME GatesInv, NEW r \in Requests, NEW g, ApproveGate(r, g), UNCHANGED decision
  PROVE  /\ gates' \in [Requests -> GateRow] /\ era' \in [Requests -> 0..MaxGates]
         /\ granted' \subseteq Requests \X Dispositions
         /\ GatesCount' /\ KickoffHasDisposition'
<1> USE DEF GatesInv
<1>1. CASE g \notin gates[r].pending
  BY <1>1 DEF ApproveGate, GatesTypeOK, GateRow, GatesCount, KickoffHasDisposition
<1>2. CASE g \in gates[r].pending
  <2>1. /\ gates' = [gates EXCEPT ![r].pending = @ \ {g}, ![r].approved = TRUE]
        /\ era' = [era EXCEPT ![r] = @ + 1]
        /\ granted' = granted \cup {<<r, decision[r]>>}
    BY <1>2 DEF ApproveGate
  <2>2. gates[r] \in GateRow /\ era[r] \in 0..MaxGates /\ gates[r].opened \in 0..MaxGates
    BY CountType
  <2>3. /\ Cardinality(gates[r].pending) \in Nat
        /\ Cardinality(gates[r].pending \ {g}) = Cardinality(gates[r].pending) - 1
        /\ Cardinality(gates[r].pending \ {g}) \in Nat
    <3>1. [gates[r] EXCEPT !.pending = @ \ {g}] \in GateRow
      BY <2>2 DEF GateRow
    <3>2. [gates[r] EXCEPT !.pending = @ \ {g}].pending = gates[r].pending \ {g}
      BY <2>2 DEF GateRow
    <3> QED BY <3>1, <3>2, <2>2, <1>2, PendingFinite
  <2>4. gates' \in [Requests -> GateRow]
    <3>1. [gates[r] EXCEPT !.pending = @ \ {g}, !.approved = TRUE] \in GateRow
      BY <2>2 DEF GateRow
    <3>2. gates \in [Requests -> GateRow]
      BY DEF GatesTypeOK, GateRow
    <3> QED BY <2>1, <3>1, <3>2
  <2>5. era[r] + Cardinality(gates[r].pending) <= gates[r].opened
    BY DEF GatesCount
  <2>6. era[r] + 1 \in 0..MaxGates
    BY <2>2, <2>3, <2>5, GatesAssumption
  <2>7. era' \in [Requests -> 0..MaxGates]
    BY <2>1, <2>6 DEF GatesTypeOK
  <2>8. gates[r].opened > 0
    BY <1>2, <2>2 DEF GatesCount, GateRow
  <2>9. decision[r] \in Dispositions
    BY <2>8 DEF KickoffHasDisposition, GatesTypeOK
  <2>10. granted' \subseteq Requests \X Dispositions
    BY <2>1, <2>9 DEF GatesTypeOK
  <2>11. ASSUME NEW q \in Requests
         PROVE  /\ gates'[q].opened = gates[q].opened
                /\ gates'[q].pending = IF q = r THEN gates[r].pending \ {g}
                                                ELSE gates[q].pending
                /\ era'[q] = IF q = r THEN era[r] + 1 ELSE era[q]
    BY <2>1 DEF GatesTypeOK
  <2>12. ASSUME NEW q \in Requests
         PROVE  /\ gates'[q].pending \subseteq 1..gates'[q].opened
                /\ era'[q] + Cardinality(gates'[q].pending) <= gates'[q].opened
    <3>1. CASE q = r
      <4>1. gates[r].pending \subseteq 1..gates[r].opened
        BY DEF GatesCount
      <4>2. gates'[q].pending \subseteq 1..gates'[q].opened
        BY <4>1, <3>1, <2>11
      <4>3. (era[r] + 1) + (Cardinality(gates[r].pending) - 1) <= gates[r].opened
        BY <2>2, <2>3, <2>5
      <4> QED BY <4>2, <4>3, <3>1, <2>3, <2>11
    <3>2. CASE q # r
      BY <3>2, <2>11 DEF GatesCount
    <3> QED BY <3>1, <3>2
  <2>13. KickoffHasDisposition'
    BY <2>11 DEF KickoffHasDisposition
  <2> QED BY <2>4, <2>7, <2>10, <2>12, <2>13 DEF GatesCount
<1> QED BY <1>1, <1>2

(* One call moves: the others still know what they knew, as a disposition, *)
(* once written, is never taken back.                                      *)
Knows(x, d) ==
  /\ x.pc # "idle" => x.r \in Requests
  /\ x.pc \in Editing => x.choice \in Dispositions
  /\ x.pc \in Kicking => d[x.r] # None

LEMMA CallsKnowStep ==
  ASSUME GatesInv, NEW p \in Admins, admin' \in [Admins -> Caller],
         \A q \in Admins \ {p} : admin'[q] = admin[q],
         Knows(admin'[p], decision'),
         \A r \in Requests : decision[r] # None => decision'[r] # None
  PROVE  CallsKnow'
<1> SUFFICES ASSUME NEW q \in Admins PROVE Knows(admin'[q], decision')
  BY DEF CallsKnow, Knows
<1>1. CASE q = p
  BY <1>1
<1>2. CASE q # p
  <2>1. admin'[q] = admin[q] /\ Knows(admin[q], decision)
    BY <1>2 DEF GatesInv, CallsKnow, Knows
  <2> QED BY <2>1 DEF Knows, Editing, Kicking
<1> QED BY <1>1, <1>2

(* A step that writes no gate and no disposition.                          *)
LEMMA GatesUntouched ==
  ASSUME GatesInv, UNCHANGED <<decision, gates, era, granted>>,
         response' \in [Requests -> Dispositions \cup {None}],
         covered' \in [Requests -> BOOLEAN], closed' \in [Requests -> BOOLEAN],
         notice' \in [Requests -> {"none", "pending", "approved"}],
         admin' \in [Admins -> Caller], CallsKnow'
  PROVE  GatesInv'
BY DEF GatesInv, GatesTypeOK, KickoffHasDisposition, GatesCount, Caller

(* Calls that only read, and then move on, return or die.                  *)
LEMMA MovesOn ==
  ASSUME GatesInv, NEW p \in Admins,
         ~At(p, "idle"),
         \/ Return(p)
         \/ \E pc \in AdminAt :
              /\ Then(p, pc)
              /\ pc \in Editing => admin[p].pc \in Editing
              /\ pc \in Kicking => admin[p].pc \in Kicking,
         \A r \in Requests : decision[r] # None => decision'[r] # None
  PROVE  admin' \in [Admins -> Caller] /\ CallsKnow'
<1>1. admin \in [Admins -> Caller] /\ admin[p] \in Caller /\ admin[p].r \in Requests
  BY DEF GatesInv, GatesTypeOK, Caller, CallsKnow, At
<1>2. Knows(admin[p], decision)
  BY DEF GatesInv, CallsKnow, Knows
<1>3. CASE Return(p)
  <2>1. admin' \in [Admins -> Caller]
    BY <1>1, <1>3, CallType DEF GatesInv, AdminAt
  <2>2. admin'[p] = Free /\ \A q \in Admins \ {p} : admin'[q] = admin[q]
    BY <1>1, <1>3 DEF Return
  <2>3. Knows(Free, decision')
    BY DEF Knows, Free, Editing, Kicking
  <2> QED BY <2>1, <2>2, <2>3, CallsKnowStep
<1>4. CASE ~Return(p)
  <2>1. PICK pc \in AdminAt : /\ Then(p, pc)
                              /\ pc \in Editing => admin[p].pc \in Editing
                              /\ pc \in Kicking => admin[p].pc \in Kicking
    BY <1>4
  <2>2. admin' \in [Admins -> Caller]
    BY <1>1, <2>1, CallType DEF GatesInv, Caller
  <2>3. admin'[p] = [admin[p] EXCEPT !.pc = pc] /\ \A q \in Admins \ {p} : admin'[q] = admin[q]
    BY <1>1, <2>1 DEF Then
  <2>4. /\ [admin[p] EXCEPT !.pc = pc].pc = pc
        /\ [admin[p] EXCEPT !.pc = pc].r = admin[p].r
        /\ [admin[p] EXCEPT !.pc = pc].choice = admin[p].choice
    BY <1>1 DEF Caller
  <2>5. Knows(admin'[p], decision')
    BY <1>1, <1>2, <2>1, <2>3, <2>4 DEF Knows
  <2> QED BY <2>2, <2>3, <2>5, CallsKnowStep
<1> QED BY <1>3, <1>4

(* A call that begins, with what it must know.                             *)
LEMMA Begun ==
  ASSUME GatesInv, NEW p \in Admins, NEW pc \in AdminAt, NEW r \in Requests,
         NEW c \in Dispositions \cup {None}, Call(p, pc, r, c), UNCHANGED decision,
         pc \in Editing => c \in Dispositions,
         pc \in Kicking => decision[r] # None
  PROVE  admin' \in [Admins -> Caller] /\ CallsKnow'
<1>1. admin \in [Admins -> Caller]
  BY DEF GatesInv, GatesTypeOK, Caller
<1>2. admin' \in [Admins -> Caller]
  BY CallType DEF GatesInv
<1>3. /\ admin'[p] = [Free EXCEPT !.pc = pc, !.r = r, !.choice = c]
      /\ \A q \in Admins \ {p} : admin'[q] = admin[q]
  BY <1>1 DEF Call
<1>4. Knows(admin'[p], decision')
  BY <1>3 DEF Knows, Free
<1> QED BY <1>2, <1>3, <1>4, CallsKnowStep

-----------------------------------------------------------------------------
(* The actions, by the handler they belong to                              *)

LEMMA EditSteps ==
  ASSUME GatesInv, NEW p \in Admins
  PROVE  /\ \A r \in Requests, c \in Dispositions : Edit(p, r, c) => GatesInv'
         /\ EditLock(p) => GatesInv'
         /\ EditWrite(p) => GatesInv'
         /\ EditMirror(p) => GatesInv'
<1>1. ASSUME NEW r \in Requests, NEW c \in Dispositions, Edit(p, r, c)
      PROVE  GatesInv'
  <2>1. PICK pc \in {"write", "lock"} : Call(p, pc, r, c)
    BY <1>1 DEF Edit
  <2>2. admin' \in [Admins -> Caller] /\ CallsKnow'
    BY <1>1, <2>1, Begun DEF Edit, AdminAt, Editing, Kicking
  <2> QED BY <1>1, <2>2, GatesUntouched DEF Edit, GatesInv, GatesTypeOK
<1>2. ASSUME EditLock(p) PROVE GatesInv'
  <2>1. admin' \in [Admins -> Caller] /\ CallsKnow'
    BY <1>2, MovesOn DEF EditLock, At, AdminAt, Editing, Kicking
  <2> QED BY <1>2, <2>1, GatesUntouched DEF EditLock, GatesInv, GatesTypeOK
<1>3. ASSUME EditWrite(p) PROVE GatesInv'
  <2>1. admin[p].r \in Requests /\ admin[p].choice \in Dispositions
    BY <1>3 DEF EditWrite, GatesInv, CallsKnow, At, Editing
  <2>2. decision' \in [Requests -> Dispositions \cup {None}]
    BY <1>3, <2>1 DEF EditWrite, GatesInv, GatesTypeOK
  <2>3. \A r \in Requests : decision[r] # None => decision'[r] # None
    BY <1>3, <2>1, GatesAssumption DEF EditWrite, GatesInv, GatesTypeOK
  <2>4. admin' \in [Admins -> Caller] /\ CallsKnow'
    BY <1>3, <2>3, MovesOn DEF EditWrite, At, AdminAt, Editing, Kicking
  <2>5. granted' \subseteq Requests \X Dispositions
    BY <1>3, <2>1 DEF EditWrite, GatesInv, GatesTypeOK
  <2>6. KickoffHasDisposition'
    BY <1>3, <2>3 DEF EditWrite, GatesInv, KickoffHasDisposition
  <2>7. GatesTypeOK' /\ GatesCount'
    BY <1>3, <2>2, <2>4, <2>5 DEF EditWrite, GatesInv, GatesTypeOK, GatesCount, Caller
  <2> QED BY <2>4, <2>6, <2>7 DEF GatesInv
<1>4. ASSUME EditMirror(p) PROVE GatesInv'
  <2>1. admin[p].r \in Requests /\ admin[p].choice \in Dispositions
    BY <1>4 DEF EditMirror, GatesInv, CallsKnow, At, Editing
  <2>2. response' \in [Requests -> Dispositions \cup {None}]
    BY <1>4, <2>1 DEF EditMirror, GatesInv, GatesTypeOK
  <2>3. admin' \in [Admins -> Caller] /\ CallsKnow'
    BY <1>4, MovesOn DEF EditMirror, At
  <2> QED BY <1>4, <2>2, <2>3, GatesUntouched DEF EditMirror, GatesInv, GatesTypeOK
<1> QED BY <1>1, <1>2, <1>3, <1>4

(* A gate gets the next id: no gate had it, so one more is pending.        *)
LEMMA KickOpenStep ==
  ASSUME GatesInv, NEW p \in Admins, KickOpen(p)
  PROVE  GatesInv'
<1> DEFINE r == admin[p].r
           n == gates[r].opened + 1
<1>1. r \in Requests /\ decision[r] # None
  BY DEF KickOpen, GatesInv, CallsKnow, At, Kicking
<1>2. /\ gates[r] \in GateRow /\ era[r] \in 0..MaxGates /\ gates[r].opened \in 0..MaxGates
      /\ n \in 1..MaxGates
  <2>1. gates[r] \in GateRow /\ era[r] \in 0..MaxGates /\ gates[r].opened \in 0..MaxGates
    BY <1>1, CountType DEF GatesInv
  <2>2. gates[r].opened < MaxGates
    BY DEF KickOpen
  <2> QED BY <2>1, <2>2, GatesAssumption
<1>3. /\ gates[r].pending \subseteq 1..gates[r].opened
      /\ era[r] + Cardinality(gates[r].pending) <= gates[r].opened
  BY <1>1 DEF GatesInv, GatesCount
<1>4. /\ IsFiniteSet(gates[r].pending) /\ Cardinality(gates[r].pending) \in Nat
      /\ n \notin gates[r].pending
  BY <1>2, <1>3, PendingFinite
<1>5. Cardinality(gates[r].pending \cup {n}) = Cardinality(gates[r].pending) + 1
  BY <1>4, FS_AddElement
<1>6. gates' = [gates EXCEPT ![r].opened = @ + 1, ![r].pending = @ \cup {n}]
  BY DEF KickOpen
<1>7. gates \in [Requests -> GateRow]
  BY DEF GatesInv, GatesTypeOK, GateRow
<1> DEFINE new == [gates[r] EXCEPT !.opened = @ + 1, !.pending = @ \cup {n}]
<1>8. /\ new.opened = n /\ new.pending = gates[r].pending \cup {n}
      /\ new \in GateRow
  <2>1. gates[r].pending \cup {n} \in SUBSET (1..MaxGates) /\ n \in 0..MaxGates
    BY <1>2 DEF GateRow
  <2> HIDE DEF r
  <2> QED BY <2>1, <1>2 DEF GateRow
<1>9. gates' = [gates EXCEPT ![r] = new]
  BY <1>6
<1>n. n = gates[r].opened + 1
  OBVIOUS
<1> HIDE DEF r, n, new
<1>10. gates' \in [Requests -> GateRow]
  BY <1>7, <1>8, <1>9
<1>11. ASSUME NEW q \in Requests
      PROVE  /\ gates'[q].opened = IF q = r THEN n ELSE gates[q].opened
             /\ gates'[q].pending = IF q = r THEN gates[r].pending \cup {n}
                                             ELSE gates[q].pending
  BY <1>1, <1>7, <1>8, <1>9
<1>12. admin' \in [Admins -> Caller] /\ CallsKnow'
  BY MovesOn DEF KickOpen, At, AdminAt, Editing, Kicking
<1>13. GatesTypeOK'
  BY <1>10, <1>12 DEF KickOpen, GatesInv, GatesTypeOK, GateRow, Caller
<1>14. KickoffHasDisposition'
  BY <1>1, <1>11 DEF KickOpen, GatesInv, KickoffHasDisposition
<1>15. ASSUME NEW q \in Requests
       PROVE  /\ gates'[q].pending \subseteq 1..gates'[q].opened
              /\ era'[q] + Cardinality(gates'[q].pending) <= gates'[q].opened
  <2>1. era' = era
    BY DEF KickOpen
  <2>2. CASE q = r
    <3>1. gates'[q].pending \subseteq 1..gates'[q].opened
      BY <1>2, <1>3, <1>11, <1>n, <2>2
    <3>2. era[r] + (Cardinality(gates[r].pending) + 1) <= gates[r].opened + 1
      BY <1>2, <1>3, <1>4
    <3> QED BY <1>5, <1>11, <1>n, <2>1, <2>2, <3>1, <3>2
  <2>3. CASE q # r
    BY <1>11, <2>1, <2>3 DEF GatesInv, GatesCount
  <2> QED BY <2>2, <2>3
<1>16. GatesCount'
  BY <1>15 DEF GatesCount
<1> QED BY <1>12, <1>13, <1>14, <1>16 DEF GatesInv

LEMMA KickSteps ==
  ASSUME GatesInv, NEW p \in Admins
  PROVE  /\ \A r \in Requests : Kick(p, r) => GatesInv'
         /\ KickCheck(p) \/ KickEnsure(p) \/ KickPick(p) => GatesInv'
         /\ KickDecide(p) => GatesInv'
<1>1. ASSUME NEW r \in Requests, Kick(p, r) PROVE GatesInv'
  <2>1. admin' \in [Admins -> Caller] /\ CallsKnow'
    BY <1>1, Begun DEF Kick, Recorded, AdminAt, Editing, Kicking
  <2> QED BY <1>1, <2>1, GatesUntouched DEF Kick, GatesInv, GatesTypeOK
<1>2. ASSUME KickCheck(p) PROVE GatesInv'
  <2>1. admin' \in [Admins -> Caller] /\ CallsKnow'
    BY <1>2, MovesOn DEF KickCheck, At, AdminAt, Editing, Kicking
  <2> QED BY <1>2, <2>1, GatesUntouched DEF KickCheck, GatesInv, GatesTypeOK
<1>3. ASSUME KickEnsure(p) PROVE GatesInv'
  <2>1. PICK pc \in {"pick", "open"} : Then(p, pc)
    BY <1>3 DEF KickEnsure
  <2>2. admin' \in [Admins -> Caller] /\ CallsKnow'
    BY <1>3, <2>1, MovesOn DEF KickEnsure, At, AdminAt, Editing, Kicking
  <2> QED BY <1>3, <2>2, GatesUntouched DEF KickEnsure, GatesInv, GatesTypeOK
<1>4. ASSUME KickPick(p) PROVE GatesInv'
  <2>1. admin' \in [Admins -> Caller] /\ CallsKnow'
    <3>1. CASE Return(p)
      BY <1>4, <3>1, MovesOn DEF KickPick, At
    <3>2. CASE ~Return(p)
      <4>1. PICK g \in gates[admin[p].r].pending :
              admin' = [admin EXCEPT ![p].pc = "decide", ![p].gate = g]
        BY <1>4, <3>2 DEF KickPick
      <4>2. admin \in [Admins -> Caller] /\ admin[p] \in Caller
        BY DEF GatesInv, GatesTypeOK, Caller
      <4>3. admin[p].r \in Requests /\ decision[admin[p].r] # None
        BY <1>4 DEF KickPick, GatesInv, CallsKnow, At, Kicking
      <4>4. g \in 0..MaxGates
        BY <4>3, CountType DEF GatesInv, GateRow
      <4>5. [admin[p] EXCEPT !.pc = "decide", !.gate = g] \in Caller
        BY <4>2, <4>4 DEF Caller, AdminAt
      <4>6. /\ admin'[p] = [admin[p] EXCEPT !.pc = "decide", !.gate = g]
            /\ \A q \in Admins \ {p} : admin'[q] = admin[q]
        BY <4>1, <4>2
      <4>7. admin' \in [Admins -> Caller]
        BY <4>1, <4>2, <4>5
      <4>8. decision' = decision
        BY <1>4 DEF KickPick
      <4>9. Knows(admin'[p], decision')
        BY <4>2, <4>3, <4>6, <4>8 DEF Knows, Caller, Editing, Kicking
      <4> QED BY <4>6, <4>7, <4>8, <4>9, CallsKnowStep
    <3> QED BY <3>1, <3>2
  <2> QED BY <1>4, <2>1, GatesUntouched DEF KickPick, GatesInv, GatesTypeOK
<1>5. ASSUME KickDecide(p) PROVE GatesInv'
  <2>1. admin' \in [Admins -> Caller] /\ CallsKnow'
    BY <1>5, MovesOn DEF KickDecide, At
  <2>2. admin[p].r \in Requests
    BY <1>5 DEF KickDecide, GatesInv, CallsKnow, At
  <2>3. /\ gates' \in [Requests -> GateRow] /\ era' \in [Requests -> 0..MaxGates]
        /\ granted' \subseteq Requests \X Dispositions
        /\ GatesCount' /\ KickoffHasDisposition'
    BY <1>5, <2>2, ApproveStep DEF KickDecide
  <2>4. GatesTypeOK'
    BY <1>5, <2>1, <2>3 DEF KickDecide, GatesInv, GatesTypeOK, GateRow, Caller
  <2> QED BY <2>1, <2>3, <2>4 DEF GatesInv
<1> QED BY <1>1, <1>2, <1>3, <1>4, <1>5

(* Gates are taken from the queue without being approved: a rejection, a   *)
(* reopen or a close.                                                      *)
LEMMA Withdrawn ==
  ASSUME GatesInv, NEW r \in Requests, NEW left \in SUBSET gates[r].pending,
         NEW approved \in BOOLEAN,
         gates' = [gates EXCEPT ![r].pending = left, ![r].approved = approved],
         UNCHANGED <<decision, era, granted>>
  PROVE  /\ gates' \in [Requests -> GateRow] /\ GatesCount' /\ KickoffHasDisposition'
<1>1. /\ gates[r] \in GateRow /\ era[r] \in 0..MaxGates /\ gates[r].opened \in 0..MaxGates
      /\ gates \in [Requests -> GateRow]
  BY CountType DEF GatesInv, GatesTypeOK, GateRow
<1>2. gates' \in [Requests -> GateRow]
  BY <1>1 DEF GateRow
<1>3. ASSUME NEW q \in Requests
      PROVE  /\ gates'[q].opened = gates[q].opened
             /\ gates'[q].pending = IF q = r THEN left ELSE gates[q].pending
  BY <1>1
<1>4. Cardinality(left) <= Cardinality(gates[r].pending)
  BY <1>1, PendingFinite, FS_Subset
<1>5. Cardinality(left) \in Nat /\ Cardinality(gates[r].pending) \in Nat
  BY <1>1, PendingFinite, FS_Subset, FS_CardinalityType
<1>6. ASSUME NEW q \in Requests
      PROVE  /\ gates'[q].pending \subseteq 1..gates'[q].opened
             /\ era'[q] + Cardinality(gates'[q].pending) <= gates'[q].opened
  <2>1. /\ gates[q].pending \subseteq 1..gates[q].opened
        /\ era[q] + Cardinality(gates[q].pending) <= gates[q].opened
    BY DEF GatesInv, GatesCount
  <2>2. CASE q = r
    <3>1. era[r] + Cardinality(left) <= gates[r].opened
      BY <1>1, <1>4, <1>5, <2>1, <2>2
    <3> QED BY <1>3, <2>1, <2>2, <3>1
  <2>3. CASE q # r
    BY <1>3, <2>1, <2>3
  <2> QED BY <2>2, <2>3
<1>7. GatesCount' /\ KickoffHasDisposition'
  BY <1>3, <1>6 DEF GatesInv, GatesCount, KickoffHasDisposition
<1> QED BY <1>2, <1>7

LEMMA DecideSteps ==
  ASSUME GatesInv, NEW r \in Requests, NEW g \in 1..MaxGates, DecideKickoff(r, g)
  PROVE  GatesInv'
<1>1. /\ gates' \in [Requests -> GateRow] /\ era' \in [Requests -> 0..MaxGates]
      /\ granted' \subseteq Requests \X Dispositions
      /\ GatesCount' /\ KickoffHasDisposition'
  <2>1. CASE ApproveGate(r, g)
    BY <2>1, ApproveStep DEF DecideKickoff
  <2>2. CASE ~ApproveGate(r, g)
    <3>1. /\ gates' = [gates EXCEPT ![r].pending = @ \ {g}]
          /\ UNCHANGED <<decision, era, granted>>
      BY <2>2 DEF DecideKickoff
    <3>2. gates[r].approved \in BOOLEAN /\ gates \in [Requests -> GateRow]
      BY DEF GatesInv, GatesTypeOK, GateRow
    <3>3. gates' = [gates EXCEPT ![r].pending = gates[r].pending \ {g},
                                 ![r].approved = gates[r].approved]
      BY <3>1, <3>2 DEF GateRow
    <3>4. gates' \in [Requests -> GateRow] /\ GatesCount' /\ KickoffHasDisposition'
      BY <3>1, <3>2, <3>3, Withdrawn
    <3> QED BY <3>1, <3>4 DEF GatesInv, GatesTypeOK
  <2> QED BY <2>1, <2>2
<1>2. GatesTypeOK' /\ CallsKnow'
  BY <1>1 DEF DecideKickoff, GatesInv, GatesTypeOK, CallsKnow, GateRow
<1> QED BY <1>1, <1>2 DEF GatesInv

LEMMA ReopenSteps ==
  ASSUME GatesInv, NEW p \in Admins
  PROVE  /\ \A r \in Requests : Reopen(p, r) => GatesInv'
         /\ ReopenAbandon(p) => GatesInv'
         /\ ReopenNotices(p) => GatesInv'
<1>1. ASSUME NEW r \in Requests, Reopen(p, r) PROVE GatesInv'
  <2>1. admin' \in [Admins -> Caller] /\ CallsKnow'
    BY <1>1, Begun DEF Reopen, AdminAt, Editing, Kicking
  <2>2. gates' \in [Requests -> GateRow] /\ GatesCount' /\ KickoffHasDisposition'
    BY <1>1, Withdrawn DEF Reopen
  <2>3. GatesTypeOK'
    BY <1>1, <2>1, <2>2 DEF Reopen, GatesInv, GatesTypeOK, GateRow, Caller
  <2> QED BY <2>1, <2>2, <2>3 DEF GatesInv
<1>2. ASSUME ReopenAbandon(p) PROVE GatesInv'
  <2>1. admin' \in [Admins -> Caller] /\ CallsKnow'
    BY <1>2, MovesOn DEF ReopenAbandon, At, AdminAt, Editing, Kicking
  <2> QED BY <1>2, <2>1, GatesUntouched DEF ReopenAbandon, GatesInv, GatesTypeOK
<1>3. ASSUME ReopenNotices(p) PROVE GatesInv'
  <2>1. admin' \in [Admins -> Caller] /\ CallsKnow'
    BY <1>3, MovesOn DEF ReopenNotices, At
  <2>2. notice' \in [Requests -> {"none", "pending", "approved"}]
    BY <1>3 DEF ReopenNotices, DropPending, GatesInv, GatesTypeOK
  <2> QED BY <1>3, <2>1, <2>2, GatesUntouched DEF ReopenNotices, GatesInv, GatesTypeOK
<1> QED BY <1>1, <1>2, <1>3

LEMMA CloseSteps ==
  ASSUME GatesInv, NEW p \in Admins
  PROVE  /\ \A r \in Requests : Close(p, r) => GatesInv'
         /\ CloseClear(p) => GatesInv'
         /\ Die(p) => GatesInv'
<1>1. ASSUME NEW r \in Requests, Close(p, r) PROVE GatesInv'
  <2>1. admin' \in [Admins -> Caller] /\ CallsKnow'
    BY <1>1, Begun DEF Close, AdminAt, Editing, Kicking
  <2> QED BY <1>1, <2>1, GatesUntouched DEF Close, GatesInv, GatesTypeOK
<1>2. ASSUME CloseClear(p) PROVE GatesInv'
  <2>1. admin' \in [Admins -> Caller] /\ CallsKnow'
    BY <1>2, MovesOn DEF CloseClear, At
  <2>2. admin[p].r \in Requests /\ gates \in [Requests -> GateRow]
    BY <1>2 DEF CloseClear, At, GatesInv, CallsKnow, GatesTypeOK, GateRow
  <2>3. gates[admin[p].r].approved \in BOOLEAN
    BY <2>2 DEF GateRow
  <2>4. gates' = [gates EXCEPT ![admin[p].r].pending = {},
                               ![admin[p].r].approved = gates[admin[p].r].approved]
    BY <1>2, <2>2 DEF CloseClear, GateRow
  <2>5. gates' \in [Requests -> GateRow] /\ GatesCount' /\ KickoffHasDisposition'
    BY <1>2, <2>2, <2>3, <2>4, Withdrawn DEF CloseClear
  <2>6. notice' \in [Requests -> {"none", "pending", "approved"}]
    BY <1>2 DEF CloseClear, DropPending, GatesInv, GatesTypeOK
  <2>7. GatesTypeOK'
    BY <1>2, <2>1, <2>5, <2>6 DEF CloseClear, GatesInv, GatesTypeOK, GateRow, Caller
  <2> QED BY <2>1, <2>5, <2>7 DEF GatesInv
<1>3. ASSUME Die(p) PROVE GatesInv'
  <2>1. admin' \in [Admins -> Caller] /\ CallsKnow'
    BY <1>3, MovesOn DEF Die
  <2> QED BY <1>3, <2>1, GatesUntouched DEF Die, GatesInv, GatesTypeOK
<1> QED BY <1>1, <1>2, <1>3

LEMMA OutsideSteps ==
  ASSUME GatesInv, NEW r \in Requests,
         \/ ApproveReview(r) \/ NewResult(r) \/ Rematch(r)
         \/ ApproveNotice(r) \/ OpenNotice(r)
  PROVE  GatesInv'
<1>1. UNCHANGED <<decision, gates, era, admin, granted, closed>>
  BY DEF ApproveReview, NewResult, Rematch, ApproveNotice, OpenNotice
<1>2. admin' \in [Admins -> Caller] /\ CallsKnow'
  BY <1>1 DEF GatesInv, GatesTypeOK, CallsKnow, Caller
<1>3. covered' \in [Requests -> BOOLEAN] /\ closed' \in [Requests -> BOOLEAN]
  BY <1>1 DEF ApproveReview, NewResult, Rematch, ApproveNotice, OpenNotice,
              GatesInv, GatesTypeOK
<1>4. response' \in [Requests -> Dispositions \cup {None}]
  BY DEF ApproveReview, NewResult, Rematch, ApproveNotice, OpenNotice,
         GatesInv, GatesTypeOK
<1>5. notice' \in [Requests -> {"none", "pending", "approved"}]
  BY DEF ApproveReview, NewResult, Rematch, ApproveNotice, OpenNotice,
         WithNotice, GatesInv, GatesTypeOK
<1> QED BY <1>1, <1>2, <1>3, <1>4, <1>5, GatesUntouched

-----------------------------------------------------------------------------
LEMMA GatesNextInv == GatesInv /\ [GatesNext]_gateVars => GatesInv'
<1> SUFFICES ASSUME GatesInv, [GatesNext]_gateVars PROVE GatesInv'
  OBVIOUS
<1>1. ASSUME NEW p \in Admins, Continue(p) PROVE GatesInv'
  BY <1>1, EditSteps, KickOpenStep, KickSteps, ReopenSteps, CloseSteps DEF Continue
<1>2. ASSUME NEW p \in Admins, NEW r \in Requests, Begins(p, r) PROVE GatesInv'
  BY <1>2, EditSteps, KickSteps, ReopenSteps, CloseSteps DEF Begins
<1>3. ASSUME NEW p \in Admins, Die(p) PROVE GatesInv'
  BY <1>3, CloseSteps
<1>4. ASSUME NEW r \in Requests, NEW g \in 1..MaxGates, DecideKickoff(r, g)
      PROVE  GatesInv'
  BY <1>4, DecideSteps
<1>5. ASSUME NEW r \in Requests,
             \/ ApproveReview(r) \/ NewResult(r) \/ Rematch(r)
             \/ ApproveNotice(r) \/ OpenNotice(r)
      PROVE  GatesInv'
  BY <1>5, OutsideSteps
<1>6. CASE UNCHANGED gateVars
  BY <1>6 DEF gateVars, GatesInv, GatesTypeOK, CallsKnow, KickoffHasDisposition,
              GatesCount
<1> QED BY <1>1, <1>2, <1>3, <1>4, <1>5, <1>6 DEF GatesNext, GatesStep

LEMMA GatesInvariant == GatesSpec => []GatesInv
<1>1. GatesInit => GatesInv
  BY GatesInitInv
<1>2. GatesInv /\ [GatesNext]_gateVars => GatesInv'
  BY GatesNextInv
<1> QED BY <1>1, <1>2, PTL DEF GatesSpec

(* The states keep their types, in particular no more gates are open or    *)
(* approved than ids were given out, whatever calls overlap or die.        *)
THEOREM GatesTyped == GatesSpec => []GatesTypeOK
<1>1. GatesInv => GatesTypeOK
  BY DEF GatesInv
<1> QED BY <1>1, GatesInvariant, PTL

(* No kickoff gate exists before a disposition, for every number of        *)
(* requests and of overlapping calls: kickoff_vertical_fulfillment checks  *)
(* it statements before it inserts the gate, and no later step undoes it.  *)
THEOREM KickoffDisposed == GatesSpec => []KickoffHasDisposition
<1>1. GatesInv => KickoffHasDisposition
  BY DEF GatesInv
<1> QED BY <1>1, GatesInvariant, PTL

(* Every approval spends a gate of its own: decide_approval's status filter *)
(* lets two calls that picked the same gate approve it once.                *)
THEOREM ApprovalsSpend == GatesSpec => []ApprovalSpendsGate
<1>1. GatesInv => ApprovalSpendsGate
  BY DEF GatesInv, GatesCount, ApprovalSpendsGate
<1> QED BY <1>1, GatesInvariant, PTL

-----------------------------------------------------------------------------
(* The dispatcher                                                          *)

WorkRow ==
  [pc : WorkAt, mode : {"direct", "enqueue", "run"}, todo : SUBSET Requests,
   r : Requests \cup {None}, a : Attempts \cup {NoAttempt},
   choice : Dispositions \cup {None}, since : 0..MaxGates,
   seen : SUBSET (Requests \X Dispositions)]

Holding == {"insert", "claim_id", "begin", "work", "write", "error", "sync",
            "success", "notice"}
Decided == {"block", "number"} \cup Holding

WorkKnows(x, t, g) ==
  /\ x.pc \notin {"idle", "next", "claim"} => x.r \in Requests
  /\ x.pc = "idle" => x.mode = "direct"
  /\ x.pc = "next" => x.mode = "enqueue"
  /\ x.pc \in Holding => x.a \in Attempts
  /\ x.mode = "run" /\ x.pc \in {"review", "gate"} => x.a \in Attempts
  /\ x.pc \in Decided => <<x.r, x.choice>> \in g
  /\ x.seen \subseteq g
  /\ x.pc = "insert" /\ x.a[2] > 1 => Exists(t, Prev1(x.a))

ApprovedIsGranted ==
  \A r \in Requests : gates[r].approved => <<r, decision[r]>> \in granted

FInv ==
  /\ GatesInv
  /\ TypeOK
  /\ ApprovedIsGranted
  /\ \A d \in Dispatchers : WorkKnows(work[d], att, granted)
  /\ OnlyGranted

(* A row appears at the end of its request's attempts, and moves from open *)
(* to open or to a verdict.                                                *)
RowStep ==
  /\ att' \in [Attempts -> Row]
  /\ \A a \in Attempts :
       \/ att'[a].status = att[a].status
       \/ att[a].status \in Open /\ att'[a].status \in Open \cup Terminal
       \/ /\ att[a].status = "absent" /\ att'[a].status = "pending"
          /\ a[2] > 1 => Exists(att, Prev1(a))

-----------------------------------------------------------------------------
LEMMA InitFInv == Init => FInv
<1> SUFFICES ASSUME Init PROVE FInv
  OBVIOUS
<1>1. GatesInv
  BY GatesInitInv DEF Init
<1>2. NoRow \in Row /\ NoRow.status = "absent"
  BY NewRowType DEF NoRow, Deadline
<1>3. att \in [Attempts -> Row]
  BY <1>2 DEF Init, GatesInit, EmptyTable
<1>4. Idle \in WorkRow /\ Undone \in [era : 0..MaxGates, choice : Dispositions \cup {None}]
  BY GatesAssumption DEF Idle, WorkRow, WorkAt, NoAttempt, Undone
<1>5. TypeOK
  BY <1>1, <1>3, <1>4 DEF Init, TypeOK, GatesInv, WorkRow
<1>6. ApprovedIsGranted
  BY DEF Init, GatesInit, NoGates, ApprovedIsGranted
<1>7. \A d \in Dispatchers : WorkKnows(work[d], att, granted)
  BY DEF Init, WorkKnows, Idle, Holding, Decided
<1>8. OnlyGranted
  BY DEF Init, OnlyGranted
<1> QED BY <1>1, <1>5, <1>6, <1>7, <1>8 DEF FInv

(* Rows do not vanish and grants are not taken back: the other dispatchers *)
(* still know what they knew.                                              *)
LEMMA StillKnows ==
  ASSUME FInv, RowStep, granted \subseteq granted', NEW d \in Dispatchers
  PROVE  WorkKnows(work[d], att', granted')
<1>1. \A a \in Attempts : Exists(att, a) => Exists(att', a)
  BY DEF RowStep, Exists, Open, Terminal, Failed
<1>2. WorkKnows(work[d], att, granted)
  BY DEF FInv
<1>3. \A a : Exists(att, a) => a \in Attempts
  BY DEF Exists
<1> QED BY <1>1, <1>2, <1>3 DEF WorkKnows

LEMMA SameRows == ASSUME TypeOK, UNCHANGED att PROVE RowStep
BY DEF TypeOK, RowStep

-----------------------------------------------------------------------------
(* A step of a dispatcher                                                  *)

LEMMA DispatcherStep ==
  ASSUME FInv, NEW d \in Dispatchers, UNCHANGED legal,
         response' \in [Requests -> Dispositions \cup {None}],
         notice' \in [Requests -> {"none", "pending", "approved"}],
         RowStep,
         done' \in [Attempts -> [era : 0..MaxGates, choice : Dispositions \cup {None}]],
         file' \subseteq granted,
         work' \in [Dispatchers -> WorkRow],
         \A e \in Dispatchers \ {d} : work'[e] = work[e],
         WorkKnows(work'[d], att', granted)
  PROVE  FInv'
<1>1. CallsKnow'
  BY DEF FInv, GatesInv, legal, CallsKnow
<1>2. GatesInv'
  <2>1. admin' \in [Admins -> Caller]
    BY DEF FInv, GatesInv, GatesTypeOK, legal, Caller
  <2>2. covered' \in [Requests -> BOOLEAN] /\ closed' \in [Requests -> BOOLEAN]
    BY DEF FInv, GatesInv, GatesTypeOK, legal
  <2> QED BY <1>1, <2>1, <2>2, GatesUntouched DEF FInv, legal
<1>3. TypeOK'
  <2>1. file' \subseteq Requests \X Dispositions
    BY DEF FInv, GatesInv, GatesTypeOK
  <2> QED BY <1>2, <2>1 DEF TypeOK, GatesInv, RowStep, WorkRow
<1>4. ApprovedIsGranted' /\ OnlyGranted'
  BY DEF FInv, ApprovedIsGranted, OnlyGranted, legal
<1>5. ASSUME NEW e \in Dispatchers PROVE WorkKnows(work'[e], att', granted')
  <2>1. granted' = granted
    BY DEF legal
  <2>2. CASE e = d
    BY <2>1, <2>2
  <2>3. CASE e # d
    BY <2>1, <2>3, StillKnows
  <2> QED BY <2>2, <2>3
<1> QED BY <1>2, <1>3, <1>4, <1>5 DEF FInv

(* The step of a dispatcher that writes nothing but its own state.         *)
LEMMA ReadingStep ==
  ASSUME FInv, NEW d \in Dispatchers,
         UNCHANGED <<rows, legal, response, notice, file>>,
         work' \in [Dispatchers -> WorkRow],
         \A e \in Dispatchers \ {d} : work'[e] = work[e],
         WorkKnows(work'[d], att, granted)
  PROVE  FInv' /\ RowStep
<1>1. RowStep
  BY SameRows DEF FInv, rows
<1>2. /\ response' \in [Requests -> Dispositions \cup {None}]
      /\ notice' \in [Requests -> {"none", "pending", "approved"}]
  BY DEF FInv, TypeOK, GatesTypeOK
<1>3. done' \in [Attempts -> [era : 0..MaxGates, choice : Dispositions \cup {None}]]
  BY DEF FInv, TypeOK, rows
<1>4. file' \subseteq granted
  BY DEF FInv, OnlyGranted
<1>5. WorkKnows(work'[d], att', granted)
  BY DEF rows
<1> QED BY <1>1, <1>2, <1>3, <1>4, <1>5, DispatcherStep

LEMMA WorkType ==
  ASSUME FInv, NEW d \in Dispatchers
  PROVE  /\ work \in [Dispatchers -> WorkRow] /\ work[d] \in WorkRow
         /\ WorkKnows(work[d], att, granted)
BY DEF FInv, TypeOK, WorkRow

LEMMA GoType ==
  ASSUME FInv, NEW d \in Dispatchers, NEW pc \in WorkAt, Go(d, pc)
  PROVE  /\ work' \in [Dispatchers -> WorkRow]
         /\ \A e \in Dispatchers \ {d} : work'[e] = work[e]
         /\ work'[d].pc = pc /\ work'[d].mode = work[d].mode
         /\ work'[d].r = work[d].r /\ work'[d].a = work[d].a
         /\ work'[d].choice = work[d].choice /\ work'[d].seen = work[d].seen
<1>1. work \in [Dispatchers -> WorkRow] /\ work[d] \in WorkRow
  BY WorkType
<1>2. work' = [work EXCEPT ![d] = [work[d] EXCEPT !.pc = pc]]
  BY <1>1 DEF Go
<1>3. [work[d] EXCEPT !.pc = pc] \in WorkRow
  BY <1>1 DEF WorkRow
<1>4. work'[d] = [work[d] EXCEPT !.pc = pc]
  BY <1>1, <1>2
<1> QED BY <1>1, <1>2, <1>3, <1>4 DEF WorkRow

LEMMA IdleKnows == ASSUME NEW t, NEW g PROVE Idle \in WorkRow /\ WorkKnows(Idle, t, g)
BY GatesAssumption DEF Idle, WorkRow, WorkAt, NoAttempt, WorkKnows, Holding, Decided

LEMMA ReturnType ==
  ASSUME FInv, NEW d \in Dispatchers, NEW t,
         Finish(d) \/ work' = [work EXCEPT ![d] = Idle]
  PROVE  /\ work' \in [Dispatchers -> WorkRow]
         /\ \A e \in Dispatchers \ {d} : work'[e] = work[e]
         /\ WorkKnows(work'[d], t, granted)
<1>1. work \in [Dispatchers -> WorkRow] /\ work[d] \in WorkRow
  BY WorkType
<1>2. CASE work' = [work EXCEPT ![d] = Idle]
  BY <1>1, <1>2, IdleKnows
<1>3. CASE Finish(d)
  <2> DEFINE new == [Idle EXCEPT !.pc = Rest[work[d].mode], !.mode = work[d].mode,
                                 !.todo = work[d].todo]
  <2>1. Rest[work[d].mode] \in WorkAt
    BY <1>1 DEF WorkRow, Rest, WorkAt
  <2>2. new \in WorkRow
    BY <1>1, <2>1, IdleKnows DEF WorkRow
  <2>3. WorkKnows(new, t, granted)
    BY <1>1 DEF WorkRow, WorkKnows, Idle, Rest, Holding, Decided
  <2>4. work' = [work EXCEPT ![d] = new]
    BY <1>3 DEF Finish
  <2> HIDE DEF new
  <2> QED BY <1>1, <2>2, <2>3, <2>4
<1> QED BY <1>2, <1>3

-----------------------------------------------------------------------------
(* Finding an item and asking about it                                     *)

LEMMA PostFInv ==
  ASSUME FInv, NEW d \in Dispatchers, Post(d)
  PROVE  FInv' /\ RowStep
<1>1. work \in [Dispatchers -> WorkRow] /\ work[d] \in WorkRow
  BY WorkType
<1>2. WorkKnows(work[d], att, granted)
  BY WorkType
<1>3. CASE FindReady(d)
  <2> DEFINE new == [Idle EXCEPT !.pc = "next", !.mode = "enqueue",
                                 !.todo = {r \in Requests : Ready(r)}]
  <2>1. new \in WorkRow
    BY IdleKnows DEF WorkRow, WorkAt
  <2>2. WorkKnows(new, att, granted)
    BY DEF WorkKnows, Idle, Holding, Decided
  <2>3. work' = [work EXCEPT ![d] = new]
    BY <1>3 DEF FindReady
  <2> HIDE DEF new
  <2> QED BY <1>1, <1>3, <2>1, <2>2, <2>3, ReadingStep DEF FindReady
<1>4. ASSUME NEW r \in Requests, FulfillOne(d, r) PROVE FInv' /\ RowStep
  <2> DEFINE new == [work[d] EXCEPT !.pc = "review", !.r = r]
  <2>1. new \in WorkRow
    BY <1>1 DEF WorkRow, WorkAt
  <2>2. WorkKnows(new, att, granted)
    BY <1>1, <1>2, <1>4 DEF FulfillOne, WorkKnows, WorkRow, Holding, Decided
  <2>3. work' = [work EXCEPT ![d] = new]
    BY <1>1, <1>4 DEF FulfillOne
  <2> HIDE DEF new
  <2>4. /\ work' \in [Dispatchers -> WorkRow] /\ work'[d] = new
        /\ \A e \in Dispatchers \ {d} : work'[e] = work[e]
    BY <1>1, <2>1, <2>3
  <2> QED BY <1>4, <2>2, <2>4, ReadingStep DEF FulfillOne
<1> QED BY <1>3, <1>4 DEF Post

LEMMA NextReadyFInv ==
  ASSUME FInv, NEW d \in Dispatchers, NextReady(d)
  PROVE  FInv' /\ RowStep
<1>1. /\ work \in [Dispatchers -> WorkRow] /\ work[d] \in WorkRow
      /\ WorkKnows(work[d], att, granted)
  BY WorkType
<1>2. CASE work' = [work EXCEPT ![d].pc = "claim", ![d].mode = "run"]
  <2> DEFINE new == [work[d] EXCEPT !.pc = "claim", !.mode = "run"]
  <2>1. new \in WorkRow
    BY <1>1 DEF WorkRow, WorkAt
  <2>2. WorkKnows(new, att, granted)
    BY <1>1 DEF WorkKnows, WorkRow, Holding, Decided
  <2>3. work' = [work EXCEPT ![d] = new]
    BY <1>1, <1>2
  <2> HIDE DEF new
  <2> QED BY <1>1, <2>1, <2>2, <2>3, ReadingStep DEF NextReady
<1>3. ASSUME NEW r \in work[d].todo,
             work' = [work EXCEPT ![d].pc = "review", ![d].r = r, ![d].todo = @ \ {r}]
      PROVE  FInv' /\ RowStep
  <2> DEFINE new == [work[d] EXCEPT !.pc = "review", !.r = r, !.todo = @ \ {r}]
  <2>1. r \in Requests /\ work[d].todo \ {r} \in SUBSET Requests
    BY <1>1 DEF WorkRow
  <2>2. new \in WorkRow
    BY <1>1, <2>1 DEF WorkRow, WorkAt
  <2>3. WorkKnows(new, att, granted)
    BY <1>1, <2>1 DEF NextReady, WorkKnows, WorkRow, Holding, Decided
  <2>4. work' = [work EXCEPT ![d] = new]
    BY <1>1, <1>3
  <2> HIDE DEF new
  <2> QED BY <1>1, <2>2, <2>3, <2>4, ReadingStep DEF NextReady
<1> QED BY <1>2, <1>3 DEF NextReady

LEMMA ClaimedRow ==
  ASSUME TypeOK, NEW a \in Attempts, NEW w \in Workers, Claimable(att[a]),
         att' = [att EXCEPT ![a] = ClaimedBy(att[a], w)]
  PROVE  RowStep
<1>1. ClaimedBy(att[a], w) \in Row /\ ClaimedBy(att[a], w).status = "claimed"
  <2>1. att[a] \in Row
    BY DEF TypeOK
  <2> QED BY <2>1 DEF ClaimedBy, Row, Open, Deadline
<1>2. att[a].status \in Open
  BY DEF Claimable, Open
<1> QED BY <1>1, <1>2 DEF TypeOK, RowStep, Open

LEMMA ClaimFInv ==
  ASSUME FInv, NEW d \in Dispatchers, Claim(d)
  PROVE  FInv' /\ RowStep
<1>1. /\ work \in [Dispatchers -> WorkRow] /\ work[d] \in WorkRow
      /\ WorkKnows(work[d], att, granted)
  BY WorkType
<1>2. CASE work' = [work EXCEPT ![d] = Idle] /\ UNCHANGED att
  BY <1>2, ReturnType, ReadingStep DEF Claim, rows
<1>3. ASSUME NEW a \in Attempts, Claimable(att[a]), NEW w \in Workers,
             att' = [att EXCEPT ![a] = ClaimedBy(att[a], w)],
             work' = [work EXCEPT ![d].pc = "review", ![d].r = a[1], ![d].a = a]
      PROVE  FInv' /\ RowStep
  <2> DEFINE new == [work[d] EXCEPT !.pc = "review", !.r = a[1], !.a = a]
  <2>1. RowStep
    BY <1>3, ClaimedRow DEF FInv
  <2>2. new \in WorkRow
    BY <1>1, AttemptParts DEF WorkRow, WorkAt
  <2>3. WorkKnows(new, att', granted)
    BY <1>1, AttemptParts DEF WorkKnows, WorkRow, Holding, Decided
  <2>4. work' = [work EXCEPT ![d] = new]
    BY <1>1, <1>3
  <2> HIDE DEF new
  <2>5. work' \in [Dispatchers -> WorkRow] /\ work'[d] = new
        /\ \A e \in Dispatchers \ {d} : work'[e] = work[e]
    BY <1>1, <2>2, <2>4
  <2>6. /\ UNCHANGED <<done, legal, response, notice, file>>
        /\ file \subseteq granted
    BY DEF Claim, FInv, OnlyGranted
  <2> QED BY <2>1, <2>3, <2>5, <2>6, DispatcherStep DEF FInv, TypeOK, GatesTypeOK
<1> QED BY <1>2, <1>3 DEF Claim

LEMMA ReviewFInv ==
  ASSUME FInv, NEW d \in Dispatchers, Review(d)
  PROVE  FInv' /\ RowStep
<1>1. WorkKnows(work[d], att, granted)
  BY WorkType
<1>2. CASE Go(d, "gate")
  <2>1. /\ work' \in [Dispatchers -> WorkRow]
        /\ \A e \in Dispatchers \ {d} : work'[e] = work[e]
        /\ work'[d].pc = "gate" /\ work'[d].mode = work[d].mode
        /\ work'[d].r = work[d].r /\ work'[d].a = work[d].a
        /\ work'[d].choice = work[d].choice /\ work'[d].seen = work[d].seen
    BY <1>2, GoType DEF WorkAt
  <2>2. WorkKnows(work'[d], att, granted)
    BY <1>1, <2>1 DEF Review, WorkKnows, Holding, Decided
  <2> QED BY <2>1, <2>2, ReadingStep DEF Review
<1>3. CASE Finish(d)
  BY <1>3, ReturnType, ReadingStep DEF Review
<1> QED BY <1>2, <1>3 DEF Review

LEMMA GateFInv ==
  ASSUME FInv, NEW d \in Dispatchers, Gate(d)
  PROVE  FInv' /\ RowStep
<1>1. /\ work \in [Dispatchers -> WorkRow] /\ work[d] \in WorkRow
      /\ WorkKnows(work[d], att, granted)
  BY WorkType
<1> DEFINE r == work[d].r
<1>2. r \in Requests
  BY <1>1 DEF Gate, WorkKnows
<1>3. CASE KickedOff(r)
  <2> DEFINE pc == IF work[d].mode = "run" THEN "begin" ELSE "block"
             new == [work[d] EXCEPT !.choice = decision[r], !.since = era[r], !.pc = pc]
  <2>1. <<r, decision[r]>> \in granted
    BY <1>2, <1>3 DEF KickedOff, FInv, ApprovedIsGranted
  <2>2. /\ decision[r] \in Dispositions \cup {None} /\ era[r] \in 0..MaxGates
        /\ pc \in WorkAt
    BY <1>2 DEF FInv, TypeOK, GatesTypeOK, WorkAt
  <2>3. new \in WorkRow
    BY <1>1, <2>2 DEF WorkRow
  <2>4. /\ new.pc = pc /\ new.mode = work[d].mode /\ new.r = r /\ new.a = work[d].a
        /\ new.choice = decision[r] /\ new.seen = work[d].seen
    BY <1>1 DEF WorkRow
  <2>5. WorkKnows(new, att, granted)
    BY <1>1, <1>2, <2>1, <2>4 DEF Gate, WorkKnows, Holding, Decided
  <2>6. work' = [work EXCEPT ![d] = new]
    BY <1>1, <1>3 DEF Gate
  <2> HIDE DEF new
  <2> QED BY <1>1, <2>3, <2>5, <2>6, ReadingStep DEF Gate
<1>4. CASE ~KickedOff(r)
  BY <1>4, ReturnType, ReadingStep DEF Gate
<1> QED BY <1>3, <1>4

LEMMA BlockFInv ==
  ASSUME FInv, NEW d \in Dispatchers, Block(d)
  PROVE  FInv' /\ RowStep
<1>1. CASE Go(d, "number")
  <2>1. WorkKnows(work[d], att, granted)
    BY WorkType
  <2>2. /\ work' \in [Dispatchers -> WorkRow]
        /\ \A e \in Dispatchers \ {d} : work'[e] = work[e]
        /\ work'[d].pc = "number" /\ work'[d].mode = work[d].mode
        /\ work'[d].r = work[d].r /\ work'[d].a = work[d].a
        /\ work'[d].choice = work[d].choice /\ work'[d].seen = work[d].seen
    BY <1>1, GoType DEF WorkAt
  <2>3. WorkKnows(work'[d], att, granted)
    BY <2>1, <2>2 DEF Block, WorkKnows, Holding, Decided
  <2> QED BY <2>2, <2>3, ReadingStep DEF Block
<1>2. CASE Finish(d)
  BY <1>2, ReturnType, ReadingStep DEF Block
<1> QED BY <1>1, <1>2 DEF Block

-----------------------------------------------------------------------------
(* Working on an attempt                                                   *)

LEMMA NumberFInv ==
  ASSUME FInv, NEW d \in Dispatchers, Number(d)
  PROVE  FInv' /\ RowStep
<1>1. /\ work \in [Dispatchers -> WorkRow] /\ work[d] \in WorkRow
      /\ WorkKnows(work[d], att, granted)
  BY WorkType
<1>2. PICK a \in Attempts :
        /\ IsNext(att, a)
        /\ work' = [work EXCEPT ![d].pc = "insert", ![d].a = a]
  BY DEF Number, Of
<1> DEFINE new == [work[d] EXCEPT !.pc = "insert", !.a = a]
<1>3. new \in WorkRow
  BY <1>1 DEF WorkRow, WorkAt
<1>4. WorkKnows(new, att, granted)
  <2>1. a[2] > 1 => Exists(att, Prev1(a))
    BY <1>2 DEF IsNext
  <2> QED BY <1>1, <2>1 DEF Number, WorkKnows, WorkRow, Holding, Decided
<1>5. work' = [work EXCEPT ![d] = new]
  BY <1>1, <1>2
<1> HIDE DEF new
<1> QED BY <1>1, <1>3, <1>4, <1>5, ReadingStep DEF Number

(* One row is written, and the call goes on or returns.                    *)
LEMMA MovedRow ==
  ASSUME TypeOK, NEW a \in Attempts, NEW row \in Row, att' = [att EXCEPT ![a] = row],
         \/ row.status = att[a].status
         \/ att[a].status \in Open /\ row.status \in Open \cup Terminal
         \/ /\ att[a].status = "absent" /\ row.status = "pending"
            /\ a[2] > 1 => Exists(att, Prev1(a))
  PROVE  RowStep
BY DEF TypeOK, RowStep

LEMMA RowFInv ==
  ASSUME FInv, NEW d \in Dispatchers, RowStep,
         UNCHANGED <<done, legal, response, notice, file>>,
         \/ Finish(d)
         \/ work' = [work EXCEPT ![d] = Idle]
         \/ \E pc \in WorkAt :
              /\ Go(d, pc) /\ pc \notin {"idle", "next", "insert"}
              /\ work[d].pc \in Holding
  PROVE  FInv'
<1>1. WorkKnows(work[d], att, granted)
  BY WorkType
<1>2. /\ work' \in [Dispatchers -> WorkRow]
      /\ \A e \in Dispatchers \ {d} : work'[e] = work[e]
      /\ WorkKnows(work'[d], att', granted)
  <2>1. CASE Finish(d) \/ work' = [work EXCEPT ![d] = Idle]
    BY <2>1, ReturnType
  <2>2. ASSUME NEW pc \in WorkAt, Go(d, pc), pc \notin {"idle", "next", "insert"},
               work[d].pc \in Holding
        PROVE  /\ work' \in [Dispatchers -> WorkRow]
               /\ \A e \in Dispatchers \ {d} : work'[e] = work[e]
               /\ WorkKnows(work'[d], att', granted)
    <3>1. /\ work' \in [Dispatchers -> WorkRow]
          /\ \A e \in Dispatchers \ {d} : work'[e] = work[e]
          /\ work'[d].pc = pc /\ work'[d].mode = work[d].mode
          /\ work'[d].r = work[d].r /\ work'[d].a = work[d].a
          /\ work'[d].choice = work[d].choice /\ work'[d].seen = work[d].seen
      BY <2>2, GoType
    <3>2. WorkKnows(work'[d], att', granted)
      BY <1>1, <2>2, <3>1 DEF WorkKnows, Holding, Decided
    <3> QED BY <3>1, <3>2
  <2> QED BY <2>1, <2>2
<1>3. file \subseteq granted
  BY DEF FInv, OnlyGranted
<1> QED BY <1>2, <1>3, DispatcherStep DEF FInv, TypeOK, GatesTypeOK

LEMMA InsertFInv ==
  ASSUME FInv, NEW d \in Dispatchers, Insert(d)
  PROVE  FInv' /\ RowStep
<1> DEFINE a == work[d].a
<1>1. WorkKnows(work[d], att, granted)
  BY WorkType
<1>2. a \in Attempts /\ work[d].pc \in Holding /\ (a[2] > 1 => Exists(att, Prev1(a)))
  BY <1>1 DEF Insert, WorkKnows, Holding
<1>3. CASE Taken(a)
  <2>1. RowStep
    BY <1>3, SameRows DEF Insert, FInv
  <2> QED BY <1>3, <2>1, RowFInv DEF Insert
<1>4. CASE ~Taken(a)
  <2>1. NewRow("pending", "unset") \in Row /\ NewRow("pending", "unset").status = "pending"
    BY NewRowType DEF Open, Deadline
  <2>2. att[a].status = "absent"
    BY <1>2, <1>4 DEF Taken, Exists
  <2>3. att' = [att EXCEPT ![a] = NewRow("pending", "unset")]
    BY <1>4 DEF Insert
  <2>4. RowStep
    BY <1>2, <2>1, <2>2, <2>3, MovedRow DEF FInv
  <2>5. Go(d, "claim_id") \/ Finish(d)
    BY <1>4 DEF Insert
  <2> QED BY <1>2, <2>4, <2>5, RowFInv DEF Insert, WorkAt
<1> QED BY <1>3, <1>4

LEMMA ClaimByIdFInv ==
  ASSUME FInv, NEW d \in Dispatchers, ClaimById(d)
  PROVE  FInv' /\ RowStep
<1>1. WorkKnows(work[d], att, granted)
  BY WorkType
<1>2. work[d].a \in Attempts /\ work[d].pc \in Holding
  BY <1>1 DEF ClaimById, WorkKnows, Holding
<1>3. CASE Claimable(att[work[d].a])
  <2>1. PICK w \in Workers :
          att' = [att EXCEPT ![work[d].a] = ClaimedBy(att[work[d].a], w)]
    BY <1>3 DEF ClaimById
  <2>2. RowStep
    BY <1>2, <1>3, <2>1, ClaimedRow DEF FInv
  <2> QED BY <1>2, <1>3, <2>2, RowFInv DEF ClaimById, WorkAt
<1>4. CASE ~Claimable(att[work[d].a])
  <2>1. RowStep
    BY <1>4, SameRows DEF ClaimById, FInv
  <2> QED BY <1>4, <2>1, RowFInv DEF ClaimById
<1> QED BY <1>3, <1>4

LEMMA BeginFInv ==
  ASSUME FInv, NEW d \in Dispatchers, Begin(d)
  PROVE  FInv' /\ RowStep
<1> DEFINE a == work[d].a
           row == IF att[a].status = "claimed" THEN InFlight(att[a]) ELSE att[a]
<1>1. WorkKnows(work[d], att, granted)
  BY WorkType
<1>2. a \in Attempts /\ work[d].pc \in Holding
  BY <1>1 DEF Begin, WorkKnows, Holding
<1>3. att[a] \in Row
  BY <1>2 DEF FInv, TypeOK
<1>4. row \in Row /\ (row = att[a] \/ (att[a].status \in Open /\ row.status \in Open))
  <2>1. InFlight(att[a]) \in Row /\ InFlight(att[a]).status = "in_flight"
    BY <1>3, InFlightType
  <2>2. CASE att[a].status = "claimed"
    BY <2>1, <2>2 DEF Open
  <2>3. CASE att[a].status # "claimed"
    BY <1>3, <2>3
  <2> QED BY <2>2, <2>3
<1>5. att' = [att EXCEPT ![a] = row]
  BY DEF Begin
<1> HIDE DEF row
<1>6. RowStep
  BY <1>2, <1>4, <1>5, MovedRow DEF FInv
<1> QED BY <1>2, <1>6, RowFInv DEF Begin, WorkAt

LEMMA MarkErrorFInv ==
  ASSUME FInv, NEW d \in Dispatchers, MarkError(d)
  PROVE  FInv' /\ RowStep
<1> DEFINE a == work[d].a
           row == IF att[a].status \in Open
                    THEN NewRow("outcome_error", att[a].retry) ELSE att[a]
<1>1. WorkKnows(work[d], att, granted)
  BY WorkType
<1>2. a \in Attempts /\ work[d].pc \in Holding
  BY <1>1 DEF MarkError, WorkKnows, Holding
<1>3. att[a] \in Row /\ att[a].retry \in Deadline
  BY <1>2 DEF FInv, TypeOK, Row
<1>4. row \in Row /\ (row = att[a] \/ (att[a].status \in Open /\ row.status \in Terminal))
  <2> DEFINE new == NewRow("outcome_error", att[a].retry)
  <2>1. new \in Row /\ new.status = "outcome_error"
    BY <1>3, NewRowType DEF Terminal, Failed
  <2> HIDE DEF new
  <2>2. CASE att[a].status \in Open
    <3>1. row = new
      BY <2>2 DEF new
    <3> QED BY <2>1, <2>2, <3>1 DEF Terminal, Failed
  <2>3. CASE att[a].status \notin Open
    BY <1>3, <2>3
  <2> QED BY <2>2, <2>3
<1>5. att' = [att EXCEPT ![a] = row]
  BY DEF MarkError
<1> HIDE DEF row
<1>6. RowStep
  BY <1>2, <1>4, <1>5, MovedRow DEF FInv
<1> QED BY <1>2, <1>6, RowFInv DEF MarkError

(* The suppression file: what is written is what was read, all of it       *)
(* granted, and the disposition in hand, granted when it was loaded.       *)
LEMMA ReadFileFInv ==
  ASSUME FInv, NEW d \in Dispatchers, ReadFile(d)
  PROVE  FInv' /\ RowStep
<1>1. /\ work \in [Dispatchers -> WorkRow] /\ work[d] \in WorkRow
      /\ WorkKnows(work[d], att, granted)
  BY WorkType
<1>2. work[d].pc \in Holding
  BY DEF ReadFile, Holding
<1>3. CASE work' = [work EXCEPT ![d].pc = "write", ![d].seen = file]
  <2> DEFINE new == [work[d] EXCEPT !.pc = "write", !.seen = file]
  <2>1. file \subseteq granted /\ file \in SUBSET (Requests \X Dispositions)
    BY DEF FInv, OnlyGranted, TypeOK
  <2>2. new \in WorkRow
    BY <1>1, <2>1 DEF WorkRow, WorkAt
  <2>3. WorkKnows(new, att, granted)
    BY <1>1, <1>2, <2>1 DEF WorkKnows, WorkRow, Holding, Decided
  <2>4. work' = [work EXCEPT ![d] = new]
    BY <1>1, <1>3
  <2> HIDE DEF new
  <2> QED BY <1>1, <2>2, <2>3, <2>4, ReadingStep DEF ReadFile
<1>4. ASSUME Go(d, "error") \/ Go(d, "sync") PROVE FInv' /\ RowStep
  <2>1. RowStep
    BY SameRows DEF ReadFile, rows, FInv
  <2> QED BY <1>2, <1>4, <2>1, RowFInv DEF ReadFile, rows, WorkAt
<1> QED BY <1>3, <1>4 DEF ReadFile

LEMMA WriteFileFInv ==
  ASSUME FInv, NEW d \in Dispatchers, WriteFile(d)
  PROVE  FInv' /\ RowStep
<1>1. /\ work \in [Dispatchers -> WorkRow] /\ work[d] \in WorkRow
      /\ WorkKnows(work[d], att, granted)
  BY WorkType
<1>2. work[d].pc = "write" /\ <<work[d].r, work[d].choice>> \in granted
      /\ work[d].seen \subseteq granted
  BY <1>1 DEF WriteFile, WorkKnows, Holding, Decided
<1>3. file' \subseteq granted
  BY <1>2 DEF WriteFile, Merged, FInv, OnlyGranted
<1>4. PICK pc \in {"sync", "error"} :
        work' = [work EXCEPT ![d].pc = pc, ![d].seen = {}]
  BY DEF WriteFile
<1> DEFINE new == [work[d] EXCEPT !.pc = pc, !.seen = {}]
<1>5. new \in WorkRow
  BY <1>1 DEF WorkRow, WorkAt
<1>6. WorkKnows(new, att, granted)
  BY <1>1, <1>2 DEF WorkKnows, WorkRow, Holding, Decided
<1>7. work' = [work EXCEPT ![d] = new]
  BY <1>1, <1>4
<1> HIDE DEF new
<1>8. RowStep /\ att' = att /\ done' = done
  BY SameRows DEF WriteFile, rows, FInv
<1>9. work' \in [Dispatchers -> WorkRow] /\ work'[d] = new
      /\ \A e \in Dispatchers \ {d} : work'[e] = work[e]
  BY <1>1, <1>5, <1>7
<1>10. UNCHANGED <<legal, response, notice>>
  BY DEF WriteFile
<1> QED BY <1>3, <1>6, <1>8, <1>9, <1>10, DispatcherStep DEF FInv, TypeOK, GatesTypeOK

LEMMA SyncStatusFInv ==
  ASSUME FInv, NEW d \in Dispatchers, SyncStatus(d)
  PROVE  FInv' /\ RowStep
<1>1. /\ work[d] \in WorkRow /\ WorkKnows(work[d], att, granted)
  BY WorkType
<1>2. /\ work' \in [Dispatchers -> WorkRow]
      /\ \A e \in Dispatchers \ {d} : work'[e] = work[e]
      /\ work'[d].pc = "success" /\ work'[d].mode = work[d].mode
      /\ work'[d].r = work[d].r /\ work'[d].a = work[d].a
      /\ work'[d].choice = work[d].choice /\ work'[d].seen = work[d].seen
  BY GoType DEF SyncStatus, WorkAt
<1>3. WorkKnows(work'[d], att, granted)
  BY <1>1, <1>2 DEF SyncStatus, WorkKnows, Holding, Decided
<1>4. response' \in [Requests -> Dispositions \cup {None}]
  <2>1. work[d].r \in Requests /\ work[d].choice \in Dispositions \cup {None}
    BY <1>1 DEF SyncStatus, WorkKnows, WorkRow
  <2> QED BY <2>1 DEF SyncStatus, FInv, TypeOK, GatesTypeOK
<1>5. RowStep /\ att' = att /\ done' = done
  BY SameRows DEF SyncStatus, rows, FInv
<1>6. UNCHANGED <<legal, notice, file>> /\ file \subseteq granted
  BY DEF SyncStatus, FInv, OnlyGranted
<1> QED BY <1>2, <1>3, <1>4, <1>5, <1>6, DispatcherStep DEF FInv, TypeOK, GatesTypeOK

LEMMA MarkSuccessFInv ==
  ASSUME FInv, NEW d \in Dispatchers, MarkSuccess(d)
  PROVE  FInv' /\ RowStep
<1> DEFINE a == work[d].a
           new == [era |-> era[a[1]], choice |-> work[d].choice]
<1>1. /\ work[d] \in WorkRow /\ WorkKnows(work[d], att, granted)
  BY WorkType
<1>2. a \in Attempts
  BY <1>1 DEF MarkSuccess, WorkKnows, Holding
<1>3. new \in [era : 0..MaxGates, choice : Dispositions \cup {None}]
  <2>1. era[a[1]] \in 0..MaxGates
    BY <1>2, AttemptParts DEF FInv, TypeOK, GatesTypeOK
  <2> QED BY <1>1, <2>1 DEF WorkRow
<1>4. RowStep /\ done' \in [Attempts -> [era : 0..MaxGates, choice : Dispositions \cup {None}]]
  <2>1. CASE att[a].status \in Open
    <3>1. att[a].retry \in Deadline
      BY <1>2 DEF FInv, TypeOK, Row
    <3>2. /\ NewRow("success", att[a].retry) \in Row
          /\ NewRow("success", att[a].retry).status = "success"
      BY <3>1, NewRowType DEF Terminal
    <3>3. att' = [att EXCEPT ![a] = NewRow("success", att[a].retry)]
      BY <2>1 DEF MarkSuccess
    <3>4. RowStep
      BY <1>2, <2>1, <3>2, <3>3, MovedRow DEF FInv, Terminal
    <3>5. done' = [done EXCEPT ![a] = new]
      BY <2>1 DEF MarkSuccess
    <3> HIDE DEF new
    <3> QED BY <1>3, <3>4, <3>5 DEF FInv, TypeOK
  <2>2. CASE att[a].status \notin Open
    BY <2>2, SameRows DEF MarkSuccess, rows, FInv, TypeOK
  <2> QED BY <2>1, <2>2
<1>5. /\ work' \in [Dispatchers -> WorkRow]
      /\ \A e \in Dispatchers \ {d} : work'[e] = work[e]
      /\ work'[d].pc = "notice" /\ work'[d].mode = work[d].mode
      /\ work'[d].r = work[d].r /\ work'[d].a = work[d].a
      /\ work'[d].choice = work[d].choice /\ work'[d].seen = work[d].seen
  BY GoType DEF MarkSuccess, WorkAt
<1>6. WorkKnows(work'[d], att', granted)
  BY <1>1, <1>5 DEF MarkSuccess, WorkKnows, Holding, Decided
<1>7. UNCHANGED <<legal, response, notice, file>> /\ file \subseteq granted
  BY DEF MarkSuccess, FInv, OnlyGranted
<1> QED BY <1>4, <1>5, <1>6, <1>7, DispatcherStep DEF FInv, TypeOK, GatesTypeOK

LEMMA EnsureNoticeFInv ==
  ASSUME FInv, NEW d \in Dispatchers, EnsureNotice(d)
  PROVE  FInv' /\ RowStep
<1>1. RowStep /\ att' = att /\ done' = done
  BY SameRows DEF EnsureNotice, rows, FInv
<1>2. notice' \in [Requests -> {"none", "pending", "approved"}]
  BY DEF EnsureNotice, WithNotice, FInv, TypeOK, GatesTypeOK
<1>3. /\ work' \in [Dispatchers -> WorkRow]
      /\ \A e \in Dispatchers \ {d} : work'[e] = work[e]
      /\ WorkKnows(work'[d], att', granted)
  BY ReturnType DEF EnsureNotice
<1>4. UNCHANGED <<legal, response, file>> /\ file \subseteq granted
  BY DEF EnsureNotice, FInv, OnlyGranted
<1> QED BY <1>1, <1>2, <1>3, <1>4, DispatcherStep DEF FInv, TypeOK, GatesTypeOK

LEMMA CrashFInv ==
  ASSUME FInv, NEW d \in Dispatchers, Crash(d)
  PROVE  FInv' /\ RowStep
BY ReturnType, ReadingStep DEF Crash

-----------------------------------------------------------------------------
(* The reaper and the clocks touch only the table, the admin calls only    *)
(* the gates and, in a reopen, the open rows.                              *)

LEMMA AroundFInv ==
  ASSUME FInv, RowStep, UNCHANGED <<done, file, work>>, GatesInv', ApprovedIsGranted',
         granted \subseteq granted'
  PROVE  FInv'
<1>1. TypeOK'
  BY DEF FInv, TypeOK, GatesInv, RowStep
<1>2. \A d \in Dispatchers : WorkKnows(work'[d], att', granted')
  BY StillKnows
<1>3. OnlyGranted'
  BY DEF FInv, OnlyGranted
<1> QED BY <1>1, <1>2, <1>3 DEF FInv

LEMMA TableFInv ==
  ASSUME FInv, RowStep,
         UNCHANGED <<done, legal, response, notice, file, work>>
  PROVE  FInv'
<1>1. ApprovedIsGranted' /\ granted \subseteq granted'
  BY DEF FInv, ApprovedIsGranted, legal
<1>2. CallsKnow'
  BY DEF FInv, GatesInv, CallsKnow, legal
<1>3. GatesInv'
  BY <1>2, GatesUntouched DEF FInv, GatesInv, GatesTypeOK, legal, Caller
<1> QED BY <1>1, <1>3, AroundFInv

LEMMA ReapFInv ==
  ASSUME FInv, Reap
  PROVE  FInv' /\ RowStep
<1>1. att \in [Attempts -> Row] /\ att' = Swept(att) /\ ~SweepRaises(att)
  BY DEF Reap, FInv, TypeOK
<1>2. \A a \in Attempts : NewRow("timeout", att[a].retry).status = "timeout"
  BY DEF NewRow
<1>3. NewRow("pending", "ahead").status = "pending"
  BY DEF NewRow
<1>4. ASSUME NEW a \in Attempts
      PROVE  \/ att'[a].status = att[a].status
             \/ att[a].status \in Open /\ att'[a].status \in Open \cup Terminal
             \/ /\ att[a].status = "absent" /\ att'[a].status = "pending"
                /\ a[2] > 1 => Exists(att, Prev1(a))
  BY <1>1, <1>2, <1>3, SweepStep DEF Exists, Failed, Open, Terminal
<1>5. RowStep
  BY <1>1, <1>4, SweepType DEF RowStep
<1> QED BY <1>5, TableFInv DEF Reap

LEMMA PassFInv ==
  ASSUME FInv, NEW a \in Attempts, Pass(a)
  PROVE  FInv' /\ RowStep
<1>1. att \in [Attempts -> Row]
  BY DEF FInv, TypeOK
<1>2. /\ att' \in [Attempts -> Row]
      /\ \A b \in Attempts : att'[b].status = att[b].status
  BY <1>1 DEF Pass, Row, Deadline
<1>3. RowStep
  BY <1>2 DEF RowStep
<1> QED BY <1>3, TableFInv DEF Pass

(* Whatever Legal does, what stands approved has been granted.             *)
LEMMA ApproveGrants ==
  ASSUME GatesInv, ApprovedIsGranted, NEW r \in Requests, NEW g, ApproveGate(r, g),
         UNCHANGED decision
  PROVE  ApprovedIsGranted' /\ granted \subseteq granted'
<1>1. CASE g \in gates[r].pending
  BY <1>1 DEF ApproveGate, ApprovedIsGranted, GatesInv, GatesTypeOK
<1>2. CASE g \notin gates[r].pending
  BY <1>2 DEF ApproveGate, ApprovedIsGranted
<1> QED BY <1>1, <1>2

LEMMA GatesStepGrants ==
  ASSUME GatesInv, ApprovedIsGranted, GatesStep
  PROVE  ApprovedIsGranted' /\ granted \subseteq granted'
<1> USE DEF GatesInv
<1>1. \A p \in Admins : ~At(p, "idle") => admin[p].r \in Requests
  BY DEF CallsKnow, At
<1>2. CASE UNCHANGED <<decision, gates, granted>>
  BY <1>2 DEF ApprovedIsGranted
<1>3. ASSUME NEW p \in Admins, EditWrite(p)
      PROVE  ApprovedIsGranted' /\ granted \subseteq granted'
  <2>1. admin[p].r \in Requests
    BY <1>1, <1>3 DEF EditWrite, At
  <2> QED BY <1>3, <2>1 DEF EditWrite, ApprovedIsGranted, GatesTypeOK
<1>4. ASSUME NEW p \in Admins, KickOpen(p)
      PROVE  ApprovedIsGranted' /\ granted \subseteq granted'
  <2>1. \A r \in Requests : gates'[r].approved = gates[r].approved
    BY <1>4 DEF KickOpen, GatesTypeOK
  <2> QED BY <1>4, <2>1 DEF KickOpen, ApprovedIsGranted
<1>5. ASSUME NEW p \in Admins, KickDecide(p)
      PROVE  ApprovedIsGranted' /\ granted \subseteq granted'
  <2>1. admin[p].r \in Requests
    BY <1>1, <1>5 DEF KickDecide, At
  <2> QED BY <1>5, <2>1, ApproveGrants DEF KickDecide
<1>6. ASSUME NEW r \in Requests, NEW g \in 1..MaxGates, DecideKickoff(r, g)
      PROVE  ApprovedIsGranted' /\ granted \subseteq granted'
  <2>1. CASE ApproveGate(r, g)
    BY <1>6, <2>1, ApproveGrants DEF DecideKickoff
  <2>2. CASE /\ gates' = [gates EXCEPT ![r].pending = @ \ {g}]
             /\ UNCHANGED <<era, granted>>
    BY <1>6, <2>2 DEF DecideKickoff, ApprovedIsGranted, GatesTypeOK
  <2> QED BY <1>6, <2>1, <2>2 DEF DecideKickoff
<1>7. ASSUME NEW p \in Admins, NEW r \in Requests, Reopen(p, r)
      PROVE  ApprovedIsGranted' /\ granted \subseteq granted'
  BY <1>7 DEF Reopen, ApprovedIsGranted, GatesTypeOK
<1>8. ASSUME NEW p \in Admins, CloseClear(p)
      PROVE  ApprovedIsGranted' /\ granted \subseteq granted'
  BY <1>8 DEF CloseClear, ApprovedIsGranted, GatesTypeOK
<1>9. ASSUME NEW p \in Admins, Continue(p)
      PROVE  \/ UNCHANGED <<decision, gates, granted>> \/ EditWrite(p)
             \/ KickOpen(p) \/ KickDecide(p) \/ CloseClear(p)
  BY <1>9 DEF Continue, EditLock, EditMirror, KickCheck, KickEnsure, KickPick,
              ReopenAbandon, ReopenNotices
<1>10. ASSUME NEW p \in Admins, NEW r \in Requests, Begins(p, r)
       PROVE  UNCHANGED <<decision, gates, granted>> \/ Reopen(p, r)
  BY <1>10 DEF Begins, Edit, Kick, Close
<1>11. ASSUME NEW p \in Admins, Die(p) PROVE UNCHANGED <<decision, gates, granted>>
  BY <1>11 DEF Die
<1>12. ASSUME NEW r \in Requests,
              ApproveReview(r) \/ NewResult(r) \/ Rematch(r) \/ ApproveNotice(r)
       PROVE  UNCHANGED <<decision, gates, granted>>
  BY <1>12 DEF ApproveReview, NewResult, Rematch, ApproveNotice
<1> HIDE DEF GatesInv
<1> QED BY <1>2, <1>3, <1>4, <1>5, <1>6, <1>7, <1>8, <1>9, <1>10, <1>11, <1>12
        DEF GatesStep

LEMMA GatesStepRows ==
  ASSUME TypeOK, GatesStep
  PROVE  RowStep
<1>1. CASE UNCHANGED att
  BY <1>1, SameRows
<1>2. ASSUME NEW p \in Admins, ReopenAbandon(p) PROVE RowStep
  <2>1. ASSUME NEW a \in Attempts
        PROVE  /\ att'[a] \in Row
               /\ \/ att'[a] = att[a]
                  \/ att[a].status \in Open /\ att'[a].status = "abandoned"
    <3>1. att[a] \in Row /\ att[a].retry \in Deadline
      BY DEF TypeOK, Row
    <3>2. /\ NewRow("abandoned", att[a].retry) \in Row
          /\ NewRow("abandoned", att[a].retry).status = "abandoned"
      BY <3>1, NewRowType DEF Terminal
    <3>3. att'[a] = att[a] \/ (a \in Superseded(admin[p].r)
                              /\ att'[a] = NewRow("abandoned", att[a].retry))
      BY <1>2 DEF ReopenAbandon
    <3> QED BY <3>1, <3>2, <3>3 DEF Superseded
  <2>2. att' \in [Attempts -> Row]
    BY <1>2, <2>1 DEF ReopenAbandon
  <2> QED BY <2>1, <2>2 DEF RowStep, Terminal
<1>3. UNCHANGED att \/ \E p \in Admins : ReopenAbandon(p)
  <2>1. ASSUME NEW p \in Admins, Continue(p) PROVE UNCHANGED att \/ ReopenAbandon(p)
    BY <2>1 DEF Continue, EditLock, EditWrite, EditMirror, KickCheck, KickEnsure,
                KickOpen, KickPick, KickDecide, ReopenNotices, CloseClear
  <2>2. ASSUME NEW p \in Admins, NEW r \in Requests, Begins(p, r) \/ Die(p)
        PROVE  UNCHANGED att
    BY <2>2 DEF Begins, Edit, Kick, Reopen, Close, Die
  <2>3. ASSUME NEW p \in Admins, Die(p) PROVE UNCHANGED att
    BY <2>3 DEF Die
  <2>4. ASSUME NEW r \in Requests, NEW g \in 1..MaxGates, DecideKickoff(r, g)
        PROVE  UNCHANGED att
    BY <2>4 DEF DecideKickoff
  <2>5. ASSUME NEW r \in Requests,
               ApproveReview(r) \/ NewResult(r) \/ Rematch(r) \/ ApproveNotice(r)
        PROVE  UNCHANGED att
    BY <2>5 DEF ApproveReview, NewResult, Rematch, ApproveNotice
  <2> QED BY <2>1, <2>2, <2>3, <2>4, <2>5 DEF GatesStep
<1> QED BY <1>1, <1>2, <1>3

LEMMA GatesStepFInv ==
  ASSUME FInv, GatesStep, UNCHANGED <<done, file, work>>
  PROVE  FInv' /\ RowStep
<1>1. GatesInv'
  BY GatesNextInv DEF FInv, GatesNext
<1>2. ApprovedIsGranted' /\ granted \subseteq granted'
  BY GatesStepGrants DEF FInv
<1>3. RowStep
  BY GatesStepRows DEF FInv
<1> QED BY <1>1, <1>2, <1>3, AroundFInv

-----------------------------------------------------------------------------
LEMMA NextFInv == FInv /\ [Next]_vars => FInv' /\ RowStep
<1> SUFFICES ASSUME FInv, [Next]_vars PROVE FInv' /\ RowStep
  OBVIOUS
<1>1. ASSUME NEW d \in Dispatchers, Dispatch(d) PROVE FInv' /\ RowStep
  BY <1>1, NextReadyFInv, ClaimFInv, ReviewFInv, GateFInv, BlockFInv, NumberFInv,
     InsertFInv, ClaimByIdFInv, BeginFInv, ReadFileFInv, WriteFileFInv,
     MarkErrorFInv, SyncStatusFInv, MarkSuccessFInv, EnsureNoticeFInv DEF Dispatch
<1>2. ASSUME NEW d \in Dispatchers, Post(d) \/ Crash(d) PROVE FInv' /\ RowStep
  BY <1>2, PostFInv, CrashFInv
<1>3. ASSUME Reap \/ \E a \in Attempts : Pass(a) PROVE FInv' /\ RowStep
  BY <1>3, ReapFInv, PassFInv
<1>4. ASSUME GatesStep, UNCHANGED <<done, file, work>> PROVE FInv' /\ RowStep
  BY <1>4, GatesStepFInv
<1>5. ASSUME UNCHANGED vars PROVE FInv' /\ RowStep
  <2>1. RowStep
    BY <1>5, SameRows DEF vars, gateVars, FInv
  <2> QED BY <1>5, <2>1, TableFInv DEF vars, gateVars, legal
<1> QED BY <1>1, <1>2, <1>3, <1>4, <1>5 DEF Next

LEMMA FInvariant == Spec => []FInv
<1>1. Init => FInv
  BY InitFInv
<1>2. FInv /\ [Next]_vars => FInv'
  BY NextFInv
<1> QED BY <1>1, <1>2, PTL DEF Spec

(* The table, the gates and the dispatchers keep their types, composed.    *)
THEOREM FulfillmentTyped == Spec => []TypeOK
<1>1. FInv => TypeOK
  BY DEF FInv
<1> QED BY <1>1, FInvariant, PTL

(* For every number of dispatchers, admin calls and requests: a line of    *)
(* the suppression file stands for a disposition that Legal kicked off,    *)
(* although write_suppression_dwids writes it many statements after        *)
(* _load_vertical_gate read the gate.                                      *)
THEOREM FileGranted == Spec => []OnlyGranted
<1>1. FInv => OnlyGranted
  BY DEF FInv
<1> QED BY <1>1, FInvariant, PTL

(* The fulfilment table implements the append-only log of attempts, with   *)
(* the dispatchers, the reaper's sweep and a reopen all updating it.       *)
THEOREM FulfillmentRefines == Spec => LogSpec
<1> DEFINE bar == [a \in Attempts |->
                     IF att[a].status = "absent" THEN "none"
                     ELSE IF att[a].status \in Open THEN "open"
                     ELSE att[a].status]
<1>1. Init => Log!Init
  <2> SUFFICES ASSUME Init PROVE Log!Init
    OBVIOUS
  <2>1. \A a \in Attempts : att[a].status = "absent"
    BY NewRowType DEF Init, GatesInit, EmptyTable, NoRow, Deadline
  <2> QED BY <2>1 DEF Log!Init, Log!Slots, Attempts
<1>2. FInv /\ [Next]_vars => [Log!Advance]_bar
  <2> SUFFICES ASSUME FInv, [Next]_vars PROVE Log!Advance
    OBVIOUS
  <2>1. RowStep /\ att \in [Attempts -> Row] /\ att' \in [Attempts -> Row]
    BY NextFInv DEF FInv, TypeOK, RowStep
  <2>2. ASSUME NEW a \in Attempts
        PROVE  bar'[a] \in {"none", "open"} \cup Log!Verdicts
    BY <2>1 DEF Row, Terminal, Failed, Log!Verdicts
  <2>3. ASSUME NEW a \in Attempts
        PROVE  \/ bar'[a] = bar[a]
               \/ bar[a] = "open" /\ bar'[a] \in Log!Verdicts
               \/ /\ bar[a] = "none" /\ bar'[a] = "open"
                  /\ a[2] > 1 => Exists(att, Prev1(a))
    BY <2>1 DEF RowStep, Open, Terminal, Failed, Log!Verdicts
  <2>4. ASSUME NEW a \in Attempts, Exists(att, a) PROVE bar[a] # "none"
    BY <2>1, <2>4 DEF Exists, Row, Open, Terminal, Failed
  <2>5. ASSUME NEW a \in Attempts
        PROVE  a[2] > 1 /\ Exists(att, Prev1(a)) => bar[<<a[1], a[2] - 1>>] # "none"
    BY <2>4 DEF Exists, Prev1
  <2>6. Log!Slots = Attempts
    BY DEF Log!Slots, Attempts
  <2>7. bar' \in [Attempts -> {"none", "open"} \cup Log!Verdicts]
    BY <2>2
  <2> HIDE DEF bar
  <2>8. \A a \in Attempts : \/ bar'[a] = bar[a]
                            \/ /\ bar[a] = "none" /\ bar'[a] = "open"
                               /\ a[2] > 1 => bar[<<a[1], a[2] - 1>>] # "none"
                            \/ bar[a] = "open" /\ bar'[a] \in Log!Verdicts
    BY <2>3, <2>5
  <2> USE DEF bar
  <2> QED BY <2>6, <2>7, <2>8 DEF Log!Advance, Log!Opens, Log!Closes
<1> QED BY <1>1, <1>2, FInvariant, PTL DEF Spec, LogSpec, Log!Spec

-----------------------------------------------------------------------------
(* One dispatcher at a time: between its read of the file and its write    *)
(* nobody else writes.                                                     *)

SeenFresh == \A d \in Dispatchers : work[d].pc = "write" => work[d].seen = file

(* Only ReadFile arrives at the write, and only the write touches the file.*)
LEMMA NotYetWriting ==
  ASSUME FInv, NEW d \in Dispatchers,
         \/ NextReady(d) \/ Claim(d) \/ Review(d) \/ Gate(d) \/ Block(d) \/ Number(d)
         \/ Insert(d) \/ ClaimById(d) \/ Begin(d) \/ MarkError(d) \/ SyncStatus(d)
         \/ MarkSuccess(d) \/ EnsureNotice(d) \/ Post(d) \/ Crash(d)
  PROVE  UNCHANGED file /\ work'[d].pc # "write"
<1>1. work \in [Dispatchers -> WorkRow] /\ work[d].mode \in {"direct", "enqueue", "run"}
  BY WorkType DEF WorkRow
<1>2. UNCHANGED file
  BY DEF NextReady, Claim, Review, Gate, Block, Number, Insert, ClaimById, Begin, MarkError,
         SyncStatus, MarkSuccess, EnsureNotice, Post, FindReady, FulfillOne, Crash
<1>3. ASSUME Finish(d) PROVE work'[d].pc # "write"
  <2>1. work'[d].pc = Rest[work[d].mode]
    BY <1>1, <1>3 DEF Finish, Idle
  <2> QED BY <1>1, <2>1 DEF Rest
<1>4. ASSUME NEW pc, Go(d, pc) PROVE work'[d].pc = pc
  BY <1>1, <1>4 DEF Go, WorkRow
<1>5. ASSUME work' = [work EXCEPT ![d] = Idle] PROVE work'[d].pc # "write"
  BY <1>1, <1>5 DEF Idle
<1>6. CASE NextReady(d)
  BY <1>1, <1>6 DEF NextReady, WorkRow
<1>7. CASE Claim(d)
  BY <1>1, <1>5, <1>7 DEF Claim, WorkRow
<1>8. CASE Review(d) \/ Block(d)
  BY <1>3, <1>4, <1>8 DEF Review, Block
<1>9. CASE Gate(d)
  <2>1. CASE KickedOff(work[d].r)
    BY <1>1, <1>9, <2>1 DEF Gate, WorkRow
  <2>2. CASE ~KickedOff(work[d].r)
    BY <1>3, <1>9, <2>2 DEF Gate
  <2> QED BY <2>1, <2>2
<1>10. CASE Number(d)
  <2>1. PICK a : work' = [work EXCEPT ![d].pc = "insert", ![d].a = a]
    BY <1>10 DEF Number
  <2>2. work'[d].pc = "insert"
    BY <1>1, <2>1 DEF WorkRow
  <2> QED BY <1>2, <2>2
<1>11. CASE Insert(d) \/ ClaimById(d)
  BY <1>3, <1>4, <1>5, <1>11 DEF Insert, ClaimById
<1>12. CASE Begin(d) \/ MarkError(d) \/ SyncStatus(d) \/ MarkSuccess(d) \/ EnsureNotice(d)
  BY <1>3, <1>4, <1>12 DEF Begin, MarkError, SyncStatus, MarkSuccess, EnsureNotice
<1>13. CASE Post(d)
  BY <1>1, <1>13 DEF Post, FindReady, FulfillOne, WorkRow, Idle
<1>14. CASE Crash(d)
  BY <1>5, <1>14 DEF Crash
<1> QED BY <1>2, <1>6, <1>7, <1>8, <1>9, <1>10, <1>11, <1>12, <1>13, <1>14

LEMMA WriteKeeps ==
  ASSUME FInv, SeenFresh, \A d, e \in Dispatchers : d = e, [Next]_vars
  PROVE  SeenFresh' /\ file \subseteq file'
<1>1. ASSUME NEW d \in Dispatchers, Dispatch(d) \/ Post(d) \/ Crash(d)
      PROVE  SeenFresh' /\ file \subseteq file'
  <2>1. work \in [Dispatchers -> WorkRow]
    BY WorkType
  <2>2. CASE ReadFile(d)
    <3>1. UNCHANGED file
      BY <2>2 DEF ReadFile
    <3>2. work'[d].pc = "write" => work'[d].seen = file
      BY <2>1, <2>2 DEF ReadFile, Go, WorkRow
    <3> QED BY <3>1, <3>2 DEF SeenFresh
  <2>3. CASE WriteFile(d)
    <3>1. Merged(d) = file \cup {<<work[d].r, work[d].choice>>}
      BY <2>3 DEF WriteFile, SeenFresh, Merged
    <3>2. file \subseteq file' /\ work'[d].pc # "write"
      BY <2>1, <2>3, <3>1 DEF WriteFile, WorkRow
    <3> QED BY <3>2 DEF SeenFresh
  <2>4. CASE ~ReadFile(d) /\ ~WriteFile(d)
    <3>1. UNCHANGED file /\ work'[d].pc # "write"
      BY <1>1, <2>4, NotYetWriting DEF Dispatch
    <3> QED BY <3>1 DEF SeenFresh
  <2> QED BY <2>2, <2>3, <2>4
<1>2. CASE UNCHANGED <<file, work>>
  BY <1>2 DEF SeenFresh
<1>3. Reap \/ (\E a \in Attempts : Pass(a)) \/ UNCHANGED vars => UNCHANGED <<file, work>>
  BY DEF Reap, Pass, vars
<1> QED BY <1>1, <1>2, <1>3 DEF Next

(* One call of POST /fulfill at a time never loses a line of the file it   *)
(* writes back whole, whatever it dies of and whatever the admin calls and *)
(* the reaper do: the lost update needs a second dispatcher.               *)
THEOREM LoneDispatcherKeepsFile ==
  ASSUME \A d, e \in Dispatchers : d = e
  PROVE  Spec => SuppressionsKept
<1>1. Init => SeenFresh
  BY DEF Init, SeenFresh, Idle
<1>2. FInv /\ SeenFresh /\ [Next]_vars => SeenFresh' /\ [file \subseteq file']_vars
  BY WriteKeeps
<1> QED BY <1>1, <1>2, FInvariant, PTL DEF Spec, SuppressionsKept
=============================================================================
