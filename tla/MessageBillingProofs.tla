------------------------- MODULE MessageBillingProofs -------------------------
(***************************************************************************)
(* Theorems about MessageBilling, for any set of messages and any number   *)
(* of switch changes, faults and restarts.                                 *)
(***************************************************************************)
EXTENDS MessageBilling, FiniteSetTheorems, TLAPS

\* Type correctness: only messages that were encrypted are ever archived or revealed.
THEOREM TypeCorrect == Spec => []TypeOK
<1> USE DEF MsgStates, RevealStates
<1>1. Init => TypeOK
  BY BillingAssumption DEF Init, TypeOK
<1>2. TypeOK /\ [Next]_vars => TypeOK'
  <2> SUFFICES ASSUME TypeOK, [Next]_vars PROVE TypeOK'
    OBVIOUS
  <2> USE BillingAssumption DEF TypeOK, GoTo, queueVars, revealVars
  <2>1. ASSUME NEW k \in Keys, Flip(k) PROVE TypeOK'
    BY <2>1 DEF Flip
  <2>2. ASSUME NEW m \in Msgs, Filter(m) PROVE TypeOK'
    BY <2>2 DEF Filter
  <2>3. ASSUME NEW m \in Msgs, Mask(m) PROVE TypeOK'
    BY <2>3 DEF Mask
  <2>4. ASSUME NEW m \in Msgs, Charge(m) PROVE TypeOK'
    BY <2>4 DEF Charge, PostCost
  <2>5. ASSUME NEW m \in Msgs, Send(m) PROVE TypeOK'
    BY <2>5 DEF Send
  <2>6. ASSUME NEW m \in Msgs, Insert(m) PROVE TypeOK'
    BY <2>6 DEF Insert
  <2>7. ASSUME NEW m \in Msgs, Produce(m) PROVE TypeOK'
    <3>1. costQ' \in [Msgs -> Nat]
      BY <2>7 DEF Produce
    <3>2. cost' \in [Msgs -> Nat]
      BY <2>7 DEF Produce
    <3> QED
      BY <2>7, <3>1, <3>2 DEF Produce
  <2>8. ASSUME NEW r \in Reveals, RevealCheck(r) \/ RevealSelect(r) PROVE TypeOK'
    <3>1. CASE RevealCheck(r)
      BY <3>1 DEF RevealCheck
    <3>2. CASE RevealSelect(r)
      <4>1. PICK read \in SUBSET archive : /\ page' = [page EXCEPT ![r] = read]
                                          /\ rows' = [rows EXCEPT ![r] = read]
        BY <3>2 DEF RevealSelect
      <4> QED
        BY <3>2, <4>1 DEF RevealSelect
    <3> QED
      BY <2>8, <3>1, <3>2
  <2>9. ASSUME NEW r \in Reveals, NEW m \in Msgs, RevealRow(r, m) PROVE TypeOK'
    BY <2>9 DEF RevealRow, PostCost
  <2>10. ASSUME NEW r \in Reveals, RevealDelete(r) PROVE TypeOK'
    BY <2>10 DEF RevealDelete
  <2>11. ASSUME NEW r \in Reveals, RevealReturn(r) \/ RevealFails(r) PROVE TypeOK'
    BY <2>11 DEF RevealReturn, RevealFails, EndReveal
  <2>12. CASE Crash
    BY <2>12 DEF Crash
  <2>13. CASE UNCHANGED vars
    BY <2>13 DEF vars
  <2> QED
    BY <2>1, <2>2, <2>3, <2>4, <2>5, <2>6, <2>7, <2>8, <2>9, <2>10, <2>11, <2>12,
       <2>13 DEF Next, Handle, Reveal
<1> QED
  BY <1>1, <1>2, PTL DEF Spec

-----------------------------------------------------------------------------
(***************************************************************************)
(* What one step does to the costs of a message: only a message that       *)
(* filter charges and a row that a reveal charges gain one.                *)
(***************************************************************************)
\* Costs are numbers.
LEMMA CostsNat == ASSUME TypeOK, NEW m \in Msgs PROVE Costs(m) \in Nat
  BY DEF TypeOK, Costs

\* PostCost adds one record for its message and none for another.
LEMMA CostsGrow ==
  ASSUME TypeOK, NEW m \in Msgs, NEW n \in Msgs, PostCost(m), UNCHANGED cost
  PROVE  Costs(n)' = IF n = m THEN Costs(n) + 1 ELSE Costs(n)
  BY DEF TypeOK, Costs, PostCost

\* Produce moves a record from the pool to Redis, or loses it.
LEMMA CostsProduce ==
  ASSUME TypeOK, NEW m \in Msgs, NEW n \in Msgs, Produce(m)
  PROVE  /\ Costs(n)' \in Nat /\ Costs(n)' <= Costs(n)
         /\ Faults = {} => Costs(n)' = Costs(n)
<1>1. cost \in [Msgs -> Nat] /\ costQ \in [Msgs -> Nat] /\ costQ[m] > 0
  BY DEF TypeOK, Produce
<1>2. cost' \in {cost, [cost EXCEPT ![m] = @ + 1]} /\ (Faults = {} => cost' # cost)
  BY <1>1 DEF Produce
<1>3. costQ' = [costQ EXCEPT ![m] = @ - 1]
  BY DEF Produce
<1>4. Faults = {} => cost' = [cost EXCEPT ![m] = @ + 1]
  BY DEF Produce
<1> QED
  BY <1>1, <1>2, <1>3, <1>4 DEF Costs

-----------------------------------------------------------------------------
(***************************************************************************)
(* NoFreeContent.  A message that filter leaves in clear is charged before *)
(* it is sent (ClearCharged), and a reveal has charged every row of its    *)
(* page that it is past (PageCharged).                                     *)
(***************************************************************************)
ClearCharged ==
  \A m \in Msgs : pc[m] \in {"send", "done"} /\ m \notin encrypt => Costs(m) > 0

PageCharged == \A r \in Reveals : \A m \in page[r] \ rows[r] : Costs(m) > 0

FreeInv == Faults = {} => ClearCharged /\ PageCharged /\ NoFreeContent

\* No step shows content that can be masked and was not charged.
LEMMA FreeStep == TypeOK /\ FreeInv /\ [Next]_vars => FreeInv'
<1> SUFFICES ASSUME TypeOK, FreeInv, Faults = {}, [Next]_vars
             PROVE  (ClearCharged /\ PageCharged /\ NoFreeContent)'
  BY DEF FreeInv
<1> USE BillingAssumption DEF GoTo, queueVars, revealVars
<1> DEFINE Inv == ClearCharged /\ PageCharged /\ NoFreeContent
<1>0. /\ pc \in [Msgs \cup Reveals -> MsgStates \cup RevealStates]
      /\ \A r \in Reveals : pc[r] \in RevealStates
      /\ page \in [Reveals -> SUBSET Msgs] /\ rows \in [Reveals -> SUBSET Msgs]
      /\ seen \subseteq Msgs /\ encrypt \subseteq Msgs
      /\ \A m \in Msgs : Costs(m) \in Nat
      /\ Inv
  BY CostsNat DEF TypeOK, FreeInv
<1> USE DEF ClearCharged, PageCharged, NoFreeContent
\* Steps that leave the costs alone are judged by what they do to the rest.
<1>1. ASSUME UNCHANGED <<cost, costQ>> PROVE \A m \in Msgs : Costs(m)' = Costs(m)
  BY <1>1 DEF Costs
<1>2. ASSUME NEW k \in Keys, Flip(k) PROVE Inv'
  BY <1>0, <1>1, <1>2 DEF Flip
<1>3. ASSUME NEW m \in Msgs, Filter(m) \/ Mask(m) PROVE Inv'
  BY <1>0, <1>1, <1>3 DEF Filter, Mask
<1>4. ASSUME NEW m \in Msgs, Charge(m) PROVE Inv'
  <2>1. \A n \in Msgs : Costs(n)' = IF n = m THEN Costs(n) + 1 ELSE Costs(n)
    BY <1>4, CostsGrow DEF Charge
  <2> QED
    BY <1>0, <1>4, <2>1 DEF Charge
<1>5. ASSUME NEW m \in Msgs, Send(m) PROVE Inv'
  <2>1. m \in Maskable /\ m \in seen' => m \in seen \/ Costs(m) > 0
    BY <1>0, <1>5 DEF Send
  <2> QED
    BY <1>0, <1>1, <1>5, <2>1 DEF Send
<1>6. ASSUME NEW m \in Msgs, Insert(m) PROVE Inv'
  BY <1>0, <1>1, <1>6 DEF Insert
<1>7. ASSUME NEW m \in Msgs, Produce(m) PROVE Inv'
  <2>1. \A n \in Msgs : Costs(n)' = Costs(n)
    BY <1>7, CostsProduce
  <2> QED
    BY <1>0, <1>7, <2>1 DEF Produce
<1>8. ASSUME NEW r \in Reveals, RevealCheck(r) \/ RevealSelect(r) \/ RevealDelete(r)
      PROVE  Inv'
  <2>1. \A m \in Msgs : Costs(m)' = Costs(m)
    BY <1>1, <1>8 DEF RevealCheck, RevealSelect, RevealDelete
  <2>2. UNCHANGED <<encrypt, seen>> /\ \A m \in Msgs : pc'[m] = pc[m]
    BY <1>0, <1>8 DEF RevealCheck, RevealSelect, RevealDelete
  <2>3. \A s \in Reveals : page'[s] \ rows'[s] \subseteq page[s] \ rows[s]
    <3>1. CASE RevealSelect(r)
      <4>1. PICK read \in SUBSET archive : /\ page' = [page EXCEPT ![r] = read]
                                          /\ rows' = [rows EXCEPT ![r] = read]
        BY <3>1 DEF RevealSelect
      <4> QED
        BY <1>0, <4>1
    <3>2. CASE RevealCheck(r) \/ RevealDelete(r)
      BY <3>2 DEF RevealCheck, RevealDelete
    <3> QED
      BY <1>8, <3>1, <3>2
  <2> QED
    BY <1>0, <2>1, <2>2, <2>3
<1>9. ASSUME NEW r \in Reveals, NEW m \in Msgs, RevealRow(r, m) PROVE Inv'
  <2>1. \A n \in Msgs : Costs(n)' = IF n = m THEN Costs(n) + 1 ELSE Costs(n)
    BY <1>9, CostsGrow DEF RevealRow
  <2>2. ClearCharged' /\ NoFreeContent'
    BY <1>0, <1>9, <2>1 DEF RevealRow
  <2>3. PageCharged'
    BY <1>0, <1>9, <2>1 DEF RevealRow
  <2> QED
    BY <2>2, <2>3
<1>10. ASSUME NEW r \in Reveals, RevealReturn(r) PROVE Inv'
  <2>1. \A m \in page[r] : Costs(m) > 0
    BY <1>0, <1>10 DEF RevealReturn
  <2> QED
    BY <1>0, <1>1, <1>10, <2>1 DEF RevealReturn, EndReveal
<1>11. ~ Crash /\ \A r \in Reveals : ~ RevealFails(r)
  BY DEF Crash, RevealFails
<1>12. CASE UNCHANGED vars
  BY <1>0, <1>1, <1>12 DEF vars
<1> QED
  BY <1>2, <1>3, <1>4, <1>5, <1>6, <1>7, <1>8, <1>9, <1>10, <1>11, <1>12
  DEF Next, Handle, Reveal

\* So the invariant holds in every state.
LEMMA FreeAlways == Spec => []FreeInv
<1>1. Init => FreeInv
  BY BillingAssumption
  DEF Init, FreeInv, ClearCharged, PageCharged, NoFreeContent
<1> QED
  BY <1>1, FreeStep, TypeCorrect, PTL DEF Spec

\* Without faults, content that can be masked is shown only after it was charged,
\* whatever the switches do and however many reveals overlap.
THEOREM NoFreeContentCorrect == Spec => []NoFreeContent
<1>1. FreeInv => NoFreeContent
  BY DEF FreeInv, NoFreeContent
<1> QED
  BY <1>1, FreeAlways, PTL

-----------------------------------------------------------------------------
(***************************************************************************)
(* ContentKept: the rows that a reveal deletes are rows of its page.       *)
(***************************************************************************)
PageHolds ==
  \A r \in Reveals : /\ rows[r] \cup row[r] \subseteq page[r]
                     /\ pc[r] \in {"idle", "select"} => page[r] = {}

KeptInv == Faults = {} => PageHolds /\ ContentKept

\* No step loses the content behind a placeholder.
LEMMA KeptStep == TypeOK /\ KeptInv /\ [Next]_vars => KeptInv'
<1> SUFFICES ASSUME TypeOK, PageHolds, ContentKept, Faults = {}, [Next]_vars
             PROVE  PageHolds' /\ ContentKept'
  BY DEF KeptInv
<1> USE BillingAssumption DEF PageHolds, ContentKept, GoTo, queueVars, revealVars
<1>0. /\ pc \in [Msgs \cup Reveals -> MsgStates \cup RevealStates]
      /\ page \in [Reveals -> SUBSET Msgs] /\ rows \in [Reveals -> SUBSET Msgs]
      /\ row \in [Reveals -> SUBSET Msgs]
  BY DEF TypeOK
<1>1. ASSUME \/ \E k \in Keys : Flip(k)
             \/ \E m \in Msgs : Handle(m) \/ Insert(m) \/ Produce(m)
      PROVE  PageHolds' /\ ContentKept'
  <2>1. UNCHANGED revealVars /\ \A r \in Reveals : pc'[r] = pc[r]
    BY <1>0, <1>1 DEF Flip, Handle, Filter, Mask, Charge, Send, Insert, Produce
  <2>2. PageHolds'
    BY <2>1
  <2>3. /\ encrypt' \ (archiveQ' \cup archive') \subseteq encrypt \ (archiveQ \cup archive)
        /\ seen \subseteq seen'
    BY <1>0, <1>1 DEF Flip, Handle, Filter, Mask, Charge, Send, Insert, Produce
  <2> QED
    BY <2>1, <2>2, <2>3
<1>2. ASSUME NEW r \in Reveals, RevealCheck(r) PROVE PageHolds' /\ ContentKept'
  BY <1>0, <1>2 DEF RevealCheck
<1>3. ASSUME NEW r \in Reveals, RevealSelect(r) PROVE PageHolds' /\ ContentKept'
  <2>1. page[r] = {} /\ rows[r] = {} /\ row[r] = {}
    BY <1>3 DEF RevealSelect
  <2>2. PICK read \in SUBSET archive : /\ page' = [page EXCEPT ![r] = read]
                                       /\ rows' = [rows EXCEPT ![r] = read]
    BY <1>3 DEF RevealSelect
  <2> QED
    BY <1>0, <1>3, <2>1, <2>2 DEF RevealSelect
<1>4. ASSUME NEW r \in Reveals, NEW m \in Msgs, RevealRow(r, m)
      PROVE  PageHolds' /\ ContentKept'
  BY <1>0, <1>4 DEF RevealRow
<1>5. ASSUME NEW r \in Reveals, RevealDelete(r) PROVE PageHolds' /\ ContentKept'
  <2>1. page' = page /\ row[r] \subseteq page[r]
    BY <1>5 DEF RevealDelete
  <2> QED
    BY <1>0, <1>5, <2>1 DEF RevealDelete
<1>6. ASSUME NEW r \in Reveals, RevealReturn(r) PROVE PageHolds' /\ ContentKept'
  <2>1. PageHolds'
    BY <1>0, <1>6 DEF RevealReturn, EndReveal
  <2>2. \A s \in Reveals : page[s] \subseteq page'[s] \cup seen'
    BY <1>0, <1>6 DEF RevealReturn, EndReveal
  <2> QED
    BY <1>6, <2>1, <2>2 DEF RevealReturn
<1>7. ~ Crash /\ \A r \in Reveals : ~ RevealFails(r)
  BY DEF Crash, RevealFails
<1>8. CASE UNCHANGED vars
  <2>1. PageHolds' /\ page' = page
    BY <1>8 DEF vars
  <2> QED
    BY <1>8, <2>1 DEF vars
<1> QED
  BY <1>1, <1>2, <1>3, <1>4, <1>5, <1>6, <1>7, <1>8 DEF Next, Reveal

\* Without faults, no interleaving of handlers, pools and reveals loses the content
\* behind a placeholder.
THEOREM ContentKeptCorrect == Spec => []ContentKept
<1>1. Init => KeptInv
  BY BillingAssumption DEF Init, KeptInv, PageHolds, ContentKept
<1>2. KeptInv => ContentKept
  BY DEF KeptInv, ContentKept
<1> QED
  BY <1>1, <1>2, KeptStep, TypeCorrect, PTL DEF Spec

-----------------------------------------------------------------------------
(***************************************************************************)
(* ChargeBound.  A reveal holds each row at most once, first uncharged and *)
(* then charged, and a row that another reveal deleted meanwhile cannot be *)
(* read again.  So, apart from what earlier failures allowed, an archived  *)
(* row was charged once by each reveal that is about to delete it, and a   *)
(* deleted one by no reveal that still has it before itself.               *)
(***************************************************************************)
Charging(m) == {r \in Reveals : m \in row[r]}
Pending(m)  == {r \in Reveals : m \in rows[r]}

Earlier(n) == Cardinality(Reveals) * n

\* Before its handling decides, a message is not encrypted; it and what waits for the
\* table were never charged.
Untouched ==
  /\ \A m \in Msgs : pc[m] \in {"new", "mask", "charge"} => m \notin encrypt /\ Costs(m) = 0
  /\ \A m \in archiveQ : Costs(m) = 0 /\ m \notin archive /\ Pending(m) = {}

HeldOnce ==
  \A r \in Reveals : /\ row[r] \cap rows[r] = {}
                     /\ pc[r] # "delete" => row[r] = {}
                     /\ pc[r] \in {"idle", "select"} => rows[r] = {}

CountBound ==
  \A m \in Msgs :
    /\ m \in archive => Costs(m) <= Cardinality(Charging(m)) + Earlier(fails)
    /\ m \notin archive => Costs(m) <= Cardinality(Reveals \ Pending(m)) + Earlier(fails)

BoundInv == Untouched /\ HeldOnce /\ CountBound

\* The sets of reveals have sizes, and none is larger than Reveals.
LEMMA RevealSets ==
  ASSUME NEW S \in SUBSET Reveals
  PROVE  /\ IsFiniteSet(S) /\ Cardinality(S) \in Nat
         /\ Cardinality(S) <= Cardinality(Reveals) /\ Cardinality(Reveals) \in Nat
  BY FS_Subset, FS_CardinalityType, BillingAssumption


\* No message was charged more often than the bound says; the next failure allows as much.
LEMMA Ceiling ==
  ASSUME TypeOK, CountBound, NEW m \in Msgs
  PROVE  /\ Costs(m) <= Cardinality(Reveals) * (1 + fails)
         /\ Earlier(fails) \in Nat /\ Earlier(fails + 1) \in Nat
         /\ Earlier(fails + 1) = Cardinality(Reveals) * (1 + fails)
<1>1. fails \in Nat /\ Cardinality(Reveals) \in Nat /\ Costs(m) \in Nat
  BY RevealSets, CostsNat DEF TypeOK
<1>2. /\ Earlier(fails) \in Nat /\ Earlier(fails + 1) \in Nat
      /\ Earlier(fails + 1) = Cardinality(Reveals) * (1 + fails)
      /\ Earlier(fails + 1) = Cardinality(Reveals) + Earlier(fails)
  BY <1>1 DEF Earlier
<1>3. /\ Cardinality(Charging(m)) \in Nat /\ Cardinality(Charging(m)) <= Cardinality(Reveals)
      /\ Cardinality(Reveals \ Pending(m)) \in Nat
      /\ Cardinality(Reveals \ Pending(m)) <= Cardinality(Reveals)
  BY RevealSets DEF Charging
<1> QED
  BY <1>1, <1>2, <1>3 DEF CountBound

\* A step that charges nothing and moves no row keeps the bounds.
LEMMA BoundsKept ==
  ASSUME TypeOK, CountBound, fails' = fails, archive' = archive,
         \A m \in Msgs : Costs(m)' \in Nat /\ Costs(m)' <= Costs(m),
         \A m \in Msgs : Charging(m)' = Charging(m) /\ Pending(m)' = Pending(m)
  PROVE  CountBound'
<1>1. SUFFICES ASSUME NEW m \in Msgs
               PROVE  /\ m \in archive => Costs(m)' <= Cardinality(Charging(m)) + Earlier(fails)
                      /\ m \notin archive =>
                           Costs(m)' <= Cardinality(Reveals \ Pending(m)) + Earlier(fails)
  BY DEF CountBound, Earlier
<1>2. /\ Cardinality(Charging(m)) \in Nat /\ Cardinality(Reveals \ Pending(m)) \in Nat
      /\ Costs(m) \in Nat /\ Earlier(fails) \in Nat
  BY RevealSets, CostsNat, Ceiling DEF Charging
<1> QED
  BY <1>2 DEF CountBound

\* Whatever a reveal still held when it was cut off is covered by one failure more.
LEMMA BoundsRaised ==
  ASSUME TypeOK, TypeOK', CountBound, fails' = fails + 1,
         \A m \in Msgs : Costs(m)' \in Nat /\ Costs(m)' <= Costs(m)
  PROVE  CountBound'
<1>1. SUFFICES ASSUME NEW m \in Msgs
               PROVE  /\ Costs(m)' <= Cardinality(Charging(m)') + Earlier(fails')
                      /\ Costs(m)' <= Cardinality(Reveals \ Pending(m)') + Earlier(fails')
  BY DEF CountBound, Earlier
<1>2. Costs(m)' <= Earlier(fails') /\ Earlier(fails') \in Nat
  <2>1. Costs(m) <= Earlier(fails + 1) /\ Earlier(fails + 1) \in Nat
    BY Ceiling
  <2>2. Costs(m) \in Nat /\ Costs(m)' \in Nat /\ Costs(m)' <= Costs(m)
    BY CostsNat
  <2>3. Earlier(fails') = Earlier(fails + 1)
    BY DEF Earlier
  <2> QED
    BY <2>1, <2>2, <2>3
<1>3. Cardinality(Charging(m)') \in Nat /\ Cardinality(Reveals \ Pending(m)') \in Nat
  <2>1. Charging(m)' \in SUBSET Reveals /\ Reveals \ Pending(m)' \in SUBSET Reveals
    BY DEF Charging
  <2> QED
    BY <2>1, RevealSets
<1>4. Costs(m)' \in Nat
  OBVIOUS
<1> QED
  BY <1>2, <1>3, <1>4

-----------------------------------------------------------------------------
\* No step charges a message that its handling has not decided on, or that waits.
LEMMA UntouchedStep == TypeOK /\ BoundInv /\ [Next]_vars => Untouched'
<1> SUFFICES ASSUME TypeOK, BoundInv, [Next]_vars PROVE Untouched'
  OBVIOUS
<1> USE DEF GoTo, queueVars, revealVars, Untouched, Pending
<1>0. /\ pc \in [Msgs \cup Reveals -> MsgStates \cup RevealStates]
      /\ rows \in [Reveals -> SUBSET encrypt]
      /\ archiveQ \subseteq encrypt /\ archive \subseteq encrypt /\ encrypt \subseteq Msgs
      /\ \A m \in Msgs : Costs(m) \in Nat
      /\ Msgs \cap Reveals = {}
      /\ Untouched
  BY CostsNat, BillingAssumption DEF TypeOK, BoundInv
<1>1. ASSUME UNCHANGED <<cost, costQ>> PROVE \A m \in Msgs : Costs(m)' = Costs(m)
  BY <1>1 DEF Costs
<1>2. ASSUME NEW k \in Keys, Flip(k) PROVE Untouched'
  BY <1>0, <1>1, <1>2 DEF Flip
<1>3. ASSUME NEW m \in Msgs, Filter(m) \/ Send(m) PROVE Untouched'
  BY <1>0, <1>1, <1>3 DEF Filter, Send
<1>4. ASSUME NEW m \in Msgs, Mask(m) PROVE Untouched'
  BY <1>0, <1>1, <1>4 DEF Mask
<1>5. ASSUME NEW m \in Msgs, Charge(m) PROVE Untouched'
  <2>1. \A n \in Msgs : Costs(n)' = IF n = m THEN Costs(n) + 1 ELSE Costs(n)
    BY <1>5, CostsGrow DEF Charge
  <2> QED
    BY <1>0, <1>5, <2>1 DEF Charge
<1>6. ASSUME NEW m \in Msgs, Insert(m) PROVE Untouched'
  BY <1>0, <1>1, <1>6 DEF Insert
<1>7. ASSUME NEW m \in Msgs, Produce(m) PROVE Untouched'
  <2>1. \A n \in Msgs : Costs(n)' \in Nat /\ Costs(n)' <= Costs(n)
    BY <1>7, CostsProduce
  <2> QED
    BY <1>0, <1>7, <2>1 DEF Produce
<1>8. ASSUME NEW r \in Reveals, RevealCheck(r) \/ RevealDelete(r) PROVE Untouched'
  BY <1>0, <1>1, <1>8 DEF RevealCheck, RevealDelete
<1>9. ASSUME NEW r \in Reveals, RevealSelect(r) PROVE Untouched'
  <2>1. PICK read \in SUBSET archive : rows' = [rows EXCEPT ![r] = read]
    BY <1>9 DEF RevealSelect
  <2> QED
    BY <1>0, <1>1, <1>9, <2>1 DEF RevealSelect
<1>10. ASSUME NEW r \in Reveals, NEW m \in Msgs, RevealRow(r, m) PROVE Untouched'
  <2>1. \A n \in Msgs : Costs(n)' = IF n = m THEN Costs(n) + 1 ELSE Costs(n)
    BY <1>10, CostsGrow DEF RevealRow
  <2>2. m \in encrypt /\ m \notin archiveQ
    BY <1>0, <1>10 DEF RevealRow
  <2>3. \A n \in Msgs : pc'[n] = pc[n]
    BY <1>0, <1>10 DEF RevealRow
  <2>4. \A s \in Reveals : rows'[s] \subseteq rows[s]
    BY <1>0, <1>10 DEF RevealRow
  <2> QED
    BY <1>0, <1>10, <2>1, <2>2, <2>3, <2>4 DEF RevealRow
<1>11. ASSUME NEW r \in Reveals, RevealReturn(r) \/ RevealFails(r) PROVE Untouched'
  BY <1>0, <1>1, <1>11 DEF RevealReturn, RevealFails, EndReveal
<1>12. CASE Crash
  <2>1. \A n \in Msgs : Costs(n)' \in Nat /\ Costs(n)' <= Costs(n)
    BY <1>12 DEF Crash, Costs, TypeOK
  <2> QED
    BY <1>0, <1>12, <2>1 DEF Crash
<1>13. CASE UNCHANGED vars
  BY <1>0, <1>1, <1>13 DEF vars
<1> QED
  BY <1>2, <1>3, <1>4, <1>5, <1>6, <1>7, <1>8, <1>9, <1>10, <1>11, <1>12, <1>13
  DEF Next, Handle, Reveal

\* A reveal never holds a row twice, and holds none before it read its page.
LEMMA HeldStep == TypeOK /\ BoundInv /\ [Next]_vars => HeldOnce'
<1> SUFFICES ASSUME TypeOK, HeldOnce, [Next]_vars PROVE HeldOnce'
  BY DEF BoundInv
<1> USE DEF GoTo, queueVars, revealVars, HeldOnce
<1>0. /\ pc \in [Msgs \cup Reveals -> MsgStates \cup RevealStates]
      /\ rows \in [Reveals -> SUBSET encrypt] /\ row \in [Reveals -> SUBSET encrypt]
      /\ Msgs \cap Reveals = {}
  BY BillingAssumption DEF TypeOK
<1>1. ASSUME \/ \E k \in Keys : Flip(k)
             \/ \E m \in Msgs : Handle(m) \/ Insert(m) \/ Produce(m)
      PROVE  HeldOnce'
  <2>1. UNCHANGED <<rows, row>> /\ \A r \in Reveals : pc'[r] = pc[r]
    BY <1>0, <1>1 DEF Flip, Handle, Filter, Mask, Charge, Send, Insert, Produce
  <2> QED
    BY <2>1
<1>2. ASSUME NEW r \in Reveals, RevealCheck(r) \/ RevealDelete(r) PROVE HeldOnce'
  BY <1>0, <1>2 DEF RevealCheck, RevealDelete
<1>3. ASSUME NEW r \in Reveals, RevealSelect(r) PROVE HeldOnce'
  <2>1. PICK read \in SUBSET archive : rows' = [rows EXCEPT ![r] = read]
    BY <1>3 DEF RevealSelect
  <2> QED
    BY <1>0, <1>3, <2>1 DEF RevealSelect
<1>4. ASSUME NEW r \in Reveals, NEW m \in Msgs, RevealRow(r, m) PROVE HeldOnce'
  BY <1>0, <1>4 DEF RevealRow
<1>5. ASSUME NEW r \in Reveals, RevealReturn(r) \/ RevealFails(r) PROVE HeldOnce'
  BY <1>0, <1>5 DEF RevealReturn, RevealFails, EndReveal
<1>6. CASE Crash
  BY <1>0, <1>6 DEF Crash
<1>7. CASE UNCHANGED vars
  BY <1>7 DEF vars
<1> QED
  BY <1>1, <1>2, <1>3, <1>4, <1>5, <1>6, <1>7 DEF Next, Reveal

\* Every charge is one of the bound, and no delete loses one.
LEMMA CountStep == TypeOK /\ TypeOK' /\ BoundInv /\ [Next]_vars => CountBound'
<1> SUFFICES ASSUME TypeOK, TypeOK', BoundInv, [Next]_vars PROVE CountBound'
  OBVIOUS
<1> USE DEF GoTo, queueVars, revealVars
<1>0. /\ rows \in [Reveals -> SUBSET encrypt] /\ row \in [Reveals -> SUBSET encrypt]
      /\ archiveQ \subseteq encrypt /\ archive \subseteq encrypt /\ encrypt \subseteq Msgs
      /\ \A m \in Msgs : Costs(m) \in Nat /\ Costs(m)' \in Nat
      /\ fails \in Nat
      /\ Untouched /\ HeldOnce /\ CountBound
  <2>1. \A m \in Msgs : Costs(m) \in Nat /\ Costs(m)' \in Nat
    BY DEF TypeOK, Costs
  <2> QED
    BY <2>1 DEF TypeOK, BoundInv
<1>1. ASSUME UNCHANGED <<cost, costQ>> PROVE \A m \in Msgs : Costs(m)' = Costs(m)
  BY <1>1 DEF Costs
<1>2. \A m \in Msgs : /\ Cardinality(Charging(m)) \in Nat
                      /\ Cardinality(Reveals \ Pending(m)) \in Nat
                      /\ Earlier(fails) \in Nat
  <2>1. \A m \in Msgs : Charging(m) \in SUBSET Reveals /\ Reveals \ Pending(m) \in SUBSET Reveals
    BY DEF Charging
  <2>2. \A m \in Msgs : Earlier(fails) \in Nat
    BY <1>0, Ceiling
  <2> QED
    BY <2>1, <2>2, RevealSets
<1>3. ASSUME UNCHANGED <<rows, row>>
      PROVE  \A m \in Msgs : Charging(m)' = Charging(m) /\ Pending(m)' = Pending(m)
  BY <1>3 DEF Charging, Pending
<1>4. ASSUME UNCHANGED <<rows, row, archive, fails>>, 
             \A m \in Msgs : Costs(m)' <= Costs(m)
      PROVE  CountBound'
  BY <1>0, <1>3, <1>4, BoundsKept
<1>5. ASSUME \/ \E k \in Keys : Flip(k)
             \/ \E m \in Msgs : Filter(m) \/ Mask(m) \/ Send(m)
             \/ \E r \in Reveals : RevealCheck(r)
             \/ UNCHANGED vars
      PROVE  CountBound'
  <2>1. UNCHANGED <<rows, row, archive, fails, cost, costQ>>
    BY <1>5 DEF Flip, Filter, Mask, Send, RevealCheck, vars
  <2> QED
    BY <1>0, <1>1, <1>4, <2>1
<1>6. ASSUME NEW m \in Msgs, Produce(m) PROVE CountBound'
  <2>1. \A n \in Msgs : Costs(n)' <= Costs(n)
    BY <1>6, CostsProduce
  <2>2. UNCHANGED <<rows, row, archive, fails>>
    BY <1>6 DEF Produce
  <2> QED
    BY <1>4, <2>1, <2>2
\* filter charges what was never charged, and no reveal has it.
<1>7. ASSUME NEW m \in Msgs, Charge(m) PROVE CountBound'
  <2>1. \A n \in Msgs : Costs(n)' = IF n = m THEN Costs(n) + 1 ELSE Costs(n)
    BY <1>7, CostsGrow DEF Charge
  <2>2. Costs(m) = 0 /\ m \notin archive /\ Reveals \ Pending(m) = Reveals
    BY <1>0, <1>7 DEF Charge, Untouched, Pending
  <2>3. Cardinality(Reveals) \in Nat /\ Cardinality(Reveals) >= 1
    <3>1. Cardinality(Reveals) \in Nat
      BY RevealSets
    <3>2. Cardinality(Reveals) # 0
      BY FS_EmptySet, BillingAssumption
    <3> QED
      BY <3>1, <3>2
  <2>4. UNCHANGED <<rows, row, archive, fails>> /\ Earlier(fails)' = Earlier(fails)
    BY <1>7 DEF Charge, Earlier
  <2>5. SUFFICES ASSUME NEW n \in Msgs
                 PROVE  /\ n \in archive =>
                             Costs(n)' <= Cardinality(Charging(n)) + Earlier(fails)
                        /\ n \notin archive =>
                             Costs(n)' <= Cardinality(Reveals \ Pending(n)) + Earlier(fails)
    BY <1>3, <2>4 DEF CountBound
  <2>6. CASE n = m
    BY <1>2, <2>1, <2>2, <2>3, <2>6
  <2>7. CASE n # m
    BY <1>0, <2>1, <2>7 DEF CountBound
  <2> QED
    BY <2>6, <2>7
\* The table gains a row that was never charged.
<1>8. ASSUME NEW m \in Msgs, Insert(m) PROVE CountBound'
  <2>1. m \in archiveQ /\ Costs(m) = 0 /\ archive' \in {archive, archive \cup {m}}
    BY <1>0, <1>8 DEF Insert, Untouched
  <2>2. UNCHANGED <<rows, row, fails, cost, costQ>> /\ Earlier(fails)' = Earlier(fails)
    BY <1>8 DEF Insert, Earlier
  <2>3. SUFFICES ASSUME NEW n \in Msgs
                 PROVE  /\ n \in archive' =>
                             Costs(n) <= Cardinality(Charging(n)) + Earlier(fails)
                        /\ n \notin archive' =>
                             Costs(n) <= Cardinality(Reveals \ Pending(n)) + Earlier(fails)
    BY <1>1, <1>3, <2>2 DEF CountBound
  <2>4. CASE n = m
    BY <1>2, <2>1, <2>4
  <2>5. CASE n # m
    BY <1>0, <2>1, <2>5 DEF CountBound
  <2> QED
    BY <2>4, <2>5
\* A page is read from the table, so a deleted row gets no new reveal.
<1>9. ASSUME NEW r \in Reveals, RevealSelect(r) PROVE CountBound'
  <2>1. PICK read \in SUBSET archive : rows' = [rows EXCEPT ![r] = read]
    BY <1>9 DEF RevealSelect
  <2>2. /\ UNCHANGED <<row, archive, fails, cost, costQ>> /\ Earlier(fails)' = Earlier(fails)
        /\ rows[r] = {}
    BY <1>0, <1>9 DEF RevealSelect, HeldOnce, Earlier
  <2>3. /\ \A n \in Msgs : Charging(n)' = Charging(n)
        /\ \A n \in Msgs \ archive : Pending(n)' = Pending(n)
    BY <1>0, <2>1, <2>2 DEF Charging, Pending
  <2> QED
    BY <1>0, <1>1, <2>2, <2>3 DEF CountBound
\* A charged row goes from those before the reveal to the one it is about to delete.
<1>10. ASSUME NEW r \in Reveals, NEW m \in Msgs, RevealRow(r, m) PROVE CountBound'
  <2>1. \A n \in Msgs : Costs(n)' = IF n = m THEN Costs(n) + 1 ELSE Costs(n)
    BY <1>10, CostsGrow DEF RevealRow
  <2>2. /\ row[r] = {} /\ m \in rows[r]
        /\ rows' = [rows EXCEPT ![r] = rows[r] \ {m}] /\ row' = [row EXCEPT ![r] = {m}]
    BY <1>0, <1>10 DEF RevealRow, HeldOnce
  <2>3. UNCHANGED <<archive, fails>> /\ Earlier(fails)' = Earlier(fails)
    BY <1>10 DEF RevealRow, Earlier
  <2>4. /\ \A n \in Msgs \ {m} : Charging(n)' = Charging(n) /\ Pending(n)' = Pending(n)
        /\ Charging(m)' = Charging(m) \cup {r} /\ r \notin Charging(m)
        /\ Reveals \ Pending(m)' = (Reveals \ Pending(m)) \cup {r}
        /\ r \notin Reveals \ Pending(m)
    BY <1>0, <2>2 DEF Charging, Pending
  <2>5. /\ Cardinality(Charging(m)') = Cardinality(Charging(m)) + 1
        /\ Cardinality(Reveals \ Pending(m)') = Cardinality(Reveals \ Pending(m)) + 1
    <3>1. IsFiniteSet(Charging(m)) /\ IsFiniteSet(Reveals \ Pending(m))
      BY RevealSets DEF Charging
    <3>2. Cardinality(Charging(m) \cup {r}) = Cardinality(Charging(m)) + 1
      BY <2>4, <3>1, FS_AddElement
    <3>3. Cardinality((Reveals \ Pending(m)) \cup {r}) = Cardinality(Reveals \ Pending(m)) + 1
      BY <2>4, <3>1, FS_AddElement
    <3> QED
      BY <2>4, <3>2, <3>3
  <2>6. SUFFICES ASSUME NEW n \in Msgs
                 PROVE  /\ n \in archive =>
                             Costs(n)' <= Cardinality(Charging(n)') + Earlier(fails)
                        /\ n \notin archive =>
                             Costs(n)' <= Cardinality(Reveals \ Pending(n)') + Earlier(fails)
    BY <2>3 DEF CountBound
  <2>7. CASE n = m
    BY <1>0, <1>2, <2>1, <2>5, <2>7 DEF CountBound
  <2>8. CASE n # m
    BY <1>0, <2>1, <2>4, <2>8 DEF CountBound
  <2> QED
    BY <2>7, <2>8
\* A deleted row was charged by reveals that no longer have it before themselves.
<1>11. ASSUME NEW r \in Reveals, RevealDelete(r) PROVE CountBound'
  <2>1. /\ UNCHANGED <<rows, fails, cost, costQ>> /\ Earlier(fails)' = Earlier(fails)
        /\ archive' = archive \ row[r] /\ row' = [row EXCEPT ![r] = {}]
    BY <1>11 DEF RevealDelete, Earlier
  <2>2. /\ \A n \in Msgs : Pending(n)' = Pending(n)
        /\ \A n \in Msgs \ row[r] : Charging(n)' = Charging(n)
    BY <1>0, <2>1 DEF Charging, Pending
  <2>3. \A n \in Msgs : Cardinality(Charging(n)) <= Cardinality(Reveals \ Pending(n))
    <3> SUFFICES ASSUME NEW n \in Msgs
                 PROVE  Cardinality(Charging(n)) <= Cardinality(Reveals \ Pending(n))
      OBVIOUS
    <3>1. Charging(n) \in SUBSET (Reveals \ Pending(n))
      BY <1>0 DEF Charging, Pending, HeldOnce
    <3>2. IsFiniteSet(Reveals \ Pending(n))
      BY RevealSets
    <3> QED
      BY <3>1, <3>2, FS_Subset
  <2>4. SUFFICES ASSUME NEW n \in Msgs
                 PROVE  /\ n \in archive' =>
                             Costs(n) <= Cardinality(Charging(n)') + Earlier(fails)
                        /\ n \notin archive' =>
                             Costs(n) <= Cardinality(Reveals \ Pending(n)) + Earlier(fails)
    BY <1>1, <2>1, <2>2 DEF CountBound
  <2>5. CASE n \in archive'
    BY <1>0, <2>1, <2>2, <2>5 DEF CountBound
  <2>6. CASE n \notin archive'
    BY <1>0, <1>2, <2>3, <2>6 DEF CountBound
  <2> QED
    BY <2>5, <2>6
<1>12. ASSUME NEW r \in Reveals, RevealReturn(r) PROVE CountBound'
  <2>1. /\ UNCHANGED <<archive, fails, cost, costQ>>
        /\ rows[r] = {} /\ row[r] = {}
        /\ rows' = [rows EXCEPT ![r] = {}] /\ row' = [row EXCEPT ![r] = {}]
    BY <1>0, <1>12 DEF RevealReturn, EndReveal, HeldOnce
  <2>2. \A n \in Msgs : Charging(n)' = Charging(n) /\ Pending(n)' = Pending(n)
    BY <1>0, <2>1 DEF Charging, Pending
  <2> QED
    BY <1>0, <1>1, <2>1, <2>2, BoundsKept
<1>13. ASSUME NEW r \in Reveals, RevealFails(r) PROVE CountBound'
  BY <1>0, <1>1, <1>13, BoundsRaised DEF RevealFails
<1>14. CASE Crash
  <2>1. \A n \in Msgs : Costs(n)' <= Costs(n)
    BY <1>14 DEF Crash, Costs, TypeOK
  <2> QED
    BY <1>0, <1>14, <2>1, BoundsRaised DEF Crash
<1> QED
  BY <1>5, <1>6, <1>7, <1>8, <1>9, <1>10, <1>11, <1>12, <1>13, <1>14
  DEF Next, Handle, Reveal

\* So the invariant holds in every state.
LEMMA BoundAlways == Spec => []BoundInv
<1>1. Init => BoundInv
  <2> SUFFICES ASSUME Init PROVE BoundInv
    OBVIOUS
  <2>1. Untouched /\ HeldOnce /\ fails = 0
    BY BillingAssumption DEF Init, Untouched, HeldOnce, Costs
  <2>2. \A m \in Msgs : m \notin archive /\ Costs(m) = 0
    BY DEF Init, Costs
  <2>3. \A m \in Msgs : Cardinality(Reveals \ Pending(m)) \in Nat /\ Earlier(fails) \in Nat
    <3>1. Cardinality(Reveals) \in Nat
      BY RevealSets
    <3> QED
      BY <2>1, <3>1, RevealSets DEF Earlier
  <2> QED
    BY <2>1, <2>2, <2>3 DEF BoundInv, CountBound
<1>2. TypeOK /\ TypeOK' /\ BoundInv /\ [Next]_vars => BoundInv'
  BY UntouchedStep, HeldStep, CountStep DEF BoundInv
<1> QED
  BY <1>1, <1>2, TypeCorrect, PTL DEF Spec

\* However many reveals overlap, a message is charged at most once by each of them, and
\* once more by each for every reveal or server that was cut off.
THEOREM ChargeBounded == Spec => []ChargeBound
<1>1. TypeOK /\ BoundInv => ChargeBound
  BY Ceiling DEF BoundInv, ChargeBound
<1> QED
  BY <1>1, BoundAlways, TypeCorrect, PTL

-----------------------------------------------------------------------------
(***************************************************************************)
(* The refinement of PaidMessages.                                         *)
(***************************************************************************)
Vars == <<Bill, encrypt \cap Maskable, seen \cap Maskable>>

\* A step that charges one message adds one to its bill, if it has one.
LEMMA BillGrows ==
  ASSUME TypeOK, NEW m \in Msgs,
         \A n \in Msgs : Costs(n)' = IF n = m THEN Costs(n) + 1 ELSE Costs(n)
  PROVE  Bill' = IF m \in Maskable THEN [Bill EXCEPT ![m] = @ + 1] ELSE Bill
<1>1. \A n \in Maskable : Costs(n)' = IF n = m THEN Costs(n) + 1 ELSE Costs(n)
  BY BillingAssumption
<1>2. Bill' = [n \in Maskable |-> IF n = m THEN Costs(n) + 1 ELSE Costs(n)]
  BY <1>1 DEF Bill
<1> QED
  BY <1>2 DEF Bill

\* A step that charges nothing leaves the bills.
LEMMA BillKept ==
  ASSUME \A m \in Msgs : Costs(m)' = Costs(m)
  PROVE  Bill' = Bill
  BY BillingAssumption DEF Bill

\* Without faults, every step keeps the ledger or does not show in it.
LEMMA LedgerStep ==
  ASSUME Faults = {}, TypeOK, TypeOK', FreeInv, BoundInv, ChargeBound', fails' = 0, [Next]_vars
  PROVE  [Paid!Next]_Vars
<1> USE DEF GoTo, queueVars, revealVars
<1>0. /\ rows \in [Reveals -> SUBSET encrypt] /\ page \in [Reveals -> SUBSET encrypt]
      /\ encrypt \subseteq Msgs /\ seen \subseteq Msgs /\ Maskable \subseteq Msgs
      /\ \A m \in Msgs : Costs(m) \in Nat
      /\ Untouched /\ ClearCharged /\ PageCharged
      /\ \A m \in Maskable : Bill[m] = Costs(m)
  BY CostsNat, BillingAssumption DEF TypeOK, FreeInv, BoundInv, Bill
<1>1. ASSUME UNCHANGED <<cost, costQ>> PROVE Bill' = Bill
  BY <1>1 DEF Bill, Costs
<1>2. ASSUME \/ \E k \in Keys : Flip(k)
             \/ \E m \in Msgs : Filter(m) \/ Insert(m)
             \/ \E r \in Reveals : RevealCheck(r) \/ RevealSelect(r) \/ RevealDelete(r)
             \/ UNCHANGED vars
      PROVE  UNCHANGED Vars
  <2>1. UNCHANGED <<cost, costQ, encrypt, seen>>
    BY <1>2 DEF Flip, Filter, Insert, RevealCheck, RevealSelect, RevealDelete, vars
  <2> QED
    BY <1>1, <2>1 DEF Vars
<1>3. ASSUME NEW m \in Msgs, Produce(m) PROVE UNCHANGED Vars
  <2>1. Bill' = Bill
    BY <1>3, CostsProduce, BillKept
  <2>2. UNCHANGED <<encrypt, seen>>
    BY <1>3 DEF Produce
  <2> QED
    BY <2>1, <2>2 DEF Vars
<1>4. ASSUME NEW m \in Msgs, Mask(m) PROVE Paid!Next \/ UNCHANGED Vars
  <2>1. Bill' = Bill /\ encrypt' = encrypt \cup {m} /\ seen' = seen
    BY <1>1, <1>4 DEF Mask
  <2>2. CASE m \in Maskable
    <3>1. Bill[m] = 0 /\ m \notin encrypt
      BY <1>0, <1>4, <2>2 DEF Mask, Untouched
    <3>2. Paid!Hide(m)
      BY <2>1, <2>2, <3>1 DEF Paid!Hide, Paid!Undecided
    <3> QED
      BY <2>2, <3>2 DEF Paid!Next
  <2>3. CASE m \notin Maskable
    BY <2>1, <2>3 DEF Vars
  <2> QED
    BY <2>2, <2>3
<1>5. ASSUME NEW m \in Msgs, Charge(m) PROVE Paid!Next \/ UNCHANGED Vars
  <2>1. \A n \in Msgs : Costs(n)' = IF n = m THEN Costs(n) + 1 ELSE Costs(n)
    BY <1>5, CostsGrow DEF Charge
  <2>2. Bill' = IF m \in Maskable THEN [Bill EXCEPT ![m] = @ + 1] ELSE Bill
    BY <2>1, BillGrows
  <2>3. UNCHANGED <<encrypt, seen>>
    BY <1>5 DEF Charge
  <2>4. CASE m \in Maskable
    <3>1. Bill[m] = 0 /\ m \notin encrypt
      BY <1>0, <1>5, <2>4 DEF Charge, Untouched
    <3>2. Paid!ChargeInClear(m)
      BY <2>2, <2>3, <2>4, <3>1 DEF Paid!ChargeInClear, Paid!Undecided, Paid!AddBill
    <3> QED
      BY <2>4, <3>2 DEF Paid!Next
  <2>5. CASE m \notin Maskable
    BY <2>2, <2>3, <2>5 DEF Vars
  <2> QED
    BY <2>4, <2>5
\* A message that is sent with its content was charged in clear.
<1>6. ASSUME NEW m \in Msgs, Send(m) PROVE Paid!Next \/ UNCHANGED Vars
  <2>1. UNCHANGED <<encrypt, cost, costQ>> /\ Bill' = Bill
    BY <1>1, <1>6 DEF Send
  <2>2. CASE m \in Maskable \ encrypt /\ seen' = seen \cup {m}
    <3>1. Bill[m] > 0
      BY <1>0, <1>6, <2>2 DEF Send, ClearCharged
    <3>2. Paid!Show({m})
      BY <2>1, <2>2, <3>1 DEF Paid!Show
    <3> QED
      BY <2>2, <3>2 DEF Paid!Next
  <2>3. CASE ~(m \in Maskable \ encrypt /\ seen' = seen \cup {m})
    <3>1. seen' \cap Maskable = seen \cap Maskable
      BY <1>6, <2>3 DEF Send
    <3> QED
      BY <2>1, <3>1 DEF Vars
  <2> QED
    BY <2>2, <2>3
\* A row that a reveal charges is hidden, and the bound was not reached.
<1>7. ASSUME NEW r \in Reveals, NEW m \in Msgs, RevealRow(r, m)
      PROVE  Paid!Next \/ UNCHANGED Vars
  <2>1. \A n \in Msgs : Costs(n)' = IF n = m THEN Costs(n) + 1 ELSE Costs(n)
    BY <1>7, CostsGrow DEF RevealRow
  <2>2. Bill' = IF m \in Maskable THEN [Bill EXCEPT ![m] = @ + 1] ELSE Bill
    BY <2>1, BillGrows
  <2>3. UNCHANGED <<encrypt, seen>> /\ m \in encrypt
    BY <1>0, <1>7 DEF RevealRow
  <2>4. CASE m \in Maskable
    <3>1. Bill[m] < Cardinality(Reveals)
      <4>1. Costs(m) + 1 <= Cardinality(Reveals) * (1 + fails')
        BY <2>1 DEF ChargeBound
      <4>2. Cardinality(Reveals) \in Nat
        BY RevealSets
      <4>3. Cardinality(Reveals) * (1 + fails') = Cardinality(Reveals)
        BY <4>2
      <4> QED
        BY <1>0, <2>4, <4>1, <4>2, <4>3
    <3>2. Paid!ChargeHidden(m)
      BY <2>2, <2>3, <2>4, <3>1 DEF Paid!ChargeHidden, Paid!AddBill
    <3> QED
      BY <2>4, <3>2 DEF Paid!Next
  <2>5. CASE m \notin Maskable
    BY <2>2, <2>3, <2>5 DEF Vars
  <2> QED
    BY <2>4, <2>5
\* A reveal returns its page when it has charged every row of it.
<1>8. ASSUME NEW r \in Reveals, RevealReturn(r) PROVE Paid!Next
  <2>1. /\ UNCHANGED <<encrypt, cost, costQ>> /\ Bill' = Bill
        /\ seen' = seen \cup page[r] /\ rows[r] = {}
    BY <1>1, <1>8 DEF RevealReturn
  <2>2. \A m \in page[r] \cap Maskable : Bill[m] > 0
    BY <1>0, <2>1 DEF PageCharged
  <2>3. seen' \cap Maskable = (seen \cap Maskable) \cup (page[r] \cap Maskable)
    BY <2>1
  <2>4. Paid!Show(page[r] \cap Maskable)
    BY <2>1, <2>2, <2>3 DEF Paid!Show
  <2> QED
    BY <2>4 DEF Paid!Next
<1>9. ~ Crash /\ \A r \in Reveals : ~ RevealFails(r)
  BY DEF Crash, RevealFails
<1> QED
  BY <1>2, <1>3, <1>4, <1>5, <1>6, <1>7, <1>8, <1>9 DEF Next, Handle, Reveal

\* Without faults, filter, the pools and the reveals keep the ledger of PaidMessages.
THEOREM LedgerKept == ASSUME Faults = {} PROVE Spec => KeepsLedger
<1>1. Init => Paid!Init
  BY BillingAssumption DEF Init, Paid!Init, Bill, Costs
<1>2. Spec => [](fails = 0)
  <2>1. Init => fails = 0
    BY DEF Init
  <2>2. fails = 0 /\ [Next]_vars => (fails = 0)'
    BY DEF Next, vars, Flip, Handle, Filter, Mask, Charge, Send, Insert, Produce, Reveal,
       RevealCheck, RevealSelect, RevealRow, RevealDelete, RevealReturn, RevealFails, Crash
  <2> QED
    BY <2>1, <2>2, PTL DEF Spec
<1>3. TypeOK /\ TypeOK' /\ FreeInv /\ BoundInv /\ ChargeBound' /\ (fails = 0)' /\ [Next]_vars
        => [Paid!Next]_Vars
  BY LedgerStep
<1> QED
  BY <1>1, <1>2, <1>3, TypeCorrect, FreeAlways, BoundAlways, ChargeBounded, PTL
  DEF Spec, KeepsLedger, Paid!Spec, Paid!vars, Vars

===============================================================================
