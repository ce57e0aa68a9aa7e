------------------------------ MODULE PaidMessages ------------------------------
(***************************************************************************)
(* What charging promises, without Redis, tables, pools or pages: a ledger *)
(* of the messages whose content can be hidden.  A message is either       *)
(* charged once and left in clear, or hidden before anything was charged;  *)
(* only what is hidden is charged again, at most once for each of those    *)
(* who may reveal it at the same time; and nothing is shown unpaid.        *)
(***************************************************************************)
EXTENDS Naturals

CONSTANTS
  Msgs,      \* the messages whose content can be hidden
  MaxBill    \* how often one of them may be charged

VARIABLES
  bill,      \* bill[m]: how often m was charged
  hidden,    \* the messages behind a placeholder
  shown      \* the messages whose content was shown

vars == <<bill, hidden, shown>>

Init ==
  /\ bill = [m \in Msgs |-> 0]
  /\ hidden = {}
  /\ shown = {}

Undecided(m) == bill[m] = 0 /\ m \notin hidden

AddBill(m) == bill' = [bill EXCEPT ![m] = @ + 1]

ChargeInClear(m) == Undecided(m) /\ AddBill(m) /\ UNCHANGED <<hidden, shown>>

Hide(m) == Undecided(m) /\ hidden' = hidden \cup {m} /\ UNCHANGED <<bill, shown>>

ChargeHidden(m) ==
  /\ m \in hidden /\ bill[m] < MaxBill
  /\ AddBill(m)
  /\ UNCHANGED <<hidden, shown>>

Show(S) ==
  /\ \A m \in S : bill[m] > 0
  /\ shown' = shown \cup S
  /\ UNCHANGED <<bill, hidden>>

Next ==
  \/ \E m \in Msgs : ChargeInClear(m) \/ Hide(m) \/ ChargeHidden(m)
  \/ \E S \in SUBSET Msgs : Show(S)

Spec == Init /\ [][Next]_vars

===============================================================================
