----------------------------- MODULE FundPromise -----------------------------
(***************************************************************************)
(* What a group fund promises its readers, with no payments, expenses,     *)
(* requests or ledger: an event is open or settled; settling posts some    *)
(* amount once, reopening takes exactly that amount back, and in between   *)
(* single late payments (or their reversals) arrive, which a reopen never  *)
(* takes back (FinanceService#settle, #reopen, #onPaymentReviewed).        *)
(***************************************************************************)
EXTENDS Integers, FiniteSets, Functions

CONSTANT Event

VARIABLES settled,  \* is the event settled
          posted,   \* what its current settlement posted; 0 while open
          late,     \* what late payments have posted for it, ever
          balance   \* the fund

vars == <<settled, posted, late, balance>>

Init ==
  /\ settled = [e \in Event |-> FALSE]
  /\ posted = [e \in Event |-> 0]
  /\ late = [e \in Event |-> 0]
  /\ balance = 0

\* Any amount: what the net comes to is the detailed model's business.
Settle(e) ==
  /\ ~settled[e]
  /\ settled' = [settled EXCEPT ![e] = TRUE]
  /\ posted' = [posted EXCEPT ![e] = posted'[e]]
  /\ balance' = balance + posted'[e]
  /\ UNCHANGED late

Reopen(e) ==
  /\ settled[e]
  /\ settled' = [settled EXCEPT ![e] = FALSE]
  /\ posted' = [posted EXCEPT ![e] = 0]
  /\ balance' = balance - posted[e]
  /\ UNCHANGED late

\* Only a settled event receives late payments.
Late(e) ==
  /\ settled[e]
  /\ late' = [late EXCEPT ![e] = late'[e]]
  /\ balance' = balance + late'[e] - late[e]
  /\ UNCHANGED <<settled, posted>>

Next == \E e \in Event : Settle(e) \/ Reopen(e) \/ Late(e)

Spec == Init /\ [][Next]_vars

=============================================================================
