--------------------------- MODULE InvoiceLedger ---------------------------
(***************************************************************************)
(* What invoicing promises: in each yearly series documents are numbered   *)
(* one after the other, each is for one payment, no payment has two, and   *)
(* what is issued is never changed (billing/invoice-series.service.ts,     *)
(* docs/BILLING.md, sections 8.3 and 9.1).                                 *)
(***************************************************************************)
EXTENDS Naturals, Sequences

CONSTANTS Transactions, Years

VARIABLE ledger   \* for each series, the transactions each of its documents is for

Init == ledger = [y \in Years |-> <<>>]

Invoiced(t) == \E y \in Years : \E n \in DOMAIN ledger[y] : t \in ledger[y][n]

Issue(t, y) ==
  /\ ~Invoiced(t)
  /\ ledger' = [ledger EXCEPT ![y] = Append(@, {t})]

Next == \E t \in Transactions, y \in Years : Issue(t, y)

Spec == Init /\ [][Next]_ledger
=============================================================================
