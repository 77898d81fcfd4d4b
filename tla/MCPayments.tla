----------------------------- MODULE MCPayments -----------------------------
(***************************************************************************)
(* Instances of Payments for TLC.                                          *)
(***************************************************************************)
EXTENDS Payments, TLC

ByTransfer == [t \in Transactions |-> "BANK_TRANSFER"]

\* One payment by card, the others by telephone.
Mixed == [t \in Transactions |-> IF t = CHOOSE u \in Transactions : TRUE
                                 THEN "CARD" ELSE "MULTICAIXA_EXPRESS"]

Symmetry == Permutations(Transactions) \cup Permutations(Handlers)
=============================================================================
