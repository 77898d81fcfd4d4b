---------------------------- MODULE CheckoutPages ----------------------------
(***************************************************************************)
(* The two pages on which a payment is made: the checkout of an            *)
(* organization and the subscription of a customer.  Both create a         *)
(* transaction, show how to pay it, take a proof of the payment, and ask   *)
(* every few seconds whether it was confirmed; a card is paid in a form of *)
(* the provider.  Payments models what the server does with them; here it  *)
(* is reduced to the states a page can be told.                            *)
(* A definition named <What>_<definition> is <definition> with a bug in it *)
(* that the properties are shown to catch; nothing else uses it.           *)
(***************************************************************************)
EXTENDS FiniteSets

CONSTANTS
  Purchases,  \* the transactions that can be created, a bound
  NoPurchase,
  Available   \* the methods the server says are configured, or all if it does not answer

ASSUME CheckoutOK == NoPurchase \notin Purchases

VARIABLES
  payer,      \* whose page it is: "organization" or "customer"
  method,     \* the method chosen
  request,    \* what submit waits for: "checkout", "payment-intent" or "nothing"
  result,     \* the transaction whose instructions are shown
  cardIntent, \* the transaction of the card form
  cardPaid,
  paying,     \* the card form waits for the provider
  confirmed,  \* the page says that the payment is confirmed
  proofSent,  \* the page says that the proof was received
  upload,     \* the transaction whose proof is being sent
  checks,     \* polls under way: of which transaction, and what they were told
  standing,   \* of each transaction, on the server
  subscribed, \* the customer's subscription is active
  confirmable \* transactions of which a poll could have been told that they are confirmed

checkoutVars == <<payer, method, request, result, cardIntent, cardPaid, paying, confirmed,
                  proofSent, upload, checks, standing, subscribed, confirmable>>

METHODS == {"MULTICAIXA_EXPRESS", "BANK_TRANSFER", "QR_CODE", "CARD"}

\* Only the organization's page asks which methods are configured.
methodAvailable(option) == payer = "customer" \/ option \in Available

\* The organization's page has a flag of its own for the proof; on the customer's one, the
\* button is disabled while a proof is sent.
busy == \/ request # "nothing"
        \/ payer = "customer" /\ upload # NoPurchase

CheckoutInit ==
  /\ payer \in {"organization", "customer"}
  /\ method = "MULTICAIXA_EXPRESS"
  /\ request = "nothing" /\ result = NoPurchase
  /\ cardIntent = NoPurchase /\ cardPaid = FALSE /\ paying = FALSE
  /\ confirmed = FALSE /\ proofSent = FALSE /\ upload = NoPurchase
  /\ checks = {}
  /\ standing = [p \in Purchases |-> "none"]
  /\ subscribed \in BOOLEAN
  /\ confirmable = {}

-----------------------------------------------------------------------------
\* The screen with the methods is shown while there is no result.

setMethod(option) ==
  /\ result = NoPurchase
  /\ methodAvailable(option) /\ option # method
  /\ method' = option
  /\ UNCHANGED <<payer, request, result, cardIntent, cardPaid, paying, confirmed, proofSent,
                 upload, checks, standing, subscribed>>

\* The button is gone once a card form was opened or a card paid, whatever the method.
submit ==
  /\ result = NoPurchase /\ cardIntent = NoPurchase /\ ~cardPaid
  /\ ~busy
  /\ request' = IF method = "CARD" THEN "payment-intent" ELSE "checkout"
  /\ proofSent' = FALSE /\ confirmed' = FALSE /\ cardPaid' = FALSE
  /\ UNCHANGED <<payer, method, result, cardIntent, paying, upload, checks, standing, subscribed>>

Poll(p) == [of |-> p, says |-> "nothing yet"]

\* The transaction is created; its answer arrives or is lost.
SubmitAnswered(p, arrives) ==
  /\ request # "nothing" /\ standing[p] = "none"
  /\ standing' = [standing EXCEPT ![p] = "PENDING"]
  /\ request' = "nothing"
  /\ cardIntent' = IF arrives /\ request = "payment-intent" THEN p ELSE cardIntent
  /\ IF arrives /\ request = "checkout"
     THEN result' = p /\ checks' = checks \cup {Poll(p)}
     ELSE UNCHANGED <<result, checks>>
  /\ UNCHANGED <<payer, method, cardPaid, paying, confirmed, proofSent, upload, subscribed>>

SubmitRefused ==
  /\ request # "nothing"
  /\ request' = "nothing"
  /\ UNCHANGED <<payer, method, result, cardIntent, cardPaid, paying, confirmed, proofSent,
                 upload, checks, standing, subscribed>>

\* The card form; one that was left while it waited and the one mounted since count as one.
pay ==
  /\ result = NoPurchase /\ method = "CARD" /\ cardIntent # NoPurchase /\ ~cardPaid
  /\ ~paying
  /\ paying' = TRUE
  /\ UNCHANGED <<payer, method, request, result, cardIntent, cardPaid, confirmed, proofSent,
                 upload, checks, standing, subscribed>>

\* "processing" counts as paid, before any webhook.
CardAnswered(answer) ==
  /\ paying
  /\ paying' = FALSE
  /\ IF answer \in {"succeeded", "processing"}
     THEN cardPaid' = TRUE /\ confirmed' = TRUE
     ELSE UNCHANGED <<cardPaid, confirmed>>
  /\ UNCHANGED <<payer, method, request, result, cardIntent, proofSent, upload, checks,
                 standing, subscribed>>

-----------------------------------------------------------------------------
\* The screen with the instructions is shown while there is a result.

organizationCheck(p) == standing[p] = "SUCCEEDED"

\* Whatever it was that the subscription became active for.
customerCheck(p) == subscribed

Told(p) == IF payer = "organization" THEN organizationCheck(p) ELSE customerCheck(p)

\* The effect that polls ends when its payment is confirmed or no longer shown: replies that
\* are still under way are dropped.
Counted_afterCleanup(polls) == polls
afterCleanup(polls) == {}

check ==
  /\ result # NoPurchase /\ ~confirmed
  /\ checks' = checks \cup {Poll(result)}
  /\ UNCHANGED <<payer, method, request, result, cardIntent, cardPaid, paying, confirmed,
                 proofSent, upload, standing, subscribed>>

CheckRead(c) ==
  /\ c.says = "nothing yet"
  /\ checks' = (checks \ {c}) \cup {[c EXCEPT !.says = IF Told(c.of) THEN "yes" ELSE "no"]}
  /\ UNCHANGED <<payer, method, request, result, cardIntent, cardPaid, paying, confirmed,
                 proofSent, upload, standing, subscribed>>

\* Its answer, or that it failed: the next tick asks again.
CheckAnswered(c) ==
  /\ confirmed' = (confirmed \/ c.says = "yes")
  /\ checks' = IF c.says = "yes" THEN afterCleanup(checks \ {c}) ELSE checks \ {c}
  /\ UNCHANGED <<payer, method, request, result, cardIntent, cardPaid, paying, proofSent,
                 upload, standing, subscribed>>

submitProof ==
  /\ result # NoPurchase /\ ~proofSent /\ upload = NoPurchase
  /\ upload' = result
  /\ UNCHANGED <<payer, method, request, result, cardIntent, cardPaid, paying, confirmed,
                 proofSent, checks, standing, subscribed>>

\* Which states a proof may overwrite is for Payments to say.
ProofAnswered(accepted) ==
  /\ upload # NoPurchase
  /\ upload' = NoPurchase
  /\ IF accepted
     THEN /\ standing' \in {standing, [standing EXCEPT ![upload] = "UNDER_REVIEW"]}
          /\ proofSent' = TRUE
     ELSE UNCHANGED <<standing, proofSent>>
  /\ UNCHANGED <<payer, method, request, result, cardIntent, cardPaid, paying, confirmed,
                 checks, subscribed>>

newCheckout ==
  /\ result # NoPurchase
  /\ result' = NoPurchase
  /\ checks' = afterCleanup(checks)
  /\ UNCHANGED <<payer, method, request, cardIntent, cardPaid, paying, confirmed, proofSent,
                 upload, standing, subscribed>>

-----------------------------------------------------------------------------
\* The server, in the meantime.

PaymentApplied(p) ==
  /\ standing[p] \in {"PENDING", "UNDER_REVIEW", "FAILED"}
  /\ standing' = [standing EXCEPT ![p] = "SUCCEEDED"]
  /\ subscribed' = (subscribed \/ payer = "customer")
  /\ UNCHANGED <<payer, method, request, result, cardIntent, cardPaid, paying, confirmed,
                 proofSent, upload, checks>>

PaymentFailed(p) ==
  /\ standing[p] \in {"PENDING", "UNDER_REVIEW"}
  /\ standing' = [standing EXCEPT ![p] = "FAILED"]
  /\ UNCHANGED <<payer, method, request, result, cardIntent, cardPaid, paying, confirmed,
                 proofSent, upload, checks, subscribed>>

PeriodEnds ==
  /\ subscribed
  /\ subscribed' = FALSE
  /\ UNCHANGED <<payer, method, request, result, cardIntent, cardPaid, paying, confirmed,
                 proofSent, upload, checks, standing>>

\* A poll asked for p since it is shown could have been told that it is confirmed.
Confirmable(p) == result = p /\ Told(p)

CheckoutNext ==
  /\ \/ \E option \in METHODS : setMethod(option)
     \/ submit
     \/ \E p \in Purchases, arrives \in BOOLEAN : SubmitAnswered(p, arrives)
     \/ SubmitRefused
     \/ pay
     \/ \E answer \in {"succeeded", "processing", "declined"} : CardAnswered(answer)
     \/ check
     \/ \E c \in checks : CheckRead(c) \/ CheckAnswered(c)
     \/ submitProof
     \/ \E accepted \in BOOLEAN : ProofAnswered(accepted)
     \/ newCheckout
     \/ \E p \in Purchases : PaymentApplied(p) \/ PaymentFailed(p)
     \/ PeriodEnds
  /\ confirmable' = confirmable \cup {p \in Purchases : Confirmable(p)'}

-----------------------------------------------------------------------------
\* The page says "confirmed" under the instructions of a payment only if a poll asked for
\* that payment, while it was shown, could have been told so: an organization's payment
\* must have succeeded, whatever payment was shown before and whichever polls of it are
\* still under way; a customer's subscription must have been active.
ConfirmedMeansPaid ==
  confirmed /\ result # NoPurchase => result \in confirmable
=============================================================================
