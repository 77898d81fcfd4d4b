-------------------------- MODULE BackOfficeProofs --------------------------
(***************************************************************************)
(* Theorems of BackOffice, one part at a time: what the checkout pages say *)
(* of a payment, the layout and the counts of the analytics report, how    *)
(* far the finances may differ, how long a renewed subscription lasts,     *)
(* what a bank's application reads back from the QR code of a transfer,    *)
(* and what the pages of the web client show.                              *)
(***************************************************************************)
EXTENDS BackOffice, FiniteSetTheorems, SequenceTheorems, WellFoundedInduction, TLAPS

\* A step of the whole is one of the part that is followed, and changes nothing else.
LEMMA StepOfAPart ==
  [Next]_backOfficeVars => /\ [CheckoutNext]_checkoutVars
                           /\ [PdfNext]_pdfVars
                           /\ [AnalyticsNext]_analyticsVars
                           /\ [ReportNext]_reportVars
BY DEF Next, backOfficeVars

-----------------------------------------------------------------------------
\* Checkout.

Answers == {"nothing yet", "yes", "no"}

\* Every poll under way is of the payment that is shown, and one that was told "yes" could
\* have been.  A page that waits for its transaction is not confirmed, and nothing is about
\* to confirm it: no poll runs before instructions are shown, and a card form, once opened,
\* ends the purchases that are not by card.
CheckoutInv ==
  /\ confirmed \in BOOLEAN
  /\ result \in Purchases \cup {NoPurchase}
  /\ checks \subseteq [of : {result} \cap Purchases, says : Answers]
  /\ \A c \in checks : c.says = "yes" => result \in confirmable
  /\ request # "nothing" => result = NoPurchase /\ cardIntent = NoPurchase /\ ~confirmed
  /\ paying => cardIntent # NoPurchase
  /\ cardIntent # NoPurchase => result = NoPurchase
  /\ ConfirmedMeansPaid

LEMMA NewPoll ==
  ASSUME NEW p \in Purchases
  PROVE  Poll(p) \in [of : {p} \cap Purchases, says : Answers] /\ Poll(p).says # "yes"
BY DEF Poll, Answers

LEMMA CheckoutInvInit == Init => CheckoutInv
BY DEF Init, NoCheckout, CheckoutInit, CheckoutInv, ConfirmedMeansPaid

LEMMA CheckoutInvNext == CheckoutInv /\ [CheckoutNext]_checkoutVars => CheckoutInv'
<1> SUFFICES ASSUME CheckoutInv, [CheckoutNext]_checkoutVars PROVE CheckoutInv'
  OBVIOUS
<1> USE CheckoutOK DEF CheckoutInv, ConfirmedMeansPaid
<1>1. CASE UNCHANGED checkoutVars
  BY <1>1 DEF checkoutVars
<1>2. CASE CheckoutNext
  <2>1. confirmable \subseteq confirmable'
    BY <1>2 DEF CheckoutNext
  <2>2. \A p \in Purchases : result' = p /\ Told(p)' => p \in confirmable'
    BY <1>2 DEF CheckoutNext, Confirmable
  <2>3. ASSUME NEW option \in METHODS, setMethod(option) PROVE CheckoutInv'
    BY <2>1, <2>3 DEF setMethod
  <2>4. CASE submit
    BY <2>1, <2>4 DEF submit
  <2>5. ASSUME NEW p \in Purchases, NEW arrives \in BOOLEAN, SubmitAnswered(p, arrives)
        PROVE  CheckoutInv'
    <3>1. result = NoPurchase /\ checks = {} /\ ~confirmed /\ cardIntent = NoPurchase /\ ~paying
      BY <2>5 DEF SubmitAnswered
    <3>2. CASE arrives /\ request = "checkout"
      <4>1. result' = p /\ checks' = {Poll(p)}
        BY <2>5, <3>1, <3>2 DEF SubmitAnswered
      <4>2. checks' \subseteq [of : {result'} \cap Purchases, says : Answers]
        BY <4>1, NewPoll
      <4>3. \A c \in checks' : c.says # "yes"
        BY <4>1, NewPoll
      <4> QED BY <2>1, <2>5, <3>1, <3>2, <4>1, <4>2, <4>3 DEF SubmitAnswered
    <3>3. CASE ~(arrives /\ request = "checkout")
      BY <2>1, <2>5, <3>1, <3>3 DEF SubmitAnswered
    <3> QED BY <3>2, <3>3
  <2>6. CASE SubmitRefused
    BY <2>1, <2>6 DEF SubmitRefused
  <2>7. CASE pay
    BY <2>1, <2>7 DEF pay
  <2>8. ASSUME NEW answer, CardAnswered(answer) PROVE CheckoutInv'
    BY <2>1, <2>8 DEF CardAnswered
  <2>9. CASE check
    <3>1. result \in Purchases
      BY <2>9 DEF check
    <3>2. checks' = checks \cup {Poll(result)} /\ UNCHANGED <<result, confirmed>>
      BY <2>9 DEF check
    <3>3. checks' \subseteq [of : {result'} \cap Purchases, says : Answers]
      BY <3>1, <3>2, NewPoll
    <3>4. \A c \in checks' : c.says = "yes" => result \in confirmable'
      BY <2>1, <3>1, <3>2, NewPoll
    <3> QED BY <2>1, <2>9, <3>2, <3>3, <3>4 DEF check
  <2>10. ASSUME NEW c \in checks, CheckRead(c) PROVE CheckoutInv'
    <3>1. c = [of |-> result, says |-> c.says] /\ result \in Purchases
      OBVIOUS
    <3>2. Told(result)' = Told(result)
      BY <2>10 DEF CheckRead, Told, organizationCheck, customerCheck
    <3> DEFINE d == [of |-> result, says |-> IF Told(result) THEN "yes" ELSE "no"]
    <3>3. checks' = (checks \ {c}) \cup {d}
      <4>1. c.of = result
        BY <3>1
      <4>2. [c EXCEPT !.says = IF Told(c.of) THEN "yes" ELSE "no"] = d
        BY <3>1, <4>1
      <4> QED BY <2>10, <4>2 DEF CheckRead
    <3>4. d.says = "yes" => result \in confirmable'
      BY <2>2, <2>10, <3>1, <3>2 DEF CheckRead
    <3>5. d \in [of : {result} \cap Purchases, says : Answers]
      BY <3>1 DEF Answers
    <3> HIDE DEF d
    <3> QED BY <2>1, <2>10, <3>3, <3>4, <3>5 DEF CheckRead
  <2>11. ASSUME NEW c \in checks, CheckAnswered(c) PROVE CheckoutInv'
    BY <2>1, <2>11 DEF CheckAnswered, afterCleanup
  <2>12. CASE submitProof
    BY <2>1, <2>12 DEF submitProof
  <2>13. ASSUME NEW accepted \in BOOLEAN, ProofAnswered(accepted) PROVE CheckoutInv'
    BY <2>1, <2>13 DEF ProofAnswered
  <2>14. CASE newCheckout
    BY <2>1, <2>14 DEF newCheckout, afterCleanup
  <2>15. ASSUME NEW p \in Purchases, PaymentApplied(p) \/ PaymentFailed(p) PROVE CheckoutInv'
    BY <2>1, <2>15 DEF PaymentApplied, PaymentFailed
  <2>16. CASE PeriodEnds
    BY <2>1, <2>16 DEF PeriodEnds
  <2> QED BY <1>2, <2>3, <2>4, <2>5, <2>6, <2>7, <2>8, <2>9, <2>10, <2>11, <2>12, <2>13, <2>14,
             <2>15, <2>16 DEF CheckoutNext
<1> QED BY <1>1, <1>2

\* The page says "confirmed" under the instructions of a payment only if a poll asked for
\* that payment while it was shown could have been told so, however many purchases are made
\* one after the other, in whatever order their answers, polls and proofs arrive.
THEOREM ConfirmedIsPaid == Spec => []ConfirmedMeansPaid
<1>1. CheckoutInv => ConfirmedMeansPaid
  BY DEF CheckoutInv
<1> QED BY <1>1, CheckoutInvInit, CheckoutInvNext, StepOfAPart, PTL DEF Spec

-----------------------------------------------------------------------------
\* The report as a document.

Items == [what : {"space"}, needed : {60, 200}] \cup [what : {"peak"}, lines : 1..2]
         \cup [what : {"masthead", "kpis", "title", "header", "row", "tableEnd", "chart", "end"}]

\* A chart is to be drawn after the title at i.
ChartAfter(s, i) == i < Len(s) /\ s[i + 1].what = "chart"

\* What may follow what: a title the figures or a test for space, that of a chart a test
\* for 200 points; a row the header or a row; the end ends the report.
Follows(s, i) ==
  /\ s[i + 1].what # "masthead"
  /\ s[i].what # "end"
  /\ s[i + 1].what = "kpis" => s[i].what = "masthead"
  /\ s[i + 1].what = "title" =>
       \/ s[i].what = "kpis" /\ ~ChartAfter(s, i + 1)
       \/ s[i].what = "space" /\ s[i].needed >= (IF ChartAfter(s, i + 1) THEN 200 ELSE 60)
  /\ s[i + 1].what \in {"peak", "chart"} => s[i].what = "title"
  /\ s[i + 1].what = "row" => s[i].what \in {"header", "row"}
  /\ s[i].what \in {"header", "row"} => s[i + 1].what \in {"row", "tableEnd"}

InOrder(s) == \A i \in 1..(Len(s) - 1) : Follows(s, i)

\* A section that follows another starts with a test for space, or is the end.
Section(s) == /\ s \in Seq(Items)
              /\ s # <<>>
              /\ InOrder(s)
              /\ s[1].what \in {"space", "end"}

\* A section that another may follow.
Middle(s) == Section(s) /\ s[Len(s)].what \notin {"title", "header", "row", "end"}

\* A report so far: it starts with the masthead and does not end.
Beginning(s) == /\ s \in Seq(Items)
                /\ s # <<>>
                /\ InOrder(s)
                /\ s[1].what = "masthead"
                /\ s[Len(s)].what \notin {"title", "header", "row", "end"}

\* One sequence after another, item by item.
LEMMA Joined ==
  ASSUME NEW s \in Seq(Items), NEW t \in Seq(Items), NEW u, u = s \o t,
         NEW m, NEW n, m = Len(s), n = Len(t)
  PROVE  /\ u \in Seq(Items)
         /\ Len(u) = m + n
         /\ \A i \in 1..m : u[i] = s[i]
         /\ \A j \in 1..n : u[m + j] = t[j]
<1>1. m \in Nat /\ n \in Nat
  OBVIOUS
<1>2. s \o t \in Seq(Items) /\ Len(s \o t) = Len(s) + Len(t)
  BY ConcatProperties
<1>3. \A i \in 1..(Len(s) + Len(t)) : (s \o t)[i] = IF i <= Len(s) THEN s[i] ELSE t[i - Len(s)]
  BY ConcatProperties
<1>4. /\ u \in Seq(Items) /\ Len(u) = m + n
      /\ \A i \in 1..(m + n) : u[i] = IF i <= m THEN s[i] ELSE t[i - m]
  BY <1>1, <1>2, <1>3
<1>5. ASSUME NEW i \in 1..m PROVE u[i] = s[i]
  BY <1>1, <1>4
<1>6. ASSUME NEW j \in 1..n PROVE u[m + j] = t[j]
  <2>1. m + j \in 1..(m + n) /\ ~(m + j <= m) /\ m + j - m = j
    BY <1>1
  <2> QED BY <1>4, <2>1
<1> QED BY <1>4, <1>5, <1>6

\* A section can follow whatever does not end the report.
LEMMA SectionFollows ==
  ASSUME NEW s, NEW t, Beginning(s), Section(t)
  PROVE  /\ s \o t \in Seq(Items) /\ s \o t # <<>>
         /\ InOrder(s \o t)
         /\ (s \o t)[1] = s[1]
         /\ (s \o t)[Len(s \o t)] = t[Len(t)]
<1>1. PICK m \in Nat : m = Len(s) /\ m > 0
  BY EmptySeq DEF Beginning
<1>2. PICK n \in Nat : n = Len(t) /\ n > 0
  BY EmptySeq DEF Section
<1>3. s \in Seq(Items) /\ t \in Seq(Items)
  BY DEF Beginning, Section
<1>0. PICK u : u = s \o t
  OBVIOUS
<1>4. /\ u \in Seq(Items) /\ Len(u) = m + n
      /\ \A i \in 1..m : u[i] = s[i]
      /\ \A j \in 1..n : u[m + j] = t[j]
  BY <1>0, <1>1, <1>2, <1>3, Joined
<1>5. ASSUME NEW i \in 1..(m + n - 1) PROVE Follows(u, i)
  <2>1. CASE i < m
    <3>1. i \in 1..m /\ i + 1 \in 1..m /\ i \in 1..(m - 1)
      BY <2>1
    <3>2. u[i] = s[i] /\ u[i + 1] = s[i + 1] /\ Follows(s, i)
      BY <1>1, <1>4, <3>1 DEF Beginning, InOrder
    <3>3. u[i + 1].what = "title" => ChartAfter(u, i + 1) = ChartAfter(s, i + 1)
      <4>1. CASE i + 1 < m
        <5>1. i + 1 + 1 \in 1..m
          BY <4>1
        <5> QED BY <1>1, <1>4, <4>1, <5>1 DEF ChartAfter
      <4>2. CASE i + 1 = m
        BY <1>1, <3>2, <4>2 DEF Beginning
      <4> QED BY <2>1, <4>1, <4>2
    <3> QED BY <3>2, <3>3 DEF Follows
  <2>2. CASE i = m
    <3>1. u[i] = s[m] /\ u[i + 1] = t[1]
      <4>1. i \in 1..m /\ 1 \in 1..n
        BY <1>1, <1>2, <2>2
      <4> QED BY <1>4, <2>2, <4>1
    <3> QED BY <1>1, <3>1 DEF Follows, Beginning, Section
  <2>3. CASE i > m
    <3>1. PICK j \in 1..(n - 1) : i = m + j
      <4>1. i - m \in 1..(n - 1) /\ i = m + (i - m)
        BY <2>3
      <4> QED BY <4>1
    <3>2. /\ u[i] = t[j] /\ u[i + 1] = t[j + 1] /\ Follows(t, j)
      <4>1. j \in 1..n /\ j + 1 \in 1..n /\ i + 1 = m + (j + 1)
        BY <3>1
      <4> QED BY <1>2, <1>4, <3>1, <4>1 DEF Section, InOrder
    <3>3. ChartAfter(u, i + 1) = ChartAfter(t, j + 1)
      <4>1. CASE j + 1 < n
        <5>1. j + 1 + 1 \in 1..n /\ i + 1 + 1 = m + (j + 1 + 1)
          BY <3>1, <4>1
        <5> QED BY <1>2, <1>4, <3>1, <4>1, <5>1 DEF ChartAfter
      <4>2. CASE j + 1 = n
        BY <1>2, <1>4, <3>1, <4>2 DEF ChartAfter
      <4> QED BY <4>1, <4>2
    <3> QED BY <3>2, <3>3 DEF Follows
  <2> QED BY <2>1, <2>2, <2>3
<1>6. InOrder(u)
  BY <1>4, <1>5 DEF InOrder
<1>7. u[1] = s[1] /\ u[Len(u)] = t[Len(t)] /\ u # <<>>
  <2>1. 1 \in 1..m /\ n \in 1..n
    BY <1>1, <1>2
  <2>2. u[m + n] = t[n] /\ u[1] = s[1]
    BY <1>4, <2>1
  <2>3. m + n > 0
    BY <1>1
  <2> QED BY <1>2, <1>4, <2>2, <2>3
<1> QED BY <1>0, <1>4, <1>6, <1>7

\* A sequence with a length is not the empty one.
LEMMA NotEmpty ==
  ASSUME NEW s, NEW n \in Nat, Len(s) = n, n > 0
  PROVE  s # <<>>
BY EmptySeq

\* Items written one by one.
LEMMA ThreeInARow ==
  ASSUME NEW a \in Items, NEW b \in Items, NEW c \in Items
  PROVE  <<a>> \o <<b>> \o <<c>> = <<a, b, c>>
<1>1. <<a>> \in Seq(Items) /\ <<b>> \in Seq(Items) /\ <<c>> \in Seq(Items)
  OBVIOUS
<1>0. PICK u, v : u = <<a>> \o <<b>> /\ v = u \o <<c>>
  OBVIOUS
<1>2. u \in Seq(Items) /\ Len(u) = 2 /\ u[1] = a /\ u[2] = b
  <2>1. 1 = Len(<<a>>) /\ 1 = Len(<<b>>)
    OBVIOUS
  <2>2. /\ u \in Seq(Items) /\ Len(u) = 1 + 1
        /\ \A i \in 1..1 : u[i] = <<a>>[i]
        /\ \A j \in 1..1 : u[1 + j] = <<b>>[j]
    BY <1>0, <1>1, <2>1, Joined
  <2> QED BY <2>2
<1>3. v \in Seq(Items) /\ Len(v) = 3 /\ v[1] = u[1] /\ v[2] = u[2] /\ v[3] = c
  <2>1. 2 = Len(u) /\ 1 = Len(<<c>>)
    BY <1>2
  <2>2. /\ v \in Seq(Items) /\ Len(v) = 2 + 1
        /\ \A i \in 1..2 : v[i] = u[i]
        /\ \A j \in 1..1 : v[2 + j] = <<c>>[j]
    BY <1>0, <1>1, <1>2, <2>1, Joined
  <2> QED BY <2>2
<1>4. Len(v) = 3 /\ v[1] = a /\ v[2] = b /\ v[3] = c
  BY <1>2, <1>3
<1>5. v = <<a, b, c>>
  <2>1. <<a, b, c>> \in Seq(Items) /\ Len(<<a, b, c>>) = 3
    OBVIOUS
  <2>2. \A i \in 1..3 : v[i] = <<a, b, c>>[i]
    <3>1. \A i \in 1..3 : i = 1 \/ i = 2 \/ i = 3
      OBVIOUS
    <3> QED BY <1>4, <3>1
  <2> QED BY <1>3, <1>4, <2>1, <2>2, SeqEqual
<1> QED BY <1>0, <1>5

LEMMA FourInARow ==
  ASSUME NEW a \in Items, NEW b \in Items, NEW c \in Items, NEW d \in Items
  PROVE  <<a, b>> \o (<<c>> \o <<d>>) = <<a, b, c, d>>
<1>0. PICK x, z : x = <<c>> \o <<d>> /\ z = <<a, b>> \o x
  OBVIOUS
<1>1. /\ <<c>> \in Seq(Items) /\ 1 = Len(<<c>>)
      /\ <<d>> \in Seq(Items) /\ 1 = Len(<<d>>)
      /\ <<a, b>> \in Seq(Items) /\ 2 = Len(<<a, b>>)
  OBVIOUS
<1>2. /\ x \in Seq(Items) /\ Len(x) = 1 + 1
      /\ \A i \in 1..1 : x[i] = <<c>>[i]
      /\ \A j \in 1..1 : x[1 + j] = <<d>>[j]
  BY <1>0, <1>1, Joined
<1>3. 2 = Len(x) /\ x[1] = c /\ x[2] = d
  BY <1>2
<1>4. /\ z \in Seq(Items) /\ Len(z) = 2 + 2
      /\ \A i \in 1..2 : z[i] = <<a, b>>[i]
      /\ \A j \in 1..2 : z[2 + j] = x[j]
  BY <1>0, <1>1, <1>2, <1>3, Joined
<1>5. Len(z) = 4 /\ z[1] = a /\ z[2] = b /\ z[3] = c /\ z[4] = d
  BY <1>3, <1>4
<1>6. <<a, b, c, d>> \in Seq(Items) /\ Len(<<a, b, c, d>>) = 4
  OBVIOUS
<1>7. \A i \in 1..4 : z[i] = <<a, b, c, d>>[i]
  <2>1. \A i \in 1..4 : i = 1 \/ i = 2 \/ i = 3 \/ i = 4
    OBVIOUS
  <2> QED BY <1>5, <2>1
<1> QED BY <1>0, <1>4, <1>5, <1>6, <1>7, SeqEqual

LEMMA ItemsWritten ==
  /\ \A n \in {60, 200} : [what |-> "space", needed |-> n] \in Items
  /\ \A n \in 1..2 : [what |-> "peak", lines |-> n] \in Items
  /\ \A w \in {"masthead", "kpis", "title", "header", "row", "tableEnd", "chart", "end"} :
       [what |-> w] \in Items
BY DEF Items

\* The sections that renderAnalyticsPdf writes are in order.
LEMMA ChartInOrder == Middle(ChartSection)
<1>1. ChartSection = <<[what |-> "space", needed |-> 200], [what |-> "title"], [what |-> "chart"]>>
  <2>1. /\ [what |-> "space", needed |-> 200] \in Items
        /\ [what |-> "title"] \in Items
        /\ [what |-> "chart"] \in Items
    BY ItemsWritten
  <2> QED BY <2>1, ThreeInARow, Zenon DEF ChartSection, Space, Title
<1>2. PICK c : c = ChartSection
  OBVIOUS
<1>3. /\ c \in Seq(Items) /\ Len(c) = 3
      /\ c[1] = [what |-> "space", needed |-> 200]
      /\ c[2] = [what |-> "title"]
      /\ c[3] = [what |-> "chart"]
  BY <1>1, <1>2 DEF Items
<1>4. Follows(c, 1) /\ Follows(c, 2)
  BY <1>3 DEF Follows, ChartAfter
<1>5. InOrder(c)
  BY <1>3, <1>4 DEF InOrder
<1>6. c # <<>>
  BY <1>3, NotEmpty
<1> QED BY <1>2, <1>3, <1>5, <1>6 DEF Middle, Section

LEMMA TableInOrder ==
  ASSUME NEW rows \in Nat
  PROVE  Middle(TableSection(rows))
<1> DEFINE a == <<[what |-> "space", needed |-> 60], [what |-> "title"], [what |-> "header"]>>
           r == [i \in 1..rows |-> [what |-> "row"]]
           e == <<[what |-> "tableEnd"]>>
<1>1. TableSection(rows) = (a \o r) \o e
  <2>1. <<[what |-> "space", needed |-> 60]>> \o <<[what |-> "title"]>> \o <<[what |-> "header"]>> = a
    <3>1. /\ [what |-> "space", needed |-> 60] \in Items
          /\ [what |-> "title"] \in Items
          /\ [what |-> "header"] \in Items
      BY ItemsWritten
    <3> QED BY <3>1, ThreeInARow, Zenon
  <2> HIDE DEF a
  <2> QED BY <2>1, Zenon DEF TableSection, Space, Title
<1>2. a \in Seq(Items) /\ Len(a) = 3
  BY DEF Items
<1>3. a[1].what = "space" /\ a[1].needed = 60 /\ a[2].what = "title" /\ a[3].what = "header"
  OBVIOUS
<1>4. r \in Seq(Items) /\ Len(r) = rows
  BY DEF Items
<1>5. \A i \in 1..rows : r[i].what = "row"
  OBVIOUS
<1>6. e \in Seq(Items) /\ Len(e) = 1
  BY DEF Items
<1>7. e[1].what = "tableEnd"
  OBVIOUS
<1> HIDE DEF a, r, e
<1>0. PICK b : b = a \o r
  OBVIOUS
<1>00. PICK c : c = b \o e
  OBVIOUS
<1>8. /\ b \in Seq(Items) /\ Len(b) = 3 + rows
      /\ \A i \in 1..3 : b[i] = a[i]
      /\ \A j \in 1..rows : b[3 + j] = r[j]
  <2>1. PICK m : m = 3
    OBVIOUS
  <2>2. /\ a \in Seq(Items) /\ m = Len(a)
        /\ r \in Seq(Items) /\ rows = Len(r)
    BY <1>2, <1>4, <2>1
  <2>3. /\ b \in Seq(Items) /\ Len(b) = m + rows
        /\ \A i \in 1..m : b[i] = a[i]
        /\ \A j \in 1..rows : b[m + j] = r[j]
    BY <1>0, <2>2, Joined
  <2> QED BY <2>1, <2>3
<1>9. /\ c \in Seq(Items) /\ Len(c) = 3 + rows + 1
      /\ \A i \in 1..(3 + rows) : c[i] = b[i]
      /\ \A j \in 1..1 : c[3 + rows + j] = e[j]
  <2>1. PICK m, n : m = 3 + rows /\ n = 1
    OBVIOUS
  <2>2. /\ b \in Seq(Items) /\ m = Len(b)
        /\ e \in Seq(Items) /\ n = Len(e)
    BY <1>6, <1>8, <2>1
  <2>3. /\ c \in Seq(Items) /\ Len(c) = m + n
        /\ \A i \in 1..m : c[i] = b[i]
        /\ \A j \in 1..n : c[m + j] = e[j]
    BY <1>00, <2>2, Joined
  <2> QED BY <2>1, <2>3
<1>10. /\ c[1] = a[1] /\ c[2] = a[2] /\ c[3] = a[3]
       /\ \A j \in 1..rows : c[3 + j] = r[j]
       /\ c[3 + rows + 1] = e[1]
  <2>1. 1 \in 1..3 /\ 2 \in 1..3 /\ 3 \in 1..3 /\ 1..3 \subseteq 1..(3 + rows)
    OBVIOUS
  <2>2. \A j \in 1..rows : 3 + j \in 1..(3 + rows)
    OBVIOUS
  <2> QED BY <1>8, <1>9, <2>1, <2>2
<1>11. ASSUME NEW i \in 1..(3 + rows) PROVE Follows(c, i)
  <2>1. CASE i = 1
    <3>1. c[i].what = "space" /\ c[i].needed = 60 /\ c[i + 1].what = "title"
      BY <1>3, <1>10, <2>1
    <3>2. ~ChartAfter(c, i + 1)
      BY <1>3, <1>10, <2>1 DEF ChartAfter
    <3> QED BY <3>1, <3>2 DEF Follows
  <2>2. CASE i = 2
    <3>1. c[i].what = "title" /\ c[i + 1].what = "header"
      BY <1>3, <1>10, <2>2
    <3> QED BY <3>1 DEF Follows
  <2>3. CASE i > 2
    <3>1. c[i].what \in {"header", "row"}
      <4>1. i = 3 \/ (i - 3 \in 1..rows /\ i = 3 + (i - 3))
        BY <2>3
      <4> QED BY <1>3, <1>5, <1>10, <4>1
    <3>2. c[i + 1].what \in {"row", "tableEnd"}
      <4>1. CASE i = 3 + rows
        <5>1. c[i + 1] = e[1]
          BY <1>10, <4>1
        <5> QED BY <1>7, <5>1
      <4>2. CASE i # 3 + rows
        <5>1. i - 2 \in 1..rows /\ i + 1 = 3 + (i - 2)
          BY <2>3, <4>2
        <5> QED BY <1>5, <1>10, <5>1
      <4> QED BY <4>1, <4>2
    <3> QED BY <3>1, <3>2 DEF Follows
  <2> QED BY <2>1, <2>2, <2>3
<1>12. InOrder(c) /\ c # <<>>
  <2>1. Len(c) - 1 = 3 + rows /\ Len(c) > 0
    BY <1>9
  <2> QED BY <1>11, <2>1 DEF InOrder
<1>13. c[1].what = "space" /\ c[Len(c)].what = "tableEnd"
  BY <1>3, <1>7, <1>9, <1>10
<1> QED BY <1>0, <1>00, <1>1, <1>9, <1>12, <1>13 DEF Middle, Section

\* The figures, and the peak when something was issued.
LEMMA FiguresInOrder ==
  ASSUME NEW peak \in 0..2
  PROVE  LET figures == <<[what |-> "masthead"], [what |-> "kpis"]>>
                        \o (IF peak = 0 THEN << >> ELSE Title \o <<[what |-> "peak", lines |-> peak]>>)
         IN  Beginning(figures)
<1> DEFINE f == <<[what |-> "masthead"], [what |-> "kpis"]>>
           g == <<[what |-> "masthead"], [what |-> "kpis"], [what |-> "title"],
                  [what |-> "peak", lines |-> peak]>>
<1>1. CASE peak = 0
  <2>1. f \o << >> = f
    OBVIOUS
  <2>2. /\ f \in Seq(Items) /\ Len(f) = 2
        /\ f[1] = [what |-> "masthead"] /\ f[2] = [what |-> "kpis"]
    BY DEF Items
  <2> HIDE DEF f
  <2>3. Follows(f, 1)
    BY <2>2 DEF Follows
  <2>4. InOrder(f)
    BY <2>2, <2>3 DEF InOrder
  <2>5. Beginning(f)
    BY <2>2, <2>4, NotEmpty DEF Beginning
  <2> QED BY <1>1, <2>1, <2>5 DEF f
<1>2. CASE peak # 0
  <2>1. f \o (Title \o <<[what |-> "peak", lines |-> peak]>>) = g
    <3>1. /\ [what |-> "masthead"] \in Items
          /\ [what |-> "kpis"] \in Items
          /\ [what |-> "title"] \in Items
          /\ [what |-> "peak", lines |-> peak] \in Items
      BY <1>2, ItemsWritten
    <3> QED BY <3>1, FourInARow, Zenon DEF Title
  <2>2. g \in Seq(Items) /\ Len(g) = 4
    BY <1>2 DEF Items
  <2>3. g[1].what = "masthead" /\ g[2].what = "kpis" /\ g[3].what = "title" /\ g[4].what = "peak"
    OBVIOUS
  <2> HIDE DEF g
  <2>4. Follows(g, 1) /\ Follows(g, 2) /\ Follows(g, 3)
    BY <2>2, <2>3 DEF Follows, ChartAfter
  <2>5. InOrder(g)
    BY <2>2, <2>4 DEF InOrder
  <2>6. Beginning(g)
    <3>1. g # <<>> /\ g[Len(g)].what = "peak"
      BY <2>2, <2>3, NotEmpty
    <3> QED BY <2>2, <2>3, <2>5, <3>1 DEF Beginning
  <2> QED BY <1>2, <2>1, <2>6
<1> QED BY <1>1, <1>2

\* A report goes on with one section after the other.
LEMMA ReportGrows ==
  ASSUME NEW s, NEW t, Beginning(s), Middle(t)
  PROVE  Beginning(s \o t)
BY SectionFollows DEF Beginning, Middle

LEMMA EndFollows == Section(<<[what |-> "end"]>>)
<1>1. PICK e : e = <<[what |-> "end"]>>
  OBVIOUS
<1>2. e \in Seq(Items) /\ Len(e) = 1 /\ e[1] = [what |-> "end"]
  BY <1>1 DEF Items
<1> QED BY <1>1, <1>2 DEF Section, InOrder

\* Whatever the tables and the peak, the report is in order and ends once.
Whole(s) == /\ s \in Seq(Items) /\ s # <<>> /\ InOrder(s)
            /\ s[1].what = "masthead"
            /\ s[Len(s)].what = "end"

LEMMA ReportInOrder ==
  ASSUME NEW b \in Nat, NEW q \in Nat, NEW st \in Nat, NEW peak \in 0..2
  PROVE  Whole(Report(b, q, st, peak))
<1> DEFINE o == <<[what |-> "masthead"], [what |-> "kpis"]>>
                \o (IF peak = 0 THEN << >> ELSE Title \o <<[what |-> "peak", lines |-> peak]>>)
           e == <<[what |-> "end"]>>
<1>1. Report(b, q, st, peak) = o \o TableSection(b) \o TableSection(q) \o TableSection(st)
                               \o TableSection(6) \o ChartSection \o ChartSection \o ChartSection \o e
  BY DEF Report
<1>2. Beginning(o)
  BY FiguresInOrder
<1> HIDE DEF o, e
<1>3. Beginning(o \o TableSection(b) \o TableSection(q) \o TableSection(st) \o TableSection(6))
  BY <1>2, TableInOrder, ReportGrows, Zenon
<1>4. PICK p : /\ Beginning(p)
               /\ p = o \o TableSection(b) \o TableSection(q) \o TableSection(st) \o TableSection(6)
  BY <1>3, Zenon
<1>5. Beginning(p \o ChartSection \o ChartSection \o ChartSection)
  BY <1>4, ChartInOrder, ReportGrows, Zenon
<1>6. PICK r : Beginning(r) /\ r = p \o ChartSection \o ChartSection \o ChartSection
  BY <1>5, Zenon
<1>7. Report(b, q, st, peak) = r \o e
  BY <1>1, <1>4, <1>6, Zenon
<1>8. Section(e) /\ e[Len(e)].what = "end"
  BY EndFollows DEF e
<1>9. PICK u : u = r \o e
  OBVIOUS
<1>10. u \in Seq(Items) /\ u # <<>> /\ InOrder(u) /\ u[1] = r[1] /\ u[Len(u)] = e[Len(e)]
  BY <1>6, <1>8, <1>9, SectionFollows, Zenon
<1>11. Whole(u)
  BY <1>6, <1>8, <1>10 DEF Beginning, Whole
<1> QED BY <1>7, <1>9, <1>11

\* What is left when the first item is drawn.
After(item, t) ==
  /\ t[1].what # "masthead"
  /\ t[1].what = "kpis" => item.what = "masthead"
  /\ t[1].what = "title" =>
       \/ item.what = "kpis" /\ ~ChartAfter(t, 1)
       \/ item.what = "space" /\ item.needed >= (IF ChartAfter(t, 1) THEN 200 ELSE 60)
  /\ t[1].what \in {"peak", "chart"} => item.what = "title"
  /\ t[1].what = "row" => item.what \in {"header", "row"}
  /\ item.what \in {"header", "row"} => t[1].what \in {"row", "tableEnd"}

LEMMA Onward ==
  ASSUME NEW s \in Seq(Items), s # <<>>, InOrder(s), s[Len(s)].what = "end",
         NEW t, t = Tail(s)
  PROVE  /\ t \in Seq(Items)
         /\ InOrder(t)
         /\ t # <<>> => t[Len(t)].what = "end"
         /\ t = <<>> <=> s[1].what = "end"
         /\ t # <<>> => After(s[1], t) /\ (ChartAfter(s, 1) <=> t[1].what = "chart")
<1>1. PICK n \in Nat : n = Len(s) /\ n > 0
  BY EmptySeq
<1>2. /\ t \in Seq(Items) /\ Len(t) = n - 1
      /\ \A i \in 1..(n - 1) : t[i] = s[i + 1]
  BY <1>1, HeadTailProperties
<1>3. ASSUME NEW i \in 1..(n - 1) PROVE ChartAfter(t, i) <=> ChartAfter(s, i + 1)
  <2>1. CASE i = n - 1
    BY <1>1, <1>2, <2>1 DEF ChartAfter
  <2>2. CASE i # n - 1
    <3>1. i + 1 \in 1..(n - 1)
      BY <2>2
    <3>2. t[i + 1] = s[i + 1 + 1] /\ i < n - 1 /\ i + 1 < n
      BY <1>2, <2>2, <3>1
    <3> QED BY <1>1, <1>2, <3>2 DEF ChartAfter
  <2> QED BY <2>1, <2>2
<1>4. InOrder(t)
  <2> SUFFICES ASSUME NEW i \in 1..(n - 1 - 1) PROVE Follows(t, i)
    BY <1>2 DEF InOrder
  <2>1. i \in 1..(n - 1) /\ i + 1 \in 1..(n - 1)
    BY <1>1
  <2>2. Follows(s, i + 1)
    BY <1>1, <2>1 DEF InOrder
  <2>3. t[i] = s[i + 1] /\ t[i + 1] = s[i + 1 + 1] /\ (ChartAfter(t, i + 1) <=> ChartAfter(s, i + 1 + 1))
    BY <1>2, <1>3, <2>1
  <2> QED BY <2>2, <2>3 DEF Follows
<1>5. CASE n = 1
  <2>1. t = <<>> /\ s[1].what = "end"
    BY <1>1, <1>2, <1>5, EmptySeq
  <2> QED BY <1>2, <1>4, <2>1
<1>6. CASE n > 1
  <2>1. t # <<>>
    BY <1>2, <1>6, NotEmpty
  <2>2. 1 \in 1..(n - 1) /\ n - 1 \in 1..(n - 1) /\ n - 1 + 1 = n
    BY <1>6
  <2>3. t[1] = s[1 + 1] /\ t[n - 1] = s[n] /\ Follows(s, 1) /\ (ChartAfter(t, 1) <=> ChartAfter(s, 1 + 1))
    BY <1>1, <1>2, <1>3, <2>2 DEF InOrder
  <2>4. t[Len(t)].what = "end"
    BY <1>1, <1>2, <2>3
  <2>5. s[1].what # "end" /\ After(s[1], t)
    BY <2>3 DEF Follows, After
  <2>6. ChartAfter(s, 1) <=> t[1].what = "chart"
    BY <1>1, <1>6, <2>3 DEF ChartAfter
  <2> QED BY <1>2, <1>4, <2>1, <2>4, <2>5, <2>6
<1> QED BY <1>1, <1>5, <1>6

\* What is drawn on a page while the pen is at the height z: above the bottom margin and the
\* pen, one part under the other, every row under a header.
Drawables == {"masthead", "kpis", "title", "peak", "header", "row", "chart"}
Parts == [what : Drawables, top : Int, bottom : Int]

HasHeader(d) == \E j \in 1..Len(d) : d[j].what = "header"

\* What a part keeps free over the pen: the next one is at most a title of 12, and under a
\* header a row.
Gap(what) == IF what = "header" THEN 4 ELSE 12

\* A text of any size has its place.
Clear(d, z) == \A i \in 1..Len(d) : d[i].bottom >= z + 12

Laid(d, z) ==
  /\ d \in Seq(Parts)
  /\ \A i \in 1..Len(d) :
       /\ d[i].bottom >= MARGIN
       /\ d[i].bottom >= z + Gap(d[i].what)
       /\ \A j \in 1..(i - 1) : Under(d[i], d[j])
       /\ d[i].what = "row" => \E j \in 1..(i - 1) : d[j].what = "header"

\* The pen is where what comes next has room: the figures at the top of the report, a title
\* where a test for space left it, a chart or a peak under its title.
Room(t, z) ==
  t # <<>> => /\ t[1].what = "masthead" => z = TopOfNewPage
              /\ t[1].what = "kpis" => z >= 702
              /\ t[1].what = "title" => z >= (IF ChartAfter(t, 1) THEN 272 ELSE 132)
              /\ t[1].what = "chart" => z >= 246
              /\ t[1].what = "peak" => z >= 106

PdfInv ==
  /\ todo \in Seq(Items)
  /\ InOrder(todo)
  /\ todo # <<>> => todo[Len(todo)].what = "end"
  /\ y \in Int /\ y <= TopOfNewPage
  /\ page \in Nat \ {0}
  /\ header \in {16, 26}
  /\ Room(todo, y)
  /\ Laid(drawn, y)
  /\ todo # <<>> /\ todo[1].what \notin {"row", "tableEnd"} => Clear(drawn, y)
  /\ todo # <<>> /\ todo[1].what = "row" => HasHeader(drawn)
  /\ todo # <<>> /\ todo[1].what = "masthead" => drawn = <<>>
  /\ footers = [n \in 1..(IF todo = <<>> THEN page ELSE page - 1) |-> n]

\* One part more, under those that are there.
LEMMA OnePartMore ==
  ASSUME NEW d, NEW z \in Int, Laid(d, z), NEW p \in Parts, NEW e \in Int, NEW c, c = Append(d, p),
         \A i \in 1..Len(d) : Under(p, d[i]),
         p.bottom >= MARGIN, p.bottom >= e + Gap(p.what), e <= z,
         p.what = "row" => HasHeader(d)
  PROVE  /\ Laid(c, e)
         /\ HasHeader(d) \/ p.what = "header" => HasHeader(c)
         /\ Clear(d, z) /\ p.what # "header" => Clear(c, e)
<1>1. PICK n \in Nat : n = Len(d)
  BY DEF Laid
<1>2. d \in Seq(Parts)
  BY DEF Laid
<1>3. /\ c \in Seq(Parts) /\ Len(c) = n + 1 /\ c[n + 1] = p
      /\ \A i \in 1..n : c[i] = d[i]
  BY <1>1, <1>2, AppendProperties
<1>4. ASSUME NEW i \in 1..n
      PROVE  d[i] \in Parts /\ d[i].bottom \in Int /\ Gap(d[i].what) \in Int
  <2>1. d[i] \in Parts
    BY <1>1, <1>2, ElementOfSeq
  <2> QED BY <2>1 DEF Parts, Gap
<1>5. ASSUME NEW i \in 1..(n + 1)
      PROVE  /\ c[i].bottom >= MARGIN
             /\ c[i].bottom >= e + Gap(c[i].what)
             /\ \A j \in 1..(i - 1) : Under(c[i], c[j])
             /\ c[i].what = "row" => \E j \in 1..(i - 1) : c[j].what = "header"
  <2>1. CASE i = n + 1
    <3>1. c[i] = p /\ i - 1 = n
      BY <1>3, <2>1
    <3>2. \A j \in 1..(i - 1) : Under(c[i], c[j])
      BY <1>1, <1>3, <3>1
    <3>3. p.what = "row" => \E j \in 1..n : c[j].what = "header"
      BY <1>1, <1>3 DEF HasHeader
    <3> QED BY <3>1, <3>2, <3>3
  <2>2. CASE i # n + 1
    <3>1. i \in 1..n /\ \A j \in 1..(i - 1) : j \in 1..n
      BY <2>2
    <3>2. c[i] = d[i] /\ \A j \in 1..(i - 1) : c[j] = d[j]
      BY <1>3, <3>1
    <3>3. /\ d[i].bottom >= MARGIN
          /\ d[i].bottom >= z + Gap(d[i].what)
          /\ \A j \in 1..(i - 1) : Under(d[i], d[j])
          /\ d[i].what = "row" => \E j \in 1..(i - 1) : d[j].what = "header"
      BY <1>1, <3>1 DEF Laid
    <3>4. d[i].bottom >= e + Gap(d[i].what)
      BY <1>4, <3>1, <3>3
    <3> QED BY <3>2, <3>3, <3>4
  <2> QED BY <2>1, <2>2
<1>6. Laid(c, e)
  BY <1>3, <1>5 DEF Laid
<1>7. HasHeader(d) \/ p.what = "header" => HasHeader(c)
  <2>1. n + 1 \in 1..(n + 1) /\ \A j \in 1..n : j \in 1..(n + 1)
    OBVIOUS
  <2> QED BY <1>1, <1>3, <2>1 DEF HasHeader
<1>8. ASSUME Clear(d, z), p.what # "header" PROVE Clear(c, e)
  <2> SUFFICES ASSUME NEW i \in 1..(n + 1) PROVE c[i].bottom >= e + 12
    BY <1>3 DEF Clear
  <2>1. CASE i = n + 1
    BY <1>3, <1>8, <2>1 DEF Gap
  <2>2. CASE i # n + 1
    <3>1. i \in 1..n /\ c[i] = d[i]
      BY <1>3, <2>2
    <3>2. d[i].bottom >= z + 12
      BY <1>1, <1>8, <3>1 DEF Clear
    <3> QED BY <1>4, <3>1, <3>2
  <2> QED BY <2>1, <2>2
<1> QED BY <1>6, <1>7, <1>8

\* Nothing is drawn on a new page, and the pen may go down.
LEMMA EmptyPage == \A z : Laid(<<>>, z) /\ Clear(<<>>, z)
BY DEF Laid, Clear

\* Fourteen points under a table, a title has its place.
LEMMA PenDown ==
  ASSUME NEW d, NEW z \in Int, Laid(d, z)
  PROVE  Laid(d, z - 14) /\ Clear(d, z - 14)
<1>1. ASSUME NEW i \in 1..Len(d)
      PROVE  d[i].bottom >= z - 14 + Gap(d[i].what) /\ d[i].bottom >= z - 14 + 12
  <2>1. d[i] \in Parts
    BY ElementOfSeq DEF Laid
  <2>2. PICK g : g = Gap(d[i].what)
    OBVIOUS
  <2>3. d[i].bottom \in Int /\ d[i].bottom >= z + g
    BY <2>1, <2>2 DEF Laid, Parts
  <2>4. g = 4 \/ g = 12
    BY <2>2 DEF Gap
  <2>5. d[i].bottom >= z - 14 + g /\ d[i].bottom >= z - 14 + 12
    BY <2>3, <2>4
  <2> QED BY <2>2, <2>5
<1> QED BY <1>1 DEF Laid, Clear

\* What is drawn at most 12 over the pen is under a page that is clear, a row at 9 under any.
LEMMA HasItsPlace ==
  ASSUME NEW d, NEW z \in Int, Laid(d, z), NEW p \in Parts,
         \/ Clear(d, z) /\ p.top <= z + 12
         \/ p.what = "row" /\ p.top <= z + 9
  PROVE  \A i \in 1..Len(d) : Under(p, d[i])
<1> SUFFICES ASSUME NEW i \in 1..Len(d) PROVE Under(p, d[i])
  OBVIOUS
<1>1. PICK g, b : /\ b = d[i].bottom /\ b >= z + g
                  /\ g = IF d[i].what = "header" THEN 4 ELSE 12
  BY DEF Laid, Gap
<1>2. b \in Int /\ p.top \in Int
  <2>1. d[i] \in Parts
    BY ElementOfSeq DEF Laid
  <2> QED BY <1>1, <2>1 DEF Parts
<1>3. PICK more : more = IF p.what = "row" /\ d[i].what = "header" THEN 6 ELSE 0
  OBVIOUS
<1>4. p.top <= b + more
  <2>1. CASE Clear(d, z) /\ p.top <= z + 12
    <3>1. b >= z + 12
      BY <1>1, <2>1 DEF Clear
    <3>2. more = 0 \/ more = 6
      BY <1>3
    <3> QED BY <1>2, <2>1, <3>1, <3>2
  <2>2. CASE p.what = "row" /\ p.top <= z + 9
    <3>1. (g = 4 /\ more = 6) \/ (g = 12 /\ more = 0)
      BY <1>1, <1>3, <2>2
    <3>2. b >= z + g /\ p.top <= z + 9
      BY <1>1, <2>2
    <3>3. CASE g = 4 /\ more = 6
      BY <1>2, <3>2, <3>3
    <3>4. CASE g = 12 /\ more = 0
      BY <1>2, <3>2, <3>4
    <3> QED BY <3>1, <3>3, <3>4
  <2> QED BY <2>1, <2>2
<1> QED BY <1>1, <1>3, <1>4 DEF Under

LEMMA PdfInvInit == Init => PdfInv
<1> SUFFICES ASSUME Init PROVE PdfInv
  OBVIOUS
<1>1. /\ y = TopOfNewPage /\ page = 1 /\ header \in {16, 26} /\ drawn = <<>> /\ footers = <<>>
      /\ \/ todo = <<[what |-> "end"]>>
         \/ \E b, q, st \in RowCounts, peak \in PeakLines : todo = Report(b, q, st, peak)
  <2>1. CASE NoDocument
    BY <2>1 DEF NoDocument
  <2>2. CASE PdfInit
    <3>1. header \in {16, 26}
      <4>1. PICK lines \in HeaderLines : header = 10 * lines + 6
        BY <2>2 DEF PdfInit
      <4>2. lines = 1 \/ lines = 2
        BY LayoutOK
      <4> QED BY <4>1, <4>2
    <3> QED BY <2>2, <3>1, Zenon DEF PdfInit, TopOfNewPage
  <2> QED BY <2>1, <2>2 DEF Init
<1>2. todo \in Seq(Items) /\ InOrder(todo) /\ todo # <<>>
      /\ todo[1].what \in {"masthead", "end"} /\ todo[Len(todo)].what = "end"
  <2>1. CASE todo = <<[what |-> "end"]>>
    <3>1. todo \in Seq(Items) /\ Len(todo) = 1 /\ todo[1].what = "end"
      BY <2>1 DEF Items
    <3> QED BY <2>1, <3>1, EndFollows DEF Section
  <2>2. CASE \E b, q, st \in RowCounts, peak \in PeakLines : todo = Report(b, q, st, peak)
    <3>1. PICK b \in Nat, q \in Nat, st \in Nat, peak \in 0..2 : todo = Report(b, q, st, peak)
      BY <2>2, LayoutOK
    <3>2. Whole(todo)
      BY <3>1, ReportInOrder
    <3> QED BY <3>2 DEF Whole
  <2> QED BY <1>1, <2>1, <2>2
<1>3. Room(todo, y)
  BY <1>1, <1>2 DEF Room
<1>4. Laid(drawn, y) /\ Clear(drawn, y)
  BY <1>1, EmptyPage
<1>5. footers = [n \in 1..(IF todo = <<>> THEN page ELSE page - 1) |-> n]
  BY <1>1, <1>2
<1>6. y \in Int /\ y <= TopOfNewPage
  BY <1>1 DEF TopOfNewPage, PAGE_HEIGHT, MARGIN
<1> QED BY <1>1, <1>2, <1>3, <1>4, <1>5, <1>6 DEF PdfInv

\* An item is done, and the next one follows it.
LEMMA Onwards ==
  ASSUME PdfInv, todo # <<>>, Done
  PROVE  /\ todo' \in Seq(Items)
         /\ InOrder(todo')
         /\ todo' # <<>> => todo'[Len(todo')].what = "end"
         /\ todo' = <<>> <=> todo[1].what = "end"
         /\ todo' # <<>> => After(todo[1], todo') /\ (ChartAfter(todo, 1) <=> todo'[1].what = "chart")
         /\ todo[1] \in Items
         /\ todo[1] = Head(todo)
<1>1. todo \in Seq(Items) /\ InOrder(todo) /\ todo[Len(todo)].what = "end" /\ todo' = Tail(todo)
  BY DEF PdfInv, Done
<1>2. todo[1] \in Items /\ todo[1] = Head(todo)
  BY <1>1, EmptySeq
<1> QED BY <1>1, <1>2, Onward

LEMMA ItemTypes ==
  ASSUME NEW item \in Items
  PROVE  /\ item.what = "space" => item.needed \in {60, 200}
         /\ item.what = "peak" => item.lines \in 1..2
BY DEF Items

\* A part of the report that has room, and is not a row, is drawn.
LEMMA Drawing ==
  ASSUME PdfInv, NEW what \in Drawables \ {"row", "header"}, NEW rise \in Int,
         NEW height \in Int, NEW ink \in Int,
         todo # <<>>, todo[1].what = what,
         Draw(what, rise, height, ink), 0 <= ink, ink + 12 <= height, y - ink >= MARGIN,
         drawn = <<>> \/ rise <= 12, Room(todo', y - height)
  PROVE  PdfInv'
<1>1. Done /\ y' = y - height /\ UNCHANGED <<page, header, footers>>
  BY DEF Draw
<1>2. PICK p \in Parts : p = Part(what, y + rise, y - ink) /\ drawn' = Append(drawn, p)
  <2>1. Part(what, y + rise, y - ink) \in Parts
    BY DEF PdfInv, Part, Parts
  <2> QED BY <2>1 DEF Draw
<1>3. p.what = what /\ p.top = y + rise /\ p.bottom = y - ink
  BY <1>2 DEF Part
<1>4. Laid(drawn', y') /\ Clear(drawn', y')
  <2>1. y \in Int /\ Laid(drawn, y) /\ Clear(drawn, y)
    BY DEF PdfInv, Drawables
  <2>2. \A i \in 1..Len(drawn) : Under(p, drawn[i])
    <3>1. CASE drawn = <<>>
      BY <3>1
    <3>2. CASE rise <= 12
      <4>1. p.top <= y + 12
        BY <1>3, <2>1, <3>2
      <4> QED BY <2>1, <4>1, HasItsPlace
    <3> QED BY <3>1, <3>2
  <2>3. y' \in Int /\ p.bottom >= MARGIN /\ p.bottom >= y' + Gap(p.what) /\ y' <= y
    BY <1>1, <1>3, <2>1 DEF Gap
  <2>4. p.what # "row" /\ p.what # "header"
    BY <1>3
  <2>5. drawn' = Append(drawn, p)
    BY <1>2
  <2> QED BY <2>1, <2>2, <2>3, <2>4, <2>5, OnePartMore
<1>5. /\ todo' \in Seq(Items) /\ InOrder(todo') /\ todo' # <<>>
      /\ todo'[Len(todo')].what = "end" /\ After(todo[1], todo')
  <2>1. what # "end"
    BY DEF Drawables
  <2> QED BY <1>1, <2>1, Onwards
<1>6. todo'[1].what # "row" /\ todo'[1].what # "masthead"
  BY <1>5 DEF After
<1>7. y' \in Int /\ y' <= TopOfNewPage /\ Room(todo', y')
  BY <1>1 DEF PdfInv, TopOfNewPage, PAGE_HEIGHT, MARGIN
<1>8. footers' = [n \in 1..(IF todo' = <<>> THEN page' ELSE page' - 1) |-> n]
  BY <1>1, <1>5 DEF PdfInv
<1> QED BY <1>1, <1>4, <1>5, <1>6, <1>7, <1>8 DEF PdfInv

\* The footer of a page that is full comes after those of the pages before it.
LEMMA OneFooterMore ==
  ASSUME NEW k \in Nat \ {0}, NEW f, f = [n \in 1..(k - 1) |-> n], NEW l, l = k + 1
  PROVE  Append(f, k) = [n \in 1..(l - 1) |-> n]
<1>1. f \in Seq(Nat) /\ Len(f) = k - 1
  OBVIOUS
<1>2. PICK g : g = [n \in 1..k |-> n]
  OBVIOUS
<1>3. g \in Seq(Nat) /\ Len(g) = k /\ \A n \in 1..k : g[n] = n
  BY <1>2
<1>4. PICK a : a = Append(f, k)
  OBVIOUS
<1>5. /\ a \in Seq(Nat) /\ Len(a) = k - 1 + 1 /\ a[k - 1 + 1] = k
      /\ \A n \in 1..(k - 1) : a[n] = f[n]
  BY <1>1, <1>4, AppendProperties
<1>6. \A n \in 1..k : a[n] = g[n]
  BY <1>3, <1>5
<1>7. a = g
  BY <1>3, <1>5, <1>6, SeqEqual
<1> QED BY <1>2, <1>4, <1>7

\* A new page, or the rest of this one.
LEMMA Turning ==
  ASSUME PdfInv, NEW turn \in BOOLEAN, NEW parts, todo # <<>>, todo[1].what # "end",
         OnPage(turn, parts)
  PROVE  /\ todo' # <<>>
         /\ page' \in Nat \ {0}
         /\ header' \in {16, 26}
         /\ footers' = [n \in 1..(IF todo' = <<>> THEN page' ELSE page' - 1) |-> n]
<1>1. todo' # <<>>
  BY Onwards DEF OnPage
<1>2. CASE turn
  <2>1. page \in Nat \ {0} /\ footers = [n \in 1..(page - 1) |-> n]
    BY DEF PdfInv
  <2>2. page' = page + 1 /\ footers' = Append(footers, page) /\ header' = header
    BY <1>2 DEF OnPage, Footer
  <2>3. footers' = [n \in 1..(page' - 1) |-> n]
    BY <2>1, <2>2, OneFooterMore
  <2> QED BY <1>1, <2>1, <2>2, <2>3 DEF PdfInv
<1>3. CASE ~turn
  BY <1>1, <1>3 DEF OnPage, PdfInv
<1> QED BY <1>2, <1>3

\* What drawHeader and a row put after the parts of a page.
LEMMA PartsAfter ==
  ASSUME NEW d \in Seq(Parts), NEW p \in Parts, NEW h \in Parts
  PROVE  /\ <<>> \in Seq(Parts)
         /\ d \o <<p>> = Append(d, p)
         /\ d \o (<<>> \o <<p>>) = Append(d, p)
         /\ <<>> \o (<<h>> \o <<p>>) = Append(Append(<<>>, h), p)
<1>1. <<>> \in Seq(Parts) /\ <<p>> \in Seq(Parts) /\ <<h>> \in Seq(Parts)
  OBVIOUS
<1>2. <<h>> \o <<p>> \in Seq(Parts)
  BY <1>1, ConcatProperties
<1>3. \A s \in Seq(Parts) : <<>> \o s = s
  BY ConcatEmptySeq
<1>4. \A s \in Seq(Parts), e \in Parts : s \o <<e>> = Append(s, e)
  BY AppendIsConcat
<1>5. <<>> \o <<p>> = <<p>> /\ <<>> \o <<h>> = <<h>>
  BY <1>1, <1>3
<1>6. <<>> \o (<<h>> \o <<p>>) = <<h>> \o <<p>>
  BY <1>2, <1>3
<1>7. Append(<<>>, h) = <<h>>
  BY <1>1, <1>4, <1>5, Zenon
<1> QED BY <1>1, <1>4, <1>5, <1>6, <1>7, Zenon

\* Each item keeps the layout sound, by the room that what came before it left.
LEMMA PdfInvNext == PdfInv /\ [PdfNext]_pdfVars => PdfInv'
<1> SUFFICES ASSUME PdfInv, [PdfNext]_pdfVars PROVE PdfInv'
  OBVIOUS
<1>1. CASE UNCHANGED pdfVars
  BY <1>1 DEF pdfVars, PdfInv, Room, Laid, Clear, HasHeader
<1>2. ASSUME NEW what, Doing(what), Done
      PROVE  /\ todo # <<>>
             /\ todo[1] \in Items
             /\ todo[1] = Head(todo)
             /\ todo[1].what = what
             /\ todo' \in Seq(Items) /\ InOrder(todo')
             /\ todo' # <<>> => todo'[Len(todo')].what = "end"
             /\ todo' = <<>> <=> what = "end"
             /\ todo' # <<>> => After(todo[1], todo') /\ (ChartAfter(todo, 1) <=> todo'[1].what = "chart")
  <2>1. todo # <<>> /\ Head(todo).what = what
    BY <1>2 DEF Doing
  <2> QED BY <1>2, <2>1, Onwards
<1>3. CASE DrawMasthead
  <2>1. Doing("masthead") /\ Done /\ Draw("masthead", 20, 91, 76)
    BY <1>3 DEF DrawMasthead, Draw
  <2>2. y = 793
    BY <1>2, <2>1 DEF PdfInv, Room, TopOfNewPage, PAGE_HEIGHT, MARGIN
  <2>3. Room(todo', y - 91)
    BY <1>2, <2>1, <2>2 DEF Room, After
  <2>4. /\ 20 \in Int /\ drawn = <<>> /\ 91 \in Int /\ 76 \in Int /\ 0 <= 76
        /\ 76 + 12 <= 91 /\ y - 76 >= 48 /\ "masthead" \in Drawables \ {"row", "header"}
    BY <1>2, <2>1, <2>2 DEF PdfInv, Drawables
  <2> QED BY <1>2, <2>1, <2>3, <2>4, Drawing DEF MARGIN
<1>4. CASE DrawKpis
  <2>1. Doing("kpis") /\ Done /\ Draw("kpis", 0, 122, 104)
    BY <1>4 DEF DrawKpis, Draw
  <2>2. y \in Int /\ y >= 702
    BY <1>2, <2>1 DEF PdfInv, Room
  <2>3. Room(todo', y - 122)
    BY <1>2, <2>1, <2>2 DEF Room, After
  <2>4. /\ 0 \in Int /\ 0 <= 12 /\ 122 \in Int /\ 104 \in Int /\ 0 <= 104
        /\ 104 + 12 <= 122 /\ y - 104 >= 48 /\ "kpis" \in Drawables \ {"row", "header"}
    BY <2>2 DEF Drawables
  <2> QED BY <1>2, <2>1, <2>3, <2>4, Drawing DEF MARGIN
<1>5. CASE DrawPeak
  <2>1. /\ Doing("peak") /\ Done
        /\ Draw("peak", 10, Head(todo).lines * 15 + 6, (Head(todo).lines - 1) * 15 + 3)
    BY <1>5 DEF DrawPeak, Draw
  <2>2. y \in Int /\ y >= 106
    BY <1>2, <2>1 DEF PdfInv, Room
  <2>3. PICK n \in 1..2 : n = Head(todo).lines
    BY <1>2, <2>1, ItemTypes
  <2>4. Room(todo', y - (n * 15 + 6))
    BY <1>2, <2>1, <2>2 DEF Room, After
  <2>5. /\ 10 \in Int /\ 10 <= 12 /\ n * 15 + 6 \in Int /\ (n - 1) * 15 + 3 \in Int
        /\ 0 <= (n - 1) * 15 + 3 /\ (n - 1) * 15 + 3 + 12 <= n * 15 + 6
        /\ y - ((n - 1) * 15 + 3) >= 48
    BY <2>2
  <2>6. Draw("peak", 10, n * 15 + 6, (n - 1) * 15 + 3)
    BY <2>1, <2>3
  <2>7. "peak" \in Drawables \ {"row", "header"}
    BY DEF Drawables
  <2> QED BY <1>2, <2>1, <2>4, <2>5, <2>6, <2>7, Drawing DEF MARGIN
<1>6. CASE SectionTitle
  <2>1. Doing("title") /\ Done /\ Draw("title", 12, 26, 8)
    BY <1>6 DEF SectionTitle, Draw
  <2>2. y \in Int /\ y >= (IF ChartAfter(todo, 1) THEN 272 ELSE 132)
    BY <1>2, <2>1 DEF PdfInv, Room
  <2>3. Room(todo', y - 26)
    BY <1>2, <2>1, <2>2 DEF Room, After
  <2>4. /\ 12 \in Int /\ 12 <= 12 /\ 26 \in Int /\ 8 \in Int /\ 0 <= 8
        /\ 8 + 12 <= 26 /\ y - 8 >= 48 /\ "title" \in Drawables \ {"row", "header"}
    BY <2>2 DEF Drawables
  <2> QED BY <1>2, <2>1, <2>3, <2>4, Drawing DEF MARGIN
<1>7. CASE DrawChart
  <2>1. Doing("chart") /\ Done /\ Draw("chart", 0, 154, 142)
    BY <1>7 DEF DrawChart, Draw
  <2>2. y \in Int /\ y >= 246
    BY <1>2, <2>1 DEF PdfInv, Room
  <2>3. Room(todo', y - 154)
    BY <1>2, <2>1, <2>2 DEF Room, After
  <2>4. /\ 0 \in Int /\ 0 <= 12 /\ 154 \in Int /\ 142 \in Int /\ 0 <= 142
        /\ 142 + 12 <= 154 /\ y - 142 >= 48 /\ "chart" \in Drawables \ {"row", "header"}
    BY <2>2 DEF Drawables
  <2> QED BY <1>2, <2>1, <2>3, <2>4, Drawing DEF MARGIN
<1>8. CASE EnsureSpace
  <2>1. Doing("space") /\ Done /\ header' = header
    BY <1>8 DEF EnsureSpace
  <2>2. PICK n \in {60, 200} : n = Head(todo).needed
    BY <1>2, <2>1, ItemTypes
  <2>3. \A z \in Int : z - n >= 72 => Room(todo', z)
    BY <1>2, <2>1, <2>2 DEF Room, After
  <2>4. y \in Int /\ 793 \in Int
    BY DEF PdfInv
  <2>5. todo' # <<>> /\ todo'[1].what # "row" /\ todo'[1].what # "masthead"
    BY <1>2, <2>1 DEF After
  <2>51. Clear(drawn, y)
    BY <1>2, <2>1 DEF PdfInv
  <2>6. CASE LacksSpace(n)
    <3>1. OnPage(TRUE, <<>>) /\ y' = 793 /\ drawn' = <<>>
      BY <1>8, <2>1, <2>2, <2>6, EmptySeq DEF EnsureSpace, OnPage, TopOfNewPage, PAGE_HEIGHT, MARGIN
    <3>2. /\ page' \in Nat \ {0} /\ header' \in {16, 26}
          /\ footers' = [k \in 1..(IF todo' = <<>> THEN page' ELSE page' - 1) |-> k]
      <4>1. PICK turn \in BOOLEAN : turn = TRUE
        OBVIOUS
      <4>2. OnPage(turn, <<>>)
        BY <3>1, <4>1
      <4>3. todo # <<>> /\ todo[1].what # "end"
        BY <1>2, <2>1
      <4> QED BY <4>2, <4>3, Turning
    <3>3. Room(todo', y')
      <4>1. 793 - n >= 72
        OBVIOUS
      <4> QED BY <2>3, <2>4, <3>1, <4>1
    <3>4. Laid(drawn', y') /\ Clear(drawn', y') /\ y' \in Int /\ y' <= TopOfNewPage
      BY <3>1, EmptyPage DEF TopOfNewPage, PAGE_HEIGHT, MARGIN
    <3> QED BY <1>2, <2>1, <2>5, <3>2, <3>3, <3>4 DEF PdfInv
  <2>7. CASE ~LacksSpace(n)
    <3>1. y' = y /\ drawn' = drawn /\ page' = page /\ footers' = footers
      BY <1>8, <2>2, <2>7 DEF EnsureSpace
    <3>2. Room(todo', y')
      BY <2>3, <2>4, <2>7, <3>1 DEF LacksSpace, MARGIN
    <3> QED BY <1>2, <2>1, <2>5, <2>51, <3>1, <3>2 DEF PdfInv
  <2> QED BY <2>6, <2>7
<1>9. ASSUME NEW what \in {"header", "row", "tableEnd", "end"}, Doing(what), Done
      PROVE  /\ \A z : Room(todo', z)
             /\ todo' # <<>> => todo'[1].what # "masthead"
             /\ what \in {"header", "row"} => todo' # <<>> /\ todo'[1].what \in {"row", "tableEnd"}
  <2>1. todo[1].what = what /\ (todo' # <<>> => After(todo[1], todo')) /\ (todo' = <<>> <=> what = "end")
    BY <1>2, <1>9
  <2>2. ASSUME NEW z PROVE Room(todo', z)
    BY <2>1 DEF Room, After
  <2>3. todo' # <<>> => todo'[1].what # "masthead"
    BY <2>1 DEF After
  <2>4. what \in {"header", "row"} => todo' # <<>> /\ todo'[1].what \in {"row", "tableEnd"}
    BY <2>1 DEF After
  <2> QED BY <2>2, <2>3, <2>4
<1>10. y \in Int /\ y <= 793 /\ header \in {16, 26} /\ Laid(drawn, y)
  BY DEF PdfInv, TopOfNewPage, PAGE_HEIGHT, MARGIN
<1>11. drawn \in Seq(Parts)
  BY <1>10 DEF Laid
<1>12. CASE DrawHeader
  <2> DEFINE turn == LacksSpace(header + 20)
             top == IF turn THEN TopOfNewPage ELSE y
  <2>1. /\ turn \in BOOLEAN
        /\ turn <=> LacksSpace(header + 20)
        /\ top \in Int
        /\ top = IF turn THEN 793 ELSE y
        /\ y' = top - header - 4
        /\ OnPage(turn, <<Part("header", top, top - header)>>)
    <3>1. turn \in BOOLEAN
      BY DEF LacksSpace
    <3>2. top \in Int /\ top = IF turn THEN 793 ELSE y
      BY <1>10 DEF TopOfNewPage, PAGE_HEIGHT, MARGIN
    <3> QED BY <1>12, <3>1, <3>2, Zenon DEF DrawHeader
  <2> HIDE DEF turn, top
  <2>2. Doing("header") /\ Done
    BY <1>12, <2>1 DEF DrawHeader, OnPage
  <2>3. PICK p : p = Part("header", top, top - header)
    OBVIOUS
  <2>4. p \in Parts /\ p.top = top /\ p.bottom = top - header /\ p.what = "header"
    BY <1>10, <2>1, <2>3 DEF Part, Parts, Drawables
  <2>5. top - header - 20 >= 72 /\ top <= 793
    BY <1>10, <2>1 DEF LacksSpace, MARGIN
  <2>6. PICK d : d = IF turn THEN <<>> ELSE drawn
    OBVIOUS
  <2>7. Laid(d, top) /\ Clear(d, top) /\ d \in Seq(Parts)
    <3>1. Clear(drawn, y)
      BY <1>2, <2>2 DEF PdfInv
    <3> QED BY <1>10, <1>11, <2>1, <2>6, <3>1, EmptyPage
  <2>8. drawn' = Append(d, p)
    <3>1. drawn' = d \o <<p>>
      BY <2>1, <2>3, <2>6 DEF OnPage
    <3> QED BY <2>4, <2>7, <3>1, PartsAfter
  <2>9. PICK e \in Int : e = y'
    BY <1>10, <2>1
  <2>10. /\ p.top <= top + 12 /\ p.bottom >= MARGIN /\ p.bottom >= e + Gap(p.what) /\ e <= top
         /\ p.what # "row" /\ top \in Int
    BY <1>10, <2>1, <2>4, <2>5, <2>9 DEF MARGIN, Gap
  <2>101. \A i \in 1..Len(d) : Under(p, d[i])
    BY <2>4, <2>7, <2>10, HasItsPlace
  <2>11. Laid(drawn', e) /\ HasHeader(drawn')
    BY <2>4, <2>7, <2>8, <2>10, <2>101, OnePartMore
  <2>12. /\ page' \in Nat \ {0} /\ header' \in {16, 26}
         /\ footers' = [k \in 1..(IF todo' = <<>> THEN page' ELSE page' - 1) |-> k]
    BY <1>2, <2>1, <2>2, Turning
  <2>13. y' \in Int /\ y' <= TopOfNewPage
    BY <1>10, <2>1, <2>5 DEF TopOfNewPage, PAGE_HEIGHT, MARGIN
  <2> QED BY <1>2, <1>9, <2>2, <2>9, <2>11, <2>12, <2>13 DEF PdfInv
<1>13. CASE DrawRow
  <2> DEFINE turn == LacksSpace(16)
             top == IF turn THEN TopOfNewPage - header - 4 ELSE y
             again == IF turn THEN <<Part("header", TopOfNewPage, TopOfNewPage - header)>> ELSE <<>>
  <2>1. /\ turn \in BOOLEAN
        /\ turn <=> LacksSpace(16)
        /\ top \in Int
        /\ top = IF turn THEN 793 - header - 4 ELSE y
        /\ turn => again = <<Part("header", 793, 793 - header)>>
        /\ ~turn => again = <<>>
        /\ y' = top - 15
        /\ OnPage(turn, again \o <<Row(top)>>)
    <3>1. turn \in BOOLEAN
      BY DEF LacksSpace
    <3>2. top \in Int /\ top = IF turn THEN 793 - header - 4 ELSE y
      BY <1>10 DEF TopOfNewPage, PAGE_HEIGHT, MARGIN
    <3>3. (turn => again = <<Part("header", 793, 793 - header)>>) /\ (~turn => again = <<>>)
      BY DEF TopOfNewPage, PAGE_HEIGHT, MARGIN
    <3> QED BY <1>13, <3>1, <3>2, <3>3, Zenon DEF DrawRow
  <2> HIDE DEF turn, top, again
  <2>2. Doing("row") /\ Done
    BY <1>13, <2>1 DEF DrawRow, OnPage
  <2>3. PICK p, h : p = Row(top) /\ h = Part("header", 793, 793 - header)
    OBVIOUS
  <2>4. /\ p \in Parts /\ p.top = top + 9 /\ p.bottom = top - 3 /\ p.what = "row"
        /\ h \in Parts /\ h.top = 793 /\ h.bottom = 793 - header /\ h.what = "header"
    BY <1>10, <2>1, <2>3 DEF Row, Part, Parts, Drawables
  <2>5. top - 16 >= 72 /\ top <= 793
    BY <1>10, <2>1 DEF LacksSpace, MARGIN
  <2>6. PICK d : /\ Laid(d, top) /\ d \in Seq(Parts) /\ HasHeader(d)
                 /\ drawn' = Append(d, p)
    <3>1. CASE turn
      <4>0. PICK b, z, c : b = <<>> /\ z = 793 /\ c = Append(b, h)
        OBVIOUS
      <4>1. c = Append(b, h)
        BY <4>0
      <4>2. /\ h.bottom >= MARGIN /\ h.bottom >= top + Gap(h.what) /\ top <= z
            /\ h \in Parts /\ h.what = "header" /\ h.what # "row" /\ z \in Int /\ Laid(b, z)
            /\ \A i \in 1..Len(b) : Under(h, b[i])
        BY <1>10, <2>1, <2>4, <3>1, <4>0, EmptyPage DEF MARGIN, Gap
      <4>3. Laid(c, top) /\ HasHeader(c)
        <5>1. top \in Int
          BY <2>1
        <5> QED BY <4>1, <4>2, <5>1, OnePartMore
      <4>4. drawn' = Append(c, p)
        <5>1. drawn' = <<>> \o (<<h>> \o <<p>>)
          <6>1. again = <<h>>
            BY <2>1, <2>3, <3>1, Zenon
          <6>2. drawn' = (IF turn THEN <<>> ELSE drawn) \o (again \o <<p>>)
            BY <2>1, <2>3 DEF OnPage
          <6> QED BY <3>1, <6>1, <6>2, Zenon
        <5>2. <<>> \o (<<h>> \o <<p>>) = Append(Append(<<>>, h), p)
          BY <1>11, <2>4, PartsAfter
        <5> QED BY <4>0, <5>1, <5>2, Zenon
      <4> QED BY <4>3, <4>4 DEF Laid
    <3>2. CASE ~turn
      <4>1. drawn' = drawn \o (<<>> \o <<p>>)
        BY <2>1, <2>3, <3>2 DEF OnPage
      <4>2. drawn' = Append(drawn, p)
        BY <1>11, <2>4, <4>1, PartsAfter
      <4>3. HasHeader(drawn) /\ top = y
        BY <1>2, <2>1, <2>2, <3>2 DEF PdfInv
      <4> QED BY <1>10, <1>11, <4>2, <4>3
    <3> QED BY <3>1, <3>2
  <2>7. PICK e \in Int : e = y'
    BY <2>1
  <2>8. p \in Parts /\ p.top <= top + 9 /\ p.bottom >= MARGIN /\ p.bottom >= e + Gap(p.what) /\ e <= top
    BY <2>1, <2>4, <2>5, <2>7 DEF MARGIN, Gap
  <2>9. Laid(drawn', e) /\ HasHeader(drawn')
    <3>1. top \in Int
      BY <2>1
    <3>2. \A i \in 1..Len(d) : Under(p, d[i])
      BY <2>4, <2>6, <2>8, <3>1, HasItsPlace
    <3> QED BY <2>6, <2>8, <3>1, <3>2, OnePartMore
  <2>10. /\ page' \in Nat \ {0} /\ header' \in {16, 26}
         /\ footers' = [k \in 1..(IF todo' = <<>> THEN page' ELSE page' - 1) |-> k]
    BY <1>2, <2>1, <2>2, Turning
  <2>11. y' \in Int /\ y' <= TopOfNewPage
    BY <2>1, <2>5 DEF TopOfNewPage, PAGE_HEIGHT, MARGIN
  <2> QED BY <1>2, <1>9, <2>2, <2>7, <2>9, <2>10, <2>11 DEF PdfInv
<1>14. CASE EndTable
  <2>1. Doing("tableEnd") /\ Done /\ y' = y - 14 /\ UNCHANGED <<page, header, drawn, footers>>
    BY <1>14 DEF EndTable
  <2>2. y' \in Int /\ y' <= TopOfNewPage
    BY <1>10, <2>1 DEF TopOfNewPage, PAGE_HEIGHT, MARGIN
  <2>3. Laid(drawn', y') /\ Clear(drawn', y')
    BY <1>10, <2>1, PenDown
  <2>4. todo # <<>> /\ todo' # <<>> /\ todo'[1].what # "row"
    BY <1>2, <2>1 DEF After
  <2> QED BY <1>2, <1>9, <2>1, <2>2, <2>3, <2>4 DEF PdfInv
<1>15. CASE Save
  <2>1. /\ Doing("end") /\ Done /\ UNCHANGED <<y, page, header, drawn>>
        /\ footers' = Append(footers, page)
    BY <1>15 DEF Save, Footer
  <2>2. todo # <<>> /\ todo' = <<>>
    BY <1>2, <2>1
  <2>3. PICK k \in Nat \ {0} : k = page
    BY DEF PdfInv
  <2>31. PICK l : l = k + 1
    OBVIOUS
  <2>4. footers = [n \in 1..(k - 1) |-> n]
    BY <2>2, <2>3 DEF PdfInv
  <2>5. footers' = [n \in 1..(l - 1) |-> n]
    BY <2>1, <2>3, <2>31, <2>4, OneFooterMore
  <2>6. footers' = [n \in 1..(IF todo' = <<>> THEN page' ELSE page' - 1) |-> n]
    BY <2>1, <2>2, <2>3, <2>31, <2>5
  <2> QED BY <1>2, <1>9, <2>1, <2>2, <2>6 DEF PdfInv
<1> QED BY <1>1, <1>3, <1>4, <1>5, <1>6, <1>7, <1>8, <1>12, <1>13, <1>14, <1>15 DEF PdfNext

\* However long its tables are and whatever comes before them, no part of the report is
\* drawn over one drawn before it or into the bottom margin, except that the letters of the
\* first row of a table reach into the shaded band of its header, never to the header's text, the rows of every page are under a header,
\* and every page gets its footer, in their order (renderAnalyticsPdf with ensureSpace,
\* drawHeader and newPage).
THEOREM DocumentLaidOut == Spec => []LayoutSound
<1>1. PdfInv => LayoutSound
  <2> SUFFICES ASSUME PdfInv, NEW i \in DOMAIN drawn
               PROVE  /\ drawn[i].bottom >= MARGIN
                      /\ \A j \in 1..(i - 1) : Under(drawn[i], drawn[j])
                      /\ drawn[i].what = "row" => \E j \in 1..(i - 1) : drawn[j].what = "header"
    BY DEF PdfInv, LayoutSound
  <2>1. i \in 1..Len(drawn)
    BY DEF PdfInv, Laid
  <2> QED BY <2>1 DEF PdfInv, Laid
<1> QED BY <1>1, PdfInvInit, PdfInvNext, StepOfAPart, PTL DEF Spec

-----------------------------------------------------------------------------
\* Sums over sets.

\* What holds of a set when it holds of its proper subsets holds of every finite set.
LEMMA SubsetInduction ==
  ASSUME NEW S, IsFiniteSet(S), NEW P,
         \A U \in SUBSET S : (\A V \in SUBSET U : V # U => V \in P) => U \in P
  PROVE  SUBSET S \subseteq P
<1> SUFFICES ASSUME (SUBSET S) \ P # {} PROVE FALSE
  OBVIOUS
<1>1. IsWellFoundedOn(StrictSubsetOrdering(S), SUBSET S)
  <2>1. IsWellFoundedOn(StrictSubsetOrdering(S), FiniteSubsetsOf(S))
    BY FS_StrictSubsetOrderingWellFounded
  <2>2. FiniteSubsetsOf(S) = SUBSET S
    BY FS_FiniteSubsetsOfFinite
  <2> QED BY <2>1, <2>2, Zenon
<1>2. PICK U \in (SUBSET S) \ P : \A V \in (SUBSET S) \ P : ~(<<V, U>> \in StrictSubsetOrdering(S))
  <2>1. PICK R, W, Q : /\ R = StrictSubsetOrdering(S) /\ W = SUBSET S /\ Q = (SUBSET S) \ P
    OBVIOUS
  <2>2. IsWellFoundedOn(R, W) /\ Q \subseteq W /\ Q # {}
    BY <1>1, <2>1
  <2>3. \E U \in Q : \A V \in Q : ~(<<V, U>> \in R)
    BY <2>2, WFMin
  <2> QED BY <2>1, <2>3, Zenon
<1>3. ASSUME NEW V \in SUBSET U, V # U PROVE V \in P
  <2>1. V \in SUBSET S /\ <<V, U>> \in StrictSubsetOrdering(S)
    BY <1>2, <1>3 DEF StrictSubsetOrdering
  <2> QED BY <1>2, <2>1
<1> QED BY <1>2, <1>3

\* What holds of the empty set and is kept when an element is added holds of every finite set.
LEMMA ElementInduction ==
  ASSUME NEW S, IsFiniteSet(S), NEW P, {} \in P,
         \A T \in SUBSET S, x \in S : T \in P /\ x \notin T => T \cup {x} \in P
  PROVE  S \in P
<1>1. ASSUME NEW U \in SUBSET S, \A V \in SUBSET U : V # U => V \in P PROVE U \in P
  <2>1. CASE U = {}
    BY <2>1
  <2>2. CASE U # {}
    <3>1. PICK x \in U : TRUE
      BY <2>2
    <3>2. U \ {x} \in SUBSET S /\ U \ {x} \in SUBSET U /\ U \ {x} # U /\ x \notin U \ {x}
      OBVIOUS
    <3>3. U = (U \ {x}) \cup {x}
      OBVIOUS
    <3> QED BY <1>1, <3>2, <3>3
  <2> QED BY <2>1, <2>2
<1>2. SUBSET S \subseteq P
  BY <1>1, SubsetInduction
<1> QED BY <1>2

\* The sum of f over a set, as MapThenSumSet computes it: an element at a time.
SumOf(f, S) == MapThenSumSet(LAMBDA k : f[k], S)

Picked(s) == CHOOSE x \in s : TRUE
Step(f, g, s) == IF s = {} THEN 0 ELSE f[Picked(s)] + g[s \ {Picked(s)}]
Sums(f, S, g) == g = [s \in SUBSET S |-> Step(f, g, s)]

LEMMA SumUnfolded == \A f, S : SumOf(f, S) = (CHOOSE g : Sums(f, S, g))[S]
BY DEF SumOf, MapThenSumSet, MapThenFoldSet, Sums, Step, Picked

LEMMA PickedIn == \A s : s # {} => Picked(s) \in s /\ s \ {Picked(s)} # s
BY DEF Picked

LEMMA SumsAgree ==
  ASSUME NEW f, NEW S, NEW T \in SUBSET S, IsFiniteSet(T),
         NEW g, Sums(f, S, g), NEW h, Sums(f, T, h)
  PROVE  \A U \in SUBSET T : g[U] = h[U]
<1> DEFINE P == {U \in SUBSET T : g[U] = h[U]}
<1>1. \A U \in SUBSET T : g[U] = Step(f, g, U) /\ h[U] = Step(f, h, U)
  BY DEF Sums
<1>2. ASSUME NEW U \in SUBSET T, \A V \in SUBSET U : V # U => V \in P PROVE U \in P
  <2>1. CASE U = {}
    BY <1>1, <2>1 DEF Step
  <2>2. CASE U # {}
    <3>1. U \ {Picked(U)} \in P
      BY <1>2, <2>2, PickedIn
    <3> QED BY <1>1, <2>2, <3>1 DEF Step
  <2> QED BY <2>1, <2>2
<1> HIDE DEF P
<1>3. SUBSET T \subseteq P
  BY <1>2, SubsetInduction
<1> QED BY <1>3 DEF P

LEMMA SumsExist ==
  ASSUME NEW f, NEW S, IsFiniteSet(S)
  PROVE  \E g : Sums(f, S, g)
<1> DEFINE P == {U \in SUBSET S : \E g : Sums(f, U, g)}
<1>1. ASSUME NEW U \in SUBSET S, \A V \in SUBSET U : V # U => V \in P PROVE U \in P
  <2> DEFINE h[V \in SUBSET U] == CHOOSE g : Sums(f, V, g)
             g == [s \in SUBSET U |-> IF s = U THEN (IF U = {} THEN 0 ELSE f[Picked(U)] + h[U \ {Picked(U)}][U \ {Picked(U)}])
                                      ELSE h[s][s]]
  <2>1. ASSUME NEW V \in SUBSET U, V # U PROVE Sums(f, V, h[V])
    BY <1>1, <2>1
  <2>2. ASSUME NEW s \in SUBSET U PROVE g[s] = Step(f, g, s)
    <3>1. CASE s = {}
      <4>1. CASE s = U
        BY <3>1, <4>1 DEF Step
      <4>2. CASE s # U
        <5>1. Sums(f, s, h[s])
          BY <2>1, <4>2
        <5>2. \A k : Sums(f, s, k) => k[s] = Step(f, k, s)
          BY DEF Sums
        <5>3. h[s][s] = Step(f, h[s], s)
          BY <5>1, <5>2, Zenon
        <5> QED BY <3>1, <4>2, <5>3 DEF Step
      <4> QED BY <4>1, <4>2
    <3>2. CASE s # {}
      <4> DEFINE x == Picked(s)
                 r == s \ {x}
      <4>1. r \in SUBSET U /\ r # U /\ r \in SUBSET s /\ r # s
        BY <3>2, PickedIn
      <4> HIDE DEF x, r
      <4>2. g[r] = h[r][r]
        BY <4>1
      <4>3. CASE s = U
        BY <3>2, <4>2, <4>3 DEF Step, x, r
      <4>4. CASE s # U
        <5>1. Sums(f, s, h[s]) /\ Sums(f, r, h[r]) /\ IsFiniteSet(r)
          BY <2>1, <4>1, <4>4, FS_Subset
        <5>2. h[s][r] = h[r][r]
          BY <4>1, <5>1, SumsAgree
        <5>3. h[s][s] = f[x] + h[s][r]
          BY <3>2, <5>1 DEF Sums, Step, x, r
        <5>4. g[s] = f[x] + g[r]
          BY <4>2, <4>4, <5>2, <5>3
        <5> QED BY <3>2, <5>4 DEF Step, x, r
      <4> QED BY <4>3, <4>4
    <3> QED BY <3>1, <3>2
  <2>3. Sums(f, U, g)
    BY <2>2 DEF Sums
  <2> QED BY <2>3
<1> HIDE DEF P
<1>2. SUBSET S \subseteq P
  BY <1>1, SubsetInduction
<1> QED BY <1>2 DEF P

\* The sum of a set is that of an element and of the rest.
LEMMA SumOfNone == \A f : SumOf(f, {}) = 0
<1> SUFFICES ASSUME NEW f PROVE SumOf(f, {}) = 0
  OBVIOUS
<1>1. PICK g : g = CHOOSE h : Sums(f, {}, h)
  OBVIOUS
<1>2. Sums(f, {}, g)
  BY <1>1, SumsExist, FS_EmptySet
<1>3. g[{}] = 0
  BY <1>2 DEF Sums, Step
<1> QED BY <1>1, <1>3, SumUnfolded

LEMMA SumOfPicked ==
  ASSUME NEW f, NEW S, IsFiniteSet(S), S # {}
  PROVE  SumOf(f, S) = f[Picked(S)] + SumOf(f, S \ {Picked(S)})
<1>0. PICK R : R = S \ {Picked(S)}
  OBVIOUS
<1>1. PICK g : g = CHOOSE h : Sums(f, S, h)
  OBVIOUS
<1>2. PICK k : k = CHOOSE h : Sums(f, R, h)
  OBVIOUS
<1>3. R \in SUBSET S /\ IsFiniteSet(R)
  BY <1>0, FS_Subset
<1>4. Sums(f, S, g) /\ Sums(f, R, k)
  BY <1>1, <1>2, <1>3, SumsExist
<1>5. g[R] = k[R]
  BY <1>3, <1>4, SumsAgree
<1>6. g[S] = f[Picked(S)] + g[R]
  BY <1>0, <1>4 DEF Sums, Step
<1>7. SumOf(f, S) = g[S] /\ SumOf(f, R) = k[R]
  BY <1>1, <1>2, SumUnfolded
<1> QED BY <1>0, <1>5, <1>6, <1>7

LEMMA SumIsInt ==
  ASSUME NEW f, NEW S, IsFiniteSet(S), NEW N \in {Nat, Int}, \A k \in S : f[k] \in N
  PROVE  \A T \in SUBSET S : SumOf(f, T) \in N
<1> DEFINE P == {U \in SUBSET S : SumOf(f, U) \in N}
<1>1. ASSUME NEW U \in SUBSET S, \A V \in SUBSET U : V # U => V \in P PROVE U \in P
  <2>1. CASE U = {}
    BY <2>1, SumOfNone
  <2>2. CASE U # {}
    <3>1. IsFiniteSet(U) /\ U \ {Picked(U)} \in P /\ Picked(U) \in S
      BY <1>1, <2>2, PickedIn, FS_Subset
    <3>2. SumOf(f, U) = f[Picked(U)] + SumOf(f, U \ {Picked(U)})
      BY <2>2, <3>1, SumOfPicked
    <3> QED BY <3>1, <3>2
  <2> QED BY <2>1, <2>2
<1> HIDE DEF P
<1>2. SUBSET S \subseteq P
  BY <1>1, SubsetInduction
<1> QED BY <1>2 DEF P

LEMMA SumOfOneMore ==
  ASSUME NEW f, NEW S, IsFiniteSet(S), \A k \in S : f[k] \in Int, NEW x \in S
  PROVE  SumOf(f, S) = f[x] + SumOf(f, S \ {x})
<1> DEFINE P == {U \in SUBSET S : \A z \in U : SumOf(f, U) = f[z] + SumOf(f, U \ {z})}
<1>1. ASSUME NEW U \in SUBSET S, \A V \in SUBSET U : V # U => V \in P, NEW z \in U
      PROVE  SumOf(f, U) = f[z] + SumOf(f, U \ {z})
  <2>1. PICK p \in U : /\ p = Picked(U)
                       /\ SumOf(f, U) = f[p] + SumOf(f, U \ {p})
    BY PickedIn, FS_Subset, SumOfPicked
  <2>2. CASE p = z
    BY <2>1, <2>2
  <2>3. CASE p # z
    <3>1. U \ {p} \in P /\ U \ {z} \in P
      BY <1>1
    <3>2. PICK R \in SUBSET S : R = (U \ {p}) \ {z} /\ R = (U \ {z}) \ {p}
      OBVIOUS
    <3>3. SumOf(f, U \ {p}) = f[z] + SumOf(f, R) /\ SumOf(f, U \ {z}) = f[p] + SumOf(f, R)
      BY <2>3, <3>1, <3>2
    <3>4. SumOf(f, R) \in Int /\ f[p] \in Int /\ f[z] \in Int
      BY SumIsInt
    <3> QED BY <2>1, <3>3, <3>4
  <2> QED BY <2>2, <2>3
<1>2. ASSUME NEW U \in SUBSET S, \A V \in SUBSET U : V # U => V \in P PROVE U \in P
  BY <1>1, <1>2
<1> HIDE DEF P
<1>3. SUBSET S \subseteq P
  BY <1>2, SubsetInduction
<1> QED BY <1>3 DEF P

\* Equal summands have equal sums, and the sum of two sets apart is that of their sums.
LEMMA SumOfEqual ==
  ASSUME NEW f, NEW g, NEW S, IsFiniteSet(S), \A k \in S : f[k] = g[k]
  PROVE  SumOf(f, S) = SumOf(g, S)
<1> DEFINE P == {U \in SUBSET S : SumOf(f, U) = SumOf(g, U)}
<1>1. ASSUME NEW U \in SUBSET S, \A V \in SUBSET U : V # U => V \in P PROVE U \in P
  <2>1. CASE U = {}
    BY <2>1, SumOfNone
  <2>2. CASE U # {}
    <3>1. IsFiniteSet(U) /\ U \ {Picked(U)} \in P /\ Picked(U) \in S
      BY <1>1, <2>2, PickedIn, FS_Subset
    <3>2. /\ SumOf(f, U) = f[Picked(U)] + SumOf(f, U \ {Picked(U)})
          /\ SumOf(g, U) = g[Picked(U)] + SumOf(g, U \ {Picked(U)})
      BY <2>2, <3>1, SumOfPicked
    <3> QED BY <3>1, <3>2
  <2> QED BY <2>1, <2>2
<1> HIDE DEF P
<1>2. SUBSET S \subseteq P
  BY <1>1, SubsetInduction
<1> QED BY <1>2 DEF P

LEMMA SumOfTwo ==
  ASSUME NEW f, NEW S, NEW T, IsFiniteSet(S), IsFiniteSet(T), S \cap T = {},
         \A k \in S \cup T : f[k] \in Int
  PROVE  SumOf(f, S \cup T) = SumOf(f, S) + SumOf(f, T)
<1> DEFINE P == {U \in SUBSET T : SumOf(f, S \cup U) = SumOf(f, S) + SumOf(f, U)}
<1>0. IsFiniteSet(S \cup T)
  BY FS_Union
<1>1. {} \in P
  <2>1. S \cup {} = S /\ SumOf(f, S) \in Int
    BY SumIsInt
  <2> QED BY <2>1, SumOfNone
<1>2. ASSUME NEW U \in SUBSET T, NEW x \in T, U \in P, x \notin U PROVE U \cup {x} \in P
  <2>1. PICK A, B : A = S \cup (U \cup {x}) /\ B = U \cup {x}
    OBVIOUS
  <2>2. A \in SUBSET (S \cup T) /\ B \in SUBSET T /\ A \ {x} = S \cup U /\ B \ {x} = U /\ x \in A /\ x \in B
    BY <1>2, <2>1
  <2>3. IsFiniteSet(A) /\ IsFiniteSet(B)
    BY <1>0, <2>2, FS_Subset
  <2>4. SumOf(f, A) = f[x] + SumOf(f, S \cup U) /\ SumOf(f, B) = f[x] + SumOf(f, U)
    <3>1. SumOf(f, A) = f[x] + SumOf(f, A \ {x}) /\ SumOf(f, B) = f[x] + SumOf(f, B \ {x})
      BY <2>2, <2>3, SumOfOneMore
    <3> QED BY <2>2, <3>1, Zenon
  <2>5. SumOf(f, S) \in Int /\ SumOf(f, U) \in Int /\ f[x] \in Int
    BY SumIsInt
  <2>6. SumOf(f, A) = SumOf(f, S) + SumOf(f, B)
    BY <1>2, <2>4, <2>5
  <2> QED BY <2>1, <2>2, <2>6, Zenon
<1> HIDE DEF P
<1>3. T \in P
  BY <1>1, <1>2, ElementInduction
<1> QED BY <1>3 DEF P

LEMMA SumGrows ==
  ASSUME NEW f, NEW S, IsFiniteSet(S), \A k \in S : f[k] \in Nat, NEW T \in SUBSET S
  PROVE  /\ SumOf(f, S) = SumOf(f, T) + SumOf(f, S \ T)
         /\ SumOf(f, S) \in Nat /\ SumOf(f, T) \in Nat /\ SumOf(f, S \ T) \in Nat
<1>1. IsFiniteSet(T) /\ IsFiniteSet(S \ T) /\ T \cup (S \ T) = S /\ T \cap (S \ T) = {}
  BY FS_Subset
<1>2. SumOf(f, T \cup (S \ T)) = SumOf(f, T) + SumOf(f, S \ T)
  BY <1>1, SumOfTwo
<1> QED BY <1>1, <1>2, SumIsInt

\* GROUP BY: the sums of the groups add up to the sum of all that are in one of them, and
\* their counts to how many there are.
LEMMA SumByGroup ==
  ASSUME NEW f, NEW S, IsFiniteSet(S), \A t \in S : f[t] \in Int,
         NEW key, NEW K, IsFiniteSet(K)
  PROVE  LET group == [k \in K |-> SumOf(f, {t \in S : key[t] = k})]
         IN  SumOf(group, K) = SumOf(f, {t \in S : key[t] \in K})
<1> DEFINE group == [k \in K |-> SumOf(f, {t \in S : key[t] = k})]
           P == {L \in SUBSET K : SumOf(group, L) = SumOf(f, {t \in S : key[t] \in L})}
<1>0. \A k \in K : group[k] \in Int
  BY SumIsInt
<1>1. {} \in P
  <2>1. {t \in S : key[t] \in {}} = {}
    OBVIOUS
  <2> QED BY <2>1, SumOfNone
<1>2. ASSUME NEW L \in SUBSET K, NEW k \in K, L \in P, k \notin L PROVE L \cup {k} \in P
  <2>1. PICK M : M = L \cup {k}
    OBVIOUS
  <2>2. M \in SUBSET K /\ M \ {k} = L /\ k \in M /\ IsFiniteSet(M)
    BY <1>2, <2>1, FS_Subset
  <2> HIDE DEF group
  <2>3. SumOf(group, M) = group[k] + SumOf(group, L)
    <3>1. SumOf(group, M) = group[k] + SumOf(group, M \ {k})
      BY <1>0, <2>2, SumOfOneMore
    <3> QED BY <2>2, <3>1, Zenon
  <2>4. PICK A, B, C : /\ A = {t \in S : key[t] \in L} /\ B = {t \in S : key[t] = k}
                       /\ C = {t \in S : key[t] \in M}
    OBVIOUS
  <2>5. C = A \cup B /\ A \cap B = {} /\ A \in SUBSET S /\ B \in SUBSET S
    BY <1>2, <2>1, <2>4
  <2>6. SumOf(f, C) = SumOf(f, A) + SumOf(f, B)
    BY <2>5, FS_Subset, SumOfTwo
  <2>7. SumOf(f, A) \in Int /\ SumOf(f, B) \in Int
    BY <2>5, SumIsInt
  <2>8. group[k] = SumOf(f, B) /\ SumOf(group, L) = SumOf(f, A)
    BY <1>2, <2>4 DEF group
  <2>9. SumOf(group, M) = SumOf(f, C)
    BY <2>3, <2>6, <2>7, <2>8
  <2> QED BY <2>1, <2>2, <2>4, <2>9, Zenon
<1> HIDE DEF P
<1>3. K \in P
  BY <1>1, <1>2, ElementInduction
<1> QED BY <1>3 DEF P

LEMMA CountByGroup ==
  ASSUME NEW S, IsFiniteSet(S), NEW key, NEW K, IsFiniteSet(K)
  PROVE  LET group == [k \in K |-> Cardinality({t \in S : key[t] = k})]
         IN  SumOf(group, K) = Cardinality({t \in S : key[t] \in K})
<1> DEFINE group == [k \in K |-> Cardinality({t \in S : key[t] = k})]
           P == {L \in SUBSET K : SumOf(group, L) = Cardinality({t \in S : key[t] \in L})}
<1>0. \A k \in K : group[k] \in Int
  BY FS_Subset, FS_CardinalityType
<1>1. {} \in P
  <2>1. {t \in S : key[t] \in {}} = {}
    OBVIOUS
  <2> QED BY <2>1, SumOfNone, FS_EmptySet
<1>2. ASSUME NEW L \in SUBSET K, NEW k \in K, L \in P, k \notin L PROVE L \cup {k} \in P
  <2>1. PICK M : M = L \cup {k}
    OBVIOUS
  <2>2. M \in SUBSET K /\ M \ {k} = L /\ k \in M /\ IsFiniteSet(M)
    BY <1>2, <2>1, FS_Subset
  <2> HIDE DEF group
  <2>3. SumOf(group, M) = group[k] + SumOf(group, L)
    <3>1. SumOf(group, M) = group[k] + SumOf(group, M \ {k})
      BY <1>0, <2>2, SumOfOneMore
    <3> QED BY <2>2, <3>1, Zenon
  <2>4. PICK A, B, C : /\ A = {t \in S : key[t] \in L} /\ B = {t \in S : key[t] = k}
                       /\ C = {t \in S : key[t] \in M}
    OBVIOUS
  <2>5. C = A \cup B /\ A \cap B = {} /\ A \in SUBSET S /\ B \in SUBSET S
    BY <1>2, <2>1, <2>4
  <2>6. IsFiniteSet(A) /\ IsFiniteSet(B)
    BY <2>5, FS_Subset
  <2>7. Cardinality(C) = Cardinality(A) + Cardinality(B) /\ Cardinality(A) \in Int /\ Cardinality(B) \in Int
    <3>1. Cardinality(A \cup B) = Cardinality(A) + Cardinality(B) - Cardinality(A \cap B)
      BY <2>6, FS_Union
    <3>2. Cardinality(A \cap B) = 0
      BY <2>5, FS_EmptySet
    <3>3. Cardinality(A) \in Nat /\ Cardinality(B) \in Nat
      BY <2>6, FS_CardinalityType
    <3> QED BY <2>5, <3>1, <3>2, <3>3
  <2>8. group[k] = Cardinality(B) /\ SumOf(group, L) = Cardinality(A)
    BY <1>2, <2>4 DEF group
  <2>9. SumOf(group, M) = Cardinality(C)
    BY <2>3, <2>7, <2>8
  <2> QED BY <2>1, <2>2, <2>4, <2>9, Zenon
<1> HIDE DEF P
<1>3. K \in P
  BY <1>1, <1>2, ElementInduction
<1> QED BY <1>3 DEF P

-----------------------------------------------------------------------------
\* The calendar.

\* What holds of 0 and is kept by adding 1 holds of every natural number.
LEMMA NaturalInduction ==
  ASSUME NEW P, 0 \in P, \A n \in Nat : n \in P => n + 1 \in P
  PROVE  Nat \subseteq P
<1> SUFFICES ASSUME Nat \ P # {} PROVE FALSE
  OBVIOUS
<1>1. PICK R : R = OpToRel(<, Nat)
  OBVIOUS
<1>2. PICK Q : Q = Nat \ P
  OBVIOUS
<1>3. IsWellFoundedOn(R, Nat) /\ Q \subseteq Nat /\ Q # {}
  BY <1>1, <1>2, NatLessThanWellFounded
<1>4. PICK n \in Q : \A m \in Q : ~(<<m, n>> \in R)
  BY <1>3, WFMin
<1>5. n \in Nat /\ n \notin P
  BY <1>2
<1>6. n - 1 \in Nat /\ (n - 1) + 1 = n
  BY <1>5
<1>7. n - 1 \notin P
  BY <1>5, <1>6
<1>8. n - 1 \in Q /\ <<n - 1, n>> \in R
  BY <1>1, <1>2, <1>5, <1>6, <1>7 DEF OpToRel
<1> QED BY <1>4, <1>8

LEMMA MonthLengths == \A m \in Nat : MonthLength(m) \in 28..31
BY DEF MonthLength

\* The recursion of FirstDay has a solution, and FirstDay is one.
LEMMA FirstDayRecursion ==
  \A m \in Months : FirstDay[m] = IF m = 0 THEN 0 ELSE FirstDay[m - 1] + MonthLength(m - 1)
<1> DEFINE Days(n, g) == g = [m \in 0..n |-> IF m = 0 THEN 0 ELSE g[m - 1] + MonthLength(m - 1)]
           P == {n \in Nat : \E g : Days(n, g)}
<1>1. 0 \in P
  <2> DEFINE g == [m \in 0..0 |-> 0]
  <2>1. \A m \in 0..0 : m = 0
    OBVIOUS
  <2>2. Days(0, g)
    BY <2>1
  <2> QED BY <2>2
<1>2. ASSUME NEW n \in Nat, n \in P PROVE n + 1 \in P
  <2>1. PICK g : Days(n, g)
    BY <1>2
  <2> DEFINE h == [m \in 0..(n + 1) |-> IF m <= n THEN g[m] ELSE g[n] + MonthLength(n)]
  <2>2. ASSUME NEW m \in 0..(n + 1) PROVE h[m] = IF m = 0 THEN 0 ELSE h[m - 1] + MonthLength(m - 1)
    <3>1. CASE m = n + 1
      <4>1. m - 1 = n /\ m # 0 /\ n \in 0..(n + 1) /\ n <= n /\ ~(m <= n)
        BY <3>1
      <4> QED BY <4>1
    <3>2. CASE m # n + 1
      <4>1. m \in 0..n /\ m <= n /\ (m # 0 => m - 1 \in 0..(n + 1) /\ m - 1 <= n)
        BY <3>2
      <4>2. g[m] = IF m = 0 THEN 0 ELSE g[m - 1] + MonthLength(m - 1)
        BY <2>1, <4>1
      <4> QED BY <4>1, <4>2
    <3> QED BY <3>1, <3>2
  <2>3. Days(n + 1, h)
    BY <2>2
  <2> HIDE DEF h
  <2>4. \E k : Days(n + 1, k)
    BY <2>3
  <2> QED BY <2>4
<1>3. LastMonth \in P
  <2> HIDE DEF P
  <2>1. Nat \subseteq P
    BY <1>1, <1>2, NaturalInduction
  <2> QED BY <2>1, CalendarOK
<1>4. \E g : Days(LastMonth, g)
  BY <1>3
<1>5. FirstDay = CHOOSE g : Days(LastMonth, g)
  BY DEF FirstDay, Months
<1>6. Days(LastMonth, FirstDay)
  BY <1>4, <1>5
<1> QED BY <1>6 DEF Months

LEMMA FirstDays ==
  /\ 0 \in Months /\ FirstDay[0] = 0
  /\ \A m \in Months : /\ m \in Nat
                       /\ FirstDay[m] \in Nat
                       /\ 28 * m <= FirstDay[m] /\ FirstDay[m] <= 31 * m
                       /\ m + 1 \in Months => FirstDay[m + 1] = FirstDay[m] + MonthLength(m)
<1>0. LastMonth \in Nat
  BY CalendarOK
<1>1. 0 \in Months /\ FirstDay[0] = 0
  BY <1>0, FirstDayRecursion DEF Months
<1>2. ASSUME NEW m \in Nat, m + 1 \in Months PROVE m \in Months /\ FirstDay[m + 1] = FirstDay[m] + MonthLength(m)
  <2>1. m \in Months /\ m + 1 # 0 /\ m + 1 - 1 = m
    BY <1>0, <1>2 DEF Months
  <2> QED BY <1>2, <2>1, FirstDayRecursion
<1> DEFINE P == {m \in Nat : m \in Months => /\ FirstDay[m] \in Nat
                                             /\ 28 * m <= FirstDay[m] /\ FirstDay[m] <= 31 * m}
<1>3. 0 \in P
  BY <1>1
<1>4. ASSUME NEW m \in Nat, m \in P PROVE m + 1 \in P
  <2> SUFFICES ASSUME m + 1 \in Months PROVE m + 1 \in P
    OBVIOUS
  <2>1. MonthLength(m) \in 28..31
    BY MonthLengths
  <2> QED BY <1>2, <1>4, <2>1
<1> HIDE DEF P
<1>5. Nat \subseteq P
  BY <1>3, <1>4, NaturalInduction
<1>6. \A m \in Months : m \in Nat
  BY <1>0 DEF Months
<1> QED BY <1>1, <1>2, <1>5, <1>6 DEF P

\* A month starts after the earlier ones have ended.
LEMMA MonthsInOrder ==
  ASSUME NEW i \in Months, NEW j \in Months, i < j
  PROVE  FirstDay[i] + MonthLength(i) <= FirstDay[j]
<1> DEFINE P == {n \in Nat : i + 1 + n \in Months => FirstDay[i] + MonthLength(i) <= FirstDay[i + 1 + n]}
<1>1. 0 \in P
  <2>1. i + 1 + 0 = i + 1 /\ FirstDay[i] \in Nat /\ MonthLength(i) \in Nat
    <3>1. i \in Nat /\ FirstDay[i] \in Nat
      BY FirstDays
    <3>2. MonthLength(i) \in 28..31
      BY <3>1, MonthLengths
    <3> QED BY <3>1, <3>2
  <2> QED BY <2>1, FirstDays
<1>2. ASSUME NEW n \in Nat, n \in P PROVE n + 1 \in P
  <2> SUFFICES ASSUME i + 1 + (n + 1) \in Months PROVE n + 1 \in P
    OBVIOUS
  <2>1. PICK k \in Months : k = i + 1 + n /\ k + 1 = i + 1 + (n + 1) /\ k \in Nat
    <3>1. i + 1 + n \in Months /\ i \in Nat
      BY CalendarOK, FirstDays DEF Months
    <3> QED BY <3>1
  <2>2. FirstDay[k + 1] = FirstDay[k] + MonthLength(k) /\ MonthLength(k) \in Nat /\ FirstDay[k] \in Nat
    BY <2>1, FirstDays, MonthLengths
  <2>3. FirstDay[i] \in Nat /\ MonthLength(i) \in Nat
    BY FirstDays, MonthLengths
  <2>4. FirstDay[i] + MonthLength(i) <= FirstDay[k]
    BY <1>2, <2>1
  <2>5. FirstDay[i] + MonthLength(i) <= FirstDay[k + 1]
    BY <2>2, <2>3, <2>4
  <2> QED BY <2>1, <2>5
<1> HIDE DEF P
<1>3. Nat \subseteq P
  BY <1>1, <1>2, NaturalInduction
<1>4. i \in Nat /\ j \in Nat
  BY FirstDays
<1>5. j - i - 1 \in Nat /\ i + 1 + (j - i - 1) = j
  BY <1>4
<1> QED BY <1>3, <1>5 DEF P

\* Days that the calendar has.
InCalendar(day) == day \in Nat /\ day \div 28 <= LastMonth

Holds(m, day) == FirstDay[m] <= day /\ day < FirstDay[m] + MonthLength(m)

LEMMA DayHasMonth ==
  ASSUME NEW day, InCalendar(day)
  PROVE  \E m \in Months : Holds(m, day)
<1> DEFINE P == {d \in Nat : d \div 28 <= LastMonth => \E m \in Months : Holds(m, d)}
<1>1. 0 \in P
  BY FirstDays, MonthLengths DEF Holds
<1>2. ASSUME NEW d \in Nat, d \in P, (d + 1) \div 28 <= LastMonth PROVE \E m \in Months : Holds(m, d + 1)
  <2>1. d \div 28 <= LastMonth
    BY <1>2, CalendarOK
  <2>2. PICK m \in Months : Holds(m, d)
    BY <1>2, <2>1
  <2>3. /\ m \in Nat /\ FirstDay[m] \in Nat /\ MonthLength(m) \in 28..31
        /\ 28 * m <= FirstDay[m]
    BY FirstDays, MonthLengths
  <2>4. CASE d + 1 < FirstDay[m] + MonthLength(m)
    BY <2>2, <2>3, <2>4 DEF Holds
  <2>5. CASE d + 1 = FirstDay[m] + MonthLength(m)
    <3>1. m + 1 <= (d + 1) \div 28
      BY <2>3, <2>5
    <3>2. m + 1 \in Months
      BY <1>2, <2>3, <3>1, CalendarOK DEF Months
    <3>3. FirstDay[m + 1] = d + 1 /\ MonthLength(m + 1) \in 28..31
      BY <2>3, <2>5, <3>2, FirstDays, MonthLengths
    <3>4. Holds(m + 1, d + 1)
      BY <3>3 DEF Holds
    <3> QED BY <3>2, <3>4
  <2> QED BY <2>2, <2>3, <2>4, <2>5 DEF Holds
<1>3. ASSUME NEW d \in Nat, d \in P PROVE d + 1 \in P
  <2> SUFFICES ASSUME (d + 1) \div 28 <= LastMonth PROVE \E m \in Months : Holds(m, d + 1)
    OBVIOUS
  <2> QED BY <1>2, <1>3
<1> HIDE DEF P
<1>4. Nat \subseteq P
  BY <1>1, <1>3, NaturalInduction
<1> QED BY <1>4 DEF P, InCalendar

\* MonthOf finds the month of every day of the calendar, and only that one has the day.
LEMMA MonthOfDay ==
  ASSUME NEW day, InCalendar(day)
  PROVE  /\ MonthOf(day) \in Months
         /\ Holds(MonthOf(day), day)
         /\ day \div 31 <= MonthOf(day)
         /\ \A m \in Months : Holds(m, day) => m = MonthOf(day)
<1>1. ASSUME NEW m \in (day \div 31)..(day \div 28) PROVE m \in Months
  BY <1>1, CalendarOK DEF InCalendar, Months
<1>2. PICK m \in Months : Holds(m, day)
  BY DayHasMonth
<1>3. m \in Nat /\ FirstDay[m] \in Nat /\ MonthLength(m) \in 28..31
      /\ 28 * m <= FirstDay[m] /\ FirstDay[m] <= 31 * m
  BY FirstDays, MonthLengths
<1>4. m \in (day \div 31)..(day \div 28)
  <2>1. 28 * m <= day /\ day < 31 * (m + 1) /\ day \in Nat
    BY <1>2, <1>3 DEF Holds, InCalendar
  <2> QED BY <1>3, <2>1
<1>5. MonthOf(day) \in (day \div 31)..(day \div 28) /\ Holds(MonthOf(day), day)
  BY <1>2, <1>4 DEF MonthOf, Holds
<1>6. MonthOf(day) \in Months /\ day \div 31 <= MonthOf(day)
  BY <1>1, <1>5 DEF InCalendar
<1>7. ASSUME NEW i \in Months, NEW j \in Months, Holds(i, day), Holds(j, day) PROVE ~(i < j)
  <2> SUFFICES ASSUME i < j PROVE FALSE
    OBVIOUS
  <2>1. FirstDay[i] + MonthLength(i) <= FirstDay[j]
    BY MonthsInOrder
  <2>2. FirstDay[i] \in Nat /\ FirstDay[j] \in Nat /\ MonthLength(i) \in Nat
    BY FirstDays, MonthLengths
  <2> QED BY <1>7, <2>1, <2>2 DEF Holds, InCalendar
<1>8. ASSUME NEW i \in Months, Holds(i, day) PROVE i = MonthOf(day)
  <2>1. i \in Nat /\ MonthOf(day) \in Nat
    BY <1>6, FirstDays
  <2>2. ~(i < MonthOf(day)) /\ ~(MonthOf(day) < i)
    BY <1>5, <1>6, <1>7, <1>8
  <2> QED BY <2>1, <2>2
<1> QED BY <1>5, <1>6, <1>8

\* A later day is not in an earlier month, and a month starts in itself.
LEMMA MonthOfOrder ==
  ASSUME NEW d, NEW e, InCalendar(d), InCalendar(e), d <= e
  PROVE  MonthOf(d) <= MonthOf(e)
<1>1. PICK i \in Months, j \in Months : i = MonthOf(d) /\ j = MonthOf(e) /\ Holds(i, d) /\ Holds(j, e)
  BY MonthOfDay
<1>2. i \in Nat /\ j \in Nat /\ FirstDay[i] \in Nat /\ FirstDay[j] \in Nat /\ MonthLength(j) \in Nat
  BY FirstDays, MonthLengths
<1>3. ~(j < i)
  <2> SUFFICES ASSUME j < i PROVE FALSE
    OBVIOUS
  <2>1. FirstDay[j] + MonthLength(j) <= FirstDay[i]
    BY MonthsInOrder
  <2> QED BY <1>1, <1>2, <2>1 DEF Holds, InCalendar
<1> QED BY <1>1, <1>2, <1>3

LEMMA MonthOfFirst ==
  ASSUME NEW m \in Months, InCalendar(FirstDay[m])
  PROVE  MonthOf(FirstDay[m]) = m
<1>1. Holds(m, FirstDay[m])
  BY FirstDays, MonthLengths DEF Holds
<1> QED BY <1>1, MonthOfDay

-----------------------------------------------------------------------------
\* The analytics report.

\* The queries that count tickets issued, and those that count tickets completed.
IssuedParts == {"daily", "weekly", "status"}
CompletedParts == {"hourly", "queue", "branch", "staff"}

\* What a query returns: how many tickets there are for each of a finite number of keys.
Tallies(f) == IsFiniteSet(DOMAIN f) /\ \A k \in DOMAIN f : f[k] \in Nat

Close(a, b, n) == a - b \in -n..n

\* Whatever has been read is as many tickets away from what is committed now, and from what
\* else has been read, as have changed since the first query.
AnalyticsInv ==
  /\ manager \in DOMAIN Managers
  /\ row \in [Tickets -> Rows]
  /\ changes \in Nat
  /\ DOMAIN results \subseteq Queries
  /\ \A q \in DOMAIN results : Tallies(results[q])
  /\ \A q \in IssuedParts \cap DOMAIN results :
       /\ Close(sumCounts(results[q]), Cardinality(IssuedIn), changes)
       /\ \A p \in IssuedParts \cap DOMAIN results : Close(sumCounts(results[q]), sumCounts(results[p]), changes)
  /\ \A q \in CompletedParts \cap DOMAIN results :
       /\ Close(sumCounts(results[q]), Cardinality(Served), changes)
       /\ \A p \in CompletedParts \cap DOMAIN results : Close(sumCounts(results[q]), sumCounts(results[p]), changes)

LEMMA SumCountsIsSum == \A f : sumCounts(f) = SumOf(f, DOMAIN f)
BY DEF sumCounts, SumOf

LEMMA SumOfTallies ==
  ASSUME NEW f, Tallies(f)
  PROVE  /\ sumCounts(f) \in Nat
         /\ \A k \in DOMAIN f : f[k] <= sumCounts(f)
<1>1. sumCounts(f) \in Nat
  BY SumCountsIsSum, SumIsInt DEF Tallies
<1>2. ASSUME NEW k \in DOMAIN f PROVE f[k] <= sumCounts(f)
  <2>1. SumOf(f, DOMAIN f) = f[k] + SumOf(f, DOMAIN f \ {k})
    BY SumOfOneMore DEF Tallies
  <2>2. SumOf(f, DOMAIN f \ {k}) \in Nat /\ f[k] \in Nat
    BY SumIsInt DEF Tallies
  <2> QED BY <1>1, <2>1, <2>2, SumCountsIsSum
<1> QED BY <1>1, <1>2

LEMMA FiniteImage ==
  ASSUME NEW S, IsFiniteSet(S), NEW key
  PROVE  IsFiniteSet({key[t] : t \in S})
<1> DEFINE f == [t \in S |-> key[t]]
           T == {key[t] : t \in S}
<1>1. f \in Surjection(S, T)
  BY DEF Surjection
<1> QED BY <1>1, FS_Surjection

\* GROUP BY counts every ticket once.
LEMMA GroupedAddsUp ==
  ASSUME NEW S, IsFiniteSet(S), NEW key
  PROVE  Tallies(Grouped(S, key)) /\ sumCounts(Grouped(S, key)) = Cardinality(S)
<1> DEFINE K == {key[t] : t \in S}
           g == [k \in K |-> Cardinality({t \in S : key[t] = k})]
<1>1. IsFiniteSet(K)
  BY FiniteImage
<1>2. {t \in S : key[t] \in K} = S
  OBVIOUS
<1>3. ASSUME NEW k \in K PROVE g[k] \in Nat
  BY FS_Subset, FS_CardinalityType
<1>4. SumOf(g, K) = Cardinality(S)
  <2> HIDE DEF K
  <2>1. SumOf(g, K) = Cardinality({t \in S : key[t] \in K})
    BY <1>1, CountByGroup
  <2> QED BY <1>2, <2>1, Zenon
<1>5. DOMAIN g = K /\ Grouped(S, key) = g
  BY DEF Grouped
<1> HIDE DEF K, g
<1>6. Tallies(g) /\ sumCounts(g) = Cardinality(S)
  BY <1>1, <1>3, <1>4, <1>5, SumCountsIsSum DEF Tallies
<1> QED BY <1>5, <1>6, Zenon

\* LEFT JOIN ... GROUP BY counts every ticket of those units once.
LEMMA PerformanceAddsUp ==
  ASSUME NEW units, IsFiniteSet(units), NEW unitOf, IsFiniteSet(CompletedIn)
  PROVE  /\ Tallies(PerformanceOf(units, unitOf))
         /\ sumCounts(PerformanceOf(units, unitOf)) = Cardinality({t \in CompletedIn : unitOf[t] \in units})
<1> DEFINE S == CompletedIn
           g == [u \in units |-> Cardinality({t \in S : unitOf[t] = u})]
<1> HIDE DEF S
<1>0. IsFiniteSet(S)
  BY DEF S
<1>1. ASSUME NEW u \in units PROVE g[u] \in Nat
  BY <1>0, FS_Subset, FS_CardinalityType
<1>2. SumOf(g, units) = Cardinality({t \in S : unitOf[t] \in units})
  BY <1>0, CountByGroup
<1>3. DOMAIN g = units /\ PerformanceOf(units, unitOf) = g
  BY DEF PerformanceOf, S
<1> HIDE DEF g
<1>4. Tallies(g) /\ sumCounts(g) = Cardinality({t \in S : unitOf[t] \in units})
  BY <1>1, <1>2, <1>3, SumCountsIsSum DEF Tallies
<1> QED BY <1>3, <1>4, Zenon DEF S

LEMMA FiniteSelections ==
  /\ IsFiniteSet(IssuedIn) /\ IsFiniteSet(CompletedIn) /\ IsFiniteSet(Served)
  /\ IsFiniteSet(Branches)
  /\ manager \in DOMAIN Managers => IsFiniteSet(managerBranchScope)
<1>1. IssuedIn \in SUBSET Tickets /\ CompletedIn \in SUBSET Tickets /\ Served \in SUBSET Tickets
  BY DEF IssuedIn, CompletedIn, Served
<1>2. IsFiniteSet(Tickets) /\ IsFiniteSet(Queues)
  BY AnalyticsOK
<1>3. IsFiniteSet(Branches)
  BY <1>2, FiniteImage DEF Branches
<1>4. manager \in DOMAIN Managers => IsFiniteSet(managerBranchScope)
  BY <1>3, AnalyticsOK DEF managerBranchScope
<1> QED BY <1>1, <1>2, <1>3, <1>4, FS_Subset

\* Each query counts every ticket it selects once, whatever it groups them by.
LEMMA ResultAddsUp ==
  ASSUME AnalyticsInv
  PROVE  /\ \A q \in IssuedParts : Tallies(Result(q)) /\ sumCounts(Result(q)) = Cardinality(IssuedIn)
         /\ \A q \in CompletedParts : Tallies(Result(q)) /\ sumCounts(Result(q)) = Cardinality(Served)
<1>1. IsFiniteSet(IssuedIn) /\ IsFiniteSet(CompletedIn) /\ IsFiniteSet(Served)
      /\ IsFiniteSet(managerBranchScope) /\ IsFiniteSet(Queues)
  BY FiniteSelections, AnalyticsOK DEF AnalyticsInv
<1>2. \A key : /\ Tallies(Grouped(IssuedIn, key)) /\ sumCounts(Grouped(IssuedIn, key)) = Cardinality(IssuedIn)
               /\ Tallies(Grouped(Served, key)) /\ sumCounts(Grouped(Served, key)) = Cardinality(Served)
  BY <1>1, GroupedAddsUp
<1>3. Tallies(queueRows) /\ sumCounts(queueRows) = Cardinality(Served)
  <2> DEFINE units == {q \in Queues : BranchOf[q] \in managerBranchScope}
             unitOf == [t \in Tickets |-> row[t].queue]
  <2>1. IsFiniteSet(units)
    BY <1>1, FS_Subset
  <2>2. {t \in CompletedIn : unitOf[t] \in units} = Served
    BY DEF CompletedIn, Served, branchFilter, AnalyticsInv, Rows
  <2>3. queueRows = PerformanceOf(units, unitOf)
    BY DEF queueRows
  <2> HIDE DEF units, unitOf
  <2>4. /\ Tallies(PerformanceOf(units, unitOf))
        /\ sumCounts(PerformanceOf(units, unitOf)) = Cardinality({t \in CompletedIn : unitOf[t] \in units})
    BY <1>1, <2>1, PerformanceAddsUp
  <2> QED BY <2>2, <2>3, <2>4, Zenon
<1>4. Tallies(branchRows) /\ sumCounts(branchRows) = Cardinality(Served)
  <2> DEFINE unitOf == [t \in Tickets |-> BranchOf[row[t].queue]]
  <2>1. {t \in CompletedIn : unitOf[t] \in managerBranchScope} = Served
    BY DEF CompletedIn, Served, branchFilter
  <2>2. branchRows = PerformanceOf(managerBranchScope, unitOf)
    BY DEF branchRows
  <2> HIDE DEF unitOf
  <2>3. /\ Tallies(PerformanceOf(managerBranchScope, unitOf))
        /\ sumCounts(PerformanceOf(managerBranchScope, unitOf))
             = Cardinality({t \in CompletedIn : unitOf[t] \in managerBranchScope})
    BY <1>1, PerformanceAddsUp
  <2> QED BY <2>1, <2>2, <2>3, Zenon
<1>5. /\ Result("daily") = Grouped(IssuedIn, [t \in Tickets |-> Day(row[t].joined)])
      /\ Result("weekly") = Grouped(IssuedIn, [t \in Tickets |-> Week(row[t].joined)])
      /\ Result("status") = Grouped(IssuedIn, [t \in Tickets |-> row[t].status])
      /\ Result("hourly") = Grouped(Served, [t \in Tickets |-> row[t].completed % HoursPerDay])
      /\ Result("queue") = queueRows
      /\ Result("branch") = branchRows
      /\ Result("staff") = Grouped(Served, [t \in Tickets |-> row[t].staff])
  BY DEF Result, staffRows
<1>6. \A q \in IssuedParts : Tallies(Result(q)) /\ sumCounts(Result(q)) = Cardinality(IssuedIn)
  BY <1>2, <1>5, Zenon DEF IssuedParts
<1>7. \A q \in CompletedParts : Tallies(Result(q)) /\ sumCounts(Result(q)) = Cardinality(Served)
  BY <1>2, <1>3, <1>4, <1>5, Zenon DEF CompletedParts
<1> QED BY <1>6, <1>7

\* A ticket that changes is one more or less among those a query selects, or none.
LEMMA OneChanged ==
  ASSUME NEW S, NEW T, NEW t, IsFiniteSet(S), IsFiniteSet(T), S \ {t} = T \ {t}
  PROVE  Close(Cardinality(S), Cardinality(T), 1)
<1>1. PICK R : R = S \ {t} /\ R = T \ {t}
  OBVIOUS
<1>2. /\ Cardinality(S \ {t}) = IF t \in S THEN Cardinality(S) - 1 ELSE Cardinality(S)
      /\ Cardinality(T \ {t}) = IF t \in T THEN Cardinality(T) - 1 ELSE Cardinality(T)
  BY FS_RemoveElement
<1>3. /\ Cardinality(R) = IF t \in S THEN Cardinality(S) - 1 ELSE Cardinality(S)
      /\ Cardinality(R) = IF t \in T THEN Cardinality(T) - 1 ELSE Cardinality(T)
  BY <1>1, <1>2, Zenon
<1>4. Cardinality(S) \in Nat /\ Cardinality(T) \in Nat
  BY FS_CardinalityType
<1> QED BY <1>3, <1>4 DEF Close

LEMMA AnalyticsInvInit == Init => AnalyticsInv
<1> SUFFICES ASSUME Init PROVE AnalyticsInv
  OBVIOUS
<1>1. manager \in DOMAIN Managers /\ row \in [Tickets -> NewRows] /\ results = <<>> /\ changes = 0
  <2>1. (CHOOSE m \in DOMAIN Managers : TRUE) \in DOMAIN Managers /\ (CHOOSE r \in NewRows : TRUE) \in NewRows
    BY AnalyticsOK
  <2>2. CASE NoAnalyticsAsked
    BY <2>1, <2>2 DEF NoAnalyticsAsked
  <2>3. CASE AnalyticsInit
    BY <2>3 DEF AnalyticsInit
  <2> QED BY <2>2, <2>3 DEF Init
<1>2. row \in [Tickets -> Rows]
  BY <1>1, AnalyticsOK
<1>3. DOMAIN results = {}
  BY <1>1
<1> QED BY <1>1, <1>2, <1>3 DEF AnalyticsInv

LEMMA AnalyticsInvNext == AnalyticsInv /\ [AnalyticsNext]_analyticsVars => AnalyticsInv'
<1> SUFFICES ASSUME AnalyticsInv, [AnalyticsNext]_analyticsVars PROVE AnalyticsInv'
  OBVIOUS
<1>0. /\ Cardinality(IssuedIn) \in Nat /\ Cardinality(Served) \in Nat
      /\ changes \in Nat
      /\ \A q \in DOMAIN results : sumCounts(results[q]) \in Nat
  BY FiniteSelections, FS_CardinalityType, SumOfTallies DEF AnalyticsInv
<1>1. ASSUME UNCHANGED <<manager, row>>
      PROVE  IssuedIn' = IssuedIn /\ Served' = Served
  BY <1>1 DEF IssuedIn, Served, CompletedIn, branchFilter, managerBranchScope, During
<1>2. CASE UNCHANGED analyticsVars
  BY <1>1, <1>2 DEF analyticsVars, AnalyticsInv
<1>3. ASSUME NEW S \in SUBSET Queries, RunQueries(S) PROVE AnalyticsInv'
  <2>1. /\ UNCHANGED <<manager, row, changes>>
        /\ DOMAIN results' = DOMAIN results \cup S
        /\ \A q \in S : results'[q] = Result(q)
        /\ \A q \in DOMAIN results : results'[q] = results[q]
    BY <1>3 DEF RunQueries
  <2>2. IssuedIn' = IssuedIn /\ Served' = Served
    BY <1>1, <2>1
  <2>3. /\ \A q \in IssuedParts \cap S : /\ Tallies(results'[q])
                                         /\ sumCounts(results'[q]) = Cardinality(IssuedIn)
        /\ \A q \in CompletedParts \cap S : /\ Tallies(results'[q])
                                            /\ sumCounts(results'[q]) = Cardinality(Served)
    BY <2>1, ResultAddsUp
  <2>4. \A q \in DOMAIN results : /\ Tallies(results'[q])
                                  /\ sumCounts(results'[q]) = sumCounts(results[q])
    BY <2>1 DEF AnalyticsInv
  <2>5. Queries = IssuedParts \cup CompletedParts
    BY DEF Queries, IssuedParts, CompletedParts
  <2>6. \A q \in DOMAIN results' : Tallies(results'[q])
    BY <2>1, <2>3, <2>4, <2>5
  <2>7. ASSUME NEW q \in IssuedParts \cap DOMAIN results'
        PROVE  /\ Close(sumCounts(results'[q]), Cardinality(IssuedIn), changes)
               /\ \A p \in IssuedParts \cap DOMAIN results' :
                    Close(sumCounts(results'[q]), sumCounts(results'[p]), changes)
    BY <1>0, <2>1, <2>3, <2>4 DEF AnalyticsInv, Close
  <2>8. ASSUME NEW q \in CompletedParts \cap DOMAIN results'
        PROVE  /\ Close(sumCounts(results'[q]), Cardinality(Served), changes)
               /\ \A p \in CompletedParts \cap DOMAIN results' :
                    Close(sumCounts(results'[q]), sumCounts(results'[p]), changes)
    BY <1>0, <2>1, <2>3, <2>4 DEF AnalyticsInv, Close
  <2> QED BY <2>1, <2>2, <2>6, <2>7, <2>8 DEF AnalyticsInv
<1>4. ASSUME NEW t \in Tickets, NEW r \in Rows, ChangeTo(t, r) PROVE AnalyticsInv'
  <2>1. /\ row' = [row EXCEPT ![t] = r]
        /\ changes' = changes + 1
        /\ UNCHANGED <<manager, results>>
    BY <1>4 DEF ChangeTo
  <2>2. \A u \in Tickets : u # t => row'[u] = row[u]
    BY <2>1 DEF AnalyticsInv
  <2>3. IssuedIn' \ {t} = IssuedIn \ {t} /\ Served' \ {t} = Served \ {t}
    BY <2>1, <2>2 DEF IssuedIn, Served, CompletedIn, branchFilter, managerBranchScope, During
  <2>4. IsFiniteSet(IssuedIn') /\ IsFiniteSet(Served')
    <3>1. IssuedIn' \in SUBSET Tickets /\ Served' \in SUBSET Tickets
      BY DEF IssuedIn, Served, CompletedIn
    <3> QED BY <3>1, FS_Subset, AnalyticsOK
  <2>5. /\ Close(Cardinality(IssuedIn), Cardinality(IssuedIn'), 1)
        /\ Close(Cardinality(Served), Cardinality(Served'), 1)
        /\ Cardinality(IssuedIn') \in Nat /\ Cardinality(Served') \in Nat
    BY <2>3, <2>4, FiniteSelections, OneChanged, FS_CardinalityType
  <2>6. ASSUME NEW q \in IssuedParts \cap DOMAIN results
        PROVE  /\ Close(sumCounts(results[q]), Cardinality(IssuedIn'), changes + 1)
               /\ \A p \in IssuedParts \cap DOMAIN results :
                    Close(sumCounts(results[q]), sumCounts(results[p]), changes + 1)
    BY <1>0, <2>5 DEF AnalyticsInv, Close
  <2>7. ASSUME NEW q \in CompletedParts \cap DOMAIN results
        PROVE  /\ Close(sumCounts(results[q]), Cardinality(Served'), changes + 1)
               /\ \A p \in CompletedParts \cap DOMAIN results :
                    Close(sumCounts(results[q]), sumCounts(results[p]), changes + 1)
    BY <1>0, <2>5 DEF AnalyticsInv, Close
  <2>8. row' \in [Tickets -> Rows] /\ changes' \in Nat
    BY <2>1 DEF AnalyticsInv
  <2> QED BY <2>1, <2>6, <2>7, <2>8 DEF AnalyticsInv
<1>5. ASSUME NEW t \in Tickets, NEW instant \in 0..Horizon, Complete(t, instant) PROVE AnalyticsInv'
  <2>1. [row[t] EXCEPT !.status = "COMPLETED", !.completed = instant] \in Rows
    <3>1. instant \in Never..Horizon /\ "COMPLETED" \in Statuses
      BY AnalyticsOK DEF Never, Statuses
    <3> QED BY <3>1 DEF AnalyticsInv, Rows
  <2> QED BY <1>4, <1>5, <2>1 DEF Complete
<1>6. ASSUME NEW t \in Tickets, Cancel(t) PROVE AnalyticsInv'
  <2>1. [row[t] EXCEPT !.status = "CANCELLED"] \in Rows
    BY DEF AnalyticsInv, Rows, Statuses
  <2> QED BY <1>4, <1>6, <2>1 DEF Cancel
<1>7. ASSUME NEW t \in Tickets, NEW q \in Queues, Transfer(t, q) PROVE AnalyticsInv'
  <2>1. [row[t] EXCEPT !.queue = q] \in Rows
    BY DEF AnalyticsInv, Rows
  <2> QED BY <1>4, <1>7, <2>1 DEF Transfer
<1> QED BY <1>2, <1>3, <1>5, <1>6, <1>7 DEF AnalyticsNext

\* A rate of a part of a whole is at most 100 %.
LEMMA RateOfAPart ==
  ASSUME NEW part \in Nat, NEW whole \in Nat, part <= whole
  PROVE  rateBps(part, whole) <= 10000
<1>1. CASE whole = 0
  BY <1>1 DEF rateBps
<1>2. CASE whole # 0
  <2>1. PICK n \in Nat, d \in Nat \ {0} : n = 20000 * part + whole /\ d = 2 * whole
    BY <1>2
  <2>2. n < 10001 * d
    BY <1>2, <2>1
  <2>3. n \div d \in Int /\ d * (n \div d) <= n
    BY <2>1
  <2>4. ~(n \div d >= 10001)
    BY <2>1, <2>2, <2>3
  <2>5. rateBps(part, whole) = n \div d
    BY <1>2, <2>1 DEF rateBps
  <2> QED BY <2>3, <2>4, <2>5
<1> QED BY <1>1, <1>2

\* Whatever tickets, queues and branches there are and whoever asks, no two parts of the
\* analytics report that count the same tickets differ by more than changed while it was
\* read, and no share of a status is over 100 % when nothing did (getOrganizationAnalytics,
\* whose queries run at once outside a transaction).
THEOREM ReportsAddUp == Spec => []ReportAddsUp
<1>1. AnalyticsInv => ReportAddsUp
  <2> SUFFICES ASSUME AnalyticsInv, AllAnswered PROVE ReportAddsUp
    BY DEF ReportAddsUp
  <2>1. /\ {"daily", "weekly", "status"} \subseteq IssuedParts \cap DOMAIN results
        /\ {"hourly", "queue", "branch", "staff"} \subseteq CompletedParts \cap DOMAIN results
    BY DEF AllAnswered, Queries, IssuedParts, CompletedParts
  <2>2. /\ NearlyEqual(issuedTickets, sumCounts(results["weekly"]))
        /\ NearlyEqual(issuedTickets, sumCounts(results["status"]))
    BY <2>1 DEF AnalyticsInv, Close, NearlyEqual, issuedTickets
  <2>3. \A part \in {"queue", "branch", "staff"} :
          NearlyEqual(completedTickets, sumCounts(results[part]))
    BY <2>1 DEF AnalyticsInv, Close, NearlyEqual, completedTickets
  <2>4. ASSUME changes = 0, NEW s \in Statuses
        PROVE  rateBps(statusCount(s), issuedTickets) <= 10000
    <3>1. Tallies(results["status"]) /\ Tallies(results["daily"])
      BY <2>1 DEF AnalyticsInv
    <3>2. sumCounts(results["status"]) \in Nat /\ issuedTickets \in Nat
      BY <3>1, SumOfTallies DEF issuedTickets
    <3>3. issuedTickets = sumCounts(results["status"])
      BY <2>2, <2>4, <3>2 DEF NearlyEqual
    <3>4. statusCount(s) \in Nat /\ statusCount(s) <= sumCounts(results["status"])
      BY <3>1, <3>2, SumOfTallies DEF statusCount, Tallies
    <3> QED BY <3>2, <3>3, <3>4, RateOfAPart
  <2> QED BY <2>2, <2>3, <2>4 DEF ReportAddsUp
<1> QED BY <1>1, AnalyticsInvInit, AnalyticsInvNext, StepOfAPart, PTL DEF Spec

-----------------------------------------------------------------------------
\* The finances of the platform.

\* What a query answers when S had succeeded by the time it ran.
AnswerFor(q, S) ==
  CASE q = "totalRevenue" -> Revenue(S)
    [] q = "revenueByPlan" ->
         [p \in {PlanOf[t] : t \in S} |-> Revenue({t \in S : PlanOf[t] = p})]
    [] q = "monthly" ->
         LET counted == {t \in S : paidAt[t] >= RevenueFrom}
         IN  [m \in {PaidInMonth(t) : t \in counted} |->
                Revenue({t \in counted : PaidInMonth(t) = m})]

\* What was paid when a query ran: all that is paid now, but for some of what was paid
\* since the report was asked for.
PaidBefore == {S \in SUBSET Succeeded : Succeeded \ meanwhile \subseteq S}

\* What was pending when a query ran: all that is now, but for some of what has changed.
PendingBefore == {S \in SUBSET Transactions : Pending \ S \subseteq meanwhile /\ S \ Pending \subseteq meanwhile}

FinancesInv ==
  asked = "financials" =>
    /\ now \in Moments
    /\ status \in [Transactions -> TransactionStatus]
    /\ paidAt \in [Transactions -> (0..now) \cup {Unpaid}]
    /\ \A t \in Succeeded : paidAt[t] \in 0..now
    /\ meanwhile \subseteq Transactions
    /\ DOMAIN answers \subseteq FinancialQueries
    /\ \A q \in DOMAIN answers \ {"pending"} : \E S \in PaidBefore : answers[q] = AnswerFor(q, S)
    /\ "pending" \in DOMAIN answers => \E S \in PendingBefore : answers["pending"] = Revenue(S)

LEMMA FinancesInvInit == Init => FinancesInv
<1> SUFFICES ASSUME Init, asked = "financials" PROVE FinancesInv
  BY DEF FinancesInv
<1>1. ReportInit
  BY DEF Init, NoReportAsked
<1>2. /\ now \in Moments /\ paidAt \in [Transactions -> Made \cup {Unpaid}] /\ meanwhile = {}
      /\ status \in [Transactions -> TransactionStatus] /\ DOMAIN answers = {}
      /\ \A t \in Transactions : status[t] = "SUCCEEDED" <=> paidAt[t] # Unpaid
  BY <1>1 DEF ReportInit
<1>3. Made \subseteq 0..now
  BY <1>2, ReportsOK DEF Made
<1> QED BY <1>2, <1>3 DEF FinancesInv, Succeeded

LEMMA FinancesInvNext == FinancesInv /\ [ReportNext]_reportVars => FinancesInv'
<1> SUFFICES ASSUME FinancesInv, [ReportNext]_reportVars, asked' = "financials"
             PROVE  FinancesInv'
  BY DEF FinancesInv
<1>0. asked = "financials"
  BY DEF ReportNext, reportVars, GetPlatformOverview, RunQuery, Succeed, RequestPayment,
         SubmitProof, Fail, Becomes
<1>1. /\ now \in Moments /\ now \in Nat
      /\ status \in [Transactions -> TransactionStatus]
      /\ paidAt \in [Transactions -> (0..now) \cup {Unpaid}]
      /\ \A t \in Succeeded : paidAt[t] \in 0..now
      /\ meanwhile \subseteq Transactions
      /\ DOMAIN answers \subseteq FinancialQueries
      /\ \A q \in DOMAIN answers \ {"pending"} : \E S \in PaidBefore : answers[q] = AnswerFor(q, S)
      /\ "pending" \in DOMAIN answers => \E S \in PendingBefore : answers["pending"] = Revenue(S)
  BY <1>0, ReportsOK DEF FinancesInv
<1>r. \A S : Revenue(S)' = Revenue(S)
  OBVIOUS
<1>2. CASE UNCHANGED reportVars
  <2>1. /\ now' = now /\ status' = status /\ paidAt' = paidAt /\ meanwhile' = meanwhile
        /\ answers' = answers
    BY <1>2 DEF reportVars
  <2>2. Succeeded' = Succeeded /\ PaidBefore' = PaidBefore /\ PendingBefore' = PendingBefore
    BY <2>1 DEF Succeeded, Pending, PaidBefore, PendingBefore
  <2>3. \A x, S : AnswerFor(x, S)' = AnswerFor(x, S)
    BY <2>1 DEF AnswerFor, RevenueFrom, PaidInMonth
  <2> QED BY <1>1, <1>r, <2>1, <2>2, <2>3 DEF FinancesInv
<1>3. CASE GetPlatformOverview
  BY <1>0, <1>3 DEF GetPlatformOverview
<1>4. ASSUME NEW q \in FinancialQueries, RunQuery(q) PROVE FinancesInv'
  <2>1. /\ now' = now /\ status' = status /\ paidAt' = paidAt /\ meanwhile' = meanwhile
        /\ DOMAIN answers' = DOMAIN answers \cup {q}
        /\ answers'[q] = QueryResult(q)
        /\ \A x \in DOMAIN answers : x # q => answers'[x] = answers[x]
    BY <1>4 DEF RunQuery
  <2>2. Succeeded' = Succeeded /\ PaidBefore' = PaidBefore /\ PendingBefore' = PendingBefore
    BY <2>1 DEF Succeeded, Pending, PaidBefore, PendingBefore
  <2>3. \A x, S : AnswerFor(x, S)' = AnswerFor(x, S)
    BY <2>1 DEF AnswerFor, RevenueFrom, PaidInMonth
  <2>4. /\ q # "pending" => QueryResult(q) = AnswerFor(q, Succeeded)
        /\ q = "pending" => QueryResult(q) = Revenue(Pending)
    BY DEF FinancialQueries, QueryResult, AnswerFor, revenueByPlan, pendingCents, monthlyRows
  <2>5. Succeeded \in PaidBefore /\ Pending \in PendingBefore
    BY DEF PaidBefore, PendingBefore, Pending
  <2>6. ASSUME NEW x \in DOMAIN answers' \ {"pending"}
        PROVE  \E S \in PaidBefore' : answers'[x] = AnswerFor(x, S)'
    BY <1>1, <2>1, <2>2, <2>3, <2>4, <2>5, <2>6
  <2>7. ASSUME "pending" \in DOMAIN answers'
        PROVE  \E S \in PendingBefore' : answers'["pending"] = Revenue(S)'
    BY <1>1, <1>r, <2>1, <2>2, <2>4, <2>5, <2>7
  <2> QED BY <1>1, <2>1, <2>2, <2>6, <2>7 DEF FinancesInv
<1>5. ASSUME NEW t \in Transactions, NEW s \in TransactionStatus, Becomes(t, s), status[t] # "SUCCEEDED",
             IF s = "SUCCEEDED" THEN paidAt' = [paidAt EXCEPT ![t] = now] ELSE UNCHANGED paidAt
      PROVE  FinancesInv'
  <2>1. /\ now' = now /\ answers' = answers /\ meanwhile' = meanwhile \cup {t}
        /\ \A x \in Transactions : x # t => status'[x] = status[x] /\ paidAt'[x] = paidAt[x]
        /\ status'[t] = s /\ status' \in [Transactions -> TransactionStatus]
    BY <1>1, <1>5 DEF Becomes
  <2>2. paidAt' \in [Transactions -> (0..now) \cup {Unpaid}] /\ (s = "SUCCEEDED" => paidAt'[t] = now)
    BY <1>1, <1>5
  <2>3. /\ t \notin Succeeded /\ Succeeded \subseteq Succeeded' /\ Succeeded' \subseteq Succeeded \cup {t}
        /\ (t \in Succeeded' => s = "SUCCEEDED")
        /\ Pending \ {t} = Pending' \ {t}
    BY <1>1, <1>5, <2>1 DEF Succeeded, Pending
  <2>4. /\ \A S \in PaidBefore : S \in PaidBefore'
        /\ \A S \in PendingBefore : S \in PendingBefore'
    BY <1>1, <2>1, <2>3 DEF PaidBefore, PendingBefore
  <2>5. ASSUME NEW q \in DOMAIN answers, NEW S \in PaidBefore PROVE AnswerFor(q, S)' = AnswerFor(q, S)
    <3>1. \A x \in S : paidAt'[x] = paidAt[x]
      BY <2>1, <2>3 DEF PaidBefore, Succeeded
    <3>2. RevenueFrom' = RevenueFrom
      BY <2>1 DEF RevenueFrom
    <3>3. \A x \in S : PaidInMonth(x)' = PaidInMonth(x)
      BY <3>1 DEF PaidInMonth
    <3>4. {x \in S : paidAt[x] >= RevenueFrom}' = {x \in S : paidAt[x] >= RevenueFrom}
      BY <3>1, <3>2
    <3> QED BY <3>3, <3>4 DEF AnswerFor
  <2>6. ASSUME NEW x \in Succeeded' PROVE paidAt'[x] \in 0..now
    <3>1. CASE x = t
      BY <1>1, <2>2, <2>3, <3>1
    <3>2. CASE x # t
      <4>1. x \in Succeeded /\ x \in Transactions
        BY <2>3, <3>2 DEF Succeeded
      <4> QED BY <1>1, <2>1, <3>2, <4>1
    <3> QED BY <3>1, <3>2
  <2>7. meanwhile' \subseteq Transactions
    BY <1>1, <2>1
  <2> QED BY <1>1, <1>r, <2>1, <2>2, <2>4, <2>5, <2>6, <2>7 DEF FinancesInv
<1>6. ASSUME NEW t \in Transactions, Succeed(t) \/ RequestPayment(t) \/ SubmitProof(t) \/ Fail(t)
      PROVE  FinancesInv'
  <2>1. CASE Succeed(t)
    BY <1>5, <2>1 DEF Succeed, TransactionStatus
  <2>2. CASE RequestPayment(t) \/ SubmitProof(t) \/ Fail(t)
    BY <1>5, <2>2 DEF RequestPayment, SubmitProof, Fail, TransactionStatus
  <2> QED BY <1>6, <2>1, <2>2
<1> QED BY <1>2, <1>3, <1>4, <1>6 DEF ReportNext

\* What is apart by less than M adds up to amounts that are apart by less than M's.
LEMMA RevenueApart ==
  ASSUME NEW S \in SUBSET Transactions, NEW T \in SUBSET Transactions,
         NEW M \in SUBSET Transactions, S \ T \subseteq M, T \ S \subseteq M
  PROVE  /\ Revenue(S) \in Nat /\ Revenue(T) \in Nat /\ Revenue(M) \in Nat
         /\ Apart(Revenue(S), Revenue(T)) <= Revenue(M)
<1>1. \A X : Revenue(X) = SumOf(Amount, X)
  BY DEF Revenue, SumOf
<1>2. IsFiniteSet(S) /\ IsFiniteSet(T) /\ IsFiniteSet(M)
      /\ \A t \in Transactions : Amount[t] \in Nat
  BY ReportsOK, FS_Subset
<1>3. PICK A, B, C : A = S \cap T /\ B = S \ T /\ C = T \ S
  OBVIOUS
<1>4. A \in SUBSET S /\ A \in SUBSET T /\ B \in SUBSET M /\ C \in SUBSET M
      /\ S \ A = B /\ T \ A = C
  BY <1>3
<1>5. SumOf(Amount, S) = SumOf(Amount, A) + SumOf(Amount, B)
      /\ SumOf(Amount, S) \in Nat /\ SumOf(Amount, A) \in Nat /\ SumOf(Amount, B) \in Nat
  <2>1. /\ SumOf(Amount, S) = SumOf(Amount, A) + SumOf(Amount, S \ A)
        /\ SumOf(Amount, S) \in Nat /\ SumOf(Amount, A) \in Nat /\ SumOf(Amount, S \ A) \in Nat
    BY <1>2, <1>4, SumGrows
  <2> QED BY <1>4, <2>1, Zenon
<1>6. SumOf(Amount, T) = SumOf(Amount, A) + SumOf(Amount, C)
      /\ SumOf(Amount, T) \in Nat /\ SumOf(Amount, C) \in Nat
  <2>1. /\ SumOf(Amount, T) = SumOf(Amount, A) + SumOf(Amount, T \ A)
        /\ SumOf(Amount, T) \in Nat /\ SumOf(Amount, T \ A) \in Nat
    BY <1>2, <1>4, SumGrows
  <2> QED BY <1>4, <2>1, Zenon
<1>7. /\ IsFiniteSet(M) /\ \A k \in M : Amount[k] \in Nat
      /\ B \in SUBSET M /\ C \in SUBSET M
  BY <1>2, <1>4
<1>8. SumOf(Amount, B) <= SumOf(Amount, M) /\ SumOf(Amount, M) \in Nat
  <2>1. /\ SumOf(Amount, M) = SumOf(Amount, B) + SumOf(Amount, M \ B)
        /\ SumOf(Amount, M) \in Nat /\ SumOf(Amount, B) \in Nat /\ SumOf(Amount, M \ B) \in Nat
    BY <1>7, SumGrows
  <2> QED BY <2>1
<1>9. SumOf(Amount, C) <= SumOf(Amount, M)
  <2>1. /\ SumOf(Amount, M) = SumOf(Amount, C) + SumOf(Amount, M \ C)
        /\ SumOf(Amount, M) \in Nat /\ SumOf(Amount, C) \in Nat /\ SumOf(Amount, M \ C) \in Nat
    BY <1>7, SumGrows
  <2> QED BY <2>1
<1>10. Apart(SumOf(Amount, S), SumOf(Amount, T)) <= SumOf(Amount, M)
  BY <1>5, <1>6, <1>8, <1>9 DEF Apart
<1> QED BY <1>1, <1>5, <1>6, <1>8, <1>10

\* A payment that changed meanwhile may be counted as paid, as pending, as both or as
\* neither; the others are counted as they are.
LEMMA PaidOrPending ==
  ASSUME NEW P \in SUBSET Transactions, NEW Q \in SUBSET Transactions, P \cap Q = {},
         NEW S \in SUBSET Transactions, NEW T \in SUBSET Transactions,
         NEW M \in SUBSET Transactions,
         S \subseteq P, P \ S \subseteq M, Q \ T \subseteq M, T \ Q \subseteq M
  PROVE  Apart(Revenue(S) + Revenue(T), Revenue(P \cup Q)) <= Revenue(M)
<1>1. ASSUME NEW X \in SUBSET Transactions, NEW Y \in SUBSET X
      PROVE  Revenue(X) = Revenue(Y) + Revenue(X \ Y) /\ Revenue(Y) \in Nat /\ Revenue(X \ Y) \in Nat
  <2>1. \A Z : Revenue(Z) = SumOf(Amount, Z)
    BY DEF Revenue, SumOf
  <2>2. IsFiniteSet(X) /\ (\A t \in X : Amount[t] \in Nat) /\ Y \in SUBSET X
    BY <1>1, ReportsOK, FS_Subset
  <2>3. /\ SumOf(Amount, X) = SumOf(Amount, Y) + SumOf(Amount, X \ Y)
        /\ SumOf(Amount, Y) \in Nat /\ SumOf(Amount, X \ Y) \in Nat
    BY <2>2, SumGrows
  <2> QED BY <2>1, <2>3
<1>2. PICK A, B, C, D, E : A = S \cap M /\ B = P \ M /\ C = T \cap M /\ D = Q \ M
                           /\ E = (P \cup Q) \cap M
  OBVIOUS
<1>3. Revenue(S) = Revenue(A) + Revenue(B) /\ Revenue(A) \in Nat /\ Revenue(B) \in Nat
  <2>1. A \in SUBSET S /\ S \ A = B
    BY <1>2
  <2> QED BY <1>1, <2>1
<1>4. Revenue(T) = Revenue(C) + Revenue(D) /\ Revenue(C) \in Nat /\ Revenue(D) \in Nat
  <2>1. C \in SUBSET T /\ T \ C = D
    BY <1>2
  <2> QED BY <1>1, <2>1
<1>5. Revenue(P \cup Q) = Revenue(E) + Revenue(B \cup D) /\ Revenue(E) \in Nat
  <2>1. E \in SUBSET (P \cup Q) /\ (P \cup Q) \ E = B \cup D /\ P \cup Q \in SUBSET Transactions
    BY <1>2
  <2> QED BY <1>1, <2>1
<1>6. Revenue(B \cup D) = Revenue(B) + Revenue(D)
  <2>1. PICK X : X = B \cup D
    OBVIOUS
  <2>2. X \in SUBSET Transactions /\ B \in SUBSET X /\ X \ B = D
    BY <1>2, <2>1
  <2>3. Revenue(X) = Revenue(B) + Revenue(X \ B)
    BY <1>1, <2>2
  <2> QED BY <2>1, <2>2, <2>3
<1>7. ASSUME NEW X \in SUBSET Transactions, NEW Y \in SUBSET X
      PROVE  Revenue(Y) <= Revenue(X) /\ Revenue(X) \in Nat
  <2>1. /\ Revenue(X) = Revenue(Y) + Revenue(X \ Y)
        /\ Revenue(Y) \in Nat /\ Revenue(X \ Y) \in Nat
    BY <1>1, <1>7
  <2> QED BY <2>1
<1>8. Revenue(A) <= Revenue(E) /\ Revenue(C) <= Revenue(M) /\ Revenue(E) <= Revenue(M)
      /\ Revenue(M) \in Nat
  <2>1. /\ E \in SUBSET Transactions /\ A \in SUBSET E /\ C \in SUBSET M /\ E \in SUBSET M
    BY <1>2
  <2> QED BY <1>7, <2>1
<1> QED BY <1>3, <1>4, <1>5, <1>6, <1>8 DEF Apart

\* What each plan has brought in is, together, what all of them have.
LEMMA PlansAddUp ==
  ASSUME NEW S \in SUBSET Transactions
  PROVE  Total(AnswerFor("revenueByPlan", S)) = Revenue(S)
<1> DEFINE K == {PlanOf[t] : t \in S}
           group == [p \in K |-> SumOf(Amount, {t \in S : PlanOf[t] = p})]
<1>1. IsFiniteSet(S) /\ \A t \in S : Amount[t] \in Int
  BY ReportsOK, FS_Subset
<1>2. IsFiniteSet(K)
  BY <1>1, FiniteImage
<1>3. SumOf(group, K) = SumOf(Amount, {t \in S : PlanOf[t] \in K})
  <2> HIDE DEF K
  <2> QED BY <1>1, <1>2, SumByGroup
<1>4. {t \in S : PlanOf[t] \in K} = S
  OBVIOUS
<1>5. AnswerFor("revenueByPlan", S) = group
  BY DEF AnswerFor, Revenue, SumOf
<1>6. DOMAIN group = K
  OBVIOUS
<1> HIDE DEF group, K
<1>7. Total(group) = SumOf(group, K)
  BY <1>6 DEF Total, SumOf
<1>8. Revenue(S) = SumOf(Amount, S)
  BY DEF Revenue, SumOf
<1> QED BY <1>3, <1>4, <1>5, <1>7, <1>8, Zenon

\* A month after the oldest has every payment the query found in it: what is left out was
\* paid before the oldest month of UTC began, an hour later than the oldest of Luanda.
LEMMA OldestMonth ==
  ASSUME FinancesInv, asked = "financials"
  PROVE  LET M == MonthOf(DayOf(RevenueFrom, 0))
         IN  /\ M \in Nat /\ MonthOf(DayOf(now, LUANDA_OFFSET)) \in Nat
             /\ RevenueFrom \in Nat
             /\ \A t \in Succeeded : paidAt[t] < RevenueFrom => PaidInMonth(t) <= M
<1>1. now \in Moments /\ now \in Nat /\ \A t \in Succeeded : paidAt[t] \in 0..now
  BY ReportsOK DEF FinancesInv
<1>2. PICK W : W = WindowMonths - 1 /\ W \in Nat
  BY ReportsOK
<1>3. 744 * W <= now /\ ((now + 1) \div 24) \div 28 <= LastMonth
  <2>1. 24 * 31 * (WindowMonths - 1) <= now /\ DayOf(now, LUANDA_OFFSET) \div 28 <= LastMonth
    BY <1>1, ReportsOK
  <2> QED BY <1>2, <2>1 DEF DayOf, LUANDA_OFFSET
<1>4. ASSUME NEW t \in 0..now PROVE InCalendar(DayOf(t, 0)) /\ InCalendar(DayOf(t, LUANDA_OFFSET))
  BY <1>1, <1>3, CalendarOK DEF InCalendar, DayOf, LUANDA_OFFSET
<1>5. PICK d : d = DayOf(now, 0) /\ InCalendar(d) /\ 31 * W <= d
  <2>1. DayOf(now, 0) = now \div 24
    BY <1>1 DEF DayOf
  <2>2. InCalendar(DayOf(now, 0))
    BY <1>1, <1>4
  <2>3. 31 * W <= now \div 24
    BY <1>1, <1>2, <1>3
  <2> QED BY <2>1, <2>2, <2>3
<1>6. PICK N \in Months : N = MonthOf(d) /\ Holds(N, d) /\ W <= N
  <2>1. d \div 31 <= MonthOf(d) /\ MonthOf(d) \in Months /\ Holds(MonthOf(d), d)
    BY <1>5, MonthOfDay
  <2>2. MonthOf(d) \in Nat
    BY <2>1, FirstDays
  <2>3. W <= d \div 31
    BY <1>2, <1>5 DEF InCalendar
  <2> QED BY <1>2, <1>5, <2>1, <2>2, <2>3 DEF InCalendar
<1>7. PICK M \in Months : M = N - W
  BY <1>2, <1>6, FirstDays, CalendarOK DEF Months
<1>8. PICK f \in Nat : f = FirstDay[M] /\ f <= d
  <2>1. FirstDay[M] \in Nat /\ FirstDay[N] \in Nat /\ FirstDay[N] <= d /\ N \in Nat /\ M \in Nat
    BY <1>6, FirstDays DEF Holds
  <2>2. CASE M < N
    <3>1. FirstDay[M] + MonthLength(M) <= FirstDay[N] /\ MonthLength(M) \in Nat
      BY <2>1, <2>2, MonthsInOrder, MonthLengths
    <3> QED BY <1>5, <2>1, <3>1 DEF InCalendar
  <2>3. CASE M = N
    BY <2>1, <2>3
  <2> QED BY <1>2, <1>7, <2>1, <2>2, <2>3
<1>9. RevenueFrom = 24 * f
  BY <1>2, <1>5, <1>6, <1>7, <1>8 DEF RevenueFrom, StartOfDay
<1>10. DayOf(RevenueFrom, 0) = f
  BY <1>8, <1>9 DEF DayOf
<1>11. InCalendar(f)
  BY <1>5, <1>8, CalendarOK DEF InCalendar
<1>12. MonthOf(f) = M
  BY <1>8, <1>11, MonthOfFirst
<1>13. ASSUME NEW t \in Succeeded, paidAt[t] < RevenueFrom PROVE PaidInMonth(t) <= M
  <2>1. PICK p \in 0..now : p = paidAt[t]
    BY <1>1
  <2>2. InCalendar(DayOf(p, LUANDA_OFFSET)) /\ DayOf(p, LUANDA_OFFSET) <= f
    <3>1. p < 24 * f
      BY <1>9, <1>13, <2>1
    <3>2. (p + 1) \div 24 <= f
      BY <1>1, <1>8, <2>1, <3>1
    <3> QED BY <1>4, <3>2 DEF DayOf, LUANDA_OFFSET
  <2> QED BY <1>11, <1>12, <2>1, <2>2, MonthOfOrder DEF PaidInMonth
<1>14. MonthOf(DayOf(now, LUANDA_OFFSET)) \in Nat /\ M \in Nat
  <2>1. InCalendar(DayOf(now, LUANDA_OFFSET))
    BY <1>1, <1>4
  <2> QED BY <2>1, MonthOfDay, FirstDays
<1>15. RevenueFrom \in Nat
  BY <1>9
<1> QED BY <1>10, <1>12, <1>13, <1>14, <1>15

\* Whatever is paid while the finances are being read, and whichever of the queries have
\* seen it, their answers are no further apart than what was paid meanwhile
\* (revenue.service.ts:37-104).
THEOREM FinancesStayClose == Spec => []FinancesAgree
<1>1. FinancesInv => FinancesAgree
  <2> SUFFICES ASSUME FinancesInv, Answered("financials") PROVE FinancesAgree
    BY DEF FinancesAgree
  <2>1. /\ asked = "financials" /\ DOMAIN answers = FinancialQueries
        /\ paidAt \in [Transactions -> (0..now) \cup {Unpaid}]
        /\ meanwhile \in SUBSET Transactions /\ Succeeded \in SUBSET Transactions
        /\ \A t \in Succeeded : paidAt[t] \in 0..now
        /\ \A q \in FinancialQueries \ {"pending"} : \E S \in PaidBefore : answers[q] = AnswerFor(q, S)
        /\ \E S \in PendingBefore : answers["pending"] = Revenue(S)
    BY DEF Answered, FinancesInv, Succeeded, FinancialQueries
  <2>2. PICK total \in PaidBefore : answers["totalRevenue"] = AnswerFor("totalRevenue", total)
    BY <2>1 DEF FinancialQueries
  <2>3. PICK plans \in PaidBefore : answers["revenueByPlan"] = AnswerFor("revenueByPlan", plans)
    BY <2>1 DEF FinancialQueries
  <2>4. PICK due \in PendingBefore : answers["pending"] = Revenue(due)
    BY <2>1 DEF FinancialQueries
  <2>5. PICK paid \in PaidBefore : answers["monthly"] = AnswerFor("monthly", paid)
    BY <2>1 DEF FinancialQueries
  <2>6. /\ total \in SUBSET Transactions /\ plans \in SUBSET Transactions
        /\ due \in SUBSET Transactions /\ paid \in SUBSET Transactions
        /\ total \ plans \subseteq meanwhile /\ plans \ total \subseteq meanwhile
        /\ total \subseteq Succeeded /\ Succeeded \ total \subseteq meanwhile
        /\ due \ Pending \subseteq meanwhile /\ Pending \ due \subseteq meanwhile
        /\ paid \subseteq Succeeded /\ Succeeded \ paid \subseteq meanwhile
    BY <2>1 DEF PaidBefore, PendingBefore
  <2>7. answers["totalRevenue"] = Revenue(total) /\ answers["pending"] = Revenue(due)
    BY <2>2, <2>4 DEF AnswerFor
  <2>8. Apart(answers["totalRevenue"], Total(answers["revenueByPlan"])) <= Revenue(meanwhile)
    <3>1. Total(answers["revenueByPlan"]) = Revenue(plans)
      BY <2>3, <2>6, PlansAddUp
    <3>2. Apart(Revenue(total), Revenue(plans)) <= Revenue(meanwhile)
      BY <2>1, <2>6, RevenueApart
    <3> QED BY <2>7, <3>1, <3>2
  <2>9. Apart(answers["totalRevenue"] + answers["pending"], Revenue(Succeeded \cup Pending))
          <= Revenue(meanwhile)
    <3>1. Pending \in SUBSET Transactions /\ Succeeded \cap Pending = {}
      BY DEF Pending, Succeeded
    <3> QED BY <2>1, <2>6, <2>7, <3>1, PaidOrPending
  <2>10. ASSUME NEW m \in (MonthOf(DayOf(RevenueFrom, 0)) + 1)..MonthOf(DayOf(now, LUANDA_OFFSET))
         PROVE  LET given == IF m \in DOMAIN answers["monthly"] THEN answers["monthly"][m] ELSE 0
                IN Apart(given, Revenue({t \in Succeeded : PaidInMonth(t) = m})) <= Revenue(meanwhile)
    <3>1. PICK M : M = MonthOf(DayOf(RevenueFrom, 0))
      OBVIOUS
    <3>2. M \in Nat /\ MonthOf(DayOf(now, LUANDA_OFFSET)) \in Nat /\ RevenueFrom \in Nat
          /\ \A t \in Succeeded : paidAt[t] < RevenueFrom => PaidInMonth(t) <= M
      BY <2>1, <3>1, OldestMonth
    <3>3. m \in Nat /\ ~(m <= M)
      BY <3>1, <3>2
    <3>4. PICK A : A = {t \in paid : paidAt[t] >= RevenueFrom}
      OBVIOUS
    <3>5. PICK B : B = {t \in A : PaidInMonth(t) = m}
      OBVIOUS
    <3>6. PICK given : given = IF m \in DOMAIN answers["monthly"] THEN answers["monthly"][m] ELSE 0
      OBVIOUS
    <3>7. answers["monthly"] = [k \in {PaidInMonth(t) : t \in A} |-> Revenue({t \in A : PaidInMonth(t) = k})]
      BY <2>5, <3>4 DEF AnswerFor
    <3>8. given = Revenue(B)
      <4>1. CASE m \in {PaidInMonth(t) : t \in A}
        BY <3>5, <3>6, <3>7, <4>1
      <4>2. CASE m \notin {PaidInMonth(t) : t \in A}
        <5>1. B = {}
          BY <3>5, <4>2
        <5>2. given = 0
          BY <3>6, <3>7, <4>2
        <5>3. Revenue({}) = 0
          <6>1. Revenue({}) = SumOf(Amount, {})
            BY DEF Revenue, SumOf
          <6> QED BY <6>1, SumOfNone
        <5> QED BY <5>1, <5>2, <5>3
      <4> QED BY <4>1, <4>2
    <3>9. PICK C : C = {t \in Succeeded : PaidInMonth(t) = m}
      OBVIOUS
    <3>10. \A t \in C : t \in paid => t \in B
      <4> SUFFICES ASSUME NEW t \in C, t \in paid PROVE paidAt[t] >= RevenueFrom
        BY <3>4, <3>5, <3>9
      <4>1. paidAt[t] \in Int /\ RevenueFrom \in Int
        BY <2>1, <3>2, <3>9 DEF Succeeded
      <4>2. ~(paidAt[t] < RevenueFrom)
        BY <3>2, <3>3, <3>9
      <4> QED BY <4>1, <4>2
    <3>11. B \ C \subseteq meanwhile /\ C \ B \subseteq meanwhile
           /\ B \in SUBSET Transactions /\ C \in SUBSET Transactions
      BY <2>1, <2>6, <3>4, <3>5, <3>9, <3>10
    <3>12. Apart(Revenue(B), Revenue(C)) <= Revenue(meanwhile)
      BY <2>1, <3>11, RevenueApart
    <3> QED BY <3>6, <3>8, <3>9, <3>12
  <2> QED BY <2>8, <2>9, <2>10 DEF FinancesAgree
<1> QED BY <1>1, FinancesInvInit, FinancesInvNext, StepOfAPart, PTL DEF Spec

-----------------------------------------------------------------------------
\* Subscriptions.

\* The hour a subscription started at, on day d of month m.
HourOf(m, d) == 24 * (FirstDay[m] + d) + (start % 24)

FirstMonth == MonthOf(DayOf(start, 0))
PaidMonths == MonthsIn(interval) * periods

\* Until a month is too short, a period ends on the day the first one started on; from then
\* on, on one of the first days of the month after it, by what the short month lacked.
RenewalInv ==
  /\ interval \in {"MONTHLY", "YEARLY"}
  /\ periods \in Nat
  /\ IF area = "subscription"
     THEN /\ start \in Starts
          /\ PaidMonths <= MaxPeriods
          /\ LET m == FirstMonth + PaidMonths
                 day == DayOfMonth(start)
             IN  \/ day < MonthLength(m) /\ end = HourOf(m, day)
                 \/ \E d \in 0..2 : day - d \in 28..30 /\ end = HourOf(m + 1, d)
     ELSE start = 0 /\ end = 0 /\ periods = 0

LEMMA DayAndHour ==
  /\ \A t \in Nat : t = 24 * (t \div 24) + (t % 24)
  /\ \A day \in Nat, h \in 0..23 : (24 * day + h) \div 24 = day /\ (24 * day + h) % 24 = h
OBVIOUS

\* The calendar of a subscription.
LEMMA PaidFor ==
  ASSUME NEW t \in Starts
  PROVE  LET s == MonthOf(DayOf(t, 0))
         IN  /\ s \in Nat
             /\ DayOfMonth(t) \in 0..30 /\ DayOfMonth(t) < MonthLength(s)
             /\ t = 24 * (FirstDay[s] + DayOfMonth(t)) + (t % 24)
             /\ \A m \in Nat, d \in 0..30 :
                  m <= s + MaxPeriods + 1 => m \in Months /\ InCalendar(FirstDay[m] + d)
<1>1. t \in Nat /\ MaxPeriods \in Nat /\ LastMonth \in Nat
  BY RenewalsOK, CalendarOK
<1>2. PICK day : day = DayOf(t, 0) /\ day \in Nat /\ day = t \div 24
  BY <1>1 DEF DayOf
<1>3. 31 * (day \div 28 + MaxPeriods + 2) <= 28 * LastMonth
  BY <1>2, RenewalsOK
<1>4. InCalendar(day)
  BY <1>1, <1>2, <1>3 DEF InCalendar
<1>5. PICK s \in Months : s = MonthOf(day) /\ Holds(s, day)
  BY <1>4, MonthOfDay
<1>6. s \in Nat /\ FirstDay[s] \in Nat /\ 28 * s <= FirstDay[s] /\ MonthLength(s) \in 28..31
  BY FirstDays, MonthLengths
<1>7. PICK d \in 0..30 : d = day - FirstDay[s] /\ d < MonthLength(s)
  <2>1. FirstDay[s] <= day /\ day < FirstDay[s] + MonthLength(s) /\ day \in Nat
    BY <1>2, <1>5 DEF Holds
  <2> QED BY <1>6, <2>1
<1>8. DayOfMonth(t) = d
  BY <1>2, <1>5, <1>7 DEF DayOfMonth
<1>9. t = 24 * (FirstDay[s] + d) + (t % 24)
  <2>1. t = 24 * day + (t % 24)
    BY <1>1, <1>2, DayAndHour
  <2> QED BY <1>2, <1>6, <1>7, <2>1
<1>10. ASSUME NEW m \in Nat, NEW k \in 0..30, m <= s + MaxPeriods + 1
       PROVE  m \in Months /\ InCalendar(FirstDay[m] + k)
  <2>1. s <= day \div 28
    BY <1>2, <1>5, <1>6 DEF Holds
  <2>2. 31 * (m + 1) <= 28 * LastMonth
    BY <1>1, <1>2, <1>3, <1>6, <1>10, <2>1
  <2>3. m \in Months
    BY <1>1, <2>2 DEF Months
  <2>4. FirstDay[m] \in Nat /\ FirstDay[m] <= 31 * m
    BY <2>3, FirstDays
  <2> QED BY <1>1, <2>2, <2>3, <2>4 DEF InCalendar
<1> QED BY <1>2, <1>5, <1>6, <1>7, <1>8, <1>9, <1>10

LEMMA OnePeriodMore ==
  \A n \in Nat, i \in {"MONTHLY", "YEARLY"} :
    /\ MonthsIn(i) \in {1, 12} /\ MonthsIn(i) * n \in Nat
    /\ MonthsIn(i) * (n + 1) = MonthsIn(i) * n + MonthsIn(i)
BY DEF MonthsIn

LEMMA RenewalInvInit == Init => RenewalInv
<1> SUFFICES ASSUME Init PROVE RenewalInv
  OBVIOUS
<1>1. CASE area = "subscription"
  <2>1. interval \in {"MONTHLY", "YEARLY"} /\ start \in Starts /\ periods = 0 /\ end = start
    BY <1>1 DEF Init, RenewalInit
  <2>2. PaidMonths = 0 /\ PaidMonths <= MaxPeriods
    BY <2>1, RenewalsOK DEF PaidMonths, MonthsIn
  <2>3. /\ FirstMonth \in Nat /\ DayOfMonth(start) < MonthLength(FirstMonth)
        /\ start = HourOf(FirstMonth, DayOfMonth(start))
    BY <2>1, PaidFor DEF FirstMonth, HourOf
  <2>4. FirstMonth + PaidMonths = FirstMonth
    BY <2>2, <2>3
  <2> QED BY <1>1, <2>1, <2>2, <2>3, <2>4 DEF RenewalInv
<1>2. CASE area # "subscription"
  BY <1>2 DEF Init, NoSubscription, RenewalInv
<1> QED BY <1>1, <1>2

\* A payment is for the same day, of the month it adds.
LEMMA AddsItsMonths ==
  ASSUME NEW m \in Months, NEW d \in 0..30, d < MonthLength(m), InCalendar(FirstDay[m] + d),
         start \in Nat, end = HourOf(m, d), NEW i
  PROVE  addInterval(end, i) = HourOf(m + MonthsIn(i), d)
<1>1. m \in Nat /\ FirstDay[m] \in Nat /\ MonthLength(m) \in 28..31
  BY FirstDays, MonthLengths
<1>2. PICK h \in 0..23 : h = (start % 24) /\ end = 24 * (FirstDay[m] + d) + h
  BY DEF HourOf
<1>3. DayOf(end, 0) = FirstDay[m] + d /\ end % 24 = h
  <2>1. PICK day \in Nat : day = FirstDay[m] + d
    BY <1>1
  <2>2. end = 24 * day + h /\ end + 0 = end
    BY <1>2, <2>1
  <2> QED BY <2>1, <2>2, DayAndHour DEF DayOf
<1>4. Holds(m, FirstDay[m] + d)
  BY <1>1 DEF Holds
<1>5. MonthOf(DayOf(end, 0)) = m
  BY <1>3, <1>4, MonthOfDay
<1>6. DayOfMonth(end) = d
  BY <1>1, <1>3, <1>5 DEF DayOfMonth
<1> QED BY <1>2, <1>3, <1>5, <1>6 DEF addInterval, Shifted, HourOf

LEMMA RenewalInvNext == RenewalInv /\ [Next]_backOfficeVars => RenewalInv'
<1> SUFFICES ASSUME RenewalInv, [Next]_backOfficeVars PROVE RenewalInv'
  OBVIOUS
<1>0. area' = area /\ (UNCHANGED renewalVars \/ (Renew /\ area = "subscription"))
  BY DEF Next, backOfficeVars
<1>1. CASE UNCHANGED renewalVars
  <2>1. interval' = interval /\ start' = start /\ periods' = periods /\ end' = end
    BY <1>1 DEF renewalVars
  <2> QED BY <1>0, <2>1 DEF RenewalInv, PaidMonths, FirstMonth, DayOfMonth, HourOf
<1>2. CASE Renew /\ area = "subscription"
  <2>1. /\ interval' = interval /\ start' = start /\ periods' = periods + 1
        /\ end' = addInterval(end, interval)
        /\ MonthsIn(interval) * (periods + 1) <= MaxPeriods
    BY <1>2 DEF Renew
  <2>2. /\ interval \in {"MONTHLY", "YEARLY"} /\ periods \in Nat /\ start \in Starts
        /\ start \in Nat /\ MaxPeriods \in Nat
    BY <1>2, RenewalsOK DEF RenewalInv
  <2>3. PICK l \in {1, 12} : l = MonthsIn(interval)
    BY <2>2, OnePeriodMore
  <2>4. PICK s \in Nat : s = FirstMonth
    BY <2>2, PaidFor DEF FirstMonth
  <2>5. PICK day \in 0..30 : day = DayOfMonth(start)
    BY <2>2, PaidFor
  <2>6. PICK n \in Nat : n = PaidMonths
    BY <2>2, OnePeriodMore DEF PaidMonths
  <2>7. /\ FirstMonth' = s /\ DayOfMonth(start)' = day
        /\ PaidMonths' = n + l /\ n + l <= MaxPeriods
        /\ \A m, d : HourOf(m, d)' = HourOf(m, d)
    <3>1. MonthsIn(interval) * (periods + 1) = MonthsIn(interval) * periods + MonthsIn(interval)
      BY <2>2, OnePeriodMore
    <3>2. PaidMonths' = MonthsIn(interval) * (periods + 1)
      BY <2>1 DEF PaidMonths
    <3>3. PaidMonths' = n + l
      BY <2>3, <2>6, <3>1, <3>2 DEF PaidMonths
    <3>4. n + l <= MaxPeriods
      BY <2>1, <3>2, <3>3
    <3>5. \A m, d : HourOf(m, d)' = HourOf(m, d)
      BY <2>1 DEF HourOf
    <3>6. FirstMonth' = s /\ DayOfMonth(start)' = day
      BY <2>1, <2>4, <2>5 DEF FirstMonth, DayOfMonth
    <3> QED BY <3>3, <3>4, <3>5, <3>6
  <2>8. ASSUME NEW m \in Nat, NEW d \in 0..30, m <= s + MaxPeriods + 1
        PROVE  m \in Months /\ InCalendar(FirstDay[m] + d)
    BY <2>2, <2>4, <2>8, PaidFor DEF FirstMonth
  <2>9. \/ day < MonthLength(s + n) /\ end = HourOf(s + n, day)
        \/ \E d \in 0..2 : day - d \in 28..30 /\ end = HourOf(s + n + 1, d)
    BY <1>2, <2>4, <2>5, <2>6 DEF RenewalInv
  <2>10. \/ day < MonthLength(s + (n + l)) /\ end' = HourOf(s + (n + l), day)
         \/ \E d \in 0..2 : day - d \in 28..30 /\ end' = HourOf(s + (n + l) + 1, d)
    <3>1. CASE day < MonthLength(s + n) /\ end = HourOf(s + n, day)
      <4>1. s + n \in Nat /\ s + n <= s + MaxPeriods + 1 /\ s + n + l = s + (n + l)
        BY <2>2, <2>3, <2>7
      <4>2. s + n \in Months /\ InCalendar(FirstDay[s + n] + day)
        BY <2>8, <4>1
      <4>3. addInterval(end, interval) = HourOf((s + n) + MonthsIn(interval), day)
        BY <2>2, <3>1, <4>2, AddsItsMonths
      <4>4. end' = HourOf(s + (n + l), day)
        BY <2>1, <2>3, <4>1, <4>3
      <4>5. CASE day < MonthLength(s + (n + l))
        BY <4>4, <4>5
      <4>6. CASE ~(day < MonthLength(s + (n + l)))
        <5>1. PICK m \in Nat : m = s + (n + l)
          OBVIOUS
        <5>2. m <= s + MaxPeriods + 1 /\ m + 1 <= s + MaxPeriods + 1
          BY <2>2, <2>3, <2>7, <5>1
        <5>3. m \in Months /\ m + 1 \in Months
          BY <2>8, <5>2
        <5>4. FirstDay[m + 1] = FirstDay[m] + MonthLength(m) /\ FirstDay[m] \in Nat
              /\ MonthLength(m) \in 28..31
          BY <5>3, FirstDays, MonthLengths
        <5>5. PICK d \in 0..2 : d = day - MonthLength(m) /\ day - d \in 28..30
          BY <4>6, <5>1, <5>4
        <5>6. FirstDay[m] + day = FirstDay[m + 1] + d
          BY <5>4, <5>5
        <5>7. HourOf(m, day) = HourOf(m + 1, d)
          BY <5>6 DEF HourOf
        <5> QED BY <4>4, <5>1, <5>5, <5>7
      <4> QED BY <4>5, <4>6
    <3>2. ASSUME NEW d \in 0..2, day - d \in 28..30, end = HourOf(s + n + 1, d)
          PROVE  end' = HourOf(s + (n + l) + 1, d)
      <4>1. PICK m \in Nat : m = s + n + 1 /\ m + l = s + (n + l) + 1 /\ m <= s + MaxPeriods + 1
        BY <2>2, <2>3, <2>7
      <4>2. m \in Months /\ InCalendar(FirstDay[m] + d) /\ d \in 0..30
        BY <2>8, <4>1
      <4>3. d < MonthLength(m)
        BY <4>1, MonthLengths
      <4>4. addInterval(end, interval) = HourOf(m + MonthsIn(interval), d)
        BY <2>2, <3>2, <4>1, <4>2, <4>3, AddsItsMonths
      <4> QED BY <2>1, <2>3, <4>1, <4>4
    <3> QED BY <2>9, <3>1, <3>2
  <2>11. RenewalInv'
    BY <1>0, <1>2, <2>1, <2>2, <2>7, <2>10 DEF RenewalInv
  <2> QED BY <2>11
<1> QED BY <1>0, <1>1, <1>2

\* However many periods are paid, and on whatever day the first one started, they last to
\* the anniversary of the start and at most three days longer (billing.rules.ts:13).
THEOREM RenewalsLastLongEnough == Spec => []RenewalsKeepTheDay
<1>1. RenewalInv => RenewalsKeepTheDay
  <2> SUFFICES ASSUME RenewalInv PROVE RenewalsKeepTheDay
    OBVIOUS
  <2>1. CASE area = "subscription"
    <3>1. /\ interval \in {"MONTHLY", "YEARLY"} /\ periods \in Nat /\ start \in Starts
          /\ start \in Nat /\ MaxPeriods \in Nat
      BY <2>1, RenewalsOK DEF RenewalInv
    <3>2. PICK s \in Nat, day \in 0..30, n \in Nat :
               s = FirstMonth /\ day = DayOfMonth(start) /\ n = PaidMonths /\ n <= MaxPeriods
      <4>1. FirstMonth \in Nat /\ DayOfMonth(start) \in 0..30
        BY <3>1, PaidFor DEF FirstMonth
      <4>2. PaidMonths \in Nat /\ PaidMonths <= MaxPeriods
        BY <2>1, <3>1, OnePeriodMore DEF PaidMonths, RenewalInv
      <4> QED BY <4>1, <4>2
    <3>3. PICK m \in Nat : m = s + n
      OBVIOUS
    <3>4. m \in Months /\ m + 1 \in Months
      <4>1. m <= s + MaxPeriods + 1 /\ m + 1 <= s + MaxPeriods + 1 /\ 0 \in 0..30
        BY <3>1, <3>2, <3>3
      <4> QED BY <3>1, <3>2, <3>3, <4>1, PaidFor DEF FirstMonth
    <3>5. FirstDay[m + 1] = FirstDay[m] + MonthLength(m) /\ FirstDay[m] \in Nat
          /\ MonthLength(m) \in 28..31
      BY <3>4, FirstDays, MonthLengths
    <3>6. PICK kept \in 0..30 : kept = IF day < MonthLength(m) - 1 THEN day ELSE MonthLength(m) - 1
      BY <3>5
    <3>7. Anniversary(MonthsIn(interval) * periods) = HourOf(m, kept)
      BY <3>2, <3>3, <3>6 DEF Anniversary, Shifted, HourOf, PaidMonths, FirstMonth
    <3>8. PICK h \in 0..23 : h = (start % 24)
      BY <3>1
    <3>9. CASE day < MonthLength(m) /\ end = HourOf(m, day)
      <4>1. kept = day
        BY <3>5, <3>6, <3>9
      <4>2. end - HourOf(m, kept) = 0
        BY <3>5, <3>8, <3>9, <4>1 DEF HourOf
      <4> QED BY <3>7, <4>2 DEF RenewalsKeepTheDay
    <3>10. ASSUME NEW d \in 0..2, day - d \in 28..30, end = HourOf(m + 1, d)
           PROVE  RenewalsKeepTheDay
      <4>1. end - HourOf(m, kept) = 24 * (MonthLength(m) + d - kept)
        BY <3>5, <3>8, <3>10 DEF HourOf
      <4>2. MonthLength(m) + d - kept \in 0..3
        BY <3>5, <3>6, <3>10
      <4> QED BY <3>7, <4>1, <4>2 DEF RenewalsKeepTheDay
    <3>11. \/ day < MonthLength(m) /\ end = HourOf(m, day)
           \/ \E d \in 0..2 : day - d \in 28..30 /\ end = HourOf(m + 1, d)
      BY <2>1, <3>2, <3>3 DEF RenewalInv
    <3> QED BY <3>9, <3>10, <3>11
  <2>2. CASE area # "subscription"
    <3>1. start = 0 /\ end = 0 /\ MonthsIn(interval) * periods = 0
      BY <2>2 DEF RenewalInv, MonthsIn
    <3>2. InCalendar(0) /\ 0 \in Months /\ FirstDay[0] = 0 /\ MonthLength(0) = 31
      BY FirstDays, CalendarOK DEF InCalendar, MonthLength
    <3>3. DayOf(start, 0) = 0 /\ MonthOf(0) = 0
      BY <3>1, <3>2, MonthOfFirst DEF DayOf
    <3>4. DayOfMonth(start) = 0
      BY <3>2, <3>3 DEF DayOfMonth
    <3>5. Anniversary(0) = 0
      BY <3>1, <3>2, <3>3, <3>4 DEF Anniversary, Shifted
    <3> QED BY <3>1, <3>5 DEF RenewalsKeepTheDay
  <2> QED BY <2>1, <2>2
<1> QED BY <1>1, RenewalInvInit, RenewalInvNext, PTL DEF Spec

-----------------------------------------------------------------------------
\* The pages of the web client.

Selectors == {"organization", "branch", "queue", "screen"}
Selection == [Selectors -> CanBeChosen \cup {Nothing}]

\* The groups of parts that the effects of a page read.
EffectsOf(of) == of.opens \cup UNION {of.follows[k] : k \in DOMAIN of.follows}

\* What reads at moment `at`, for `choice`, is not older than the last change of the part.
UpToDate(p, choice, at) ==
  \/ p \in LeftStale \/ owed[p] = Nothing
  \/ owed[p].of # choice
  \/ at >= owed[p].moment

\* A part that is not unsure has one reading under way at most, for what is selected and
\* asked for after the last change; or none, and is shown like that.
Sure(p) ==
  /\ \A r, n \in readings : p \in r.parts /\ p \in n.parts => r = n
  /\ SelectedFor(p, selection) # Nothing =>
       /\ \A r \in readings :
            p \in r.parts => r.of = SelectedFor(p, selection) /\ UpToDate(p, r.of, r.asked)
       /\ (\A r \in readings : p \notin r.parts) =>
            /\ shown[p] # Nothing /\ shown[p].of = SelectedFor(p, selection)
            /\ UpToDate(p, shown[p].of, shown[p].moment)

\* What is shown of a part, or was confirmed of it; what reads, and what changes.
Entry == [of : CanBeChosen, moment : 0..moment] \cup {Nothing}

ReadingSound(r) == /\ r.of \in CanBeChosen /\ r.asked \in 0..moment
                   /\ r.by = "effect" => r.parts \in EffectsOf(here)

DoingSound(d) == /\ d = [change |-> d.change, at |-> d.at, applied |-> d.applied]
                 /\ d.change \in here.actions
                 /\ d.at \in Selection /\ d.at["screen"] = "open"
                 /\ d.applied \in (0..moment) \cup {Nothing}
                 /\ \A p \in d.change.alters : SelectedFor(p, d.at) # Nothing

WebTypes ==
  /\ screen \in DOMAIN Pages
  /\ moment \in Nat
  /\ selection \in Selection /\ selection["screen"] = "open"
  /\ shown \in [PartsOf(here) -> Entry]
  /\ owed \in [PartsOf(here) -> Entry]
  /\ \A r \in readings : ReadingSound(r)
  /\ \A d \in doing : DoingSound(d)

WebInv == WebTypes /\ \A p \in AtOnce : p \notin unsure => Sure(p)

\* How the pages are made.

\* The parts of a group are read for one selector.
OneSelector(g) == g # {} /\ \A p, q \in g : SelectorOf(p) = SelectorOf(q)

\* A part is read by one effect, which guards all it reads or nothing.
GroupsSound(of) ==
  /\ \A g \in of.opens : \A p \in g : SelectorOf(p) = "screen"
  /\ \A k \in DOMAIN of.follows :
       k \in Selectors \ {"screen"} /\ \A g \in of.follows[k] : \A p \in g : SelectorOf(p) = k
  /\ \A g \in EffectsOf(of) \cup of.signals : OneSelector(g)
  /\ \A groups \in of.searches : \A g \in groups : OneSelector(g)
  /\ \A g, h \in EffectsOf(of) : \A p \in g : p \in h => g = h
  /\ \A g \in EffectsOf(of) : \A p \in g : p \in of.guarded => g \subseteq of.guarded
  /\ \A p \in of.renews : p \in DOMAIN OfferedBy /\ OfferedBy[p] \in DOMAIN of.follows

\* What a change alters is read again or shown from its answer, but for what is left stale.
ChangeSound(c, stale) ==
  /\ c.name # "effect"
  /\ c.goes \in {Nothing, "conta"}
  /\ \A g \in c.reads : OneSelector(g)
  /\ \A p \in c.shows : SelectorOf(p) = "screen" /\ p \in c.alters
  /\ c.goes = Nothing =>
       \A p \in c.alters : p \in stale \/ p \in c.shows \/ p \in UNION c.reads

\* The selector of each part: the screen itself, for what the page opens with.
LEMMA SelectorsOfParts ==
  /\ \A p \in {"branches", "operations", "billing", "analytics"} : SelectorOf(p) = "organization"
  /\ SelectorOf("queues") = "branch"
  /\ SelectorOf("state") = "queue"
  /\ \A p \in {"organizations", "tickets", "notifications", "preferences", "tenants", "overview",
               "audit", "atms", "directory", "organization", "queue", "mine", "board", "session"} :
       SelectorOf(p) = "screen"
BY DEF SelectorOf, loadOrganization

\* What each page reads, when, and what it changes.
LEMMA ManagerPageIs ==
  /\ managerPage.opens = {{"organizations"}}
  /\ DOMAIN managerPage.follows = {"organization", "branch"}
  /\ managerPage.follows["organization"] = {{"branches", "operations"}}
  /\ managerPage.follows["branch"] = {{"queues"}}
  /\ managerPage.guarded = {"organizations"} /\ managerPage.renews = {"organizations"}
  /\ managerPage.signals = {}
  /\ managerPage.searches = {}
BY DEF managerPage, Page, loadOrganization, loadQueues

LEMMA StaffPageIs ==
  /\ staffPage.opens = {{"organizations"}}
  /\ DOMAIN staffPage.follows = {"organization", "branch", "queue"}
  /\ staffPage.follows["organization"] = {{"branches"}}
  /\ staffPage.follows["branch"] = {{"queues"}}
  /\ staffPage.follows["queue"] = {{"state"}}
  /\ staffPage.guarded = {"organizations", "branches", "queues"} /\ staffPage.renews = {}
  /\ staffPage.signals = {{"state"}}
  /\ staffPage.searches = {}
  /\ staffPage.actions = {act}
BY DEF staffPage, Page

LEMMA BillingPageIs ==
  /\ billingPage.opens = {{"organizations"}}
  /\ DOMAIN billingPage.follows = {"organization"}
  /\ billingPage.follows["organization"] = {{"billing"}}
  /\ billingPage.guarded = {"organizations"} /\ billingPage.renews = {}
  /\ billingPage.signals = {}
  /\ billingPage.searches = {}
  /\ billingPage.actions = {billingProof}
BY DEF billingPage, Page

LEMMA AnalyticsPageIs ==
  /\ analyticsPage.opens = {{"organizations"}}
  /\ DOMAIN analyticsPage.follows = {"organization"}
  /\ analyticsPage.follows["organization"] = {{"analytics"}}
  /\ analyticsPage.guarded = {"organizations", "analytics"} /\ analyticsPage.renews = {}
  /\ analyticsPage.signals = {}
  /\ analyticsPage.searches = {}
  /\ analyticsPage.actions = {}
BY DEF analyticsPage, Page

LEMMA AccountPageIs ==
  /\ accountPage.opens = {{"tickets", "notifications", "preferences"}}
  /\ DOMAIN accountPage.follows = {}
  /\ accountPage.guarded = {} /\ accountPage.renews = {}
  /\ accountPage.signals = {{"tickets", "notifications", "preferences"}}
  /\ accountPage.searches = {}
  /\ accountPage.actions = {leave, markAllRead, savePreferences}
BY DEF accountPage, Page, NoSelector, account

LEMMA AdminPageIs ==
  /\ adminPage.opens = {{"tenants", "overview"}}
  /\ DOMAIN adminPage.follows = {}
  /\ adminPage.guarded = {"tenants", "overview"} /\ adminPage.renews = {}
  /\ adminPage.signals = {}
  /\ adminPage.searches = {{{"tenants"}}, {{"audit"}}, {{"tenants"}, {"audit"}, {"overview"}}}
  /\ adminPage.actions = {changeStatus, confirmDelete}
BY DEF adminPage, Page, NoSelector, refresh

LEMMA AdminAtmsPageIs ==
  /\ adminAtmsPage.opens = {{"atms"}}
  /\ DOMAIN adminAtmsPage.follows = {}
  /\ adminAtmsPage.guarded = {"atms"} /\ adminAtmsPage.renews = {}
  /\ adminAtmsPage.signals = {}
  /\ adminAtmsPage.searches = {}
  /\ adminAtmsPage.actions = {createAtm, editAtm}
BY DEF adminAtmsPage, Page, NoSelector

LEMMA AtmsPageIs ==
  /\ atmsPage.opens = {{"atms"}}
  /\ DOMAIN atmsPage.follows = {}
  /\ atmsPage.guarded = {} /\ atmsPage.renews = {}
  /\ atmsPage.signals = {}
  /\ atmsPage.searches = {{{"atms"}}}
  /\ atmsPage.actions = {submitReport}
BY DEF atmsPage, Page, NoSelector

LEMMA SearchPageIs ==
  /\ searchPage.opens = {{"directory"}}
  /\ DOMAIN searchPage.follows = {}
  /\ searchPage.guarded = {} /\ searchPage.renews = {}
  /\ searchPage.signals = {}
  /\ searchPage.searches = {{{"directory"}}}
  /\ searchPage.actions = {}
BY DEF searchPage, Page, NoSelector

LEMMA OrganizationPageIs ==
  /\ organizationPage.opens = {{"organization"}}
  /\ DOMAIN organizationPage.follows = {}
  /\ organizationPage.guarded = {"organization"} /\ organizationPage.renews = {}
  /\ organizationPage.signals = {}
  /\ organizationPage.searches = {}
  /\ organizationPage.actions = {}
BY DEF organizationPage, Page, NoSelector

LEMMA QueuePageIs ==
  /\ queuePage.opens = {{"queue"}, {"mine"}}
  /\ DOMAIN queuePage.follows = {}
  /\ queuePage.guarded = {} /\ queuePage.renews = {}
  /\ queuePage.signals = {{"queue"}, {"mine"}}
  /\ queuePage.searches = {}
  /\ queuePage.actions = {join}
BY DEF queuePage, Page, NoSelector

LEMMA TotemPageIs ==
  /\ totemPage.opens = {{"board"}}
  /\ DOMAIN totemPage.follows = {}
  /\ totemPage.guarded = {} /\ totemPage.renews = {}
  /\ totemPage.signals = {{"board"}}
  /\ totemPage.searches = {}
  /\ totemPage.actions = {takeTicket}
BY DEF totemPage, Page, NoSelector

LEMMA BoardPageIs ==
  /\ boardPage.opens = {{"board"}}
  /\ DOMAIN boardPage.follows = {}
  /\ boardPage.guarded = {} /\ boardPage.renews = {}
  /\ boardPage.signals = {{"board"}}
  /\ boardPage.searches = {}
  /\ boardPage.actions = {}
BY DEF boardPage, Page, NoSelector

LEMMA SessionPageIs ==
  /\ SessionProvider.opens = {{"session"}}
  /\ DOMAIN SessionProvider.follows = {}
  /\ SessionProvider.guarded = {} /\ SessionProvider.renews = {}
  /\ SessionProvider.signals = {}
  /\ SessionProvider.searches = {{{"session"}}}
  /\ SessionProvider.actions = {login, register, registerOrganization, logout}
BY DEF SessionProvider, Page, NoSelector

\* What a change is: its name is not that of an effect, and it goes to no other page.
Stays(c, alters, reads, shows) ==
  /\ c.name # "effect" /\ c.goes = Nothing
  /\ c.alters = alters /\ c.reads = reads /\ c.shows = shows

LEMMA ChangesAre ==
  /\ Stays(act, {"state", "queues"}, {{"state"}}, {})
  /\ Stays(billingProof, {"billing"}, {{"billing"}}, {})
  /\ Stays(leave, {"tickets", "notifications"}, {account}, {})
  /\ Stays(markAllRead, {"notifications"}, {account}, {})
  /\ Stays(savePreferences, {"preferences"}, {}, {"preferences"})
  /\ Stays(changeStatus, {"tenants", "overview", "audit"}, {{"tenants"}}, {})
  /\ Stays(confirmDelete, {"tenants", "overview", "audit"}, {{"tenants"}}, {})
  /\ Stays(createAtm, {"atms"}, {{"atms"}}, {})
  /\ Stays(editAtm, {"atms"}, {{"atms"}}, {})
  /\ Stays(submitReport, {"atms"}, {{"atms"}}, {})
  /\ Stays(takeTicket, {"board"}, {{"board"}}, {})
  /\ Stays(login, {"session"}, {{"session"}}, {})
  /\ Stays(register, {"session"}, {{"session"}}, {})
  /\ Stays(registerOrganization, {"session"}, {{"session"}}, {})
  /\ Stays(logout, {"session"}, {}, {"session"})
  /\ join.name # "effect" /\ join.goes = "conta" /\ join.reads = {} /\ join.shows = {}
BY DEF Stays, Change, AdminChange, SignIn, join, act, billingProof, leave, markAllRead,
       savePreferences, changeStatus, confirmDelete, createAtm, editAtm, submitReport, takeTicket,
       login, register, registerOrganization, logout

\* The changes of the manager's page: each card reads again one group of parts, or none.
LEMMA ManagerChangesAre ==
  \A c \in managerPage.actions :
    \/ Stays(c, {"organizations"}, {}, {})
    \/ Stays(c, {"organizations"}, {}, {"organizations"})
    \/ Stays(c, {"branches", "operations"}, {{"branches", "operations"}}, {})
    \/ Stays(c, {"branches"}, {{"branches", "operations"}}, {})
    \/ Stays(c, {"queues", "operations"}, {{"queues"}}, {})
<1>1. managerPage.actions = UNION {organizationCard, logoCard, branchesCard, countersCard,
                                   queuesCard, membersCard}
  BY DEF managerPage, Page
<1>2. \A c \in organizationCard : Stays(c, {"organizations"}, {}, {})
  BY DEF Stays, Change, organizationCard
<1>3. \A c \in logoCard : Stays(c, {"organizations"}, {}, {"organizations"})
  BY DEF Stays, Change, logoCard
<1>4. \A c \in branchesCard : Stays(c, {"branches", "operations"}, {{"branches", "operations"}}, {})
  BY DEF Stays, Change, branchesCard, loadOrganization
<1>5. \A c \in countersCard \cup membersCard :
        Stays(c, {"branches"}, {{"branches", "operations"}}, {})
  BY DEF Stays, Change, countersCard, membersCard, loadOrganization
<1>6. \A c \in queuesCard : Stays(c, {"queues", "operations"}, {{"queues"}}, {})
  BY DEF Stays, Change, queuesCard, loadQueues
<1> QED BY <1>1, <1>2, <1>3, <1>4, <1>5, <1>6

\* A change that stays on the page, and reads again or shows what it altered, is sound.
LEMMA StaysSound ==
  ASSUME NEW c, NEW A, NEW R, NEW W, NEW stale, Stays(c, A, R, W),
         \A g \in R : OneSelector(g),
         \A p \in W : SelectorOf(p) = "screen" /\ p \in A,
         \A p \in A : p \in stale \/ p \in W \/ p \in UNION R
  PROVE  ChangeSound(c, stale)
BY DEF Stays, ChangeSound

\* The same for a change that reads one group again.
LEMMA ReadsOne ==
  ASSUME NEW c, NEW A, NEW g, NEW stale,
         Stays(c, A, {g}, {}), OneSelector(g), A \subseteq stale \cup g
  PROVE  ChangeSound(c, stale)
BY DEF Stays, ChangeSound

\* The page behind each address, and the provider of the session around them.
LEMMA PagesAre ==
  /\ DOMAIN Pages =
       {"gestor", "staff", "subscricao", "analytics", "conta", "admin", "adminAtms", "atms",
        "pesquisar", "estabelecimento", "fila", "totem", "ecra", "session"}
  /\ Pages["gestor"] = managerPage
  /\ Pages["staff"] = staffPage
  /\ Pages["subscricao"] = billingPage
  /\ Pages["analytics"] = analyticsPage
  /\ Pages["conta"] = accountPage
  /\ Pages["admin"] = adminPage
  /\ Pages["adminAtms"] = adminAtmsPage
  /\ Pages["atms"] = atmsPage
  /\ Pages["pesquisar"] = searchPage
  /\ Pages["estabelecimento"] = organizationPage
  /\ Pages["fila"] = queuePage
  /\ Pages["totem"] = totemPage
  /\ Pages["ecra"] = boardPage
  /\ Pages["session"] = SessionProvider
BY DEF Pages

\* Every change of the pages reads again or shows what it alters, but for what is left stale.
LEMMA ChangesSound ==
  /\ ChangeSound(act, {"queues"})
  /\ ChangeSound(billingProof, {})
  /\ ChangeSound(leave, {})
  /\ ChangeSound(markAllRead, {})
  /\ ChangeSound(savePreferences, {})
  /\ ChangeSound(changeStatus, {"overview", "audit"})
  /\ ChangeSound(confirmDelete, {"overview", "audit"})
  /\ ChangeSound(createAtm, {})
  /\ ChangeSound(editAtm, {})
  /\ ChangeSound(submitReport, {})
  /\ ChangeSound(takeTicket, {})
  /\ ChangeSound(login, {})
  /\ ChangeSound(register, {})
  /\ ChangeSound(registerOrganization, {})
  /\ ChangeSound(logout, {})
  /\ ChangeSound(join, {})
<1>1. ChangeSound(join, {})
  <2>1. "conta" # Nothing
    BY WebOK, PagesAre
  <2> QED BY <2>1, ChangesAre DEF ChangeSound
<1>2. ChangeSound(act, {"queues"})
  <2>1. Stays(act, {"state", "queues"}, {{"state"}}, {})
    BY ChangesAre
  <2>2. OneSelector({"state"})
    BY SelectorsOfParts DEF OneSelector
  <2>3. {"state", "queues"} \subseteq {"queues"} \cup {"state"}
    OBVIOUS
  <2> QED BY <2>1, <2>2, <2>3, ReadsOne
<1>3. ChangeSound(billingProof, {})
  <2>1. Stays(billingProof, {"billing"}, {{"billing"}}, {})
    BY ChangesAre
  <2> QED BY <2>1, StaysSound, SelectorsOfParts DEF OneSelector
<1>4. ChangeSound(leave, {})
  <2>1. Stays(leave, {"tickets", "notifications"}, {account}, {})
    BY ChangesAre
  <2>2. OneSelector(account)
    BY SelectorsOfParts DEF OneSelector, account
  <2>3. {"tickets", "notifications"} \subseteq {} \cup account
    BY DEF account
  <2> QED BY <2>1, <2>2, <2>3, ReadsOne
<1>5. ChangeSound(markAllRead, {})
  <2>1. Stays(markAllRead, {"notifications"}, {account}, {})
    BY ChangesAre
  <2>2. OneSelector(account)
    BY SelectorsOfParts DEF OneSelector, account
  <2>3. {"notifications"} \subseteq {} \cup account
    BY DEF account
  <2> QED BY <2>1, <2>2, <2>3, ReadsOne
<1>6. ChangeSound(savePreferences, {})
  <2>1. Stays(savePreferences, {"preferences"}, {}, {"preferences"})
    BY ChangesAre
  <2> QED BY <2>1, StaysSound, SelectorsOfParts DEF OneSelector
<1>7. ChangeSound(changeStatus, {"overview", "audit"})
  <2>1. Stays(changeStatus, {"tenants", "overview", "audit"}, {{"tenants"}}, {})
    BY ChangesAre
  <2>2. OneSelector({"tenants"})
    BY SelectorsOfParts DEF OneSelector
  <2>3. {"tenants", "overview", "audit"} \subseteq {"overview", "audit"} \cup {"tenants"}
    OBVIOUS
  <2> QED BY <2>1, <2>2, <2>3, ReadsOne
<1>8. ChangeSound(confirmDelete, {"overview", "audit"})
  <2>1. Stays(confirmDelete, {"tenants", "overview", "audit"}, {{"tenants"}}, {})
    BY ChangesAre
  <2>2. OneSelector({"tenants"})
    BY SelectorsOfParts DEF OneSelector
  <2>3. {"tenants", "overview", "audit"} \subseteq {"overview", "audit"} \cup {"tenants"}
    OBVIOUS
  <2> QED BY <2>1, <2>2, <2>3, ReadsOne
<1>9. ChangeSound(createAtm, {})
  <2>1. Stays(createAtm, {"atms"}, {{"atms"}}, {})
    BY ChangesAre
  <2> QED BY <2>1, StaysSound, SelectorsOfParts DEF OneSelector
<1>10. ChangeSound(editAtm, {})
  <2>1. Stays(editAtm, {"atms"}, {{"atms"}}, {})
    BY ChangesAre
  <2> QED BY <2>1, StaysSound, SelectorsOfParts DEF OneSelector
<1>11. ChangeSound(submitReport, {})
  <2>1. Stays(submitReport, {"atms"}, {{"atms"}}, {})
    BY ChangesAre
  <2> QED BY <2>1, StaysSound, SelectorsOfParts DEF OneSelector
<1>12. ChangeSound(takeTicket, {})
  <2>1. Stays(takeTicket, {"board"}, {{"board"}}, {})
    BY ChangesAre
  <2> QED BY <2>1, StaysSound, SelectorsOfParts DEF OneSelector
<1>13. ChangeSound(login, {})
  <2>1. Stays(login, {"session"}, {{"session"}}, {})
    BY ChangesAre
  <2> QED BY <2>1, StaysSound, SelectorsOfParts DEF OneSelector
<1>14. ChangeSound(register, {})
  <2>1. Stays(register, {"session"}, {{"session"}}, {})
    BY ChangesAre
  <2> QED BY <2>1, StaysSound, SelectorsOfParts DEF OneSelector
<1>15. ChangeSound(registerOrganization, {})
  <2>1. Stays(registerOrganization, {"session"}, {{"session"}}, {})
    BY ChangesAre
  <2> QED BY <2>1, StaysSound, SelectorsOfParts DEF OneSelector
<1>16. ChangeSound(logout, {})
  <2>1. Stays(logout, {"session"}, {}, {"session"})
    BY ChangesAre
  <2> QED BY <2>1, StaysSound, SelectorsOfParts DEF OneSelector
<1> QED BY <1>1, <1>2, <1>3, <1>4, <1>5, <1>6, <1>7, <1>8, <1>9, <1>10, <1>11, <1>12, <1>13, <1>14,
           <1>15, <1>16

\* So does every change of the manager's page.
LEMMA ManagerChangesSound ==
  \A c \in managerPage.actions : ChangeSound(c, {"organizations", "operations"})
<1> SUFFICES ASSUME NEW c \in managerPage.actions
             PROVE  ChangeSound(c, {"organizations", "operations"})
  OBVIOUS
<1>0. OneSelector({"branches", "operations"}) /\ OneSelector({"queues"})
  BY SelectorsOfParts DEF OneSelector
<1>1. CASE Stays(c, {"organizations"}, {}, {})
  BY <1>0, <1>1, StaysSound, SelectorsOfParts
<1>2. CASE Stays(c, {"organizations"}, {}, {"organizations"})
  BY <1>0, <1>2, StaysSound, SelectorsOfParts
<1>3. CASE Stays(c, {"branches", "operations"}, {{"branches", "operations"}}, {})
  <2>1. {"branches", "operations"} \subseteq
          {"organizations", "operations"} \cup {"branches", "operations"}
    OBVIOUS
  <2> QED BY <1>0, <1>3, <2>1, ReadsOne
<1>4. CASE Stays(c, {"branches"}, {{"branches", "operations"}}, {})
  <2>1. {"branches"} \subseteq {"organizations", "operations"} \cup {"branches", "operations"}
    OBVIOUS
  <2> QED BY <1>0, <1>4, <2>1, ReadsOne
<1>5. CASE Stays(c, {"queues", "operations"}, {{"queues"}}, {})
  <2>1. {"queues", "operations"} \subseteq {"organizations", "operations"} \cup {"queues"}
    OBVIOUS
  <2> QED BY <1>0, <1>5, <2>1, ReadsOne
<1> QED BY <1>1, <1>2, <1>3, <1>4, <1>5, ManagerChangesAre

PageSound(of, stale) ==
  /\ GroupsSound(of)
  /\ \A c \in of.actions : ChangeSound(c, stale)

\* What is read for none of the selectors: what the page itself is about.
OnScreen(g) == g # {} /\ \A p \in g : SelectorOf(p) = "screen"

\* Most pages read when they open only, and what they guard is all that they read.
LEMMA PlainPageSound ==
  ASSUME NEW of, NEW stale,
         DOMAIN of.follows = {}, of.renews = {},
         \A g \in of.opens \cup of.signals : OnScreen(g),
         \A groups \in of.searches : \A g \in groups : OnScreen(g),
         \A g, h \in of.opens : \A p \in g : p \in h => g = h,
         of.guarded = {} \/ of.opens = {of.guarded},
         \A c \in of.actions : ChangeSound(c, stale)
  PROVE  PageSound(of, stale)
<1>1. EffectsOf(of) = of.opens
  BY DEF EffectsOf
<1>2. \A g : OnScreen(g) => OneSelector(g)
  BY DEF OnScreen, OneSelector
<1>3. \A g \in of.opens : \A p \in g : SelectorOf(p) = "screen"
  BY DEF OnScreen
<1> QED BY <1>1, <1>2, <1>3 DEF PageSound, GroupsSound

LEMMA ManagerPageSound == PageSound(managerPage, {"organizations", "operations"})
<1>1. EffectsOf(managerPage) = {{"organizations"}, {"branches", "operations"}, {"queues"}}
  BY ManagerPageIs DEF EffectsOf
<1>2. /\ \A g \in managerPage.opens : \A p \in g : SelectorOf(p) = "screen"
      /\ \A k \in DOMAIN managerPage.follows :
           /\ k \in Selectors \ {"screen"}
           /\ \A g \in managerPage.follows[k] : \A p \in g : SelectorOf(p) = k
  BY ManagerPageIs, SelectorsOfParts DEF Selectors
<1>3. /\ \A g \in EffectsOf(managerPage) \cup managerPage.signals : OneSelector(g)
      /\ \A groups \in managerPage.searches : \A g \in groups : OneSelector(g)
  BY <1>1, ManagerPageIs, SelectorsOfParts DEF OneSelector
<1>4. \A g, h \in EffectsOf(managerPage) : \A p \in g : p \in h => g = h
  BY <1>1
<1>5. \A g \in EffectsOf(managerPage) :
        \A p \in g : p \in managerPage.guarded => g \subseteq managerPage.guarded
  BY <1>1, ManagerPageIs
<1>6. \A p \in managerPage.renews :
        p \in DOMAIN OfferedBy /\ OfferedBy[p] \in DOMAIN managerPage.follows
  BY ManagerPageIs DEF OfferedBy
<1>7. ASSUME NEW c \in managerPage.actions PROVE ChangeSound(c, {"organizations", "operations"})
  BY ManagerPageIs, ManagerChangesSound
<1> QED BY <1>2, <1>3, <1>4, <1>5, <1>6, <1>7 DEF PageSound, GroupsSound

LEMMA StaffPageSound == PageSound(staffPage, {"queues"})
<1>1. EffectsOf(staffPage) = {{"organizations"}, {"branches"}, {"queues"}, {"state"}}
  BY StaffPageIs DEF EffectsOf
<1>2. /\ \A g \in staffPage.opens : \A p \in g : SelectorOf(p) = "screen"
      /\ \A k \in DOMAIN staffPage.follows :
           /\ k \in Selectors \ {"screen"}
           /\ \A g \in staffPage.follows[k] : \A p \in g : SelectorOf(p) = k
  BY StaffPageIs, SelectorsOfParts DEF Selectors
<1>3. /\ \A g \in EffectsOf(staffPage) \cup staffPage.signals : OneSelector(g)
      /\ \A groups \in staffPage.searches : \A g \in groups : OneSelector(g)
  BY <1>1, StaffPageIs, SelectorsOfParts DEF OneSelector
<1>4. \A g, h \in EffectsOf(staffPage) : \A p \in g : p \in h => g = h
  BY <1>1
<1>5. \A g \in EffectsOf(staffPage) :
        \A p \in g : p \in staffPage.guarded => g \subseteq staffPage.guarded
  BY <1>1, StaffPageIs
<1>6. \A p \in staffPage.renews :
        p \in DOMAIN OfferedBy /\ OfferedBy[p] \in DOMAIN staffPage.follows
  BY StaffPageIs DEF OfferedBy
<1>7. ASSUME NEW c \in staffPage.actions PROVE ChangeSound(c, {"queues"})
  BY StaffPageIs, ChangesSound
<1> QED BY <1>2, <1>3, <1>4, <1>5, <1>6, <1>7 DEF PageSound, GroupsSound

LEMMA BillingPageSound == PageSound(billingPage, {})
<1>1. EffectsOf(billingPage) = {{"organizations"}, {"billing"}}
  BY BillingPageIs DEF EffectsOf
<1>2. /\ \A g \in billingPage.opens : \A p \in g : SelectorOf(p) = "screen"
      /\ \A k \in DOMAIN billingPage.follows :
           /\ k \in Selectors \ {"screen"}
           /\ \A g \in billingPage.follows[k] : \A p \in g : SelectorOf(p) = k
  BY BillingPageIs, SelectorsOfParts DEF Selectors
<1>3. /\ \A g \in EffectsOf(billingPage) \cup billingPage.signals : OneSelector(g)
      /\ \A groups \in billingPage.searches : \A g \in groups : OneSelector(g)
  BY <1>1, BillingPageIs, SelectorsOfParts DEF OneSelector
<1>4. \A g, h \in EffectsOf(billingPage) : \A p \in g : p \in h => g = h
  BY <1>1
<1>5. \A g \in EffectsOf(billingPage) :
        \A p \in g : p \in billingPage.guarded => g \subseteq billingPage.guarded
  BY <1>1, BillingPageIs
<1>6. \A p \in billingPage.renews :
        p \in DOMAIN OfferedBy /\ OfferedBy[p] \in DOMAIN billingPage.follows
  BY BillingPageIs DEF OfferedBy
<1>7. ASSUME NEW c \in billingPage.actions PROVE ChangeSound(c, {})
  BY BillingPageIs, ChangesSound
<1> QED BY <1>2, <1>3, <1>4, <1>5, <1>6, <1>7 DEF PageSound, GroupsSound

LEMMA AnalyticsPageSound == PageSound(analyticsPage, {})
<1>1. EffectsOf(analyticsPage) = {{"organizations"}, {"analytics"}}
  BY AnalyticsPageIs DEF EffectsOf
<1>2. /\ \A g \in analyticsPage.opens : \A p \in g : SelectorOf(p) = "screen"
      /\ \A k \in DOMAIN analyticsPage.follows :
           /\ k \in Selectors \ {"screen"}
           /\ \A g \in analyticsPage.follows[k] : \A p \in g : SelectorOf(p) = k
  BY AnalyticsPageIs, SelectorsOfParts DEF Selectors
<1>3. /\ \A g \in EffectsOf(analyticsPage) \cup analyticsPage.signals : OneSelector(g)
      /\ \A groups \in analyticsPage.searches : \A g \in groups : OneSelector(g)
  BY <1>1, AnalyticsPageIs, SelectorsOfParts DEF OneSelector
<1>4. \A g, h \in EffectsOf(analyticsPage) : \A p \in g : p \in h => g = h
  BY <1>1
<1>5. \A g \in EffectsOf(analyticsPage) :
        \A p \in g : p \in analyticsPage.guarded => g \subseteq analyticsPage.guarded
  BY <1>1, AnalyticsPageIs
<1>6. \A p \in analyticsPage.renews :
        p \in DOMAIN OfferedBy /\ OfferedBy[p] \in DOMAIN analyticsPage.follows
  BY AnalyticsPageIs DEF OfferedBy
<1>7. ASSUME NEW c \in analyticsPage.actions PROVE ChangeSound(c, {})
  BY AnalyticsPageIs, ChangesSound
<1> QED BY <1>2, <1>3, <1>4, <1>5, <1>6, <1>7 DEF PageSound, GroupsSound

\* The pages that read when they open only.
LEMMA AccountPageSound == PageSound(accountPage, {})
<1>1. /\ \A g \in accountPage.opens \cup accountPage.signals : OnScreen(g)
      /\ \A groups \in accountPage.searches : \A g \in groups : OnScreen(g)
  BY AccountPageIs, SelectorsOfParts DEF OnScreen
<1>2. /\ \A g, h \in accountPage.opens : \A p \in g : p \in h => g = h
      /\ accountPage.guarded = {} \/ accountPage.opens = {accountPage.guarded}
  BY AccountPageIs
<1>3. \A c \in accountPage.actions : ChangeSound(c, {})
  BY AccountPageIs, ChangesSound
<1> QED BY <1>1, <1>2, <1>3, AccountPageIs, PlainPageSound

LEMMA AdminPageSound == PageSound(adminPage, {"overview", "audit"})
<1>1. /\ \A g \in adminPage.opens \cup adminPage.signals : OnScreen(g)
      /\ \A groups \in adminPage.searches : \A g \in groups : OnScreen(g)
  BY AdminPageIs, SelectorsOfParts DEF OnScreen
<1>2. /\ \A g, h \in adminPage.opens : \A p \in g : p \in h => g = h
      /\ adminPage.guarded = {} \/ adminPage.opens = {adminPage.guarded}
  BY AdminPageIs
<1>3. \A c \in adminPage.actions : ChangeSound(c, {"overview", "audit"})
  BY AdminPageIs, ChangesSound
<1> QED BY <1>1, <1>2, <1>3, AdminPageIs, PlainPageSound

LEMMA AdminAtmsPageSound == PageSound(adminAtmsPage, {})
<1>1. /\ \A g \in adminAtmsPage.opens \cup adminAtmsPage.signals : OnScreen(g)
      /\ \A groups \in adminAtmsPage.searches : \A g \in groups : OnScreen(g)
  BY AdminAtmsPageIs, SelectorsOfParts DEF OnScreen
<1>2. /\ \A g, h \in adminAtmsPage.opens : \A p \in g : p \in h => g = h
      /\ adminAtmsPage.guarded = {} \/ adminAtmsPage.opens = {adminAtmsPage.guarded}
  BY AdminAtmsPageIs
<1>3. \A c \in adminAtmsPage.actions : ChangeSound(c, {})
  BY AdminAtmsPageIs, ChangesSound
<1> QED BY <1>1, <1>2, <1>3, AdminAtmsPageIs, PlainPageSound

LEMMA AtmsPageSound == PageSound(atmsPage, {})
<1>1. /\ \A g \in atmsPage.opens \cup atmsPage.signals : OnScreen(g)
      /\ \A groups \in atmsPage.searches : \A g \in groups : OnScreen(g)
  BY AtmsPageIs, SelectorsOfParts DEF OnScreen
<1>2. /\ \A g, h \in atmsPage.opens : \A p \in g : p \in h => g = h
      /\ atmsPage.guarded = {} \/ atmsPage.opens = {atmsPage.guarded}
  BY AtmsPageIs
<1>3. \A c \in atmsPage.actions : ChangeSound(c, {})
  BY AtmsPageIs, ChangesSound
<1> QED BY <1>1, <1>2, <1>3, AtmsPageIs, PlainPageSound

LEMMA SearchPageSound == PageSound(searchPage, {})
<1>1. /\ \A g \in searchPage.opens \cup searchPage.signals : OnScreen(g)
      /\ \A groups \in searchPage.searches : \A g \in groups : OnScreen(g)
  BY SearchPageIs, SelectorsOfParts DEF OnScreen
<1>2. /\ \A g, h \in searchPage.opens : \A p \in g : p \in h => g = h
      /\ searchPage.guarded = {} \/ searchPage.opens = {searchPage.guarded}
  BY SearchPageIs
<1>3. \A c \in searchPage.actions : ChangeSound(c, {})
  BY SearchPageIs, ChangesSound
<1> QED BY <1>1, <1>2, <1>3, SearchPageIs, PlainPageSound

LEMMA OrganizationPageSound == PageSound(organizationPage, {})
<1>1. /\ \A g \in organizationPage.opens \cup organizationPage.signals : OnScreen(g)
      /\ \A groups \in organizationPage.searches : \A g \in groups : OnScreen(g)
  BY OrganizationPageIs, SelectorsOfParts DEF OnScreen
<1>2. /\ \A g, h \in organizationPage.opens : \A p \in g : p \in h => g = h
      /\ organizationPage.guarded = {} \/ organizationPage.opens = {organizationPage.guarded}
  BY OrganizationPageIs
<1>3. \A c \in organizationPage.actions : ChangeSound(c, {})
  BY OrganizationPageIs, ChangesSound
<1> QED BY <1>1, <1>2, <1>3, OrganizationPageIs, PlainPageSound

LEMMA QueuePageSound == PageSound(queuePage, {})
<1>1. /\ \A g \in queuePage.opens \cup queuePage.signals : OnScreen(g)
      /\ \A groups \in queuePage.searches : \A g \in groups : OnScreen(g)
  BY QueuePageIs, SelectorsOfParts DEF OnScreen
<1>2. /\ \A g, h \in queuePage.opens : \A p \in g : p \in h => g = h
      /\ queuePage.guarded = {} \/ queuePage.opens = {queuePage.guarded}
  BY QueuePageIs
<1>3. \A c \in queuePage.actions : ChangeSound(c, {})
  BY QueuePageIs, ChangesSound
<1> QED BY <1>1, <1>2, <1>3, QueuePageIs, PlainPageSound

LEMMA TotemPageSound == PageSound(totemPage, {})
<1>1. /\ \A g \in totemPage.opens \cup totemPage.signals : OnScreen(g)
      /\ \A groups \in totemPage.searches : \A g \in groups : OnScreen(g)
  BY TotemPageIs, SelectorsOfParts DEF OnScreen
<1>2. /\ \A g, h \in totemPage.opens : \A p \in g : p \in h => g = h
      /\ totemPage.guarded = {} \/ totemPage.opens = {totemPage.guarded}
  BY TotemPageIs
<1>3. \A c \in totemPage.actions : ChangeSound(c, {})
  BY TotemPageIs, ChangesSound
<1> QED BY <1>1, <1>2, <1>3, TotemPageIs, PlainPageSound

LEMMA BoardPageSound == PageSound(boardPage, {})
<1>1. /\ \A g \in boardPage.opens \cup boardPage.signals : OnScreen(g)
      /\ \A groups \in boardPage.searches : \A g \in groups : OnScreen(g)
  BY BoardPageIs, SelectorsOfParts DEF OnScreen
<1>2. /\ \A g, h \in boardPage.opens : \A p \in g : p \in h => g = h
      /\ boardPage.guarded = {} \/ boardPage.opens = {boardPage.guarded}
  BY BoardPageIs
<1>3. \A c \in boardPage.actions : ChangeSound(c, {})
  BY BoardPageIs, ChangesSound
<1> QED BY <1>1, <1>2, <1>3, BoardPageIs, PlainPageSound

LEMMA SessionPageSound == PageSound(SessionProvider, {})
<1>1. /\ \A g \in SessionProvider.opens \cup SessionProvider.signals : OnScreen(g)
      /\ \A groups \in SessionProvider.searches : \A g \in groups : OnScreen(g)
  BY SessionPageIs, SelectorsOfParts DEF OnScreen
<1>2. /\ \A g, h \in SessionProvider.opens : \A p \in g : p \in h => g = h
      /\ SessionProvider.guarded = {} \/ SessionProvider.opens = {SessionProvider.guarded}
  BY SessionPageIs
<1>3. \A c \in SessionProvider.actions : ChangeSound(c, {})
  BY SessionPageIs, ChangesSound
<1> QED BY <1>1, <1>2, <1>3, SessionPageIs, PlainPageSound

\* Whatever page is open, it is sound, with what LeftStale says of it.
LEMMA HereSound == screen \in DOMAIN Pages => PageSound(here, LeftStale)
<1> SUFFICES ASSUME screen \in DOMAIN Pages PROVE PageSound(here, LeftStale)
  OBVIOUS
<1>1. CASE screen = "gestor"
  BY <1>1, PagesAre, ManagerPageSound DEF here, LeftStale
<1>2. CASE screen = "staff"
  BY <1>2, PagesAre, StaffPageSound DEF here, LeftStale
<1>3. CASE screen = "admin"
  BY <1>3, PagesAre, AdminPageSound DEF here, LeftStale
<1>4. CASE screen \notin {"gestor", "staff", "admin"}
  <2>1. LeftStale = {}
    BY <1>4 DEF LeftStale
  <2>2. PageSound(here, {})
    BY <1>4, PagesAre, BillingPageSound, AnalyticsPageSound, AccountPageSound, AdminAtmsPageSound,
       AtmsPageSound, SearchPageSound, OrganizationPageSound, QueuePageSound, TotemPageSound,
       BoardPageSound, SessionPageSound
       DEF here
  <2> QED BY <2>1, <2>2
<1> QED BY <1>1, <1>2, <1>3, <1>4

\* A part follows one of the four selectors.
LEMMA SelectorKinds == \A p : SelectorOf(p) \in Selectors
BY DEF SelectorOf, Selectors

\* What is asked for is for what is chosen.
LEMMA Asking ==
  ASSUME NEW groups, NEW choice \in Selection, NEW by, \A g \in groups : OneSelector(g)
  PROVE  /\ \A n \in Requests(groups, choice, by) :
              /\ n.parts \in groups /\ n.asked = moment /\ n.by = by /\ n.of \in CanBeChosen
              /\ \A p \in n.parts : n.of = SelectedFor(p, choice)
         /\ \A g \in groups : \A p \in g :
              SelectedFor(p, choice) # Nothing =>
                \E n \in Requests(groups, choice, by) : n.parts = g
         /\ \A n, k \in Requests(groups, choice, by) : n.parts = k.parts => n = k
<1>1. \A p : SelectedFor(p, choice) \in CanBeChosen \cup {Nothing}
  BY SelectorKinds DEF Selection, SelectedFor
<1>2. \A g \in groups : \A p \in g : \A q \in g : SelectedFor(p, choice) = SelectedFor(q, choice)
  BY DEF OneSelector, SelectedFor
<1>3. \A g \in groups : (CHOOSE p \in g : TRUE) \in g
  BY DEF OneSelector
<1>4. ASSUME NEW n \in Requests(groups, choice, by)
      PROVE  /\ n.parts \in groups /\ n.asked = moment /\ n.by = by /\ n.of \in CanBeChosen
             /\ \A p \in n.parts : n.of = SelectedFor(p, choice)
  <2>1. PICK g \in groups :
          /\ \A p \in g : SelectedFor(p, choice) # Nothing
          /\ n = [parts |-> g, of |-> SelectedFor(CHOOSE p \in g : TRUE, choice), asked |-> moment,
                  by |-> by]
    BY <1>4 DEF Requests
  <2> QED BY <1>1, <1>2, <1>3, <2>1
<1>5. ASSUME NEW g \in groups, NEW p \in g, SelectedFor(p, choice) # Nothing
      PROVE  \E n \in Requests(groups, choice, by) : n.parts = g
  <2>1. \A q \in g : SelectedFor(q, choice) # Nothing
    BY <1>2, <1>5
  <2>2. [parts |-> g, of |-> SelectedFor(CHOOSE q \in g : TRUE, choice), asked |-> moment,
         by |-> by] \in Requests(groups, choice, by)
    BY <2>1 DEF Requests
  <2> QED BY <2>2
<1>6. \A n, k \in Requests(groups, choice, by) : n.parts = k.parts => n = k
  BY DEF Requests
<1> QED BY <1>4, <1>5, <1>6

\* A part shown for what is selected, and not before the last change of it.
Current(p, entry) ==
  /\ entry # Nothing /\ entry.of = SelectedFor(p, selection)
  /\ UpToDate(p, entry.of, entry.moment)

\* What a render keeps: given the parts as they are shown after it, what its effects and its
\* own requests ask for, and what waits, every part that is not unsure is sound again.
LEMMA RenderKeeps ==
  ASSUME WebInv, screen' = screen, moment' = moment,
         NEW choice \in Selection, choice["screen"] = "open",
         NEW effects \in SUBSET EffectsOf(here),
         NEW asks, \A n \in asks : n.of \in CanBeChosen /\ n.asked = moment /\ n.by # "effect",
         NEW waiting \in SUBSET readings, NEW news, NEW patched,
         Render(choice, effects, asks, waiting, news, patched),
         \A p \in PartsOf(here) : news[p] \in Entry,
         owed' \in [PartsOf(here) -> Entry],
         \A p \in AtOnce : \/ p \in LeftStale \/ owed'[p] = owed[p] \/ p \in patched
                           \/ \E n \in asks : p \in n.parts,
         \A p \in AtOnce :
           /\ p \notin patched /\ p \notin unsure /\ SelectedFor(p, selection) # Nothing
           /\ \A r \in waiting : p \notin r.parts
           => Current(p, news[p]),
         \A p \in AtOnce : p \in patched =>
           /\ news[p] # Nothing /\ news[p].of = SelectedFor(p, selection)
           /\ UpToDate(p, news[p].of, news[p].moment)',
         \A d \in doing' : DoingSound(d)
  PROVE  WebInv'
<1> DEFINE running == effects \cup Following(choice)
           kept == Wanted(waiting, running)
           new == Requests(running, choice, "effect") \cup asks
           Asked(p) == \E n \in new : p \in n.parts
           Late(p) == \E n \in new : \/ n.of # SelectedFor(p, choice) /\ p \in n.parts
                                     \/ \E r \in kept \cup new : Overlap(r, n, p)
<1>1. /\ selection' = choice
      /\ readings' = kept \cup new
      /\ shown' = [p \in DOMAIN shown |->
                     IF SelectedFor(p, choice) = Nothing THEN Nothing ELSE news[p]]
      /\ unsure' = {p \in DOMAIN shown :
                     CASE Asked(p) -> Late(p)
                       [] p \in patched /\ ~Asked(p) -> \E r \in kept : p \in r.parts
                       [] OTHER -> p \in unsure}
  BY DEF Render
<1>2. WebTypes /\ DOMAIN shown = PartsOf(here) /\ GroupsSound(here) /\ moment \in Nat
  BY HereSound DEF WebInv, WebTypes, PageSound
<1>3. running \subseteq EffectsOf(here)
  BY DEF Following, EffectsOf
<1>4. \A g \in running : OneSelector(g)
  BY <1>2, <1>3 DEF GroupsSound
<1>5. /\ \A n \in Requests(running, choice, "effect") :
           /\ n.parts \in running /\ n.asked = moment /\ n.by = "effect" /\ n.of \in CanBeChosen
           /\ \A p \in n.parts : n.of = SelectedFor(p, choice)
      /\ \A g \in running : \A p \in g :
           SelectedFor(p, choice) # Nothing
             => \E n \in Requests(running, choice, "effect") : n.parts = g
      /\ \A n, k \in Requests(running, choice, "effect") : n.parts = k.parts => n = k
  BY <1>4, Asking
<1>6. kept \subseteq readings /\ kept \subseteq waiting
  BY DEF Wanted
<1>7. \A n \in new : n.of \in CanBeChosen /\ n.asked = moment
                     /\ (n.by = "effect" => n \in Requests(running, choice, "effect"))
  BY <1>5
<1> HIDE DEF running, kept, new
<1>8. shown' \in [PartsOf(here) -> Entry]
  BY <1>1, <1>2 DEF Entry
<1>9. ASSUME NEW r \in readings' PROVE ReadingSound(r)
  <2>1. CASE r \in kept
    BY <1>2, <1>6, <2>1 DEF WebTypes
  <2>2. CASE r \in new
    BY <1>2, <1>3, <1>5, <1>7, <2>2 DEF ReadingSound
  <2> QED BY <1>1, <2>1, <2>2
<1>10. /\ here' = here /\ LeftStale' = LeftStale
       /\ AtOnce \subseteq PartsOf(here)
       /\ \A p \in AtOnce : \E g \in EffectsOf(here) : p \in g
  BY DEF here, LeftStale, AtOnce, PartsOf, EffectsOf
<1>11. ASSUME NEW p \in AtOnce, p \notin unsure' PROVE Sure(p)'
  <2>1. PICK g \in EffectsOf(here) : p \in g
    BY <1>10
  <2>2. PICK chosen : chosen = SelectedFor(p, choice)
    OBVIOUS
  \* A part that is not asked for is still read for what it was.
  <2>3. chosen # Nothing /\ ~Asked(p) => chosen = SelectedFor(p, selection)
    <3> SUFFICES ASSUME chosen # Nothing, chosen # SelectedFor(p, selection) PROVE Asked(p)
      OBVIOUS
    <3>1. CASE g \in here.opens
      <4>1. SelectorOf(p) = "screen"
        BY <1>2, <2>1, <3>1 DEF GroupsSound
      <4> QED BY <1>2, <2>2, <4>1 DEF SelectedFor, WebTypes
    <3>2. ASSUME NEW k \in DOMAIN here.follows, g \in here.follows[k] PROVE Asked(p)
      <4>1. SelectorOf(p) = k
        BY <1>2, <2>1, <3>2 DEF GroupsSound
      <4>2. choice[k] # selection[k]
        BY <2>2, <4>1 DEF SelectedFor
      <4>3. g \in running
        BY <3>2, <4>2 DEF Following, running
      <4> QED BY <1>5, <2>1, <2>2, <4>3 DEF new
    <3> QED BY <2>1, <3>1, <3>2 DEF EffectsOf
  <2>4. chosen # Nothing /\ ~Asked(p) => \A r \in waiting : p \in r.parts => r \in kept
    <3> SUFFICES ASSUME chosen # Nothing, NEW r \in waiting, p \in r.parts, r \notin kept
                 PROVE  Asked(p)
      OBVIOUS
    <3>1. r.parts \in running
      BY DEF kept, Wanted
    <3> QED BY <1>5, <2>2, <3>1 DEF new
  <2>5. ASSUME NEW n \in new, p \in n.parts, ~Late(p), NEW r \in kept \cup new, p \in r.parts
        PROVE  r = n
    <3> SUFFICES ASSUME r # n PROVE FALSE
      OBVIOUS
    <3>1. ~Overlap(r, n, p)
      BY <2>5
    <3>2. r.by = "effect" /\ n.by = "effect" /\ p \in here.guarded
      BY <2>5, <3>1 DEF Overlap
    <3>3. n \in Requests(running, choice, "effect") /\ n.parts \in running
      BY <1>5, <1>7, <3>2
    <3>4. CASE r \in new
      <4>1. r \in Requests(running, choice, "effect") /\ r.parts \in running
        BY <1>5, <1>7, <3>2, <3>4
      <4>2. r.parts = n.parts
        BY <1>2, <1>3, <2>5, <3>3, <4>1 DEF GroupsSound
      <4> QED BY <1>5, <3>3, <4>1, <4>2
    <3>5. CASE r \in kept
      <4>1. r.parts \in EffectsOf(here)
        BY <1>2, <1>6, <3>2, <3>5 DEF WebTypes, ReadingSound
      <4>2. r.parts = n.parts
        BY <1>2, <1>3, <2>5, <3>3, <4>1 DEF GroupsSound
      <4>3. r.parts \subseteq here.guarded
        BY <1>2, <2>5, <3>2, <4>1 DEF GroupsSound
      <4> QED BY <3>2, <3>3, <3>5, <4>2, <4>3 DEF kept, Wanted
    <3> QED BY <3>4, <3>5
  <2>6. p \in PartsOf(here) /\ owed'[p] \in Entry
    BY <1>10
  <2>7. SelectedFor(p, selection)' = chosen
    BY <1>1, <2>2 DEF SelectedFor
  <2>8. CASE Asked(p)
    <3>1. PICK n \in new : p \in n.parts
      BY <2>8
    <3>2. ~Late(p)
      <4> HIDE DEF Asked, Late
      <4>1. p \in DOMAIN shown
        BY <1>2, <2>6
      <4>2. ~(CASE Asked(p) -> Late(p)
                [] p \in patched /\ ~Asked(p) -> \E r \in kept : p \in r.parts
                [] OTHER -> p \in unsure)
        BY <1>1, <1>11, <4>1, Zenon
      <4> QED BY <2>8, <4>2
    <3>3. \A r \in readings' : p \in r.parts => r = n
      BY <1>1, <2>5, <3>1, <3>2
    <3>4. n.of = chosen
      BY <2>2, <3>1, <3>2
    <3>5. UpToDate(p, n.of, n.asked)'
      <4>1. n.asked = moment
        BY <1>7, <3>1
      <4>2. owed'[p] # Nothing => moment >= owed'[p].moment
        BY <1>2, <2>6 DEF Entry
      <4> QED BY <4>1, <4>2 DEF UpToDate
    <3>6. n \in readings'
      BY <1>1, <3>1
    <3> QED BY <2>7, <3>1, <3>3, <3>4, <3>5, <3>6 DEF Sure
  <2>9. CASE ~Asked(p) /\ p \in patched
    <3>1. \A r \in readings' : p \notin r.parts
      BY <1>1, <1>2, <1>11, <2>6, <2>9
    <3>2. chosen # Nothing => shown'[p] = news[p] /\ chosen = SelectedFor(p, selection)
      BY <1>1, <1>2, <2>2, <2>3, <2>6, <2>9
    <3>3. /\ news[p] # Nothing /\ news[p].of = SelectedFor(p, selection)
          /\ UpToDate(p, news[p].of, news[p].moment)'
      BY <2>9
    <3>4. chosen # Nothing => UpToDate(p, shown[p].of, shown[p].moment)'
      BY <3>2, <3>3 DEF UpToDate
    <3> QED BY <2>7, <3>1, <3>2, <3>3, <3>4 DEF Sure
  <2>10. CASE ~Asked(p) /\ p \notin patched
    <3>1. p \notin unsure
      BY <1>1, <1>2, <1>11, <2>6, <2>10
    <3>2. Sure(p)
      BY <3>1 DEF WebInv
    <3>3. \A r \in readings' : p \in r.parts => r \in readings /\ r \in kept
      BY <1>1, <1>6, <2>10
    <3>4. p \in LeftStale \/ owed'[p] = owed[p]
      BY <2>10 DEF new
    <3>5. \A of, at : UpToDate(p, of, at) => UpToDate(p, of, at)'
      BY <1>10, <3>4 DEF UpToDate
    <3>6. \A r, n \in readings' : p \in r.parts /\ p \in n.parts => r = n
      BY <3>2, <3>3 DEF Sure
    <3>7. ASSUME chosen # Nothing
          PROVE  /\ \A r \in readings' :
                      p \in r.parts => r.of = chosen /\ UpToDate(p, r.of, r.asked)'
                 /\ (\A r \in readings' : p \notin r.parts) =>
                      shown'[p] # Nothing /\ shown'[p].of = chosen
                      /\ UpToDate(p, shown[p].of, shown[p].moment)'
      <4>1. chosen = SelectedFor(p, selection)
        BY <2>3, <2>10, <3>7
      <4>2. \A r \in readings' : p \in r.parts => r.of = chosen /\ UpToDate(p, r.of, r.asked)'
        BY <3>2, <3>3, <3>5, <3>7, <4>1 DEF Sure
      <4>3. ASSUME \A r \in readings' : p \notin r.parts
            PROVE  shown'[p] # Nothing /\ shown'[p].of = chosen
                   /\ UpToDate(p, shown[p].of, shown[p].moment)'
        <5>1. \A r \in waiting : p \notin r.parts
          BY <1>1, <2>4, <2>10, <3>7, <4>3
        <5>2. Current(p, news[p])
          BY <2>10, <3>1, <3>7, <4>1, <5>1
        <5>3. shown'[p] = news[p]
          BY <1>1, <1>2, <2>2, <2>6, <3>7
        <5>4. UpToDate(p, news[p].of, news[p].moment)'
          BY <3>5, <5>2 DEF Current
        <5>5. UpToDate(p, shown[p].of, shown[p].moment)'
          BY <5>3, <5>4 DEF UpToDate
        <5> QED BY <4>1, <5>2, <5>3, <5>5 DEF Current
      <4> QED BY <4>2, <4>3
    <3> QED BY <2>7, <3>6, <3>7 DEF Sure
  <2> QED BY <2>8, <2>9, <2>10
<1>12. WebTypes'
  <2>1. /\ PartsOf(here)' = PartsOf(here) /\ Entry' = Entry
        /\ \A x : ReadingSound(x)' = ReadingSound(x) /\ DoingSound(x)' = DoingSound(x)
    BY <1>10 DEF PartsOf, Entry, ReadingSound, DoingSound
  <2> QED BY <1>1, <1>2, <1>8, <1>9, <2>1 DEF WebTypes
<1>13. AtOnce' = AtOnce
  BY <1>10 DEF AtOnce
<1> QED BY <1>11, <1>12, <1>13 DEF WebInv

\* The same, when nothing was changed.
LEMMA RenderReads ==
  ASSUME WebInv, screen' = screen, moment' = moment, owed' = owed, \A d \in doing' : DoingSound(d),
         NEW choice \in Selection, choice["screen"] = "open",
         NEW effects \in SUBSET EffectsOf(here),
         NEW asks, \A n \in asks : n.of \in CanBeChosen /\ n.asked = moment /\ n.by # "effect",
         NEW waiting \in SUBSET readings, NEW news,
         Render(choice, effects, asks, waiting, news, {}),
         \A p \in PartsOf(here) : news[p] \in Entry,
         \A p \in AtOnce :
           /\ p \notin unsure /\ SelectedFor(p, selection) # Nothing
           /\ \A r \in waiting : p \notin r.parts
           => Current(p, news[p])
  PROVE  WebInv'
<1>1. PICK patched : patched = {}
  OBVIOUS
<1>2. owed' \in [PartsOf(here) -> Entry]
  BY DEF WebInv, WebTypes
<1>3. \A p \in AtOnce : \/ p \in LeftStale \/ owed'[p] = owed[p] \/ p \in patched
                        \/ \E n \in asks : p \in n.parts
  OBVIOUS
<1>4. \A p \in AtOnce :
        /\ p \notin patched /\ p \notin unsure /\ SelectedFor(p, selection) # Nothing
        /\ \A r \in waiting : p \notin r.parts
        => Current(p, news[p])
  OBVIOUS
<1>5. \A p \in AtOnce : p \in patched =>
        /\ news[p] # Nothing /\ news[p].of = SelectedFor(p, selection)
        /\ UpToDate(p, news[p].of, news[p].moment)'
  BY <1>1
<1>6. Render(choice, effects, asks, waiting, news, patched)
  BY <1>1
<1> QED BY <1>2, <1>3, <1>4, <1>5, <1>6, RenderKeeps

\* A page that was just opened reads what it opens with.
JustOpened ==
  /\ screen \in DOMAIN Pages /\ moment \in Nat
  /\ selection = NothingChosen
  /\ shown = [p \in PartsOf(here) |-> Nothing]
  /\ owed = [p \in PartsOf(here) |-> Nothing]
  /\ doing = {}
  /\ readings = {[parts |-> g, of |-> "open", asked |-> moment, by |-> "effect"] : g \in here.opens}

\* The screen is always open.
LEMMA OpenIsAChoice == "open" \in CanBeChosen /\ "open" # Nothing /\ NothingChosen \in Selection
BY WebOK DEF CanBeChosen, NothingChosen, Selection, Selectors

\* A page that was just opened is sound: all that it shows is being read.
LEMMA JustOpenedIsSound == JustOpened => WebInv
<1> SUFFICES ASSUME JustOpened PROVE WebInv
  OBVIOUS
<1>1. GroupsSound(here)
  BY HereSound DEF JustOpened, PageSound
<1>2. \A r \in readings : /\ r.parts \in here.opens /\ r.of = "open" /\ r.asked = moment
                          /\ \A n \in readings : r.parts = n.parts => r = n
  BY DEF JustOpened
<1>3. ASSUME NEW g \in here.opens PROVE \E r \in readings : r.parts = g
  <2>1. [parts |-> g, of |-> "open", asked |-> moment, by |-> "effect"] \in readings
    BY DEF JustOpened
  <2> QED BY <2>1
<1>4. WebTypes
  <2>1. \A r \in readings : ReadingSound(r)
    BY <1>2, OpenIsAChoice DEF ReadingSound, EffectsOf, JustOpened
  <2>2. NothingChosen["screen"] = "open"
    BY DEF NothingChosen
  <2> QED BY <2>1, <2>2, OpenIsAChoice DEF JustOpened, WebTypes, Entry
<1>5. ASSUME NEW p \in AtOnce PROVE Sure(p)
  <2>1. PICK g \in EffectsOf(here) : p \in g
    BY DEF AtOnce, EffectsOf
  <2>2. \A r, n \in readings : p \in r.parts /\ p \in n.parts => r = n
    BY <1>1, <1>2 DEF GroupsSound, EffectsOf
  <2>3. ASSUME SelectedFor(p, selection) # Nothing PROVE g \in here.opens
    <3> SUFFICES ASSUME NEW k \in DOMAIN here.follows, g \in here.follows[k] PROVE FALSE
      BY <2>1 DEF EffectsOf
    <3>1. SelectorOf(p) = k /\ k \in Selectors \ {"screen"}
      BY <1>1, <2>1 DEF GroupsSound
    <3> QED BY <2>3, <3>1 DEF JustOpened, SelectedFor, NothingChosen, Selectors
  <2>4. ASSUME SelectedFor(p, selection) # Nothing PROVE SelectedFor(p, selection) = "open"
    <3>1. SelectorOf(p) = "screen"
      BY <1>1, <2>1, <2>3, <2>4 DEF GroupsSound
    <3> QED BY <3>1 DEF JustOpened, SelectedFor, NothingChosen
  <2>5. \A of, at : UpToDate(p, of, at)
    <3>1. p \in PartsOf(here)
      BY <2>1 DEF PartsOf, EffectsOf
    <3> QED BY <3>1 DEF UpToDate, JustOpened
  <2> QED BY <1>2, <1>3, <2>1, <2>2, <2>3, <2>4, <2>5 DEF Sure
<1> QED BY <1>4, <1>5 DEF WebInv

\* The system starts with a page that was just opened.
LEMMA WebInvInit == Init => WebInv
<1> SUFFICES ASSUME WebInit PROVE JustOpened
  BY JustOpenedIsSound DEF Init, NoPageOpen
<1>1. screen \in DOMAIN Pages
  BY DEF WebInit
<1>2. \A g \in here.opens : \A p \in g : SelectedFor(p, NothingChosen) = "open"
  BY <1>1, HereSound DEF PageSound, GroupsSound, SelectedFor, NothingChosen
<1>3. \A g \in here.opens : (CHOOSE p \in g : TRUE) \in g
  BY <1>1, HereSound DEF PageSound, GroupsSound, OneSelector, EffectsOf
<1>4. Requests(here.opens, NothingChosen, "effect")
        = {[parts |-> g, of |-> "open", asked |-> moment, by |-> "effect"] : g \in here.opens}
  BY <1>2, <1>3, OpenIsAChoice DEF Requests
<1> QED BY <1>4 DEF WebInit, JustOpened

\* Replies.

LEMMA ChosenIsListed ==
  ASSUME WebTypes, NEW r \in readings
  PROVE  ChoiceAfter(r) \in Selection /\ ChoiceAfter(r)["screen"] = "open"
<1> DEFINE lists == {p \in r.parts \cap DOMAIN OfferedBy : OfferedBy[p] \in DOMAIN here.follows}
           chosen == {OfferedBy[p] : p \in lists}
<1>1. "screen" \notin chosen
  BY DEF OfferedBy
<1>2. Offers[r.of] \in Seq(CanBeChosen)
  BY WebOK DEF WebTypes, ReadingSound
<1>3. /\ DOMAIN selection = Selectors
      /\ \A k \in Selectors : selection[k] \in CanBeChosen \cup {Nothing}
  BY DEF WebTypes, Selection
<1>4. \A k \in Selectors : Chosen(k, Offers[r.of]) \in CanBeChosen \cup {Nothing}
  <2>1. Offers[r.of] # << >> => Offers[r.of][1] \in CanBeChosen
    BY <1>2
  <2> QED BY <1>3, <2>1 DEF Chosen
<1>5. /\ ChoiceAfter(r) = [k \in Selectors |-> ChoiceAfter(r)[k]]
      /\ \A k \in Selectors : ChoiceAfter(r)[k] \in {Chosen(k, Offers[r.of]), Nothing, selection[k]}
      /\ ChoiceAfter(r)["screen"] = selection["screen"]
  <2>1. ChoiceAfter(r) = [k \in Selectors |->
          CASE k \in chosen -> Chosen(k, Offers[r.of])
            [] k = "queue" /\ "branch" \in chosen -> Nothing
            [] OTHER -> selection[k]]
    BY <1>3 DEF ChoiceAfter
  <2> HIDE DEF chosen
  <2> QED BY <1>1, <2>1 DEF Selectors
<1>6. selection["screen"] = "open"
  BY DEF WebTypes
<1> QED BY <1>3, <1>4, <1>5, <1>6 DEF Selection

\* What is renewed with a list of options is read by an effect of the page.
LEMMA RenewedIsRead ==
  ASSUME screen \in DOMAIN Pages, NEW parts
  PROVE  RenewedBy(parts) \in SUBSET EffectsOf(here)
BY HereSound DEF RenewedBy, EffectsOf, PageSound, GroupsSound

\* A reply is shown, and a selection it offers first is chosen.
LEMMA ReplyKeeps ==
  ASSUME WebInv, NEW r \in readings, ReplyArrives(r)
  PROVE  WebInv'
<1>1. WebTypes /\ moment \in Nat /\ r.of \in CanBeChosen /\ r.asked \in 0..moment
  BY DEF WebInv, WebTypes, ReadingSound
<1>2. PICK seen \in [r.parts -> r.asked..moment] :
        Render(ChoiceAfter(r), RenewedBy(r.parts), {}, readings \ {r},
               [p \in DOMAIN shown |->
                  IF p \in r.parts THEN [of |-> r.of, moment |-> seen[p]] ELSE shown[p]], {})
  BY DEF ReplyArrives
<1>3. /\ screen' = screen /\ moment' = moment /\ owed' = owed
      /\ \A d \in doing' : d \in doing
  BY DEF ReplyArrives
<1>4. PICK news : news = [p \in DOMAIN shown |->
                            IF p \in r.parts THEN [of |-> r.of, moment |-> seen[p]] ELSE shown[p]]
  OBVIOUS
<1>5. PICK choice \in Selection : choice = ChoiceAfter(r) /\ choice["screen"] = "open"
  BY <1>1, ChosenIsListed
<1>6. PICK effects \in SUBSET EffectsOf(here) : effects = RenewedBy(r.parts)
  BY <1>1, RenewedIsRead DEF WebTypes
<1>7. PICK waiting \in SUBSET readings : waiting = readings \ {r}
  OBVIOUS
<1>8. Render(choice, effects, {}, waiting, news, {})
  BY <1>2, <1>4, <1>5, <1>6, <1>7
<1>9. ASSUME NEW p \in PartsOf(here)
      PROVE  /\ p \in r.parts => /\ news[p] = [of |-> r.of, moment |-> seen[p]]
                                 /\ news[p] \in Entry /\ news[p] # Nothing
                                 /\ news[p].of = r.of
                                 /\ news[p].moment \in Nat /\ news[p].moment >= r.asked
             /\ p \notin r.parts => news[p] = shown[p] /\ news[p] \in Entry
  <2>1. p \in DOMAIN shown /\ shown[p] \in Entry
    BY <1>1 DEF WebTypes
  <2>2. CASE p \in r.parts
    <3>1. seen[p] \in r.asked..moment /\ seen[p] \in 0..moment /\ seen[p] >= r.asked
      BY <1>1, <2>2
    <3>2. news[p] = [of |-> r.of, moment |-> seen[p]]
      BY <1>4, <2>1, <2>2
    <3>3. news[p] \in [of : CanBeChosen, moment : Nat] /\ news[p] \in Entry
      BY <1>1, <3>1, <3>2 DEF Entry
    <3> QED BY <2>2, <3>1, <3>2, <3>3, WebOK
  <2>3. CASE p \notin r.parts
    BY <1>4, <2>1, <2>3
  <2> QED BY <2>2, <2>3
<1>10. ASSUME NEW p \in AtOnce, p \notin unsure, SelectedFor(p, selection) # Nothing,
              \A n \in waiting : p \notin n.parts
       PROVE  Current(p, news[p])
  <2>1. Sure(p) /\ p \in PartsOf(here)
    BY <1>10 DEF WebInv, AtOnce, PartsOf
  <2>2. CASE p \in r.parts
    <3>1. r.of = SelectedFor(p, selection) /\ UpToDate(p, r.of, r.asked)
      BY <1>10, <2>1, <2>2 DEF Sure
    <3>2. /\ news[p].of = r.of /\ news[p].moment >= r.asked
          /\ news[p] # Nothing /\ news[p].moment \in Nat
      BY <1>9, <2>1, <2>2
    <3>3. UpToDate(p, news[p].of, news[p].moment)
      <4>1. owed[p] # Nothing => owed[p].moment \in Nat
        BY <1>1, <2>1 DEF WebTypes, Entry
      <4> QED BY <1>1, <3>1, <3>2, <4>1 DEF UpToDate
    <3> QED BY <3>1, <3>2, <3>3 DEF Current
  <2>3. CASE p \notin r.parts
    <3>1. \A n \in readings : p \notin n.parts
      BY <1>7, <1>10, <2>3
    <3>2. news[p] = shown[p]
      BY <1>9, <2>1, <2>3
    <3> QED BY <1>10, <2>1, <3>1, <3>2 DEF Sure, Current
  <2> QED BY <2>2, <2>3
<1>11. owed' \in [PartsOf(here) -> Entry] /\ \A d \in doing' : DoingSound(d)
  BY <1>1, <1>3 DEF WebTypes
<1>12. \A p \in PartsOf(here) : news[p] \in Entry
  BY <1>9
<1> QED BY <1>3, <1>5, <1>8, <1>10, <1>11, <1>12, RenderReads

\* What is unsure grows, and a reading of a sure part is given up, as none are.
LEMMA FailureKeeps ==
  ASSUME WebInv, NEW r \in readings, ReadingFailed(r)
  PROVE  WebInv'
<1>1. /\ UNCHANGED <<screen, selection, shown, moment, owed>>
      /\ readings' = readings \ {r} /\ unsure' = unsure \cup r.parts
      /\ \A d \in doing' : d \in doing
  BY DEF ReadingFailed
<1>2. WebTypes'
  BY <1>1 DEF WebInv, WebTypes, ReadingSound, DoingSound, Entry, here, PartsOf, EffectsOf
<1>3. AtOnce' = AtOnce
  BY <1>1 DEF AtOnce, here
<1>4. ASSUME NEW p \in AtOnce, p \notin unsure' PROVE Sure(p)'
  <2>1. p \notin unsure /\ p \notin r.parts
    BY <1>1, <1>4
  <2>2. Sure(p)
    BY <2>1 DEF WebInv
  <2>3. \A n \in readings' : n \in readings
    BY <1>1
  <2>4. (\A n \in readings' : p \notin n.parts) => \A n \in readings : p \notin n.parts
    BY <1>1, <2>1
  <2>5. \A of, at : UpToDate(p, of, at)' = UpToDate(p, of, at)
    BY <1>1 DEF UpToDate, LeftStale
  <2>6. SelectedFor(p, selection)' = SelectedFor(p, selection)
    BY <1>1 DEF SelectedFor
  <2>7. UpToDate(p, shown[p].of, shown[p].moment)' = UpToDate(p, shown[p].of, shown[p].moment)
    BY <1>1 DEF UpToDate, LeftStale
  <2> QED BY <1>1, <2>2, <2>3, <2>4, <2>5, <2>6, <2>7 DEF Sure
<1> QED BY <1>2, <1>3, <1>4 DEF WebInv

-----------------------------------------------------------------------------
\* The user, the stream and the timers.

LEMMA ShownIsCurrent ==
  ASSUME WebInv, NEW p \in AtOnce, p \notin unsure, SelectedFor(p, selection) # Nothing,
         \A r \in readings : p \notin r.parts
  PROVE  Current(p, shown[p])
BY DEF WebInv, Sure, Current

\* The user chooses another option.
LEMMA SelectKeeps ==
  ASSUME WebInv, NEW k \in DOMAIN here.follows, NEW option \in Options(k), Select(k, option)
  PROVE  WebInv'
<1>1. WebTypes /\ GroupsSound(here) /\ k \in Selectors \ {"screen"}
  BY HereSound DEF WebInv, WebTypes, PageSound, GroupsSound
<1>2. option \in CanBeChosen \cup {Nothing}
  <2> SUFFICES ASSUME option # Nothing PROVE option \in CanBeChosen
    OBVIOUS
  <2>0. PICK part \in DOMAIN shown :
          /\ shown[part] # Nothing
          /\ \E i \in DOMAIN Offers[shown[part].of] : option = Offers[shown[part].of][i]
    <3>1. PICK listed : listed =
                 UNION {{Offers[shown[p].of][i] : i \in DOMAIN Offers[shown[p].of]} :
                          p \in {q \in DOMAIN OfferedBy \cap DOMAIN shown :
                                   OfferedBy[q] = k /\ shown[q] # Nothing}}
      OBVIOUS
    <3>2. PICK none \in SUBSET {Nothing} : Options(k) = listed \cup none
      <4>1. PICK none : none = IF screen = "staff" /\ k # "organization" THEN {Nothing} ELSE {}
        OBVIOUS
      <4>2. none \in SUBSET {Nothing}
        BY <4>1
      <4>3. Options(k) = listed \cup none
        BY <3>1, <4>1 DEF Options
      <4> QED BY <4>2, <4>3
    <3>3. option \in listed
      BY <3>2
    <3> QED BY <3>1, <3>3
  <2>1. shown[part].of \in CanBeChosen
    BY <1>1, <2>0 DEF WebTypes, Entry
  <2>2. Offers[shown[part].of] \in Seq(CanBeChosen)
    BY <2>1, WebOK
  <2> QED BY <2>0, <2>2
<1>3. PICK choice : choice = [selection EXCEPT ![k] = option,
                               !.queue = IF k = "branch" /\ option = Nothing THEN Nothing ELSE @]
  OBVIOUS
<1>4. choice \in Selection /\ choice["screen"] = "open"
  BY <1>1, <1>2, <1>3 DEF WebTypes, Selection, Selectors
<1>5. /\ Render(choice, {}, {}, readings, shown, {})
      /\ screen' = screen /\ moment' = moment /\ owed' = owed /\ doing' = doing
  BY <1>3 DEF Select
<1>6. \A d \in doing' : DoingSound(d)
  BY <1>1, <1>5 DEF WebTypes
<1>7. \A p \in PartsOf(here) : shown[p] \in Entry
  BY <1>1 DEF WebTypes
<1> QED BY <1>4, <1>5, <1>6, <1>7, ShownIsCurrent, RenderReads

\* A search, a refresh or a signal reads parts again.
LEMMA ReadAgainKeeps ==
  ASSUME WebInv, NEW groups, NEW by, by # "effect", \A g \in groups : OneSelector(g),
         ReadAgain(groups, by)
  PROVE  WebInv'
<1>1. WebTypes
  BY DEF WebInv
<1>2. PICK asks : asks = Requests(groups, selection, by)
  OBVIOUS
<1>3. \A n \in asks : n.of \in CanBeChosen /\ n.asked = moment /\ n.by # "effect"
  BY <1>1, <1>2, Asking DEF WebTypes
<1>4. /\ Render(selection, {}, asks, readings, shown, {})
      /\ screen' = screen /\ moment' = moment /\ owed' = owed /\ doing' = doing
  BY <1>2 DEF ReadAgain
<1>5. \A d \in doing' : DoingSound(d)
  BY <1>1, <1>4 DEF WebTypes
<1>6. \A p \in PartsOf(here) : shown[p] \in Entry
  BY <1>1 DEF WebTypes
<1>7. selection \in Selection /\ selection["screen"] = "open"
  BY <1>1 DEF WebTypes
<1> QED BY <1>3, <1>4, <1>5, <1>6, <1>7, ShownIsCurrent, RenderReads

\* The language changes, and the effects that depend on it run again.
LEMMA SetLangKeeps ==
  ASSUME WebInv, setLang
  PROVE  WebInv'
<1>1. WebTypes
  BY DEF WebInv
<1>2. PICK effects \in SUBSET EffectsOf(here) :
             effects = here.opens \cup UNION {here.follows[k] : k \in DOMAIN here.follows}
  BY DEF EffectsOf
<1>3. /\ Render(selection, effects, {}, readings, shown, {})
      /\ screen' = screen /\ moment' = moment /\ owed' = owed /\ doing' = doing
  BY <1>2 DEF setLang
<1>4. \A d \in doing' : DoingSound(d)
  BY <1>1, <1>3 DEF WebTypes
<1>5. \A p \in PartsOf(here) : shown[p] \in Entry
  BY <1>1 DEF WebTypes
<1>6. selection \in Selection /\ selection["screen"] = "open"
  BY <1>1 DEF WebTypes
<1> QED BY <1>3, <1>4, <1>5, <1>6, ShownIsCurrent, RenderReads

\* A step that leaves the page as it is but for what the user is doing.
LEMMA PageAsItWas ==
  ASSUME WebInv, UNCHANGED <<screen, selection, shown, readings, owed>>,
         unsure \subseteq unsure', moment' \in Nat, moment <= moment',
         \A d \in doing' : DoingSound(d)'
  PROVE  WebInv'
<1>1. WebTypes
  BY DEF WebInv
<1>2. here' = here /\ PartsOf(here)' = PartsOf(here) /\ EffectsOf(here)' = EffectsOf(here)
      /\ AtOnce' = AtOnce /\ LeftStale' = LeftStale
  BY DEF here, PartsOf, EffectsOf, AtOnce, LeftStale
<1>3. moment \in Nat /\ \A e \in Entry : e \in Entry'
  BY <1>1 DEF Entry, WebTypes
<1>4. WebTypes'
  <2>1. \A r \in readings' : ReadingSound(r)'
    BY <1>1, <1>2, <1>3 DEF WebTypes, ReadingSound
  <2>2. shown' \in [PartsOf(here)' -> Entry'] /\ owed' \in [PartsOf(here)' -> Entry']
    BY <1>1, <1>2, <1>3 DEF WebTypes
  <2> QED BY <1>1, <2>1, <2>2 DEF WebTypes
<1>5. ASSUME NEW p \in AtOnce, p \notin unsure' PROVE Sure(p)'
  <2>1. Sure(p)
    BY <1>5 DEF WebInv
  <2>2. Sure(p)' = Sure(p)
    BY <1>2 DEF Sure, UpToDate, SelectedFor
  <2> QED BY <2>1, <2>2
<1> QED BY <1>2, <1>4, <1>5 DEF WebInv

\* A change begins.
LEMMA ClickKeeps ==
  ASSUME WebInv, NEW c \in here.actions, Begin(c)
  PROVE  WebInv'
<1>1. WebTypes
  BY DEF WebInv
<1>2. PICK d : d = [change |-> c, at |-> selection, applied |-> Nothing]
  OBVIOUS
<1>3. /\ UNCHANGED <<screen, selection, shown, moment, readings, owed, unsure>>
      /\ doing' = doing \cup {d} /\ \A p \in c.alters : SelectedFor(p, selection) # Nothing
  BY <1>2 DEF Begin
<1>4. \A x : DoingSound(x)' = DoingSound(x)
  BY <1>3 DEF DoingSound, here
<1>5. DoingSound(d)
  BY <1>1, <1>2, <1>3 DEF DoingSound, WebTypes
<1> QED BY <1>1, <1>3, <1>4, <1>5, PageAsItWas DEF WebTypes

\* A change is applied by the server: nothing on the page follows yet.
LEMMA AppliedKeeps ==
  ASSUME WebInv, NEW d \in doing, Applied(d)
  PROVE  WebInv'
<1>1. WebTypes /\ DoingSound(d)
  BY DEF WebInv, WebTypes
<1>2. PICK e : e = [d EXCEPT !.applied = moment']
  OBVIOUS
<1>3. /\ UNCHANGED <<screen, selection, shown, readings, owed, unsure>>
      /\ moment' = moment + 1 /\ doing' = (doing \ {d}) \cup {e}
  BY <1>2 DEF Applied
<1>4. \A x : DoingSound(x) => DoingSound(x)'
  BY <1>1, <1>3 DEF DoingSound, here, WebTypes
<1>5. DoingSound(e)'
  BY <1>1, <1>2, <1>3, <1>4 DEF DoingSound, here, WebTypes
<1>6. \A x \in doing' : DoingSound(x)'
  BY <1>1, <1>3, <1>4, <1>5 DEF WebTypes
<1> QED BY <1>1, <1>3, <1>6, PageAsItWas DEF WebTypes

\* A change is refused, or its answer is lost: nothing that is shown changes.
LEMMA RefusedKeeps ==
  ASSUME WebInv, NEW d \in doing, Refused(d)
  PROVE  WebInv'
<1>1. /\ UNCHANGED <<screen, selection, shown, moment, readings, owed>>
      /\ doing' = doing \ {d} /\ unsure \subseteq unsure'
  BY DEF Refused
<1>2. \A x : DoingSound(x)' = DoingSound(x)
  BY <1>1 DEF DoingSound, here
<1> QED BY <1>1, <1>2, PageAsItWas DEF WebInv, WebTypes

\* A change that is answered goes to another page, or has what it altered read again or
\* shown from its answer.
LEMMA ConfirmedKeeps ==
  ASSUME WebInv, NEW d \in doing, Confirmed(d)
  PROVE  WebInv'
<1>1. WebTypes /\ DoingSound(d) /\ d.applied \in 0..moment /\ moment \in Nat /\ moment' = moment
  BY DEF WebInv, WebTypes, DoingSound, Confirmed
<1>2. PICK c : c = d.change /\ ChangeSound(c, LeftStale)
  BY <1>1, HereSound DEF PageSound, DoingSound, WebTypes
<1>3. CASE c.goes # Nothing
  <2>1. RenderAnew("conta") /\ "conta" \in DOMAIN Pages
    <3>1. c.goes = "conta"
      BY <1>2, <1>3 DEF ChangeSound
    <3> QED BY <1>2, <1>3, <3>1, PagesAre DEF Confirmed
  <2>2. here' = Pages["conta"]
    BY <2>1 DEF RenderAnew, here
  <2>3. JustOpened'
    BY <1>1, <2>1, <2>2 DEF RenderAnew, JustOpened, PartsOf
  <2> QED BY <2>3, JustOpenedIsSound, PTL
<1>4. CASE c.goes = Nothing
  <2>1. PICK answer : answer = [p \in c.alters \cup c.shows |->
                                  [of |-> SelectedFor(p, d.at), moment |-> d.applied]]
    OBVIOUS
  <2>2. PICK asks : asks = Requests(c.reads, d.at, c.name)
    OBVIOUS
  <2>3. PICK effects \in SUBSET EffectsOf(here) : effects = RenewedBy(c.shows)
    BY <1>1, RenewedIsRead DEF WebTypes
  <2>4. PICK news : news = [p \in DOMAIN shown |->
                              IF p \in c.shows
                              THEN [of |-> SelectedFor(p, d.at), moment |-> d.applied]
                              ELSE shown[p]]
    OBVIOUS
  <2>5. /\ Render(selection, effects, asks, readings, news, c.shows)
        /\ owed' = [p \in DOMAIN owed |->
                      IF p \in c.alters
                      THEN [of |-> SelectedFor(p, d.at), moment |-> d.applied] ELSE owed[p]]
        /\ screen' = screen /\ \A x \in doing' : x \in doing
    BY <1>2, <1>4, <2>2, <2>3, <2>4 DEF Confirmed
  <2>6. \A n \in asks : n.of \in CanBeChosen /\ n.asked = moment /\ n.by # "effect"
    BY <1>1, <1>2, <2>2, Asking DEF ChangeSound, DoingSound
  <2>7. \A p \in c.alters : SelectedFor(p, d.at) \in CanBeChosen
    BY <1>1, <1>2, SelectorKinds DEF DoingSound, SelectedFor, Selection
  <2>8. \A p \in c.shows : /\ p \in c.alters
                           /\ SelectedFor(p, d.at) = "open" /\ SelectedFor(p, selection) = "open"
    BY <1>1, <1>2 DEF ChangeSound, DoingSound, SelectedFor, WebTypes
  <2>9. \A p \in c.alters : /\ answer[p] = [of |-> SelectedFor(p, d.at), moment |-> d.applied]
                            /\ answer[p] \in Entry /\ answer[p] # Nothing
                            /\ answer[p].of = SelectedFor(p, d.at)
                            /\ answer[p].moment = d.applied
    <3> SUFFICES ASSUME NEW p \in c.alters
                 PROVE  /\ answer[p] = [of |-> SelectedFor(p, d.at), moment |-> d.applied]
                        /\ answer[p] \in Entry /\ answer[p] # Nothing
                        /\ answer[p].of = SelectedFor(p, d.at)
                        /\ answer[p].moment = d.applied
      OBVIOUS
    <3>1. answer[p] = [of |-> SelectedFor(p, d.at), moment |-> d.applied]
      BY <2>1
    <3>2. answer[p] \in [of : CanBeChosen, moment : 0..moment]
          /\ answer[p] \in [of : CanBeChosen, moment : Nat]
      BY <1>1, <2>7, <3>1
    <3> QED BY <3>1, <3>2, WebOK DEF Entry
  <2>10. DOMAIN shown = PartsOf(here) /\ DOMAIN owed = PartsOf(here)
         /\ \A p \in PartsOf(here) : shown[p] \in Entry /\ owed[p] \in Entry
    BY <1>1 DEF WebTypes
  <2>11. \A p \in PartsOf(here) : /\ p \in c.shows => news[p] = answer[p]
                                  /\ p \notin c.shows => news[p] = shown[p]
                                  /\ p \in c.alters => owed'[p] = answer[p]
                                  /\ p \notin c.alters => owed'[p] = owed[p]
    BY <2>4, <2>5, <2>8, <2>9, <2>10
  <2>12. \A p \in PartsOf(here) : news[p] \in Entry
    BY <2>8, <2>9, <2>10, <2>11
  <2>13. owed' \in [PartsOf(here) -> Entry]
    <3>1. \A p \in PartsOf(here) : owed'[p] \in Entry
      BY <2>9, <2>10, <2>11
    <3>2. owed' = [p \in PartsOf(here) |-> owed'[p]]
      BY <2>5, <2>10
    <3> QED BY <3>1, <3>2
  <2>14. \A p \in AtOnce : p \in PartsOf(here)
    BY DEF AtOnce, PartsOf
  <2>15. ASSUME NEW p \in AtOnce
         PROVE  \/ p \in LeftStale \/ owed'[p] = owed[p] \/ p \in c.shows
                \/ \E n \in asks : p \in n.parts
    <3> SUFFICES ASSUME p \in c.alters, p \notin LeftStale, p \notin c.shows
                 PROVE  \E n \in asks : p \in n.parts
      BY <2>11, <2>14
    <3>1. PICK g \in c.reads : p \in g
      BY <1>2, <1>4 DEF ChangeSound
    <3>2. SelectedFor(p, d.at) # Nothing
      BY <1>1, <1>2 DEF DoingSound
    <3>3. d.at \in Selection /\ \A h \in c.reads : OneSelector(h)
      BY <1>1, <1>2 DEF DoingSound, ChangeSound
    <3>4. \E n \in asks : n.parts = g
      BY <2>2, <3>1, <3>2, <3>3, Asking
    <3> QED BY <3>1, <3>4
  <2>16. ASSUME NEW p \in AtOnce, p \notin c.shows, p \notin unsure,
                SelectedFor(p, selection) # Nothing, \A r \in readings : p \notin r.parts
         PROVE  Current(p, news[p])
    BY <2>11, <2>14, <2>16, ShownIsCurrent
  <2>17. ASSUME NEW p \in AtOnce, p \in c.shows
         PROVE  /\ news[p] # Nothing /\ news[p].of = SelectedFor(p, selection)
                /\ UpToDate(p, news[p].of, news[p].moment)'
    <3>1. news[p] = answer[p] /\ owed'[p] = answer[p] /\ p \in c.alters
      BY <2>8, <2>11, <2>14, <2>17
    <3>2. owed'[p].moment = news[p].moment /\ news[p].moment \in Nat
      <4>1. answer[p].moment = d.applied
        BY <2>9, <3>1
      <4>2. d.applied \in Nat
        BY <1>1, <1>2 DEF DoingSound, Confirmed
      <4> QED BY <3>1, <4>1, <4>2
    <3>3. news[p].moment >= owed'[p].moment
      BY <3>2
    <3>4. UpToDate(p, news[p].of, news[p].moment)'
      BY <3>3 DEF UpToDate
    <3> QED BY <2>8, <2>9, <2>17, <3>1, <3>4
  <2>18. \A x \in doing' : DoingSound(x)
    BY <1>1, <2>5 DEF WebTypes
  <2>19. selection \in Selection /\ selection["screen"] = "open"
    BY <1>1 DEF WebTypes
  <2> QED BY <1>1, <2>5, <2>6, <2>12, <2>13, <2>15, <2>16, <2>17, <2>18, <2>19, RenderKeeps
<1> QED BY <1>3, <1>4

\* Every step of the pages keeps the invariant.
LEMMA WebInvNext == WebInv /\ [WebNext]_pageVars => WebInv'
<1> SUFFICES ASSUME WebInv, [WebNext]_pageVars PROVE WebInv'
  OBVIOUS
<1>1. WebTypes /\ PageSound(here, LeftStale)
  BY HereSound DEF WebInv, WebTypes
<1>2. CASE UNCHANGED pageVars
  BY <1>1, <1>2, PageAsItWas DEF pageVars, WebTypes, DoingSound, here
<1>3. ASSUME NEW r \in readings, ReplyArrives(r) PROVE WebInv'
  BY <1>3, ReplyKeeps
<1>4. ASSUME NEW r \in readings, ReadingFailed(r) PROVE WebInv'
  BY <1>4, FailureKeeps
<1>5. ASSUME NEW k \in DOMAIN here.follows, NEW option \in Options(k), Select(k, option)
      PROVE  WebInv'
  BY <1>5, SelectKeeps
<1>6. ASSUME NEW groups \in here.searches, ReadAgain(groups, "user") PROVE WebInv'
  BY <1>1, <1>6, ReadAgainKeeps DEF PageSound, GroupsSound
<1>7. ASSUME ReadAgain(here.signals, "signal") PROVE WebInv'
  BY <1>1, <1>7, ReadAgainKeeps DEF PageSound, GroupsSound
<1>8. CASE setLang
  BY <1>8, SetLangKeeps
<1>9. ASSUME NEW c \in here.actions, Begin(c) PROVE WebInv'
  BY <1>9, ClickKeeps
<1>10. ASSUME NEW d \in doing, Applied(d) PROVE WebInv'
  BY <1>10, AppliedKeeps
<1>11. ASSUME NEW d \in doing, Confirmed(d) PROVE WebInv'
  BY <1>11, ConfirmedKeeps
<1>12. ASSUME NEW d \in doing, Refused(d) PROVE WebInv'
  BY <1>12, RefusedKeeps
<1> QED BY <1>2, <1>3, <1>4, <1>5, <1>6, <1>7, <1>8, <1>9, <1>10, <1>11, <1>12 DEF WebNext

\* On every page, whatever the user changed or chose while replies were under way, and in
\* whatever order they arrived, a settled part shows what is selected, as it is since the last
\* change of it that was confirmed, unless the page leaves it stale (LeftStale).  A part is
\* not settled while it is unsure: two readings of it overlapped on a page that does not drop
\* the late reply (src/app/gestor/page.tsx:158-182, src/app/admin/page.tsx,
\* src/app/staff/page.tsx and the others).
THEOREM PagesShowSelection == Spec => []PageShowsSelection
<1>1. WebInv => PageShowsSelection
  <2> SUFFICES ASSUME WebInv, NEW p \in AtOnce, Settled(p)
               PROVE  /\ shown[p] # Nothing
                      /\ shown[p].of = SelectedFor(p, selection)
                      /\ \/ p \in LeftStale \/ owed[p] = Nothing
                         \/ owed[p].of # shown[p].of
                         \/ shown[p].moment >= owed[p].moment
    BY DEF PageShowsSelection
  <2>1. Current(p, shown[p])
    BY ShownIsCurrent DEF Settled
  <2> QED BY <2>1 DEF Current, UpToDate
<1>2. [Next]_backOfficeVars => [WebNext]_pageVars
  BY DEF Next, backOfficeVars
<1> QED BY <1>1, <1>2, WebInvInit, WebInvNext, PTL DEF Spec

-----------------------------------------------------------------------------
\* Sequences, and sequences of sequences.

\* What holds of the empty sequence and is kept when something is appended holds of every
\* sequence.
LEMMA SequenceInduction ==
  ASSUME NEW X, NEW P, << >> \in P, \A s \in P, x \in X : Append(s, x) \in P
  PROVE  Seq(X) \subseteq P
<1> DEFINE N == {n \in Nat : \A s \in Seq(X) : Len(s) = n => s \in P}
<1>1. 0 \in N
  OBVIOUS
<1>2. ASSUME NEW n \in Nat, n \in N PROVE n + 1 \in N
  <2> SUFFICES ASSUME NEW s \in Seq(X), Len(s) = n + 1 PROVE s \in P
    OBVIOUS
  <2> DEFINE t == SubSeq(s, 1, Len(s) - 1)
  <2>1. t \in Seq(X) /\ Len(t) = n /\ s[Len(s)] \in X /\ s = Append(t, s[Len(s)])
    OBVIOUS
  <2> HIDE DEF t
  <2>2. t \in P
    BY <1>2, <2>1
  <2>3. Append(t, s[Len(s)]) \in P
    BY <2>1, <2>2
  <2> QED BY Zenon, <2>1, <2>3
<1> HIDE DEF N
<1>3. Nat \subseteq N
  BY <1>1, <1>2, NaturalInduction
<1> QED BY <1>3 DEF N

\* Concatenation of a sequence of sequences: g[i] is that of the first i of them.
Flattens(S, g) == g = [i \in 1..Len(S) |-> IF i = 1 THEN S[i] ELSE g[i - 1] \o S[i]]

LEMMA FlattenUnfolded ==
  \A S : Len(S) # 0 => FlattenSeq(S) = (CHOOSE g : Flattens(S, g))[Len(S)]
BY DEF FlattenSeq, Flattens

LEMMA FlattenNone == FlattenSeq(<< >>) = << >>
BY DEF FlattenSeq

LEMMA LongerFlattens ==
  ASSUME NEW X, NEW S \in Seq(Seq(X)), NEW s \in Seq(X), S # << >>, NEW g, Flattens(S, g),
         g[Len(S)] \in Seq(X)
  PROVE  \E h : Flattens(Append(S, s), h) /\ h[Len(S) + 1] = g[Len(S)] \o s
<1> DEFINE T == Append(S, s)
           h == [i \in 1..Len(T) |-> IF i = Len(T) THEN g[Len(S)] \o s ELSE g[i]]
<1>1. /\ Len(T) = Len(S) + 1 /\ Len(S) \in Nat /\ Len(S) # 0
      /\ T[Len(S) + 1] = s /\ \A i \in 1..Len(S) : T[i] = S[i]
  OBVIOUS
<1> HIDE DEF T
<1>2. \A i \in 1..Len(S) : g[i] = IF i = 1 THEN S[i] ELSE g[i - 1] \o S[i]
  BY Zenon DEF Flattens
<1>3. ASSUME NEW i \in 1..Len(T) PROVE h[i] = IF i = 1 THEN T[i] ELSE h[i - 1] \o T[i]
  <2>1. CASE i = Len(T)
    <3>1. i # 1 /\ i - 1 \in 1..Len(T) /\ i - 1 # Len(T) /\ i - 1 = Len(S)
      BY <1>1, <2>1
    <3>2. h[i - 1] = g[Len(S)] /\ h[i] = g[Len(S)] \o s /\ T[i] = s
      BY Zenon, <1>1, <2>1, <3>1
    <3> QED BY Zenon, <3>1, <3>2
  <2>2. CASE i # Len(T)
    <3>1. i \in 1..Len(S) /\ h[i] = g[i] /\ T[i] = S[i]
      BY <1>1, <2>2
    <3>2. CASE i = 1
      BY <1>2, <3>1, <3>2
    <3>3. CASE i # 1
      <4>1. i - 1 \in 1..Len(T) /\ i - 1 # Len(T)
        BY <1>1, <3>1, <3>3
      <4>2. h[i - 1] = g[i - 1]
        BY <4>1
      <4> QED BY Zenon, <1>2, <3>1, <3>3, <4>2
    <3> QED BY <3>2, <3>3
  <2> QED BY <2>1, <2>2
<1>4. Flattens(T, h)
  BY Zenon, <1>3 DEF Flattens
<1>5. h[Len(S) + 1] = g[Len(S)] \o s
  BY <1>1
<1> QED BY Zenon, <1>4, <1>5 DEF T

\* Only one function flattens a sequence.
LEMMA FlattensOnce ==
  ASSUME NEW X, NEW S \in Seq(Seq(X)), NEW g, Flattens(S, g), NEW h, Flattens(S, h)
  PROVE  g = h
<1> DEFINE P == {n \in Nat : n + 1 \in 1..Len(S) => g[n + 1] = h[n + 1]}
<1>1. \A i \in 1..Len(S) : /\ g[i] = IF i = 1 THEN S[i] ELSE g[i - 1] \o S[i]
                           /\ h[i] = IF i = 1 THEN S[i] ELSE h[i - 1] \o S[i]
  BY Zenon DEF Flattens
<1>2. 0 \in P
  BY <1>1
<1>3. ASSUME NEW n \in Nat, n \in P PROVE n + 1 \in P
  <2> SUFFICES ASSUME n + 2 \in 1..Len(S) PROVE g[n + 2] = h[n + 2]
    OBVIOUS
  <2>1. PICK m \in 1..Len(S) : m = n + 2 /\ m # 1 /\ m - 1 = n + 1 /\ n + 1 \in 1..Len(S)
    OBVIOUS
  <2>2. g[n + 1] = h[n + 1]
    BY <1>3, <2>1
  <2>3. g[m] = g[m - 1] \o S[m] /\ h[m] = h[m - 1] \o S[m]
    BY Zenon, <1>1, <2>1
  <2> QED BY Zenon, <2>1, <2>2, <2>3
<1> HIDE DEF P
<1>4. Nat \subseteq P
  BY Zenon, <1>2, <1>3, NaturalInduction
<1>5. ASSUME NEW i \in 1..Len(S) PROVE g[i] = h[i]
  <2>1. i - 1 \in Nat /\ i - 1 + 1 = i
    OBVIOUS
  <2>2. i - 1 \in P
    BY <1>4, <2>1
  <2> QED BY <2>1, <2>2 DEF P
<1>6. g = [i \in 1..Len(S) |-> g[i]] /\ h = [i \in 1..Len(S) |-> h[i]]
  BY DEF Flattens
<1> QED BY <1>5, <1>6

\* What CHOOSE finds is what there is.
LEMMA FlattenIs ==
  ASSUME NEW X, NEW S \in Seq(Seq(X)), S # << >>, NEW g, Flattens(S, g)
  PROVE  FlattenSeq(S) = g[Len(S)]
<1>1. PICK h : h = CHOOSE k : Flattens(S, k)
  OBVIOUS
<1>2. Flattens(S, h)
  BY <1>1
<1>3. h = g
  BY <1>2, FlattensOnce
<1>4. Len(S) # 0
  OBVIOUS
<1> QED BY <1>1, <1>3, <1>4, FlattenUnfolded

\* A sequence more is put behind those that are there.
LEMMA FlattenOfLonger ==
  ASSUME NEW X, NEW S \in Seq(Seq(X)), NEW s \in Seq(X)
  PROVE  /\ FlattenSeq(S) \in Seq(X)
         /\ FlattenSeq(Append(S, s)) = FlattenSeq(S) \o s
<1> DEFINE P == {T \in Seq(Seq(X)) :
                   T # << >> => \E g : Flattens(T, g) /\ g[Len(T)] \in Seq(X)}
<1>1. << >> \in P
  OBVIOUS
<1>2. ASSUME NEW U \in P, NEW u \in Seq(X) PROVE Append(U, u) \in P
  <2> DEFINE T == Append(U, u)
  <2>1. /\ U \in Seq(Seq(X)) /\ T \in Seq(Seq(X)) /\ Len(T) = Len(U) + 1
        /\ T[Len(T)] = u
    BY AppendProperties
  <2>2. CASE U = << >>
    <3> DEFINE g == [i \in 1..1 |-> u]
    <3>1. Len(T) = 1 /\ T[1] = u /\ g[1] = u
      BY <2>1, <2>2
    <3>2. \A i \in 1..1 : g[i] = IF i = 1 THEN T[i] ELSE g[i - 1] \o T[i]
      BY <3>1
    <3> HIDE DEF T
    <3>3. Flattens(T, g)
      BY <3>1, <3>2 DEF Flattens
    <3> HIDE DEF g
    <3>4. g[Len(T)] \in Seq(X)
      BY <3>1
    <3> QED BY <2>1, <3>3, <3>4 DEF T
  <2>3. CASE U # << >>
    <3>1. PICK g : Flattens(U, g) /\ g[Len(U)] \in Seq(X)
      BY <2>3
    <3>2. PICK h : Flattens(T, h) /\ h[Len(U) + 1] = g[Len(U)] \o u
      BY Zenon, <2>1, <2>3, <3>1, LongerFlattens
    <3>3. h[Len(T)] \in Seq(X)
      BY <2>1, <3>1, <3>2
    <3> QED BY Zenon, <2>1, <3>2, <3>3
  <2> QED BY <2>2, <2>3
<1> HIDE DEF P
<1>3. Seq(Seq(X)) \subseteq P
  BY Zenon, <1>1, <1>2, SequenceInduction
<1>4. S # << >> => \E g : Flattens(S, g) /\ g[Len(S)] \in Seq(X)
  BY <1>3 DEF P
<1>5. CASE S = << >>
  <2> DEFINE g == [i \in 1..1 |-> s]
  <2>1. Append(S, s) \in Seq(Seq(X)) /\ Append(S, s) # << >>
        /\ Len(Append(S, s)) = 1 /\ Append(S, s)[1] = s
    BY <1>5
  <2>2. \A i \in 1..1 : g[i] = IF i = 1 THEN Append(S, s)[i] ELSE g[i - 1] \o Append(S, s)[i]
    BY <2>1
  <2>3. Flattens(Append(S, s), g)
    BY <2>1, <2>2 DEF Flattens
  <2>4. FlattenSeq(Append(S, s)) = g[1]
    BY Zenon, <2>1, <2>3, FlattenIs
  <2>5. FlattenSeq(S) = << >>
    BY <1>5, FlattenNone
  <2> QED BY <2>4, <2>5
<1>6. CASE S # << >>
  <2>1. PICK g : Flattens(S, g) /\ g[Len(S)] \in Seq(X)
    BY <1>4, <1>6
  <2>2. PICK h : Flattens(Append(S, s), h) /\ h[Len(S) + 1] = g[Len(S)] \o s
    BY Zenon, <1>6, <2>1, LongerFlattens
  <2>3. FlattenSeq(S) = g[Len(S)]
    BY <1>6, <2>1, FlattenIs
  <2>4. /\ Append(S, s) \in Seq(Seq(X)) /\ Append(S, s) # << >>
        /\ Len(Append(S, s)) = Len(S) + 1
    BY AppendProperties
  <2>5. FlattenSeq(Append(S, s)) = h[Len(S) + 1]
    BY Zenon, <2>2, <2>4, FlattenIs
  <2> QED BY <2>1, <2>2, <2>3, <2>5
<1> QED BY <1>5, <1>6

\* The bytes of a code point.
BytesOf(c) == IF c < 128 THEN <<c>> ELSE <<192 + (c \div 64), 128 + (c % 64)>>

Characters == 0..2047
Ascii == 0..127
Texts == Seq(Characters)

LEMMA EncodeNone == Encode(<< >>) = << >>
<1>1. [i \in DOMAIN << >> |-> BytesOf(<< >>[i])] = << >>
  OBVIOUS
<1> QED BY <1>1, FlattenNone DEF Encode, BytesOf

LEMMA BytesTyped == \A c \in Characters : BytesOf(c) \in Seq(Nat) /\ Len(BytesOf(c)) \in 1..2
BY DEF BytesOf, Characters

LEMMA EncodeOfLonger ==
  ASSUME NEW t \in Texts, NEW c \in Characters
  PROVE  /\ Encode(t) \in Seq(Nat)
         /\ Encode(Append(t, c)) = Encode(t) \o BytesOf(c)
<1> DEFINE S(u) == [i \in DOMAIN u |-> BytesOf(u[i])]
<1>1. \A d \in Characters : BytesOf(d) \in Seq(Nat)
  BY BytesTyped
<1>2. t \in Seq(Characters) /\ Append(t, c) \in Seq(Characters)
  BY DEF Texts
<1>3. /\ DOMAIN t = 1..Len(t) /\ Len(t) \in Nat
      /\ S(t) \in Seq(Seq(Nat)) /\ Len(S(t)) = Len(t)
      /\ \A i \in 1..Len(t) : S(t)[i] = BytesOf(t[i])
  <2>1. DOMAIN t = 1..Len(t) /\ Len(t) \in Nat /\ \A i \in 1..Len(t) : t[i] \in Characters
    BY <1>2
  <2>2. S(t) \in [1..Len(t) -> Seq(Nat)]
    BY <1>1, <2>1
  <2>3. S(t) \in Seq(Seq(Nat))
    BY <2>1, <2>2, SeqDef
  <2> QED BY <2>1, <2>2, <2>3
<1>4. S(Append(t, c)) = Append(S(t), BytesOf(c))
  <2>1. /\ DOMAIN Append(t, c) = 1..(Len(t) + 1) /\ Len(t) \in Nat
        /\ \A i \in 1..(Len(t) + 1) : Append(t, c)[i] = IF i = Len(t) + 1 THEN c ELSE t[i]
    BY <1>2
  <2>2. /\ Append(S(t), BytesOf(c)) \in Seq(Seq(Nat))
        /\ DOMAIN Append(S(t), BytesOf(c)) = 1..(Len(t) + 1)
        /\ \A i \in 1..(Len(t) + 1) :
             Append(S(t), BytesOf(c))[i] = IF i = Len(t) + 1 THEN BytesOf(c) ELSE S(t)[i]
    <3> HIDE DEF S
    <3> QED BY <1>1, <1>3, AppendProperties
  <2>3. \A i \in 1..(Len(t) + 1) : S(Append(t, c))[i] = Append(S(t), BytesOf(c))[i]
    <3>1. ASSUME NEW i \in 1..(Len(t) + 1)
          PROVE  S(Append(t, c))[i] = Append(S(t), BytesOf(c))[i]
      <4>1. S(Append(t, c))[i] = BytesOf(Append(t, c)[i])
        BY <2>1
      <4>2. i # Len(t) + 1 => i \in 1..Len(t) /\ S(t)[i] = BytesOf(t[i])
        BY <1>3
      <4> HIDE DEF S
      <4> QED BY <2>1, <2>2, <4>1, <4>2
    <3> QED BY <3>1
  <2>4. S(Append(t, c)) = [i \in 1..(Len(t) + 1) |-> S(Append(t, c))[i]]
    BY <2>1
  <2>5. Append(S(t), BytesOf(c)) = [i \in 1..(Len(t) + 1) |-> Append(S(t), BytesOf(c))[i]]
    <3> HIDE DEF S
    <3> QED BY Zenon, <2>2, LenProperties
  <2> HIDE DEF S
  <2> QED BY <2>3, <2>4, <2>5
<1>5. Encode(t) = FlattenSeq(S(t)) /\ Encode(Append(t, c)) = FlattenSeq(S(Append(t, c)))
  BY DEF Encode, BytesOf
<1> HIDE DEF S
<1> QED BY Zenon, <1>1, <1>3, <1>4, <1>5, FlattenOfLonger

LEMMA EncodeTyped == \A t \in Texts : Encode(t) \in Seq(Nat)
<1>1. 0 \in Characters
  BY DEF Characters
<1> QED BY <1>1, EncodeOfLonger

LEMMA JoinAssociative == \A X : \A a, b, d \in Seq(X) : (a \o b) \o d = a \o (b \o d)
<1> SUFFICES ASSUME NEW X PROVE \A a, b, d \in Seq(X) : (a \o b) \o d = a \o (b \o d)
  OBVIOUS
<1> QED BY ConcatAssociative

\* The encoding of a text is that of its parts.
LEMMA EncodeOfBoth ==
  ASSUME NEW t \in Texts, NEW u \in Texts
  PROVE  Encode(t \o u) = Encode(t) \o Encode(u)
<1> DEFINE P == {w \in Texts : Encode(t \o w) = Encode(t) \o Encode(w)}
<1>0. Encode(t) \in Seq(Nat)
  BY EncodeTyped
<1>1. << >> \in P
  <2>1. t \o << >> = t /\ << >> \in Texts
    BY DEF Texts
  <2> QED BY <1>0, <2>1, EncodeNone
<1>2. ASSUME NEW w \in P, NEW c \in Characters PROVE Append(w, c) \in P
  <2>1. w \in Texts /\ Append(w, c) \in Texts /\ t \o w \in Texts
        /\ t \o Append(w, c) = Append(t \o w, c)
    BY DEF Texts
  <2>2. /\ Encode(w) \in Seq(Nat) /\ BytesOf(c) \in Seq(Nat)
        /\ Encode(Append(w, c)) = Encode(w) \o BytesOf(c)
        /\ Encode(Append(t \o w, c)) = Encode(t \o w) \o BytesOf(c)
    BY Zenon, <2>1, EncodeOfLonger, BytesTyped
  <2>3. Encode(t \o w) = Encode(t) \o Encode(w)
    BY <1>2
  <2>4. (Encode(t) \o Encode(w)) \o BytesOf(c) = Encode(t) \o (Encode(w) \o BytesOf(c))
    <3>1. PICK X : X = Nat
      OBVIOUS
    <3>2. Encode(t) \in Seq(X) /\ Encode(w) \in Seq(X) /\ BytesOf(c) \in Seq(X)
      BY <1>0, <2>2, <3>1
    <3> QED BY <3>2, JoinAssociative
  <2> QED BY Zenon, <2>1, <2>2, <2>3, <2>4
<1> HIDE DEF P
<1>3. Seq(Characters) \subseteq P
  BY <1>1, <1>2, SequenceInduction
<1> QED BY <1>3 DEF P, Texts

\* A text of ASCII characters is its own encoding.
LEMMA EncodeAscii == \A t \in Seq(Ascii) : t \in Texts /\ Encode(t) = t
<1> DEFINE P == {t \in Seq(Ascii) : t \in Texts /\ Encode(t) = t}
<1>1. << >> \in P
  BY EncodeNone DEF Texts
<1>2. ASSUME NEW t \in P, NEW c \in Ascii PROVE Append(t, c) \in P
  <2>1. /\ t \in Seq(Ascii) /\ t \in Texts /\ Encode(t) = t /\ c \in Characters
        /\ Append(t, c) \in Seq(Ascii) /\ Append(t, c) \in Texts
    BY DEF Texts, Ascii, Characters
  <2>2. BytesOf(c) = <<c>>
    BY DEF BytesOf, Ascii
  <2>3. Encode(Append(t, c)) = t \o <<c>>
    BY Zenon, <2>1, <2>2, EncodeOfLonger
  <2>4. t \o <<c>> = Append(t, c)
    BY <2>1
  <2> QED BY <2>1, <2>3, <2>4
<1> HIDE DEF P
<1>3. Seq(Ascii) \subseteq P
  BY <1>1, <1>2, SequenceInduction
<1> QED BY <1>3 DEF P

\* No character takes more than two bytes.
LEMMA EncodeShort == \A t \in Texts : Len(Encode(t)) \in 0..(2 * Len(t))
<1> DEFINE P == {t \in Texts : Len(Encode(t)) \in 0..(2 * Len(t))}
<1>1. << >> \in P
  BY EncodeNone DEF Texts
<1>2. ASSUME NEW t \in P, NEW c \in Characters PROVE Append(t, c) \in P
  <2>1. t \in Texts /\ Append(t, c) \in Texts /\ Len(Append(t, c)) = Len(t) + 1 /\ Len(t) \in Nat
    BY DEF Texts
  <2>2. BytesOf(c) \in Seq(Nat) /\ Len(BytesOf(c)) \in 1..2
    BY BytesTyped
  <2>3. Encode(t) \in Seq(Nat) /\ Encode(Append(t, c)) = Encode(t) \o BytesOf(c)
    BY <2>1, EncodeOfLonger
  <2>4. Len(Encode(Append(t, c))) = Len(Encode(t)) + Len(BytesOf(c))
    BY <2>2, <2>3
  <2>5. Len(Encode(t)) \in 0..(2 * Len(t))
    BY <1>2
  <2>6. \A n \in Nat : \A a \in 0..(2 * n), b \in 1..2 : a + b \in 0..(2 * (n + 1))
    OBVIOUS
  <2>7. Len(Encode(Append(t, c))) \in 0..(2 * Len(Append(t, c)))
    BY Zenon, <2>1, <2>2, <2>4, <2>5, <2>6
  <2> QED BY <2>1, <2>7
<1> HIDE DEF P
<1>3. Seq(Characters) \subseteq P
  BY <1>1, <1>2, SequenceInduction
<1> QED BY <1>3 DEF P, Texts

-----------------------------------------------------------------------------
\* The decimal digits of a number.

DigitCodes == Zero..(Zero + 9)

\* How many there are.
Fitting(n, width) ==
  CHOOSE w \in width..10 : n < 10 ^ w /\ (w = width \/ n >= 10 ^ (w - 1))

LEMMA Powers ==
  /\ 10 ^ 0 = 1 /\ 10 ^ 1 = 10 /\ 10 ^ 2 = 100
  /\ \A w \in 0..9 : 10 ^ w \in Nat \ {0}
  /\ \A w \in 2..9 : 10 ^ w >= 100
  /\ \A w \in 8..9 : 10 ^ w >= 10 ^ 8
BY SMT

LEMMA DecimalFits ==
  \A n, width : LET w == Fitting(n, width)
                IN  Decimal(n, width) = Digits([i \in 1..w |-> (n \div 10 ^ (w - i)) % 10])
BY DEF Decimal, Fitting

LEMMA DecimalOfTwo ==
  ASSUME NEW n \in 0..99
  PROVE  Decimal(n, 2) = <<Zero + (n \div 10), Zero + (n % 10)>>
<1>1. Fitting(n, 2) = 2
  <2>1. n < 10 ^ 2
    BY Powers
  <2>2. ASSUME NEW w \in 2..10, n < 10 ^ w, w = 2 \/ n >= 10 ^ (w - 1) PROVE w = 2
    <3>1. CASE w # 2
      <4>1. w - 1 \in 2..9
        BY <3>1
      <4>2. 10 ^ (w - 1) >= 100
        BY Zenon, <4>1, Powers
      <4>3. PICK p : p = 10 ^ (w - 1)
        OBVIOUS
      <4> QED BY <2>2, <3>1, <4>2, <4>3
    <3> QED BY <3>1
  <2> QED BY <2>1, <2>2 DEF Fitting
<1>2. Decimal(n, 2) = Digits([i \in 1..2 |-> (n \div 10 ^ (2 - i)) % 10])
  BY Zenon, <1>1, DecimalFits
<1>3. [i \in 1..2 |-> (n \div 10 ^ (2 - i)) % 10] = <<n \div 10, n % 10>>
  <2>1. 10 ^ (2 - 1) = 10 /\ 10 ^ (2 - 2) = 1
    BY Powers
  <2>2. (n \div 10) % 10 = n \div 10 /\ (n \div 1) % 10 = n % 10
    OBVIOUS
  <2> QED BY <2>1, <2>2
<1>4. Digits(<<n \div 10, n % 10>>) = <<Zero + (n \div 10), Zero + (n % 10)>>
  BY DEF Digits
<1> QED BY <1>2, <1>3, <1>4

\* A number below 10 ^ 8 has eight digits at most.
LEMMA DecimalShort ==
  ASSUME NEW n \in Nat, n < 10 ^ 8, NEW width \in 1..2
  PROVE  Decimal(n, width) \in Seq(DigitCodes) /\ Len(Decimal(n, width)) \in 1..8
<1>1. Fitting(n, width) \in 1..8
  <2>1. \E w \in width..8 : n < 10 ^ w /\ (w = width \/ n >= 10 ^ (w - 1))
    <3>1. CASE width = 1
      BY SMT, <3>1
    <3>2. CASE width = 2
      BY SMT, <3>2
    <3> QED BY <3>1, <3>2
  <2>2. ASSUME NEW w \in width..10, n < 10 ^ w, w = width \/ n >= 10 ^ (w - 1) PROVE w \in 1..8
    <3>1. CASE w \in 9..10
      <4>1. w - 1 \in 8..9 /\ w # width
        BY <3>1
      <4>2. 10 ^ (w - 1) >= 10 ^ 8
        BY Zenon, <4>1, Powers
      <4>3. PICK p : p = 10 ^ (w - 1)
        OBVIOUS
      <4>4. w - 1 \in 0..9 /\ 8 \in 0..9
        BY <4>1
      <4>5. PICK e : e = 10 ^ 8
        OBVIOUS
      <4>6. e \in Nat /\ p \in Nat
        BY Zenon, <4>3, <4>4, <4>5, Powers
      <4> QED BY <2>2, <4>1, <4>2, <4>3, <4>5, <4>6
    <3>2. CASE w \notin 9..10
      BY <3>2
    <3> QED BY <3>1, <3>2
  <2> QED BY <2>1, <2>2 DEF Fitting
<1>2. PICK w \in 1..8 : w = Fitting(n, width)
  BY <1>1
<1>3. Decimal(n, width) = Digits([i \in 1..w |-> (n \div 10 ^ (w - i)) % 10])
  BY <1>2, DecimalFits
<1>4. \A i \in 1..w : (n \div 10 ^ (w - i)) % 10 \in 0..9
  <2>1. ASSUME NEW i \in 1..w PROVE (n \div 10 ^ (w - i)) % 10 \in 0..9
    <3>1. PICK p \in Nat \ {0} : p = 10 ^ (w - i)
      <4>1. w - i \in 0..9
        OBVIOUS
      <4>2. 10 ^ (w - i) \in Nat \ {0}
        BY Zenon, <4>1, Powers
      <4> QED BY <4>2
    <3>2. n \div p \in Nat
      BY <3>1
    <3>3. (n \div p) % 10 \in 0..9
      BY <3>2
    <3> QED BY <3>1, <3>3
  <2> QED BY <2>1
<1>5. Digits([i \in 1..w |-> (n \div 10 ^ (w - i)) % 10]) \in [1..w -> DigitCodes]
  BY <1>4 DEF Digits, DigitCodes, Zero
<1>6. \A d \in [1..w -> DigitCodes] : d \in Seq(DigitCodes) /\ Len(d) \in 1..8
  <2> SUFFICES ASSUME NEW d \in [1..w -> DigitCodes]
               PROVE  d \in Seq(DigitCodes) /\ Len(d) \in 1..8
    BY Zenon
  <2>1. d \in Seq(DigitCodes)
    BY SeqDef
  <2>2. DOMAIN d = 1..w /\ Len(d) \in Nat /\ DOMAIN d = 1..Len(d)
    BY <2>1
  <2>3. \A m \in Nat : 1..w = 1..m => m \in 1..8
    <3>1. \A m \in Nat : 1..w = 1..m => w <= m /\ m <= w
      <4> SUFFICES ASSUME NEW m \in Nat, 1..w = 1..m PROVE w <= m /\ m <= w
        OBVIOUS
      <4>1. w \in 1..w /\ (m # 0 => m \in 1..m)
        OBVIOUS
      <4> QED BY <4>1
    <3> QED BY <3>1
  <2> QED BY Zenon, <2>1, <2>2, <2>3
<1> QED BY <1>3, <1>5, <1>6

-----------------------------------------------------------------------------
\* The remainder of a number that is given by its digits.

\* The fold of Mod97: g[s] is that of the digits at the places s.
Folds(ns, g) ==
  g = [s \in SUBSET (DOMAIN ns) |->
         IF s = {} THEN 0 ELSE (g[s \ {Max(s)}] * 10 + ns[Max(s)]) % 97]

LEMMA Mod97Unfolded == \A ns : Mod97(ns) = (CHOOSE g : Folds(ns, g))[DOMAIN ns]
BY DEF Mod97, FoldLeft, MapThenFoldSet, Folds

LEMMA MaxOfPlaces ==
  ASSUME NEW n \in Nat, NEW s \in SUBSET (1..n), s # {}
  PROVE  Max(s) \in s /\ (n \in s => Max(s) = n)
<1>2. \E x \in s : \A z \in s : x >= z
  <2> DEFINE P == {m \in Nat : \A t \in SUBSET (1..m) : t # {} => \E x \in t : \A z \in t : x >= z}
  <2>1. 0 \in P
    <3>1. \A t \in SUBSET (1..0) : t = {}
      OBVIOUS
    <3> QED BY Zenon, <3>1
  <2>2. ASSUME NEW m \in Nat, m \in P PROVE m + 1 \in P
    <3> SUFFICES ASSUME NEW t \in SUBSET (1..(m + 1)), t # {}
                 PROVE  \E x \in t : \A z \in t : x >= z
      OBVIOUS
    <3>1. CASE m + 1 \in t
      BY <3>1
    <3>2. CASE m + 1 \notin t
      <4>1. t \in SUBSET (1..m)
        BY <3>2
      <4> QED BY <2>2, <4>1
    <3> QED BY <3>1, <3>2
  <2> HIDE DEF P
  <2>3. Nat \subseteq P
    BY <2>1, <2>2, NaturalInduction
  <2> QED BY Zenon, <2>3 DEF P
<1>3. Max(s) \in s /\ \A z \in s : Max(s) >= z
  BY Zenon, <1>2 DEF Max
<1>4. Max(s) \in 1..n
  BY Zenon, <1>3
<1> QED BY <1>3, <1>4

\* There is such a fold.
LEMMA FoldsExist ==
  ASSUME NEW ns \in Seq(0..9)
  PROVE  \E g : Folds(ns, g)
<1> DEFINE Fold(n, g) == g = [s \in SUBSET (1..n) |->
                 IF s = {} THEN 0 ELSE (g[s \ {Max(s)}] * 10 + ns[Max(s)]) % 97]
           P == {n \in Nat : \E g : Fold(n, g)}
<1>1. 0 \in P
  <2> DEFINE g == [s \in SUBSET (1..0) |-> 0]
  <2>1. \A s \in SUBSET (1..0) : s = {}
    OBVIOUS
  <2>2. Fold(0, g)
    BY <2>1
  <2> QED BY <2>2
<1>2. ASSUME NEW n \in Nat, n \in P PROVE n + 1 \in P
  <2>1. PICK g : Fold(n, g)
    BY Zenon, <1>2
  <2> DEFINE h == [s \in SUBSET (1..(n + 1)) |->
                     IF n + 1 \in s THEN (g[s \ {n + 1}] * 10 + ns[n + 1]) % 97 ELSE g[s]]
  <2>2. ASSUME NEW s \in SUBSET (1..(n + 1))
        PROVE  h[s] = IF s = {} THEN 0 ELSE (h[s \ {Max(s)}] * 10 + ns[Max(s)]) % 97
    <3>1. CASE n + 1 \in s
      <4>1. s # {} /\ Max(s) = n + 1
        BY <3>1, MaxOfPlaces
      <4>2. s \ {n + 1} \in SUBSET (1..(n + 1)) /\ n + 1 \notin s \ {n + 1}
        OBVIOUS
      <4>3. h[s \ {n + 1}] = g[s \ {n + 1}]
        BY <4>2
      <4>4. h[s] = (g[s \ {n + 1}] * 10 + ns[n + 1]) % 97
        BY <3>1
      <4> HIDE DEF h
      <4> QED BY Zenon, <4>1, <4>3, <4>4
    <3>2. CASE n + 1 \notin s
      <4>1. s \in SUBSET (1..n) /\ h[s] = g[s]
        BY <3>2
      <4>2. g[s] = IF s = {} THEN 0 ELSE (g[s \ {Max(s)}] * 10 + ns[Max(s)]) % 97
        BY Zenon, <2>1, <4>1
      <4>3. s \ {Max(s)} \in SUBSET (1..(n + 1)) /\ n + 1 \notin s \ {Max(s)}
        BY Zenon, <3>2
      <4>4. h[s \ {Max(s)}] = g[s \ {Max(s)}]
        BY <4>3
      <4> HIDE DEF h
      <4> QED BY <4>1, <4>2, <4>4
    <3> QED BY Zenon, <3>1, <3>2
  <2>3. Fold(n + 1, h)
    <3>1. h = [s \in SUBSET (1..(n + 1)) |-> h[s]]
      OBVIOUS
    <3> HIDE DEF h
    <3> QED BY Zenon, <2>2, <3>1
  <2>4. n + 1 \in Nat
    OBVIOUS
  <2> HIDE DEF h
  <2> QED BY Zenon, <2>3, <2>4
<1> HIDE DEF P
<1>3. Nat \subseteq P
  BY <1>1, <1>2, NaturalInduction
<1>4. PICK g : Fold(Len(ns), g)
  <2>1. Len(ns) \in P
    BY <1>3
  <2> QED BY Zenon, <2>1 DEF P
<1>5. DOMAIN ns = 1..Len(ns)
  OBVIOUS
<1>6. Folds(ns, g)
  BY Zenon, <1>4, <1>5 DEF Folds
<1> QED BY <1>6

\* A digit more.
LEMMA Mod97Longer ==
  ASSUME NEW ns \in Seq(0..9), NEW d \in 0..9
  PROVE  /\ Mod97(ns) \in 0..96
         /\ Mod97(Append(ns, d)) = (Mod97(ns) * 10 + d) % 97
<1> DEFINE ms == Append(ns, d)
           n == Len(ns)
<1>1. PICK g : g = CHOOSE k : Folds(ns, k)
  OBVIOUS
<1>2. PICK h : h = CHOOSE k : Folds(ms, k)
  OBVIOUS
<1>3. /\ n \in Nat /\ ms \in Seq(0..9) /\ DOMAIN ns = 1..n /\ DOMAIN ms = 1..(n + 1)
      /\ ms[n + 1] = d /\ \A i \in 1..n : ms[i] = ns[i] /\ ns[i] \in 0..9
  OBVIOUS
<1>4. Folds(ns, g) /\ Folds(ms, h)
  BY Zenon, <1>1, <1>2, <1>3, FoldsExist
<1> HIDE DEF ms, n
<1> DEFINE P == {m \in Nat : m <= n => g[1..m] \in 0..96 /\ h[1..m] = g[1..m]}
<1>5. /\ \A s \in SUBSET (1..n) :
           g[s] = IF s = {} THEN 0 ELSE (g[s \ {Max(s)}] * 10 + ns[Max(s)]) % 97
      /\ \A s \in SUBSET (1..(n + 1)) :
           h[s] = IF s = {} THEN 0 ELSE (h[s \ {Max(s)}] * 10 + ms[Max(s)]) % 97
  BY Zenon, <1>3, <1>4 DEF Folds
<1>6. 0 \in P
  <2>1. 1..0 = {} /\ {} \in SUBSET (1..n) /\ {} \in SUBSET (1..(n + 1))
    OBVIOUS
  <2>2. g[{}] = 0 /\ h[{}] = 0
    BY Zenon, <1>5, <2>1
  <2> QED BY <2>1, <2>2
<1>7. \A m \in Nat : /\ 1..(m + 1) # {} /\ Max(1..(m + 1)) = m + 1
                     /\ (1..(m + 1)) \ {m + 1} = 1..m
  <2> SUFFICES ASSUME NEW m \in Nat
               PROVE  /\ 1..(m + 1) # {} /\ Max(1..(m + 1)) = m + 1
                      /\ (1..(m + 1)) \ {m + 1} = 1..m
    BY Zenon
  <2>1. m + 1 \in 1..(m + 1) /\ 1..(m + 1) \in SUBSET (1..(m + 1)) /\ m + 1 \in Nat
    OBVIOUS
  <2>2. Max(1..(m + 1)) = m + 1
    BY <2>1, MaxOfPlaces
  <2>3. (1..(m + 1)) \ {m + 1} = 1..m
    OBVIOUS
  <2> QED BY Zenon, <2>1, <2>2, <2>3
<1>8. ASSUME NEW m \in Nat, m \in P PROVE m + 1 \in P
  <2> SUFFICES ASSUME m + 1 <= n PROVE g[1..(m + 1)] \in 0..96 /\ h[1..(m + 1)] = g[1..(m + 1)]
    OBVIOUS
  <2>1. g[1..m] \in 0..96 /\ h[1..m] = g[1..m]
    BY <1>3, <1>8
  <2>2. 1..(m + 1) \in SUBSET (1..n) /\ 1..(m + 1) \in SUBSET (1..(n + 1)) /\ m + 1 \in 1..n
    BY <1>3
  <2>3. PICK s : s = 1..(m + 1) /\ s # {} /\ Max(s) = m + 1 /\ s \ {m + 1} = 1..m
    BY Zenon, <1>7
  <2>4. g[s] = (g[1..m] * 10 + ns[m + 1]) % 97
    <3>1. s \in SUBSET (1..n)
      BY Zenon, <2>2, <2>3
    <3>2. g[s] = IF s = {} THEN 0 ELSE (g[s \ {Max(s)}] * 10 + ns[Max(s)]) % 97
      BY Zenon, <1>5, <3>1
    <3> QED BY Zenon, <2>3, <3>2
  <2>5. h[s] = (h[1..m] * 10 + ms[m + 1]) % 97
    <3>1. s \in SUBSET (1..(n + 1))
      BY Zenon, <2>2, <2>3
    <3>2. h[s] = IF s = {} THEN 0 ELSE (h[s \ {Max(s)}] * 10 + ms[Max(s)]) % 97
      BY Zenon, <1>5, <3>1
    <3> QED BY Zenon, <2>3, <3>2
  <2>6. ms[m + 1] = ns[m + 1] /\ ns[m + 1] \in 0..9
    BY <1>3, <2>2
  <2>7. \A r \in 0..96, e \in 0..9 : (r * 10 + e) % 97 \in 0..96
    OBVIOUS
  <2>8. g[s] \in 0..96 /\ h[s] = g[s]
    BY Zenon, <2>1, <2>4, <2>5, <2>6, <2>7
  <2> QED BY <2>3, <2>8
<1> HIDE DEF P
<1>9. Nat \subseteq P
  BY <1>6, <1>8, NaturalInduction
<1>10. g[1..n] \in 0..96 /\ h[1..n] = g[1..n]
  <2>1. n \in P /\ n <= n
    BY <1>3, <1>9
  <2> QED BY Zenon, <2>1 DEF P
<1>11. h[1..(n + 1)] = (h[1..n] * 10 + ms[n + 1]) % 97
  <2>1. PICK s : s = 1..(n + 1) /\ s # {} /\ Max(s) = n + 1 /\ s \ {n + 1} = 1..n
    BY Zenon, <1>3, <1>7
  <2>2. s \in SUBSET (1..(n + 1))
    BY <2>1
  <2>3. h[s] = (h[1..n] * 10 + ms[n + 1]) % 97
    <3>1. h[s] = IF s = {} THEN 0 ELSE (h[s \ {Max(s)}] * 10 + ms[Max(s)]) % 97
      BY Zenon, <1>5, <2>2
    <3> QED BY Zenon, <2>1, <3>1
  <2> QED BY <2>1, <2>3
<1>12. Mod97(ns) = g[1..n] /\ Mod97(ms) = h[1..(n + 1)]
  BY <1>1, <1>2, <1>3, Mod97Unfolded
<1> QED BY <1>3, <1>10, <1>11, <1>12 DEF ms

LEMMA Mod97Typed == \A ns \in Seq(0..9) : Mod97(ns) \in 0..96
<1>1. 0 \in 0..9
  OBVIOUS
<1> QED BY <1>1, Mod97Longer

\* Two digits more.
LEMMA Mod97OfTwoMore ==
  ASSUME NEW ns \in Seq(0..9), NEW d \in 0..9, NEW e \in 0..9
  PROVE  Mod97(ns \o <<d, e>>) = (Mod97(ns) * 100 + 10 * d + e) % 97
<1>1. ns \o <<d, e>> = Append(Append(ns, d), e) /\ Append(ns, d) \in Seq(0..9)
  OBVIOUS
<1>2. Mod97(ns \o <<d, e>>) = (((Mod97(ns) * 10 + d) % 97) * 10 + e) % 97
  BY Zenon, <1>1, Mod97Longer
<1>3. Mod97(ns) \in 0..96
  BY Mod97Longer
<1>4. \A r \in 0..96 : (((r * 10 + d) % 97) * 10 + e) % 97 = (r * 100 + 10 * d + e) % 97
  OBVIOUS
<1> QED BY Zenon, <1>2, <1>3, <1>4

LEMMA InTwoDigits ==
  \A k \in 2..98 : k \div 10 \in 0..9 /\ k % 10 \in 0..9 /\ 10 * (k \div 10) + (k % 10) = k
OBVIOUS

\* Whatever the 21 digits of an account number, its IBAN has the check digits asked for.
LEMMA CheckDigitsAreRight ==
  ASSUME NEW a \in [1..21 -> 0..9]
  PROVE  checkDigits(a) \o a \in [1..23 -> 0..9] /\ Verified(checkDigits(a) \o a)
<1>0. PICK b : b = a \o AO
  BY Zenon
<1> DEFINE m == Mod97(b)
           c == 98 - Mod97(a \o AO \o <<0, 0>>)
           x == c \div 10
           z == c % 10
<1>1. a \in [1..21 -> 0..9] /\ a \in Seq(0..9) /\ Len(a) = 21
  <2>1. a \in Seq(0..9) /\ DOMAIN a = 1..21
    BY Zenon, SeqDef
  <2>2. Len(a) = 21
    BY <2>1
  <2> QED BY <2>1, <2>2
<1>2. b \in Seq(0..9)
  BY <1>0, <1>1 DEF AO
<1>3. m \in 0..96 /\ Mod97(a \o AO \o <<0, 0>>) = (m * 100) % 97
  <2>1. m \in 0..96
    BY <1>2, Mod97Typed
  <2>2. 0 \in 0..9 => Mod97(b \o <<0, 0>>) = (Mod97(b) * 100 + 10 * 0 + 0) % 97
    BY Zenon, <1>2, Mod97OfTwoMore
  <2> HIDE DEF m
  <2>3. 0 \in 0..9 /\ m * 100 + 10 * 0 + 0 = m * 100
    BY <2>1
  <2>4. Mod97(b \o <<0, 0>>) = (m * 100) % 97
    BY Zenon, <2>2, <2>3 DEF m
  <2> QED BY <1>0, <2>1, <2>4
<1>4. x \in 0..9 /\ z \in 0..9 /\ 10 * x + z = 98 - ((m * 100) % 97)
  <2>1. (m * 100) % 97 \in 0..96
    BY <1>3
  <2>2. c = 98 - ((m * 100) % 97) /\ c \in 2..98
    BY <1>3, <2>1
  <2> HIDE DEF c
  <2>3. c \div 10 \in 0..9 /\ c % 10 \in 0..9 /\ 10 * (c \div 10) + (c % 10) = c
    BY Zenon, <2>2, InTwoDigits
  <2> QED BY Zenon, <2>2, <2>3
<1>5. checkDigits(a) \o a = <<x, z>> \o a
  BY DEF checkDigits
<1> HIDE DEF c, x, z
<1>6. /\ <<x, z>> \o a \in [1..23 -> 0..9]
      /\ SubSeq(<<x, z>> \o a, 3, 23) = a
      /\ SubSeq(<<x, z>> \o a, 1, 2) = <<x, z>>
  <2> DEFINE s == <<x, z>> \o a
  <2>0. <<x, z>> \in Seq(0..9) /\ Len(<<x, z>>) = 2 /\ <<x, z>>[1] = x /\ <<x, z>>[2] = z
    BY <1>4
  <2>1. /\ s \in Seq(0..9) /\ Len(s) = 23 /\ s[1] = x /\ s[2] = z
        /\ \A i \in 3..23 : s[i] = a[i - 2]
    <3>1. /\ s \in Seq(0..9) /\ Len(s) = 2 + 21
          /\ \A i \in 1..(2 + 21) : s[i] = IF i <= 2 THEN <<x, z>>[i] ELSE a[i - 2]
      <4>1. PICK p : p = <<x, z>>
        BY Zenon
      <4>2. p \in Seq(0..9) /\ Len(p) = 2
        BY <2>0, <4>1
      <4> HIDE DEF s
      <4>3. PICK q : q = p \o a
        BY Zenon
      <4>4. /\ q \in Seq(0..9) /\ Len(q) = 2 + 21
            /\ \A i \in 1..(2 + 21) : q[i] = IF i <= 2 THEN p[i] ELSE a[i - 2]
        <5>1. /\ q \in Seq(0..9) /\ Len(q) = Len(p) + Len(a)
              /\ \A i \in 1..(Len(p) + Len(a)) :
                   q[i] = IF i <= Len(p) THEN p[i] ELSE a[i - Len(p)]
          BY Zenon, <1>1, <4>2, <4>3, ConcatProperties
        <5> QED BY <1>1, <4>2, <5>1
      <4>5. s = q
        BY <4>1, <4>3 DEF s
      <4> QED BY <4>1, <4>4, <4>5
    <3> HIDE DEF s
    <3> QED BY <2>0, <3>1
  <2> HIDE DEF s
  <2>2. s \in [1..23 -> 0..9]
    BY Zenon, <2>1, LenProperties
  <2>3. SubSeq(s, 3, 23) = a
    <3>0. \A i \in 3..23 : s[i] \in 0..9
      BY <2>2
    <3>1. /\ SubSeq(s, 3, 23) \in Seq(0..9) /\ Len(SubSeq(s, 3, 23)) = 21
          /\ \A i \in 1..21 : SubSeq(s, 3, 23)[i] = s[i + 2]
      <4>1. PICK u : u = SubSeq(s, 3, 23)
        BY Zenon
      <4>2. /\ u \in Seq(0..9) /\ Len(u) = 23 - 3 + 1
            /\ \A i \in 1..(23 - 3 + 1) : u[i] = s[3 + i - 1]
        BY <3>0, <4>1, SubSeqProperties
      <4>3. \A i \in 1..21 : 3 + i - 1 = i + 2
        OBVIOUS
      <4> QED BY <4>1, <4>2, <4>3
    <3>2. \A i \in 1..21 : s[i + 2] = a[i]
      <4> SUFFICES ASSUME NEW i \in 1..21 PROVE s[i + 2] = a[i]
        OBVIOUS
      <4>1. PICK j \in 3..23 : j = i + 2 /\ j - 2 = i
        OBVIOUS
      <4>2. s[j] = a[j - 2]
        BY Zenon, <2>1
      <4> QED BY <4>1, <4>2
    <3>3. Len(SubSeq(s, 3, 23)) = Len(a)
          /\ \A i \in 1..Len(SubSeq(s, 3, 23)) : SubSeq(s, 3, 23)[i] = a[i]
      BY Zenon, <1>1, <3>1, <3>2
    <3> QED BY Zenon, <1>1, <3>1, <3>3, SeqEqual
  <2>4. SubSeq(s, 1, 2) = <<x, z>>
    <3>1. s[1] \in 0..9 /\ s[2] \in 0..9 /\ \A i \in 1..2 : s[i] \in 0..9
      BY <2>2
    <3>2. PICK u : u = SubSeq(s, 1, 2)
      BY Zenon
    <3>3. /\ u \in Seq(0..9) /\ Len(u) = 2 - 1 + 1
          /\ \A i \in 1..(2 - 1 + 1) : u[i] = s[1 + i - 1]
      BY <3>1, <3>2, SubSeqProperties
    <3>4. Len(u) = 2 /\ u[1] = x /\ u[2] = z
      BY <2>1, <3>3
    <3>5. \A i \in 1..Len(u) : u[i] = <<x, z>>[i]
      BY <2>0, <3>4
    <3> QED BY Zenon, <2>0, <3>2, <3>3, <3>4, <3>5, SeqEqual
  <2> QED BY Zenon, <2>2, <2>3, <2>4 DEF s
<1>7. Mod97(b \o <<x, z>>) = (m * 100 + 10 * x + z) % 97
  <2>1. \A d \in 0..9, e \in 0..9 : Mod97(b \o <<d, e>>) = (m * 100 + 10 * d + e) % 97
    BY Zenon, <1>2, Mod97OfTwoMore DEF m
  <2>2. x \in 0..9 /\ z \in 0..9
    BY <1>4
  <2> HIDE DEF m
  <2> QED BY Zenon, <2>1, <2>2
<1> HIDE DEF m
<1>8. (m * 100 + 10 * x + z) % 97 = 1
  <2>1. PICK r \in 0..96, q \in Int : r = (m * 100) % 97 /\ m * 100 = 97 * q + r
    <3> DEFINE p == m * 100
               w == p \div 97
    <3>1. p \in Nat /\ w \in Int /\ p % 97 \in 0..96 /\ p = 97 * w + (p % 97)
      BY <1>3
    <3> HIDE DEF w
    <3> QED BY <3>1
  <2>2. m * 100 + 10 * x + z = 97 * (q + 1) + 1
    BY <1>3, <1>4, <2>1
  <2> QED BY <2>1, <2>2
<1>9. Verified(checkDigits(a) \o a)
  BY Zenon, <1>0, <1>5, <1>6, <1>7, <1>8 DEF Verified
<1> QED BY Zenon, <1>5, <1>6, <1>9

LEMMA DigitsOfLength ==
  ASSUME NEW d \in Seq(0..9), NEW n \in Nat, Len(d) = n
  PROVE  d \in [1..n -> 0..9]
OBVIOUS

LEMMA BbansAreValid ==
  ASSUME NEW a \in Accounts, IsBban(a)
  PROVE  isValidAngolaIban(a)
<1>0. 21 \in Nat /\ a.digits \in Seq(0..9) /\ Len(a.digits) = 21
  BY QrOK DEF IsBban
<1>1. PICK d : d = a.digits /\ d \in [1..21 -> 0..9]
  BY <1>0, DigitsOfLength
<1>2. PICK e : e = checkDigits(d) \o d
  OBVIOUS
<1>3. e \in [1..23 -> 0..9] /\ Verified(e)
  BY <1>1, <1>2, CheckDigitsAreRight
<1>4. Len(e) = 23
  <2>1. e \in Seq(0..9) /\ DOMAIN e = 1..23
    BY Zenon, <1>3, SeqDef
  <2> QED BY <2>1
<1>5. toAngolaIban(a).ao = TRUE /\ toAngolaIban(a).digits = e
  BY <1>1, <1>2 DEF toAngolaIban
<1> QED BY <1>3, <1>4, <1>5 DEF isValidAngolaIban, IsIban

LEMMA IbansAreValid ==
  ASSUME NEW a \in Accounts, IsIban(a), Verified(a.digits)
  PROVE  isValidAngolaIban(a)
<1>1. ~IsBban(a)
  BY DEF IsIban, IsBban
<1>2. toAngolaIban(a) = a
  BY <1>1 DEF toAngolaIban
<1> QED BY Zenon, <1>2 DEF isValidAngolaIban

LEMMA ValidIbanTyped ==
  ASSUME NEW a \in Accounts, isValidAngolaIban(a)
  PROVE  toAngolaIban(a).digits \in [1..23 -> 0..9]
<1>1. a.digits \in Seq(0..9) /\ 21 \in Nat /\ 23 \in Nat
  BY QrOK
<1>2. Len(toAngolaIban(a).digits) = 23
  BY DEF isValidAngolaIban, IsIban
<1>3. CASE IsBban(a)
  <2>1. Len(a.digits) = 21 /\ toAngolaIban(a).digits = checkDigits(a.digits) \o a.digits
    BY <1>3 DEF IsBban, toAngolaIban
  <2>2. a.digits \in [1..21 -> 0..9]
    BY Zenon, <1>1, <2>1, DigitsOfLength
  <2> QED BY Zenon, <2>1, <2>2, CheckDigitsAreRight
<1>4. CASE ~IsBban(a)
  <2>1. toAngolaIban(a) = a
    BY <1>4 DEF toAngolaIban
  <2> QED BY Zenon, <1>1, <1>2, <2>1, DigitsOfLength
<1> QED BY <1>3, <1>4

-----------------------------------------------------------------------------
\* The elements of the payload.

\* The two digits of a tag, and the two of a length.
HeaderOf(tag, n) == <<Zero + (tag \div 10), Zero + (tag % 10), Zero + (n \div 10), Zero + (n % 10)>>

LEMMA LengthOfBoth ==
  ASSUME NEW t \in Texts, NEW u \in Texts
  PROVE  t \o u \in Texts /\ lengthOf(t) \in Nat /\ lengthOf(t \o u) = lengthOf(t) + lengthOf(u)
<1>1. Encode(t \o u) = Encode(t) \o Encode(u)
  BY EncodeOfBoth
<1>2. Encode(t) \in Seq(Nat) /\ Encode(u) \in Seq(Nat)
  BY EncodeTyped
<1>3. t \o u \in Texts
  BY DEF Texts
<1> QED BY <1>1, <1>2, <1>3 DEF lengthOf

LEMMA AsciiConcat ==
  \A s \in Seq(Ascii), t \in Seq(Ascii) :
    s \o t \in Seq(Ascii) /\ Len(s \o t) = Len(s) + Len(t)
BY ConcatProperties

LEMMA HeaderIsText ==
  ASSUME NEW tag \in 0..99, NEW n \in 0..99
  PROVE  /\ HeaderOf(tag, n) \in Seq(Ascii) /\ Len(HeaderOf(tag, n)) = 4
         /\ Decimal(tag, 2) \o Decimal(n, 2) = HeaderOf(tag, n)
<1>1. PICK g \in Ascii, h \in Ascii, k \in Ascii, l \in Ascii :
           /\ g = Zero + (tag \div 10) /\ h = Zero + (tag % 10)
           /\ k = Zero + (n \div 10) /\ l = Zero + (n % 10)
  <2>1. \A m \in 0..99 : Zero + (m \div 10) \in Ascii /\ Zero + (m % 10) \in Ascii
    BY DEF Zero, Ascii
  <2> QED BY <2>1
<1>2. Decimal(tag, 2) = <<g, h>> /\ Decimal(n, 2) = <<k, l>> /\ HeaderOf(tag, n) = <<g, h, k, l>>
  BY Zenon, <1>1, DecimalOfTwo DEF HeaderOf
<1>3. ASSUME NEW a \in Ascii, NEW b \in Ascii, NEW c \in Ascii, NEW d \in Ascii
      PROVE  /\ <<a, b, c, d>> \in Seq(Ascii) /\ Len(<<a, b, c, d>>) = 4
             /\ <<a, b>> \o <<c, d>> = <<a, b, c, d>>
  <2>1. PICK p, q, s : p = <<a, b>> /\ q = <<c, d>> /\ s = <<a, b, c, d>>
    BY Zenon
  <2>2. /\ p \in Seq(Ascii) /\ Len(p) = 2 /\ p[1] = a /\ p[2] = b
        /\ q \in Seq(Ascii) /\ Len(q) = 2 /\ q[1] = c /\ q[2] = d
        /\ s \in Seq(Ascii) /\ Len(s) = 4 /\ s[1] = a /\ s[2] = b /\ s[3] = c /\ s[4] = d
    BY <2>1
  <2>3. p \o q \in Seq(Ascii) /\ Len(p \o q) = 4 /\ \A i \in 1..4 : (p \o q)[i] = s[i]
    <3>1. /\ p \o q \in Seq(Ascii) /\ Len(p \o q) = Len(p) + Len(q)
          /\ \A i \in 1..(Len(p) + Len(q)) :
               (p \o q)[i] = IF i <= Len(p) THEN p[i] ELSE q[i - Len(p)]
      BY Zenon, <2>2, ConcatProperties
    <3>2. \A i \in 1..4 : (p \o q)[i] = s[i]
      BY <2>2, <3>1
    <3> QED BY <2>2, <3>1, <3>2
  <2>4. p \o q = s
    BY <2>2, <2>3, SeqEqual
  <2> QED BY <2>1, <2>2, <2>4
<1>4. <<g, h, k, l>> \in Seq(Ascii) /\ Len(<<g, h, k, l>>) = 4
      /\ <<g, h>> \o <<k, l>> = <<g, h, k, l>>
  BY <1>3
<1> QED BY Zenon, <1>2, <1>4

LEMMA TlvEncoded ==
  ASSUME NEW tag \in 0..99, NEW v \in Texts, Fits(v)
  PROVE  /\ tlv(tag, v) \in Texts
         /\ Encode(tlv(tag, v)) = HeaderOf(tag, lengthOf(v)) \o Encode(v)
         /\ lengthOf(tlv(tag, v)) = 4 + lengthOf(v)
<1>1. lengthOf(v) \in 0..99
  <2>1. lengthOf(v) \in Nat
    BY LengthOfBoth
  <2> QED BY <2>1 DEF Fits
<1>2. PICK h : h = HeaderOf(tag, lengthOf(v))
  OBVIOUS
<1>3. h \in Seq(Ascii) /\ Len(h) = 4 /\ tlv(tag, v) = h \o v
  BY Zenon, <1>1, <1>2, HeaderIsText DEF tlv
<1>4. h \in Texts /\ Encode(h) = h
  BY <1>3, EncodeAscii
<1>5. lengthOf(h) = 4
  BY <1>3, <1>4 DEF lengthOf
<1> QED BY Zenon, <1>2, <1>3, <1>4, <1>5, EncodeOfBoth, LengthOfBoth

\* A text of ASCII characters has as many bytes as characters.
LEMMA AsciiLength ==
  ASSUME NEW t \in Seq(Ascii)
  PROVE  t \in Texts /\ lengthOf(t) = Len(t)
BY EncodeAscii DEF lengthOf

LEMMA IbanTextTyped ==
  ASSUME NEW a \in Accounts, isValidAngolaIban(a)
  PROVE  IbanText(a) \in Texts /\ lengthOf(IbanText(a)) = 25
<1>1. PICK ns \in [1..23 -> 0..9] : ns = toAngolaIban(a).digits
  BY ValidIbanTyped
<1>2. PICK d : d = Digits(ns)
  OBVIOUS
<1>3. d \in [1..23 -> Ascii]
  BY <1>2 DEF Digits, Zero, Ascii
<1>4. d \in Seq(Ascii) /\ DOMAIN d = 1..23
  BY Zenon, <1>3, SeqDef
<1>5. Len(d) = 23
  BY <1>4
<1>6. PICK b : b = <<65, 79>>
  BY Zenon
<1>7. b \in Seq(Ascii) /\ Len(b) = 2
  BY <1>6 DEF Ascii
<1>8. b \o d \in Seq(Ascii) /\ Len(b \o d) = 25
  <2>1. b \o d \in Seq(Ascii) /\ Len(b \o d) = Len(b) + Len(d)
    BY Zenon, <1>4, <1>7, AsciiConcat
  <2> QED BY <1>5, <1>7, <2>1
<1>9. IbanText(a) = b \o d
  BY <1>1, <1>2, <1>6 DEF IbanText
<1> QED BY Zenon, <1>8, <1>9, AsciiLength

LEMMA AmountTyped ==
  ASSUME NEW cents \in Amounts
  PROVE  formatQrAmount(cents) \in Texts /\ lengthOf(formatQrAmount(cents)) \in 0..99
<1>1. cents \in Nat /\ cents \div 2 < 2 ^ 30
  BY QrOK
<1>2. cents \div 100 \in Nat /\ cents \div 100 < 10 ^ 8 /\ cents % 100 \in 0..99
  BY SMT, <1>1
<1>3. PICK w : w = Decimal(cents \div 100, 1)
  OBVIOUS
<1>4. PICK f : f = Decimal(cents % 100, 2)
  OBVIOUS
<1>5. DigitCodes \subseteq Ascii
  BY DEF DigitCodes, Zero, Ascii
<1>6. w \in Seq(Ascii) /\ Len(w) \in 1..8
  <2>1. w \in Seq(DigitCodes) /\ Len(w) \in 1..8
    BY <1>2, <1>3, DecimalShort
  <2> QED BY <1>5, <2>1, SeqMonotonic
<1>7. f \in Seq(Ascii) /\ Len(f) = 2
  <2>1. f = <<Zero + ((cents % 100) \div 10), Zero + ((cents % 100) % 10)>>
    BY <1>2, <1>4, DecimalOfTwo
  <2>2. Zero + ((cents % 100) \div 10) \in Ascii /\ Zero + ((cents % 100) % 10) \in Ascii
    BY <1>2 DEF Zero, Ascii
  <2>3. \A a \in Ascii, b \in Ascii : <<a, b>> \in Seq(Ascii) /\ Len(<<a, b>>) = 2
    OBVIOUS
  <2> QED BY <2>1, <2>2, <2>3
<1>8. <<46>> \in Seq(Ascii) /\ Len(<<46>>) = 1
  BY DEF Ascii
<1>9. PICK p : p = <<46>>
  BY Zenon
<1>10. (w \o p) \o f \in Seq(Ascii) /\ Len((w \o p) \o f) \in 0..99
  <2>1. PICK u : u = w \o p
    BY Zenon
  <2>2. u \in Seq(Ascii) /\ Len(u) = Len(w) + 1
    BY <1>6, <1>8, <1>9, <2>1
  <2>3. u \o f \in Seq(Ascii) /\ Len(u \o f) = Len(u) + Len(f)
    BY Zenon, <1>7, <2>2, AsciiConcat
  <2>4. Len(u \o f) \in 0..99
    <3>1. PICK k \in 1..8 : Len(w) = k
      BY <1>6
    <3>2. Len(u) = k + 1
      BY <2>2, <3>1
    <3> QED BY <1>7, <2>3, <3>2
  <2> QED BY <2>1, <2>3, <2>4
<1>11. formatQrAmount(cents) = (w \o p) \o f
  BY <1>3, <1>4, <1>9 DEF formatQrAmount
<1> QED BY Zenon, <1>10, <1>11, AsciiLength

LEMMA CutTyped ==
  ASSUME NEW t \in Texts, NEW units \in 0..25
  PROVE  Cut(t, units) \in Texts /\ lengthOf(Cut(t, units)) <= 99
<1>1. PICK n : n = IF Len(t) < units THEN Len(t) ELSE units
  OBVIOUS
<1>2. n \in 0..25 /\ n <= Len(t) /\ Len(t) \in Nat
  <2>1. PICK k \in Nat : k = Len(t)
    BY DEF Texts
  <2>2. n = IF k < units THEN k ELSE units
    BY <1>1, <2>1
  <2>3. n \in 0..25 /\ n <= k
    BY <2>2
  <2> QED BY <2>1, <2>3
<1>3. SubSeq(t, 1, n) \in Texts /\ Len(SubSeq(t, 1, n)) = n
  BY <1>2 DEF Texts
<1>4. Cut(t, units) = SubSeq(t, 1, n)
  BY <1>1 DEF Cut
<1>5. Len(Encode(Cut(t, units))) \in 0..(2 * n)
  BY Zenon, <1>3, <1>4, EncodeShort
<1> QED BY <1>2, <1>3, <1>4, <1>5 DEF lengthOf

\* Trimming leaves a text, and something of one that is not blank.
LEMMA TrimTyped ==
  ASSUME NEW t \in Texts
  PROVE  /\ Trim(t) \in Texts
         /\ (\E i \in DOMAIN t : t[i] \notin Blanks) => Trim(t) # << >>
<1>1. PICK n \in Nat : n = Len(t) /\ DOMAIN t = 1..n
  BY DEF Texts
<1>2. PICK L, T : /\ L = {i \in DOMAIN t : \A j \in 1..i : t[j] \in Blanks}
                  /\ T = {i \in DOMAIN t : \A j \in i..Len(t) : t[j] \in Blanks}
  OBVIOUS
<1>3. IsFiniteSet(L) /\ IsFiniteSet(T)
  <2>1. L \subseteq 1..n /\ T \subseteq 1..n
    BY <1>1, <1>2
  <2>2. IsFiniteSet(1..n)
    BY FS_Interval
  <2> QED BY <2>1, <2>2, FS_Subset
<1>4. PICK a \in Nat, b \in Nat : a = Cardinality(L) /\ b = Cardinality(T)
  BY <1>3, FS_CardinalityType
<1>5. Trim(t) = SubSeq(t, a + 1, n - b)
  BY Zenon, <1>1, <1>2, <1>4 DEF Trim, LeadingBlanks, TrailingBlanks
<1>6. PICK s : s = SubSeq(t, a + 1, n - b)
  OBVIOUS
<1>7. t \in Seq(Characters)
  BY DEF Texts
<1>8. s \in Seq(Characters) /\ Len(s) = IF a + 1 <= n - b THEN n - b - a ELSE 0
  <2>1. \A i \in (a + 1)..(n - b) : i \in 1..Len(t)
    BY <1>1
  <2>2. a + 1 \in Nat /\ n - b \in Int
    OBVIOUS
  <2>3. CASE a + 1 <= n - b
    <3>1. s \in Seq(Characters) /\ Len(s) = n - b - (a + 1) + 1
      BY <1>1, <1>6, <1>7, <2>3
    <3> QED BY <2>3, <3>1
  <2>4. CASE ~(a + 1 <= n - b)
    <3>1. s = << >>
      BY <1>6, <2>4
    <3> QED BY <2>4, <3>1
  <2> QED BY <2>3, <2>4
<1>9. ASSUME NEW i \in 1..n, t[i] \notin Blanks PROVE s # << >>
  <2>1. L \subseteq 1..(i - 1) /\ T \subseteq (i + 1)..n
    BY <1>1, <1>2, <1>9
  <2>2. /\ IsFiniteSet(1..(i - 1)) /\ Cardinality(1..(i - 1)) = i - 1
        /\ IsFiniteSet((i + 1)..n) /\ Cardinality((i + 1)..n) = n - i
    <3>1. \A k, m \in Int : /\ IsFiniteSet(k..m)
                            /\ Cardinality(k..m) = IF k > m THEN 0 ELSE m - k + 1
      BY FS_Interval
    <3>2. 1 \in Int /\ i - 1 \in Int /\ i + 1 \in Int /\ n \in Int
      OBVIOUS
    <3>3. /\ (IF 1 > i - 1 THEN 0 ELSE i - 1 - 1 + 1) = i - 1
          /\ (IF i + 1 > n THEN 0 ELSE n - (i + 1) + 1) = n - i
      OBVIOUS
    <3> QED BY <3>1, <3>2, <3>3
  <2>3. a <= i - 1 /\ b <= n - i
    <3>1. Cardinality(L) <= Cardinality(1..(i - 1)) /\ Cardinality(T) <= Cardinality((i + 1)..n)
      BY <2>1, <2>2, FS_Subset
    <3> QED BY <1>4, <2>2, <3>1
  <2>4. Len(s) > 0
    BY <1>8, <2>3
  <2> QED BY <2>4
<1> QED BY <1>1, <1>5, <1>6, <1>8, <1>9 DEF Texts

-----------------------------------------------------------------------------
\* The fields of a transfer.

Transfers == [account: Accounts, name: Names, city: Cities, reference: References,
              gui: Guis, amount: Amounts]

LEMMA TransferTyped ==
  ASSUME input \in Transfers
  PROVE  /\ input.account \in Accounts /\ input.amount \in Amounts
         /\ input.name \in Texts /\ input.city \in Texts
         /\ input.reference \in Texts /\ input.gui \in Texts
<1>1. /\ input.account \in Accounts /\ input.name \in Names /\ input.city \in Cities
      /\ input.reference \in References /\ input.gui \in Guis /\ input.amount \in Amounts
  BY DEF Transfers
<1>2. Names \subseteq Texts /\ Cities \subseteq Texts /\ References \subseteq Texts /\ Guis \subseteq Texts
  BY QrOK DEF Texts, Characters
<1> QED BY <1>1, <1>2

LEMMA CompositesTyped ==
  ASSUME input \in Transfers, isValidAngolaIban(input.account), Fits(input.gui), Fits(input.reference)
  PROVE  /\ domestic \in Texts /\ additional \in Texts
         /\ lengthOf(input.gui) \in Nat /\ lengthOf(input.reference) \in Nat
         /\ lengthOf(domestic) = (4 + lengthOf(input.gui)) + 29 + (4 + lengthOf(input.reference))
         /\ lengthOf(additional) = (4 + lengthOf(input.reference)) + (4 + lengthOf(input.reference))
<1>0. 0 \in 0..99 /\ 1 \in 0..99 /\ 2 \in 0..99 /\ 5 \in 0..99
  OBVIOUS
<1>1. PICK g : g = tlv(0, input.gui)
  OBVIOUS
<1>2. PICK a : a = tlv(1, IbanText(input.account))
  OBVIOUS
<1>3. PICK r : r = tlv(2, input.reference)
  OBVIOUS
<1>4. PICK s : s = tlv(1, input.reference)
  OBVIOUS
<1>5. PICK t : t = tlv(5, input.reference)
  OBVIOUS
<1>6. /\ input.gui \in Texts /\ input.reference \in Texts
      /\ IbanText(input.account) \in Texts /\ lengthOf(IbanText(input.account)) = 25
  BY TransferTyped, IbanTextTyped
<1>7. Fits(IbanText(input.account))
  BY <1>6 DEF Fits
<1>8. g \in Texts /\ lengthOf(g) = 4 + lengthOf(input.gui)
  BY Zenon, <1>0, <1>1, <1>6, TlvEncoded
<1>9. a \in Texts /\ lengthOf(a) = 4 + 25
  BY Zenon, <1>0, <1>2, <1>6, <1>7, TlvEncoded
<1>10. r \in Texts /\ lengthOf(r) = 4 + lengthOf(input.reference)
  BY Zenon, <1>0, <1>3, <1>6, TlvEncoded
<1>11. s \in Texts /\ lengthOf(s) = 4 + lengthOf(input.reference)
  BY Zenon, <1>0, <1>4, <1>6, TlvEncoded
<1>12. t \in Texts /\ lengthOf(t) = 4 + lengthOf(input.reference)
  BY Zenon, <1>0, <1>5, <1>6, TlvEncoded
<1>13. PICK u : u = g \o a
  BY Zenon
<1>14. u \in Texts /\ lengthOf(u) = lengthOf(g) + lengthOf(a)
  BY <1>8, <1>9, <1>13, LengthOfBoth
<1>15. u \o r \in Texts /\ lengthOf(u \o r) = lengthOf(u) + lengthOf(r)
  BY <1>10, <1>14, LengthOfBoth
<1>16. s \o t \in Texts /\ lengthOf(s \o t) = lengthOf(s) + lengthOf(t)
  BY <1>11, <1>12, LengthOfBoth
<1>17. domestic = u \o r /\ additional = s \o t
  BY <1>1, <1>2, <1>3, <1>4, <1>5, <1>13 DEF domestic, additional
<1>18. PICK m \in Nat, n \in Nat : m = lengthOf(input.gui) /\ n = lengthOf(input.reference)
  BY <1>6, LengthOfBoth
<1>19. lengthOf(u \o r) = (4 + m) + 29 + (4 + n)
  BY <1>8, <1>9, <1>10, <1>14, <1>15, <1>18
<1>20. lengthOf(s \o t) = (4 + n) + (4 + n)
  BY <1>11, <1>12, <1>16, <1>18
<1> QED BY <1>15, <1>16, <1>17, <1>18, <1>19, <1>20

LEMMA FieldsAre ==
  /\ Len(Fields) = 10 /\ DOMAIN Fields = 1..10
  /\ Fields[1] = <<0, <<48, 49>> >> /\ Fields[2] = <<1, <<49, 50>> >>
  /\ Fields[3] = <<26, domestic>> /\ Fields[4] = <<52, <<48, 48, 48, 48>> >>
  /\ Fields[5] = <<53, <<57, 55, 51>> >> /\ Fields[6] = <<54, formatQrAmount(input.amount)>>
  /\ Fields[7] = <<58, <<65, 79>> >> /\ Fields[8] = <<59, Cut(Trim(input.name), 25)>>
  /\ Fields[9] = <<60, Cut(Trim(input.city), 15)>> /\ Fields[10] = <<62, additional>>
BY DEF Fields

\* A field that can be told its length.
Sound(field) == field[1] \in 0..99 /\ field[2] \in Texts

LEMMA FieldsSound ==
  ASSUME input \in Transfers, isValidAngolaIban(input.account), Fits(input.gui), Fits(input.reference)
  PROVE  /\ \A i \in 1..10 : Sound(Fields[i])
         /\ \A i \in 1..10 : i \in {3, 10} \/ Fits(Fields[i][2])
<1>1. /\ <<48, 49>> \in Seq(Ascii) /\ Len(<<48, 49>>) = 2
      /\ <<49, 50>> \in Seq(Ascii) /\ Len(<<49, 50>>) = 2
      /\ <<48, 48, 48, 48>> \in Seq(Ascii) /\ Len(<<48, 48, 48, 48>>) = 4
      /\ <<57, 55, 51>> \in Seq(Ascii) /\ Len(<<57, 55, 51>>) = 3
      /\ <<65, 79>> \in Seq(Ascii) /\ Len(<<65, 79>>) = 2
  BY DEF Ascii
<1>2. /\ <<48, 49>> \in Texts /\ Fits(<<48, 49>>)
      /\ <<49, 50>> \in Texts /\ Fits(<<49, 50>>)
      /\ <<48, 48, 48, 48>> \in Texts /\ Fits(<<48, 48, 48, 48>>)
      /\ <<57, 55, 51>> \in Texts /\ Fits(<<57, 55, 51>>)
      /\ <<65, 79>> \in Texts /\ Fits(<<65, 79>>)
  <2>1. \A t \in Seq(Ascii) : Len(t) = 2 \/ Len(t) = 3 \/ Len(t) = 4 => t \in Texts /\ Fits(t)
    <3> SUFFICES ASSUME NEW t \in Seq(Ascii), Len(t) \in 2..4 PROVE t \in Texts /\ Fits(t)
      OBVIOUS
    <3>1. t \in Texts /\ lengthOf(t) = Len(t)
      BY AsciiLength
    <3>2. PICK k \in 2..4 : k = Len(t)
      OBVIOUS
    <3> QED BY <3>1, <3>2 DEF Fits
  <2> QED BY Zenon, <1>1, <2>1
<1>3. formatQrAmount(input.amount) \in Texts /\ Fits(formatQrAmount(input.amount))
  <2>1. lengthOf(formatQrAmount(input.amount)) \in 0..99
    BY TransferTyped, AmountTyped
  <2> QED BY <2>1, TransferTyped, AmountTyped DEF Fits
<1>4. /\ Cut(Trim(input.name), 25) \in Texts /\ Fits(Cut(Trim(input.name), 25))
      /\ Cut(Trim(input.city), 15) \in Texts /\ Fits(Cut(Trim(input.city), 15))
  <2>1. 25 \in 0..25 /\ 15 \in 0..25
    OBVIOUS
  <2>2. Trim(input.name) \in Texts /\ Trim(input.city) \in Texts
    BY TransferTyped, TrimTyped
  <2> QED BY <2>1, <2>2, CutTyped DEF Fits
<1>5. domestic \in Texts /\ additional \in Texts
  BY CompositesTyped
<1>6. Sound(Fields[1]) /\ Sound(Fields[2]) /\ Sound(Fields[4]) /\ Sound(Fields[5]) /\ Sound(Fields[7])
      /\ Fits(Fields[1][2]) /\ Fits(Fields[2][2]) /\ Fits(Fields[4][2]) /\ Fits(Fields[5][2])
      /\ Fits(Fields[7][2])
  BY <1>2, FieldsAre DEF Sound
<1>7. Sound(Fields[3]) /\ Sound(Fields[10])
  BY <1>5, FieldsAre DEF Sound
<1>8. Sound(Fields[6]) /\ Sound(Fields[8]) /\ Sound(Fields[9])
      /\ Fits(Fields[6][2]) /\ Fits(Fields[8][2]) /\ Fits(Fields[9][2])
  BY <1>3, <1>4, FieldsAre DEF Sound
<1>9. \A i \in 1..10 : i \in {1, 2, 3, 4, 5, 6, 7, 8, 9, 10}
  OBVIOUS
<1> QED BY <1>6, <1>7, <1>8, <1>9

\* A transfer that has no code has an excuse: the account, or a text that is blank or too long.
Excused ==
  \/ /\ ~IsBban(input.account)
     /\ ~(IsIban(input.account) /\ Verified(input.account.digits))
  \/ \A i \in DOMAIN input.name : input.name[i] \in Blanks
  \/ \A i \in DOMAIN input.reference : input.reference[i] \in Blanks
  \/ Len(Encode(input.gui)) + Len(Encode(input.reference)) + 4 + 4 + 29 > 99
  \/ 2 * (Len(Encode(input.reference)) + 4) > 99

LEMMA BuildableUnlessExcused ==
  ASSUME input \in Transfers, ~Excused
  PROVE  Buildable
<1>1. PICK m \in Nat, n \in Nat : m = lengthOf(input.gui) /\ n = lengthOf(input.reference)
  BY TransferTyped, LengthOfBoth
<1>0. isValidAngolaIban(input.account)
  BY TransferTyped, BbansAreValid, IbansAreValid DEF Excused
<1>2. m + n + 4 + 4 + 29 <= 99 /\ 2 * (n + 4) <= 99
  BY <1>1 DEF Excused, lengthOf
<1>21. Trim(input.name) # << >> /\ Trim(input.reference) # << >>
  BY TransferTyped, TrimTyped DEF Excused
<1>3. Fits(input.gui) /\ Fits(input.reference)
  <2>1. m <= 99 /\ n <= 99
    BY <1>2
  <2> QED BY <1>1, <2>1 DEF Fits
<1>4. lengthOf(domestic) = (4 + m) + 29 + (4 + n) /\ lengthOf(additional) = (4 + n) + (4 + n)
  BY <1>0, <1>1, <1>3, CompositesTyped
<1>5. Fits(Fields[3][2]) /\ Fits(Fields[10][2])
  <2>1. lengthOf(domestic) <= 99 /\ lengthOf(additional) <= 99
    BY <1>2, <1>4
  <2> QED BY <2>1, FieldsAre DEF Fits
<1>6. \A i \in DOMAIN Fields : Fits(Fields[i][2])
  BY <1>0, <1>3, <1>5, FieldsSound, FieldsAre
<1> QED BY <1>0, <1>3, <1>21, <1>6 DEF Buildable

-----------------------------------------------------------------------------
\* What is still to be read of a sequence of sequences, R[k] when k of them have been.
Rests(T, R) == /\ R[Len(T)] = << >>
               /\ \A k \in 0..(Len(T) - 1) : R[k] = T[k + 1] \o R[k + 1]

LEMMA RestsExist ==
  ASSUME NEW X, NEW T \in Seq(Seq(X))
  PROVE  \E R \in [0..Len(T) -> Seq(X)] : R[0] = FlattenSeq(T) /\ Rests(T, R)
<1> DEFINE Has(U) == \E R \in [0..Len(U) -> Seq(X)] : R[0] = FlattenSeq(U) /\ Rests(U, R)
           P == {U \in Seq(Seq(X)) : Has(U)}
<1>1. << >> \in P
  <2> DEFINE R == [k \in 0..0 |-> << >>]
  <2>1. Len(<< >>) = 0 /\ << >> \in Seq(Seq(X))
    OBVIOUS
  <2>2. R[0] = << >> /\ R \in [0..0 -> Seq(X)]
    OBVIOUS
  <2> HIDE DEF R
  <2>3. R[0] = FlattenSeq(<< >>) /\ Rests(<< >>, R)
    BY <2>1, <2>2, FlattenNone DEF Rests
  <2>4. R \in [0..Len(<< >>) -> Seq(X)]
    BY <2>1, <2>2
  <2> QED BY Zenon, <2>1, <2>3, <2>4
<1>2. ASSUME NEW U \in P, NEW t \in Seq(X) PROVE Append(U, t) \in P
  <2>1. PICK R \in [0..Len(U) -> Seq(X)] : R[0] = FlattenSeq(U) /\ Rests(U, R)
    OBVIOUS
  <2>2. PICK n \in Nat : n = Len(U)
    OBVIOUS
  <2>3. PICK V : V = Append(U, t)
    BY Zenon
  <2>4. /\ U \in Seq(Seq(X)) /\ V \in Seq(Seq(X)) /\ Len(V) = n + 1
        /\ V[n + 1] = t /\ \A i \in 1..n : V[i] = U[i] /\ U[i] \in Seq(X)
    BY <2>2, <2>3
  <2>5. /\ R[n] = << >> /\ \A k \in 0..n : R[k] \in Seq(X)
        /\ \A k \in 0..(n - 1) : R[k] = U[k + 1] \o R[k + 1]
    BY Zenon, <2>1, <2>2 DEF Rests
  <2> DEFINE S == [k \in 0..(n + 1) |-> IF k = n + 1 THEN << >> ELSE R[k] \o t]
  <2>6. S \in [0..(n + 1) -> Seq(X)]
    <3>1. \A k \in 0..n : R[k] \o t \in Seq(X)
      BY <2>5
    <3>2. << >> \in Seq(X)
      OBVIOUS
    <3> QED BY <3>1, <3>2
  <2>7. S[n + 1] = << >> /\ \A k \in 0..n : S[k] = R[k] \o t
    OBVIOUS
  <2> HIDE DEF S
  <2>8. ASSUME NEW k \in 0..n PROVE S[k] = V[k + 1] \o S[k + 1]
    <3>1. CASE k = n
      <4>1. << >> \o t = t /\ t \o << >> = t
        OBVIOUS
      <4> QED BY Zenon, <2>4, <2>5, <2>7, <3>1, <4>1
    <3>2. CASE k # n
      <4>1. k \in 0..(n - 1) /\ k + 1 \in 0..n /\ k + 1 \in 1..n
        BY <3>2
      <4>2. S[k] = R[k] \o t /\ S[k + 1] = R[k + 1] \o t /\ V[k + 1] = U[k + 1]
            /\ R[k] = U[k + 1] \o R[k + 1]
        BY Zenon, <2>4, <2>5, <2>7, <4>1
      <4>3. U[k + 1] \in Seq(X) /\ R[k + 1] \in Seq(X)
        BY Zenon, <2>4, <2>5, <4>1
      <4>4. (U[k + 1] \o R[k + 1]) \o t = U[k + 1] \o (R[k + 1] \o t)
        <5>1. \A a \in Seq(X), b \in Seq(X), c \in Seq(X) : (a \o b) \o c = a \o (b \o c)
          BY ConcatAssociative
        <5> QED BY Zenon, <4>3, <5>1
      <4> QED BY <4>2, <4>4
    <3> QED BY Zenon, <3>1, <3>2
  <2>9. Rests(V, S)
    <3>1. Len(V) - 1 = n
      BY <2>4
    <3> QED BY Zenon, <2>4, <2>7, <2>8, <3>1 DEF Rests
  <2>10. S[0] = FlattenSeq(V)
    <3>1. FlattenSeq(V) = FlattenSeq(U) \o t
      BY Zenon, <2>3, <2>4, FlattenOfLonger
    <3>2. S[0] = R[0] \o t
      <4>1. 0 \in 0..n
        OBVIOUS
      <4> QED BY <2>7, <4>1
    <3> QED BY <2>1, <3>1, <3>2
  <2>11. S \in [0..Len(V) -> Seq(X)]
    BY <2>4, <2>6
  <2>12. Has(V)
    BY Zenon, <2>9, <2>10, <2>11
  <2> QED BY Zenon, <2>3, <2>4, <2>12
<1> HIDE DEF P
<1>3. Seq(Seq(X)) \subseteq P
  BY <1>1, <1>2, SequenceInduction
<1> QED BY <1>3 DEF P

\* At place c of p there are a header h, a value v and the rest, up to the end.
InFront(p, c, h, v, rest) ==
  /\ c + 4 + Len(v) \in 1..(Len(p) + 1)
  /\ p[c] = h[1] /\ p[c + 1] = h[2] /\ p[c + 2] = h[3] /\ p[c + 3] = h[4]
  /\ \A e : e = c + 4 + Len(v) => SubSeq(p, c + 4, e - 1) = v /\ SubSeq(p, e, Len(p)) = rest

\* An element in front of the rest is read as it was written.
LEMMA ElementInFront ==
  ASSUME NEW p \in Seq(Nat), NEW c \in 1..Len(p), NEW h \in Seq(Nat), Len(h) = 4,
         NEW v \in Seq(Nat), NEW rest \in Seq(Nat),
         SubSeq(p, c, Len(p)) = (h \o v) \o rest
  PROVE  InFront(p, c, h, v, rest)
<1>1. PICK n \in Nat, l \in Nat, r \in Nat : n = Len(p) /\ l = Len(v) /\ r = Len(rest)
  OBVIOUS
<1>2. PICK s : s = SubSeq(p, c, n)
  BY Zenon
<1>3. /\ s \in Seq(Nat) /\ Len(s) = n - c + 1 /\ \A i \in 1..(n - c + 1) : s[i] = p[c + i - 1]
      /\ c \in 1..n /\ \A i \in 1..n : p[i] \in Nat
  <2>1. c \in 1..n /\ c <= n /\ c \in Int /\ n \in Int /\ \A i \in 1..n : p[i] \in Nat
    BY <1>1
  <2>2. \A i \in c..n : p[i] \in Nat
    BY <2>1
  <2>3. /\ s \in Seq(Nat) /\ Len(s) = (IF c <= n THEN n - c + 1 ELSE 0)
        /\ \A i \in 1..(n - c + 1) : s[i] = p[c + i - 1]
    BY <1>2, <2>1, <2>2, SubSeqProperties
  <2> QED BY <2>1, <2>3
<1>4. PICK b : b = h \o v
  BY Zenon
<1>5. /\ b \in Seq(Nat) /\ Len(b) = 4 + l
      /\ \A i \in 1..(4 + l) : b[i] = IF i <= 4 THEN h[i] ELSE v[i - 4]
  <2>1. /\ b \in Seq(Nat) /\ Len(b) = Len(h) + Len(v)
        /\ \A i \in 1..(Len(h) + Len(v)) : b[i] = IF i <= Len(h) THEN h[i] ELSE v[i - Len(h)]
    BY Zenon, <1>4, ConcatProperties
  <2> QED BY Zenon, <1>1, <2>1
<1>6. /\ Len(s) = (4 + l) + r
      /\ \A i \in 1..((4 + l) + r) : s[i] = IF i <= 4 + l THEN b[i] ELSE rest[i - (4 + l)]
  <2>0. s = b \o rest
    BY <1>1, <1>2, <1>4
  <2>1. /\ s \in Seq(Nat) /\ Len(s) = Len(b) + Len(rest)
        /\ \A i \in 1..(Len(b) + Len(rest)) :
             s[i] = IF i <= Len(b) THEN b[i] ELSE rest[i - Len(b)]
    BY Zenon, <1>5, <2>0, ConcatProperties
  <2> QED BY <1>1, <1>5, <2>1
<1>7. n - c + 1 = (4 + l) + r
  BY <1>3, <1>6
<1>8. n = c + 3 + l + r
  BY <1>3, <1>7
<1>9. c + 4 + l \in 1..(n + 1)
  BY <1>3, <1>8
<1>10. p[c] = h[1] /\ p[c + 1] = h[2] /\ p[c + 2] = h[3] /\ p[c + 3] = h[4]
  <2>1. ASSUME NEW i \in 1..4 PROVE p[c + i - 1] = h[i]
    <3>1. i \in 1..(n - c + 1) /\ i \in 1..((4 + l) + r) /\ i \in 1..(4 + l) /\ i <= 4 + l /\ i <= 4
      BY <1>7
    <3>2. s[i] = p[c + i - 1] /\ s[i] = b[i] /\ b[i] = h[i]
      BY Zenon, <1>3, <1>5, <1>6, <3>1
    <3> QED BY <3>2
  <2>2. c + 1 - 1 = c /\ c + 2 - 1 = c + 1 /\ c + 3 - 1 = c + 2 /\ c + 4 - 1 = c + 3
    OBVIOUS
  <2>3. 1 \in 1..4 /\ 2 \in 1..4 /\ 3 \in 1..4 /\ 4 \in 1..4
    OBVIOUS
  <2>4. p[c + 1 - 1] = h[1] /\ p[c + 2 - 1] = h[2] /\ p[c + 3 - 1] = h[3] /\ p[c + 4 - 1] = h[4]
    BY <2>1, <2>3
  <2> QED BY <2>2, <2>4
<1>11. SubSeq(p, c + 4, c + 4 + l - 1) = v
  <2>1. PICK f \in Int, t \in Int : f = c + 4 /\ t = c + 4 + l - 1
    OBVIOUS
  <2>2. \A i \in f..t : p[i] \in Nat
    BY <1>3, <1>8, <2>1
  <2>3. PICK u : u = SubSeq(p, f, t)
    BY Zenon
  <2>4. /\ u \in Seq(Nat) /\ Len(u) = (IF f <= t THEN t - f + 1 ELSE 0)
        /\ \A i \in 1..(t - f + 1) : u[i] = p[f + i - 1]
    BY <2>2, <2>3, SubSeqProperties
  <2>5. t - f + 1 = l /\ (IF f <= t THEN t - f + 1 ELSE 0) = l
    BY <2>1
  <2>6. ASSUME NEW i \in 1..l PROVE u[i] = v[i]
    <3>1. PICK j : j = i + 4
      OBVIOUS
    <3>2. /\ j \in 1..(n - c + 1) /\ j \in 1..((4 + l) + r) /\ j \in 1..(4 + l)
          /\ j <= 4 + l /\ ~(j <= 4) /\ j - 4 = i /\ c + j - 1 = f + i - 1
      BY <1>7, <2>1, <3>1
    <3>3. s[j] = p[c + j - 1] /\ s[j] = b[j] /\ b[j] = v[j - 4]
      BY Zenon, <1>3, <1>5, <1>6, <3>2
    <3>4. u[i] = p[f + i - 1]
      BY <2>4, <2>5
    <3> QED BY Zenon, <3>2, <3>3, <3>4
  <2>7. Len(u) = Len(v) /\ \A i \in 1..Len(u) : u[i] = v[i]
    BY <1>1, <2>4, <2>5, <2>6
  <2>8. u = v
    BY Zenon, <2>4, <2>7, SeqEqual
  <2> QED BY <2>1, <2>3, <2>8
<1>12. SubSeq(p, c + 4 + l, n) = rest
  <2>1. PICK f \in Int : f = c + 4 + l
    OBVIOUS
  <2>2. \A i \in f..n : p[i] \in Nat
    BY <1>3, <2>1
  <2>3. PICK u : u = SubSeq(p, f, n)
    BY Zenon
  <2>4. /\ u \in Seq(Nat) /\ Len(u) = (IF f <= n THEN n - f + 1 ELSE 0)
        /\ \A i \in 1..(n - f + 1) : u[i] = p[f + i - 1]
    BY <2>2, <2>3, SubSeqProperties
  <2>5. n - f + 1 = r /\ (IF f <= n THEN n - f + 1 ELSE 0) = r
    BY <1>8, <2>1
  <2>6. ASSUME NEW i \in 1..r PROVE u[i] = rest[i]
    <3>1. PICK j : j = i + (4 + l)
      OBVIOUS
    <3>2. /\ j \in 1..(n - c + 1) /\ j \in 1..((4 + l) + r)
          /\ ~(j <= 4 + l) /\ j - (4 + l) = i /\ c + j - 1 = f + i - 1
      BY <1>7, <2>1, <3>1
    <3>3. s[j] = p[c + j - 1] /\ s[j] = rest[j - (4 + l)]
      BY Zenon, <1>3, <1>6, <3>2
    <3>4. u[i] = p[f + i - 1]
      BY Zenon, <2>4, <2>5
    <3> QED BY Zenon, <3>2, <3>3, <3>4
  <2>7. Len(u) = Len(rest) /\ \A i \in 1..Len(u) : u[i] = rest[i]
    BY Zenon, <1>1, <2>4, <2>5, <2>6
  <2>8. u = rest
    BY Zenon, <2>4, <2>7, SeqEqual
  <2> QED BY <2>1, <2>3, <2>8
<1>13. \A e : e = c + 4 + l => SubSeq(p, c + 4, e - 1) = v /\ SubSeq(p, e, n) = rest
  <2> SUFFICES ASSUME NEW e, e = c + 4 + l
               PROVE  SubSeq(p, c + 4, e - 1) = v /\ SubSeq(p, e, n) = rest
    BY Zenon
  <2>1. e - 1 = c + 4 + l - 1
    OBVIOUS
  <2>2. SubSeq(p, c + 4, e - 1) = v
    BY <1>11, <2>1
  <2>3. SubSeq(p, e, n) = rest
    BY <1>12
  <2> QED BY Zenon, <2>2, <2>3
<1> QED BY Zenon, <1>1, <1>9, <1>10, <1>13 DEF InFront

-----------------------------------------------------------------------------
\* Reading a payload back.

\* What the elements of a payload are built from: the fields, then the checksum.
Zeros == <<0, 0, 0, 0>>
Item(i) == IF i <= 10 THEN Fields[i] ELSE <<63, Zeros>>

\* What is still to be read when k elements have been.
ToRead(R) == /\ R[11] = << >>
             /\ \A k \in 0..10 : R[k] = tlv(Item(k + 1)[1], Item(k + 1)[2]) \o R[k + 1]

LEMMA ZerosAreText == Zeros \in Texts /\ Encode(Zeros) = Zeros /\ lengthOf(Zeros) = 4 /\ Fits(Zeros)
<1>1. Zeros \in Seq(Ascii) /\ Len(Zeros) = 4
  BY DEF Zeros, Ascii
<1>2. lengthOf(Zeros) = 4 /\ Zeros \in Texts /\ Encode(Zeros) = Zeros
  BY Zenon, <1>1, AsciiLength, EncodeAscii
<1> QED BY <1>2 DEF Fits

LEMMA ItemsSound ==
  ASSUME input \in Transfers, Buildable
  PROVE  \A i \in 1..11 : Sound(Item(i)) /\ Fits(Item(i)[2])
<1>1. \A i \in 1..10 : Sound(Fields[i]) /\ Fits(Fields[i][2])
  BY Zenon, FieldsSound, FieldsAre DEF Buildable
<1>2. \A i \in 1..10 : Item(i) = Fields[i]
  BY DEF Item
<1>3. Item(11) = <<63, Zeros>> /\ 63 \in 0..99
  BY DEF Item
<1>4. Sound(Item(11)) /\ Fits(Item(11)[2])
  BY <1>3, ZerosAreText DEF Sound
<1>5. \A i \in 1..11 : i \in 1..10 \/ i = 11
  OBVIOUS
<1> QED BY <1>1, <1>2, <1>4, <1>5

\* The payload, before it is encoded, is the items one behind the other.
LEMMA PayloadToRead ==
  ASSUME input \in Transfers, Buildable
  PROVE  \E R \in [0..11 -> Texts] :
           /\ ToRead(R)
           /\ R[0] = FlattenSeq([i \in DOMAIN Fields |-> tlv(Fields[i][1], Fields[i][2])]) \o Checksum
<1>1. PICK C : C = [i \in DOMAIN Fields |-> tlv(Fields[i][1], Fields[i][2])]
  BY Zenon
<1>2. \A i \in 1..11 : tlv(Item(i)[1], Item(i)[2]) \in Texts
  BY Zenon, ItemsSound, TlvEncoded DEF Sound
<1>3. C \in [1..10 -> Texts] /\ \A i \in 1..10 : C[i] = tlv(Item(i)[1], Item(i)[2])
  <2>1. C = [i \in 1..10 |-> tlv(Fields[i][1], Fields[i][2])]
    BY <1>1, FieldsAre
  <2>2. \A i \in 1..10 : Item(i) = Fields[i] /\ i \in 1..11
    BY DEF Item
  <2>3. \A i \in 1..10 : tlv(Fields[i][1], Fields[i][2]) = tlv(Item(i)[1], Item(i)[2])
    BY <2>2
  <2> QED BY <1>2, <2>1, <2>2, <2>3
<1>4. Checksum \in Texts /\ Checksum = tlv(Item(11)[1], Item(11)[2])
  <2>1. Item(11)[1] = 63 /\ Item(11)[2] = Zeros
    BY DEF Item
  <2>2. Checksum = tlv(63, Zeros)
    BY ZerosAreText DEF Checksum, tlv, Zeros
  <2>3. 11 \in 1..11
    OBVIOUS
  <2> QED BY <1>2, <2>1, <2>2, <2>3
<1>5. C \in Seq(Seq(Characters)) /\ Len(C) = 10
  <2>1. C \in Seq(Texts) /\ DOMAIN C = 1..10
    BY Zenon, <1>3, SeqDef
  <2> QED BY <2>1 DEF Texts
<1>6. PICK T : T = Append(C, Checksum)
  BY Zenon
<1>7. /\ T \in Seq(Seq(Characters)) /\ Len(T) = 11
      /\ T[11] = Checksum /\ \A i \in 1..10 : T[i] = C[i]
  <2>1. Checksum \in Seq(Characters)
    BY <1>4 DEF Texts
  <2>2. /\ T \in Seq(Seq(Characters)) /\ Len(T) = Len(C) + 1
        /\ T[Len(C) + 1] = Checksum /\ \A i \in 1..Len(C) : T[i] = C[i]
    <3>1. PICK X : X = Seq(Characters)
      OBVIOUS
    <3>2. C \in Seq(X) /\ Checksum \in X
      BY <1>5, <2>1, <3>1
    <3>3. /\ T \in Seq(X) /\ Len(T) = Len(C) + 1
          /\ T[Len(C) + 1] = Checksum /\ \A i \in 1..Len(C) : T[i] = C[i]
      BY <1>6, <3>2, AppendProperties
    <3> QED BY Zenon, <3>1, <3>3
  <2>3. Len(C) + 1 = 11
    BY <1>5
  <2> QED BY <1>5, <2>2, <2>3
<1>8. FlattenSeq(T) = FlattenSeq(C) \o Checksum
  BY Zenon, <1>4, <1>5, <1>6, FlattenOfLonger DEF Texts
<1>9. PICK R \in [0..11 -> Seq(Characters)] : R[0] = FlattenSeq(T) /\ Rests(T, R)
  BY Zenon, <1>7, RestsExist
<1>10. \A i \in 1..11 : T[i] = tlv(Item(i)[1], Item(i)[2])
  <2>1. \A i \in 1..11 : i \in 1..10 \/ i = 11
    OBVIOUS
  <2> QED BY Zenon, <1>3, <1>4, <1>7, <2>1
<1>11. ToRead(R)
  <2>1. R[11] = << >> /\ \A k \in 0..10 : R[k] = T[k + 1] \o R[k + 1]
    <3>1. Len(T) = 11 /\ Len(T) - 1 = 10
      BY <1>7
    <3> QED BY Zenon, <1>9, <3>1 DEF Rests
  <2>2. \A k \in 0..10 : T[k + 1] = tlv(Item(k + 1)[1], Item(k + 1)[2])
    <3>1. \A k \in 0..10 : k + 1 \in 1..11
      OBVIOUS
    <3> QED BY Zenon, <1>10, <3>1
  <2> QED BY Zenon, <2>1, <2>2 DEF ToRead
<1> QED BY Zenon, <1>1, <1>8, <1>9, <1>11 DEF Texts

LEMMA NextToRead ==
  ASSUME input \in Transfers, Buildable, NEW R \in [0..11 -> Texts], ToRead(R), NEW k \in 0..10
  PROVE  LET tag  == Item(k + 1)[1]
             text == Item(k + 1)[2]
         IN  /\ tag \in 0..99 /\ lengthOf(text) \in 0..99
             /\ Encode(text) \in Seq(Nat) /\ Len(Encode(text)) = lengthOf(text)
             /\ Encode(R[k + 1]) \in Seq(Nat)
             /\ Encode(R[k]) = (HeaderOf(tag, lengthOf(text)) \o Encode(text)) \o Encode(R[k + 1])
<1> DEFINE tag == Item(k + 1)[1]
           text == Item(k + 1)[2]
<1>1. k + 1 \in 1..11 /\ k + 1 \in 0..11
  OBVIOUS
<1>2. tag \in 0..99 /\ text \in Texts /\ Fits(text)
  BY <1>1, ItemsSound DEF Sound
<1>3. R[k + 1] \in Texts /\ R[k] = tlv(tag, text) \o R[k + 1]
  BY Zenon, <1>1 DEF ToRead
<1> HIDE DEF tag, text
<1>4. tlv(tag, text) \in Texts /\ Encode(tlv(tag, text)) = HeaderOf(tag, lengthOf(text)) \o Encode(text)
  BY Zenon, <1>2, TlvEncoded
<1>5. Encode(R[k]) = Encode(tlv(tag, text)) \o Encode(R[k + 1])
  BY Zenon, <1>3, <1>4, EncodeOfBoth
<1>6. Encode(text) \in Seq(Nat) /\ Encode(R[k + 1]) \in Seq(Nat)
  BY Zenon, <1>2, <1>3, EncodeTyped
<1>7. lengthOf(text) \in 0..99 /\ Len(Encode(text)) = lengthOf(text)
  <2>1. PICK m \in Nat : m = lengthOf(text)
    BY <1>2, LengthOfBoth
  <2>2. m \in 0..99
    BY <1>2, <2>1 DEF Fits
  <2> QED BY Zenon, <2>1, <2>2 DEF lengthOf
<1> QED BY Zenon, <1>2, <1>4, <1>5, <1>6, <1>7 DEF tag, text

LEMMA RestNotEmpty ==
  ASSUME input \in Transfers, Buildable, NEW R \in [0..11 -> Texts], ToRead(R), NEW k \in 0..10
  PROVE  Encode(R[k]) # << >>
<1>1. PICK tag \in 0..99, n \in 0..99, t \in Seq(Nat), r \in Seq(Nat) :
        Encode(R[k]) = (HeaderOf(tag, n) \o t) \o r
  <2> DEFINE tag == Item(k + 1)[1]
             text == Item(k + 1)[2]
             n == lengthOf(text)
  <2>1. /\ tag \in 0..99 /\ n \in 0..99 /\ Encode(text) \in Seq(Nat)
        /\ Encode(R[k + 1]) \in Seq(Nat)
        /\ Encode(R[k]) = (HeaderOf(tag, n) \o Encode(text)) \o Encode(R[k + 1])
    BY Zenon, NextToRead
  <2>2. PICK t \in Seq(Nat), r \in Seq(Nat) : t = Encode(text) /\ r = Encode(R[k + 1])
    BY <2>1
  <2> HIDE DEF tag, text, n
  <2>3. Encode(R[k]) = (HeaderOf(tag, n) \o t) \o r
    BY <2>1, <2>2
  <2> QED BY Zenon, <2>1, <2>3
<1>2. PICK h : h = HeaderOf(tag, n)
  OBVIOUS
<1>3. h \in Seq(Nat) /\ h # << >>
  <2>1. h \in Seq(Ascii) /\ Len(h) = 4
    BY Zenon, <1>2, HeaderIsText
  <2>2. Ascii \subseteq Nat
    BY DEF Ascii
  <2>3. h \in Seq(Nat)
    BY Zenon, <2>1, <2>2, SeqMonotonic
  <2>4. h # << >>
    <3>1. Len(<< >>) # 4
      <4>1. Len(<< >>) = 0 /\ 0 # 4
        OBVIOUS
      <4> QED BY <4>1
    <3> QED BY Zenon, <2>1, <3>1
  <2> QED BY <2>3, <2>4
<1>4. \A a \in Seq(Nat), b \in Seq(Nat) : a # << >> => a \o b \in Seq(Nat) /\ a \o b # << >>
  BY ConcatProperties, ConcatEqualIffEmpty
<1> QED BY <1>1, <1>2, <1>3, <1>4

\* k elements have been read, as they were written, and the others are behind the cursor.
Read(R) ==
  LET k == Len(elements)
  IN  /\ elements \in Seq(Nat \X Seq(Nat)) /\ k \in 0..11
      /\ \A i \in 1..k : elements[i] = <<Item(i)[1], Encode(Item(i)[2])>>
      /\ payload \in Seq(Nat) /\ cursor \in 1..(Len(payload) + 1)
      /\ SubSeq(payload, cursor, Len(payload)) = Encode(R[k])

TransferInv ==
  /\ IF area = "transfer" THEN input \in Transfers ELSE payload = Null /\ cursor = 0
  /\ payload = Null => /\ elements = << >> /\ cursor \in {0, 1}
                       /\ cursor = 1 => Excused
  /\ payload # Null => Buildable /\ \E R \in [0..11 -> Texts] : ToRead(R) /\ Read(R)

LEMMA TransferInvInit == Init => TransferInv
BY DEF Init, TransferInv, NoTransfer, QrInit, Transfers, Null

\* What the elements are built from does not change.
LEMMA SameFields ==
  input' = input => /\ Fields' = Fields /\ Buildable' = Buildable /\ Excused' = Excused
                    /\ (\A i : Item(i)' = Item(i)) /\ (\A R : ToRead(R)' = ToRead(R))
BY DEF Fields, domestic, additional, Buildable, Excused, Item, ToRead

LEMMA HeaderInside ==
  \A c \in Int, e \in Nat, n \in 0..99 : c + 4 + n \in 1..(e + 1) => c + 3 <= e /\ c + 4 + n <= e + 1
OBVIOUS

LEMMA TwoDigits ==
  ASSUME NEW t \in 0..99
  PROVE  \E a \in 0..9, b \in 0..9 :
           Zero + (t \div 10) = 48 + a /\ Zero + (t % 10) = 48 + b /\ t = 10 * a + b
<1>1. t \div 10 \in 0..9 /\ t % 10 \in 0..9 /\ t = 10 * (t \div 10) + (t % 10)
  OBVIOUS
<1> QED BY <1>1 DEF Zero

LEMMA SomethingBehind ==
  ASSUME NEW p \in Seq(Nat), NEW c \in 1..Len(p)
  PROVE  SubSeq(p, c, Len(p)) # << >>
<1>1. PICK n \in Nat : n = Len(p)
  OBVIOUS
<1>2. c \in 1..n /\ c <= n /\ c \in Int /\ n \in Int
  BY <1>1
<1>3. \A i \in c..n : p[i] \in Nat
  BY <1>1
<1>4. PICK u : u = SubSeq(p, c, n)
  BY Zenon
<1>5. Len(u) = IF c <= n THEN n - c + 1 ELSE 0
  BY <1>2, <1>3, <1>4, SubSeqProperties
<1>6. Len(u) # 0
  BY <1>2, <1>5
<1>7. Len(<< >>) = 0
  OBVIOUS
<1> QED BY Zenon, <1>1, <1>4, <1>6, <1>7

\* The header in front of the cursor, and the element behind it.
LEMMA ElementAhead ==
  ASSUME input \in Transfers, Buildable, NEW R \in [0..11 -> Texts], ToRead(R), Read(R),
         cursor \in 1..Len(payload)
  PROVE  LET k == Len(elements)
         IN  /\ Readable /\ k \in 0..10
             /\ Number(cursor) = Item(k + 1)[1]
             /\ SubSeq(payload, cursor + 4, EndOfElement - 1) = Encode(Item(k + 1)[2])
             /\ EndOfElement \in 1..(Len(payload) + 1)
             /\ SubSeq(payload, EndOfElement, Len(payload)) = Encode(R[k + 1])
<1>1. PICK k \in 0..11 : k = Len(elements)
  BY DEF Read
<1>2. payload \in Seq(Nat) /\ SubSeq(payload, cursor, Len(payload)) = Encode(R[k])
  BY <1>1 DEF Read
<1>3. k \in 0..10
  <2>1. SUFFICES ASSUME k = 11 PROVE FALSE
    OBVIOUS
  <2>2. SubSeq(payload, cursor, Len(payload)) = << >>
    BY <1>2, <2>1, EncodeNone DEF ToRead
  <2> QED BY <1>2, <2>2, SomethingBehind
<1>4. PICK text : text = Item(k + 1)[2]
  OBVIOUS
<1>5. PICK tag \in 0..99 : tag = Item(k + 1)[1]
  BY Zenon, <1>3, NextToRead
<1>6. PICK n \in 0..99 : n = lengthOf(text)
  BY Zenon, <1>3, <1>4, NextToRead
<1>7. PICK h : h = HeaderOf(tag, n)
  OBVIOUS
<1>8. h \in Seq(Nat) /\ Len(h) = 4
  <2>1. h \in Seq(Ascii) /\ Len(h) = 4
    BY Zenon, <1>7, HeaderIsText
  <2>2. Ascii \subseteq Nat
    BY DEF Ascii
  <2> QED BY Zenon, <2>1, <2>2, SeqMonotonic
<1>9. PICK v \in Seq(Nat) : v = Encode(text) /\ Len(v) = n
  BY Zenon, <1>3, <1>4, <1>6, NextToRead
<1>10. PICK rest \in Seq(Nat) : rest = Encode(R[k + 1])
  BY Zenon, <1>3, <1>4, NextToRead
<1>11. SubSeq(payload, cursor, Len(payload)) = (h \o v) \o rest
  BY Zenon, <1>2, <1>3, <1>5, <1>4, <1>6, <1>7, <1>9, <1>10, NextToRead
<1>12. /\ cursor + 4 + n \in 1..(Len(payload) + 1)
       /\ payload[cursor] = h[1] /\ payload[cursor + 1] = h[2]
       /\ payload[cursor + 2] = h[3] /\ payload[cursor + 3] = h[4]
       /\ \A e : e = cursor + 4 + n => /\ SubSeq(payload, cursor + 4, e - 1) = v
                                       /\ SubSeq(payload, e, Len(payload)) = rest
  <2>1. /\ cursor + 4 + Len(v) \in 1..(Len(payload) + 1)
        /\ payload[cursor] = h[1] /\ payload[cursor + 1] = h[2]
        /\ payload[cursor + 2] = h[3] /\ payload[cursor + 3] = h[4]
        /\ \A e : e = cursor + 4 + Len(v) => /\ SubSeq(payload, cursor + 4, e - 1) = v
                                             /\ SubSeq(payload, e, Len(payload)) = rest
    <3>1. PICK p, c : p = payload /\ c = cursor
      OBVIOUS
    <3>2. p \in Seq(Nat) /\ c \in 1..Len(p) /\ SubSeq(p, c, Len(p)) = (h \o v) \o rest
      BY Zenon, <1>2, <1>11, <3>1
    <3>3. InFront(p, c, h, v, rest)
      BY Zenon, <1>8, <3>2, ElementInFront
    <3>4. /\ c + 4 + Len(v) \in 1..(Len(p) + 1)
          /\ p[c] = h[1] /\ p[c + 1] = h[2] /\ p[c + 2] = h[3] /\ p[c + 3] = h[4]
          /\ \A e : e = c + 4 + Len(v) => SubSeq(p, c + 4, e - 1) = v /\ SubSeq(p, e, Len(p)) = rest
      BY Zenon, <3>3 DEF InFront
    <3> QED BY Zenon, <3>1, <3>4
  <2> QED BY Zenon, <1>9, <2>1
<1>13. /\ h[1] = Zero + (tag \div 10) /\ h[2] = Zero + (tag % 10)
       /\ h[3] = Zero + (n \div 10) /\ h[4] = Zero + (n % 10)
  BY <1>7 DEF HeaderOf
<1>14. PICK q \in 0..9, j \in 0..9 : h[1] = 48 + q /\ h[2] = 48 + j /\ tag = 10 * q + j
  BY <1>13, TwoDigits
<1>15. PICK l \in 0..9, m \in 0..9 : h[3] = 48 + l /\ h[4] = 48 + m /\ n = 10 * l + m
  BY <1>13, TwoDigits
<1>16. Number(cursor) = tag
  <2>1. Number(cursor) = 10 * ((48 + q) - 48) + (48 + j) - 48
    BY <1>12, <1>14 DEF Number, Zero
  <2> QED BY <1>14, <2>1
<1>17. Number(cursor + 2) = n
  <2>1. cursor + 2 + 1 = cursor + 3
    BY <1>2
  <2>2. Number(cursor + 2) = 10 * ((48 + l) - 48) + (48 + m) - 48
    BY Zenon, <1>12, <1>15, <2>1 DEF Number, Zero
  <2> QED BY <1>15, <2>2
<1>18. EndOfElement = cursor + 4 + n
  BY <1>17 DEF EndOfElement
<1>19. Readable
  <2>1. cursor + 3 <= Len(payload) /\ EndOfElement <= Len(payload) + 1
    <3>1. PICK c \in Int, e \in Nat : c = cursor /\ e = Len(payload)
      BY <1>2
    <3>2. c + 4 + n \in 1..(e + 1)
      BY <1>12, <3>1
    <3>3. c + 3 <= e /\ c + 4 + n <= e + 1
      BY Zenon, <3>2, HeaderInside
    <3> QED BY <1>18, <3>1, <3>3
  <2>2. \A i \in cursor..(cursor + 3) :
          i = cursor \/ i = cursor + 1 \/ i = cursor + 2 \/ i = cursor + 3
    OBVIOUS
  <2>3. /\ h[1] - Zero \in 0..9 /\ h[2] - Zero \in 0..9
        /\ h[3] - Zero \in 0..9 /\ h[4] - Zero \in 0..9
    BY <1>14, <1>15 DEF Zero
  <2> QED BY Zenon, <1>12, <2>1, <2>2, <2>3 DEF Readable
<1>20. /\ Readable /\ k \in 0..10 /\ Number(cursor) = Item(k + 1)[1]
       /\ SubSeq(payload, cursor + 4, EndOfElement - 1) = Encode(Item(k + 1)[2])
       /\ EndOfElement \in 1..(Len(payload) + 1)
       /\ SubSeq(payload, EndOfElement, Len(payload)) = Encode(R[k + 1])
  <2>1. EndOfElement \in 1..(Len(payload) + 1)
    BY <1>12, <1>18
  <2>2. SubSeq(payload, cursor + 4, EndOfElement - 1) = v
    BY Zenon, <1>12, <1>18
  <2>3. SubSeq(payload, EndOfElement, Len(payload)) = rest
    BY Zenon, <1>12, <1>18
  <2> QED BY <1>3, <1>5, <1>4, <1>9, <1>10, <1>16, <1>19, <2>1, <2>2, <2>3
<1> QED BY Zenon, <1>1, <1>20

LEMMA BuildKeeps ==
  ASSUME TransferInv, area = "transfer", area' = area, BuildAngolaBankQr
  PROVE  TransferInv'
<1>1. /\ input \in Transfers /\ payload = Null /\ elements = << >> /\ input' = input
      /\ elements' = elements /\ cursor' = 1
  BY DEF TransferInv, BuildAngolaBankQr
<1>2. CASE ~Buildable
  <2>1. payload' = Null /\ Excused
    BY <1>1, <1>2, BuildableUnlessExcused DEF BuildAngolaBankQr
  <2>2. Excused'
    BY <1>1, <2>1, SameFields
  <2> QED BY <1>1, <2>1, <2>2 DEF TransferInv
<1>3. CASE Buildable
  <2>1. PICK R \in [0..11 -> Texts] :
          /\ ToRead(R)
          /\ R[0] = FlattenSeq([i \in DOMAIN Fields |-> tlv(Fields[i][1], Fields[i][2])]) \o Checksum
    BY Zenon, <1>1, <1>3, PayloadToRead
  <2>2. payload' = Encode(R[0])
    BY <1>3, <2>1 DEF BuildAngolaBankQr
  <2>3. payload' \in Seq(Nat)
    <3>1. R[0] \in Texts
      OBVIOUS
    <3> QED BY <2>2, <3>1, EncodeTyped
  <2>4. payload' # Null
    <3>1. 0 \in 0..10
      OBVIOUS
    <3> QED BY Zenon, <1>1, <1>3, <2>1, <2>2, <3>1, RestNotEmpty DEF Null
  <2>5. Read(R)'
    <3>1. elements' = << >> /\ Len(elements') = 0
      BY <1>1
    <3>2. 1 \in 1..(Len(payload') + 1) /\ SubSeq(payload', 1, Len(payload')) = payload'
      BY <2>3, SubSeqFull
    <3>3. elements' \in Seq(Nat \X Seq(Nat)) /\ 0 \in 0..11 /\ \A i \in 1..0 : FALSE
      BY <3>1
    <3> QED BY <1>1, <2>2, <2>3, <3>1, <3>2, <3>3 DEF Read
  <2>6. Buildable' /\ ToRead(R)'
    BY <1>1, <1>3, <2>1, SameFields
  <2> QED BY <1>1, <2>4, <2>5, <2>6 DEF TransferInv
<1> QED BY <1>2, <1>3

LEMMA ReadKeeps ==
  ASSUME TransferInv, area = "transfer", area' = area, ReadElement
  PROVE  TransferInv'
<1>1. /\ input \in Transfers /\ input' = input /\ payload' = payload /\ cursor \in 1..Len(payload)
      /\ cursor' = EndOfElement
      /\ elements' = Append(elements,
                            <<Number(cursor), SubSeq(payload, cursor + 4, EndOfElement - 1)>>)
  BY DEF TransferInv, ReadElement
<1>2. payload # Null
  <2>1. Len(<< >>) = 0
    OBVIOUS
  <2> QED BY <1>1, <2>1 DEF Null
<1>3. PICK R \in [0..11 -> Texts] : Buildable /\ ToRead(R) /\ Read(R)
  BY <1>2 DEF TransferInv
<1>4. PICK k \in 0..10 :
        /\ k = Len(elements) /\ Number(cursor) = Item(k + 1)[1]
        /\ SubSeq(payload, cursor + 4, EndOfElement - 1) = Encode(Item(k + 1)[2])
        /\ EndOfElement \in 1..(Len(payload) + 1)
        /\ SubSeq(payload, EndOfElement, Len(payload)) = Encode(R[k + 1])
  BY Zenon, <1>1, <1>3, ElementAhead
<1>5. PICK e : e = <<Item(k + 1)[1], Encode(Item(k + 1)[2])>>
  BY Zenon
<1>6. elements' = Append(elements, e)
  BY Zenon, <1>1, <1>4, <1>5
<1>7. e \in Nat \X Seq(Nat)
  <2>1. Item(k + 1)[1] \in 0..99 /\ Encode(Item(k + 1)[2]) \in Seq(Nat)
    BY Zenon, <1>1, <1>3, NextToRead
  <2>2. PICK tag \in 0..99 : tag = Item(k + 1)[1]
    BY Zenon, <2>1
  <2>3. PICK v \in Seq(Nat) : v = Encode(Item(k + 1)[2])
    BY <2>1
  <2>4. e = <<tag, v>>
    BY <1>5, <2>2, <2>3
  <2>5. tag \in Nat
    OBVIOUS
  <2> QED BY <2>4, <2>5
<1>8. /\ elements \in Seq(Nat \X Seq(Nat)) /\ payload \in Seq(Nat)
      /\ \A i \in 1..k : elements[i] = <<Item(i)[1], Encode(Item(i)[2])>>
  BY Zenon, <1>3, <1>4 DEF Read
<1>9. /\ elements' \in Seq(Nat \X Seq(Nat)) /\ Len(elements') = k + 1
      /\ elements'[k + 1] = e /\ \A i \in 1..k : elements'[i] = elements[i]
  BY <1>4, <1>6, <1>7, <1>8, AppendProperties
<1>10. \A i \in 1..(k + 1) : elements'[i] = <<Item(i)[1], Encode(Item(i)[2])>>
  <2>1. \A i \in 1..(k + 1) : i \in 1..k \/ i = k + 1
    OBVIOUS
  <2> QED BY Zenon, <1>5, <1>8, <1>9, <2>1
<1>11. \A i : Item(i)' = Item(i)
  BY <1>1, SameFields
<1>12. Read(R)'
  <2>1. k + 1 \in 0..11
    OBVIOUS
  <2>2. \A i \in 1..Len(elements') : elements'[i] = <<Item(i)'[1], Encode(Item(i)'[2])>>
    BY Zenon, <1>9, <1>10, <1>11
  <2> QED BY Zenon, <1>1, <1>4, <1>8, <1>9, <2>1, <2>2 DEF Read
<1>13. Buildable' /\ ToRead(R)'
  BY <1>1, <1>3, SameFields
<1> QED BY <1>1, <1>2, <1>12, <1>13 DEF TransferInv

LEMMA TransferInvNext == TransferInv /\ [Next]_backOfficeVars => TransferInv'
<1> SUFFICES ASSUME TransferInv, [Next]_backOfficeVars PROVE TransferInv'
  OBVIOUS
<1>1. area' = area
  BY DEF Next, backOfficeVars
<1>2. CASE area = "transfer" /\ QrNext
  BY <1>1, <1>2, BuildKeeps, ReadKeeps DEF QrNext
<1>3. CASE UNCHANGED qrVars
  <2>1. input' = input /\ payload' = payload /\ cursor' = cursor /\ elements' = elements
    BY <1>3 DEF qrVars
  <2>2. /\ Buildable' = Buildable /\ Excused' = Excused
        /\ \A i : Item(i)' = Item(i) /\ \A R : ToRead(R)' = ToRead(R)
    BY <2>1, SameFields
  <2>3. \A R : Read(R)' = Read(R)
    BY Zenon, <2>1, <2>2 DEF Read
  <2> QED BY <1>1, <2>1, <2>2, <2>3 DEF TransferInv
<1> QED BY <1>2, <1>3 DEF Next, backOfficeVars

\* Whatever the account, the amount and the texts, a transfer has a code unless its account is
\* neither 21 digits nor a verified IBAN or its texts are blank or too long, and a reader of
\* the code is never stopped by a header: it reads every element that was written, and nothing
\* else (qr-payment.ts:77-127, 143-275).
THEOREM TransfersReadBack == Spec => []QrReadsBack
<1>1. TransferInv => QrReadsBack
  <2> SUFFICES ASSUME TransferInv PROVE QrReadsBack
    OBVIOUS
  <2>1. CASE payload = Null
    <3>1. Len(payload) = 0
      BY <2>1 DEF Null
    <3>2. elements = << >> /\ cursor \in {0, 1}
      BY <2>1 DEF TransferInv
    <3>3. cursor > 0 => Excused
      BY <2>1, <3>2 DEF TransferInv
    <3>4. DOMAIN elements = {}
      BY <3>2
    <3>5. cursor \notin 1..Len(payload)
      BY <3>1
    <3> QED BY <2>1, <3>3, <3>4, <3>5 DEF QrReadsBack, Excused
  <2>2. CASE payload # Null
    <3>0. input \in Transfers
      BY <2>2 DEF TransferInv
    <3>1. PICK R \in [0..11 -> Texts] : Buildable /\ ToRead(R) /\ Read(R)
      BY <2>2 DEF TransferInv
    <3>2. PICK k \in 0..11 : k = Len(elements)
      BY <3>1 DEF Read
    <3>3. /\ DOMAIN elements = 1..k
          /\ \A i \in 1..k : elements[i] = <<Item(i)[1], Encode(Item(i)[2])>>
      <4>1. /\ elements \in Seq(Nat \X Seq(Nat))
            /\ \A i \in 1..k : elements[i] = <<Item(i)[1], Encode(Item(i)[2])>>
        BY Zenon, <3>1, <3>2 DEF Read
      <4>2. DOMAIN elements = 1..Len(elements)
        BY Zenon, <4>1, LenProperties
      <4> QED BY Zenon, <3>2, <4>1, <4>2
    <3>4. \A i \in DOMAIN elements :
            elements[i] = IF i <= Len(Fields) THEN <<Fields[i][1], Encode(Fields[i][2])>>
                          ELSE <<63, <<0, 0, 0, 0>> >>
      <4> SUFFICES ASSUME NEW i \in 1..k
                   PROVE  elements[i] = IF i <= 10 THEN <<Fields[i][1], Encode(Fields[i][2])>>
                                        ELSE <<63, Zeros>>
        BY Zenon, <3>3, FieldsAre DEF Zeros
      <4>1. elements[i] = <<Item(i)[1], Encode(Item(i)[2])>>
        BY <3>3
      <4>2. CASE i <= 10
        BY <4>1, <4>2 DEF Item
      <4>3. CASE ~(i <= 10)
        <5>1. Item(i)[1] = 63 /\ Item(i)[2] = Zeros
          BY <4>3 DEF Item
        <5> QED BY <4>1, <4>3, <5>1, ZerosAreText
      <4> QED BY <4>2, <4>3
    <3>5. cursor \in 1..Len(payload) => Readable
      BY <3>0, <3>1, ElementAhead
    <3>6. cursor > Len(payload) => k = 11
      <4> SUFFICES ASSUME cursor > Len(payload), k # 11 PROVE FALSE
        OBVIOUS
      <4>1. /\ payload \in Seq(Nat) /\ cursor \in 1..(Len(payload) + 1)
            /\ SubSeq(payload, cursor, Len(payload)) = Encode(R[k])
        BY <3>1, <3>2 DEF Read
      <4>2. k \in 0..10
        OBVIOUS
      <4>3. Encode(R[k]) = << >>
        BY <4>1, SubSeqEmpty
      <4>4. Encode(R[k]) # << >>
        BY <3>0, <3>1, <4>2, RestNotEmpty
      <4> QED BY <4>3, <4>4
    <3>7. Len(Fields) + 1 = 11
      BY FieldsAre
    <3> QED BY Zenon, <2>2, <3>2, <3>4, <3>5, <3>6, <3>7 DEF QrReadsBack
  <2> QED BY <2>1, <2>2
<1> QED BY <1>1, TransferInvInit, TransferInvNext, PTL DEF Spec
=============================================================================
