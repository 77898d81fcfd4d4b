------------------------------ MODULE BackOffice ------------------------------
(***************************************************************************)
(* What FilaZero computes and shows outside its queues: the reports of the *)
(* platform and of an organization, the layout of the report as a          *)
(* document, the dates a subscription is paid to, the QR code of a bank    *)
(* transfer, and the pages of the web client.  They share no state, so a   *)
(* behaviour follows one of them, chosen at the start.                     *)
(***************************************************************************)
EXTENDS PlatformReports, AnalyticsReport, AnalyticsPdf, Renewals, BankQr,
        WebPages, CheckoutPages

VARIABLE area

backOfficeVars == <<area, reportVars, analyticsVars, pdfVars, renewalVars, qrVars,
                    pageVars, checkoutVars>>

-----------------------------------------------------------------------------
\* What is not followed is in some state it can be in, and stays there.

NoReportAsked == /\ asked = "overview" /\ now = 0 /\ createdAt = 0
                 /\ status = [t \in Transactions |-> "NONE"]
                 /\ paidAt = [t \in Transactions |-> Unpaid]
                 /\ answers = << >> /\ meanwhile = {}

NoAnalyticsAsked == /\ manager = CHOOSE m \in DOMAIN Managers : TRUE
                    /\ row = [t \in Tickets |-> CHOOSE r \in NewRows : TRUE]
                    /\ results = << >> /\ changes = 0 /\ idle = TRUE

NoDocument == /\ y = TopOfNewPage /\ page = 1 /\ todo = <<[what |-> "end"]>>
              /\ header = 16 /\ drawn = << >> /\ footers = << >>

NoSubscription == /\ interval = "MONTHLY" /\ periods = 0
                  /\ start = 0 /\ end = 0

NoTransfer == /\ input = << >> /\ payload = Null /\ cursor = 0 /\ elements = << >>

NoPageOpen == WebInit /\ screen = "ecra"

NoCheckout == CheckoutInit /\ payer = "customer" /\ ~subscribed

Init ==
  \/ /\ area = "platform" /\ ReportInit
     /\ NoAnalyticsAsked /\ NoDocument /\ NoSubscription /\ NoTransfer
     /\ NoPageOpen /\ NoCheckout
  \/ /\ area = "analytics" /\ AnalyticsInit
     /\ NoReportAsked /\ NoDocument /\ NoSubscription /\ NoTransfer
     /\ NoPageOpen /\ NoCheckout
  \/ /\ area = "document" /\ PdfInit
     /\ NoReportAsked /\ NoAnalyticsAsked /\ NoSubscription /\ NoTransfer
     /\ NoPageOpen /\ NoCheckout
  \/ /\ area = "subscription" /\ RenewalInit
     /\ NoReportAsked /\ NoAnalyticsAsked /\ NoDocument /\ NoTransfer
     /\ NoPageOpen /\ NoCheckout
  \/ /\ area = "transfer" /\ QrInit
     /\ NoReportAsked /\ NoAnalyticsAsked /\ NoDocument /\ NoSubscription
     /\ NoPageOpen /\ NoCheckout
  \/ /\ area = "pages" /\ WebInit
     /\ NoReportAsked /\ NoAnalyticsAsked /\ NoDocument /\ NoSubscription
     /\ NoTransfer /\ NoCheckout
  \/ /\ area = "checkout" /\ CheckoutInit
     /\ NoReportAsked /\ NoAnalyticsAsked /\ NoDocument /\ NoSubscription
     /\ NoTransfer /\ NoPageOpen

Next ==
  /\ \/ /\ area = "platform" /\ ReportNext
        /\ UNCHANGED <<analyticsVars, pdfVars, renewalVars, qrVars, pageVars, checkoutVars>>
     \/ /\ area = "analytics" /\ AnalyticsNext
        /\ UNCHANGED <<reportVars, pdfVars, renewalVars, qrVars, pageVars, checkoutVars>>
     \/ /\ area = "document" /\ PdfNext
        /\ UNCHANGED <<reportVars, analyticsVars, renewalVars, qrVars, pageVars, checkoutVars>>
     \/ /\ area = "subscription" /\ Renew
        /\ UNCHANGED <<reportVars, analyticsVars, pdfVars, qrVars, pageVars, checkoutVars>>
     \/ /\ area = "transfer" /\ QrNext
        /\ UNCHANGED <<reportVars, analyticsVars, pdfVars, renewalVars, pageVars, checkoutVars>>
     \/ /\ area = "pages" /\ WebNext
        /\ UNCHANGED <<reportVars, analyticsVars, pdfVars, renewalVars, qrVars, checkoutVars>>
     \/ /\ area = "checkout" /\ CheckoutNext
        /\ UNCHANGED <<reportVars, analyticsVars, pdfVars, renewalVars, qrVars, pageVars>>
  /\ UNCHANGED area

Spec == Init /\ [][Next]_backOfficeVars
=============================================================================
