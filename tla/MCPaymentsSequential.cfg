SPECIFICATION FairSpec
CONSTANTS
  Surfaces = {"organization", "customer"}
  Transactions = {t1, t2}
  Method <- Mixed
  Copies = 1
  Years = {2026}
  Handlers = {h1}
  Operations = {"proof", "declined", "lost"}
  Interval = 1
  TrialDays = 1
  MaxTime = 2
  MaxAborts = 1
  NoEvent = NoEvent
  NoTransaction = NoTransaction
PROPERTIES PaymentBuysPeriod PaidStaysPaid CollectedIsApplied
CHECK_DEADLOCK FALSE
