SPECIFICATION Spec
CONSTANTS
  Surfaces = {"organization"}
  Transactions = {t1, t2}
  Method <- ByTransfer
  Copies = 1
  Years = {2026, 2027}
  Handlers = {h1, h2}
  Operations = {"assignPlan"}
  Interval = 1
  TrialDays = 1
  MaxTime = 0
  MaxAborts = 1
  NoEvent = NoEvent
  NoTransaction = NoTransaction
SYMMETRY Symmetry
INVARIANTS ChainUnbroken ReceiptAtMostOnce AckedMeansApplied
PROPERTY ImplementsLedger
