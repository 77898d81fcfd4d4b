SPECIFICATION Spec
CONSTANTS
  LastMonth = 100
  ServerOffset = 0
  Transactions = {1, 2}
  Amount <- Prices
  PlanOf <- Plans
  Moments <- Asking
  Instants <- Happening
  WindowMonths = 2
  Unpaid = Unpaid
  Tickets = {1, 2}
  Queues = {"q1", "q2", "q3"}
  BranchOf <- InBranches
  Staff = {"s1", "s2"}
  Managers <- TwoManagers
  EveryBranch = "all"
  HoursPerDay = 2
  DaysPerWeek = 2
  From = 1
  To = 4
  Horizon = 4
  NewRows <- SomeRows
  MaxChanges = 1
  RowCounts = {0, 1, 9, 17, 18, 40}
  HeaderLines = {1, 2}
  PeakLines = {0, 2}
  Starts <- AnyDay
  MaxPeriods = 30
  Accounts <- SomeAccounts
  Names <- SomeNames
  Cities <- SomeCities
  References <- SomeReferences
  Guis <- SomeGuis
  Amounts = {5, 2500000}
  Nothing = Nothing
  Offers <- Lists
  Events <- OneOrTwo
  MaxReadings <- TwoOrThree
  Purchases = {"p1", "p2"}
  NoPurchase = "none"
  Available = {"MULTICAIXA_EXPRESS", "BANK_TRANSFER", "CARD"}
INVARIANTS FinancesAgree ReportAddsUp LayoutSound RenewalsKeepTheDay QrReadsBack
           PageShowsSelection ConfirmedMeansPaid
CHECK_DEADLOCK FALSE
