SPECIFICATION Spec
CONSTANTS
  Handlers = {h1, h2}
  Orgs <- TwoOrgs
  Branches <- SomeBranches
  Counters <- SomeCounters
  QueueIds <- SomeQueues
  Users = {"u1", "u2", "u3"}
  Candidates = {"u3"}
  MemberIds = {1, 2, 3, 4}
  maxBranches = 2
  maxQueuesPerBranch = 2
  maxStaff = 2
  Places <- SomePlaces
  Statuses = {"ACTIVE", "SUSPENDED"}
  Beginnings <- Starts
  MaxRequests = 3
INVARIANTS QuotasHold ManagerKept RoleCoversMemberships NoOrphans
SYMMETRY Symmetry
CHECK_DEADLOCK FALSE
