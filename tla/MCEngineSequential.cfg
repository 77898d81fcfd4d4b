SPECIFICATION Spec
CONSTANTS
  Queues = {qA, qB}
  Users = {u1, u2}
  Guest = guest
  Procs = {p1}
  NoProc = noProc
  NoQueue = noQueue
  MaxTickets = 3
  MaxSeq = 3
  Requests <- OneAtATimeRequests
SYMMETRY Symmetry
INVARIANTS CurrentIsInProgress CachedPositions
PROPERTIES ImplementsLifecycle PositionNoticesExact
