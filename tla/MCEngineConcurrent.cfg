SPECIFICATION Spec
CONSTANTS
  Queues = {qA, qB}
  Users = {u1, u2}
  Guest = guest
  Procs = {p1, p2}
  NoProc = noProc
  NoQueue = noQueue
  MaxTickets = 2
  MaxSeq = 2
  Requests <- OverlappingRequests
SYMMETRY Symmetry
INVARIANTS TypeOK UniqueNumbers OneActivePerUserPerQueue OneCalled
PROPERTIES CalledFromWaiting ImplementsDispenser
