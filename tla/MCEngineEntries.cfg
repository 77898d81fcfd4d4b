SPECIFICATION Spec
CONSTANTS
  Queues = {qA, qB}
  Users = {u1}
  Guest = guest
  Procs = {p1, p2}
  NoProc = noProc
  NoQueue = noQueue
  MaxTickets = 1
  MaxSeq = 2
  Requests <- EntryRequests
SYMMETRY Symmetry
PROPERTIES OnlyOpenQueuesAdmit
