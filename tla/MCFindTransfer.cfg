SPECIFICATION Spec
CONSTANTS
  Queues = {qA, qB}
  Users = {u1}
  Guest = guest
  Procs = {p1, p2}
  NoProc = noProc
  NoQueue = noQueue
  MaxTickets = 1
  MaxSeq = 2
  Requests <- TransferMix
PROPERTIES TerminalNeverWaits
\* With no queue OPEN nobody has anything to do.
CHECK_DEADLOCK FALSE
