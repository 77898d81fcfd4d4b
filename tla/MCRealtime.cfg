SPECIFICATION FairSpec
CONSTANTS
  Queues = {q1, q2}
  Watchers = {w1}
  Operations = {"transition", "transferTicket", "updateQueue"}
  MaxVersion <- Once
  MaxFetches = 2
  MaxFaults = 1
INVARIANTS QuietShowsCurrent
PROPERTIES EventuallyCurrent
