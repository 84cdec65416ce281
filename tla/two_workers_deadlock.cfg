SPECIFICATION TwoBatchesSpec
CONSTANTS
  Requests = {1, 2, 3, 4, 5}
  Workers = {w1, w2}
  Sessions = {"v1", "v2"}
  Users = {"u"}
  Keys = {"a", "b", "c", "j", "k"}
  Events = {"e", "other"}
  TicketTypes = {"t", "v"}
  Seats = {}
  TicketEvent <- MCTicketEvent
  SeatEvent <- MCSeatEvent
  Total <- MCTotal
  TTL = 1
  BatchSize = 2
  MaxQuantity = 2
  MaxTime = 1
  MaxCrashes = 0
  Workloads <- TwoBatches
  None = None
INVARIANTS
  WorkersNeverDeadlock
