SPECIFICATION Spec
CONSTANTS
  Requests = {1, 2, 3}
  Workers = {w}
  Sessions = {"v1", "v2"}
  Users = {"u"}
  Keys = {"a", "b", "c", "j", "k"}
  Events = {"e", "other"}
  TicketTypes = {"t"}
  Seats = {1, 2}
  TicketEvent <- MCTicketEvent
  SeatEvent <- MCSeatEvent
  Total <- MCTotal
  TTL = 1
  BatchSize = 2
  MaxQuantity = 2
  MaxTime = 2
  MaxCrashes = 0
  Workloads <- MixedWorkloads
  None = None
INVARIANTS
  UnavailableMeansHeld
