SPECIFICATION PooledSpec
CONSTANTS
  Requests = {1, 2, 3, 4}
  Workers = {w}
  Sessions = {"v1", "v2"}
  Users = {"u"}
  Keys = {"a", "b", "c", "j", "k"}
  Events = {"e", "other"}
  TicketTypes = {"t"}
  Seats = {1}
  TicketEvent <- MCTicketEvent
  SeatEvent <- MCSeatEvent
  Total <- MCTotal
  TTL = 1
  BatchSize = 2
  MaxQuantity = 2
  MaxTime = 3
  MaxCrashes = 1
  PoolSize <- MCPoolSize
  MaxTimeouts = 1
  Workloads <- PoolWorkloads
  None = None
INVARIANTS
  LocksHaveConnections
PROPERTIES
  SoundEventuallyReleased
  EveryRequestAnswered
