SPECIFICATION BadRowSpec
CONSTANTS
  Requests = {1, 2, 3}
  Workers = {w}
  Sessions = {"v1", "v2"}
  Users = {"u"}
  Keys = {"a", "b", "c", "j", "k"}
  Events = {"e", "other"}
  TicketTypes = {"t"}
  Seats = {}
  TicketEvent <- MCTicketEvent
  SeatEvent <- MCSeatEvent
  Total <- MCTotal
  TTL = 1
  BatchSize = 1
  MaxQuantity = 2
  MaxTime = 2
  MaxCrashes = 0
  Workloads <- BadRow
  None = None
PROPERTIES
  SoundEventuallyReleased
