SPECIFICATION ReportedSpec
CONSTANTS
  Requests = {1, 2, 3, 4}
  Workers = {w}
  Sessions = {"v1", "v2"}
  Users = {"u"}
  Keys = {"a", "b", "c", "j", "k"}
  Events = {"e", "other"}
  TicketTypes = {"t"}
  Seats = {1, 2}
  TicketEvent <- MCTicketEvent
  SeatEvent <- MCSeatEvent
  Total <- MCTotal
  TTL = 1
  BatchSize = 1
  MaxQuantity = 2
  MaxTime = 3
  MaxCrashes = 1
  Workloads <- LifecycleWorkloads
  Shown = "e"
  StaleTolerance = 1
  Audited <- AuditedWorkloads
  AuditFrom = 2
  None = None
INVARIANTS
  StockAccounting
  AcknowledgedIsDurable
  GetIsCoherent
  InventoryShowsSales
  SeatsListedOnce
  AuditBlamesTheLost
PROPERTIES
  SettledIsFinal
  ImplementsBoxOffice
