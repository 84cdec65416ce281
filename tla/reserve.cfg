SPECIFICATION Spec
CONSTANTS
  Requests = {1, 2, 3}
  Workers = {w}
  Sessions = {"v1", "v2"}
  Users = {"u"}
  Keys = {"a", "b", "c", "j", "k"}
  Events = {"e", "other"}
  TicketTypes = {"t"}
  Seats = {1, 2, 3, 9}
  TicketEvent <- MCTicketEvent
  SeatEvent <- MCSeatEvent
  Total <- MCTotal
  TTL = 1
  BatchSize = 2
  MaxQuantity = 2
  MaxTime = 3
  MaxCrashes = 1
  Workloads <- ReserveWorkloads
  None = None
INVARIANTS
  TypeOK
  StockInv
  NeverOversold
  NoDoubleSeat
  ParentChildAgreement
  IdempotentReplies
  RowInv
  NoWaitCycle
PROPERTIES
  NoEarlyExpiry
  ImplementsBoxOffice
