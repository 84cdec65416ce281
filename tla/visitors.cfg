SPECIFICATION VisitorsSpec
CONSTANTS
  Requests = {1, 2}
  Workers = {}
  Sessions = {None, 1, 2, 11, 12, 13, 14, 90, 91}
  Users = {1, 2, 11, 12, 13, 14, 90, 91}
  Keys = {"k"}
  Events = {"e"}
  TicketTypes = {"t"}
  Seats = {}
  TicketEvent <- MCTicketEvent
  SeatEvent <- MCSeatEvent
  Total <- MCTotal
  TTL = 1
  BatchSize = 1
  MaxQuantity = 1
  MaxTime = 1
  MaxCrashes = 1
  Workloads <- MCWorkloads
  Visits = {11, 12, 13, 14, 90, 91}
  Browsers = {"b", "c"}
  Addresses = {"a@x", "c@x"}
  Passwords = {"w"}
  Normal <- MCNormal
  SessionTTL = 1
  InFlight <- MCInFlight
  VisitWorkloads <- MCVisitWorkloads
  Unsure = Unsure
  None = None
INVARIANTS
  BooksForWhoLoggedIn
  SettledByItsVisitor
PROPERTIES
  VisitorsFindTheirs
