SPECIFICATION Spec
CONSTANTS
  Requests = {1, 2, 3, 4, 5}
  Browsers = {"b", "c", "d"}
  Addresses = {"a@x", "A@x", "c@x"}
  Passwords = {"v", "w"}
  Normal <- MCNormal
  SessionTTL = 1
  InFlight <- MCInFlight
  MaxTime = 2
  MaxCrashes = 1
  Workloads <- SessionWorkloads
  None = None
INVARIANTS
  TypeOK
  RegistrationAnswers
  SessionActsFor
  LogoutIsFinal
PROPERTIES
  LoginLinks
