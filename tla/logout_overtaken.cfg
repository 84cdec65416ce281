SPECIFICATION Spec
CONSTANTS
  Requests = {1, 2, 3, 4, 5}
  Browsers = {"b", "c"}
  Addresses = {"a@x", "A@x", "c@x"}
  Passwords = {"v", "w"}
  Normal <- MCNormal
  SessionTTL = 1
  InFlight <- Overlapped
  MaxTime = 1
  MaxCrashes = 0
  Workloads <- OneBrowser
  None = None
INVARIANTS
  LogoutIsFinal
