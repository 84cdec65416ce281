SPECIFICATION Spec
CONSTANTS
  Calls = {1, 2, 3, 4, 5, 7, 8, 9}
  Positions = {"A", "B", "C"}
  Workloads <- LateSeats
  Before <- Past
  MaxCrashes = 0
  None = None
PROPERTIES
  ConflictMeansExists
