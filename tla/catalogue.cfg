SPECIFICATION Spec
CONSTANTS
  Calls = {1, 2, 3, 4, 5, 7, 8, 9}
  Positions = {"A", "B", "C"}
  Workloads <- CatalogueWorkloads
  Before <- Past
  MaxCrashes = 1
  None = None
INVARIANTS
  ReferencesHold
  SeatBatchesWhole
PROPERTIES
  ResetsTakeWholeEvents
  EveryCallAnswered
