SPECIFICATION Spec
CONSTANTS
  alice = alice
  bob = bob
  none = none
  p1 = p1
  p2 = p2
  Procs <- TwoProcs
  Events <- SharedEvents
  Genuine <- SharedGenuine
  Absent = none
  Batches <- SharedBatches
INVARIANTS
  ClearedFits
  UniqueIds
  RevocationsResolve
  ProjectionExact
PROPERTIES
  ImplementsService
