SPECIFICATION FairSpec
CONSTANTS
  alice = alice
  bob = bob
  none = none
  p1 = p1
  p2 = p2
  Procs <- OneProc
  Events <- BatchEvents
  Genuine <- BatchGenuine
  Absent = none
  Batches <- BatchBatches
INVARIANTS
  TypeOK
  AcceptedIsStored
  RejectionsStand
  EveryEventAnswered
PROPERTIES
  RequestsEnd
  RequestsAdvance
  ImplementsService
