SPECIFICATION Spec
CONSTANTS
  alice = alice
  bob = bob
  carol = carol
  none = none
  Absent = none
  Events <- NodeEvents
  Genuine <- NodeGenuine
  CreatedAt <- NodeCreatedAt
  IdOrder <- NodeIdOrder
  Bundles <- FileBundles
  Policies <- TestPolicies
  Subjects <- TestSubjects
  Limit = 4
INVARIANTS
  TypeOK
  TrustJustified
  AnswerExact
  QuietNodeAnswers
  EvidenceStands
  ListsComplete
