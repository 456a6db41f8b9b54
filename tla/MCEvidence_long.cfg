SPECIFICATION Spec
CONSTANTS
  alice = alice
  bob = bob
  carol = carol
  none = none
  Absent = none
  Events <- NodeEvents
  Genuine <- NodeGenuine
  CreatedAt <- NodeCreatedAt
  IdOrder <- NodeIdOrder
  Bundles <- NoBundles
  Policies <- TestPolicies
  Subjects <- TestSubjects
  Limit = 2
INVARIANTS
  CreatedBundlesVerify
