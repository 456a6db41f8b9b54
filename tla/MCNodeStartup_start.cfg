SPECIFICATION Spec
CONSTANTS
  s1 = s1
  s2 = s2
  s3 = s3
  t1 = t1
  k1 = k1
  k2 = k2
  k3 = k3
  NoFile = none
  CutShort = short
  Servers <- StartServers
  Tools <- StartTools
  Address <- StartAddress
  Keys <- StartKeys
  MaxOld = 2
  MaxRows = 4
SYMMETRY StartSymmetry
INVARIANTS
  TypeOK
  OneIdentity
  NothingSkipped
  EveryRowOffered
PROPERTIES
  NumbersStand
