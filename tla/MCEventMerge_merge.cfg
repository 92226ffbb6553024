SPECIFICATION Spec
CONSTANTS
  d1 = d1
  d2 = d2
  Device = {d1, d2}
  Remark = {1}
  Revision = {2}
  Retraction = {3}
  Act = {4, 5}
  Target <- Corrected
  Chunk = 2
  MaxDocs = 2
  MaxLost = 0
  MaxCrashes = 1
INVARIANTS
  Supreme
  Convergent
  DerivedIsFold
  UnpublishedIsDirty
PROPERTIES
  Implements
SYMMETRY Devices
CHECK_DEADLOCK FALSE
