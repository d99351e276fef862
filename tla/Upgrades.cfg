SPECIFICATION Spec
CONSTANTS
  Products = {"rhsso", "cloud-resources"}
  CloudResources = "cloud-resources"
  WaitsForNamespace = {"rhsso"}
  Infix <- MCNoInfix
  MaxVersion = 2
  Ships <- MCShipsSame
  MaxQuota = 1
  StartFrom = "absent"
  MaxDisturbances = 2
  MaxQuotaChanges = 0
INVARIANTS
  FinalizersAfterPreflight
  NoOrphans
  VersionMeansDone
  IInv
CHECK_DEADLOCK FALSE
