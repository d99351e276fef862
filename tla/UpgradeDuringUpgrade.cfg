SPECIFICATION FairSpec
CONSTANTS
  Products = {"rhsso", "cloud-resources"}
  CloudResources = "cloud-resources"
  WaitsForNamespace = {"rhsso"}
  Infix <- MCNoInfix
  MaxVersion = 2
  Ships <- MCShipsNew
  MaxQuota = 1
  StartFrom = "absent"
  MaxDisturbances = 0
  MaxQuotaChanges = 0
PROPERTIES
  VersionReached
CHECK_DEADLOCK FALSE
