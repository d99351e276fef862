SPECIFICATION FairSpec
CONSTANTS
  Products = {"rhsso", "cloud-resources"}
  CloudResources = "cloud-resources"
  WaitsForNamespace = {"rhsso"}
  Infix <- MCNoInfix
  MaxVersion = 2
  Ships <- MCShipsNew
  MaxQuota = 1
  StartFrom = "created"
  MaxDisturbances = 1
  MaxQuotaChanges = 0
PROPERTIES
  AnnouncedVersionReached
CHECK_DEADLOCK FALSE
