SPECIFICATION FairSpec
CONSTANTS
  Products = {"rhsso", "cloud-resources"}
  CloudResources = "cloud-resources"
  WaitsForNamespace = {"rhsso"}
  Infix <- MCNoInfix
  MaxVersion = 1
  Ships <- MCShipsNew
  MaxQuota = 2
  StartFrom = "absent"
  MaxDisturbances = 1
  MaxQuotaChanges = 1
PROPERTIES
  UninstallTerminates
  QuotaSettles
CHECK_DEADLOCK FALSE
