SPECIFICATION FairSpec
CONSTANTS
  Products = {"rhsso", "cloud-resources"}
  CloudResources = "cloud-resources"
  WaitsForNamespace = {"rhsso"}
  Infix <- MCNoInfix
  MaxVersion = 1
  Ships <- MCShipsNew
  MaxQuota = 2
  StartFrom = "absent"
  MaxDisturbances = 1
  MaxQuotaChanges = 2
PROPERTIES
  QuotaSettles
CHECK_DEADLOCK FALSE
