SPECIFICATION Spec
CONSTANTS
  Products = {"rhsso", "rhssouser", "cloud-resources"}
  CloudResources = "cloud-resources"
  WaitsForNamespace = {"rhsso", "rhssouser"}
  Infix <- MCInfix
  MaxVersion = 1
  Ships <- MCShipsNew
  MaxQuota = 1
  StartFrom = "absent"
  MaxDisturbances = 2
  MaxQuotaChanges = 0
INVARIANTS
  TypeOK
PROPERTIES
  CloudResourcesLast
  UninstallIsComplete
CHECK_DEADLOCK FALSE
