SPECIFICATION Spec
CONSTANTS
  Products = {"rhsso", "cloud-resources"}
  CloudResources = "cloud-resources"
  WaitsForNamespace = {"rhsso"}
  Infix <- MCNoInfix
  MaxVersion = 1
  Ships <- MCShipsNew
  MaxQuota = 2
  StartFrom = "legacy"
  MaxDisturbances = 2
  MaxQuotaChanges = 1
INVARIANTS
  OneFormat
PROPERTIES
  QuotaMeansConfigured
CHECK_DEADLOCK FALSE
