SPECIFICATION FairSpec
CONSTANTS
  Serial = TRUE
  Executors = {e1}
  MaxRelease = 2
  MaxPlans = 4
  MaxFaults = 0
  MaxFailures = 0
  MaxBroken = 0
  MaxEdits = 0
PROPERTIES
  BackupBeforeUpgrade
