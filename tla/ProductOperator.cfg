SPECIFICATION FairSpec
CONSTANTS
  Serial = TRUE
  Executors = {e1, e2}
  MaxRelease = 2
  MaxPlans = 4
  MaxFaults = 2
  MaxFailures = 1
  MaxBroken = 1
  MaxEdits = 1
INVARIANTS
  TypeOK
  CleanSlate
  IInv
PROPERTIES
  HealthyKept
  BackupBeforeApproval
  SettlesUnlessStranded
