SPECIFICATION Spec
CONSTANTS
  Releases = 3
  Workloads = {"app", "sidekiq"}
  Zones = {"a", "b"}
  Replicas = 2
  UpgradeMishaps = 1
  PodMishaps = 1
  AddonEvents = 3
INVARIANTS
  TypeOK
  OnlyHarmlessApproved
  DisruptionBounded
  DeletedOnlyOnRequest
PROPERTIES
  HarmlessInstalled
  WindowOpened
  RebalanceSettles
  ReportSettles
CHECK_DEADLOCK FALSE
