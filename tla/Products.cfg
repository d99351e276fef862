SPECIFICATION Spec
CONSTANTS
    Scenarios <- MCScenarios
INVARIANTS
    TypeOK
    FinalizersServed
    DataOutlivesWorkload
PROPERTIES
    SecretsKept
    StageSettles
CHECK_DEADLOCK FALSE
