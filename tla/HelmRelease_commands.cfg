SPECIFICATION Spec
CONSTANTS
  deployment = deployment
  statefulset = statefulset
  Workloads <- Both
  StatefulSets <- Stateful
  MaxReplicas = 2
  Timeout = 2
  Grace = 1
  MaxCommands = 3
CHECK_DEADLOCK FALSE
INVARIANTS SecretsRemoved GivesUpInTime ReadyWasSeen OwnedDeleted
PROPERTIES ReportsOnce ClaimsRetained CommandEnds
