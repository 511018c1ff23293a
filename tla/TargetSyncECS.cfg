\* ECS: no versions, deletion by rule id, a batch per rule, two hosts.
SPECIFICATION Spec
CONSTANTS
  CloudType = "ali_ecs"
  Tag = "auto"
  DomainRules <- TwoHosts
  Hosts <- HostsAB
  Addresses <- Single
  Ports <- PortNames
  MaxRetries = 3
  BatchSize = 1
  RuleLimit = 100
  InitialClouds <- FewClouds
  EditorRules <- Editors
  RetagTo <- NoTags
  MaxEdits = 1
INVARIANTS CountsConfirmed
PROPERTIES IsSafeReconciler
