\* A rule that others re-tag in place between S1 and the delete.
SPECIFICATION FairSpec
CONSTANTS
  CloudType = "ali_ecs"
  Tag = "auto"
  DomainRules <- OneRule
  Hosts <- OneHost
  Addresses <- V4
  Ports <- PortNames
  MaxRetries = 3
  BatchSize = 100
  RuleLimit = 100
  InitialClouds <- OldCloud
  EditorRules <- NoEditor
  RetagTo <- TeamTag
  MaxEdits = 1
PROPERTIES ForeignUntouched
