\* Lighthouse: versioned writes, deletion by value, every kind of initial cloud.
SPECIFICATION Spec
CONSTANTS
  CloudType = "tc_lighthouse"
  Tag = "auto"
  DomainRules <- OneRule
  Hosts <- OneHost
  Addresses <- V4
  Ports <- PortNames
  MaxRetries = 3
  BatchSize = 100
  RuleLimit = 100
  InitialClouds <- Clouds
  EditorRules <- Editors
  RetagTo <- TeamTag
  MaxEdits = 1
INVARIANTS DeferredIsConservative CalmSyncConverges
PROPERTIES NoStaleWrite ForeignUntouched
