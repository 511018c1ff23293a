\* CVM: versioned writes, deletion by index, a local rule limit, an IPv6 rule.
SPECIFICATION Spec
CONSTANTS
  CloudType = "tc_cvm"
  Tag = "auto"
  DomainRules <- TwoRules
  Hosts <- OneHost
  Addresses <- V4V6
  Ports <- PortNames
  MaxRetries = 3
  BatchSize = 100
  RuleLimit = 4
  InitialClouds <- FewClouds
  EditorRules <- Editors
  RetagTo <- TeamTag
  MaxEdits = 1
INVARIANTS ResultIsTrue
PROPERTIES ForeignUntouched MakeBeforeBreak
