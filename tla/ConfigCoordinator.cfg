\* Two changes and a crash, from every small configuration.
SPECIFICATION Spec
CONSTANTS
  r1 = r1
  r2 = r2
  Nobody = Nobody
  Requests <- TwoRequests
  Values <- TwoValues
  Default = "default"
  Bundles <- OneBundle
  MaxId = 2
  MaxCrashes = 1
INVARIANTS RefsClosed PublishedIsCommitted AnswersAreTrue WatchersInformed
PROPERTIES IsRegister
