\* Databases of five ages, requests, exports and imports, a fault and a direct edit.
SPECIFICATION Spec
CONSTANTS
  Hosts = {"a"}
  Places = {"p", "q"}
  Classes <- ClassesUsed
  Texts = {"t"}
  Ports = {"587"}
  Subjects <- DefaultOrText
  Bodies <- AnyBody
  Durations = {"10m", "60s", "5s"}
  Intervals = {"10m", "60s"}
  Handmade <- Garbled
  Forms <- Filled
  Files <- Ages
  Uploads <- Uploaded
  MaxId = 4
  MaxOps = 2
  MaxCrashes = 1
  MaxEdits = 1
INVARIANTS NeverWidened ExportAccepted ImportExact RestartKeeps
CHECK_DEADLOCK FALSE
