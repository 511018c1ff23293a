\* One database from before the validators, opened and exported by the program.
SPECIFICATION Spec
CONSTANTS
  Hosts = {"a"}
  Places = {"p", "q"}
  Classes <- ClassesUsed
  Texts = {"t"}
  Ports = {"587"}
  Subjects <- DefaultOrText
  Bodies <- AnyBody
  Durations = {"10m", "60s", "5s"}
  Intervals = {"10m", "60s"}
  Handmade = {}
  Forms <- Filled
  Files <- BeforeValidators
  Uploads <- Uploaded
  MaxId = 4
  MaxOps = 1
  MaxCrashes = 0
  MaxEdits = 0
INVARIANTS ExportAlwaysAccepted
CHECK_DEADLOCK FALSE
