SPECIFICATION FairSpec
CONSTANTS
  Policies <- FourPolicies
  Grace = 1
  MaxChanges = 2
  MaxFaults = 1
INVARIANTS StallsAreReal NoStopAlarm
PROPERTY AnnouncedAtLast
CHECK_DEADLOCK FALSE
