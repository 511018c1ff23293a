\* Two events that meet a change of the alert set and the shutdown, in any order, and its end.
SPECIFICATION FairSpec
CONSTANTS
  Capacity = 1
  Groups = {"round"}
  Supervisor = "supervisor"
  Publishers = {"round", "supervisor"}
  Channels <- OneChannel
  Limit = 1
  AlertSets <- OneSet
  MaxEvents = 2
  MaxSets = 1
  Requests = {"q"}
  RoundTypes = {"target"}
INVARIANTS NoResultLost NothingOutlives InFlightLimited OneInstancePerEvent
PROPERTIES Terminates
