\* Two groups and two hosts over three rounds; states published and dropped meanwhile.
SPECIFICATION FairSpec
CONSTANTS
  g1 = g1
  g2 = g2
  Hosts <- TwoHosts
  Groups <- TwoGroups
  Thresholds <- JustOne
  MaxThreshold = 1
  MaxPasses = 1
  MaxRounds = 3
  MaxPublish = 1
INVARIANTS RoundVerdict HalfOpenIsOneProbe
PROPERTIES OldRoundsHarmless RoundEnds
