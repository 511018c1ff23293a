\* Every interleaving of loop, coordinator, requests, ticks and Stop: safety,
\* and what must happen.
SPECIFICATION FairSpec
CONSTANTS
  Intervals <- Hours
  Clients <- One
  MaxPublish = 2
INVARIANTS DoneMeansQuiet AtMostOneLateRound NoRoundAfterPause NoLostWakeup
PROPERTIES RequestsServed StopCompletes Settles RoundsRecur
