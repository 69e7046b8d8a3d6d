CONSTANTS
  InitialRtt = 9
  Rtts = {0, 2, 5}
  ClockSteps = {3, 12}
  MaxSteps = 1
  MaxAge = 12
SPECIFICATION FairSpec
INVARIANTS
  EstimateWithinSamples
  KarnRule
PROPERTIES
  EstimateStuckBelow
  SettlesWithoutMargin
