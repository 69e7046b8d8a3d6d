CONSTANTS
  MaxTimers = 4
SPECIFICATION FairSpec
INVARIANTS
  OnlyCurrentIsLive
  JoinCannotBlock
  OwnedOnce
  LiveIsOwned
PROPERTIES
  ImplementsTimeout
  OlderTimersDrain
