CONSTANTS
  Handlers = {h1, h2}
SPECIFICATION FairSpec
INVARIANTS
  OnlyKnownMisuse
  NoThreadAtExit
  ExitNeedsAnswer
PROPERTIES
  AnswerEndsProcess
CHECK_DEADLOCK FALSE
