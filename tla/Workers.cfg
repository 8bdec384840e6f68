SPECIFICATION FairSpec
CONSTANTS
  C = 2
  CursorSpan = 4
  Settings <- MCSettings
INVARIANTS
  NoLostWakeup
  OneOwner
PROPERTIES
  ImplementsExecutor
  Progress
