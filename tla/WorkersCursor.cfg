SPECIFICATION Spec
CONSTANTS
  C = 3
  CursorSpan = 4
  Settings <- MCOneWorker
INVARIANTS
  SleepsOnlyWhenIdle
