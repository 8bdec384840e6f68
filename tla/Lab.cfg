SPECIFICATION FairSpec
CONSTANTS
  Targets <- MCTargets
  Media <- MCMedia
  Time <- MCTime
  Settings <- MCSettings
  PagesPerBlock = 2
  MaxRequests = 3
  NSlots = 3
  Limit = 20
INVARIANTS
  Scheduled
  FaultsContained
PROPERTIES
  ImplementsProvider
  AcceptedFixed
