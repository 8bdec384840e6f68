SPECIFICATION FairSpec
CONSTANTS
  Channels <- MCChannels
  Credits = 3
  Charges = {1}
  MaxRequests = 4
  Settings <- MCSettings
INVARIANTS
  HealthyNeverPoisoned
  OneResultEach
  Certified
PROPERTIES
  Progress
