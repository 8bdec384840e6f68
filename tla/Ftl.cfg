SPECIFICATION BothSpec
CONSTANTS
  LpnCount = 2
  DataBlocks = 3
  PPB = 3
  Sectors = 2
  MaxHostDeltas = 1
  JournalSlots = 7
  RecordLimit = 1000
  MaxWrites = 7
  Settings <- MCSettings
INVARIANTS
  NeverQuarantined
  TablesSound
PROPERTIES
  ContractHolds
  ReportsTrue
  Progress
CHECK_DEADLOCK FALSE
