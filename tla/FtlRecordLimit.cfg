SPECIFICATION Spec
CONSTANTS
  LpnCount = 2
  DataBlocks = 3
  PPB = 3
  Sectors = 1
  MaxHostDeltas = 1
  JournalSlots = 7
  RecordLimit = 9
  MaxWrites = 9
  Settings <- MCRecordLimit
PROPERTIES
  RecordsReserved
CHECK_DEADLOCK FALSE
