CONSTANTS
  Ids = {1, 2}
  NrOfRetries = 2
  MaxEntries = 1
  MaxRequests = 1
  MaxChanges = 1
  Tables <- MCTables
  Edits <- MCEdits
  Commands <- MCCommands
SPECIFICATION FairSpec
INVARIANT
  TypeOK
PROPERTIES
  
  IdsConverge
  HandlerReturns
