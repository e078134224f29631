CONSTANTS
  Writers = {net, web}
  WebTask = web
  LoggerTask = logger
  Nobody = Nobody
  QueueLen = 1
  MaxSize = 1
  Disk = 7
  MaxMessages = 3
SPECIFICATION FairSpec
INVARIANTS
  TypeOK
  
PROPERTIES
  ClearedAfterSent
  WritersReturn
  LoggerRests
CHECK_DEADLOCK FALSE
