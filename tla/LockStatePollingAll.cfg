CONSTANTS
  LockStatus <- MCLockStatus
  Terminal = {"Locked"}
  Interval = 2
  Rapid = 1
  Undefined = 1
  RetryDelay = 1
  NrOfRetries = 1
  Failures <- MCFailures
  Backoff <- MCBackoff
  SignalCap = 1
  Requests = {"lockstate"}
SPECIFICATION FairSpec
INVARIANT
  TypeOK
  ChangeReadInTime
PROPERTIES
  StateCatchesUp
  ShownIsRead
  OthersServed
