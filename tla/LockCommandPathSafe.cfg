SPECIFICATION Spec
CONSTANTS
  Action = {unlock, lock}
  NoAction = NoAction
  Query <- OnlyLockState
  NrOfRetries = 1
  MaxReboots = 1
  MaxRestarts = 1
INVARIANTS
  TypeOK
  LockStateRefreshed
  RebootAtMostOnce
PROPERTY
  ActionsServed
