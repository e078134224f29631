SPECIFICATION FairSpec
CONSTANTS
  Action = {unlock}
  NoAction = NoAction
  Query <- OnlyLockState
  NrOfRetries = 0
  MaxReboots = 0
  MaxRestarts = 1
PROPERTY ActionTaken
