\* The clean-up loop among calls, failures and a restart.
SPECIFICATION FairSpec
CONSTANTS
  Handlers = {h1}
  Cleaner = cleaner
  Checkers = {}
  NoProc = NoProc
  BootstrapTtl = 1
  IdleTtl = 1
  AbsoluteTtl = 2
  SessionTtl = 1
  MaxIds = 3
  MaxClock = 2
  MaxFaults = 1
  MaxCrashes = 1
PROPERTIES
  ExpiredRemoved
