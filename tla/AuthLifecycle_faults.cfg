\* Two handlers, the clean-up loop and session checks, failures and a restart.
SPECIFICATION Spec
CONSTANTS
  Handlers = {h1, h2}
  Cleaner = cleaner
  Checkers = {k1}
  NoProc = NoProc
  BootstrapTtl = 1
  IdleTtl = 1
  AbsoluteTtl = 2
  SessionTtl = 1
  MaxIds = 3
  MaxClock = 1
  MaxFaults = 2
  MaxCrashes = 1
SYMMETRY Symmetry
INVARIANTS
  DurableUnlessClosed
  OneGrantPerBootstrap
  RevocationHolds
  AckedCredentialKept
  AdmittedNotRevoked
