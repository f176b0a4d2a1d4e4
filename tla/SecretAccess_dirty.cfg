\* Readers between the steps of a mutation that fails and is undone.
SPECIFICATION AccessSpec
CONSTANTS
  Handlers = {h1}
  NoHandler = NoHandler
  Agents = {a1}
  Keys = {k1}
  Operator = Operator
  NoKey = NoKey
  MinTtl = 1
  MaxTtl = 1
  TtlInputs = {1}
  MaxPending = 2
  Cooldown = 1
  Reuse = TRUE
  MaxRequests = 1
  MaxTokens = 1
  MaxClock = 1
  MaxFaults = 2
  MaxCrashes = 1
  Readers = {g1, g2}
  SecretCount = 2
  Files = {f1, f2}
SYMMETRY Symmetry
CHECK_DEADLOCK FALSE
INVARIANTS
  LeaseImpliesApproved
  SeenApprovalBacked
  AccessAuditGated
  LostResultClosesGate
  EnvPathAsApproved
