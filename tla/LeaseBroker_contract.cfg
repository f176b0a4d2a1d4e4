\* The detailed broker implements the contract, keeps its pending limit and,
\* under fairness, answers every admitted call.
SPECIFICATION FairSpec
CONSTANTS
  Handlers = {h1, h2}
  NoHandler = NoHandler
  Agents = {a1}
  Keys = {k1}
  Operator = Operator
  NoKey = NoKey
  MinTtl = 1
  MaxTtl = 1
  TtlInputs = {1}
  MaxPending = 1
  Cooldown = 1
  Reuse = TRUE
  MaxRequests = 2
  MaxTokens = 1
  MaxClock = 1
  MaxFaults = 2
  MaxCrashes = 1
CHECK_DEADLOCK FALSE
INVARIANTS
  PendingWithinCap
PROPERTIES
  ImplementsContract
  EveryCallReturns
