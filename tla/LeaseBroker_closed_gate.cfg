\* ADR 0018:28, refuted by a handler that passed the gate before it closed.
SPECIFICATION Spec
CONSTANTS
  Handlers = {h1, h2}
  NoHandler = NoHandler
  Agents = {a1}
  Keys = {k1}
  Operator = Operator
  NoKey = NoKey
  MinTtl = 1
  MaxTtl = 2
  TtlInputs = {2}
  MaxPending = 2
  Cooldown = 1
  Reuse = TRUE
  MaxRequests = 2
  MaxTokens = 2
  MaxClock = 1
  MaxFaults = 2
  MaxCrashes = 1
CHECK_DEADLOCK FALSE
PROPERTIES
  ClosedGateRefuses
