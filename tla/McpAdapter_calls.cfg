\* Two calls that may share an id, with a pair of ids int64 cannot tell apart.
SPECIFICATION AdapterFairSpec
CONSTANTS
  Ids = {i1, b1, b2}
  HugeIds = {b1, b2}
  HugeKey = HugeKey
  Calls = {c1, c2}
  NoKey = NoKey
  NoCall = NoCall
CHECK_DEADLOCK FALSE
INVARIANTS
  InflightExact
  RefusalsHold
  
PROPERTIES
  EveryCallAnswered
