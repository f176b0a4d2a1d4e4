\* The audit file, the broker's processes, the limiter and the decisions.
SPECIFICATION HostSpec
CONSTANTS
  Brokers = {b1, b2}
  Auditors = {a1}
  MaxRecords = 4
  MaxFaults = 2
  MaxPowerLosses = 2
  Procs = {p1, p2, p3}
  Clis = {c1, c2, c3}
  NoProc = NoProc
  Modes <- AllModes
  Workers = {w1, w2, w3}
  Buckets = {"operator", "agent"}
  ConfiguredMax = 2
  ConfiguredWindow = 2
  MaxTime = 4
  MaxRemoteRequests = 2
  MaxRemoteLeases = 3
  MaxTroubles = 3
  Runs = {r1, r2}
  MaxIssued = 2
  Tokens <- SetupTokens
  Keys <- SetupKeys
CHECK_DEADLOCK FALSE
INVARIANTS
  CleanChain
  AckedRecordsKept
  SocketReachesServer
  OneWriter
  RecordedWhenSolo
  FailuresBounded
  ExternalStateSound
  
  SetupSound

  
