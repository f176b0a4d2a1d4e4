\* RUNBOOK.md:117, refuted by a write after one whose sync failed.
SPECIFICATION Spec
CONSTANTS
  Brokers = {b1, b2}
  Auditors = {}
  MaxRecords = 3
  MaxFaults = 2
  MaxPowerLosses = 0
SYMMETRY Symmetry
CHECK_DEADLOCK FALSE
INVARIANTS
  RestartReopens
