SPECIFICATION Spec
CONSTANTS
  Callers = {c1}
  Freqs = {101}
  UserGains = {9}
  GainTables <- OneTable
  LinkFaults = {}
  MaxStarts = 2
INVARIANT ResetExclusive
CHECK_DEADLOCK FALSE
