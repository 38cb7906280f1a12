SPECIFICATION FairSpec
CONSTANTS
  Callers = {c1}
  Freqs = {101}
  UserGains = {9}
  GainTables <- SomeTables
  LinkFaults = {"stalled", "eof"}
  MaxStarts = 2
PROPERTY CloseReturns
PROPERTY StartedReads
PROPERTY LossNoticed
PROPERTY LeaseSpec
CHECK_DEADLOCK FALSE
