SPECIFICATION Spec
CONSTANTS
  Callers = {c1, c2}
  Freqs = {101, 103}
  UserGains = {0}
  GainTables <- E4kTable
  LinkFaults = {"stalled", "reset"}
  MaxStarts = 2
SYMMETRY CallerSymmetry
INVARIANT TypeOK
INVARIANT NoLostWakeup
INVARIANT OneLossPerStart
INVARIANT StaleReadsDropped
INVARIANT TunedAsAsked
INVARIANT GainMatchesTuner
CHECK_DEADLOCK FALSE
