SPECIFICATION Spec
CONSTANTS
  Half = 4
  Avgs = {2, 4}
  Per = 2
  Seqs = 2
  Latency = 2
  MaxTrouble = 2
INVARIANT TypeOK
INVARIANT OnlyDue
INVARIANT NoDropout
INVARIANT HeadersRepaired
PROPERTY DueKept
