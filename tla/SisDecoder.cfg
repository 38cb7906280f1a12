SPECIFICATION FairSpec
CONSTANTS
  Length <- TwoLengths
  Seqs = 4
  Limit = 3
  Sends <- SendSets
  MaxTrouble = 2
INVARIANT TypeOK
INVARIANT TextsWhole
INVARIANT EventsTellValues
PROPERTY AlertKept
PROPERTY LatestShown
PROPERTY AlertEnds
