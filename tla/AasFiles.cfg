SPECIFICATION FairSpec
CONSTANTS
  Lots = {1, 2, 3}
  First = {1, 2}
  Slots = 2
  Size <- Sizes
  Odd = {2}
  Tables <- TwoTables
  MaxServices = 2
  MaxTrouble = 1
INVARIANT TypeOK
INVARIANT FilesUnmixed
PROPERTY CompleteOnce
PROPERTY AllComplete
