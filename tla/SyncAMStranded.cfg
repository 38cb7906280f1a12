SPECIFICATION FairSpec
CONSTANTS
  BlkSz = 2
  NB = 4
  Wait = 2
  Delay = 2
  MaxTrouble = 1
PROPERTY MeasuresAgain
