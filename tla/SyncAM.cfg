SPECIFICATION FairSpec
CONSTANTS
  BlkSz = 3
  NB = 4
  Wait = 2
  Delay = 2
  MaxTrouble = 2
INVARIANT TypeOK
INVARIANT TracksStation
INVARIANT NoStaleDiversity
PROPERTY SyncedOrStranded
