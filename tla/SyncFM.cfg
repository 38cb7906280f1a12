SPECIFICATION FairSpec
CONSTANTS
  BlkSz = 3
  NB = 4
  Wait = 2
  Modes = {3, 17}
  PxDepth = 2
  MaxTrouble = 3
INVARIANT TypeOK
INVARIANT EventsMatchState
INVARIANT TracksStation
INVARIANT SessionsUnmixed
PROPERTY StaysIfVoted
