SPECIFICATION Spec
CONSTANTS
  HeaderLen = 2
  CodewordLen = 4
  CccSize = 7
  AasSize = 7
  Shapes <- AllShapes
  PsdSchedule <- PsdMessages
  MaxPsd = 3
  CccMessage <- LengthThree
  Width = 2
  FixedLen = 3
  MaxTrouble = 1
INVARIANT TypeOK
INVARIANT PdusAsSent
INVARIANT FramesHanded
INVARIANT PciRead
