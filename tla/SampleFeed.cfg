SPECIFICATION Spec
CONSTANTS
  Stages = 2
  WindowLen = 3
  Period = 64
  MaxChunk = 13
INVARIANT TypeOK
INVARIANT WindowsWhole
