SPECIFICATION RunSpec
CONSTANTS
  Radix = 32
  IntHalf = 512
  IntBytes = 2
  ChecksumSize = 2
  MaxFaults = 2
  StackSize = 6
  GlobalsSize = 2
  MaxFrames = 3
  Bytecodes <- SomeBytecodes
INVARIANTS
  WholeFilesLoad
  OnlyWholeFilesLoad
  OnlyShortFilesPanic
  LoadedCodeStaysInBounds
