SPECIFICATION SessionSpec
CONSTANTS
  MaxInt = 127
  IntHalf = 128
  Radix = 256
  StackSize = 12
  GlobalsSize = 6
  MaxFrames = 6
  Programs = {}
  Names <- SessionNames
  Lines <- SessionLines
  MaxLines = 4
INVARIANTS
  SessionIsOneProgram
  GlobalsAreSet
PROPERTIES
  ConstantsStay
  LeftFramesRest
