SPECIFICATION EnginesSpec
CONSTANTS
  Names <- EngineNames
  Radix = 31
  IntHalf = 128
  StackSize = 128
  GlobalsSize = 4
  MaxFrames = 16
  Programs = {}
  EngineRuns <- AllRuns
INVARIANTS
  EnginesAgree
