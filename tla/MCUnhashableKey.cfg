SPECIFICATION Spec
CONSTANTS
  Names = {"a", "b", "f", "len", "puts", "first", "last", "rest", "push", "pop"}
  Radix = 256
  IntHalf = 128
  StackSize = 16
  GlobalsSize = 2
  MaxFrames = 4
  Programs <- UnhashableKeyPrograms
INVARIANTS
  UnhashableKeyIsReported
