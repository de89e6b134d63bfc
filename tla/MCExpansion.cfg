SPECIFICATION Spec
CONSTANTS
  MaxInt = 127
  IntHalf = 128
  Radix = 256
  Names <- MacroNames
  Sources <- ThriceCalledSources
INVARIANTS
  ExpansionIsSubstitution
