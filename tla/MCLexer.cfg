SPECIFICATION Spec
CONSTANTS
  Letters = {"f", "n"}
  Digits = {"7"}
  Others = {"@"}
  Texts <- SomeTexts
INVARIANTS
  EofComesInTime
PROPERTIES
  TokensSpellTheText
  TokensAreLongest
