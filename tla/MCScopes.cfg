SPECIFICATION Spec
CONSTANTS
  Names = {"a", "len"}
  Builtins <- MCBuiltins
  MaxDepth = 4
  MaxDefinitions = 2
  MaxParameters = 1
INVARIANTS
  TypeOK
  CapturesAreFaithful
  SlotsExist
  SlotsAreNotShared
  AccessIsAddressable
PROPERTY
  UsesFollowLexicalScoping
