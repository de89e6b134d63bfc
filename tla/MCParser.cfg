SPECIFICATION Spec
CONSTANTS
  MaxInt = 127
  MaxSteps = 3
INVARIANTS
  NoTokenIsLost
  NilIsReported
  StatementsParseAlone
  ParsesWhatIsWritten
