SPECIFICATION Spec
CONSTANTS
  Modes = {"c", "ec"}
  MaxLines = 2
  MaxOutputs <- MCMaxOutputs
INVARIANTS
  TypeOK
  SentInOrder
  StrandedByRace
  FirstAnswer
PROPERTIES
  Converses
  LinesGoOut
  ClientEnds
