SPECIFICATION Spec
CONSTANTS
  Pc <- MCPc
  RESET_VAL = 0
  plus4 <- MCPlus4
  Programs <- MCPrograms
  BtbIndex <- MCOne
  BtbTag <- MCPc
  btbIndex <- MCSameIndex
  btbTag <- MCWordTag
  HintIndex <- MCTwo
  HintTag <- MCTwo
  hintIndex <- MCHintIndex
  hintTag <- MCHintTag
INVARIANTS
  TypeOK
  FetchMatchesPc
  PairLegal
  PredictionStatic
  CommittedPath
