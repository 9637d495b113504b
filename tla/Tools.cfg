SPECIFICATION FairSpec
CONSTANTS
  a1 = a1
  a2 = a2
  Precision = 2
  Half = 8
  Digits = 4
  Wei <- SomeWei
  Decimals = {0, 1, 2, 3, 4}
  Amounts <- SomeAmounts
  Limits = {0, 1, 7, 8, 9, 10, 15}
  Texts <- SomeTexts
  Lines = {a1, a2, None}
  None = None
  Files <- SomeFiles
  Balances = {0, 1, 16}
  MaxLines = 6
INVARIANTS WeiSurvives ConversionsRight ScanComplete
PROPERTIES ScanEnds
CHECK_DEADLOCK FALSE
