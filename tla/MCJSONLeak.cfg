SPECIFICATION Spec
CONSTANTS
  Blocks = 9
  Literals <- MCLiterals
  NestingLimit = 2
  CircularLimit = 3
  Names <- MCNames
  Pins <- MCPins
  Commands <- MCCommands
  JsonString = 40
  Handles = {t1, t2}
  t1 = t1
  t2 = t2
  Ballasts <- MCMain
  Leaves <- MCLeaves
  Keys = {1, 2}
  Texts <- MCTexts
  Requests <- MCRequests
  Payloads <- MCPayloads
  MaxCalls = 5
  Longest = 5
PROPERTY GivesBack
CHECK_DEADLOCK FALSE
