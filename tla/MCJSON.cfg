SPECIFICATION Spec
CONSTANTS
  Blocks = 9
  Literals <- MCLiterals
  NestingLimit = 2
  CircularLimit = 3
  Names <- MCNames
  Pins <- MCPins
  Commands <- MCCommands
  JsonString = 40
  Handles = {t1, t2}
  t1 = t1
  t2 = t2
  Ballasts <- MCBallasts
  Leaves <- MCLeaves
  Keys = {1, 2}
  Texts <- MCTexts
  Requests <- MCRequests
  Payloads <- MCPayloads
  MaxCalls = 5
  Longest = 5
INVARIANTS HeapSound HeapIsForest TextsReadBack AcceptsJSON ComparesTrees PublishedIsAsked
SYMMETRY Symmetric
CHECK_DEADLOCK FALSE
