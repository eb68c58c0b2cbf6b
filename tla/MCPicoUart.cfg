SPECIFICATION FairSpec
CONSTANTS
  TxSize = 3
  RxSize = 3
  FifoDepth = 2
  TxTrigger = 1
  MaxOp = 3
  MaxTx = 5
  MaxRx = 4
INVARIANTS
  TypeOK
  SentInOrder
  TxArmed
  ReceivedInOrder
PROPERTIES
  AllSent
  RxServed
