SPECIFICATION Spec
CONSTANTS
  BUF_SIZE = 3
  MaxSegment = 5
  MaxRead = 4
  MaxArrivals = 9
  DroppedModulus <- MCDroppedModulus
  DroppedAtBoot <- MCDroppedAtBoot
INVARIANTS
  TypeOK
  RingInv
  InOrder
  LossAccounted
  CopiesInBounds
PROPERTY
  ImplementsStream
