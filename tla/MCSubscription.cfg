SPECIFICATION Spec
CONSTANTS
  BufferSize = 2
  ErrorsSize = 2
  MaxPayloads = 4
  MaxWire = 2
INVARIANTS
  DeliveredInOrder
  NoLossWhileOpen
  EndHasCause
PROPERTIES
  ReaderEnds
  ImplementsFeed
CHECK_DEADLOCK FALSE
