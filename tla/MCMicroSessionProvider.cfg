SPECIFICATION SessionSpec
CONSTANTS
  BufferSize = 1
  ErrorsSize = 2
  MaxPayloads = 2
  MaxWire = 1
  MaxFailures = 2
INVARIANT
  ReconnectsAreTheProviders
CHECK_DEADLOCK FALSE
