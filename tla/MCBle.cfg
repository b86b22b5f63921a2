SPECIFICATION BleSpec
CONSTANTS
  Base = 4
  maxBLEMessageSize = 2
  BufferSize = 2
  Payloads <- MCPayloads
  MaxMessages = 3
  MaxFragment = 4
  MaxFaults = 2
INVARIANTS MessagesIntact NoneMissing BufferBounded
CHECK_DEADLOCK FALSE
