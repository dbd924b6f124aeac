SPECIFICATION AsSpec
CONSTANTS
  Peers = {1, 2, 3}
  MAX_STREAM_CLIENTS = 2
  MaxEvents = 2
INVARIANT StreamInOrder
PROPERTY NewestReaches
CHECK_DEADLOCK FALSE
