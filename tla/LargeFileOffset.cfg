SPECIFICATION LargeSpec
CONSTANTS
  DATA_PACKET_DATA_SIZE = 3
  UINT_MAX = 15
  INIT_WINDOW_SIZE = 2
  FileSizes = {50}
  MaxBytes = 30
CHECK_DEADLOCK FALSE
INVARIANT FinishedIsWhole
