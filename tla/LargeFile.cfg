SPECIFICATION FairLargeSpec
CONSTANTS
  DATA_PACKET_DATA_SIZE = 3
  UINT_MAX = 15
  INIT_WINDOW_SIZE = 2
  FileSizes = {0, 20, 50}
  MaxBytes = 48
CHECK_DEADLOCK FALSE
INVARIANTS
  LargeTypeOK
  WrittenInPlace
  FinishedMeansWhole
  BothFinishOnlyIf
  FinishedIffAcked
PROPERTY BothFinish
