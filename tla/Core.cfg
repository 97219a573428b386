SPECIFICATION Spec
CONSTANTS
  DATA_PACKET_DATA_SIZE = 2
  UINT_MAX = 63
  CONGESTION_WINDOW_MIN = 2
  CONGESTION_THRESHOLD_MIN = 3
  CONGESTION_THRESHOLD_SHRINK = 62
  FAST_RETRANSMISSION_THRESHOLD = 2
  fastRetransmission = TRUE
  bytesToSend = 7
  fileSize = 8
  INIT_WINDOW_SIZE = 2
INVARIANTS
  TypeOK
  WindowsAligned
  AcksWithinWindow
  AckedWasReceived
  HeadNeverAcked
  FileIntact
  FinishedMeansDelivered
  NeverStuck
  NoForgottenPacket
  LastAckIsLeftBound
  WindowFilled
  GrowthPaced
  IInv
PROPERTIES
  PunishedOncePerRound
  AckedStaysAcked
  ImplementsReliableDelivery
  ImplementsLargeFile
