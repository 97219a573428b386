SPECIFICATION Spec
CONSTANTS
  DATA_PACKET_DATA_SIZE = 2
  UINT_MAX = 63
  CONGESTION_WINDOW_MIN = 2
  CONGESTION_THRESHOLD_MIN = 3
  CONGESTION_THRESHOLD_SHRINK = 62
  FAST_RETRANSMISSION_THRESHOLD = 2
  fastRetransmission = TRUE
  bytesToSend = 5
  fileSize = 6
  INIT_WINDOW_SIZE = 2
INVARIANT PreparedDataAlive
