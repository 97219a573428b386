SPECIFICATION FairSessionSpec
CONSTANTS
  DATA_PACKET_DATA_SIZE = 2
  UINT_MAX = 63
  CONGESTION_WINDOW_MIN = 2
  CONGESTION_THRESHOLD_MIN = 3
  CONGESTION_THRESHOLD_SHRINK = 62
  FAST_RETRANSMISSION_THRESHOLD = 2
  fastRetransmission = FALSE
  bytesToSend = 2
  fileSize = 4
  INIT_WINDOW_SIZE = 1
  ReceiveThreads = {r1, r2}
  FIN_ACK_NUM = 2
  MaxLosses = 0
  HANDSHAKE_NUM_AT_A_TIME = 2
  HANDSHAKE_DUPLICATE = 1
  MaxHandshakes = 2
  RECEIVE_ACK_THREAD_NUM = 2
  UninitializedLens = {"enough", "short"}
CHECK_DEADLOCK FALSE
PROPERTY SenderLearnsOfEnd
