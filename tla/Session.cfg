SPECIFICATION FairSessionSpec
CONSTANTS
  DATA_PACKET_DATA_SIZE = 2
  UINT_MAX = 63
  CONGESTION_WINDOW_MIN = 2
  CONGESTION_THRESHOLD_MIN = 3
  CONGESTION_THRESHOLD_SHRINK = 62
  FAST_RETRANSMISSION_THRESHOLD = 2
  fastRetransmission = TRUE
  bytesToSend = 2
  fileSize = 4
  INIT_WINDOW_SIZE = 1
  ReceiveThreads = {r1, r2}
  FIN_ACK_NUM = 2
  MaxLosses = 1
  HANDSHAKE_NUM_AT_A_TIME = 2
  HANDSHAKE_DUPLICATE = 1
  MaxHandshakes = 1
  RECEIVE_ACK_THREAD_NUM = 1
  UninitializedLens = {"enough", "short", "negative"}
CHECK_DEADLOCK FALSE
INVARIANTS
  SessionTypeOK
  ExitMeansDelivered
PROPERTIES
  SessionImplementsProtocol
  ReceiverProgramEnds
  SenderWindowFinishes
  DoneEndsProgram
