SPECIFICATION FairTransferSpec
CONSTANTS
  DATA_PACKET_DATA_SIZE = 2
  UINT_MAX = 63
  CONGESTION_WINDOW_MIN = 2
  CONGESTION_THRESHOLD_MIN = 3
  CONGESTION_THRESHOLD_SHRINK = 62
  FAST_RETRANSMISSION_THRESHOLD = 2
  fastRetransmission = FALSE
  bytesToSend = 3
  fileSize = 4
  INIT_WINDOW_SIZE = 1
  ReceiveThreads = {r1}
  FIN_ACK_NUM = 2
  MaxLosses = 1
CHECK_DEADLOCK FALSE
PROPERTIES
  ReceiverGetsFile
  SenderFinishes
  ReadyDataIsSent
