SPECIFICATION TimeoutSpec
CONSTANTS
  Rtts = {33, 34, 36, 40}
  MinRttUs = 33
  MaxRttUs = 40
  HANDSHAKE_TIMEOUT_US = 36
  TickUs = 3
  MaxDelayUs = 5
INVARIANTS
  EstimateBounded
  LossDetectedInTime
  NoFalseTimeoutWhenSettled
  TimeoutInv
