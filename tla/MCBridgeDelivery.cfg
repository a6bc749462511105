SPECIFICATION Spec
CONSTANTS
  Instance = {i1, i2}
  Conn = {c1, c2}
  NoConn = NoConn
  MaxCaptureSeq = 3
  QueueCapacity = 1
  MaxLate = 1
  MaxFaults = 1
INVARIANT CapturesAccounted
INVARIANT NoSilentLoss
INVARIANT AbandonmentAudit
INVARIANT CloseIsComplete
INVARIANT RowsTileCursor
SYMMETRY Symmetry
