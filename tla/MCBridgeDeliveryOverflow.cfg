SPECIFICATION FairSpec
CONSTANTS
  Instance = {i1}
  Conn = {c1, c2}
  NoConn = NoConn
  MaxCaptureSeq = 3
  QueueCapacity = 1
  MaxLate = 0
  MaxFaults = 0
PROPERTY OverflowIsReported
