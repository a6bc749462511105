SPECIFICATION FairSpec
CONSTANTS
  Instance = {i1, i2}
  Conn = {c1, c2}
  NoConn = NoConn
  MaxCaptureSeq = 2
  QueueCapacity = 1
  MaxLate = 0
  MaxFaults = 1
PROPERTY LogSpec
PROPERTY EverythingDelivered
PROPERTY CloseCompletes
