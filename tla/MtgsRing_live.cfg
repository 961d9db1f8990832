SPECIFICATION FairSpec
CONSTANTS
  RingBufferSize = 3
  MaxPacketSize = 1
  PacketSizes = {0, 1}
  CommandThreshold = 1
  DataThreshold = 2
  MaxFramesAhead = 1
  Payload = {a}
  NoData = NoData
  MaxPosts = 2
PROPERTIES
  OperationsEnd
  VsyncDisplayed
