SPECIFICATION Spec
CONSTANTS
  RingBufferSize = 4
  MaxPacketSize = 2
  PacketSizes = {1, 2}
  CommandThreshold = 1
  DataThreshold = 2
  MaxFramesAhead = 1
  Payload = {a, b}
  NoData = NoData
  MaxPosts = 2
SYMMETRY Payloads
INVARIANTS
  NoOverwrite
  NoTornRead
  EqualMeansEmpty
  FramesCounted
PROPERTIES
  ImplementsStream
