SPECIFICATION FairSpec
CONSTANTS
  FifoSize = 2
  Addr = {a, b}
  MaxQwc = 3
  TagEnds = {FALSE}
  MaxChain = 3
INVARIANTS
  TypeOK
  InStep
  DoneMeansStored
PROPERTIES
  ImplementsChannel
  LoopEnds
