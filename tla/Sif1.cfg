SPECIFICATION FairSpec
CONSTANTS
  FifoSize = 2
  Addr = {a, b}
  MaxQwc = 3
  MaxChain = 2
INVARIANTS
  InStep
PROPERTIES
  ImplementsChannel
  AllStored
