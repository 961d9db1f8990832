SPECIFICATION Spec
CONSTANTS
  Wrap = 6
  RateOf <- Rates
  Timers = 1
  hRender = 2
  hBlank = 2
  Render = 10
  Blank = 10
  hSyncError = 1
  eeWaitCycles = 2
  Soon = 1
  MaxBlock = 2
  MaxCount = 12
  OtherEvents = {2}
  Modes <- GateModes
  Counts = {0}
  Targets = {2}
INVARIANTS
  GateScheduled
