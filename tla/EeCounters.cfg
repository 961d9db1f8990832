SPECIFICATION Spec
CONSTANTS
  Wrap = 6
  RateOf <- Rates
  Timers = 1
  hRender = 3
  hBlank = 3
  Render = 3
  Blank = 3
  hSyncError <- PalError
  eeWaitCycles = 2
  Soon = 1
  MaxBlock = 2
  MaxCount = 8
  OtherEvents = {2}
  Modes <- AllModes
  Counts = {4}
  Targets = {0, 2}
INVARIANTS
  CountsExactly
  Scheduled
  EdgesOnTime
  GateKept
