SPECIFICATION FairSpec
CONSTANTS
  e1 = e1
  e2 = e2
  i1 = i1
  EeOrder <- Order
  IopOrder <- PsxOrder
  Half = 10
  Ratio = 2
  eeWaitCycles = 5
  Soon = 1
  IntcDelta = 2
  AheadLimit = 1
  Rapid = 1
  MaxEeBlock = 2
  MaxIopBlock = 1
  Delays = {0, 2}
  CounterDelays = {5}
  MaxBehind = 5
  MaxAhead = 1
INVARIANTS
  ClocksAgree
PROPERTIES
  EeKeepsAgenda
  IopKeepsAgenda
  ControlReturns
