SPECIFICATION FairSpec
INVARIANTS
  NoMissingINTC
PROPERTIES
  NeverNested
  LinesServed
