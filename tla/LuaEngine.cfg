SPECIFICATION Spec
CONSTANTS
  Pad = {0, 1}
  Calls = {"before", "after", "exit", "write"}
INVARIANTS
  ScriptsExclusive
  RunningMeansWaiting
  GameReadsOneSource
  PrintedIsPosted
