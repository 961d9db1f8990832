SPECIFICATION FairSpec
CONSTANTS
  Pad = {p0, p1}
  Time = {t0, t1}
  ZeroTime = t0
  FileName = {movie}
  Slot = {s1}
  None = None
  MaxFrame = 2
  MaxRerecs = 1
INVARIANTS
  InSync
  SavestatesCarryMovie
  HeaderWithinFile
  PlaybackReproduces
PROPERTIES
  PlaybackComplete
  ReadOnlyKeepsFrames
  PlaybackEnds
