SPECIFICATION FairSpec
CONSTANTS
  SlotBits = 32
  WordBits = 24
  PadBits = 6
  Frames = 4
  HostGap = 256
INVARIANTS
  PipelineTypeOK
  EdgesSeen
  PairsAligned
PROPERTIES
  Gapless
  Plays
  Stops
