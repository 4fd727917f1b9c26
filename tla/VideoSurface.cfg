SPECIFICATION FairSpec
CONSTANTS
  Modes = {"scene", "raster", "gst"}
  None = None
  MaxPlays = 2
  MaxFrames = 2
  Faults = {"overlay", "start", "audio", "seek", "error", "repeat"}
INVARIANTS
  NothingStoppedReturns
  SoundHasPicture
PROPERTIES
  GstFrameIsShown
CHECK_DEADLOCK FALSE
