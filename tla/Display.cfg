SPECIFICATION MCSpec
CONSTANTS
  MaxVideos = 3
  MaxResets = 2
  MaxRestarts = 3
  Grace = 2
  WatchdogFaults = {"probe", "open"}
  Displays = {"none", "good", "dead"}
  MaxBoots = 2
  MaxEpisodes = 2
INVARIANTS
  FramebufferReleased
  RestartsAreCapped
PROPERTIES
  GoodDisplayBinds
CHECK_DEADLOCK FALSE
