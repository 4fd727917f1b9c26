SPECIFICATION FairSpec
CHECK_DEADLOCK FALSE
CONSTANTS
  p1 = p1
  p2 = p2
  i1 = i1
  i2 = i2
  v1 = v1
  h1 = h1
  Page = {p1, p2}
  Image = {i1, i2}
  Video = {v1}
  Animated = {i1}
  Header = {h1}
  None = None
  Null = Null
  Flaky = {"load", "headers", "crash"}
  MaxLoads = 3
  MaxCrashes = 1
INVARIANTS
  VideoKeepsScreen
PROPERTIES
  OnlyLatestIsPainted
  LoadsOwnHeaders
  PendingPageIsShown
