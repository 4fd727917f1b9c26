SPECIFICATION FairSpec
CONSTANTS
  i1 = i1
  i2 = i2
  w1 = w1
  v1 = v1
  o1 = o1
  m1 = m1
  m2 = m2
  Asset = {i1, v1, i2}
  Kind <- MCKind
  Broken = {i2}
  Mode = {m1}
  Wayland = TRUE
  Commands = {"blank", "unblank", "stop", "play", "next"}
  None = None
  Standby = Standby
  Black = Black
  Null = Null
INVARIANTS
  UrlIsShown
  BlankedIsStopped
PROPERTIES
  BlankedGoesDark
  InactiveLeaves
