SPECIFICATION FairSpec
CONSTANTS
  i1 = i1
  i2 = i2
  w1 = w1
  v1 = v1
  o1 = o1
  m1 = m1
  m2 = m2
  Asset = {i1, w1, o1}
  Kind <- MCKind
  Broken = {i1}
  Mode = {m1, m2}
  Wayland = FALSE
  Commands = {"reload"}
  None = None
  Standby = Standby
  Black = Black
  Null = Null
PROPERTY ModeIsApplied
