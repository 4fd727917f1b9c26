SPECIFICATION SweepSpec
CONSTANTS
  w1 = w1
  w2 = w2
  a1 = a1
  up = up
  down = down
  Workers = {w1, w2}
  Assets = {a1}
  Uris = {up, down}
  Answering = {up}
  TaskFaults = {"kill", "flush"}
  SweepSoft = 1
  SweepHard = 2
  RecheckSoft = 1
  RecheckHard = 2
  Cooldown = 1
  Debounce = 1
  MaxQueued = 1
  MaxFaults = 1
  Unset = Unset
INVARIANTS
  OneSweep
PROPERTIES
  DeadAssetIsFound
CHECK_DEADLOCK FALSE
