SPECIFICATION MCSpec
CONSTANTS
  i1 = i1
  i2 = i2
  i3 = i3
  s1 = s1
  s2 = s2
  q1 = q1
  q2 = q2
  Platforms = {"yodeck", "screencloud", "xibo", "pisignage"}
  Item = {i1, i2, i3}
  Nature <- MCNature
  Session = {s1, s2}
  Commands = {s2}
  PageSize = 1
  MaxRetries = 1
  PipeSize = 1
  Restore = {q1}
INVARIANTS NoTwins NothingMissed  ArchiveIsWhole
PROPERTIES SessionEnds BackupEnds
CHECK_DEADLOCK FALSE
