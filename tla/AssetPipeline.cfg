SPECIFICATION PipelineFairSpec
CONSTANTS
  Worker = {w1}
  Kinds = {"convert", "shrink", "video", "remote"}
  Operators = 1
  MaxBacklog = 1
  MaxEdits = 1
  MaxDeletes = 1
  MaxFaults = 3
INVARIANTS
  ReadyIsPlayable
PROPERTIES
  CleanupSparesLive
  ProcessingEnds
CHECK_DEADLOCK FALSE
