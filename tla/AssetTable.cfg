SPECIFICATION Spec
CONSTANTS
  a1 = a1
  b1 = b1
  n1 = n1
  Sessions = {1}
  Slots = {1, 2}
  Lengths <- TwoFiles
  Faults = {"full", "crash", "lost"}
  MaxInodes = 2
  MaxSends = 3
  MaxAttempts = 2
  Hole = Hole
  NoFile = NoFile
  Threads = {1, 2}
  Kinds = {"create", "createUpload", "createV12", "createV1", "createForm", "update", "updateV1", "form", "order", "orderApi", "bulk", "bulkUpdate", "delete"}
  Old = {a1, b1}
  New = {n1}
  Positions <- Signed
  MaxRequests = 2
  MaxFlips = 1
  None = None
INVARIANTS
  AssetIsWhole
  PlacedAsAsked
  ViewerIsTold
SYMMETRY OldSymmetry
CONSTRAINT UploadsAlone
ACTION_CONSTRAINT UploadsFirst
CHECK_DEADLOCK FALSE
