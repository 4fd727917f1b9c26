SPECIFICATION FairSpec
CONSTANTS
  r1 = r1
  r2 = r2
  Main = Main
  Requests = {r1, r2}
  Forms <- MCForms
  Loaders = {}
  Faults = {"full", "crash", "nudge"}
  Subscriber = Subscriber
  Bad = Bad
  Torn = Torn
  Keep = Keep
INVARIANTS
  NobodyIsLockedOut
  LoneSaveIsExact
PROPERTIES
  ViewerCatchesUp
CHECK_DEADLOCK FALSE
