SPECIFICATION FairSpec
CONSTANTS
  Command = {"previous"}
  Request = {q1, q2}
  Asset = {a1}
  None = None
  Nothing = Nothing
  MaxDelay = 2
  MaxSent = 2
  MaxLosses = 1
  MaxCrashes = 1
INVARIANTS
  AnswerIsOfTheTime
PROPERTIES
  ImplementsChannel
  Reconnects
CHECK_DEADLOCK FALSE
