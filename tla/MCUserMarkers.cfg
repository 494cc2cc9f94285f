SPECIFICATION Spec
CONSTANTS
  Sockets = {s1, s2}
  MAX_RECONNECT_ATTEMPTS = 2
  DelayCap = 3
  Fetches = {f1, f2}
  First = f1
  MaxMoves = 2
  MaxInbox = 2
INVARIANTS OneConnection DelayFollowsAttempts IdleMeansSilent StatusMatchesSocket HelloFirst
PROPERTY Reconnects MarkersConverge
CHECK_DEADLOCK FALSE
