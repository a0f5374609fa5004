CONSTANTS
  p1 = p1
  p2 = p2
  c1 = c1
  c2 = c2
  c3 = c3
  e1 = e1
  e2 = e2
  e3 = e3
  a1 = a1
  Attempts = {a1, a2}
  Connecting = {a1}
  Slots = {1, 2}
  Requests = {r1}
  Directories = {d1}
  NoEntry = NoEntry
  Profiles <- MCProfiles
  Callers <- MCCallers
  Entries = {e1, e2}
  Temporaries <- MCTemporaries
SPECIFICATION MCSpec
INVARIANTS ShapesKept PoolIsSafe NothingStalls WorkedOnWhileHeld QuietOnceAnswered
  
CHECK_DEADLOCK FALSE
