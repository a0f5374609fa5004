CONSTANTS
  p1 = p1
  p2 = p2
  r1 = r1
  r2 = r2
  NoOwner = NoOwner
  Calls = {p1, p2}
  Owner <- OneEach
  Rows = {r1, r2}
  RowWeight = 2
  Windows <- CompleteHistory
  AdditiveKinds = {TRUE, FALSE}
  MaxVersion = 2
  MaxGeneration = 2
  MaxHour = 2
  Callers = {p1, p2}
  Slots = {1, 2}
  NoAttempt = 0
  MaxRevision = 1
  MaxRequests = 3
SPECIFICATION MCSpec
SYMMETRY Symmetries
INVARIANTS
  ShapesKept NoStrandedLease
  AnswersCome OneAtATime
PROPERTIES
  FoldsAreSafe  OutcomesStand
CHECK_DEADLOCK FALSE
