CONSTANTS
  t1 = t1
  t2 = t2
  j1 = j1
  j2 = j2
  j3 = j3
  c1 = c1
  c2 = c2
  Thread = {t1, t2}
  Joiner = {j1, j2, j3}
  Waiter = {j1, j2}
  Completer = t1
  Taker = j1
  Registers = {t1}
  Client = {c1, c2}
  Levels = {0, 1, 2}
  MaxLines = 2
  PartsChecked = {"threads", "promise", "logging", "tracer", "ring"}
  Tracer = {c1, c2}
  Address = {1, 2}
  Size = {1, 2}
  RingSize = 6
  Stack = {7, 8}
  RacyRealloc = FALSE
SPECIFICATION Spec
INVARIANTS ManagedJoinedOnce PromiseValueOnce LoggedOnceInOrder TracerExact BuffersDisjoint EqualMeansEmpty VendsAsMuchAsPossible
PROPERTY WaitersReturn
CHECK_DEADLOCK FALSE
