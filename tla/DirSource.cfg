CONSTANTS
  Pictures = {p1, p2}
  p1 = p1
  p2 = p2
  NoPicture = NoPicture
  Torn = Torn
  Reads = {r1, r2, r3}
  r1 = r1
  r2 = r2
  r3 = r3
  Frames = {f1}
  f1 = f1
  MaxSessions = 2
SPECIFICATION Spec
CHECK_DEADLOCK FALSE
SYMMETRY Symmetry
INVARIANTS FrameIntact
