CONSTANTS
  Buffers = {b1}
  Workers = {w1}
  Readers = {r1}
  Streams = {r1}
  Waiters = {g1, g2, g3}
  b1 = b1
  w1 = w1
  r1 = r1
  g1 = g1
  g2 = g2
  g3 = g3
  NoBuffer = NoBuffer
  NoWaiter = NoWaiter
  JpegPoolSize = 3
  TaskSize = 1
  MaxFrame = 4
  MaxLater = 0
  MaxSession = 1
SPECIFICATION GSpec
CHECK_DEADLOCK FALSE
PROPERTIES LeakIsHarmless
