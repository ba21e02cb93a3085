CONSTANTS
  Buffers = {b1}
  Workers = {w1}
  Readers = {r1}
  Streams = {r1}
  b1 = b1
  w1 = w1
  r1 = r1
  NoBuffer = NoBuffer
  JpegPoolSize = 3
  TaskSize = 1
  MaxFrame = 2
  MaxLater = 0
  MaxSession = 1
SPECIFICATION LiveSpec
CHECK_DEADLOCK FALSE
PROPERTIES ReadersNotice
