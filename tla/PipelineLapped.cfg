CONSTANTS
  Buffers = {b1, b2}
  Workers = {w1, w2}
  Readers = {}
  Streams = {}
  b1 = b1
  b2 = b2
  w1 = w1
  w2 = w2
  NoBuffer = NoBuffer
  JpegPoolSize = 5
  TaskSize = 1
  MaxFrame = 6
  MaxLater = 0
  MaxSession = 1
SPECIFICATION RSpec
SYMMETRY Interchangeable
CHECK_DEADLOCK FALSE
INVARIANTS RawImageHasOneHolder FreedSlotsAreQuiet BusySlotHasWorker
