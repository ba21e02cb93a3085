CONSTANTS
  Buffers = {b1}
  Workers = {w1}
  Readers = {r1, r2}
  Streams = {r1}
  b1 = b1
  w1 = w1
  r1 = r1
  r2 = r2
  NoBuffer = NoBuffer
  JpegPoolSize = 3
  TaskSize = 1
  MaxFrame = 4
  MaxLater = 1
  MaxSession = 2
SPECIFICATION MLiveSpec
CHECK_DEADLOCK FALSE
INVARIANTS MTypeOK ReadyFrameIntact NextOnlyWhileStarted
PROPERTIES FinishedFrameWakes UsesPipelineAsMeant DoneReturns JoinReturns CancelledIsJoined FarmReturnsImage
