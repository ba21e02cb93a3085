CONSTANTS
  Folders = {f0, f1}
  f1 = f1
  NoFolder = f0
  ChanCap = 1
  MaxChanges = 0
  MaxOutages = 1
SPECIFICATION LiveSpec
CHECK_DEADLOCK FALSE
PROPERTIES WatchIsRetried
