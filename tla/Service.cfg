CONSTANTS
  Folders = {f0, f1, f2}
  f1 = f1
  f2 = f2
  NoFolder = f0
  ChanCap = 1
  MaxChanges = 1
  MaxOutages = 1
SPECIFICATION LiveSpec
CHECK_DEADLOCK FALSE
INVARIANTS TypeOK
PROPERTIES ServiceWindsDown NewestFolderIsWatched
