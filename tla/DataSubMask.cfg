\* The bad strip is compared with rows counted from the start of each strip.
SPECIFICATION Spec
CONSTANTS
  Programs = {"data_sub"}
  NumThreads = 2
  MaxThread = 8
  Length = 6
  DarkPages = 2
  DataPages = 1
  BadFirst = 0
  BadLast = 1
INVARIANT MaskIsBadStrip
