\* Words of four bits, up to four dark pages.
SPECIFICATION Spec
CONSTANTS
  Methods = {"avg_1", "avg_2", "rms"}
  Half = 8
  PageCounts = {1, 2, 3, 4}
  Pixels = {0, 1, 2, 3, 5, 7, 8, 9, 10, 12, 14, 15}
  Alpha = 1
  Beta = 1
CHECK_DEADLOCK FALSE
INVARIANTS AverageRight StdRightIfFits SignalKept
