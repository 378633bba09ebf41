\* Three strips of two rows, all four programs, every interleaving of the jobs; two dark images, or one.
SPECIFICATION FairSpec
CONSTANTS
  Programs = {"data_sub", "dark_rms", "mthread_rms", "mthread_avg"}
  NumThreads = 3
  MaxThread = 8
  Length = 6
  DarkPages = 2
  DataPages = 3
  BadFirst = 0
  BadLast = 0
INVARIANTS ResultsUseSameRow FilesComplete DestroyedIdle
PROPERTIES WrittenOnce PipelineEnds
