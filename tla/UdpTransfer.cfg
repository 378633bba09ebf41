\* Three frames of three packets, any losses; after a loss a program may wait
\* for ever.
SPECIFICATION FairSpec
CONSTANTS
  Pages = 3
  Packets = 3
INVARIANTS InPlace OnlyForward
PROPERTY TransferEnds
CHECK_DEADLOCK FALSE
