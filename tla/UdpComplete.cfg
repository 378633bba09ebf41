\* The transfer ends without a loss, and half of the image is missing.
SPECIFICATION Spec
CONSTANTS
  Pages = 2
  Packets = 2
INVARIANT ImageComplete
CHECK_DEADLOCK FALSE
