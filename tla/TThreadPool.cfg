\* Jobs of any length.  Where pthread_create refuses a thread the program may hang
\* for good (AppFinishes), so deadlock is not checked apart from that.
SPECIFICATION FairSpec
CONSTANT Setups <- Programs
INVARIANTS TypeOK NoPhantomBusy BusyCountLag
PROPERTIES AppFinishes SynchronizeIfUndisturbed
CHECK_DEADLOCK FALSE
