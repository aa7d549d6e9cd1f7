\* Fourteen words; headers of one and two words; blocks that fit exactly, that
\* leave less than a header, and that do not fit.
SPECIFICATION Spec
CONSTANTS
  Total = 14
  UsedHdr = 1
  FreeHdr = 2
  Requests = {1, 2, 4}
\* A heap out of memory stops the program.
VIEW View
CHECK_DEADLOCK FALSE
INVARIANTS TypeOK Tiled Linked Coalesced UsageExact
PROPERTIES Implements
