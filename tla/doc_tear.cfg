\* A compaction killed between its put and its update, and the next one.
SPECIFICATION Spec
CONSTANTS
  Chunks = 3
  TailCap = 1
  CompactTrigger = 1
  CompactMax = 1
  MaxPending = 3
  Appends = {a1}
  Keepers = {k1}
  Events = {"evict"}
  MaxEvictions = 1
  None = None
INVARIANT NothingTwice
CHECK_DEADLOCK FALSE
