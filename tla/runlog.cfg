\* Lost responses, late handlers and evictions on the way from the batcher to the sealed object.
SPECIFICATION MCSpec
CONSTANTS
  Chunks = 4
  TailCap = 2
  CompactTrigger = 1
  CompactMax = 1
  MaxPending = 4
  Appends = {a1, a2}
  Keepers = {k1}
  Events = {"cut", "evict"}
  MaxEvictions = 1
  None = None
INVARIANTS
  DroppedIsStored
  RepeatsAreTorn
PROPERTIES
  KeepsPromise
  LogSeals
CHECK_DEADLOCK FALSE
