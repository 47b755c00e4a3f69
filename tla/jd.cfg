CONSTANTS
  Job = {j1, j2}
  JdWorker = {w1, w2}
  Sheet = {s1}
  JdFaults <- AllFaults
  MaxSheets = 1
  MaxEdits = 1
  MaxTroubles = 2
SPECIFICATION JdFairSpec
INVARIANTS JdTypeOK NoneBeforeParse
PROPERTIES DeletionIsFinal QueuedParseSucceeds
CHECK_DEADLOCK FALSE
