SPECIFICATION FairSpec
CONSTANTS
  Burst = 3
  Registration = 2
  MaxLines = 12
  MaxTicks = 5
  Garbage <- GarbageValues
INVARIANTS FloodBound RegistersFirst
PROPERTIES EventuallySent ImplementsFifo
CHECK_DEADLOCK FALSE
