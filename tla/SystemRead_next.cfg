\* A file one byte longer than the capacity 8748.
SPECIFICATION ReadSpec
CONSTANTS FileSizes <- NextSize
          InitialCapacity = 512
          SizeofSize = 8
          MaxSignals = 0
INVARIANTS NulTerminated
CHECK_DEADLOCK FALSE
