\* The code's constants, one signal.  The process goes on after "exit".
SPECIFICATION ReadSpec
CONSTANTS FileSizes <- SmallSizes
          InitialCapacity = 512
          SizeofSize = 8
          MaxSignals = 1
INVARIANTS BytesInOrder NulTerminated NothingLeaked
PROPERTIES ReadAllReturns
CHECK_DEADLOCK FALSE
