\* A process ends: a state without successors is its exit.
SPECIFICATION Spec
CONSTANTS program_name <- Program
          path <- Path
          Files <- FileData
          Processes <- ShortProcesses
          Characters <- ACharacters
          MaxSignals = 1
          MaxFailures = 2
          FirstCapacity = 4
INVARIANTS MessageWhole LineSent DecodesOneCharacter
PROPERTIES OutputReturns
CHECK_DEADLOCK FALSE
