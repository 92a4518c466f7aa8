\* Return types are literals.  The process ends.
SPECIFICATION Spec
CONSTANTS Items <- LiteralTypes
          Byte = 4
          NULL = NULL
INVARIANTS RefusesBySpec
CHECK_DEADLOCK FALSE
