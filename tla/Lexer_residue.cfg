\* The first line starts at what the stack held.  lex_source returns: a state without successors is its result.
SPECIFICATION Spec
CONSTANTS Sources <- ShortLines
          Keywords <- TwoKeywords
          TabStop = 8
          StackResidue = {0, 7}
          MAX_CHARACTERS_PER_FILE = 99
          MAX_LINES_PER_FILE = 99
          MAX_CHARACTERS_PER_LINE = 8
INVARIANTS LimitsExact
CHECK_DEADLOCK FALSE
