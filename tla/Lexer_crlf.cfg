\* lex_source returns: a state without successors is its result.
SPECIFICATION Spec
CONSTANTS Sources <- CrlfFiles
          Keywords <- TwoKeywords
          TabStop = 8
          StackResidue = {0}
          MAX_CHARACTERS_PER_FILE = 99
          MAX_LINES_PER_FILE = 99
          MAX_CHARACTERS_PER_LINE = 99
INVARIANTS LinesTrue
CHECK_DEADLOCK FALSE
