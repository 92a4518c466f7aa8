\* lex_source returns: a state without successors is its result.
SPECIFICATION Spec
CONSTANTS Sources <- LexedFiles
          Keywords <- TwoKeywords
          TabStop = 4
          StackResidue = {0, 4}
          MAX_CHARACTERS_PER_FILE = 10
          MAX_LINES_PER_FILE = 7
          MAX_CHARACTERS_PER_LINE = 8
CONSTRAINT ResidueAffordable
INVARIANTS TypeOK LexesByGrammar CountedPositionsTrue CountedLimitsExact
PROPERTIES LexReturns
CHECK_DEADLOCK FALSE
