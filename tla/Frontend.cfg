\* The commands end: a state without successors is the end of the process.
SPECIFICATION FrontendSpec
CONSTANTS Inputs <- AllInputs
          GrammarDepth = 4
          YYMAXDEPTH = 9
          Items = {}
          Byte = 4
          NULL = NULL
          NoValue = NoValue
INVARIANTS AcceptsGrammar FirstWrongToken DumpTrue
           AcceptsBySpec ErrorsTrue CompilesWhatTypeChecks LiteralKept
PROPERTIES FrontendReturns
CHECK_DEADLOCK FALSE
