\* Four node addresses, one name, two declarations.
SPECIFICATION Spec
CONSTANTS
  Nodes = {a1, a2, a3, a4}
  Names = {x}
  Decls = {d1, d2}
  NoDecl = NoDecl
  NULL = NULL
SYMMETRY AddressSymmetry
INVARIANTS TypeOK NodesKept NothingLeaked
PROPERTIES ImplementsScopeStack
