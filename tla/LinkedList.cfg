SPECIFICATION Spec
CONSTANTS
  List = {a, b}
  Node = {n1, n2, n3, n4}
  NULL = null
INVARIANTS TypeOK WellFormed
PROPERTIES ImplementsDeques
