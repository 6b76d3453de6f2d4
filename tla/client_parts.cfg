SPECIFICATION Spec
CONSTANTS
  Goroutines = {g1, g2, g3}
  c1 = c1
  c2 = c2
  c3 = c3
  e1 = e1
  literal = literal
  Clients <- ThreeClients
  NoClient = NoClient
  First <- c1
  Events <- TwoEvents
  Literals <- OneLiteral
  MaxCalls = 5
SYMMETRY Symmetry
INVARIANTS
  TypeOK
  SharedParts
  ReadyToUse
