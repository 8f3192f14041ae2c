SPECIFICATION Spec
CONSTANTS
  Persona = {p1, p2}
  NoPersona = nop
  Row = {c1, c2, c3}
  NoRow = noc
  FirstPort = 9100
  LastPort = 9100
  Request = {r1}
  Main = main
  MayFail = {"create", "remove"}
  Ends = {"exit", "crash"}
  OneAtATime = TRUE
SYMMETRY Symmetry
INVARIANTS
  TypeOK
  RowMatchesContainer
  OnlyMemoryHasRow
  PortHeld
PROPERTY ReconcileCompletes
