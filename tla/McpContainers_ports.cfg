SPECIFICATION Spec
CONSTANTS
  Persona = {p1, p2}
  NoPersona = nop
  Row = {c1, c2, c3}
  NoRow = noc
  FirstPort = 9100
  LastPort = 9101
  Request = {r1}
  Main = main
  MayFail = {"create", "start"}
  Ends = {}
  OneAtATime = TRUE
SYMMETRY Symmetry
INVARIANT PortsDistinct
CHECK_DEADLOCK FALSE
