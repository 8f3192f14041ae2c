SPECIFICATION Spec
CONSTANTS
  Entry = {e1, e2, e3}
  NoEntry = none
  MaxVectors = 4
CONSTRAINT SmallIndex
SYMMETRY Symmetry
INVARIANT RecallAfterKill
