SPECIFICATION Spec
CONSTANTS
  Agent = {a1, a2}
  Val = {x, y}
  Lines = 2
  Nul = Nul
  Gone = Gone
  None = None
SYMMETRY Symmetry
PROPERTY EditPreservesRest
