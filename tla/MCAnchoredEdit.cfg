SPECIFICATION Spec
CONSTANTS
  Agent = {a1}
  Val = {x, y}
  Lines = 2
  Nul = Nul
  Gone = Gone
  None = None
SYMMETRY Symmetry
INVARIANTS ViewIsCurrent
PROPERTIES SurgicalCommit UnracedEditIsLocal
