SPECIFICATION Spec
CONSTANTS
  MaxCommands = 4
  Lines <- AllLines
INVARIANTS ChainIsShell Sequential AcceptedWhole
PROPERTIES ChainEnds
