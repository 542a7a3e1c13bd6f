SPECIFICATION Spec
CONSTANTS
  White = FALSE
  Shades = {255}
  Walls = {0}
  Calls = {c1}
  MaxWire = 1
  None = None
INVARIANTS TurnOnTurnsOn
