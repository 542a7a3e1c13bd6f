SPECIFICATION Spec
CONSTANTS
  Calls = {c1}
  None = None
PROPERTIES StopStops
