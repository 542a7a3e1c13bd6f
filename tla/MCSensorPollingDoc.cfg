SPECIFICATION Spec
CONSTANTS
  Sensors = {s1}
  Refreshes = {r1}
  Timers = {t1, t2}
  NoTimer = NoTimer
PROPERTIES PolledWhileLoaded
