SPECIFICATION ApplianceSpec
CONSTANTS
  MaxSetups = 2
  Tasks = {t1, t2, t3}
  NoTask = NoTask
  Timeout = 1
  Options = {disarm}
  Disarm = disarm
  UnknownMode = other
  NoPacket = NoPacket
  Calls = {c}
  MaxWire = 1
  TwoCalls = {c1, c2}
  LightWire = 2
  None = None
  Brightnesses = {2, 252}
  Walls = {0, 1, 99}
  Shades = {128}
  ColorWalls = {0}
  Temps = {20, 28}
  CpuSensors = {s1, s2}
  CpuTemps = {400, 409, 410}
  Interval = 2
SYMMETRY ApplianceSymmetry
INVARIANTS ExchangesAgree FanFollows ReadOnlyOnlyWhileLocked
PROPERTIES ResendDarkens FloorKeepsRunning
