SPECIFICATION Spec
CONSTANTS
  Calls = {c1, c2}
  MaxWire = 2
  None = None
  Options = {disarm, away}
  Disarm = disarm
  UnknownMode = other
  NoPacket = NoPacket
  Positions = {0, 50, 100}
  Channels = {k1, k2}
  NoChannel = NoChannel
  ACModes = {"cool", "heat"}
  Fans = {"medium"}
  Temps = {20, 30}
SYMMETRY DeviceSymmetry
INVARIANTS ExchangesAgree InventsNothing
PROPERTIES ShutterStops ACRemembers
