SPECIFICATION Spec
CONSTANTS
  MaxSetups = 1
  Tasks = {t1, t2}
  NoTask = NoTask
  Timeout = 1
  Options = {disarm, away}
  Disarm = disarm
  UnknownMode = other
  NoPacket = NoPacket
  Calls = {c1}
  MaxWire = 1
PROPERTIES LockedPanelSendsNothing
