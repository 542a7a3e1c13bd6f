SPECIFICATION LiveSpec
CONSTANTS
  MaxSetups = 2
  Tasks = {t1, t2, t3}
  NoTask = NoTask
  Timeout = 2
INVARIANTS TypeOK AutoLockArmed NeverShownLockedWhileOpen
PROPERTIES NeverEarly ImplementsContract
