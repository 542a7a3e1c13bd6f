SPECIFICATION CoreSpec
CONSTANTS
  Timers = {t1, t2}
  NoTimer = NoTimer
  Cooldown = 3
  Writers = {w1, w2}
  Delays = {1, 2}
  MaxDelay = 2
  MaxVersion = 3
  AtomicWrites = FALSE
  None = None
  Func = Func
  Fired = Fired
  MaxLoads = 2
  Ids = {i1, i2}
  Reserved = Reserved
  Restored = Restored
  Domains = {a, b, c}
  MaxEdges = 2
  Runs = {r1, r2, r3}
  MaxRuns = 2
INVARIANTS RememberedIsArmed PendingIsCovered SavesAreFound
           NoGhost DependenciesFirst AskedIsAnswered OneAtATime
PROPERTIES RateLimited EventuallyServed LeftAloneIsSaved ImplementsContract
           NewOneIsAdded NewestWins RunsGoOn
