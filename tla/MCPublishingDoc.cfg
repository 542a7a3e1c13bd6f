SPECIFICATION PublishingSpec
CONSTANTS
  Callers = {c1, c2}
  Timers = {t1}
  NoTimer = NoTimer
  Published = published
  Torn = torn
INVARIANT PostIsLoaded
