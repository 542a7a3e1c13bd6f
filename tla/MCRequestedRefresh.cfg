SPECIFICATION RequestSpec
CONSTANTS
  Listeners = {l1, l2}
  Refreshes = {r1, r2}
  Timers = {t1, t2}
  NoTimer = NoTimer
  CooldownTimers = {c1}
  Cooldown = 1
INVARIANTS PollArmed OneTimer ListenersToldUnlessOverlapped LockIsRefresh
PROPERTIES RequestedIsFetched
