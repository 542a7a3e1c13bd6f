SPECIFICATION IntegrationSpec
CONSTANTS
  Sensors = {s1, s2}
  Refreshes = {r1, r2}
  PollTimers = {t1, t2}
  NoTimer = NoTimer
  Callers = {c1, c2, c3}
  Timers = {u1, u2}
  Published = published
  Torn = torn
  Scans = {a, b}
  Devices = {d1, d2}
  Broadcasts = 2
  Flows = {f1, f2}
  Requests = {q1, q2, q3, q4}
  None = None
INVARIANTS OneSetUp RetriesAreKnown RemovedIsDown FlowsKeepWord EndpointsKeepWord
PROPERTIES PolledUntilFirstUnload EveryoneGetsThrough
