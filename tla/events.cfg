\* Two events, two attempts at a time; two clients of one stream and a poke; two ticks.
SPECIFICATION Spec
CONSTANTS
  Parts = {"outbox", "stream", "watch"}
  Orders = {o1}
  Isolates = {v1, v2}
  PendingIntents = FALSE
  Reconciling = FALSE
  MaxMishaps = 1
  Events = {e1, e2}
  Attempts = {w1, w2}
  MaxAttempts = 2
  Batch = 1
  MaxResends = 1
  Clients = {c1, c2}
  Pokes = {p1}
  Last = 2
  Terminal = {1, 2}
  MaxSinks = 1
  MaxAnchors = 3
  PullLimit = 3
  Ticks = {k1, k2}
  Rails = {q1}
  FailAlertTicks = 3
  MaxOutages = 1
  Crashes = 1
INVARIANT StatusIsEarned
PROPERTIES PendingEnds StreamsShowTheLast
CHECK_DEADLOCK FALSE
