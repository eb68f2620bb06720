\* Two callers, four sids to list, one operator at work and one eviction; two tenants, one campaign id, two addresses and two requests.
SPECIFICATION Spec
CONSTANTS
  first = first
  second = second
  Callers = {first, second}
  MaxSid = 3
  Casts <- FirstIsNoPayer
  Own <- OneSidEach
  Pools <- DammCodes
  ReadAs <- DammReads
  NoCode = NoCode
  Caps = {1, 2}
  Attempts = 2
  MaxFailures = 1
  ListSid = 4
  PageSize = 1
  MaxClock = 2
  Operators = {one}
  Configs = {"forward", "direct"}
  Forwarding = {"forward"}
  MaxValue = 4
  MaxKek = 2
  ta = ta
  tb = tb
  camp = camp
  s1 = s1
  s2 = s2
  r1 = r1
  r2 = r2
  o = o
  Tenants = {ta, tb}
  Campaigns = {camp}
  Safes = {s1, s2}
  Dynamic = {ta}
  Intents <- OneIntent
  MainSafe <- NoMainSafe
  Together <- TwoRequests
  Requests = {r1, r2}
  Orders = {o}
  None = None
  MaxRequests = 2
  Owners = {o1, o2}
  Threshold = 2
  Projects = {p1, p2}
  Nothing = Nothing
  MaxNonce = 2
  MaxEdits = 1
  Browsers = {b1, b2}
  Emails = {e1}
  Lifetime = 3
  IdleTime = 1
  Resolution = 0
  Fresh = 0
  Answerable = 0
  MaxPasskeys = 1
  MaxTime = 3
  MaxSessions = 2
  MaxChallenges = 1
  MaxAdded = 2
  PerIp = 1
  MaxActive = 1
  PerTenant = 2
  MaxTenants = 1
  MaxOrders = 2
  MaxNow = 1
  MaxCrashes = 1
INVARIANTS IntentsAreKept  OwnersDecide SessionsHold SimulationSettles
PROPERTY PayeesStand
CHECK_DEADLOCK FALSE
