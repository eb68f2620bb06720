\* Two tabs that send, three worlds of passkeys and devices, two sends of a host page, three prompts; one failure each.
SPECIFICATION Spec
CONSTANTS
  Tabs = {t1, t2}
  Kinds = {"bootstrap", "derived", "pinka"}
  Limit = 2
  MaxTxs = 2
  MaxFaults = 1
  d1 = d1
  d2 = d2
  ka = ka
  kb = kb
  ka1 = ka1
  kb1 = kb1
  Devices = {d1, d2}
  Creds = {ka, kb}
  MaxSalt = 1
  MaxOtps = 2
  MaxPosts = 1
  MaxFailures = 1
  Accts = {ka, kb, ka1, kb1}
  Bootstrap = {ka, kb}
  MaxSends = 2
  MaxHandoffs = 2
  Calls = {c1, c2, c3}
  Accounts = {ka, kb}
  Deployed = {ka, kb}
  Known = {ka}
  Slots = {r1}
  MaxSessions = 2
  Relogins = FALSE
  Runs = {u1, u2}
  Payees = {s1, s2}
  Listed = {s1}
  Chunk = 1
  MaxChunks = 2
  Lookback = 2
  MaxBlock = 3
  Forms = {f1}
  Legacy = {kb}
  SaltNonces = {1, 2}
  OnParent = FALSE
  Sids = {s1, s2}
  Plain = Plain
  MaxLosses = 1
  None = None
INVARIANTS MoneyIsNotLost SendIsOwn OnlyNewestGoesOn 
 
CHECK_DEADLOCK FALSE
