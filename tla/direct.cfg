\* Two like debts, two isolates, one watcher, a stolen key and one eviction, with a router and without.
SPECIFICATION FairSpec
CONSTANTS
  o1 = o1
  s1 = s1
  Orders = {o1, o2}
  Sids = {s1, s2}
  NoOrder = NoOrder
  NoSid = NoSid
  Amount <- Cents
  Price <- Prices
  Decision <- AllOwed
  IntentOf <- OwnIntent
  Kinds = {"debt", "other"}
  OtherKind = "other"
  Kind <- SameKind
  Workers = {w1, w2}
  Watchers = {v1}
  Routers = {TRUE, FALSE}
  Thefts <- StolenKey
  Batch = 1
  MaxRows = 1
  MaxTxs = 2
  MaxCrashes = 1
INVARIANTS PaidOnce  ForwardedIsPaid ScannedIsExplained
PROPERTIES HandPaymentIsSeen DebtIsTaken
CHECK_DEADLOCK FALSE
