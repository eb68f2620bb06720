\* One order with a short code, two intents: retries, forced reroutes, a payment by hand.
SPECIFICATION Spec
CONSTANTS
  o1 = o1
  o2 = o2
  s1 = s1
  s2 = s2
  s3 = s3
  Orders = {o1}
  Sids = {s1, s2}
  Workers = {w1, w2}
  NoSid = NoSid
  NoOrder = NoOrder
  Carries <- CodeCarries
  Named <- MemoNamed
  Amount <- StrayAmount
  Price <- MemoPrice
  Payee <- OnePayee
  Created <- Rank
  Trusted = {s1, s2}
  Near <- AllNear
  OpenAt <- AllNear
  Gate = {"broadcasting", "blocked"}
  PaidByHand = {o1}
  Forced = TRUE
  Faults = {}
  Fates = {"mined", "reverted", "gone"}
  MaxRows <- Three
  MaxCrashes = 0
SYMMETRY Symmetry
INVARIANTS TypeOK OneLiveForward SingleSettler AtMostOneTransfer
CHECK_DEADLOCK FALSE
