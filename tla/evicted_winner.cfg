\* The worker that won confirmForwardOnce is evicted.
SPECIFICATION FairSpec
CONSTANTS
  o1 = o1
  o2 = o2
  s1 = s1
  s2 = s2
  s3 = s3
  Orders = {o1}
  Sids = {s1}
  Workers = {w1, w2}
  NoSid = NoSid
  NoOrder = NoOrder
  Carries <- MemoCarries
  Named <- MemoNamed
  Amount <- MemoAmount
  Price <- MemoPrice
  Payee <- OnePayee
  Created <- Rank
  Trusted = {s1}
  Near <- NoneNear
  OpenAt <- NoneNear
  Gate = {"broadcasting"}
  PaidByHand = {}
  Forced = FALSE
  Faults = {}
  Fates = {"mined"}
  MaxRows <- One
  MaxCrashes = 1
PROPERTIES ConfirmedIsTold
CHECK_DEADLOCK FALSE
