\* Two payments under one reference, one of them short of the price; a blind RPC node.
SPECIFICATION FairSpec
CONSTANTS
  o1 = o1
  o2 = o2
  s1 = s1
  s2 = s2
  s3 = s3
  Orders = {o1, o2}
  Sids = {s1}
  Workers = {w1, w2}
  NoSid = NoSid
  NoOrder = NoOrder
  Carries <- MemoCarries
  Named <- MemoNamed
  Amount <- MemoAmount
  Price <- MemoPrice
  Payee <- OnePayee
  Created <- Rank
  Trusted = {s1}
  Near <- NoneNear
  OpenAt <- NoneNear
  Gate = {"broadcasting", "settled_noop"}
  PaidByHand = {}
  Forced = FALSE
  Faults = {"blind_node"}
  Fates = {"mined", "reverted", "gone"}
  MaxRows <- One
  MaxCrashes = 0
INVARIANTS SettledIsBacked MerchantStory
PROPERTIES  ImplementsPayments
CHECK_DEADLOCK FALSE
