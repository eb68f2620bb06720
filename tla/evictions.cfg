\* Two payments of one amount without a reference and one intent of that amount; an eviction at any await, an ambiguous RPC node.
SPECIFICATION FairSpec
CONSTANTS
  o1 = o1
  o2 = o2
  s1 = s1
  s2 = s2
  s3 = s3
  Orders = {o1, o2}
  Sids = {s1}
  Workers = {w1, w2}
  NoSid = NoSid
  NoOrder = NoOrder
  Carries <- StrayCarries
  Named <- StrayNamed
  Amount <- StrayAmount
  Price <- MemoPrice
  Payee <- OnePayee
  Created <- Rank
  Trusted = {s1}
  Near <- AllNear
  OpenAt <- NoneNear
  Gate = {"broadcasting", "blocked"}
  PaidByHand = {}
  Forced = FALSE
  Faults = {"ambiguous_rpc"}
  Fates = {"mined", "reverted", "gone"}
  MaxRows <- One
  MaxCrashes = 1
INVARIANT OneStrayPerIntent
PROPERTIES SubmittedResolves 
CHECK_DEADLOCK FALSE
