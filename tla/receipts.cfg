\* Three payments of one payer, two of them with a receipt, two anchor runs that may overlap, one failure, one eviction.
SPECIFICATION Spec
CONSTANTS
  Payments = 3
  NoIban = NoIban
  Iban <- OneIban
  r1 = r1
  r2 = r2
  Remittance <- TwoReceipts
  Sids = {r1, r2}
  Linkers = {l1}
  AnchorRuns = {a1, a2}
  LinkBatch = 1
  MaxLeaves = 2
  MaxBeats = 0
  MaxFailures = 1
  MaxCrashes = 1
INVARIANT ReceiptsProve
PROPERTY ReceiptIsIssued
CHECK_DEADLOCK FALSE
