\* One order that may grow once, automatic cancellation on, one failed call, the cron and one other pass.
SPECIFICATION Spec
CONSTANTS
  Hooks = {h1}
  Cron = cron
  Cancels = {TRUE}
  MaxOwed = 2
  MaxFailures = 1
INVARIANT GrownIsNotPaid
PROPERTY PaymentReachesShop
CHECK_DEADLOCK FALSE
