\* An order that names the intent or is taken for it, one to a bare address; one request at a time, one lost answer or stream error.
SPECIFICATION Spec
CONSTANTS
  o1 = o1
  o2 = o2
  Orders = {o1, o2}
  Kinds <- OneForwarded
  NoOrder = NoOrder
  InFlight = 1
  MaxErrors = 1
INVARIANT StatusIsHonest
 
CHECK_DEADLOCK FALSE
