---------------------------- MODULE RailConstants ----------------------------
(***************************************************************************)
(* What every module of the rail speaks about: Monerium issue orders, and  *)
(* the payment intents (by session id) they pay.                           *)
(***************************************************************************)
EXTENDS Naturals

CONSTANTS
  Orders, Sids,
  NoOrder,    \* SQL NULL in monerium_order_id
  NoSid,      \* SQL NULL in a sid column
  Amount,     \* order -> cents it carries; 0 = the amount did not parse
  Price       \* sid -> cents the intent asks for

ASSUME AmountAssumption == Amount \in [Orders -> Nat]
ASSUME PriceAssumption  == Price \in [Sids -> Nat \ {0}]
ASSUME NullAssumption   == NoOrder \notin Orders /\ NoSid \notin Sids

=============================================================================
