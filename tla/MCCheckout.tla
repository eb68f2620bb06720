------------------------------ MODULE MCCheckout ------------------------------
(***************************************************************************)
(* A small world for Checkout: an order that names the intent or that the  *)
(* resolver takes for it, and one to a bare address.                       *)
(***************************************************************************)
EXTENDS Checkout

CONSTANTS o1, o2

OneForwarded == {[o \in Orders |-> IF o = o1 THEN k ELSE "bare"] : k \in {"ref", "preview"}}

=============================================================================
