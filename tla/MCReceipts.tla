------------------------------ MODULE MCReceipts ------------------------------
(***************************************************************************)
(* A small world for Receipts: three payments from one IBAN, two receipts. *)
(***************************************************************************)
EXTENDS Receipts

CONSTANTS r1, r2

\* The payer asked for a receipt on the second and the third payment.
TwoReceipts == [o \in Orders |-> IF o = 1 THEN Plain ELSE IF o = 2 THEN r1 ELSE r2]
OneIban == [o \in Orders |-> "iban"]

=============================================================================
