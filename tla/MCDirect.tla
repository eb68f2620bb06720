------------------------------- MODULE MCDirect -------------------------------
(***************************************************************************)
(* Small worlds for DirectRail: two debts of the same amount to the same   *)
(* project, which nothing but their rows tells apart.                      *)
(***************************************************************************)
EXTENDS DirectRail

CONSTANTS o1, s1

Cents     == [o \in Orders |-> 1]
Prices    == [s \in Sids |-> 1]
AllOwed   == [o \in Orders |-> "owed"]
OwnIntent == [o \in Orders |-> IF o = o1 THEN s1 ELSE CHOOSE s \in Sids : s # s1]
StolenKey == {<<"role", "debt">>}
SameKind  == [o \in Orders |-> "debt"]

=============================================================================
