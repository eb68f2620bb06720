------------------------------- MODULE Payments -------------------------------
(***************************************************************************)
(* What a rail promises, without its rows, latches and workers: the money  *)
(* of an order is in the Safe, on its way, or there, and arrives once; an  *)
(* intent is credited with the money of one order, that has arrived, and   *)
(* an order credits one intent; the merchant is only told of credits.      *)
(***************************************************************************)
EXTENDS RailConstants

VARIABLES place, credit, told

Full(s, o) == Amount[o] >= Price[s]

Init ==
  /\ place = [o \in Orders |-> "safe"]
  /\ credit = [s \in Sids |-> NoOrder]
  /\ told = {}

Release(o) ==
  /\ place[o] = "safe"
  /\ place' = [place EXCEPT ![o] = "moving"]
  /\ UNCHANGED <<credit, told>>

Bounce(o) ==
  /\ place[o] = "moving"
  /\ place' = [place EXCEPT ![o] = "safe"]
  /\ UNCHANGED <<credit, told>>

\* From "safe": the payee is the Safe itself, nothing has to move.
Arrive(o) ==
  /\ place[o] \in {"safe", "moving"}
  /\ place' = [place EXCEPT ![o] = "there"]
  /\ UNCHANGED <<credit, told>>

\* A second order takes over an intent only if the first was short of its
\* price and the second is not.
Credit(s, o) ==
  /\ place[o] = "there"
  /\ \A t \in Sids : credit[t] # o
  /\ credit[s] # NoOrder => ~ Full(s, credit[s]) /\ Full(s, o)
  /\ credit' = [credit EXCEPT ![s] = o]
  /\ UNCHANGED <<place, told>>

Tell(s, kind) ==
  /\ credit[s] # NoOrder
  /\ kind = "int" => Full(s, credit[s]) /\ <<"late", s>> \notin told
  /\ kind = "late" => <<"int", s>> \notin told
  /\ told' = told \cup {<<kind, s>>}
  /\ UNCHANGED <<place, credit>>

Next ==
  \/ \E o \in Orders : Release(o) \/ Bounce(o) \/ Arrive(o)
  \/ \E s \in Sids, o \in Orders : Credit(s, o)
  \/ \E s \in Sids, kind \in {"int", "undp", "late"} : Tell(s, kind)

Spec == Init /\ [][Next]_<<place, credit, told>>

=============================================================================
