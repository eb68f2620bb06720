------------------------------- MODULE Intents -------------------------------
(***************************************************************************)
(* The table payment_intents: what a payer was asked for and how it was    *)
(* settled.  Every write is a guarded UPDATE (intents/db.ts); the six      *)
(* logical states of intentStates.ts are read off three columns.           *)
(***************************************************************************)
EXTENDS RailConstants

VARIABLE intents

Intent == [state : {"none", "pending", "paid", "expired"},
           order : Orders \cup {NoOrder},     \* monerium_order_id
           dated : BOOLEAN]                   \* paid_at IS NOT NULL

IntentsInit == intents = [s \in Sids |-> [state |-> "none", order |-> NoOrder, dated |-> FALSE]]

\* logicalIntentState ("none": not created yet).
LogicalIntentState(s) ==
  LET row == intents[s] IN
  CASE row.state = "none"    -> "none"
    [] row.state = "paid"    -> "paid"
    [] row.state = "pending" -> IF row.order = NoOrder THEN "open" ELSE "underpaid"
    [] row.state = "expired" -> IF row.order = NoOrder THEN "expired"
                                ELSE IF row.dated THEN "late" ELSE "underpaid_expired"

Unsettled(s) == intents[s].state \in {"pending", "expired"} /\ intents[s].order = NoOrder

CreateIntent(s) ==
  /\ intents[s].state = "none"
  /\ intents' = [intents EXCEPT ![s].state = "pending"]

\* Slips of their WHERE clauses: the amount is not compared; the state is not
\* looked at; a late payment is recorded over another one.
FullAnyAmount(s, o) == intents[s].state = "pending"
FullAnyState(s, o)  == intents[s].state # "none" /\ Amount[o] >= Price[s]
LateOverLate(s)     == intents[s].state = "expired"

\* The WHERE clauses of the three settlement writes.
FullApplies(s, o)  == intents[s].state = "pending" /\ Amount[o] >= Price[s]
ShortApplies(s, o) == intents[s].state = "pending" /\ intents[s].order = NoOrder /\ Amount[o] < Price[s]
LateApplies(s)     == intents[s].state = "expired" /\ intents[s].order = NoOrder

\* A slip: the logical state is stored where the column belongs.
MarkIntentLogical(s, o) ==
  intents' = [intents EXCEPT ![s] = [state |-> "late", order |-> o, dated |-> TRUE]]

MarkIntentPaid(s, o) ==
  intents' = [intents EXCEPT ![s] = [state |-> "paid", order |-> o, dated |-> TRUE]]
MarkIntentUnderpaid(s, o) ==
  intents' = [intents EXCEPT ![s] = [@ EXCEPT !.order = o]]
MarkIntentLate(s, o) ==
  intents' = [intents EXCEPT ![s] = [@ EXCEPT !.order = o, !.dated = TRUE]]

\* sweepExpiredIntents: one UPDATE over every overdue pending intent.  Which
\* of them are overdue is left open: any non-empty subset may be.
SweepExpiredIntents(overdue) ==
  /\ overdue # {} /\ \A s \in overdue : intents[s].state = "pending"
  /\ intents' = [s \in Sids |-> IF s \in overdue THEN [intents[s] EXCEPT !.state = "expired"]
                                                 ELSE intents[s]]

IntentsTypeOK == intents \in [Sids -> Intent]

=============================================================================
