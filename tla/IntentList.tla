----------------------------- MODULE IntentList -----------------------------
(***************************************************************************)
(* The merchant's list of intents (intents/list.ts): pages by a cursor     *)
(* into the order of creation, while more intents are created.             *)
(***************************************************************************)
EXTENDS Naturals, FiniteSets

CONSTANTS
  MaxSid,    \* sids are 1..MaxSid, in their order
  PageSize,  \* limit
  MaxClock   \* bound: seconds that pass

IntentListAssumption == MaxSid \in Nat /\ PageSize \in Nat \ {0} /\ MaxClock \in Nat

Sids == 1..MaxSid

VARIABLES
  at,     \* sid -> [second, state]: created_at and state, second 0 before the intent exists
  clock,
  walk    \* a merchant turning the pages: [on, state, cursor, seen, due]

vars == <<at, clock, walk>>

Exists(s) == at[s].second # 0
Matches(s, state) == Exists(s) /\ (state = "any" \/ at[s].state = state)

\* A sid is random, so a later intent may come first among those of its second.
CreateIntent(s) ==
  /\ ~ Exists(s) /\ at' = [at EXCEPT ![s].second = clock]
  /\ UNCHANGED <<clock, walk>>

Pay(s) ==
  /\ Matches(s, "pending") /\ at' = [at EXCEPT ![s].state = "paid"]
  /\ UNCHANGED <<clock, walk>>

Tick == clock < MaxClock /\ clock' = clock + 1 /\ UNCHANGED <<at, walk>>

\* ORDER BY created_at DESC, sid DESC.
Newer(s, t) == at[s].second > at[t].second \/ (at[s].second = at[t].second /\ s > t)

Start(state) ==
  /\ walk.on = "no"
  /\ walk' = [on |-> "yes", state |-> state, cursor |-> 0, seen |-> {}, due |-> {s \in Sids : Matches(s, state)}]
  /\ UNCHANGED <<at, clock>>

Below(cursor, s) == cursor = 0 \/ Newer(cursor, s)

\* One row more than the page holds tells whether there is another page.
NextPage ==
  LET left == {s \in Sids : Matches(s, walk.state) /\ Below(walk.cursor, s)}
      page == {s \in left : Cardinality({t \in left : Newer(t, s)}) < PageSize}
  IN /\ walk.on = "yes"
     /\ walk' = [walk EXCEPT !.on = IF page = left THEN "done" ELSE "yes", !.seen = @ \cup page,
                             !.cursor = IF page = {} THEN @ ELSE CHOOSE s \in page : \A t \in page : ~ Newer(s, t)]
     /\ UNCHANGED <<at, clock>>

Init ==
  /\ at = [s \in Sids |-> [second |-> 0, state |-> "pending"]] /\ clock = 1
  /\ walk = [on |-> "no", state |-> "any", cursor |-> 0, seen |-> {}, due |-> {}]

Next ==
  \/ \E s \in Sids : CreateIntent(s) \/ Pay(s)
  \/ Tick \/ NextPage \/ \E state \in {"any", "pending", "paid"} : Start(state)

Spec == Init /\ [][Next]_vars

\* "A page never shifts under concurrent inserts": who turns all pages has seen
\* every intent that there was when he began, unless it has left the filter since.
ListIsComplete ==
  walk.on = "done" => \A s \in walk.due : s \in walk.seen \/ ~ Matches(s, walk.state)
=============================================================================
