--------------------------- MODULE ForwardingProofs ---------------------------
(***************************************************************************)
(* Theorems about the forward-mode rail, for any number of orders,         *)
(* intents, workers, attempts and evictions, and whatever the RPC node     *)
(* does: types and latches; RailInv, one inductive invariant, and what     *)
(* follows from it; the refinement of Payments.                            *)
(***************************************************************************)
EXTENDS ForwardingProps, TLAPS, SequenceTheorems

-----------------------------------------------------------------------------
(* The table *)

\* What the two ways of writing monerium_forwards do, as one relation: rows
\* are only ever appended, and a stored row only moves along its edges.
Edge(r, q) ==
  \/ q = r
  \/ /\ q.order = r.order /\ q.sid = r.sid /\ q.via = r.via
     /\ \E e \in DOMAIN From : r.state = From[e] /\ q.state = To[e]

Grows ==
  /\ Len(rows) <= Len(rows')
  /\ \A i \in Ids : i \in DOMAIN rows' /\ Edge(rows[i], rows'[i])

\* An INSERT leaves the stored rows alone and puts its row after them.
LEMMA InsertFacts ==
  ASSUME rows \in Seq(Row), NEW r \in Row, InsertForward(r)
  PROVE  /\ rows' \in Seq(Row) /\ Len(rows') = Len(rows) + 1
         /\ DOMAIN rows' = Ids \cup {Len(rows) + 1}
         /\ \A i \in Ids : rows'[i] = rows[i]
         /\ rows'[Len(rows) + 1] = r
BY DEF InsertForward, Ids

\* An UPDATE changes the state and hash of one row, along the edge of its
\* event, or nothing.
LEMMA TransitionFacts ==
  ASSUME rows \in Seq(Row), NEW i \in Ids, NEW e \in DOMAIN From,
         NEW h \in BOOLEAN, TransitionForward(i, e, h)
  PROVE  /\ rows' \in Seq(Row) /\ Len(rows') = Len(rows) /\ DOMAIN rows' = Ids
         /\ \A j \in Ids : j # i => rows'[j] = rows[j]
         /\ rows[i].state # From[e] => rows'[i] = rows[i]
         /\ rows[i].state = From[e] =>
              /\ rows'[i].state = To[e] /\ rows'[i].order = rows[i].order
              /\ rows'[i].sid = rows[i].sid /\ rows'[i].via = rows[i].via
<1> DEFINE r == [rows[i] EXCEPT !.state = To[e], !.hashed = h]
<1>1. To[e] \in States
  BY DEF From, To, States, Live, Pending, Confirmed
<1>2. rows[i] \in Row
  BY ElementOfSeq DEF Ids
<1>2a. r \in Row
  BY <1>1, <1>2 DEF Row
<1>3. CASE rows[i].state # From[e]
  BY <1>3 DEF TransitionForward, Ids
<1>4. CASE rows[i].state = From[e]
  <2>1. rows' = [rows EXCEPT ![i] = r]
    BY <1>4 DEF TransitionForward
  <2>2. rows' \in Seq(Row) /\ Len(rows') = Len(rows)
    BY <2>1, <1>2a, ExceptSeq DEF Ids
  <2>3. r.state = To[e] /\ r.order = rows[i].order /\ r.sid = rows[i].sid /\ r.via = rows[i].via
    BY <1>2 DEF Row
  <2>4. rows'[i] = r /\ \A j \in Ids : j # i => rows'[j] = rows[j]
    BY <2>1 DEF Ids
  <2> QED BY <1>4, <2>2, <2>3, <2>4 DEF Ids
<1> QED BY <1>3, <1>4

\* No edge leads from a dead state to a live one.
LEMMA EdgesFromLive == \A e \in DOMAIN From : From[e] \in Live
BY DEF From, Live, Pending

\* An INSERT looks at the latch in the same statement.
LEMMA LatchInsert ==
  ASSUME rows \in Seq(Row), OneLiveForward, NEW r \in Row, OrderLatchFree(r), InsertForward(r)
  PROVE  OneLiveForward'
<1>1. /\ DOMAIN rows' = Ids \cup {Len(rows) + 1}
      /\ \A i \in Ids : rows'[i] = rows[i]
      /\ rows'[Len(rows) + 1] = r
  BY InsertFacts
<1> QED BY <1>1 DEF OneLiveForward, OrderLatchFree, LiveRow, Ids

\* No UPDATE revives a row.
LEMMA LatchTransition ==
  ASSUME rows \in Seq(Row), OneLiveForward, NEW i \in Ids, NEW e \in DOMAIN From,
         NEW h \in BOOLEAN, TransitionForward(i, e, h)
  PROVE  OneLiveForward'
<1>1. /\ DOMAIN rows' = Ids
      /\ \A j \in Ids : j # i => rows'[j] = rows[j]
      /\ rows[i].state # From[e] => rows'[i] = rows[i]
      /\ rows[i].state = From[e] => rows'[i].order = rows[i].order
  BY TransitionFacts
<1>2. \A j \in Ids : /\ rows'[j].order = rows[j].order
                     /\ rows'[j].state \in Live => rows[j].state \in Live
  BY <1>1, EdgesFromLive
<1> QED BY <1>1, <1>2 DEF OneLiveForward, Ids

-----------------------------------------------------------------------------
(* The tasks *)

\* Tasks that have inserted, or settle, a row.
RowPCs == {"send", "sent", "unsent", "poll", "confirm", "fail",
           "full", "short", "late", "tell"}

\* What a task relies on: that its row exists and is of its order, that there
\* is an intent to settle, and that it inserts what its place allows.
Fits(t, R) ==
  /\ t.pc # "idle" => t.order \in Orders
  /\ t.pc \in RowPCs => t.row \in DOMAIN R /\ R[t.row].order = t.order
  /\ t.pc \in {"full", "short", "late"} => R[t.row].sid \in Sids
  /\ t.pc = "tell" => /\ t.event # "blk"
                      /\ t.event # "cmp" => R[t.row].sid \in Sids
  /\ t.pc \in {"claim", "lost"} => t.birth \in {"broadcasting", "settled_noop"}
  /\ t.pc = "park" => t.birth \in Parked

TaskOK == \A w \in Workers : Fits(tasks[w], rows)

TypeInv == TypeOK /\ TaskOK

\* A task that moves while the rows only grow leaves the others as they were.
LEMMA BecomeFacts ==
  ASSUME TypeInv, NEW w \in Workers, NEW t \in Task, Become(w, t), Grows,
         Fits(t, rows')
  PROVE  /\ tasks' \in [Workers -> Task] /\ TaskOK'
         /\ tasks'[w] = t /\ \A v \in Workers : v # w => tasks'[v] = tasks[v]
<1>1. /\ tasks' \in [Workers -> Task] /\ tasks'[w] = t
      /\ \A v \in Workers : v # w => tasks'[v] = tasks[v]
  BY DEF TypeInv, TypeOK, Become
<1>2. ASSUME NEW v \in Workers, v # w PROVE Fits(tasks'[v], rows')
  <2>1. Fits(tasks[v], rows) /\ tasks'[v] = tasks[v]
    BY <1>1, <1>2 DEF TypeInv, TaskOK
  <2>2. \A i \in Ids : i \in DOMAIN rows' /\ rows'[i].order = rows[i].order /\ rows'[i].sid = rows[i].sid
    BY DEF Grows, Edge
  <2> QED BY <2>1, <2>2 DEF Fits, RowPCs, Ids
<1> QED BY <1>1, <1>2 DEF TaskOK

\* A worker at rest is well typed, whatever the rows.
LEMMA IdleFacts == Idle \in Task /\ \A R : Fits(Idle, R)
<1>1. Idle \in Task
  BY DEF Idle, Task, PCs, Vias, States, Live, Parked
<1>2. Idle.pc = "idle"
  BY DEF Idle
<1> QED BY <1>1, <1>2 DEF Fits, RowPCs

\* Where every step that starts or goes on with a task stays in TypeInv: the
\* rows do not change, the new task fits.
LEMMA SameRows ==
  ASSUME TypeInv, NEW w \in Workers, NEW t \in Task, Become(w, t),
         UNCHANGED rows, Fits(t, rows)
  PROVE  tasks' \in [Workers -> Task] /\ TaskOK'
<1>1. Grows
  BY DEF Grows, Edge, Ids, TypeInv, TypeOK, RowsTypeOK
<1> QED BY <1>1, BecomeFacts

\* Goto and Rest are ways to Become.
LEMMA GotoFacts ==
  ASSUME TypeInv, NEW w \in Workers, NEW pc \in PCs
  PROVE  /\ [tasks[w] EXCEPT !.pc = pc] \in Task
         /\ Goto(w, pc) <=> Become(w, [tasks[w] EXCEPT !.pc = pc])
BY DEF TypeInv, TypeOK, Task, Goto, Become

\* The records that start a task fit.
LEMMA HandleFacts ==
  ASSUME NEW o \in Orders, NEW R
  PROVE  /\ HandleForward(o) \in Task /\ Fits(HandleForward(o), R)
         /\ \A s \in Sids : HandleManual(o, s) \in Task /\ Fits(HandleManual(o, s), R)
<1>1. Named[o] \in Sids \cup {NoSid}
  BY RoutingAssumption
<1>2. HandleForward(o) \in Task /\ Fits(HandleForward(o), R)
  BY <1>1, IdleFacts DEF HandleForward, Idle, Task, PCs, Fits, RowPCs
<1>3. ASSUME NEW s \in Sids PROVE HandleManual(o, s) \in Task /\ Fits(HandleManual(o, s), R)
  BY IdleFacts DEF HandleManual, Idle, Task, PCs, Fits, RowPCs, Vias
<1> QED BY <1>2, <1>3

-----------------------------------------------------------------------------
(* Type correctness *)

\* What TypeOK says of the variables other than the tasks.
DataOK == /\ RowsTypeOK /\ IntentsTypeOK
          /\ chain \in Seq(TxStates) /\ Len(chain) = Len(rows)
          /\ outbox \subseteq Events /\ crashes \in Nat

\* The guarded writes of an intent keep the table well typed.
LEMMA IntentFacts ==
  ASSUME IntentsTypeOK, NEW s \in Sids, NEW o \in Orders
  PROVE  /\ MarkIntentPaid(s, o) => IntentsTypeOK'
         /\ MarkIntentUnderpaid(s, o) => IntentsTypeOK'
         /\ MarkIntentLate(s, o) => IntentsTypeOK'
         /\ CreateIntent(s) => IntentsTypeOK'
<1>1. ASSUME NEW x \in Intent, intents' = [intents EXCEPT ![s] = x] PROVE IntentsTypeOK'
  BY <1>1 DEF IntentsTypeOK
<1>2. /\ [state |-> "paid", order |-> o, dated |-> TRUE] \in Intent
      /\ [intents[s] EXCEPT !.order = o] \in Intent
      /\ [intents[s] EXCEPT !.order = o, !.dated = TRUE] \in Intent
      /\ [intents[s] EXCEPT !.state = "pending"] \in Intent
  BY DEF IntentsTypeOK, Intent
<1>3. MarkIntentPaid(s, o) => IntentsTypeOK'
  BY <1>1, <1>2 DEF MarkIntentPaid
<1>4. MarkIntentUnderpaid(s, o) => IntentsTypeOK'
  BY <1>1, <1>2 DEF MarkIntentUnderpaid
<1>5. MarkIntentLate(s, o) => IntentsTypeOK'
  BY <1>1, <1>2 DEF MarkIntentLate
<1>6. CreateIntent(s) => IntentsTypeOK'
  BY <1>1, <1>2 DEF CreateIntent
<1> QED BY <1>3, <1>4, <1>5, <1>6

\* So does the sweep.
LEMMA SweepFacts ==
  ASSUME IntentsTypeOK, NEW overdue \in SUBSET Sids, SweepExpiredIntents(overdue)
  PROVE  IntentsTypeOK'
BY DEF IntentsTypeOK, Intent, SweepExpiredIntents

\* Steps that start a task leave everything else alone.
LEMMA StartType ==
  ASSUME TypeInv, NEW w \in Workers, Start(w)
  PROVE  TypeInv'
<1> USE DEF TypeInv
<1>1. UNCHANGED <<rows, intents, chain, outbox, crashes>>
  BY DEF Start, MaybeForward, CheckOffRail, Reroute, ReadReceipt, Retry
<1>2. ASSUME NEW t \in Task, Fits(t, rows), Become(w, t) PROVE TypeInv'
  <2>1. tasks' \in [Workers -> Task] /\ TaskOK'
    BY <1>1, <1>2, SameRows
  <2> QED BY <2>1, <1>1 DEF TypeOK, RowsTypeOK, IntentsTypeOK, Ids
<1>3. ASSUME NEW o \in Orders, MaybeForward(w, o) PROVE TypeInv'
  BY <1>2, <1>3, HandleFacts DEF MaybeForward
<1>4. ASSUME NEW o \in Orders, CheckOffRail(w, o) PROVE TypeInv'
  <2> DEFINE t == [Idle EXCEPT !.pc = "offrail", !.order = o]
  <2>1. t \in Task /\ Fits(t, rows)
    BY IdleFacts DEF Idle, Task, PCs, Fits, RowPCs
  <2> QED BY <1>2, <1>4, <2>1 DEF CheckOffRail
<1>5. ASSUME NEW o \in Orders, NEW s \in Sids, Reroute(w, o, s) PROVE TypeInv'
  BY <1>2, <1>5, HandleFacts DEF Reroute
<1>6. ASSUME NEW i \in Ids, ReadReceipt(w, i) PROVE TypeInv'
  <2>1. PICK pc \in {"confirm", "fail"} :
           Become(w, [Idle EXCEPT !.pc = pc, !.order = rows[i].order, !.row = i])
    BY <1>6 DEF ReadReceipt
  <2> DEFINE t == [Idle EXCEPT !.pc = pc, !.order = rows[i].order, !.row = i]
  <2>2. rows[i] \in Row /\ i \in Nat
    BY ElementOfSeq DEF TypeOK, RowsTypeOK, Ids
  <2>3. t \in Task /\ Fits(t, rows)
    BY <2>2, IdleFacts DEF Idle, Task, PCs, Fits, RowPCs, Row, Ids
  <2> QED BY <1>2, <2>1, <2>3
<1>7. ASSUME NEW i \in Ids, Retry(w, i) PROVE TypeInv'
  <2>1. rows[i] \in Row
    BY ElementOfSeq DEF TypeOK, RowsTypeOK, Ids
  <2>2. /\ rows[i].order \in Orders
        /\ rows[i].sid # NoSid => rows[i].sid \in Sids
    BY <2>1 DEF Row
  <2> QED BY <1>2, <1>7, <2>2, HandleFacts DEF Retry
<1> QED BY <1>3, <1>4, <1>5, <1>6, <1>7 DEF Start

\* Steps of a task that leave the rows alone.
LEMMA QuietType ==
  ASSUME TypeInv, NEW w \in Workers,
         \/ MatchShortRef(w) \/ FindStray(w) \/ AuthorizeForward(w) \/ LostLatch(w)
         \/ EmitBlocked(w) \/ ForwardViaSafe(w) \/ PollForwardConfirmation(w)
         \/ FlipPaid(w) \/ Tell(w)
  PROVE  TypeInv'
<1> USE DEF TypeInv
<1> DEFINE t == tasks[w]
<1>a. t \in Task /\ Fits(t, rows)
  BY DEF TypeOK, TaskOK
<1>1. UNCHANGED rows
  BY DEF MatchShortRef, FindStray, AuthorizeForward, LostLatch, EmitBlocked,
         ForwardViaSafe, PollForwardConfirmation, FlipPaid, Tell
<1>2. ASSUME NEW u \in Task, Fits(u, rows), Become(w, u), DataOK' PROVE TypeInv'
  <2>1. tasks' \in [Workers -> Task] /\ TaskOK'
    BY <1>1, <1>2, SameRows
  <2> QED BY <2>1, <1>2 DEF TypeOK, DataOK
<1>3. ASSUME Rest(w), DataOK' PROVE TypeInv'
  BY <1>2, <1>3, IdleFacts DEF Rest
<1>4. ASSUME NEW pc \in PCs, Goto(w, pc), DataOK', Fits([t EXCEPT !.pc = pc], rows) PROVE TypeInv'
  BY <1>2, <1>4, GotoFacts
<1>5. UNCHANGED <<intents, chain, outbox, crashes>> => DataOK'
  BY <1>1 DEF DataOK, TypeOK, RowsTypeOK, IntentsTypeOK
<1>6. CASE MatchShortRef(w)
  <2>1. t.pc = "code" /\ t.order \in Orders /\ DataOK'
    BY <1>6, <1>a, <1>5 DEF MatchShortRef, At, Fits
  <2>2. Fits([t EXCEPT !.pc = "resolve"], rows)
    BY <2>1, <1>a DEF Fits, Task, RowPCs
  <2>3. CASE Goto(w, "resolve")
    BY <2>1, <2>2, <2>3, <1>4 DEF PCs
  <2> DEFINE u == [t EXCEPT !.pc = "gate", !.cands = {Named[t.order]}, !.via = "code"]
  <2>4. CASE Become(w, u)
    <3>0. {Named[t.order]} \in SUBSET (Sids \cup {NoSid})
      BY <2>1, RoutingAssumption
    <3>1. u \in Task
      BY <2>1, <3>0, <1>a DEF Task, PCs, Vias
    <3>2. Fits(u, rows)
      BY <2>1, <1>a DEF Fits, Task, RowPCs
    <3> QED BY <2>1, <2>4, <3>1, <3>2, <1>2
  <2> QED BY <1>6, <2>3, <2>4 DEF MatchShortRef
<1>7. CASE FindStray(w)
  <2> DEFINE sids == ResolveStray(t.order, StrayCandidates(t.order))
             u == [t EXCEPT !.pc = "gate", !.cands = sids,
                            !.via = IF sids = {} THEN "memo" ELSE "auto"]
  <2>1. t.pc = "resolve" /\ t.order \in Orders /\ DataOK' /\ Become(w, u)
    BY <1>7, <1>a, <1>5 DEF FindStray, At, Fits
  <2>2. sids \subseteq Sids
    BY TrustedAssumption DEF ResolveStray
  <2>3. u \in Task /\ Fits(u, rows)
    <3>1. u \in Task
      BY <2>2, <1>a DEF Task, PCs, Vias
    <3> QED BY <2>1, <3>1, <1>a DEF Fits, Task, RowPCs
  <2> QED BY <2>1, <2>3, <1>2
<1>8. CASE AuthorizeForward(w)
  <2>1. t.pc = "gate" /\ t.order \in Orders /\ DataOK'
    BY <1>8, <1>a, <1>5 DEF AuthorizeForward, At, Fits
  <2>2. PICK d \in Decisions(t) :
          Become(w, [t EXCEPT !.pc = IF d \in Parked THEN "park" ELSE "claim", !.birth = d])
    BY <1>8 DEF AuthorizeForward
  <2>3. d \in Parked \cup {"broadcasting", "settled_noop"}
    BY GateAssumption DEF Decisions, Parked
  <2> DEFINE u == [t EXCEPT !.pc = IF d \in Parked THEN "park" ELSE "claim", !.birth = d]
  <2>4. u \in Task
    BY <2>3, <1>a DEF Task, PCs, States, Live, Pending, Confirmed
  <2>5. Fits(u, rows)
    BY <2>1, <2>3, <1>a DEF Fits, Task, RowPCs, Parked
  <2> QED BY <2>1, <2>2, <2>4, <2>5, <1>2
<1>9. CASE LostLatch(w)
  <2>1. t.pc = "lost" /\ t.order \in Orders /\ DataOK'
    BY <1>9, <1>a, <1>5 DEF LostLatch, At, Fits
  <2> DEFINE u == [t EXCEPT !.pc = "park", !.birth = "unrouted"]
  <2>2. u \in Task /\ Fits(u, rows)
    BY <2>1, <1>a DEF Task, PCs, States, Parked, Fits, RowPCs
  <2>3. Fits([t EXCEPT !.pc = "claim"], rows)
    BY <2>1, <1>a DEF Fits, Task, RowPCs
  <2> QED BY <1>9, <2>1, <2>2, <2>3, <1>2, <1>3, <1>4 DEF LostLatch, PCs
<1>10. CASE EmitBlocked(w)
  <2>1. t.order \in Orders /\ Rest(w) /\ outbox' = outbox \cup {<<"blk", t.order>>}
    BY <1>10, <1>a DEF EmitBlocked, At, Fits
  <2>2. DataOK'
    BY <1>1, <1>10, <2>1 DEF EmitBlocked, DataOK, TypeOK, RowsTypeOK, IntentsTypeOK, Events
  <2> QED BY <2>1, <2>2, <1>3
<1>11. CASE ForwardViaSafe(w)
  <2>1. t.pc = "send" /\ t.row \in Ids
    BY <1>11, <1>a DEF ForwardViaSafe, At, Fits, RowPCs, Ids
  <2>2. chain' \in Seq(TxStates) /\ Len(chain') = Len(chain)
    <3>1. CASE UNCHANGED chain
      BY <3>1 DEF TypeOK
    <3>2. CASE chain' = [chain EXCEPT ![t.row] = "pool"]
      BY <3>2, <2>1, ExceptSeq DEF TypeOK, RowsTypeOK, Ids, TxStates
    <3> QED BY <1>11, <3>1, <3>2 DEF ForwardViaSafe
  <2>3. DataOK'
    BY <2>2, <1>1, <1>11 DEF ForwardViaSafe, DataOK, TypeOK, RowsTypeOK, IntentsTypeOK
  <2>4. Fits([t EXCEPT !.pc = "sent"], rows) /\ Fits([t EXCEPT !.pc = "unsent"], rows)
    BY <2>1, <1>a DEF Fits, Task, RowPCs
  <2> QED BY <1>11, <2>3, <2>4, <1>4 DEF ForwardViaSafe, PCs
<1>12. CASE PollForwardConfirmation(w)
  <2>1. t.pc = "poll" /\ DataOK'
    BY <1>12, <1>5 DEF PollForwardConfirmation, At
  <2>2. Fits([t EXCEPT !.pc = "confirm"], rows) /\ Fits([t EXCEPT !.pc = "fail"], rows)
    BY <2>1, <1>a DEF Fits, Task, RowPCs
  <2> QED BY <1>12, <2>1, <2>2, <1>3, <1>4 DEF PollForwardConfirmation, PCs
<1>13. CASE FlipPaid(w)
  <2> DEFINE s == rows[t.row].sid
  <2>1. t.pc \in {"full", "short", "late"} /\ s \in Sids /\ t.order \in Orders /\ t.row \in Ids
    BY <1>13, <1>a DEF FlipPaid, At, Fits, RowPCs, Ids
  <2>2. IntentsTypeOK'
    <3>1. CASE UNCHANGED intents
      BY <3>1 DEF TypeOK, IntentsTypeOK
    <3>2. CASE MarkIntentPaid(s, t.order) \/ MarkIntentUnderpaid(s, t.order) \/ MarkIntentLate(s, t.order)
      BY <3>2, <2>1, IntentFacts DEF TypeOK
    <3> QED BY <1>13, <3>1, <3>2 DEF FlipPaid
  <2>3. DataOK'
    BY <2>2, <1>1, <1>13 DEF FlipPaid, DataOK, TypeOK, RowsTypeOK
  <2>4. ASSUME NEW e \in {"int", "undp", "late"}, Then(w, "tell", e) PROVE TypeInv'
    <3> DEFINE u == [t EXCEPT !.pc = "tell", !.event = e]
    <3>1. u \in Task
      BY <1>a DEF Task, PCs
    <3>2. Fits(u, rows)
      BY <2>1, <1>a DEF Fits, Task, RowPCs
    <3> QED BY <2>3, <2>4, <3>1, <3>2, <1>2 DEF Then
  <2>5. Fits([t EXCEPT !.pc = "short"], rows) /\ Fits([t EXCEPT !.pc = "late"], rows)
    BY <2>1, <1>a DEF Fits, Task, RowPCs
  <2> QED BY <1>13, <2>3, <2>4, <2>5, <1>3, <1>4 DEF FlipPaid, PCs
<1>14. CASE Tell(w)
  <2>1. t.pc = "tell" /\ Rest(w)
    BY <1>14 DEF Tell, At
  <2>2. <<t.event, IF t.event = "cmp" THEN t.order ELSE rows[t.row].sid>> \in Events
    BY <2>1, <1>a DEF Fits, Task, Events
  <2>3. DataOK'
    BY <2>2, <1>1, <1>14 DEF Tell, DataOK, TypeOK, RowsTypeOK, IntentsTypeOK
  <2> QED BY <2>1, <2>3, <1>3
<1> QED BY <1>6, <1>7, <1>8, <1>9, <1>10, <1>11, <1>12, <1>13, <1>14

\* A worker that ends is well typed, and the others stay so.
LEMMA RestFacts ==
  ASSUME TypeInv, NEW w \in Workers, Rest(w), Grows
  PROVE  tasks' \in [Workers -> Task] /\ TaskOK'
BY IdleFacts, BecomeFacts DEF Rest

\* Steps that insert a row.
LEMMA InsertType ==
  ASSUME TypeInv, NEW w \in Workers, ClaimForward(w) \/ Park(w) \/ RecordOffRail(w)
  PROVE  TypeInv'
<1> USE DEF TypeInv
<1> DEFINE t == tasks[w]
           n == Len(rows) + 1
<1>a. t \in Task /\ Fits(t, rows) /\ t.pc # "idle" /\ t.order \in Orders
  BY DEF TypeOK, TaskOK, ClaimForward, Park, RecordOffRail, At, Fits
<1>b. MemoSid(t.order) \in Sids \cup {NoSid}
  BY <1>a, RoutingAssumption DEF MemoSid
<1>c. UNCHANGED <<intents, crashes>> /\ outbox' = outbox
  BY DEF ClaimForward, Park, RecordOffRail
<1>1. ASSUME NEW r \in Row, InsertForward(r), NEW c \in TxStates, chain' = Append(chain, c)
      PROVE  /\ DataOK' /\ Grows /\ DOMAIN rows' = Ids \cup {n} /\ rows'[n] = r
             /\ n \in Nat
  <2>1. /\ rows' \in Seq(Row) /\ Len(rows') = n /\ DOMAIN rows' = Ids \cup {n}
        /\ rows'[n] = r /\ \A i \in Ids : rows'[i] = rows[i]
    BY <1>1, InsertFacts DEF TypeOK, RowsTypeOK
  <2>2. chain' \in Seq(TxStates) /\ Len(chain') = n /\ n \in Nat
    BY <1>1 DEF TypeOK, RowsTypeOK
  <2>3. DataOK'
    BY <2>1, <2>2, <1>c DEF DataOK, TypeOK, RowsTypeOK, IntentsTypeOK
  <2>4. Grows
    BY <2>1, <2>2 DEF Grows, Edge, TypeOK, RowsTypeOK
  <2> QED BY <2>1, <2>2, <2>3, <2>4
<1>2. ASSUME DataOK', tasks' \in [Workers -> Task] /\ TaskOK' PROVE TypeInv'
  BY <1>2 DEF TypeOK, DataOK
<1>3. CASE ClaimForward(w)
  <2>1. PICK s \in Claimable(t) :
          LET r == [order |-> t.order, sid |-> s, via |-> t.via, state |-> t.birth, hashed |-> FALSE]
          IN
          \/ /\ Inserts(r)
             /\ InsertForward(r)
             /\ chain' = Append(chain, "none")
             /\ IF t.birth = "broadcasting" THEN Become(w, [t EXCEPT !.pc = "send", !.row = n])
                ELSE IF s # NoSid THEN Become(w, [t EXCEPT !.pc = "full", !.row = n])
                ELSE Rest(w)
          \/ /\ ~ Inserts(r)
             /\ IF t.via = "memo" THEN Rest(w)
                ELSE Become(w, [t EXCEPT !.pc = "lost", !.cands = @ \ {s}])
             /\ UNCHANGED <<rows, chain>>
    BY <1>3 DEF ClaimForward
  <2> DEFINE r == [order |-> t.order, sid |-> s, via |-> t.via, state |-> t.birth, hashed |-> FALSE]
  <2>2. s \in Sids \cup {NoSid}
    BY <1>a, <1>b DEF Claimable, Task
  <2>3. t.pc = "claim" /\ t.birth \in {"broadcasting", "settled_noop"}
    BY <1>3, <1>a DEF ClaimForward, At, Fits
  <2>4. r \in Row
    BY <1>a, <2>2 DEF Row, Task
  <2>5. CASE Inserts(r) /\ InsertForward(r) /\ chain' = Append(chain, "none")
    <3>1. DataOK' /\ Grows /\ DOMAIN rows' = Ids \cup {n} /\ rows'[n] = r /\ n \in Nat
      BY <1>1, <2>4, <2>5 DEF TxStates
    <3>2. CASE Rest(w)
      BY <3>1, <3>2, <1>2, RestFacts
    <3>3. ASSUME NEW pc \in {"send", "full"}, pc = "full" => s \in Sids,
                 Become(w, [t EXCEPT !.pc = pc, !.row = n])
          PROVE  TypeInv'
      <4> DEFINE u == [t EXCEPT !.pc = pc, !.row = n]
      <4>1. u \in Task
        BY <1>a, <3>1 DEF Task, PCs
      <4>2. Fits(u, rows')
        BY <1>a, <3>1, <3>3 DEF Fits, Task, RowPCs
      <4>3. tasks' \in [Workers -> Task] /\ TaskOK'
        BY <3>1, <3>3, <4>1, <4>2, BecomeFacts
      <4> QED BY <1>2, <3>1, <4>3
    <3> QED BY <2>1, <2>2, <2>5, <3>2, <3>3
  <2>6. CASE ~ Inserts(r) /\ UNCHANGED <<rows, chain>>
    <3>1. DataOK' /\ Grows
      BY <2>6, <1>c DEF DataOK, TypeOK, RowsTypeOK, IntentsTypeOK, Grows, Edge, Ids
    <3>2. CASE Rest(w)
      BY <3>1, <3>2, <1>2, RestFacts
    <3> DEFINE u == [t EXCEPT !.pc = "lost", !.cands = t.cands \ {s}]
    <3>3. CASE Become(w, u)
      <4>1. u \in Task
        BY <1>a DEF Task, PCs
      <4>2. Fits(u, rows)
        BY <1>a, <2>3 DEF Fits, Task, RowPCs
      <4> QED BY <3>1, <3>3, <4>1, <4>2, <2>6, <1>2, SameRows
    <3> QED BY <2>1, <2>6, <3>2, <3>3
  <2> QED BY <2>1, <2>5, <2>6
<1>4. CASE Park(w)
  <2> DEFINE r == [order |-> t.order, sid |-> MemoSid(t.order), via |-> "memo",
                   state |-> t.birth, hashed |-> FALSE]
             u == [t EXCEPT !.pc = "blocked", !.row = n]
  <2>1. r \in Row
    BY <1>a, <1>b DEF Row, Task, Vias
  <2>2. DataOK' /\ Grows /\ DOMAIN rows' = Ids \cup {n} /\ rows'[n] = r /\ n \in Nat
    BY <1>1, <1>4, <2>1 DEF Park, TxStates
  <2>3. u \in Task
    BY <1>a, <2>2 DEF Task, PCs
  <2>4. Fits(u, rows')
    BY <1>a, <2>2 DEF Fits, Task, RowPCs
  <2>5. CASE Become(w, u)
    <3>1. tasks' \in [Workers -> Task] /\ TaskOK'
      BY <2>2, <2>3, <2>4, <2>5, BecomeFacts
    <3> QED BY <1>2, <2>2, <3>1
  <2>6. CASE Rest(w)
    BY <2>2, <2>6, <1>2, RestFacts
  <2> QED BY <1>4, <2>5, <2>6 DEF Park
<1>5. CASE RecordOffRail(w)
  <2> DEFINE r == [order |-> t.order, sid |-> MemoSid(t.order), via |-> "offrail",
                   state |-> "resolved_offrail", hashed |-> TRUE]
  <2>1. r \in Row
    BY <1>a, <1>b DEF Row, Vias, States
  <2>2. DataOK' /\ Grows
    BY <1>1, <1>5, <2>1 DEF RecordOffRail, TxStates
  <2> QED BY <1>5, <2>2, <1>2, RestFacts DEF RecordOffRail
<1> QED BY <1>3, <1>4, <1>5

\* Steps that move a row along one of its edges.
LEMMA MoveType ==
  ASSUME TypeInv, NEW w \in Workers,
         UpdateForward(w) \/ SettleConfirmedForward(w) \/ MarkForwardFailed(w)
  PROVE  TypeInv'
<1> USE DEF TypeInv
<1> DEFINE t == tasks[w]
<1>a. t \in Task /\ Fits(t, rows) /\ t.row \in Ids /\ t.order \in Orders /\ rows[t.row].order = t.order
  BY DEF TypeOK, TaskOK, UpdateForward, SettleConfirmedForward, MarkForwardFailed, At, Fits, RowPCs, Ids
<1>b. rows[t.row] \in Row
  BY <1>a, ElementOfSeq DEF TypeOK, RowsTypeOK, Ids
<1>c. UNCHANGED <<intents, chain, outbox, crashes>>
  BY DEF UpdateForward, SettleConfirmedForward, MarkForwardFailed
<1>1. \E e \in DOMAIN From, h \in BOOLEAN : TransitionForward(t.row, e, h)
  BY <1>b DEF UpdateForward, SettleConfirmedForward, MarkForwardFailed, From, Row
<1>2. /\ DataOK' /\ Grows /\ DOMAIN rows' = Ids
      /\ \A i \in Ids : rows'[i].order = rows[i].order /\ rows'[i].sid = rows[i].sid
  <2>1. PICK e \in DOMAIN From, h \in BOOLEAN : TransitionForward(t.row, e, h)
    BY <1>1
  <2>2. /\ rows' \in Seq(Row) /\ Len(rows') = Len(rows) /\ DOMAIN rows' = Ids
        /\ \A j \in Ids : j # t.row => rows'[j] = rows[j]
        /\ rows[t.row].state # From[e] => rows'[t.row] = rows[t.row]
        /\ rows[t.row].state = From[e] =>
             /\ rows'[t.row].state = To[e] /\ rows'[t.row].order = rows[t.row].order
             /\ rows'[t.row].sid = rows[t.row].sid /\ rows'[t.row].via = rows[t.row].via
    BY <1>a, <2>1, TransitionFacts DEF TypeOK, RowsTypeOK
  <2>3. Grows
    BY <2>2 DEF Grows, Edge, TypeOK, RowsTypeOK
  <2> QED BY <2>2, <2>3, <1>c DEF DataOK, TypeOK, RowsTypeOK, IntentsTypeOK
<1>3. ASSUME tasks' \in [Workers -> Task] /\ TaskOK' PROVE TypeInv'
  BY <1>2, <1>3 DEF TypeOK, DataOK
<1>4. CASE Rest(w)
  BY <1>2, <1>3, <1>4, RestFacts
<1>5. CASE At(w, "sent") /\ Goto(w, "poll")
  <2>1. [t EXCEPT !.pc = "poll"] \in Task /\ Become(w, [t EXCEPT !.pc = "poll"])
    BY <1>5, GotoFacts DEF PCs
  <2>2. Fits([t EXCEPT !.pc = "poll"], rows')
    BY <1>a, <1>2 DEF Fits, Task, RowPCs, Ids
  <2> QED BY <1>2, <1>3, <2>1, <2>2, BecomeFacts
<1>6. CASE SettleConfirmedForward(w)
  <2>1. CASE rows[t.row].sid # NoSid /\ Goto(w, "full")
    <3>1. [t EXCEPT !.pc = "full"] \in Task /\ Become(w, [t EXCEPT !.pc = "full"])
      BY <2>1, GotoFacts DEF PCs
    <3>2. rows[t.row].sid \in Sids
      BY <2>1, <1>b DEF Row
    <3>3. Fits([t EXCEPT !.pc = "full"], rows')
      BY <1>a, <1>2, <3>2 DEF Fits, Task, RowPCs, Ids
    <3> QED BY <1>2, <1>3, <3>1, <3>3, BecomeFacts
  <2> DEFINE u == [t EXCEPT !.pc = "tell", !.event = "cmp"]
  <2>2. CASE Become(w, u)
    <3>1. u \in Task
      BY <1>a DEF Task, PCs
    <3>2. Fits(u, rows')
      BY <1>a, <1>2 DEF Fits, Task, RowPCs, Ids
    <3> QED BY <1>2, <1>3, <2>2, <3>1, <3>2, BecomeFacts
  <2> QED BY <1>4, <1>6, <2>1, <2>2 DEF SettleConfirmedForward
<1> QED BY <1>4, <1>5, <1>6 DEF UpdateForward, MarkForwardFailed

\* Steps of the surroundings.
LEMMA OutsideType ==
  ASSUME TypeInv, Surroundings
  PROVE  TypeInv'
<1> USE DEF TypeInv
<1>1. ASSUME NEW i \in Ids, ChainMoves(i) PROVE TypeInv'
  <2>1. PICK fate \in Fates : chain' = [chain EXCEPT ![i] = fate]
    BY <1>1 DEF ChainMoves
  <2>2. fate \in TxStates
    BY FatesAssumption DEF TxStates
  <2>3. chain' \in Seq(TxStates) /\ Len(chain') = Len(chain)
    BY <2>1, <2>2, ExceptSeq DEF TypeOK, RowsTypeOK, Ids
  <2>4. UNCHANGED <<rows, intents, outbox, tasks, crashes>>
    BY <1>1 DEF ChainMoves
  <2> QED BY <2>3, <2>4 DEF TypeOK, TaskOK, RowsTypeOK, IntentsTypeOK
<1>2. ASSUME UNCHANGED <<rows, chain, outbox, tasks, crashes>>, IntentsTypeOK' PROVE TypeInv'
  BY <1>2 DEF TypeOK, TaskOK, RowsTypeOK
<1>3. ASSUME NEW s \in Sids, OpenIntent(s) PROVE TypeInv'
  <2>2. IntentsTypeOK'
    <3>1. [intents[s] EXCEPT !.state = "pending"] \in Intent
      BY DEF TypeOK, IntentsTypeOK, Intent
    <3> QED BY <1>3, <3>1 DEF OpenIntent, CreateIntent, TypeOK, IntentsTypeOK
  <2> QED BY <1>2, <1>3, <2>2 DEF OpenIntent
<1>4. ASSUME NEW overdue \in SUBSET Sids, Sweep(overdue) PROVE TypeInv'
  BY <1>2, <1>4, SweepFacts DEF Sweep, TypeOK
<1>5. ASSUME NEW w \in Workers, Crash(w) PROVE TypeInv'
  <2>1. UNCHANGED <<rows, intents, chain, outbox>> /\ Rest(w) /\ crashes' \in Nat
    BY <1>5 DEF Crash, TypeOK
  <2>2. tasks' \in [Workers -> Task] /\ TaskOK'
    BY <2>1, IdleFacts, SameRows DEF Rest
  <2> QED BY <2>1, <2>2 DEF TypeOK, RowsTypeOK, IntentsTypeOK
<1> QED BY <1>1, <1>3, <1>4, <1>5 DEF Surroundings

\* TypeInv is inductive.
LEMMA TypeStep == TypeInv /\ [Next]_vars => TypeInv'
<1> SUFFICES ASSUME TypeInv, [Next]_vars PROVE TypeInv'
  OBVIOUS
<1>1. ASSUME NEW w \in Workers, Step(w) PROVE TypeInv'
  BY <1>1, QuietType, InsertType, MoveType DEF Step
<1>2. ASSUME NEW w \in Workers, Start(w) PROVE TypeInv'
  BY <1>2, StartType
<1>3. CASE Surroundings
  BY <1>3, OutsideType
<1>4. CASE UNCHANGED vars
  BY <1>4 DEF vars, TypeInv, TypeOK, TaskOK, RowsTypeOK, IntentsTypeOK
<1> QED BY <1>1, <1>2, <1>3, <1>4 DEF Next

\* The empty tables are well typed.
LEMMA TypeInit == Init => TypeInv
BY IdleFacts, BoundsAssumption
   DEF Init, IntentsInit, TypeInv, TypeOK, RowsTypeOK, IntentsTypeOK, Intent, TaskOK

\* Every reachable state is well typed, and a worker's row is there.
LEMMA TypeInvariant == Spec => []TypeInv
BY TypeInit, TypeStep, PTL DEF Spec

\* Every variable of the forward-mode rail stays in its type, however many
\* workers run and wherever they are evicted.
THEOREM TypeCorrect == Spec => []TypeOK
<1>1. TypeInv => TypeOK
  BY DEF TypeInv
<1> QED BY <1>1, TypeInvariant, PTL

-----------------------------------------------------------------------------
(* The order latch *)

\* The six steps that write the table of rows.
LEMMA RowsFrame ==
  ASSUME [Next]_vars
  PROVE  \/ UNCHANGED rows
         \/ \E w \in Workers : ClaimForward(w) \/ Park(w) \/ RecordOffRail(w)
         \/ \E w \in Workers : UpdateForward(w) \/ SettleConfirmedForward(w) \/ MarkForwardFailed(w)
<1>1. ASSUME NEW w \in Workers, Step(w) PROVE UNCHANGED rows
        \/ ClaimForward(w) \/ Park(w) \/ RecordOffRail(w)
        \/ UpdateForward(w) \/ SettleConfirmedForward(w) \/ MarkForwardFailed(w)
  BY <1>1 DEF Step, MatchShortRef, FindStray, AuthorizeForward, LostLatch, EmitBlocked,
              ForwardViaSafe, PollForwardConfirmation, FlipPaid, Tell
<1>2. ASSUME NEW w \in Workers, Start(w) PROVE UNCHANGED rows
  BY <1>2 DEF Start, MaybeForward, CheckOffRail, Reroute, ReadReceipt, Retry
<1>3. Surroundings => UNCHANGED rows
  BY DEF Surroundings, ChainMoves, OpenIntent, Sweep, Crash
<1> QED BY <1>1, <1>2, <1>3 DEF Next, vars

\* Whatever a step does to the table of rows, it is one of three things.
LEMMA RowSteps ==
  ASSUME TypeInv, [Next]_vars
  PROVE  \/ UNCHANGED rows
         \/ \E r \in Row : InsertForward(r) /\ Inserts(r)
         \/ \E i \in Ids, e \in DOMAIN From, h \in BOOLEAN : TransitionForward(i, e, h)
<1> USE DEF TypeInv
<1>1. ASSUME NEW w \in Workers, ClaimForward(w) \/ Park(w) \/ RecordOffRail(w)
      PROVE  UNCHANGED rows \/ \E r \in Row : InsertForward(r) /\ Inserts(r)
  <2> DEFINE t == tasks[w]
  <2>1. t \in Task /\ Fits(t, rows) /\ t.order \in Orders
    BY <1>1 DEF TypeOK, TaskOK, ClaimForward, Park, RecordOffRail, At, Fits
  <2>2. MemoSid(t.order) \in Sids \cup {NoSid} /\ Claimable(t) \subseteq Sids \cup {NoSid}
    BY <2>1, RoutingAssumption DEF MemoSid, Claimable, Task
  <2>3. CASE ClaimForward(w)
    <3>1. CASE UNCHANGED rows
      BY <3>1
    <3>2. ASSUME NEW s \in Claimable(t),
                 Inserts([order |-> t.order, sid |-> s, via |-> t.via, state |-> t.birth, hashed |-> FALSE]),
                 InsertForward([order |-> t.order, sid |-> s, via |-> t.via, state |-> t.birth, hashed |-> FALSE])
          PROVE  \E r \in Row : InsertForward(r) /\ Inserts(r)
      BY <2>1, <2>2, <3>2 DEF Row, Task
    <3> QED BY <2>3, <3>1, <3>2 DEF ClaimForward
  <2>4. CASE Park(w)
    <3> DEFINE r == [order |-> t.order, sid |-> MemoSid(t.order), via |-> "memo",
                     state |-> t.birth, hashed |-> FALSE]
    <3>1. r \in Row /\ r.state \in Parked
      BY <2>1, <2>2, <2>4 DEF Row, Task, Vias, Park, At, Fits
    <3>2. Inserts(r)
      BY <3>1 DEF Inserts, OrderLatchFree, SidLatchFree, Resolved, Parked, Live, Pending, Confirmed
    <3> QED BY <2>4, <3>1, <3>2 DEF Park
  <2>5. CASE RecordOffRail(w)
    <3> DEFINE r == [order |-> t.order, sid |-> MemoSid(t.order), via |-> "offrail",
                     state |-> "resolved_offrail", hashed |-> TRUE]
    <3>1. r \in Row
      BY <2>1, <2>2 DEF Row, Vias, States
    <3>2. Inserts(r)
      BY DEF Inserts, OrderLatchFree, SidLatchFree, Resolved, Live, Pending, Confirmed
    <3> QED BY <2>5, <3>1, <3>2 DEF RecordOffRail
  <2> QED BY <1>1, <2>3, <2>4, <2>5
<1>2. ASSUME NEW w \in Workers, UpdateForward(w) \/ SettleConfirmedForward(w) \/ MarkForwardFailed(w)
      PROVE  \E i \in Ids, e \in DOMAIN From, h \in BOOLEAN : TransitionForward(i, e, h)
  <2>1. tasks[w].row \in Ids
    BY <1>2 DEF TypeOK, TaskOK, UpdateForward, SettleConfirmedForward, MarkForwardFailed, At, Fits, RowPCs, Ids
  <2>2. rows[tasks[w].row].hashed \in BOOLEAN
    <3>1. rows \in Seq(Row)
      BY DEF TypeOK, RowsTypeOK
    <3>2. rows[tasks[w].row] \in Row
      BY <2>1, <3>1, ElementOfSeq DEF Ids
    <3> QED BY <3>2 DEF Row
  <2>3. {"broadcast_ok", "broadcast_failed", "receipt_confirmed", "receipt_failed"} \subseteq DOMAIN From
    BY DEF From
  <2>4. CASE UpdateForward(w)
    BY <2>1, <2>3, <2>4 DEF UpdateForward
  <2>5. CASE SettleConfirmedForward(w)
    BY <2>1, <2>2, <2>3, <2>5 DEF SettleConfirmedForward
  <2>6. CASE MarkForwardFailed(w)
    BY <2>1, <2>2, <2>3, <2>6 DEF MarkForwardFailed
  <2> QED BY <1>2, <2>4, <2>5, <2>6
<1> QED BY <1>1, <1>2, RowsFrame

\* No step gives an order a second live row: every INSERT of one looks at the
\* latch in the same statement, and no edge revives a row.
LEMMA LatchStep ==
  ASSUME TypeInv, OneLiveForward, [Next]_vars
  PROVE  OneLiveForward'
<1>0. rows \in Seq(Row)
  BY DEF TypeInv, TypeOK, RowsTypeOK
<1>1. CASE UNCHANGED rows
  BY <1>1 DEF OneLiveForward, Ids
<1>2. ASSUME NEW r \in Row, InsertForward(r), Inserts(r) PROVE OneLiveForward'
  BY <1>0, <1>2, LatchInsert DEF Inserts
<1>3. ASSUME NEW i \in Ids, NEW e \in DOMAIN From, NEW h \in BOOLEAN, TransitionForward(i, e, h)
      PROVE  OneLiveForward'
  BY <1>0, <1>3, LatchTransition
<1> QED BY <1>1, <1>2, <1>3, RowSteps

\* Without rows the latch holds.
LEMMA LatchInit == Init => OneLiveForward
BY DEF Init, OneLiveForward, Ids

\* An order never has two live forwards, however many deliveries, cron runs
\* and operators race for it.
THEOREM LatchHolds == Spec => []OneLiveForward
BY LatchInit, LatchStep, TypeInvariant, PTL DEF Spec

\* Nor does it give an intent a second live row of the resolver's or an
\* operator's: the INSERT asks the second latch too, and no edge revives a row
\* or changes whose it is.
LEMMA StrayStep ==
  ASSUME TypeInv, OneStrayPerIntent, [Next]_vars
  PROVE  OneStrayPerIntent'
<1>0. rows \in Seq(Row)
  BY DEF TypeInv, TypeOK, RowsTypeOK
<1>1. CASE UNCHANGED rows
  BY <1>1 DEF OneStrayPerIntent, Ids
<1>2. ASSUME NEW r \in Row, InsertForward(r), Inserts(r) PROVE OneStrayPerIntent'
  <2>1. /\ DOMAIN rows' = Ids \cup {Len(rows) + 1}
        /\ \A i \in Ids : rows'[i] = rows[i]
        /\ rows'[Len(rows) + 1] = r
    BY <1>0, <1>2, InsertFacts
  <2> QED BY <1>2, <2>1 DEF OneStrayPerIntent, Inserts, SidLatchFree, Ids
<1>3. ASSUME NEW i \in Ids, NEW e \in DOMAIN From, NEW h \in BOOLEAN, TransitionForward(i, e, h)
      PROVE  OneStrayPerIntent'
  <2>1. /\ DOMAIN rows' = Ids
        /\ \A j \in Ids : j # i => rows'[j] = rows[j]
        /\ rows[i].state # From[e] => rows'[i] = rows[i]
        /\ rows[i].state = From[e] => rows'[i].sid = rows[i].sid /\ rows'[i].via = rows[i].via
    BY <1>0, <1>3, TransitionFacts
  <2>2. \A j \in Ids : /\ rows'[j].sid = rows[j].sid /\ rows'[j].via = rows[j].via
                       /\ rows'[j].state \in Live => rows[j].state \in Live
    BY <2>1, EdgesFromLive
  <2> QED BY <2>1, <2>2 DEF OneStrayPerIntent, Ids
<1> QED BY <1>1, <1>2, <1>3, RowSteps

\* Without rows nothing strays.
LEMMA StrayInit == Init => OneStrayPerIntent
BY DEF Init, OneStrayPerIntent, Ids

\* However many payments, resolvers and operators race for it, an intent has
\* at most one live row that the resolver or an operator gave it.
THEOREM StrayLatchHolds == Spec => []OneStrayPerIntent
BY StrayInit, StrayStep, TypeInvariant, PTL DEF Spec

-----------------------------------------------------------------------------
(* RailInv relates each worker's place in the code to the row it works for,  *)
(* the row to the chain, and the intent to the rows: settlements are backed,  *)
(* single, final, and truthfully told.                                        *)

Sending   == {"send", "sent", "unsent"}
Receiving == {"poll", "confirm", "fail"}
Effects   == {"full", "short", "late", "tell"}

\* What a worker may assume of its row, at every await: it alone moves a row
\* it is broadcasting, and has not sent it twice; a refused transfer is not on
\* the chain, unless the node's answer was ambiguous; a receipt is only read
\* of a row that was submitted, and a failed one is for good, unless the node
\* is blind; the effects run for a row that is confirmed for good.
Holds(t, R, C) ==
  /\ t.pc \in Sending => R[t.row].state = "broadcasting"
  /\ t.pc = "send" => C[t.row] = "none"
  /\ t.pc = "unsent" => C[t.row] = "none" \/ "ambiguous_rpc" \in Faults
  /\ t.pc \in Receiving => R[t.row].state \in {"submitted", "forwarded", "failed"}
  /\ t.pc = "confirm" => C[t.row] = "mined"
  /\ t.pc = "fail" => C[t.row] \in {"reverted", "gone"} \/ "blind_node" \in Faults
  /\ t.pc \in Effects => R[t.row].state \in {"forwarded", "settled_noop"}
  /\ t.via # "offrail"

TasksHold == \A w \in Workers : Holds(tasks[w], rows, chain)

\* No two workers broadcast, or run the effects of, the same row.
Exclusive ==
  \A v, w \in Workers :
    /\ tasks[v].pc \in Sending \cup Effects /\ tasks[w].pc \in Sending \cup Effects
    /\ tasks[v].row = tasks[w].row
    => v = w

\* What a row says of the chain, and of its origin.
RowsHold ==
  \A i \in Ids : /\ rows[i].state = "forwarded" => chain[i] = "mined"
                 /\ rows[i].via = "offrail" => rows[i].state = "resolved_offrail"

\* What the columns of an intent say of each other.
IntentHolds(r, s) ==
  /\ r.state = "none" => r.order = NoOrder
  /\ r.dated => r.state \in {"paid", "expired"} /\ r.order # NoOrder
  /\ r.state = "paid" => r.dated /\ r.order # NoOrder /\ Amount[r.order] >= Price[s]
  /\ r.order # NoOrder /\ ~ r.dated => Amount[r.order] < Price[s]

IntentsHold == \A s \in Sids : IntentHolds(intents[s], s)

\* What an event says of its intent, in the outbox or about to be enqueued.
Truth(e, r) ==
  /\ e = "int" => r.state = "paid"
  /\ e = "late" => r.state = "expired" /\ r.order # NoOrder /\ r.dated
  /\ e = "undp" => r.order # NoOrder

Told ==
  /\ \A e \in {"int", "late", "undp"}, s \in Sids :
       <<e, s>> \in outbox => Truth(e, intents[s])
  /\ \A w \in Workers : At(w, "tell") /\ tasks[w].event # "cmp" =>
       Truth(tasks[w].event, intents[rows[tasks[w].row].sid])

RailInv == /\ TypeInv /\ OneLiveForward
           /\ TasksHold /\ Exclusive /\ RowsHold
           /\ IntentsHold /\ SettledIsBacked /\ Told


-----------------------------------------------------------------------------
(* What a step keeps of the rows and of the chain *)

\* What the transition table says of the ends of its edges.
LEMMA EdgeFacts ==
  \A e \in DOMAIN From : /\ From[e] \notin Terminal
                         /\ To[e] # "resolved_offrail" /\ From[e] # "resolved_offrail"
                         /\ From[e] = "submitted" => To[e] \in {"forwarded", "failed"}
                         /\ To[e] = "forwarded" => From[e] = "submitted"
                         /\ To[e] # "settled_noop" /\ From[e] # "settled_noop"
BY DEF From, To, Terminal, States, Live, Pending, Confirmed, Parked

\* A stored row keeps whose it is; a terminal row stays as it is; a submitted
\* row can only be confirmed or fail, and only a submitted one is confirmed.
LEMMA RowsKept ==
  ASSUME TypeInv, [Next]_vars, NEW i \in Ids
  PROVE  /\ i \in DOMAIN rows'
         /\ rows'[i].order = rows[i].order /\ rows'[i].sid = rows[i].sid /\ rows'[i].via = rows[i].via
         /\ rows[i].state \in Terminal => rows'[i] = rows[i]
         /\ rows[i].state = "submitted" => rows'[i].state \in {"submitted", "forwarded", "failed"}
         /\ rows'[i].state = "forwarded" => rows[i].state \in {"submitted", "forwarded"}
         /\ rows'[i].state = "resolved_offrail" <=> rows[i].state = "resolved_offrail"
         /\ rows'[i].state = "settled_noop" <=> rows[i].state = "settled_noop"
<1>0. rows \in Seq(Row)
  BY DEF TypeInv, TypeOK, RowsTypeOK
<1>1. CASE rows' = rows
  BY <1>1 DEF Ids
<1>2. ASSUME NEW r \in Row, InsertForward(r) PROVE i \in DOMAIN rows' /\ rows'[i] = rows[i]
  BY <1>0, <1>2, InsertFacts
<1>3. ASSUME NEW j \in Ids, NEW e \in DOMAIN From, NEW h \in BOOLEAN, TransitionForward(j, e, h)
      PROVE  /\ i \in DOMAIN rows'
             /\ \/ rows'[i] = rows[i]
                \/ /\ rows[i].state = From[e] /\ rows'[i].state = To[e]
                   /\ rows'[i].order = rows[i].order
                   /\ rows'[i].sid = rows[i].sid /\ rows'[i].via = rows[i].via
  BY <1>0, <1>3, TransitionFacts
<1>4. CASE \E j \in Ids, e \in DOMAIN From, h \in BOOLEAN : TransitionForward(j, e, h)
  BY <1>3, <1>4, EdgeFacts
<1> QED BY <1>1, <1>2, <1>4, RowSteps

\* The four ways in which the chain changes.
LEMMA ChainFrame ==
  ASSUME [Next]_vars
  PROVE  \/ UNCHANGED chain
         \/ \E c \in {"none", "mined"} : chain' = Append(chain, c)
         \/ \E w \in Workers : /\ ForwardViaSafe(w)
                               /\ chain' = [chain EXCEPT ![tasks[w].row] = "pool"]
         \/ \E i \in Ids : ChainMoves(i)
<1>1. ASSUME NEW w \in Workers, Step(w)
      PROVE  \/ UNCHANGED chain
             \/ \E c \in {"none", "mined"} : chain' = Append(chain, c)
             \/ /\ ForwardViaSafe(w)
                /\ chain' = [chain EXCEPT ![tasks[w].row] = "pool"]
  BY <1>1 DEF Step, MatchShortRef, FindStray, AuthorizeForward, ClaimForward, LostLatch, Park,
              EmitBlocked, ForwardViaSafe, UpdateForward, PollForwardConfirmation,
              SettleConfirmedForward, MarkForwardFailed, FlipPaid, Tell, RecordOffRail
<1>2. ASSUME NEW w \in Workers, Start(w) PROVE UNCHANGED chain
  BY <1>2 DEF Start, MaybeForward, CheckOffRail, Reroute, ReadReceipt, Retry
<1>3. Surroundings => UNCHANGED chain \/ \E i \in Ids : ChainMoves(i)
  BY DEF Surroundings, OpenIntent, Sweep, Crash
<1> QED BY <1>1, <1>2, <1>3 DEF Next, vars

\* A transaction that has ended stays as it is; what an unsent one may become.
LEMMA ChainKept ==
  ASSUME TypeInv, TasksHold, [Next]_vars, NEW i \in Ids
  PROVE  /\ chain[i] \in {"mined", "reverted", "gone"} => chain'[i] = chain[i]
         /\ chain[i] = "none" =>
              \/ chain'[i] = "none"
              \/ \E w \in Workers : ForwardViaSafe(w) /\ tasks[w].row = i
<1>0. /\ chain \in Seq(TxStates) /\ Len(chain) = Len(rows)
      /\ i \in DOMAIN chain /\ i \in 1..Len(chain)
  BY DEF TypeInv, TypeOK, RowsTypeOK, Ids
<1>1. CASE UNCHANGED chain
  BY <1>1
<1>2. ASSUME NEW c \in {"none", "mined"}, chain' = Append(chain, c) PROVE chain'[i] = chain[i]
  BY <1>0, <1>2
<1>3. ASSUME NEW w \in Workers, ForwardViaSafe(w), chain' = [chain EXCEPT ![tasks[w].row] = "pool"]
      PROVE  /\ tasks[w].row # i => chain'[i] = chain[i]
             /\ tasks[w].row = i => chain[i] = "none"
  BY <1>0, <1>3 DEF ForwardViaSafe, At, TasksHold, Holds
<1>4. ASSUME NEW j \in Ids, ChainMoves(j) PROVE chain[i] # "pool" => chain'[i] = chain[i]
  BY <1>0, <1>4 DEF ChainMoves
<1> QED BY <1>1, <1>2, <1>3, <1>4, ChainFrame

-----------------------------------------------------------------------------
(* What a step does to the workers *)

\* What Become, Goto and Rest do.
LEMMA BecomeIs ==
  ASSUME TypeInv, NEW w \in Workers, NEW t, Become(w, t)
  PROVE  tasks'[w] = t /\ \A v \in Workers : v # w => tasks'[v] = tasks[v]
BY DEF TypeInv, TypeOK, Become

\* A worker that goes on keeps what it holds, and the others their places.
LEMMA GotoIs ==
  ASSUME TypeInv, NEW w \in Workers, NEW pc \in PCs, Goto(w, pc)
  PROVE  /\ tasks'[w] = [tasks[w] EXCEPT !.pc = pc]
         /\ tasks'[w].pc = pc /\ tasks'[w].order = tasks[w].order /\ tasks'[w].row = tasks[w].row
         /\ tasks'[w].via = tasks[w].via /\ tasks'[w].event = tasks[w].event
         /\ \A v \in Workers : v # w => tasks'[v] = tasks[v]
<1>1. tasks'[w] = [tasks[w] EXCEPT !.pc = pc] /\ \A v \in Workers : v # w => tasks'[v] = tasks[v]
  BY GotoFacts, BecomeIs
<1>2. tasks[w] \in Task
  BY DEF TypeInv, TypeOK
<1> QED BY <1>1, <1>2 DEF Task

\* A worker that ends leaves the others their places.
LEMMA RestIs ==
  ASSUME TypeInv, NEW w \in Workers, Rest(w)
  PROVE  /\ tasks'[w] = Idle /\ tasks'[w].pc = "idle" /\ tasks'[w].via = "memo"
         /\ \A v \in Workers : v # w => tasks'[v] = tasks[v]
BY BecomeIs DEF Rest, Idle

\* A worker that does not move goes on holding what it assumed of its row.
LEMMA HoldsKept ==
  ASSUME RailInv, [Next]_vars, NEW v \in Workers, tasks'[v] = tasks[v]
  PROVE  Holds(tasks[v], rows', chain')
<1> DEFINE t == tasks[v]
           i == t.row
<1>0. TypeInv /\ TasksHold /\ Exclusive /\ Holds(t, rows, chain) /\ rows \in Seq(Row)
  BY DEF RailInv, TypeInv, TypeOK, RowsTypeOK, TasksHold
<1>1. t.pc \in Sending \cup Receiving \cup Effects => i \in Ids
  BY <1>0 DEF TypeInv, TaskOK, Fits, RowPCs, Sending, Receiving, Effects, Ids
<1>2. ASSUME t.pc \in Sending PROVE rows'[i].state = "broadcasting"
  <2>0. i \in Ids /\ rows[i].state = "broadcasting"
    BY <1>0, <1>1, <1>2 DEF Holds
  <2>1. ASSUME NEW w \in Workers, UpdateForward(w) PROVE rows'[i] = rows[i]
    <3>a. tasks[w].pc \in {"sent", "unsent"} /\ tasks'[w].pc \in {"poll", "idle"}
      BY <1>0, <2>1, GotoIs, RestIs DEF UpdateForward, At, PCs
    <3>1. w # v /\ tasks[w].pc \in Sending /\ tasks[w].row \in Ids
      BY <1>0, <3>a DEF Sending, TypeInv, TaskOK, Fits, RowPCs, Ids
    <3>2. tasks[w].row # i
      BY <1>0, <1>2, <3>1 DEF Exclusive
    <3>3. \E e \in DOMAIN From, h \in BOOLEAN : TransitionForward(tasks[w].row, e, h)
      BY <2>1 DEF UpdateForward, From
    <3> QED BY <1>0, <2>0, <3>1, <3>2, <3>3, TransitionFacts
  <2>2. ASSUME NEW w \in Workers, SettleConfirmedForward(w) \/ MarkForwardFailed(w)
        PROVE  rows'[i] = rows[i]
    <3>1. \E e \in {"receipt_confirmed", "receipt_failed"} : \E h : TransitionForward(tasks[w].row, e, h)
      BY <2>2 DEF SettleConfirmedForward, MarkForwardFailed
    <3> QED BY <1>0, <2>0, <3>1 DEF TransitionForward, From, Ids
  <2>3. ASSUME NEW w \in Workers, ClaimForward(w) \/ Park(w) \/ RecordOffRail(w)
        PROVE  rows'[i] = rows[i]
    <3>1. rows' = rows \/ \E r : rows' = Append(rows, r)
      BY <2>3 DEF ClaimForward, Park, RecordOffRail, InsertForward
    <3> QED BY <1>0, <2>0, <3>1 DEF Ids
  <2> QED BY <2>0, <2>1, <2>2, <2>3, RowsFrame
<1>3. ASSUME t.pc \in {"send", "unsent"}, chain[i] = "none" PROVE chain'[i] = "none"
  <2>1. i \in Ids /\ chain[i] = "none"
    BY <1>0, <1>1, <1>3 DEF Holds, Sending
  <2>2. ASSUME NEW w \in Workers, ForwardViaSafe(w) PROVE tasks[w].row # i
    <3>1. w # v /\ tasks[w].pc = "send"
      BY <1>0, <1>3, <2>2 DEF ForwardViaSafe, At, Goto, TypeInv, TypeOK, Task
    <3> QED BY <1>0, <1>3, <3>1 DEF Exclusive, Sending
  <2> QED BY <1>0, <2>1, <2>2, ChainKept
<1>4. ASSUME t.pc \in Receiving \cup Effects PROVE Holds(t, rows', chain')
  <2>1. i \in Ids
    BY <1>1, <1>4
  <2> QED BY <1>0, <1>4, <2>1, RowsKept, ChainKept
          DEF Holds, Sending, Receiving, Effects, Terminal, States, Live, Pending, Confirmed, Parked
<1> QED BY <1>0, <1>2, <1>3, <1>4 DEF Holds, Sending, Receiving, Effects

\* Steps after which the worker has no row to hold.
Calm(t) == t.pc \notin Sending \cup Receiving \cup Effects /\ t.via # "offrail"

\* A calm task relies on nothing that another worker could change.
LEMMA CalmHolds == ASSUME NEW t, Calm(t), NEW R, NEW C PROVE Holds(t, R, C)
BY DEF Calm, Holds, Sending, Receiving, Effects

\* Every task starts calm.
LEMMA CalmStarts ==
  /\ Calm(Idle)
  /\ \A o \in Orders : Calm(HandleForward(o)) /\ \A s \in Sids : Calm(HandleManual(o, s))
BY DEF Calm, Idle, HandleForward, HandleManual, Sending, Receiving, Effects

\* The steps that leave a worker calm.
LEMMA CalmStep ==
  ASSUME TypeInv, TasksHold, NEW w \in Workers,
         \/ MatchShortRef(w) \/ FindStray(w) \/ AuthorizeForward(w) \/ LostLatch(w)
         \/ Park(w) \/ EmitBlocked(w) \/ RecordOffRail(w) \/ MarkForwardFailed(w)
         \/ Tell(w) \/ Crash(w)
  PROVE  Calm(tasks'[w]) /\ \A v \in Workers : v # w => tasks'[v] = tasks[v]
<1> DEFINE t == tasks[w]
<1>0. t \in Task /\ t.via # "offrail"
  BY DEF TypeInv, TypeOK, TasksHold, Holds
<1>1. ASSUME NEW u, u.pc \in {"gate", "park", "claim", "blocked"}, u.via # "offrail", Become(w, u)
      PROVE  Calm(tasks'[w]) /\ \A v \in Workers : v # w => tasks'[v] = tasks[v]
  BY <1>1, BecomeIs DEF Calm, Sending, Receiving, Effects
<1>2. ASSUME NEW pc \in {"resolve", "claim"}, Goto(w, pc)
      PROVE  Calm(tasks'[w]) /\ \A v \in Workers : v # w => tasks'[v] = tasks[v]
  BY <1>0, <1>2, GotoIs DEF Calm, Sending, Receiving, Effects, PCs
<1>3. ASSUME Rest(w)
      PROVE  Calm(tasks'[w]) /\ \A v \in Workers : v # w => tasks'[v] = tasks[v]
  BY <1>3, RestIs, CalmStarts
<1>4. CASE MatchShortRef(w)
  <2> DEFINE u == [t EXCEPT !.pc = "gate", !.cands = {Named[t.order]}, !.via = "code"]
  <2>1. u.pc = "gate" /\ u.via = "code"
    BY <1>0 DEF Task
  <2>2. Become(w, u) \/ Goto(w, "resolve")
    BY <1>4 DEF MatchShortRef
  <2> HIDE DEF u
  <2> QED BY <1>1, <1>2, <2>1, <2>2
<1>5. CASE FindStray(w)
  <2> DEFINE sids == ResolveStray(t.order, StrayCandidates(t.order))
             u == [t EXCEPT !.pc = "gate", !.cands = sids,
                            !.via = IF sids = {} THEN "memo" ELSE "auto"]
  <2>1. u.pc = "gate" /\ u.via # "offrail"
    BY <1>0 DEF Task
  <2>2. Become(w, u)
    BY <1>5 DEF FindStray
  <2> HIDE DEF u
  <2> QED BY <1>1, <2>1, <2>2
<1>6. CASE AuthorizeForward(w)
  <2>1. PICK d : Become(w, [t EXCEPT !.pc = IF d \in Parked THEN "park" ELSE "claim", !.birth = d])
    BY <1>6 DEF AuthorizeForward
  <2> DEFINE u == [t EXCEPT !.pc = IF d \in Parked THEN "park" ELSE "claim", !.birth = d]
  <2>2. u.pc \in {"park", "claim"} /\ u.via # "offrail" /\ Become(w, u)
    BY <1>0, <2>1 DEF Task
  <2> HIDE DEF u
  <2> QED BY <1>1, <2>2
<1>7. CASE LostLatch(w)
  <2> DEFINE u == [t EXCEPT !.pc = "park", !.birth = "unrouted"]
  <2>1. u.pc = "park" /\ u.via # "offrail"
    BY <1>0 DEF Task
  <2>2. Become(w, u) \/ Goto(w, "claim") \/ Rest(w)
    BY <1>7 DEF LostLatch
  <2> HIDE DEF u
  <2> QED BY <1>1, <1>2, <1>3, <2>1, <2>2
<1>8. CASE Park(w)
  <2> DEFINE u == [t EXCEPT !.pc = "blocked", !.row = Len(rows) + 1]
  <2>1. u.pc = "blocked" /\ u.via # "offrail"
    BY <1>0 DEF Task
  <2>2. Become(w, u) \/ Rest(w)
    BY <1>8 DEF Park
  <2> HIDE DEF u
  <2> QED BY <1>1, <1>3, <2>1, <2>2
<1> QED BY <1>3, <1>4, <1>5, <1>6, <1>7, <1>8
        DEF EmitBlocked, RecordOffRail, MarkForwardFailed, Tell, Crash

\* How a worker comes to broadcast, or to run the effects of, a row: it did so
\* before, it has just inserted it, or it has just confirmed it.
Entry(w) ==
  LET u == tasks'[w] IN
  u.pc \in Sending \cup Effects =>
    \/ tasks[w].pc \in Sending \cup Effects /\ u.row = tasks[w].row
    \/ u.row \notin Ids
    \/ u.row \in Ids /\ rows[u.row].state = "submitted"

\* The worker that moves holds what the next piece of its code assumes.
LEMMA StartHolds ==
  ASSUME TypeInv, NEW w \in Workers, Start(w)
  PROVE  /\ Holds(tasks'[w], rows', chain') /\ Entry(w) /\ tasks'[w].pc # "tell"
         /\ \A v \in Workers : v # w => tasks'[v] = tasks[v]
<1>1. UNCHANGED <<rows, chain>>
  BY DEF Start, MaybeForward, CheckOffRail, Reroute, ReadReceipt, Retry
<1>2. ASSUME NEW u, Calm(u), Become(w, u)
      PROVE  /\ Holds(tasks'[w], rows', chain') /\ Entry(w) /\ tasks'[w].pc # "tell"
             /\ \A v \in Workers : v # w => tasks'[v] = tasks[v]
  BY <1>2, BecomeIs, CalmHolds DEF Calm, Entry, Effects
<1>3. ASSUME NEW o \in Orders, CheckOffRail(w, o)
      PROVE  \E u : Calm(u) /\ Become(w, u)
  <2> DEFINE u == [Idle EXCEPT !.pc = "offrail", !.order = o]
  <2>1. Calm(u)
    BY DEF Calm, Idle, Sending, Receiving, Effects
  <2> QED BY <1>3, <2>1 DEF CheckOffRail
<1>4. ASSUME NEW o \in Orders, MaybeForward(w, o) \/ \E s \in Sids : Reroute(w, o, s)
      PROVE  \E u : Calm(u) /\ Become(w, u)
  BY <1>4, CalmStarts DEF MaybeForward, Reroute
<1>5. ASSUME NEW i \in Ids, Retry(w, i)
      PROVE  \E u : Calm(u) /\ Become(w, u)
  <2>1. rows[i] \in Row
    BY ElementOfSeq DEF TypeInv, TypeOK, RowsTypeOK, Ids
  <2>2. rows[i].order \in Orders /\ rows[i].sid \in Sids \cup {NoSid}
    BY <2>1 DEF Row
  <2> QED BY <1>5, <2>2, CalmStarts DEF Retry
<1>6. ASSUME NEW i \in Ids, ReadReceipt(w, i)
      PROVE  /\ Holds(tasks'[w], rows', chain') /\ Entry(w) /\ tasks'[w].pc # "tell"
             /\ \A v \in Workers : v # w => tasks'[v] = tasks[v]
  <2>1. PICK pc \in {"confirm", "fail"} :
          /\ Become(w, [Idle EXCEPT !.pc = pc, !.order = rows[i].order, !.row = i])
          /\ pc = "confirm" => chain[i] = "mined"
          /\ pc = "fail" => chain[i] \in {"reverted", "gone"} \/ "blind_node" \in Faults
    BY <1>6 DEF ReadReceipt, LooksDropped
  <2> DEFINE u == [Idle EXCEPT !.pc = pc, !.order = rows[i].order, !.row = i]
  <2>2. u.pc = pc /\ u.row = i /\ u.via = "memo" /\ rows[i].state = "submitted"
    BY <1>6 DEF Idle, ReadReceipt
  <2>3. tasks'[w] = u /\ \A v \in Workers : v # w => tasks'[v] = tasks[v]
    BY <2>1, BecomeIs
  <2>4. Holds(u, rows, chain)
    BY <2>1, <2>2 DEF Holds, Sending, Receiving, Effects
  <2> QED BY <1>1, <2>2, <2>3, <2>4 DEF Entry, Sending, Effects
<1> QED BY <1>2, <1>3, <1>4, <1>5, <1>6 DEF Start

\* What a worker may assume after it has claimed, or been refused.
LEMMA ClaimHolds ==
  ASSUME TypeInv, TasksHold, NEW w \in Workers, ClaimForward(w)
  PROVE  /\ Holds(tasks'[w], rows', chain') /\ Entry(w) /\ tasks'[w].pc # "tell"
         /\ \A v \in Workers : v # w => tasks'[v] = tasks[v]
<1> DEFINE t == tasks[w]
           n == Len(rows) + 1
<1>0. /\ t \in Task /\ t.via # "offrail" /\ t.birth \in {"broadcasting", "settled_noop"}
      /\ rows \in Seq(Row) /\ chain \in Seq(TxStates) /\ Len(chain) = Len(rows)
  BY DEF TypeInv, TypeOK, RowsTypeOK, TaskOK, Fits, TasksHold, Holds, ClaimForward, At
<1>1. ASSUME NEW u, Calm(u), Become(w, u)
      PROVE  /\ Holds(tasks'[w], rows', chain') /\ Entry(w) /\ tasks'[w].pc # "tell"
             /\ \A v \in Workers : v # w => tasks'[v] = tasks[v]
  BY <1>1, BecomeIs, CalmHolds DEF Calm, Entry, Effects
<1>2. PICK s \in Claimable(t) :
        LET r == [order |-> t.order, sid |-> s, via |-> t.via, state |-> t.birth, hashed |-> FALSE]
            Took(pc) == /\ InsertForward(r) /\ chain' = Append(chain, "none")
                        /\ Become(w, [t EXCEPT !.pc = pc, !.row = n])
        IN
        \/ Rest(w)
        \/ Become(w, [t EXCEPT !.pc = "lost", !.cands = t.cands \ {s}])
        \/ t.birth = "broadcasting" /\ Took("send")
        \/ t.birth # "broadcasting" /\ Took("full")
  BY DEF ClaimForward
<1> DEFINE r == [order |-> t.order, sid |-> s, via |-> t.via, state |-> t.birth, hashed |-> FALSE]
           lost == [t EXCEPT !.pc = "lost", !.cands = t.cands \ {s}]
           sending == [t EXCEPT !.pc = "send", !.row = n]
           settling == [t EXCEPT !.pc = "full", !.row = n]
<1>3. Calm(lost)
  BY <1>0 DEF Calm, Task, Sending, Receiving, Effects
<1>4. Rest(w) => Become(w, Idle) /\ Calm(Idle)
  BY CalmStarts DEF Rest
<1>5. /\ sending.pc = "send" /\ sending.row = n /\ sending.via # "offrail"
      /\ settling.pc = "full" /\ settling.row = n /\ settling.via # "offrail"
  BY <1>0 DEF Task
<1>6. ASSUME InsertForward(r), chain' = Append(chain, "none")
      PROVE  rows'[n].state = t.birth /\ chain'[n] = "none" /\ n \notin Ids
  BY <1>0, <1>6 DEF InsertForward, Ids
<1>7. \/ Become(w, lost)
      \/ Rest(w)
      \/ /\ InsertForward(r)
         /\ chain' = Append(chain, "none")
         /\ \/ t.birth = "broadcasting" /\ Become(w, sending)
            \/ t.birth = "settled_noop" /\ Become(w, settling)
  BY <1>0, <1>2
<1> HIDE DEF lost, sending, settling, r, n
<1>8. ASSUME t.birth = "broadcasting", InsertForward(r), chain' = Append(chain, "none"), Become(w, sending)
      PROVE  /\ Holds(tasks'[w], rows', chain') /\ Entry(w) /\ tasks'[w].pc # "tell"
             /\ \A v \in Workers : v # w => tasks'[v] = tasks[v]
  BY <1>5, <1>6, <1>8, BecomeIs DEF Holds, Entry, Sending, Receiving, Effects
<1>9. ASSUME t.birth = "settled_noop", InsertForward(r), chain' = Append(chain, "none"), Become(w, settling)
      PROVE  /\ Holds(tasks'[w], rows', chain') /\ Entry(w) /\ tasks'[w].pc # "tell"
             /\ \A v \in Workers : v # w => tasks'[v] = tasks[v]
  BY <1>5, <1>6, <1>9, BecomeIs DEF Holds, Entry, Sending, Receiving, Effects
<1> QED BY <1>1, <1>3, <1>4, <1>7, <1>8, <1>9

\* After it has broadcast, or recorded that.
LEMMA BroadcastHolds ==
  ASSUME TypeInv, TasksHold, NEW w \in Workers, ForwardViaSafe(w) \/ UpdateForward(w)
  PROVE  /\ Holds(tasks'[w], rows', chain') /\ Entry(w) /\ tasks'[w].pc # "tell"
         /\ \A v \in Workers : v # w => tasks'[v] = tasks[v]
<1> DEFINE t == tasks[w]
<1>0. /\ t \in Task /\ t.pc \in Sending /\ t.via # "offrail" /\ Holds(t, rows, chain)
      /\ t.row \in Ids /\ rows \in Seq(Row) /\ rows[t.row].state = "broadcasting"
  BY DEF TypeInv, TypeOK, RowsTypeOK, TaskOK, Fits, RowPCs, Ids, TasksHold, Holds,
         ForwardViaSafe, UpdateForward, At, Sending
<1>1. CASE ForwardViaSafe(w)
  <2>1. PICK pc \in {"sent", "unsent"} :
          /\ Goto(w, pc) /\ UNCHANGED rows
          /\ pc = "unsent" => UNCHANGED chain \/ "ambiguous_rpc" \in Faults
    BY <1>1 DEF ForwardViaSafe
  <2>2. t.pc = "send"
    BY <1>1 DEF ForwardViaSafe, At
  <2> QED BY <1>0, <2>1, <2>2, GotoIs DEF Holds, Entry, Sending, Receiving, Effects, PCs
<1>2. CASE UpdateForward(w)
  <2>1. CASE Rest(w)
    BY <2>1, RestIs, CalmHolds, CalmStarts DEF Entry, Sending, Effects
  <2>2. CASE TransitionForward(t.row, "broadcast_ok", TRUE) /\ Goto(w, "poll")
    <3>1. rows'[t.row].state = "submitted"
      BY <1>0, <2>2, TransitionFacts DEF From, To
    <3> QED BY <1>0, <2>2, <3>1, GotoIs DEF Holds, Entry, Sending, Receiving, Effects, PCs
  <2> QED BY <1>2, <2>1, <2>2 DEF UpdateForward
<1> QED BY <1>1, <1>2

\* After it has read a receipt.
LEMMA PollHolds ==
  ASSUME TypeInv, TasksHold, NEW w \in Workers, PollForwardConfirmation(w)
  PROVE  /\ Holds(tasks'[w], rows', chain') /\ Entry(w) /\ tasks'[w].pc # "tell"
         /\ \A v \in Workers : v # w => tasks'[v] = tasks[v]
<1> DEFINE t == tasks[w]
<1>0. t.pc = "poll" /\ t.via # "offrail" /\ Holds(t, rows, chain) /\ UNCHANGED <<rows, chain>>
  BY DEF TasksHold, Holds, PollForwardConfirmation, At
<1>1. CASE Rest(w)
  BY <1>1, RestIs, CalmHolds, CalmStarts DEF Entry, Sending, Effects
<1>2. ASSUME NEW pc \in {"confirm", "fail"}, Goto(w, pc),
             pc = "confirm" => chain[t.row] = "mined", pc = "fail" => chain[t.row] = "reverted"
      PROVE  /\ Holds(tasks'[w], rows', chain') /\ Entry(w) /\ tasks'[w].pc # "tell"
             /\ \A v \in Workers : v # w => tasks'[v] = tasks[v]
  BY <1>0, <1>2, GotoIs DEF Holds, Entry, Sending, Receiving, Effects, PCs
<1> QED BY <1>1, <1>2 DEF PollForwardConfirmation

\* After it has flipped the row, or lost the flip.
LEMMA SettleHolds ==
  ASSUME TypeInv, TasksHold, NEW w \in Workers, SettleConfirmedForward(w)
  PROVE  /\ Holds(tasks'[w], rows', chain') /\ Entry(w)
         /\ tasks'[w].pc = "tell" => tasks'[w].event = "cmp"
         /\ \A v \in Workers : v # w => tasks'[v] = tasks[v]
<1> DEFINE t == tasks[w]
           u == [t EXCEPT !.pc = "tell", !.event = "cmp"]
<1>0. /\ t \in Task /\ t.pc = "confirm" /\ t.via # "offrail" /\ t.row \in Ids /\ rows \in Seq(Row)
  BY DEF TypeInv, TypeOK, RowsTypeOK, TaskOK, Fits, RowPCs, Ids, TasksHold, Holds,
         SettleConfirmedForward, At
<1>1. u.pc = "tell" /\ u.event = "cmp" /\ u.row = t.row /\ u.via # "offrail"
  BY <1>0 DEF Task
<1>2. \/ Rest(w)
      \/ rows[t.row].state = "submitted" /\ (Goto(w, "full") \/ Become(w, u))
  BY DEF SettleConfirmedForward
<1>3. rows[t.row].state = "submitted" => rows'[t.row].state = "forwarded"
  <2>1. rows[t.row] \in Row
    BY <1>0, ElementOfSeq DEF Ids
  <2>2. rows[t.row].hashed \in BOOLEAN
    BY <2>1 DEF Row
  <2> QED BY <1>0, <2>2, TransitionFacts DEF SettleConfirmedForward, From, To
<1> HIDE DEF u
<1>4. CASE Rest(w)
  BY <1>4, RestIs, CalmHolds, CalmStarts DEF Entry, Sending, Effects
<1>5. CASE rows[t.row].state = "submitted" /\ Goto(w, "full")
  BY <1>0, <1>3, <1>5, GotoIs DEF Holds, Entry, Sending, Receiving, Effects, PCs
<1>6. CASE rows[t.row].state = "submitted" /\ Become(w, u)
  BY <1>0, <1>1, <1>3, <1>6, BecomeIs DEF Holds, Entry, Sending, Receiving, Effects
<1> QED BY <1>2, <1>4, <1>5, <1>6

\* After it has written the intent.
LEMMA FlipHolds ==
  ASSUME TypeInv, TasksHold, NEW w \in Workers, FlipPaid(w)
  PROVE  /\ Holds(tasks'[w], rows', chain') /\ Entry(w)
         /\ \A v \in Workers : v # w => tasks'[v] = tasks[v]
<1> DEFINE t == tasks[w]
<1>0. t \in Task /\ t.pc \in Effects /\ t.via # "offrail" /\ Holds(t, rows, chain) /\ UNCHANGED <<rows, chain>>
  BY DEF TypeInv, TypeOK, TasksHold, Holds, FlipPaid, At, Effects
<1>1. CASE Rest(w)
  BY <1>1, RestIs, CalmHolds, CalmStarts DEF Entry, Sending, Effects
<1>2. ASSUME NEW pc \in {"short", "late"}, Goto(w, pc)
      PROVE  /\ Holds(tasks'[w], rows', chain') /\ Entry(w)
             /\ \A v \in Workers : v # w => tasks'[v] = tasks[v]
  BY <1>0, <1>2, GotoIs DEF Holds, Entry, Sending, Receiving, Effects, PCs
<1>3. ASSUME NEW e, Then(w, "tell", e)
      PROVE  /\ Holds(tasks'[w], rows', chain') /\ Entry(w)
             /\ \A v \in Workers : v # w => tasks'[v] = tasks[v]
  <2> DEFINE u == [t EXCEPT !.pc = "tell", !.event = e]
  <2>1. u.pc = "tell" /\ u.row = t.row /\ u.via # "offrail" /\ Become(w, u)
    BY <1>0, <1>3 DEF Task, Then
  <2> HIDE DEF u
  <2> QED BY <1>0, <2>1, BecomeIs DEF Holds, Entry, Sending, Receiving, Effects
<1> QED BY <1>1, <1>2, <1>3 DEF FlipPaid

\* A step moves at most one worker, and as its row allows.
LEMMA Movers ==
  ASSUME RailInv, [Next]_vars
  PROVE  \/ UNCHANGED tasks
         \/ \E w \in Workers : /\ Holds(tasks'[w], rows', chain') /\ Entry(w)
                               /\ \A v \in Workers : v # w => tasks'[v] = tasks[v]
<1>0. TypeInv /\ TasksHold
  BY DEF RailInv
<1>1. ASSUME NEW w \in Workers, Calm(tasks'[w])
      PROVE  Holds(tasks'[w], rows', chain') /\ Entry(w)
  BY <1>1, CalmHolds DEF Calm, Entry
<1>2. ASSUME NEW w \in Workers, Step(w) \/ Start(w) \/ Crash(w)
      PROVE  /\ Holds(tasks'[w], rows', chain') /\ Entry(w)
             /\ \A v \in Workers : v # w => tasks'[v] = tasks[v]
  BY <1>0, <1>1, <1>2, CalmStep, StartHolds, ClaimHolds, BroadcastHolds, PollHolds, SettleHolds, FlipHolds
     DEF Step
<1>3. CASE Surroundings /\ ~ \E w \in Workers : Crash(w)
  BY <1>3 DEF Surroundings, ChainMoves, OpenIntent, Sweep
<1> QED BY <1>2, <1>3 DEF Next, vars, Surroundings

\* Every step keeps what the workers rely on, and that they do not share a row.
LEMMA TasksStep ==
  ASSUME RailInv, [Next]_vars
  PROVE  TasksHold' /\ Exclusive'
<1>0. TypeInv /\ TasksHold /\ Exclusive
  BY DEF RailInv
<1>1. ASSUME NEW v \in Workers, tasks'[v] = tasks[v] PROVE Holds(tasks'[v], rows', chain')
  BY <1>1, HoldsKept
<1>2. TasksHold'
  BY <1>1, Movers DEF TasksHold
<1>3. ASSUME NEW v \in Workers, tasks[v].pc \in Sending \cup Effects
      PROVE  tasks[v].row \in Ids /\ rows[tasks[v].row].state \in {"broadcasting", "forwarded", "settled_noop"}
  BY <1>0, <1>3 DEF TypeInv, TaskOK, Fits, RowPCs, Sending, Effects, TasksHold, Holds, Ids
<1>4. ASSUME NEW w \in Workers, Entry(w), NEW v \in Workers, v # w, tasks'[v] = tasks[v],
             tasks'[w].pc \in Sending \cup Effects, tasks'[v].pc \in Sending \cup Effects,
             tasks'[v].row = tasks'[w].row
      PROVE  FALSE
  <2>1. CASE tasks[w].pc \in Sending \cup Effects /\ tasks'[w].row = tasks[w].row
    BY <1>0, <1>4, <2>1 DEF Exclusive
  <2>2. CASE tasks'[w].row \notin Ids
    BY <1>3, <1>4, <2>2
  <2>3. CASE rows[tasks'[w].row].state = "submitted"
    BY <1>3, <1>4, <2>3
  <2> QED BY <1>4, <2>1, <2>2, <2>3 DEF Entry
<1>5. Exclusive'
  <2>1. CASE UNCHANGED tasks
    BY <1>0, <2>1 DEF Exclusive
  <2>2. ASSUME NEW w \in Workers, Entry(w), \A v \in Workers : v # w => tasks'[v] = tasks[v]
        PROVE  Exclusive'
    BY <1>0, <1>4, <2>2 DEF Exclusive
  <2> QED BY <2>1, <2>2, Movers
<1> QED BY <1>2, <1>5

-----------------------------------------------------------------------------
(* What a step does to the rows' relation with the chain *)

\* A row that an UPDATE has changed is the one it names, on its edge.
LEMMA TouchFacts ==
  ASSUME rows \in Seq(Row), NEW j, NEW e \in DOMAIN From, NEW h, TransitionForward(j, e, h),
         NEW i \in Ids, rows'[i] # rows[i]
  PROVE  j = i /\ rows[i].state = From[e] /\ rows'[i].state = To[e]
<1>1. rows[i] \in Row
  BY ElementOfSeq DEF Ids
<1>2. rows[j].state = From[e] /\ rows' = [rows EXCEPT ![j] = [@ EXCEPT !.state = To[e], !.hashed = h]]
  BY DEF TransitionForward
<1>3. j = i
  BY <1>2 DEF Ids
<1> QED BY <1>1, <1>2, <1>3 DEF Ids, Row

\* No step forwards a row whose transaction was not mined.
LEMMA RowsHoldStep ==
  ASSUME RailInv, [Next]_vars
  PROVE  RowsHold'
<1>0. /\ TypeInv /\ TasksHold /\ RowsHold /\ rows \in Seq(Row)
      /\ chain \in Seq(TxStates) /\ Len(chain) = Len(rows)
  BY DEF RailInv, TypeInv, TypeOK, RowsTypeOK
<1>1. ASSUME NEW i \in Ids, rows'[i].state = "forwarded" PROVE chain'[i] = "mined"
  <2>1. CASE rows[i].state = "forwarded"
    BY <1>0, <2>1, ChainKept DEF RowsHold
  <2>2. CASE rows[i].state = "submitted"
    <3>1. \E w \in Workers : UpdateForward(w) \/ SettleConfirmedForward(w) \/ MarkForwardFailed(w)
      <4>1. ASSUME NEW w \in Workers, ClaimForward(w) \/ Park(w) \/ RecordOffRail(w) PROVE rows'[i] = rows[i]
        <5>1. rows' = rows \/ \E r : rows' = Append(rows, r)
          BY <4>1 DEF ClaimForward, Park, RecordOffRail, InsertForward
        <5> QED BY <1>0, <5>1 DEF Ids
      <4> QED BY <1>1, <2>2, <4>1, RowsFrame
    <3>2. PICK w \in Workers : UpdateForward(w) \/ SettleConfirmedForward(w) \/ MarkForwardFailed(w)
      BY <3>1
    <3>3. tasks[w].row = i /\ At(w, "confirm")
      <4>1. PICK e \in DOMAIN From : \E h : TransitionForward(tasks[w].row, e, h)
                                            /\ (e = "receipt_confirmed" => At(w, "confirm"))
        BY <3>2 DEF UpdateForward, SettleConfirmedForward, MarkForwardFailed, From
      <4>2. tasks[w].row = i /\ rows[i].state = From[e] /\ rows'[i].state = To[e]
        BY <1>0, <1>1, <2>2, <4>1, TouchFacts
      <4> QED BY <1>1, <4>1, <4>2 DEF To, From
    <3>4. chain[i] = "mined"
      BY <1>0, <3>3 DEF TasksHold, Holds, At
    <3> QED BY <1>0, <3>4, ChainKept
  <2> QED BY <1>0, <1>1, <2>1, <2>2, RowsKept
<1>2. ASSUME NEW i \in Ids, rows'[i].via = "offrail" PROVE rows'[i].state = "resolved_offrail"
  BY <1>0, <1>2, RowsKept DEF RowsHold
<1>3. ASSUME NEW i \in DOMAIN rows', i \notin Ids
      PROVE  rows'[i].state # "forwarded" /\ (rows'[i].via = "offrail" => rows'[i].state = "resolved_offrail")
  <2>1. ASSUME NEW r, InsertForward(r) PROVE rows'[i] = r
    BY <1>0, <1>3, <2>1 DEF InsertForward, Ids
  <2>2. ASSUME NEW w \in Workers, ClaimForward(w) \/ Park(w) \/ RecordOffRail(w)
        PROVE  rows'[i].state # "forwarded" /\ (rows'[i].via = "offrail" => rows'[i].state = "resolved_offrail")
    <3>1. /\ At(w, "claim") => tasks[w].birth \in {"broadcasting", "settled_noop"}
          /\ At(w, "park") => tasks[w].birth \in Parked
          /\ tasks[w].via # "offrail"
      BY <1>0 DEF TypeInv, TaskOK, Fits, At, TasksHold, Holds
    <3>2. CASE ClaimForward(w)
      <4>1. \/ UNCHANGED rows
            \/ \E s : InsertForward([order |-> tasks[w].order, sid |-> s, via |-> tasks[w].via,
                                     state |-> tasks[w].birth, hashed |-> FALSE])
        BY <3>2 DEF ClaimForward
      <4> QED BY <1>3, <2>1, <3>1, <3>2, <4>1 DEF ClaimForward, Ids
    <3>3. CASE Park(w)
      BY <2>1, <3>1, <3>3 DEF Park, Parked
    <3>4. CASE RecordOffRail(w)
      BY <2>1, <3>4 DEF RecordOffRail
    <3> QED BY <2>2, <3>2, <3>3, <3>4
  <2>3. ASSUME NEW w \in Workers, UpdateForward(w) \/ SettleConfirmedForward(w) \/ MarkForwardFailed(w)
        PROVE  FALSE
    <3>1. PICK j, e, h : TransitionForward(j, e, h)
      BY <2>3 DEF UpdateForward, SettleConfirmedForward, MarkForwardFailed
    <3>2. DOMAIN rows' = Ids
      BY <3>1 DEF TransitionForward, Ids
    <3> QED BY <1>3, <3>2
  <2> QED BY <1>3, <2>2, <2>3, RowsFrame DEF Ids
<1> QED BY <1>1, <1>2, <1>3 DEF RowsHold, Ids

-----------------------------------------------------------------------------
(* What a step does to the intents *)

\* The three settlement writes, as a relation between an intent r of sid s,
\* the order o that settles it, and what the intent becomes.
Settles(r, s, o, q) ==
  \/ r.state = "pending" /\ Amount[o] >= Price[s] /\ q = [state |-> "paid", order |-> o, dated |-> TRUE]
  \/ r.state = "pending" /\ r.order = NoOrder /\ Amount[o] < Price[s] /\ q = [r EXCEPT !.order = o]
  \/ r.state = "expired" /\ r.order = NoOrder /\ q = [r EXCEPT !.order = o, !.dated = TRUE]

Ages(r, q) ==
  \/ q = r
  \/ r.state = "none" /\ q = [r EXCEPT !.state = "pending"]
  \/ r.state = "pending" /\ q = [r EXCEPT !.state = "expired"]

\* The event that goes with a settlement.
EventOf(r, q) == IF q.state = "paid" THEN "int" ELSE IF r.state = "pending" THEN "undp" ELSE "late"

\* What the settlement of a row does to the intents: one of three writes, or none.
LEMMA FlipMoves ==
  ASSUME TypeInv, NEW w \in Workers, FlipPaid(w)
  PROVE  LET s == rows[tasks[w].row].sid
             o == tasks[w].order
         IN  /\ s \in Sids /\ o \in Orders
             /\ tasks[w].row \in Ids /\ rows[tasks[w].row].order = o
             /\ \A t \in Sids : t # s => intents'[t] = intents[t]
             /\ \/ UNCHANGED intents /\ tasks'[w].pc # "tell"
                \/ /\ Settles(intents[s], s, o, intents'[s])
                   /\ tasks'[w].row = tasks[w].row /\ tasks'[w].pc = "tell"
                   /\ tasks'[w].event = EventOf(intents[s], intents'[s])
<1> DEFINE t == tasks[w]
           s == rows[t.row].sid
           o == t.order
<1>0. /\ t \in Task /\ s \in Sids /\ o \in Orders /\ t.row \in Ids /\ rows[t.row].order = o
      /\ intents \in [Sids -> Intent]
  BY DEF TypeInv, TypeOK, IntentsTypeOK, TaskOK, Fits, RowPCs, FlipPaid, At, Ids
<1>1. ASSUME NEW pc \in {"short", "late"}, Goto(w, pc) PROVE tasks'[w].pc # "tell"
  BY <1>1, GotoIs DEF PCs
<1>2. ASSUME Rest(w) PROVE tasks'[w].pc # "tell"
  BY <1>2, RestIs
<1>3. ASSUME NEW e, Then(w, "tell", e)
      PROVE  tasks'[w].row = t.row /\ tasks'[w].pc = "tell" /\ tasks'[w].event = e
  <2> DEFINE u == [t EXCEPT !.pc = "tell", !.event = e]
  <2>1. u.row = t.row /\ u.pc = "tell" /\ u.event = e /\ Become(w, u)
    BY <1>0, <1>3 DEF Task, Then
  <2> HIDE DEF u
  <2> QED BY <2>1, BecomeIs
<1>4. CASE UNCHANGED intents /\ tasks'[w].pc # "tell"
  BY <1>0, <1>4
<1>5. CASE FullApplies(s, o) /\ MarkIntentPaid(s, o) /\ Then(w, "tell", "int")
  BY <1>0, <1>3, <1>5 DEF FullApplies, MarkIntentPaid, Settles, EventOf
<1>6. CASE ShortApplies(s, o) /\ MarkIntentUnderpaid(s, o) /\ Then(w, "tell", "undp")
  BY <1>0, <1>3, <1>6 DEF ShortApplies, MarkIntentUnderpaid, Settles, EventOf, Intent
<1>7. CASE LateApplies(s) /\ MarkIntentLate(s, o) /\ Then(w, "tell", "late")
  BY <1>0, <1>3, <1>7 DEF LateApplies, MarkIntentLate, Settles, EventOf, Intent
<1> QED BY <1>1, <1>2, <1>4, <1>5, <1>6, <1>7 DEF FlipPaid

\* Intents move by settlement, or they age.
LEMMA IntentMoves ==
  ASSUME TypeInv, [Next]_vars
  PROVE  \/ \A s \in Sids : Ages(intents[s], intents'[s])
         \/ \E w \in Workers : FlipPaid(w)
<1>0. intents \in [Sids -> Intent]
  BY DEF TypeInv, TypeOK, IntentsTypeOK
<1>1. ASSUME NEW w \in Workers, Step(w) PROVE UNCHANGED intents \/ FlipPaid(w)
  BY <1>1 DEF Step, MatchShortRef, FindStray, AuthorizeForward, ClaimForward, LostLatch, Park,
              EmitBlocked, ForwardViaSafe, UpdateForward, PollForwardConfirmation,
              SettleConfirmedForward, MarkForwardFailed, Tell, RecordOffRail
<1>2. ASSUME NEW w \in Workers, Start(w) PROVE UNCHANGED intents
  BY <1>2 DEF Start, MaybeForward, CheckOffRail, Reroute, ReadReceipt, Retry
<1>3. ASSUME NEW s \in Sids, OpenIntent(s) PROVE \A t \in Sids : Ages(intents[t], intents'[t])
  BY <1>0, <1>3 DEF OpenIntent, CreateIntent, Ages
<1>4. ASSUME NEW overdue \in SUBSET Sids, Sweep(overdue) PROVE \A t \in Sids : Ages(intents[t], intents'[t])
  BY <1>0, <1>4 DEF Sweep, SweepExpiredIntents, Ages
<1>5. Surroundings => UNCHANGED intents \/ (\E s \in Sids : OpenIntent(s))
                                        \/ (\E overdue \in SUBSET Sids : Sweep(overdue))
  BY DEF Surroundings, ChainMoves, Crash
<1>6. UNCHANGED intents => \A s \in Sids : Ages(intents[s], intents'[s])
  BY DEF Ages
<1> QED BY <1>1, <1>2, <1>3, <1>4, <1>5, <1>6 DEF Next, vars

\* An intent keeps what its columns say of each other; what was said of it
\* stays true; once it is dated it stays as it is.
LEMMA IntentKept ==
  ASSUME NEW s \in Sids, NEW r \in Intent, IntentHolds(r, s), NEW q,
         Ages(r, q) \/ \E o \in Orders : Settles(r, s, o, q)
  PROVE  /\ IntentHolds(q, s)
         /\ \A e \in {"int", "late", "undp"} : Truth(e, r) => Truth(e, q)
         /\ r.dated => q = r
<1>0. Amount \in [Orders -> Nat] /\ Price \in [Sids -> Nat \ {0}] /\ NoOrder \notin Orders
  BY AmountAssumption, PriceAssumption, NullAssumption
<1>1. CASE q = r
  BY <1>1
<1>2. CASE Ages(r, q) /\ q # r
  BY <1>2 DEF Ages, Intent, IntentHolds, Truth
<1>3. ASSUME NEW o \in Orders, Settles(r, s, o, q)
      PROVE  /\ IntentHolds(q, s)
             /\ \A e \in {"int", "late", "undp"} : Truth(e, r) => Truth(e, q)
             /\ r.dated => q = r
  <2>1. CASE q = [state |-> "paid", order |-> o, dated |-> TRUE] /\ r.state = "pending" /\ Amount[o] >= Price[s]
    BY <1>0, <2>1 DEF Intent, IntentHolds, Truth
  <2>2. CASE q = [r EXCEPT !.order = o] /\ r.state = "pending" /\ Amount[o] < Price[s]
    BY <1>0, <2>2 DEF Intent, IntentHolds, Truth
  <2>3. CASE q = [r EXCEPT !.order = o, !.dated = TRUE] /\ r.state = "expired" /\ r.order = NoOrder
    BY <1>0, <2>3 DEF Intent, IntentHolds, Truth
  <2> QED BY <1>3, <2>1, <2>2, <2>3 DEF Settles
<1> QED BY <1>1, <1>2, <1>3

\* The event a settlement is told by is true of the intent it leaves, which
\* names the order that settled it.
LEMMA EventTrue ==
  ASSUME NEW s \in Sids, NEW o \in Orders, NEW r \in Intent, NEW q, Settles(r, s, o, q)
  PROVE  /\ EventOf(r, q) \in {"int", "late", "undp"} /\ Truth(EventOf(r, q), q)
         /\ q.order = o
<1>0. NoOrder \notin Orders
  BY NullAssumption
<1>1. CASE r.state = "pending" /\ q = [state |-> "paid", order |-> o, dated |-> TRUE]
  BY <1>1 DEF EventOf, Truth
<1>2. CASE r.state = "pending" /\ q = [r EXCEPT !.order = o]
  <2>1. q.state = "pending" /\ q.order = o
    BY <1>2 DEF Intent
  <2> QED BY <1>0, <1>2, <2>1 DEF EventOf, Truth
<1>3. CASE r.state = "expired" /\ q = [r EXCEPT !.order = o, !.dated = TRUE]
  <2>1. q.state = "expired" /\ q.order = o /\ q.dated
    BY <1>3 DEF Intent
  <2> QED BY <1>0, <1>3, <2>1 DEF EventOf, Truth
<1> QED BY <1>1, <1>2, <1>3 DEF Settles

\* What one step does to one intent.
LEMMA IntentStep ==
  ASSUME TypeInv, IntentsHold, [Next]_vars, NEW s \in Sids
  PROVE  /\ IntentHolds(intents'[s], s)
         /\ \A e \in {"int", "late", "undp"} : Truth(e, intents[s]) => Truth(e, intents'[s])
         /\ intents[s].dated => intents'[s] = intents[s]
<1>1. intents[s] \in Intent /\ IntentHolds(intents[s], s)
  BY DEF TypeInv, TypeOK, IntentsTypeOK, IntentsHold
<1>2. \/ Ages(intents[s], intents'[s])
      \/ \E o \in Orders : Settles(intents[s], s, o, intents'[s])
  <2>1. ASSUME NEW w \in Workers, FlipPaid(w)
        PROVE  \/ intents'[s] = intents[s]
               \/ \E o \in Orders : Settles(intents[s], s, o, intents'[s])
    BY <2>1, FlipMoves
  <2> QED BY <2>1, IntentMoves DEF Ages
<1> QED BY <1>1, <1>2, IntentKept

\* No step settles an intent without money behind it, or takes the money away.
LEMMA BackedStep ==
  ASSUME RailInv, [Next]_vars
  PROVE  SettledIsBacked'
<1>0. TypeInv /\ TasksHold /\ RowsHold /\ RowsHold' /\ IntentsHold /\ SettledIsBacked
  BY RowsHoldStep DEF RailInv
<1>1. ASSUME NEW s \in Sids, NEW i \in Ids, Backs(i, s), intents'[s].order = intents[s].order
      PROVE  i \in DOMAIN rows' /\ Backs(i, s)'
  <2>1. rows'[i] = rows[i] /\ i \in DOMAIN rows'
    BY <1>0, <1>1, RowsKept DEF Backs, Terminal, States, Live, Pending, Confirmed
  <2>2. chain[i] = "mined" => chain'[i] = "mined"
    BY <1>0, ChainKept
  <2> QED BY <1>1, <2>1, <2>2 DEF Backs
<1>2. ASSUME NEW s \in Sids, intents'[s].order # NoOrder PROVE \E i \in DOMAIN rows' : Backs(i, s)'
  <2>1. CASE intents'[s].order = intents[s].order
    BY <1>0, <1>1, <1>2, <2>1 DEF SettledIsBacked
  <2>2. CASE intents'[s].order # intents[s].order
    <3>1. PICK w \in Workers : FlipPaid(w)
      <4>1. intents[s] \in Intent
        BY <1>0 DEF TypeInv, TypeOK, IntentsTypeOK
      <4> QED BY <1>0, <2>2, <4>1, IntentMoves DEF Ages, Intent
    <3> DEFINE i == tasks[w].row
               o == tasks[w].order
    <3>2. /\ s = rows[i].sid /\ i \in Ids /\ rows[i].order = o
          /\ Settles(intents[s], s, o, intents'[s])
      BY <1>0, <2>2, <3>1, FlipMoves
    <3>3. intents'[s].order = o
      <4>1. intents[s] \in Intent
        BY <1>0 DEF TypeInv, TypeOK, IntentsTypeOK
      <4>2. o \in Orders
        BY <1>0, <3>1, FlipMoves
      <4> QED BY <3>2, <4>1, <4>2, EventTrue
    <3>4. rows[i].state \in {"forwarded", "settled_noop"}
      BY <1>0, <3>1 DEF TasksHold, Holds, FlipPaid, At, Effects
    <3>5. UNCHANGED <<rows, chain>>
      BY <3>1 DEF FlipPaid
    <3> QED BY <1>0, <3>2, <3>3, <3>4, <3>5 DEF Backs, RowsHold, Ids
  <2> QED BY <2>1, <2>2
<1>3. ASSUME NEW s \in Sids, intents'[s].state = "paid" PROVE Amount[intents'[s].order] >= Price[s]
  BY <1>0, <1>3, IntentStep DEF IntentHolds
<1> QED BY <1>2, <1>3 DEF SettledIsBacked, Ids

\* No step makes an event untrue, or tells an untrue one.
LEMMA ToldStep ==
  ASSUME RailInv, [Next]_vars
  PROVE  Told'
<1>0. TypeInv /\ TasksHold /\ IntentsHold /\ Told /\ TypeInv'
  BY TypeStep DEF RailInv
<1>1. ASSUME NEW w \in Workers, tasks'[w].pc = "tell", tasks'[w].event # "cmp", tasks'[w] = tasks[w]
      PROVE  Truth(tasks'[w].event, intents'[rows'[tasks'[w].row].sid])
  <2> DEFINE i == tasks[w].row
             s == rows[i].sid
             e == tasks[w].event
  <2>1. i \in Ids /\ s \in Sids /\ e \in {"int", "late", "undp"}
    BY <1>0, <1>1 DEF TypeInv, TypeOK, Task, TaskOK, Fits, RowPCs, Ids
  <2>2. Truth(e, intents[s])
    BY <1>0, <1>1 DEF Told, At
  <2>3. rows'[i].sid = s
    BY <1>0, <2>1, RowsKept
  <2> QED BY <1>0, <1>1, <2>1, <2>2, <2>3, IntentStep
<1>2. ASSUME NEW w \in Workers, tasks'[w].pc = "tell", tasks'[w].event # "cmp", tasks'[w] # tasks[w]
      PROVE  Truth(tasks'[w].event, intents'[rows'[tasks'[w].row].sid])
  <2>1. FlipPaid(w)
    <3>1. ASSUME NEW u \in Workers, Step(u) \/ Start(u) \/ Crash(u), ~ FlipPaid(u) PROVE u # w
      BY <1>0, <1>2, <3>1, CalmStep, StartHolds, ClaimHolds, BroadcastHolds, PollHolds, SettleHolds
         DEF Step, Calm, Effects
    <3>2. ASSUME NEW u \in Workers, Step(u) \/ Start(u) \/ Crash(u) PROVE u = w
      BY <1>0, <1>2, <3>2, CalmStep, StartHolds, ClaimHolds, BroadcastHolds, PollHolds, SettleHolds, FlipHolds
         DEF Step
    <3>3. CASE Surroundings /\ ~ \E u \in Workers : Crash(u)
      BY <1>2, <3>3 DEF Surroundings, ChainMoves, OpenIntent, Sweep
    <3> QED BY <1>2, <3>1, <3>2, <3>3 DEF Next, vars, Surroundings
  <2> DEFINE s == rows[tasks[w].row].sid
             o == tasks[w].order
  <2>2. /\ s \in Sids /\ o \in Orders /\ tasks'[w].row = tasks[w].row /\ rows' = rows
        /\ Settles(intents[s], s, o, intents'[s])
        /\ tasks'[w].event = EventOf(intents[s], intents'[s])
    BY <1>0, <1>2, <2>1, FlipMoves DEF FlipPaid
  <2>3. intents[s] \in Intent
    BY <1>0, <2>2 DEF TypeInv, TypeOK, IntentsTypeOK
  <2> QED BY <2>2, <2>3, EventTrue
<1>3. ASSUME NEW e \in {"int", "late", "undp"}, NEW s \in Sids, <<e, s>> \in outbox'
      PROVE  Truth(e, intents'[s])
  <2>1. CASE <<e, s>> \in outbox
    BY <1>0, <2>1, IntentStep DEF Told
  <2>2. ASSUME NEW w \in Workers, Tell(w), <<e, s>> \notin outbox PROVE Truth(e, intents'[s])
    <3>1. At(w, "tell") /\ tasks[w].event = e /\ rows[tasks[w].row].sid = s /\ intents' = intents
      BY <1>3, <2>2 DEF Tell
    <3> QED BY <1>0, <3>1 DEF Told
  <2>3. <<e, s>> \notin outbox => \E w \in Workers : Tell(w)
    <3>1. ASSUME NEW w \in Workers, Step(w), ~ Tell(w) PROVE <<e, s>> \in outbox
      <4>1. CASE EmitBlocked(w)
        BY <1>3, <4>1 DEF EmitBlocked
      <4>2. CASE ~ EmitBlocked(w)
        <5>1. outbox' = outbox
          BY <3>1, <4>2 DEF Step, MatchShortRef, FindStray, AuthorizeForward, ClaimForward, LostLatch, Park,
                            ForwardViaSafe, UpdateForward, PollForwardConfirmation,
                            SettleConfirmedForward, MarkForwardFailed, FlipPaid, RecordOffRail
        <5> QED BY <1>3, <5>1
      <4> QED BY <4>1, <4>2
    <3>2. ASSUME NEW w \in Workers, Start(w) PROVE outbox' = outbox
      BY <3>2 DEF Start, MaybeForward, CheckOffRail, Reroute, ReadReceipt, Retry
    <3>3. Surroundings => outbox' = outbox
      BY DEF Surroundings, ChainMoves, OpenIntent, Sweep, Crash
    <3> QED BY <1>3, <3>1, <3>2, <3>3 DEF Next, vars
  <2> QED BY <2>1, <2>2, <2>3
<1> QED BY <1>1, <1>2, <1>3 DEF Told, At

-----------------------------------------------------------------------------
(* The theorems *)

\* The empty tables satisfy the invariant.
LEMMA RailInit == Init => RailInv
<1> SUFFICES ASSUME Init PROVE RailInv
  OBVIOUS
<1>1. TypeInv /\ OneLiveForward
  BY TypeInit, LatchInit
<1>2. /\ rows = << >> /\ outbox = {} /\ \A w \in Workers : tasks[w] = Idle
      /\ \A s \in Sids : intents[s] = [state |-> "none", order |-> NoOrder, dated |-> FALSE]
  BY DEF Init, IntentsInit
<1>3. TasksHold /\ Exclusive
  BY <1>2, CalmStarts, CalmHolds DEF TasksHold, Exclusive, Idle, Sending, Effects
<1>4. RowsHold
  BY <1>2 DEF RowsHold, Ids
<1>5. IntentsHold /\ SettledIsBacked
  BY <1>2 DEF IntentsHold, IntentHolds, SettledIsBacked
<1>6. Told
  BY <1>2 DEF Told, At, Idle
<1> QED BY <1>1, <1>3, <1>4, <1>5, <1>6 DEF RailInv

\* Every step keeps the invariant.
LEMMA RailStep == RailInv /\ [Next]_vars => RailInv'
<1> SUFFICES ASSUME RailInv, [Next]_vars PROVE RailInv'
  OBVIOUS
<1>1. TypeInv' /\ OneLiveForward'
  BY TypeStep, LatchStep DEF RailInv
<1>2. IntentsHold'
  BY IntentStep DEF RailInv, IntentsHold
<1> QED BY <1>1, <1>2, TasksStep, RowsHoldStep, BackedStep, ToldStep DEF RailInv

\* RailInv is inductive.
THEOREM RailInvariant == Spec => []RailInv
BY RailInit, RailStep, PTL DEF Spec

\* Two paths that observe the same receipt never both run its effects.
THEOREM OneSettler == Spec => []SingleSettler
<1>1. RailInv => SingleSettler
  BY DEF RailInv, Exclusive, SingleSettler, Settling, Effects
<1> QED BY <1>1, RailInvariant, PTL

\* Every settled intent is backed by a forward of its own whose money has
\* arrived, and a paid one by its full price.
THEOREM MoneyBacksSettlement == Spec => []SettledIsBacked
<1>1. RailInv => SettledIsBacked
  BY DEF RailInv
<1> QED BY <1>1, RailInvariant, PTL

\* One order settles at most one intent: its backing rows are live, and an
\* order has one live row.
THEOREM OrderSettlesOnce == Spec => []OneIntentPerOrder
<1>1. RailInv => OneIntentPerOrder
  <2> SUFFICES ASSUME RailInv, NEW s \in Sids, NEW t \in Sids,
                      intents[s].order = intents[t].order, intents[s].order # NoOrder
               PROVE  s = t
    BY DEF OneIntentPerOrder
  <2>1. PICK i \in Ids : Backs(i, s)
    BY DEF RailInv, SettledIsBacked
  <2>2. PICK j \in Ids : Backs(j, t)
    BY DEF RailInv, SettledIsBacked
  <2>3. i = j
    BY <2>1, <2>2 DEF Backs, RailInv, OneLiveForward, Live, Confirmed
  <2> QED BY <2>1, <2>2, <2>3 DEF Backs
<1> QED BY <1>1, RailInvariant, PTL

\* The merchant's events stay true of the intent they name.
THEOREM MerchantHeardTheTruth == Spec => []MerchantStory
<1>1. RailInv => MerchantStory
  <2> SUFFICES ASSUME RailInv, NEW s \in Sids
               PROVE  /\ <<"int", s>> \in outbox => LogicalIntentState(s) = "paid"
                      /\ <<"late", s>> \in outbox => LogicalIntentState(s) = "late"
                      /\ <<"undp", s>> \in outbox => intents[s].order # NoOrder
    BY DEF MerchantStory
  <2>1. \A e \in {"int", "late", "undp"} : <<e, s>> \in outbox => Truth(e, intents[s])
    BY DEF RailInv, Told
  <2> QED BY <2>1 DEF Truth, LogicalIntentState
<1> QED BY <1>1, RailInvariant, PTL

\* Once an intent carries a paid_at no step changes it.
THEOREM SettlementStays == Spec => SettlementIsFinal
<1>1. RailInv /\ [Next]_vars => [\A s \in Sids : intents[s].dated => intents'[s] = intents[s]]_vars
  BY IntentStep DEF RailInv
<1> QED BY <1>1, RailInvariant, PTL DEF Spec, SettlementIsFinal

\* Rows are history: none is removed, none changes hands, none that has
\* reached a terminal state moves.
THEOREM HistoryStays == Spec => TerminalRowsStay
<1>1. TypeInv /\ [Next]_vars =>
        [\A i \in Ids : /\ i \in DOMAIN rows'
                        /\ rows'[i].order = rows[i].order /\ rows'[i].sid = rows[i].sid
                        /\ rows[i].state \in Terminal => rows'[i] = rows[i]]_vars
  BY RowsKept
<1> QED BY <1>1, TypeInvariant, PTL DEF Spec, TerminalRowsStay

-----------------------------------------------------------------------------
(* The money of an order moves once *)

\* With an RPC node that answers truly, a row whose transfer is or may be on
\* the chain stays live: so the latch of its order keeps every other attempt
\* from the Safe.
MovedIsLive == \A i \in Ids : Moved(i) => rows[i].state \in Live

\* No step fails a row whose transfer is on its way.
LEMMA MovedStep ==
  ASSUME Faults = {}, RailInv, MovedIsLive, [Next]_vars
  PROVE  MovedIsLive'
<1>0. /\ TypeInv /\ TasksHold /\ rows \in Seq(Row)
      /\ chain \in Seq(TxStates) /\ Len(chain) = Len(rows)
  BY DEF RailInv, TypeInv, TypeOK, RowsTypeOK
<1>1. ASSUME NEW i \in Ids, Moved(i)' PROVE rows[i].state \in Live
  <2>1. rows'[i].via = rows[i].via
    BY RowsKept, <1>0
  <2>2. CASE Moved(i)
    BY <2>2 DEF MovedIsLive
  <2>3. CASE chain[i] \in {"reverted", "gone"}
    BY <1>0, <1>1, <2>3, ChainKept DEF Moved
  <2>4. ASSUME NEW w \in Workers, ForwardViaSafe(w), tasks[w].row = i PROVE rows[i].state \in Live
    BY <1>0, <2>4 DEF TasksHold, Holds, Sending, ForwardViaSafe, At, Live, Pending
  <2>5. chain[i] \in TxStates
    BY <1>0, ElementOfSeq DEF Ids
  <2> QED BY <1>0, <1>1, <2>1, <2>2, <2>3, <2>4, <2>5, ChainKept DEF Moved, TxStates
<1>2. ASSUME NEW i \in Ids, Moved(i)' PROVE rows'[i].state \in Live
  <2>1. CASE rows'[i] = rows[i]
    BY <1>1, <1>2, <2>1
  <2>2. ASSUME rows'[i] # rows[i],
               NEW w \in Workers, UpdateForward(w) \/ SettleConfirmedForward(w) \/ MarkForwardFailed(w)
        PROVE  rows'[i].state \in Live
    <3>1. UNCHANGED chain
      BY <2>2 DEF UpdateForward, SettleConfirmedForward, MarkForwardFailed
    <3>2. /\ At(w, "unsent") => chain[tasks[w].row] = "none"
          /\ At(w, "fail") => chain[tasks[w].row] \in {"reverted", "gone"}
      BY <1>0 DEF At, TasksHold, Holds
    <3>3. PICK e \in {"broadcast_ok", "broadcast_failed", "receipt_confirmed", "receipt_failed"} :
            /\ \E h : TransitionForward(tasks[w].row, e, h)
            /\ e = "broadcast_failed" => At(w, "unsent")
            /\ e = "receipt_failed" => At(w, "fail")
      BY <2>2 DEF UpdateForward, SettleConfirmedForward, MarkForwardFailed
    <3>4. tasks[w].row = i /\ rows'[i].state = To[e]
      BY <1>0, <2>2, <3>3, TouchFacts DEF From
    <3>5. e \in {"broadcast_ok", "receipt_confirmed"}
      BY <1>2, <3>1, <3>2, <3>3, <3>4 DEF Moved
    <3> QED BY <3>4, <3>5 DEF To, Live, Confirmed
  <2>3. ASSUME NEW w \in Workers, ClaimForward(w) \/ Park(w) \/ RecordOffRail(w)
        PROVE  rows'[i] = rows[i]
    <3>1. rows' = rows \/ \E r : rows' = Append(rows, r)
      BY <2>3 DEF ClaimForward, Park, RecordOffRail, InsertForward
    <3> QED BY <1>0, <3>1 DEF Ids
  <2> QED BY <2>1, <2>2, <2>3, RowsFrame
<1>3. ASSUME NEW i \in DOMAIN rows', i \notin Ids PROVE ~ Moved(i)'
  <2>1. ASSUME NEW w \in Workers, ClaimForward(w) \/ Park(w) \/ RecordOffRail(w)
        PROVE  ~ Moved(i)'
    <3> DEFINE Sent(r) == InsertForward(r) /\ (chain' = Append(chain, "none") \/ r.via = "offrail")
    <3>1. UNCHANGED rows \/ \E r : Sent(r)
      <4>1. ASSUME NEW r, InsertForward(r), chain' = Append(chain, "none") PROVE \E s : Sent(s)
        BY <4>1
      <4>2. ASSUME NEW r, InsertForward(r), r.via = "offrail" PROVE \E s : Sent(s)
        BY <4>2
      <4> HIDE DEF Sent
      <4>3. CASE ClaimForward(w)
        BY <4>1, <4>3 DEF ClaimForward
      <4>4. CASE Park(w)
        BY <4>1, <4>4 DEF Park
      <4>5. CASE RecordOffRail(w)
        <5> DEFINE r == [order |-> tasks[w].order, sid |-> MemoSid(tasks[w].order), via |-> "offrail",
                         state |-> "resolved_offrail", hashed |-> TRUE]
        <5>1. InsertForward(r) /\ r.via = "offrail"
          BY <4>5 DEF RecordOffRail
        <5> HIDE DEF r
        <5> QED BY <4>2, <5>1
      <4> QED BY <2>1, <4>3, <4>4, <4>5
    <3> QED BY <1>0, <1>3, <3>1 DEF InsertForward, Ids, Moved
  <2>2. ASSUME NEW w \in Workers, UpdateForward(w) \/ SettleConfirmedForward(w) \/ MarkForwardFailed(w)
        PROVE  FALSE
    <3>1. PICK j, e, h : TransitionForward(j, e, h)
      BY <2>2 DEF UpdateForward, SettleConfirmedForward, MarkForwardFailed
    <3>2. DOMAIN rows' = Ids
      BY <3>1 DEF TransitionForward, Ids
    <3> QED BY <1>3, <3>2
  <2> QED BY <1>3, <2>1, <2>2, RowsFrame DEF Ids
<1> QED BY <1>2, <1>3 DEF MovedIsLive, Ids

\* With an RPC node that answers truly, the money of an order leaves the Safe
\* at most once, whatever attempts are made for it, by whom, and evicted when.
THEOREM MoneyMovesOnce == Faults = {} => (Spec => []AtMostOneTransfer)
<1>1. Init => MovedIsLive
  BY DEF Init, MovedIsLive, Ids
<1>2. Faults = {} /\ RailInv /\ MovedIsLive /\ [Next]_vars => MovedIsLive'
  BY MovedStep
<1>3. RailInv /\ MovedIsLive => AtMostOneTransfer
  BY DEF RailInv, OneLiveForward, MovedIsLive, AtMostOneTransfer
<1> SUFFICES ASSUME Faults = {} PROVE Spec => []AtMostOneTransfer
  OBVIOUS
<1>4. RailInv /\ MovedIsLive /\ [Next]_vars => MovedIsLive'
  BY <1>2
<1> QED BY <1>1, <1>3, <1>4, RailInvariant, PTL DEF Spec

-----------------------------------------------------------------------------
(* The rail implements Payments *)

\* Place(o), by what there is among the rows of the order.
There(o)  == \E i \in Ids : /\ rows[i].order = o /\ rows[i].via # "offrail"
                            /\ chain[i] = "mined" \/ rows[i].state = "settled_noop"
Moving(o) == \E i \in Ids : /\ rows[i].order = o /\ rows[i].via # "offrail"
                            /\ chain[i] = "pool"

\* The place of an order's money, in this state ...
LEMMA PlaceIs ==
  ASSUME NEW o
  PROVE  Place(o) = IF There(o) THEN "there" ELSE IF Moving(o) THEN "moving" ELSE "safe"
BY DEF Place, There, Moving

\* ... and in the next.
LEMMA PlaceIsNext ==
  ASSUME NEW o
  PROVE  Place(o)' = IF There(o)' THEN "there" ELSE IF Moving(o)' THEN "moving" ELSE "safe"
BY DEF Place, There, Moving

\* The steps of Payments that move the money of one order.
Moves(p, q) == \/ q = p
               \/ p = "safe" /\ q = "moving"
               \/ p = "moving" /\ q = "safe"
               \/ p \in {"safe", "moving"} /\ q = "there"

\* A step of the rail moves the money of at most one order.
PlaceMoves == \/ \A p \in Orders : Place(p)' = Place(p)
              \/ \E o \in Orders : /\ Moves(Place(o), Place(o)')
                                   /\ \A p \in Orders : p # o => Place(p)' = Place(p)

\* An INSERT moves the money of its order at most, along the abstract path.
LEMMA InsertMoves ==
  ASSUME RailInv, NEW w \in Workers, ClaimForward(w) \/ Park(w) \/ RecordOffRail(w)
  PROVE  PlaceMoves
<1>0. /\ rows \in Seq(Row) /\ chain \in Seq(TxStates) /\ Len(chain) = Len(rows)
      /\ tasks[w].order \in Orders
  BY DEF RailInv, TypeInv, TypeOK, RowsTypeOK, TaskOK, Fits, ClaimForward, Park, RecordOffRail, At
<1> DEFINE n == Len(rows) + 1
<1>1. CASE UNCHANGED <<rows, chain>>
  BY <1>1 DEF PlaceMoves, Place, Ids
<1>2. ASSUME NEW r, r.order = tasks[w].order, InsertForward(r),
             NEW c \in {"none", "mined"}, chain' = Append(chain, c)
      PROVE  PlaceMoves
  <2>1. /\ DOMAIN rows' = Ids \cup {n} /\ n \notin Ids
        /\ rows'[n] = r /\ chain'[n] = c
        /\ \A i \in Ids : rows'[i] = rows[i] /\ chain'[i] = chain[i]
    BY <1>0, <1>2 DEF InsertForward, Ids
  <2>2. ASSUME NEW p \in Orders PROVE Moving(p)' <=> Moving(p)
    BY <1>2, <2>1 DEF Moving, Ids
  <2>3. ASSUME NEW p \in Orders PROVE /\ There(p) => There(p)'
                                      /\ p # r.order => (There(p)' <=> There(p))
    BY <2>1 DEF There, Ids
  <2>4. \A p \in Orders : p # r.order => Place(p)' = Place(p)
    BY <2>2, <2>3, PlaceIs, PlaceIsNext
  <2>5. Moves(Place(r.order), Place(r.order)')
    BY <1>0, <1>2, <2>2, <2>3, PlaceIs, PlaceIsNext DEF Moves
  <2> QED BY <1>0, <1>2, <2>4, <2>5 DEF PlaceMoves
<1>3. CASE ClaimForward(w)
  <2>1. PICK s : \/ UNCHANGED <<rows, chain>>
                 \/ /\ InsertForward([order |-> tasks[w].order, sid |-> s, via |-> tasks[w].via,
                                      state |-> tasks[w].birth, hashed |-> FALSE])
                    /\ chain' = Append(chain, "none")
    BY <1>3 DEF ClaimForward
  <2> DEFINE r == [order |-> tasks[w].order, sid |-> s, via |-> tasks[w].via,
                   state |-> tasks[w].birth, hashed |-> FALSE]
  <2>2. r.order = tasks[w].order
    OBVIOUS
  <2>3. UNCHANGED <<rows, chain>> \/ (InsertForward(r) /\ chain' = Append(chain, "none"))
    BY <2>1
  <2> HIDE DEF r
  <2> QED BY <1>1, <1>2, <2>2, <2>3
<1>4. CASE Park(w)
  <2> DEFINE r == [order |-> tasks[w].order, sid |-> MemoSid(tasks[w].order), via |-> "memo",
                   state |-> tasks[w].birth, hashed |-> FALSE]
  <2>1. r.order = tasks[w].order /\ InsertForward(r) /\ chain' = Append(chain, "none")
    BY <1>4 DEF Park
  <2> HIDE DEF r
  <2> QED BY <1>2, <2>1
<1>5. CASE RecordOffRail(w)
  <2> DEFINE r == [order |-> tasks[w].order, sid |-> MemoSid(tasks[w].order), via |-> "offrail",
                   state |-> "resolved_offrail", hashed |-> TRUE]
  <2>1. r.order = tasks[w].order /\ InsertForward(r) /\ chain' = Append(chain, "mined")
    BY <1>5 DEF RecordOffRail
  <2> HIDE DEF r
  <2> QED BY <1>2, <2>1
<1> QED BY <1>3, <1>4, <1>5

\* So does an UPDATE.
LEMMA UpdateMoves ==
  ASSUME RailInv, [Next]_vars, NEW w \in Workers,
         UpdateForward(w) \/ SettleConfirmedForward(w) \/ MarkForwardFailed(w)
  PROVE  PlaceMoves
<1>1. DOMAIN rows' = Ids /\ UNCHANGED chain
  BY DEF UpdateForward, SettleConfirmedForward, MarkForwardFailed, TransitionForward, Ids
<1>2. \A i \in Ids : /\ rows'[i].order = rows[i].order /\ rows'[i].via = rows[i].via
                     /\ rows'[i].state = "settled_noop" <=> rows[i].state = "settled_noop"
  BY RowsKept DEF RailInv
<1>3. \A p \in Orders : (There(p)' <=> There(p)) /\ (Moving(p)' <=> Moving(p))
  BY <1>1, <1>2 DEF There, Moving, Ids
<1> QED BY <1>3, PlaceIs, PlaceIsNext DEF PlaceMoves

\* The order whose transaction the chain, or its broadcast, moves.
LEMMA ChainStepMoves ==
  ASSUME RailInv, NEW i \in Ids, NEW c, UNCHANGED rows, chain' = [chain EXCEPT ![i] = c],
         \/ chain[i] = "none" /\ c = "pool"
         \/ chain[i] = "pool"
  PROVE  PlaceMoves
<1>0. /\ rows \in Seq(Row) /\ chain \in Seq(TxStates) /\ Len(chain) = Len(rows)
  BY DEF RailInv, TypeInv, TypeOK, RowsTypeOK
<1> DEFINE o == rows[i].order
<1>1. o \in Orders
  <2>1. rows[i] \in Row
    BY <1>0, ElementOfSeq DEF Ids
  <2> QED BY <2>1 DEF Row
<1>2. chain'[i] = c /\ \A j \in Ids : j # i => chain'[j] = chain[j]
  BY <1>0 DEF Ids
<1>3. ASSUME NEW p \in Orders, p # o PROVE Place(p)' = Place(p)
  <2>1. (There(p)' <=> There(p)) /\ (Moving(p)' <=> Moving(p))
    BY <1>2, <1>3 DEF There, Moving, Ids
  <2> QED BY <2>1, PlaceIs, PlaceIsNext
<1>4. There(o) => There(o)'
  BY <1>2 DEF There, Ids
<1>5. CASE rows[i].via = "offrail"
  <2>1. (There(o)' <=> There(o)) /\ (Moving(o)' <=> Moving(o))
    BY <1>2, <1>5 DEF There, Moving, Ids
  <2> QED BY <1>3, <2>1, PlaceIs, PlaceIsNext DEF PlaceMoves
<1>6. CASE rows[i].via # "offrail" /\ chain[i] = "none" /\ c = "pool"
  <2>1. (There(o)' <=> There(o)) /\ Moving(o)'
    BY <1>2, <1>6 DEF There, Moving, Ids
  <2> QED BY <1>1, <1>3, <2>1, PlaceIs, PlaceIsNext DEF PlaceMoves, Moves
<1>7. CASE rows[i].via # "offrail" /\ chain[i] = "pool"
  <2>1. Moving(o)
    BY <1>7 DEF Moving
  <2> QED BY <1>1, <1>3, <1>4, <2>1, PlaceIs, PlaceIsNext DEF PlaceMoves, Moves
<1> QED BY <1>5, <1>6, <1>7

\* So does every step.
LEMMA MoneyMoves ==
  ASSUME RailInv, [Next]_vars
  PROVE  PlaceMoves
<1>1. CASE UNCHANGED <<rows, chain>>
  BY <1>1 DEF PlaceMoves, Place, Ids
<1>2. ASSUME NEW w \in Workers, ForwardViaSafe(w), chain' = [chain EXCEPT ![tasks[w].row] = "pool"]
      PROVE  PlaceMoves
  <2>1. tasks[w].row \in Ids /\ chain[tasks[w].row] = "none" /\ UNCHANGED rows
    BY <1>2 DEF RailInv, TypeInv, TaskOK, Fits, RowPCs, Ids, TasksHold, Holds, ForwardViaSafe, At
  <2> QED BY <1>2, <2>1, ChainStepMoves
<1>3. ASSUME NEW i \in Ids, ChainMoves(i) PROVE PlaceMoves
  BY <1>3, ChainStepMoves DEF ChainMoves
<1>4. ASSUME rows' # rows PROVE PlaceMoves
  BY <1>4, RowsFrame, InsertMoves, UpdateMoves
<1>5. ASSUME NEW c \in {"none", "mined"}, chain' = Append(chain, c) PROVE rows' # rows
  <2>1. TypeInv /\ TypeInv'
    BY TypeStep DEF RailInv
  <2> QED BY <1>5, <2>1 DEF TypeInv, TypeOK, RowsTypeOK
<1> QED BY <1>1, <1>2, <1>3, <1>4, <1>5, ChainFrame

-----------------------------------------------------------------------------
(* The refinement *)

P == [o \in Orders |-> Place(o)]
C == [s \in Sids |-> intents[s].order]
T == {e \in outbox : e[1] \in {"int", "undp", "late"}}

\* A step that neither credits nor tells is a move of money, or a stutter.
LEMMA MoneyRefines ==
  ASSUME PlaceMoves, C' = C, T' = T
  PROVE  Abstract!Next \/ UNCHANGED <<P, C, T>>
<1>1. CASE \A p \in Orders : Place(p)' = Place(p)
  BY <1>1 DEF P
<1>2. ASSUME NEW o \in Orders, Moves(Place(o), Place(o)'), Place(o)' # Place(o),
             \A p \in Orders : p # o => Place(p)' = Place(p)
      PROVE  Abstract!Next
  <2>1. P' = [P EXCEPT ![o] = Place(o)'] /\ P[o] = Place(o)
    BY <1>2 DEF P
  <2>2. Abstract!Release(o) \/ Abstract!Bounce(o) \/ Abstract!Arrive(o)
    BY <1>2, <2>1 DEF P, C, T, Moves, Abstract!Release, Abstract!Bounce, Abstract!Arrive
  <2> QED BY <2>2 DEF Abstract!Next
<1> QED BY <1>1, <1>2 DEF PlaceMoves

\* A settled intent is a credit of the abstract specification.
LEMMA CreditRefines ==
  ASSUME RailInv, NEW w \in Workers, FlipPaid(w)
  PROVE  Abstract!Next \/ UNCHANGED <<P, C, T>>
<1> DEFINE i == tasks[w].row
           s == rows[i].sid
           o == tasks[w].order
<1>0. /\ TypeInv /\ UNCHANGED <<rows, chain, outbox>>
      /\ Amount \in [Orders -> Nat] /\ Price \in [Sids -> Nat \ {0}] /\ NoOrder \notin Orders
  BY AmountAssumption, PriceAssumption, NullAssumption DEF RailInv, FlipPaid
<1>1. P' = P /\ T' = T
  BY <1>0 DEF P, T, Place, Ids
<1>2. CASE UNCHANGED intents
  BY <1>1, <1>2 DEF C
<1>3. CASE /\ Settles(intents[s], s, o, intents'[s]) /\ s \in Sids /\ o \in Orders
           /\ i \in Ids /\ rows[i].order = o
           /\ \A t \in Sids : t # s => intents'[t] = intents[t]
  <2>1. intents[s] \in Intent /\ IntentHolds(intents[s], s)
    BY <1>0, <1>3 DEF TypeInv, TypeOK, IntentsTypeOK, RailInv, IntentsHold
  <2>2. intents'[s].order = o
    BY <1>3, <2>1, EventTrue
  <2>3. C' = [C EXCEPT ![s] = o]
    BY <1>3, <2>2 DEF C
  <2>4. /\ rows[i].state \in {"forwarded", "settled_noop"} /\ rows[i].via # "offrail"
        /\ rows[i].state = "forwarded" => chain[i] = "mined"
    BY <1>3 DEF RailInv, TasksHold, Holds, RowsHold, FlipPaid, At, Effects
  <2>5. P[o] = "there"
    BY <1>3, <2>4, PlaceIs DEF P, There
  <2>6. intents[s].order # NoOrder =>
          (~ (Amount[intents[s].order] >= Price[s])) /\ Amount[o] >= Price[s]
    <3>1. intents[s].order # NoOrder => intents[s].state = "pending" /\ Amount[o] >= Price[s]
      BY <1>3 DEF Settles
    <3>2. intents[s].state = "pending" /\ intents[s].order # NoOrder =>
            intents[s].order \in Orders /\ Amount[intents[s].order] < Price[s]
      BY <2>1 DEF IntentHolds, Intent
    <3>3. \A x \in Orders : Amount[x] < Price[s] => ~ (Amount[x] >= Price[s])
      BY <1>0, <1>3
    <3> QED BY <3>1, <3>2, <3>3
  <2>7. ASSUME NEW t \in Sids, intents[t].order = o PROVE FALSE
    <3>1. PICK j \in Ids : Backs(j, t)
      BY <1>0, <1>3, <2>7 DEF RailInv, SettledIsBacked
    <3>2. i = j
      BY <1>3, <2>4, <2>7, <3>1 DEF Backs, RailInv, OneLiveForward, Live, Confirmed
    <3>3. t = s
      BY <3>1, <3>2 DEF Backs
    <3> QED BY <1>0, <1>3, <2>6, <2>7, <3>3
  <2>8. Abstract!Credit(s, o)
    BY <1>1, <1>3, <2>3, <2>5, <2>6, <2>7 DEF Abstract!Credit, Abstract!Full, P, C, T
  <2> HIDE DEF s, o
  <2>9. \E x \in Sids, y \in Orders : Abstract!Credit(x, y)
    BY <1>3, <2>8 DEF Abstract!Credit
  <2> QED BY <2>9 DEF Abstract!Next
<1> QED BY <1>0, <1>2, <1>3, FlipMoves

\* An enqueued event is a word of the abstract specification.
LEMMA TellRefines ==
  ASSUME RailInv, NEW w \in Workers, Tell(w)
  PROVE  Abstract!Next \/ UNCHANGED <<P, C, T>>
<1> DEFINE s == rows[tasks[w].row].sid
           e == tasks[w].event
<1>0. TypeInv /\ UNCHANGED <<rows, chain, intents>> /\ At(w, "tell")
  BY DEF RailInv, Tell
<1>1. P' = P /\ C' = C
  BY <1>0 DEF P, C, Place, Ids
<1>2. CASE e = "cmp"
  BY <1>1, <1>2 DEF Tell, T
<1>3. CASE e # "cmp"
  <2>1. s \in Sids /\ e \in {"int", "undp", "late"}
    BY <1>0, <1>3 DEF TypeInv, TypeOK, Task, TaskOK, Fits, At
  <2>2. T' = T \cup {<<e, s>>}
    BY <1>3, <2>1 DEF Tell, T
  <2>3. Truth(e, intents[s]) /\ IntentHolds(intents[s], s)
    BY <1>0, <1>3, <2>1 DEF RailInv, Told, IntentsHold
  <2>4. <<"int", s>> \in T => intents[s].state = "paid"
    BY <2>1 DEF RailInv, Told, Truth, T
  <2>5. <<"late", s>> \in T => intents[s].state = "expired"
    BY <2>1 DEF RailInv, Told, Truth, T
  <2>6. Abstract!Tell(s, e)
    BY <1>1, <2>1, <2>2, <2>3, <2>4, <2>5
       DEF Abstract!Tell, Abstract!Full, Truth, IntentHolds, P, C, T
  <2> HIDE DEF s, e
  <2>7. \E x \in Sids, kind \in {"int", "undp", "late"} : Abstract!Tell(x, kind)
    BY <2>1, <2>6 DEF Abstract!Tell
  <2> QED BY <2>7 DEF Abstract!Next
<1> QED BY <1>2, <1>3

\* Every other step leaves the orders that credit the intents, and what was
\* told of them, alone.
LEMMA QuietRefines ==
  ASSUME RailInv, [Next]_vars, \A w \in Workers : ~ FlipPaid(w) /\ ~ Tell(w)
  PROVE  C' = C /\ T' = T
<1>1. C' = C
  <2>1. intents \in [Sids -> Intent]
    BY DEF RailInv, TypeInv, TypeOK, IntentsTypeOK
  <2>2. ASSUME NEW s \in Sids PROVE intents'[s].order = intents[s].order
    <3>1. intents[s] \in Intent /\ Ages(intents[s], intents'[s])
      BY <2>1, IntentMoves DEF RailInv
    <3> QED BY <3>1 DEF Ages, Intent
  <2> QED BY <2>2 DEF C
<1>2. T' = T
  <2>1. ASSUME NEW w \in Workers, EmitBlocked(w) PROVE T' = T
    BY <2>1 DEF EmitBlocked, T
  <2>2. ASSUME NEW w \in Workers, Step(w), ~ EmitBlocked(w) PROVE outbox' = outbox
    BY <2>2 DEF Step, MatchShortRef, FindStray, AuthorizeForward, ClaimForward, LostLatch, Park,
                ForwardViaSafe, UpdateForward, PollForwardConfirmation,
                SettleConfirmedForward, MarkForwardFailed, RecordOffRail
  <2>3. ASSUME NEW w \in Workers, Start(w) PROVE outbox' = outbox
    BY <2>3 DEF Start, MaybeForward, CheckOffRail, Reroute, ReadReceipt, Retry
  <2>4. Surroundings => outbox' = outbox
    BY DEF Surroundings, ChainMoves, OpenIntent, Sweep, Crash
  <2> QED BY <2>1, <2>2, <2>3, <2>4 DEF Next, vars, T
<1> QED BY <1>1, <1>2

\* Initial states map to initial states.
LEMMA RefinesInit == Init => Abstract!Init
<1> SUFFICES ASSUME Init PROVE Abstract!Init
  OBVIOUS
<1>1. rows = << >> /\ outbox = {} /\ \A s \in Sids : intents[s].order = NoOrder
  BY DEF Init, IntentsInit
<1>2. \A o \in Orders : Place(o) = "safe"
  BY <1>1, PlaceIs DEF There, Moving, Ids
<1> QED BY <1>1, <1>2 DEF Abstract!Init

\* Every step maps to a step or to a stutter.
LEMMA RefinesStep == RailInv /\ [Next]_vars => [Abstract!Next]_<<P, C, T>>
<1> SUFFICES ASSUME RailInv, [Next]_vars PROVE Abstract!Next \/ UNCHANGED <<P, C, T>>
  OBVIOUS
<1>1. CASE \A w \in Workers : ~ FlipPaid(w) /\ ~ Tell(w)
  BY <1>1, QuietRefines, MoneyMoves, MoneyRefines
<1>2. ASSUME NEW w \in Workers, FlipPaid(w) \/ Tell(w) PROVE Abstract!Next \/ UNCHANGED <<P, C, T>>
  BY <1>2, CreditRefines, TellRefines
<1> QED BY <1>1, <1>2

\* The rail implements Payments: an order's money leaves once it has left,
\* credits one intent, after it has arrived, and the merchant is told of
\* credits only.
THEOREM RailImplementsPayments == Spec => ImplementsPayments
<1>1. Init => Abstract!Init
  BY RefinesInit
<1>2. RailInv /\ [Next]_vars => [Abstract!Next]_<<P, C, T>>
  BY RefinesStep
<1> QED BY <1>1, <1>2, RailInvariant, PTL DEF Spec, ImplementsPayments, Abstract!Spec, P, C, T
=============================================================================
