----------------------------- MODULE DirectProofs -----------------------------
(***************************************************************************)
(* Theorems about the direct-mode rail, for any number of orders, debts,   *)
(* isolates, ticks and evictions, with a router and without.               *)
(***************************************************************************)
EXTENDS DirectRail, TLAPS, SequenceTheorems, FiniteSetTheorems

-----------------------------------------------------------------------------
(* The table *)

\* An INSERT leaves the stored rows alone and puts its row after them.
LEMMA InsertFacts ==
  ASSUME rows \in Seq(Row), NEW r \in Row, InsertForward(r)
  PROVE  /\ rows' \in Seq(Row) /\ Len(rows') = Len(rows) + 1
         /\ DOMAIN rows' = Ids \cup {Len(rows) + 1}
         /\ \A i \in Ids : rows'[i] = rows[i]
         /\ rows'[Len(rows) + 1] = r
BY DEF InsertForward, Ids

\* An UPDATE changes the state and hash of one row, along the edge of its
\* event, or nothing.
LEMMA TransitionFacts ==
  ASSUME rows \in Seq(Row), NEW i \in Ids, NEW e \in DOMAIN From,
         NEW h \in BOOLEAN, TransitionForward(i, e, h)
  PROVE  /\ rows' \in Seq(Row) /\ Len(rows') = Len(rows) /\ DOMAIN rows' = Ids
         /\ \A j \in Ids : j # i => rows'[j] = rows[j]
         /\ rows[i].state # From[e] => rows'[i] = rows[i]
         /\ rows[i].state = From[e] =>
              /\ rows'[i].state = To[e] /\ rows'[i].order = rows[i].order
              /\ rows'[i].sid = rows[i].sid /\ rows'[i].via = rows[i].via
<1> DEFINE r == [rows[i] EXCEPT !.state = To[e], !.hashed = h]
<1>1. To[e] \in States
  BY DEF From, To, States, Live, Pending, Confirmed
<1>2. rows[i] \in Row
  BY ElementOfSeq DEF Ids
<1>2a. r \in Row
  BY <1>1, <1>2 DEF Row
<1>3. CASE rows[i].state # From[e]
  BY <1>3 DEF TransitionForward, Ids
<1>4. CASE rows[i].state = From[e]
  <2>1. rows' = [rows EXCEPT ![i] = r]
    BY <1>4 DEF TransitionForward
  <2>2. rows' \in Seq(Row) /\ Len(rows') = Len(rows)
    BY <2>1, <1>2a, ExceptSeq DEF Ids
  <2>3. r.state = To[e] /\ r.order = rows[i].order /\ r.sid = rows[i].sid /\ r.via = rows[i].via
    BY <1>2 DEF Row
  <2>4. rows'[i] = r /\ \A j \in Ids : j # i => rows'[j] = rows[j]
    BY <2>1 DEF Ids
  <2> QED BY <1>4, <2>2, <2>3, <2>4 DEF Ids
<1> QED BY <1>3, <1>4

\* No edge leads from a dead state to a live one.
LEMMA EdgesFromLive == \A e \in DOMAIN From : From[e] \in Live
BY DEF From, Live, Pending

\* An INSERT looks at the latch in the same statement.
LEMMA LatchInsert ==
  ASSUME rows \in Seq(Row), OneLiveForward, NEW r \in Row, OrderLatchFree(r), InsertForward(r)
  PROVE  OneLiveForward'
<1>1. /\ DOMAIN rows' = Ids \cup {Len(rows) + 1}
      /\ \A i \in Ids : rows'[i] = rows[i]
      /\ rows'[Len(rows) + 1] = r
  BY InsertFacts
<1> QED BY <1>1 DEF OneLiveForward, OrderLatchFree, LiveRow, Ids

\* No UPDATE revives a row.
LEMMA LatchTransition ==
  ASSUME rows \in Seq(Row), OneLiveForward, NEW i \in Ids, NEW e \in DOMAIN From,
         NEW h \in BOOLEAN, TransitionForward(i, e, h)
  PROVE  OneLiveForward'
<1>1. /\ DOMAIN rows' = Ids
      /\ \A j \in Ids : j # i => rows'[j] = rows[j]
      /\ rows[i].state # From[e] => rows'[i] = rows[i]
      /\ rows[i].state = From[e] => rows'[i].order = rows[i].order
  BY TransitionFacts
<1>2. \A j \in Ids : /\ rows'[j].order = rows[j].order
                     /\ rows'[j].state \in Live => rows[j].state \in Live
  BY <1>1, EdgesFromLive
<1> QED BY <1>1, <1>2 DEF OneLiveForward, Ids

-----------------------------------------------------------------------------
(* The invariant *)

\* The router's transactions for a row that have arrived or still may.
Sent(t, i) ==
  /\ t \in DOMAIN txs /\ txs[t].path = "router" /\ txs[t].state # "failed"
  /\ txs[t].legs[1].for = i

\* The legs of the owners' transactions that were meant for a row.
Handed(t, l, i) ==
  /\ t \in DOMAIN txs /\ txs[t].path = "owners"
  /\ l \in DOMAIN txs[t].legs /\ txs[t].legs[l].for = i

\* A rail pays its debts in one way.
OneWay ==
  /\ router => asked = {}
  /\ \A t \in DOMAIN txs :
       /\ txs[t].legs # << >>
       /\ txs[t].path = "router" =>
            router /\ Len(txs[t].legs) = 1 /\ txs[t].legs[1].for \in Ids
       /\ txs[t].path # "router" => txs[t].state = "mined"
       /\ txs[t].path = "owners" =>
            \A l \in DOMAIN txs[t].legs : txs[t].legs[l].for \in asked \cup {0}
       /\ txs[t].path \in {"role", "module"} =>
            \A l \in DOMAIN txs[t].legs : txs[t].legs[l].for = 0

\* The owners pay a debt once.
HandedOnce ==
  \A i \in Nat \ {0} : \A t, u \in DOMAIN txs : \A l \in DOMAIN txs[t].legs, k \in DOMAIN txs[u].legs :
    Handed(t, l, i) /\ Handed(u, k, i) => t = u /\ l = k

\* The row has left `owed` when t was sent for it, and does not come back.
Backs(i, t) ==
  \/ rows[i].state \in {"broadcasting", "failed"}
  \/ rows[i].state \in {"submitted", "forwarded"} /\ paid[i] = <<t, 0>>

\* The router pays a debt once, and while it does, or has, the row says so.
SentOnce ==
  \A i \in Ids : \A t \in DOMAIN txs : Sent(t, i) =>
    Backs(i, t) /\ \A u \in DOMAIN txs : Sent(u, i) => u = t

\* What a row may say of its payment.
PaidBy(i) ==
  LET t == paid[i][1] l == paid[i][2] IN
  /\ t \in DOMAIN txs
  /\ \/ txs[t].path = "router" /\ l = 0 /\ txs[t].legs[1].for = i
     \/ /\ txs[t].path = "owners" /\ l \in DOMAIN txs[t].legs
        /\ txs[t].legs[l].kind = Kind[rows[i].order]

RowsSay ==
  \A i \in Ids :
    /\ rows[i].state \in Pending => paid[i] = NoTx
    /\ rows[i].state \in {"submitted", "forwarded"} => paid[i] # NoTx
    /\ rows[i].state = "forwarded" => txs[paid[i][1]].state = "mined"
    /\ paid[i] # NoTx => PaidBy(i)

\* What a worker may assume of its debt after an await: once it has claimed the
\* row nobody else moves it, and what was sent for it it has sent itself.
Claiming == {"broadcast", "submit", "fail"}

TaskFits(t) ==
  /\ t.rest \subseteq Ids
  /\ t.pc # "idle" => t.row \in Ids
  /\ t.pc = "ask" => ~ router
  /\ t.pc \in {"simulate", "claim"} \cup Claiming => router
  /\ t.pc \in Claiming =>
       /\ rows[t.row].state = "broadcasting"
       /\ t.pc # "fail" => \A u \in DOMAIN txs : Sent(u, t.row) => t.pc = "submit" /\ u = t.tx
  /\ t.pc = "submit" =>
       /\ t.tx \in DOMAIN txs /\ txs[t.tx].path = "router"
       /\ txs[t.tx].legs[1].for = t.row
       /\ \A i \in Ids : paid[i][1] # t.tx

TasksHold == \A w \in Workers : TaskFits(tasks[w])

Exclusive ==
  \A w, v \in Workers :
    tasks[w].pc \in Claiming /\ tasks[v].pc \in Claiming /\ tasks[w].row = tasks[v].row => w = v

\* A leg of the ledger that was not missed.
Explained(p, l) ==
  \/ \E i \in Ids : paid[i][1] = ledger[p]
  \/ \E verdict \in Verdicts : <<ledger[p], l, verdict>> \in reported

\* What a tick has behind it, and what it may assume of the leg it is at.
ScanFits(s) ==
  s.pc # "idle" =>
    /\ s.pos \in 1..s.to /\ s.to <= Len(ledger)
    /\ s.leg \in DOMAIN txs[ledger[s.pos]].legs
    /\ \A p \in 1..(s.pos - 1) : \A l \in DOMAIN txs[ledger[p]].legs : Explained(p, l)
    /\ \A l \in 1..(s.leg - 1) : Explained(s.pos, l)
    /\ s.pc = "cursor" =>
         s.pos = s.to /\ \A l \in DOMAIN txs[ledger[s.pos]].legs : Explained(s.pos, l)
    /\ s.pc \in {"used", "match", "take"} => txs[ledger[s.pos]].path = "owners"
    /\ s.pc = "take" =>
         s.row \in Ids /\ Kind[rows[s.row].order] = txs[ledger[s.pos]].legs[s.leg].kind

ScansHold == \A v \in Watchers : ScanFits(scans[v])

LedgerHolds == \A p \in DOMAIN ledger : ledger[p] \in DOMAIN txs

DirectInv ==
  /\ TypeOK /\ OneLiveForward /\ OneWay /\ HandedOnce /\ SentOnce /\ RowsSay
  /\ TasksHold /\ Exclusive /\ LedgerHolds /\ ScansHold /\ ScannedIsExplained

\* With one watcher a leg it has found unused stays so until it uses it.
FreshLeg ==
  \A v \in Watchers : scans[v].pc \in {"match", "take"} =>
    \A i \in Ids : paid[i] # ScannedName(v)

-----------------------------------------------------------------------------
(* Lemmas *)

\* The tables of a typed state, by their ids.
LEMMA TypeFacts ==
  ASSUME TypeOK
  PROVE  /\ Ids = 1..Len(rows) /\ DOMAIN paid = Ids /\ Len(rows) \in Nat
         /\ \A i \in Ids : rows[i] \in Row /\ paid[i] \in Nat \X Nat
         /\ DOMAIN txs = 1..Len(txs) /\ Len(txs) \in Nat
         /\ \A t \in DOMAIN txs : txs[t] \in Tx
         /\ DOMAIN ledger = 1..Len(ledger) /\ Len(ledger) \in Nat
         /\ \A p \in DOMAIN ledger : ledger[p] \in Nat
BY ElementOfSeq DEF TypeOK, RowsTypeOK, Ids

\* Nothing that has been booked, paid, sent, mined or reported is taken back.
Onward ==
  /\ \A i \in Ids : /\ i \in Ids' /\ rows'[i].order = rows[i].order
                    /\ paid[i] # NoTx => paid'[i] = paid[i]
  /\ \A t \in DOMAIN txs : /\ t \in DOMAIN txs' /\ txs'[t].path = txs[t].path
                           /\ txs'[t].legs = txs[t].legs
  /\ \A p \in DOMAIN ledger : p \in DOMAIN ledger' /\ ledger'[p] = ledger[p]
  /\ Len(ledger) <= Len(ledger')
  /\ reported \subseteq reported'

\* What was explained stays so.
LEMMA ExplainedStays ==
  ASSUME DirectInv, Onward, NEW p \in DOMAIN ledger, NEW l, Explained(p, l)
  PROVE  Explained(p, l)'
<1>1. CASE \E i \in Ids : paid[i][1] = ledger[p]
  <2>1. PICK i \in Ids : paid[i][1] = ledger[p]
    BY <1>1
  <2>2. ledger[p] \in DOMAIN txs /\ DOMAIN txs = 1..Len(txs)
    BY TypeFacts DEF DirectInv, LedgerHolds
  <2>3. paid[i] # NoTx
    BY <2>1, <2>2 DEF NoTx
  <2> QED BY <2>1, <2>3 DEF Onward, Explained
<1>2. CASE \E verdict \in Verdicts : <<ledger[p], l, verdict>> \in reported
  BY <1>2 DEF Onward, Explained
<1> QED BY <1>1, <1>2 DEF Explained

\* A tick that does nothing keeps what it relies on.
LEMMA ScanStays ==
  ASSUME DirectInv, ledger' \in Seq(Nat), Onward, NEW s \in ScanAim, ScanFits(s)
  PROVE  ScanFits(s)'
<1> SUFFICES ASSUME s.pc # "idle" PROVE ScanFits(s)'
  BY DEF ScanFits
<1>1. /\ s.pos \in 1..s.to /\ s.to <= Len(ledger) /\ s.pos \in Nat /\ s.to \in Nat
      /\ s.leg \in Nat
  BY DEF ScanFits, ScanAim
<1>2. s.pos \in DOMAIN ledger /\ \A p \in 1..(s.pos - 1) : p \in DOMAIN ledger
  BY <1>1, TypeFacts DEF DirectInv
<1>3. \A p \in DOMAIN ledger : /\ ledger[p] \in DOMAIN txs /\ ledger'[p] = ledger[p]
                               /\ txs'[ledger'[p]].path = txs[ledger[p]].path
                               /\ txs'[ledger'[p]].legs = txs[ledger[p]].legs
  BY DEF DirectInv, LedgerHolds, Onward
<1>4. s.to <= Len(ledger')
  BY <1>1, TypeFacts DEF Onward, DirectInv
<1>5. \A p \in 1..(s.pos - 1) : \A l \in DOMAIN txs'[ledger'[p]].legs : Explained(p, l)'
  BY <1>2, <1>3, ExplainedStays DEF ScanFits
<1>6. \A l \in 1..(s.leg - 1) : Explained(s.pos, l)'
  BY <1>2, ExplainedStays DEF ScanFits
<1>7. s.pc = "cursor" =>
        s.pos = s.to /\ \A l \in DOMAIN txs'[ledger'[s.pos]].legs : Explained(s.pos, l)'
  BY <1>2, <1>3, ExplainedStays DEF ScanFits
<1>8. s.pc = "take" => /\ s.row \in Ids'
                       /\ Kind[rows'[s.row].order] = txs'[ledger'[s.pos]].legs[s.leg].kind
  BY <1>2, <1>3 DEF ScanFits, Onward
<1> QED BY <1>1, <1>2, <1>3, <1>4, <1>5, <1>6, <1>7, <1>8 DEF ScanFits

\* So do all ticks but the one that steps.
LEMMA ScansMove ==
  ASSUME DirectInv, ledger' \in Seq(Nat), Onward, NEW v \in Watchers, NEW s \in ScanAim,
         ScanFits(s)', scans' = [scans EXCEPT ![v] = s]
  PROVE  ScansHold' /\ scans' \in [Watchers -> ScanAim]
<1>1. /\ scans' \in [Watchers -> ScanAim]
      /\ \A u \in Watchers : scans'[u] = IF u = v THEN s ELSE scans[u]
  BY DEF DirectInv, TypeOK
<1>2. ASSUME NEW u \in Watchers PROVE ScanFits(scans[u])'
  <2>1. CASE u = v
    BY <1>1, <2>1
  <2>2. CASE u # v
    <3>1. PICK x \in ScanAim : x = scans[u] /\ x = scans'[u] /\ ScanFits(x)
      BY <1>1, <2>2 DEF DirectInv, TypeOK, ScansHold
    <3>2. ScanFits(x)'
      BY <3>1, ScanStays
    <3> QED BY <3>1, <3>2
  <2> QED BY <2>1, <2>2
<1> QED BY <1>1, <1>2 DEF ScansHold

\* So does the cursor.
LEMMA CursorStays ==
  ASSUME DirectInv, Onward, UNCHANGED cursor
  PROVE  ScannedIsExplained'
<1>1. \A p \in 1..cursor : p \in DOMAIN ledger
  BY TypeFacts DEF DirectInv, TypeOK
<1>2. \A p \in DOMAIN ledger : /\ ledger[p] \in DOMAIN txs
                               /\ txs'[ledger'[p]].legs = txs[ledger[p]].legs
  BY DEF DirectInv, LedgerHolds, Onward
<1> SUFFICES ASSUME NEW p \in 1..cursor, NEW l \in DOMAIN txs'[ledger'[p]].legs
             PROVE  Explained(p, l)'
  BY DEF ScannedIsExplained, Explained
<1>3. Explained(p, l)
  BY <1>1, <1>2 DEF DirectInv, ScannedIsExplained, Explained
<1> QED BY <1>1, <1>3, ExplainedStays

\* Where no tick steps.
LEMMA WatchStays ==
  ASSUME DirectInv, ledger' \in Seq(Nat), Onward, UNCHANGED <<cursor, scans>>
  PROVE  ScansHold' /\ ScannedIsExplained'
<1>1. ASSUME NEW v \in Watchers PROVE ScanFits(scans[v])'
  <2>1. PICK s \in ScanAim : s = scans[v] /\ s = scans'[v] /\ ScanFits(s)
    BY DEF DirectInv, TypeOK, ScansHold
  <2>2. ScanFits(s)'
    BY <2>1, ScanStays
  <2> QED BY <2>1, <2>2
<1> QED BY <1>1, CursorStays DEF ScansHold

\* A worker that does nothing keeps what it relies on, if its row and what was
\* sent for it are left alone.
LEMMA TaskStays ==
  ASSUME DirectInv, Onward, UNCHANGED router, NEW t \in Task, TaskFits(t),
         t.pc \in Claiming => rows'[t.row].state = "broadcasting",
         t.pc \in Claiming => \A u : Sent(u, t.row)' => Sent(u, t.row),
         t.pc = "submit" => \A i \in Ids' : paid'[i][1] # t.tx
  PROVE  TaskFits(t)'
<1>1. t.rest \subseteq Ids' /\ (t.pc # "idle" => t.row \in Ids')
  BY DEF TaskFits, Onward
<1>2. t.pc \in Claiming =>
        /\ t.row \in Ids
        /\ t.pc # "fail" => \A u \in DOMAIN txs : Sent(u, t.row) => t.pc = "submit" /\ u = t.tx
  BY DEF TaskFits, Onward, Claiming
<1>3. t.pc \in Claiming /\ t.pc # "fail" =>
        \A u \in DOMAIN txs' : Sent(u, t.row)' => t.pc = "submit" /\ u = t.tx
  BY <1>2 DEF Sent
<1>4. t.pc = "submit" => /\ t.tx \in DOMAIN txs' /\ txs'[t.tx].path = "router"
                         /\ txs'[t.tx].legs[1].for = t.row
  BY <1>2 DEF TaskFits, Onward, Claiming
<1> QED BY <1>1, <1>3, <1>4 DEF TaskFits

\* What only speaks of rows and transactions.
LEMMA TablesStay ==
  ASSUME DirectInv, UNCHANGED <<rows, paid, txs, ledger>>
  PROVE  OneLiveForward' /\ HandedOnce' /\ SentOnce' /\ RowsSay' /\ LedgerHolds'
<1>1. OneLiveForward'
  BY DEF DirectInv, OneLiveForward, Ids
<1>2. HandedOnce'
  BY DEF DirectInv, HandedOnce, Handed
<1>3. SentOnce'
  BY DEF DirectInv, SentOnce, Sent, Backs, Ids
<1>4. RowsSay'
  BY DEF DirectInv, RowsSay, PaidBy, Ids
<1>5. LedgerHolds'
  BY DEF DirectInv, LedgerHolds
<1> QED BY <1>1, <1>2, <1>3, <1>4, <1>5

\* What is said of the router's transactions, as long as it makes no new one
\* and stored rows stay as they are.
LEMMA SentStays ==
  ASSUME DirectInv, Ids' = Ids, \A u, i : Sent(u, i)' => Sent(u, i),
         \A i \in Ids : rows'[i] = rows[i] /\ paid'[i] = paid[i]
  PROVE  SentOnce'
<1>1. ASSUME NEW i \in Ids, NEW t \in DOMAIN txs', Sent(t, i)'
      PROVE  Backs(i, t)' /\ \A u \in DOMAIN txs' : Sent(u, i)' => u = t
  <2>1. Sent(t, i) /\ \A u : Sent(u, i)' => Sent(u, i) /\ u \in DOMAIN txs
    BY <1>1 DEF Sent
  <2>2. t \in DOMAIN txs
    BY <2>1 DEF Sent
  <2>3. Backs(i, t) /\ \A u \in DOMAIN txs : Sent(u, i) => u = t
    BY <2>1, <2>2 DEF DirectInv, SentOnce
  <2> QED BY <2>1, <2>3 DEF Backs
<1> QED BY <1>1 DEF SentOnce

\* A step of one worker that moves neither money nor a row.
LEMMA CalmTask ==
  ASSUME DirectInv, NEW w \in Workers, NEW t \in Task, TaskFits(t),
         t.pc \in Claiming => tasks[w].pc \in Claiming /\ t.row = tasks[w].row,
         tasks' = [tasks EXCEPT ![w] = t],
         UNCHANGED <<rows, paid, txs, ledger, router, cursor, reported, scans>>,
         asked \subseteq asked', asked' \subseteq Ids, router => asked' = {},
         crashes' \in 0..MaxCrashes
  PROVE  DirectInv'
<1>1. TypeOK'
  BY DEF DirectInv, TypeOK, RowsTypeOK, Ids
<1>2. Onward
  BY TypeFacts DEF DirectInv, Onward, Ids
<1>3. OneLiveForward' /\ HandedOnce' /\ SentOnce' /\ RowsSay' /\ LedgerHolds'
  BY TablesStay
<1>4. OneWay'
  BY DEF DirectInv, OneWay, Ids
<1>5. \A v \in Workers : tasks'[v] = IF v = w THEN t ELSE tasks[v]
  BY DEF DirectInv, TypeOK
<1>6. TasksHold'
  <2>1. \A x \in Task : TaskFits(x) => TaskFits(x)'
    BY DEF TaskFits, Sent, Ids
  <2>2. ASSUME NEW v \in Workers PROVE TaskFits(tasks[v])'
    <3>1. tasks[v] \in Task /\ TaskFits(tasks[v])
      BY DEF DirectInv, TypeOK, TasksHold
    <3>2. PICK x \in Task : x = tasks'[v] /\ TaskFits(x)
      BY <1>5, <3>1
    <3> QED BY <2>1, <3>2
  <2> QED BY <2>2 DEF TasksHold
<1>7. Exclusive'
  BY <1>5 DEF DirectInv, Exclusive
<1>8. ScansHold' /\ ScannedIsExplained'
  BY <1>1, <1>2, WatchStays DEF TypeOK
<1> QED BY <1>1, <1>3, <1>4, <1>6, <1>7, <1>8 DEF DirectInv

\* A worker without a debt, and one that turns to a debt that is there.
LEMMA NoTaskFits == NoTask \in Task /\ NoTask.pc = "idle" /\ TaskFits(NoTask)
BY DEF NoTask, Task, TaskFits, Claiming

\* Who turns to the oldest of some debts looks at a row that is there.
LEMMA RouteFacts ==
  ASSUME DirectInv, router, NEW w \in Workers, NEW debts \in SUBSET Ids, RouteOldest(w, debts)
  PROVE  \E t \in Task : /\ tasks' = [tasks EXCEPT ![w] = t]
                         /\ t.pc \in {"idle", "simulate"} /\ TaskFits(t)
<1>1. PICK i \in debts :
         tasks' = [tasks EXCEPT ![w] = [pc |-> "simulate", row |-> i, rest |-> debts \ {i}, tx |-> 0]]
  BY DEF RouteOldest
<1> DEFINE t == [pc |-> "simulate", row |-> i, rest |-> debts \ {i}, tx |-> 0]
<1>2. debts \subseteq Nat /\ i \in Ids
  BY TypeFacts DEF DirectInv
<1>3. t \in Task /\ TaskFits(t) /\ t.pc = "simulate"
  BY <1>2 DEF Task, TaskFits, Claiming
<1> QED BY <1>1, <1>3

\* So does who goes on to its next debt.
LEMMA NextDebtFacts ==
  ASSUME DirectInv, NEW w \in Workers, tasks[w].pc \in {"simulate", "claim"} \cup Claiming,
         NextDebt(w)
  PROVE  \E t \in Task : /\ tasks' = [tasks EXCEPT ![w] = t]
                         /\ t.pc \in {"idle", "simulate"} /\ TaskFits(t)
<1>1. TaskFits(tasks[w]) /\ tasks[w] \in Task
  BY DEF DirectInv, TasksHold, TypeOK
<1>2. CASE tasks[w].rest = {}
  BY <1>2, NoTaskFits DEF NextDebt
<1>3. CASE tasks[w].rest # {}
  <2>1. router /\ tasks[w].rest \in SUBSET Ids
    BY <1>1 DEF TaskFits
  <2> QED BY <1>3, <2>1, RouteFacts DEF NextDebt
<1> QED BY <1>2, <1>3

\* The steps of a worker that only think.
LEMMA CalmStep ==
  ASSUME DirectInv, NEW w \in Workers,
         AskOwners(w) \/ RouteAllOwed(w) \/ Refused(w) \/ Simulated(w) \/ CrashTask(w)
  PROVE  DirectInv'
<1>1. TaskFits(tasks[w]) /\ tasks[w] \in Task /\ asked \subseteq Ids /\ crashes \in 0..MaxCrashes
  BY DEF DirectInv, TasksHold, TypeOK
<1>2. router => asked = {}
  BY DEF DirectInv, OneWay
<1>3. CASE AskOwners(w)
  <2>1. tasks[w].row \in Ids /\ ~ router
    BY <1>1, <1>3 DEF AskOwners, TaskFits
  <2>2. /\ tasks' = [tasks EXCEPT ![w] = NoTask]
        /\ UNCHANGED <<rows, paid, txs, ledger, router, cursor, reported, scans, crashes>>
        /\ asked' = asked \cup {tasks[w].row}
    BY <1>3 DEF AskOwners, chainVars, watchVars
  <2> QED BY <1>1, <2>1, <2>2, NoTaskFits, CalmTask DEF Claiming
<1>4. CASE RouteAllOwed(w) \/ Refused(w)
  <2>1. PICK t \in Task : /\ tasks' = [tasks EXCEPT ![w] = t]
                          /\ t.pc \in {"idle", "simulate"} /\ TaskFits(t)
    <3>1. CASE RouteAllOwed(w)
      BY <3>1, RouteFacts DEF RouteAllOwed, ListOwedForwards
    <3>2. CASE Refused(w)
      BY <3>2, NextDebtFacts DEF Refused
    <3> QED BY <1>4, <3>1, <3>2
  <2>2. UNCHANGED <<rows, paid, txs, ledger, router, asked, cursor, reported, scans, crashes>>
    BY <1>4 DEF RouteAllOwed, Refused, chainVars, watchVars
  <2> QED BY <1>1, <1>2, <2>1, <2>2, CalmTask DEF Claiming
<1>5. CASE Simulated(w)
  <2> DEFINE t == [tasks[w] EXCEPT !.pc = "claim"]
  <2>1. t \in Task /\ TaskFits(t) /\ t.pc = "claim"
    BY <1>1, <1>5 DEF Simulated, Task, TaskFits, Claiming
  <2>2. /\ tasks' = [tasks EXCEPT ![w] = t]
        /\ UNCHANGED <<rows, paid, txs, ledger, router, asked, cursor, reported, scans, crashes>>
    BY <1>5 DEF Simulated, chainVars, watchVars
  <2> QED BY <1>1, <1>2, <2>1, <2>2, CalmTask DEF Claiming
<1>6. CASE CrashTask(w)
  <2>1. crashes' \in 0..MaxCrashes
    BY <1>1, <1>6, DirectBoundsAssumption DEF CrashTask
  <2>2. /\ tasks' = [tasks EXCEPT ![w] = NoTask]
        /\ UNCHANGED <<rows, paid, txs, ledger, router, asked, cursor, reported, scans>>
    BY <1>6 DEF CrashTask, chainVars, watchVars
  <2> QED BY <1>1, <1>2, <2>1, <2>2, NoTaskFits, CalmTask DEF Claiming
<1> QED BY <1>3, <1>4, <1>5, <1>6

-----------------------------------------------------------------------------
(* The chain *)

\* A transaction that is mined as it is made.
LEMMA MineFacts ==
  ASSUME DirectInv, NEW x \in Tx, Mine(x)
  PROVE  /\ txs' \in Seq(Tx) /\ ledger' \in Seq(Nat)
         /\ Len(txs) + 1 \notin DOMAIN txs /\ DOMAIN txs' = DOMAIN txs \cup {Len(txs) + 1}
         /\ \A t \in DOMAIN txs : txs'[t] = txs[t]
         /\ txs'[Len(txs) + 1] = x
         /\ Len(ledger') = Len(ledger) + 1
         /\ \A p \in DOMAIN ledger : p \in DOMAIN ledger' /\ ledger'[p] = ledger[p]
         /\ \A p \in DOMAIN ledger' : p \in DOMAIN ledger \/ ledger'[p] = Len(txs) + 1
BY DEF DirectInv, TypeOK, Mine

\* A transfer that no worker has sent: by the owners as they were asked, or by
\* somebody else.
LEMMA MineStep ==
  ASSUME DirectInv, NEW x \in Tx, Mine(x),
         UNCHANGED <<rows, paid, cursor, reported, scans, router, asked, tasks, crashes>>,
         x.state = "mined", x.legs # << >>, x.path # "router",
         x.path = "owners" => \A l \in DOMAIN x.legs : x.legs[l].for \in asked \cup {0},
         x.path # "owners" => \A l \in DOMAIN x.legs : x.legs[l].for = 0,
         \A i \in Nat \ {0} : \A l, k \in DOMAIN x.legs :
           x.legs[l].for = i /\ x.legs[k].for = i => l = k,
         \A i \in Nat \ {0} : \A l \in DOMAIN x.legs :
           x.legs[l].for = i => \A t \in DOMAIN txs : \A k \in DOMAIN txs[t].legs : ~ Handed(t, k, i)
  PROVE  DirectInv'
<1> DEFINE n == Len(txs) + 1
<1>1. /\ txs' \in Seq(Tx) /\ ledger' \in Seq(Nat)
      /\ n \notin DOMAIN txs /\ DOMAIN txs' = DOMAIN txs \cup {n}
      /\ \A t \in DOMAIN txs : txs'[t] = txs[t]
      /\ txs'[n] = x
      /\ Len(ledger') = Len(ledger) + 1
      /\ \A p \in DOMAIN ledger : p \in DOMAIN ledger' /\ ledger'[p] = ledger[p]
      /\ \A p \in DOMAIN ledger' : p \in DOMAIN ledger \/ ledger'[p] = n
  BY MineFacts
<1> HIDE DEF n
<1>2. TypeOK'
  <2>1. cursor \in 0..Len(ledger) /\ Len(ledger) \in Nat /\ Len(ledger') = Len(ledger) + 1
    BY <1>1, TypeFacts DEF DirectInv, TypeOK
  <2>2. cursor' \in 0..Len(ledger')
    BY <2>1
  <2> QED BY <1>1, <2>2 DEF DirectInv, TypeOK, RowsTypeOK, Ids
<1>3. Onward
  BY <1>1, TypeFacts DEF DirectInv, Onward, Ids
<1>4. OneLiveForward'
  BY DEF DirectInv, OneLiveForward, Ids
<1>5. OneWay'
  BY <1>1 DEF DirectInv, OneWay, Ids
<1>6. HandedOnce'
  <2> SUFFICES ASSUME NEW i \in Nat \ {0}, NEW t \in DOMAIN txs', NEW u \in DOMAIN txs',
                      NEW l \in DOMAIN txs'[t].legs, NEW k \in DOMAIN txs'[u].legs,
                      Handed(t, l, i)', Handed(u, k, i)'
               PROVE  t = u /\ l = k
    BY DEF HandedOnce
  <2>1. CASE t \in DOMAIN txs /\ u \in DOMAIN txs
    <3>1. Handed(t, l, i) /\ Handed(u, k, i)
      BY <1>1, <2>1 DEF Handed
    <3>2. l \in DOMAIN txs[t].legs /\ k \in DOMAIN txs[u].legs
      BY <3>1 DEF Handed
    <3> QED BY <2>1, <3>1, <3>2 DEF DirectInv, HandedOnce
  <2>2. CASE t = n /\ u = n
    BY <1>1, <2>2 DEF Handed
  <2>3. CASE t = n /\ u \in DOMAIN txs
    BY <1>1, <2>3 DEF Handed
  <2>4. CASE u = n /\ t \in DOMAIN txs
    BY <1>1, <2>4 DEF Handed
  <2> QED BY <1>1, <2>1, <2>2, <2>3, <2>4
<1>7. \A u, o : Sent(u, o)' <=> Sent(u, o)
  BY <1>1 DEF Sent
<1>8. SentOnce'
  BY <1>7, SentStays DEF Ids
<1>9. RowsSay'
  <2> SUFFICES ASSUME NEW i \in Ids
               PROVE  /\ rows[i].state \in Pending => paid[i] = NoTx
                      /\ rows[i].state \in {"submitted", "forwarded"} => paid[i] # NoTx
                      /\ rows[i].state = "forwarded" => txs'[paid[i][1]].state = "mined"
                      /\ paid[i] # NoTx => PaidBy(i)'
    BY DEF RowsSay, Ids, PaidBy
  <2>1. paid[i] # NoTx => paid[i][1] \in DOMAIN txs
    BY DEF DirectInv, RowsSay, PaidBy
  <2> QED BY <1>1, <2>1 DEF DirectInv, RowsSay, PaidBy
<1>10. TasksHold'
  <2>1. ASSUME NEW v \in Workers PROVE TaskFits(tasks[v])'
    <3>1. PICK t \in Task : t = tasks[v] /\ t = tasks'[v] /\ TaskFits(t)
      BY DEF DirectInv, TypeOK, TasksHold
    <3>2. t.pc \in Claiming => rows'[t.row].state = "broadcasting"
      BY <3>1 DEF TaskFits
    <3>3. t.pc = "submit" => \A i \in Ids' : paid'[i][1] # t.tx
      BY <3>1 DEF TaskFits, Ids
    <3>4. TaskFits(t)'
      BY <1>3, <1>7, <3>1, <3>2, <3>3, TaskStays
    <3> QED BY <3>1, <3>4
  <2> QED BY <2>1 DEF TasksHold
<1>11. Exclusive'
  BY DEF DirectInv, Exclusive
<1>12. LedgerHolds'
  BY <1>1 DEF DirectInv, LedgerHolds
<1>13. ScansHold' /\ ScannedIsExplained'
  BY <1>2, <1>3, WatchStays DEF TypeOK
<1> QED BY <1>2, <1>4, <1>5, <1>6, <1>8, <1>9, <1>10, <1>11, <1>12, <1>13 DEF DirectInv

\* The owners pay debts they were asked to pay and had not paid.
LEMMA OwnersPayStep ==
  ASSUME DirectInv, NEW i \in Ids \cup {0}, NEW j \in Ids \cup {0}, OwnersPay(i, j)
  PROVE  DirectInv'
<1> DEFINE leg(k) == [kind |-> IF k = 0 THEN OtherKind ELSE Kind[rows[k].order], for |-> k]
           x == [path |-> "owners", state |-> "mined",
                 legs |-> IF i = j THEN <<leg(i)>> ELSE <<leg(i), leg(j)>>]
<1>1. /\ Mine(x)
      /\ UNCHANGED <<rows, paid, cursor, reported, scans, router, asked, tasks, crashes>>
  BY DEF OwnersPay, watchVars
<1>2. \A q \in {i, j} : leg(q) \in Leg
  BY DirectAssumption, TypeFacts DEF Leg, Row, DirectInv
<1>3. /\ x.legs \in Seq(Leg) /\ x.legs # << >>
      /\ DOMAIN x.legs = IF i = j THEN {1} ELSE {1, 2}
      /\ x.legs[1].for = i
      /\ i # j => x.legs[2].for = j
  <2>1. CASE i = j
    BY <1>2, <2>1
  <2>2. CASE i # j
    BY <1>2, <2>2
  <2> QED BY <2>1, <2>2
<1> DEFINE y == x.legs
<1>4. x \in Tx /\ x.path = "owners" /\ x.state = "mined"
  BY <1>3 DEF Tx, Paths
<1>5. \A q \in {i, j} : q \in asked \cup {0} /\ (q # 0 => ByHand(q) = {})
  BY DEF OwnersPay
<1> HIDE DEF x
<1>6. \A l \in DOMAIN x.legs : x.legs[l].for \in {i, j}
  BY <1>3
<1>7. \A l \in DOMAIN x.legs : x.legs[l].for \in asked \cup {0}
  BY <1>5, <1>6
<1>8. \A q \in Nat \ {0} : \A l, k \in DOMAIN x.legs :
        x.legs[l].for = q /\ x.legs[k].for = q => l = k
  BY <1>3
<1>9. ASSUME NEW q \in Nat \ {0}, NEW l \in DOMAIN x.legs, x.legs[l].for = q,
             NEW t \in DOMAIN txs, NEW k \in DOMAIN txs[t].legs, Handed(t, k, q)
      PROVE  FALSE
  <2>1. q \in {i, j} /\ q # 0
    BY <1>6, <1>9
  <2>2. t \in ByHand(q)
    BY <1>9 DEF ByHand, Handed
  <2> QED BY <1>5, <2>1, <2>2
<1> QED BY <1>1, <1>3, <1>4, <1>7, <1>8, <1>9, MineStep

\* A transfer nobody ordered pays no debt.
LEMMA StealStep ==
  ASSUME DirectInv, NEW path \in Paths, NEW kind \in Kinds, Steal(path, kind)
  PROVE  DirectInv'
<1> DEFINE x == [path |-> path, legs |-> <<[kind |-> kind, for |-> 0]>>, state |-> "mined"]
<1>1. /\ Mine(x) /\ path \in {"role", "module"}
      /\ UNCHANGED <<rows, paid, cursor, reported, scans, router, asked, tasks, crashes>>
  BY DirectAssumption DEF Steal, watchVars
<1>2. /\ x \in Tx /\ x.path = path /\ x.state = "mined" /\ x.legs # << >>
      /\ \A l \in DOMAIN x.legs : x.legs[l].for = 0
  BY DEF Tx, Leg
<1> HIDE DEF x
<1> QED BY <1>1, <1>2, MineStep

\* What becomes of a broadcast transaction: it is mined, or it fails.
LEMMA ChainStep ==
  ASSUME DirectInv, NEW m \in DOMAIN txs, NEW fate \in {"mined", "failed"}, ChainMoves(m, fate)
  PROVE  DirectInv'
<1>0. /\ txs[m].state = "pool" /\ m \in Nat
      /\ UNCHANGED <<rows, paid, cursor, reported, scans, router, asked, tasks, crashes>>
  BY TypeFacts DEF ChainMoves, watchVars, DirectInv
<1>1. /\ txs' \in Seq(Tx) /\ DOMAIN txs' = DOMAIN txs
      /\ \A t \in DOMAIN txs : /\ txs'[t].path = txs[t].path /\ txs'[t].legs = txs[t].legs
                               /\ t # m => txs'[t] = txs[t]
      /\ txs'[m].state = fate
  <2> DEFINE x == [txs[m] EXCEPT !.state = fate]
  <2>1. txs' = [txs EXCEPT ![m] = x]
    BY DEF ChainMoves
  <2>2. txs[m] \in Tx /\ x \in Tx /\ x.path = txs[m].path /\ x.legs = txs[m].legs /\ x.state = fate
    BY TypeFacts DEF DirectInv, Tx
  <2>3. txs' \in Seq(Tx) /\ DOMAIN txs' = DOMAIN txs
    BY <2>1, <2>2, ExceptSeq DEF DirectInv, TypeOK
  <2>4. \A t \in DOMAIN txs : txs'[t] = IF t = m THEN x ELSE txs[t]
    BY <2>1
  <2> HIDE DEF x
  <2> QED BY <2>2, <2>3, <2>4
<1>2. /\ ledger' \in Seq(Nat) /\ Len(ledger) <= Len(ledger')
      /\ \A p \in DOMAIN ledger : p \in DOMAIN ledger' /\ ledger'[p] = ledger[p]
      /\ \A p \in DOMAIN ledger' : p \in DOMAIN ledger \/ ledger'[p] = m
  <2>1. ledger \in Seq(Nat) /\ m \in Nat
    BY <1>0 DEF DirectInv, TypeOK
  <2>2. CASE fate = "mined"
    BY <2>1, <2>2 DEF ChainMoves
  <2>3. CASE fate = "failed"
    BY <2>1, <2>3 DEF ChainMoves
  <2> QED BY <2>2, <2>3
<1>3. TypeOK'
  <2>1. cursor \in 0..Len(ledger) /\ Len(ledger) \in Nat /\ Len(ledger') \in Nat
    BY <1>2, TypeFacts DEF DirectInv, TypeOK
  <2>2. cursor' \in 0..Len(ledger')
    BY <1>0, <1>2, <2>1
  <2> QED BY <1>0, <1>1, <1>2, <2>2 DEF DirectInv, TypeOK, RowsTypeOK, Ids
<1>4. Onward
  BY <1>0, <1>1, <1>2 DEF Onward, Ids
<1>5. OneLiveForward'
  BY <1>0 DEF DirectInv, OneLiveForward, Ids
<1>6. OneWay'
  BY <1>0, <1>1 DEF DirectInv, OneWay, Ids
<1>7. HandedOnce'
  <2>1. \A t, l, q : Handed(t, l, q)' <=> Handed(t, l, q)
    BY <1>1 DEF Handed
  <2> QED BY <1>1, <2>1 DEF DirectInv, HandedOnce
<1>8. \A u, o : Sent(u, o)' => Sent(u, o)
  BY <1>0, <1>1 DEF Sent
<1>9. SentOnce'
  BY <1>0, <1>8, SentStays DEF Ids
<1>10. RowsSay'
  <2> SUFFICES ASSUME NEW i \in Ids
               PROVE  /\ rows[i].state \in Pending => paid[i] = NoTx
                      /\ rows[i].state \in {"submitted", "forwarded"} => paid[i] # NoTx
                      /\ rows[i].state = "forwarded" => txs'[paid[i][1]].state = "mined"
                      /\ paid[i] # NoTx => PaidBy(i)'
    BY <1>0 DEF RowsSay, Ids, PaidBy
  <2>1. paid[i] # NoTx => paid[i][1] \in DOMAIN txs /\ PaidBy(i)
    BY DEF DirectInv, RowsSay, PaidBy
  <2>2. rows[i].state = "forwarded" => txs'[paid[i][1]].state = "mined"
    BY <1>0, <1>1, <2>1 DEF DirectInv, RowsSay
  <2>3. paid[i] # NoTx => PaidBy(i)'
    BY <1>0, <1>1, <2>1 DEF PaidBy
  <2> QED BY <2>2, <2>3 DEF DirectInv, RowsSay
<1>11. TasksHold'
  <2>1. ASSUME NEW v \in Workers PROVE TaskFits(tasks[v])'
    <3>1. PICK t \in Task : t = tasks[v] /\ t = tasks'[v] /\ TaskFits(t)
      BY <1>0 DEF DirectInv, TypeOK, TasksHold
    <3>2. t.pc \in Claiming => rows'[t.row].state = "broadcasting"
      BY <1>0, <3>1 DEF TaskFits
    <3>3. t.pc = "submit" => \A i \in Ids' : paid'[i][1] # t.tx
      BY <1>0, <3>1 DEF TaskFits, Ids
    <3>4. TaskFits(t)'
      BY <1>0, <1>4, <1>8, <3>1, <3>2, <3>3, TaskStays
    <3> QED BY <3>1, <3>4
  <2> QED BY <2>1 DEF TasksHold
<1>12. Exclusive'
  BY <1>0 DEF DirectInv, Exclusive
<1>13. LedgerHolds'
  BY <1>1, <1>2 DEF DirectInv, LedgerHolds
<1>14. ScansHold' /\ ScannedIsExplained'
  BY <1>0, <1>3, <1>4, WatchStays DEF TypeOK
<1> QED BY <1>3, <1>5, <1>6, <1>7, <1>9, <1>10, <1>11, <1>12, <1>13, <1>14 DEF DirectInv

-----------------------------------------------------------------------------
(* Rows *)

\* What only speaks of the chain.
LEMMA ChainStays ==
  ASSUME DirectInv, Ids \subseteq Ids', UNCHANGED <<txs, ledger, router, asked>>
  PROVE  OneWay' /\ HandedOnce' /\ LedgerHolds' /\ \A u, i : Sent(u, i)' <=> Sent(u, i)
<1>1. OneWay'
  BY DEF DirectInv, OneWay
<1>2. HandedOnce'
  BY DEF DirectInv, HandedOnce, Handed
<1>3. LedgerHolds'
  BY DEF DirectInv, LedgerHolds
<1>4. \A u, i : Sent(u, i)' <=> Sent(u, i)
  BY DEF Sent
<1> QED BY <1>1, <1>2, <1>3, <1>4

\* The workers other than the one that steps.
LEMMA OthersStay ==
  ASSUME DirectInv, Onward, UNCHANGED router, NEW w \in Workers, NEW t \in Task, TaskFits(t)',
         tasks' = [tasks EXCEPT ![w] = t],
         \A v \in Workers \ {w} : tasks[v].pc \in Claiming =>
           /\ rows'[tasks[v].row].state = "broadcasting"
           /\ \A q : q = tasks[v].row => \A u : Sent(u, q)' => Sent(u, q)
           /\ tasks[v].pc = "submit" => \A i \in Ids' : paid'[i][1] # tasks[v].tx
  PROVE  TasksHold' /\ tasks' \in [Workers -> Task]
<1>1. tasks' \in [Workers -> Task] /\ \A v \in Workers : tasks'[v] = IF v = w THEN t ELSE tasks[v]
  BY DEF DirectInv, TypeOK
<1>2. ASSUME NEW v \in Workers PROVE TaskFits(tasks[v])'
  <2>1. CASE v = w
    BY <1>1, <2>1
  <2>2. CASE v # w
    <3>1. PICK x \in Task : x = tasks[v] /\ x = tasks'[v] /\ TaskFits(x)
      BY <1>1, <2>2 DEF DirectInv, TypeOK, TasksHold
    <3>2. /\ x.pc \in Claiming => rows'[x.row].state = "broadcasting"
          /\ x.pc \in Claiming => \A u : Sent(u, x.row)' => Sent(u, x.row)
          /\ x.pc = "submit" => \A i \in Ids' : paid'[i][1] # x.tx
      BY <2>2, <3>1 DEF Claiming
    <3>3. TaskFits(x)'
      BY <3>1, <3>2, TaskStays
    <3> QED BY <3>1, <3>3
  <2> QED BY <2>1, <2>2
<1> QED BY <1>1, <1>2 DEF TasksHold

\* A row that is left alone says what it said.
LEMMA RowSaysStill ==
  ASSUME DirectInv, UNCHANGED txs, NEW j \in Ids, rows'[j] = rows[j], paid'[j] = paid[j]
  PROVE  /\ rows'[j].state \in Pending => paid'[j] = NoTx
         /\ rows'[j].state \in {"submitted", "forwarded"} => paid'[j] # NoTx
         /\ rows'[j].state = "forwarded" => txs'[paid'[j][1]].state = "mined"
         /\ paid'[j] # NoTx => PaidBy(j)'
<1>1. PaidBy(j) => PaidBy(j)'
  BY DEF PaidBy
<1>2. /\ rows[j].state \in Pending => paid[j] = NoTx
      /\ rows[j].state \in {"submitted", "forwarded"} => paid[j] # NoTx
      /\ rows[j].state = "forwarded" => txs[paid[j][1]].state = "mined"
      /\ paid[j] # NoTx => PaidBy(j)
  BY DEF DirectInv, RowsSay
<1> QED BY <1>1, <1>2

\* Nothing has been sent for a row that is still owed.
LEMMA NothingSent ==
  ASSUME DirectInv, NEW i \in Ids, rows[i].state = "owed"
  PROVE  \A u : ~ Sent(u, i)
<1> SUFFICES ASSUME NEW u, Sent(u, i) PROVE FALSE
  OBVIOUS
<1>1. u \in DOMAIN txs
  BY DEF Sent
<1> QED BY <1>1 DEF DirectInv, SentOnce, Backs

\* A row that backs what was sent for it may go on, but not back to `owed`.
LEMMA SentMoves ==
  ASSUME DirectInv, \A u, i : Sent(u, i)' => Sent(u, i),
         \A i \in Ids :
           \/ rows'[i] = rows[i] /\ paid'[i] = paid[i]
           \/ rows[i].state = "owed"
           \/ rows'[i].state \in {"broadcasting", "failed"}
           \/ /\ rows[i].state \in {"submitted", "forwarded"} /\ paid'[i] = paid[i]
              /\ rows'[i].state \in {"submitted", "forwarded"}
           \/ rows'[i].state = "submitted" /\ \A u : Sent(u, i) => paid'[i] = <<u, 0>>
  PROVE  SentOnce'
<1>1. ASSUME NEW i, NEW t \in DOMAIN txs', Sent(t, i)'
      PROVE  Backs(i, t)' /\ \A u \in DOMAIN txs' : Sent(u, i)' => u = t
  <2>1. Sent(t, i) /\ \A u : Sent(u, i)' => Sent(u, i) /\ u \in DOMAIN txs
    BY <1>1 DEF Sent
  <2>2. t \in DOMAIN txs /\ i \in Ids
    BY <2>1 DEF Sent, DirectInv, OneWay
  <2>3. Backs(i, t) /\ \A u \in DOMAIN txs : Sent(u, i) => u = t
    BY <2>1, <2>2 DEF DirectInv, SentOnce
  <2>4. rows[i].state # "owed"
    BY <2>1, <2>2, NothingSent
  <2>5. Backs(i, t)'
    BY <2>1, <2>2, <2>3, <2>4 DEF Backs
  <2> QED BY <2>1, <2>3, <2>5
<1> QED BY <1>1 DEF SentOnce

\* The claim decides which worker pays an owed debt.
LEMMA ClaimStep ==
  ASSUME DirectInv, NEW w \in Workers, ClaimOwed(w)
  PROVE  DirectInv'
<1>a. TaskFits(tasks[w]) /\ tasks[w].pc = "claim"
  BY DEF DirectInv, TasksHold, ClaimOwed
<1>b. PICK i \in Ids : i = tasks[w].row
  BY <1>a DEF TaskFits
<1>0. /\ tasks[w] \in Task /\ TaskFits(tasks[w]) /\ router /\ rows \in Seq(Row)
      /\ tasks[w].pc = "claim" /\ TransitionForward(i, "router_claim", FALSE)
      /\ "router_claim" \in DOMAIN From /\ From["router_claim"] = "owed" /\ To["router_claim"] = "broadcasting"
      /\ UNCHANGED <<paid, txs, ledger, cursor, reported, scans, router, asked, crashes>>
  BY <1>a, <1>b DEF DirectInv, TypeOK, RowsTypeOK, TaskFits, ClaimOwed, chainVars, watchVars, From, To
<1>1. CASE rows[i].state # "owed"
  <2>1. UNCHANGED rows /\ NextDebt(w)
    BY <1>0, <1>1, <1>b DEF ClaimOwed, TransitionForward
  <2>2. PICK t \in Task : /\ tasks' = [tasks EXCEPT ![w] = t]
                          /\ t.pc \in {"idle", "simulate"} /\ TaskFits(t)
    BY <1>0, <2>1, NextDebtFacts
  <2>3. /\ asked \subseteq asked' /\ asked' \subseteq Ids /\ (router => asked' = {})
        /\ crashes' \in 0..MaxCrashes
    BY <1>0 DEF DirectInv, TypeOK, OneWay
  <2> QED BY <1>0, <2>1, <2>2, <2>3, CalmTask DEF Claiming
<1>2. CASE rows[i].state = "owed"
  <2>0. PICK t \in Task : t = [tasks[w] EXCEPT !.pc = "broadcast"]
    BY <1>0 DEF Task
  <2>1. /\ rows' \in Seq(Row) /\ Len(rows') = Len(rows) /\ Ids' = Ids
        /\ \A j \in Ids : rows'[j].order = rows[j].order /\ (j # i => rows'[j] = rows[j])
        /\ rows'[i].state = "broadcasting"
    BY <1>0, <1>2, TransitionFacts DEF Ids
  <2>2. tasks' = [tasks EXCEPT ![w] = t] /\ t.pc = "broadcast" /\ t.row = i /\ t.rest \subseteq Ids
    BY <1>0, <1>2, <1>b, <2>0 DEF ClaimOwed, Task, TaskFits
  <2>3. TypeOK'
    <3>1. tasks' \in [Workers -> Task]
      BY <2>2 DEF DirectInv, TypeOK
    <3> QED BY <1>0, <2>1, <3>1 DEF DirectInv, TypeOK, RowsTypeOK
  <2>4. Onward
    BY <1>0, <2>1, TypeFacts DEF Onward, DirectInv
  <2>5. OneLiveForward'
    BY <1>0, LatchTransition DEF DirectInv
  <2>6. OneWay' /\ HandedOnce' /\ LedgerHolds' /\ \A u, q : Sent(u, q)' <=> Sent(u, q)
    BY <1>0, <2>1, ChainStays
  <2>7. SentOnce'
    <3>1. \A j \in Ids : rows'[j] = rows[j] \/ rows[j].state = "owed"
      BY <1>2, <2>1
    <3> QED BY <1>0, <2>6, <3>1, SentMoves
  <2>8. RowsSay'
    <3>1. ASSUME NEW j \in Ids
          PROVE  /\ rows'[j].state \in Pending => paid[j] = NoTx
                 /\ rows'[j].state \in {"submitted", "forwarded"} => paid[j] # NoTx
                 /\ rows'[j].state = "forwarded" => txs[paid[j][1]].state = "mined"
                 /\ paid[j] # NoTx => PaidBy(j)
      BY <1>2, <2>1, <3>1 DEF DirectInv, RowsSay, Pending
    <3>2. \A j \in Ids : PaidBy(j) => PaidBy(j)'
      BY <1>0, <2>1 DEF PaidBy
    <3> QED BY <1>0, <2>1, <3>1, <3>2 DEF RowsSay
  <2>9. \A u : ~ Sent(u, t.row)'
    BY <1>2, <2>2, <2>6, NothingSent
  <2>10. TaskFits(t)'
    <3>1. t.row \in Ids' /\ t.rest \subseteq Ids' /\ router' /\ rows'[t.row].state = "broadcasting"
      BY <1>0, <2>1, <2>2
    <3> QED BY <2>2, <2>9, <3>1 DEF TaskFits, Claiming
  <2>11. \A v \in Workers : tasks[v].pc \in Claiming => tasks[v].row # i /\ tasks[v].row \in Ids
    BY <1>2 DEF DirectInv, TasksHold, TaskFits, Claiming
  <2>12. TasksHold'
    <3>1. \A v \in Workers \ {w} : tasks[v].pc \in Claiming =>
            /\ rows'[tasks[v].row].state = "broadcasting"
            /\ tasks[v].pc = "submit" => \A j \in Ids' : paid'[j][1] # tasks[v].tx
      BY <1>0, <2>1, <2>11 DEF DirectInv, TasksHold, TaskFits
    <3>2. \A v \in Workers \ {w} : tasks[v].pc \in Claiming =>
            /\ rows'[tasks[v].row].state = "broadcasting"
            /\ \A q : q = tasks[v].row => \A u : Sent(u, q)' => Sent(u, q)
            /\ tasks[v].pc = "submit" => \A j \in Ids' : paid'[j][1] # tasks[v].tx
      BY <2>6, <3>1
    <3> QED BY <1>0, <2>2, <2>4, <2>10, <3>2, OthersStay
  <2>13. Exclusive'
    <3>1. \A v \in Workers : tasks'[v] = IF v = w THEN t ELSE tasks[v]
      BY <2>2 DEF DirectInv, TypeOK
    <3> QED BY <2>2, <2>11, <3>1 DEF DirectInv, Exclusive
  <2>14. ScansHold' /\ ScannedIsExplained'
    BY <1>0, <2>3, <2>4, WatchStays DEF TypeOK
  <2> QED BY <2>3, <2>5, <2>6, <2>7, <2>8, <2>12, <2>13, <2>14 DEF DirectInv
<1> QED BY <1>1, <1>2

\* A worker that has claimed sends one transaction, or none, and is told so or
\* is told of an error.
LEMMA BroadcastStep ==
  ASSUME DirectInv, NEW w \in Workers, Broadcast(w)
  PROVE  DirectInv'
<1>1. /\ tasks[w] \in Task /\ TaskFits(tasks[w]) /\ tasks[w].pc = "broadcast"
      /\ UNCHANGED <<rows, paid, ledger, cursor, reported, scans, router, asked, crashes>>
  BY DEF DirectInv, TypeOK, TasksHold, Broadcast, watchVars
<1>2. PICK i \in Ids : i = tasks[w].row
  BY <1>1 DEF TaskFits
<1>3. Kind[rows[i].order] \in Kinds /\ i \in Nat
  BY TypeFacts, DirectAssumption DEF DirectInv, Row
<1>4. /\ router /\ tasks[w].rest \subseteq Ids /\ rows[i].state = "broadcasting"
      /\ \A u \in DOMAIN txs : ~ Sent(u, i)
  BY <1>1, <1>2 DEF TaskFits, Claiming
<1>5. CASE tasks' = [tasks EXCEPT ![w].pc = "fail"] /\ UNCHANGED txs
  <2>1. PICK t \in Task : t = [tasks[w] EXCEPT !.pc = "fail"]
    BY <1>1 DEF Task
  <2>2. /\ tasks' = [tasks EXCEPT ![w] = t] /\ t.pc = "fail" /\ t.row = i /\ t.rest \subseteq Ids
        /\ tasks[w].pc \in Claiming
    BY <1>1, <1>2, <1>4, <1>5, <2>1 DEF Task, Claiming
  <2>3. TaskFits(t)
    BY <1>4, <2>2 DEF TaskFits, Claiming
  <2>4. asked \subseteq asked' /\ asked' \subseteq Ids /\ (router => asked' = {}) /\ crashes' \in 0..MaxCrashes
    BY <1>1 DEF DirectInv, TypeOK, OneWay
  <2> QED BY <1>1, <1>2, <1>5, <2>2, <2>3, <2>4, CalmTask
<1>6. ASSUME NEW x, x = [path |-> "router", legs |-> <<[kind |-> Kind[rows[i].order], for |-> i]>>, state |-> "pool"],
             NEW n, n = Len(txs) + 1,
             txs' = Append(txs, x),
             \/ tasks' = [tasks EXCEPT ![w].pc = "submit", ![w].tx = n]
             \/ tasks' = [tasks EXCEPT ![w].pc = "fail"]
      PROVE  DirectInv'
  <2>1. /\ x \in Tx /\ x.path = "router" /\ x.legs # << >> /\ Len(x.legs) = 1 /\ x.legs[1].for = i
        /\ x.state = "pool"
    BY <1>3, <1>6 DEF Tx, Leg, Paths
  <2>2. /\ txs' \in Seq(Tx) /\ n \notin DOMAIN txs /\ DOMAIN txs' = DOMAIN txs \cup {n}
        /\ \A u \in DOMAIN txs : txs'[u] = txs[u]
        /\ txs'[n] = x /\ n \in Nat \ {0}
    BY <1>6, <2>1 DEF DirectInv, TypeOK
  <2>3. PICK t \in Task : /\ tasks' = [tasks EXCEPT ![w] = t]
                          /\ t.row = i /\ t.rest \subseteq Ids
                          /\ t.pc = "fail" \/ (t.pc = "submit" /\ t.tx = n)
    <3>1. CASE tasks' = [tasks EXCEPT ![w].pc = "submit", ![w].tx = n]
      <4> DEFINE t == [tasks[w] EXCEPT !.pc = "submit", !.tx = n]
      <4>1. t \in Task /\ t.row = i /\ t.rest \subseteq Ids /\ t.pc = "submit" /\ t.tx = n
        BY <1>1, <1>2, <1>4, <2>2 DEF Task
      <4>2. tasks' = [tasks EXCEPT ![w] = t]
        BY <3>1
      <4> QED BY <4>1, <4>2
    <3>2. CASE tasks' = [tasks EXCEPT ![w].pc = "fail"]
      <4> DEFINE t == [tasks[w] EXCEPT !.pc = "fail"]
      <4>1. t \in Task /\ t.row = i /\ t.rest \subseteq Ids /\ t.pc = "fail"
        BY <1>1, <1>2, <1>4 DEF Task
      <4>2. tasks' = [tasks EXCEPT ![w] = t]
        BY <3>2
      <4> QED BY <4>1, <4>2
    <3> QED BY <1>6, <3>1, <3>2
  <2>4. Ids' = Ids
    BY <1>1 DEF Ids
  <2>5. TypeOK'
    <3>1. tasks' \in [Workers -> Task]
      BY <2>3 DEF DirectInv, TypeOK
    <3> QED BY <1>1, <2>2, <2>4, <3>1 DEF DirectInv, TypeOK, RowsTypeOK
  <2>6. Onward
    BY <1>1, <2>2, TypeFacts DEF Onward, Ids, DirectInv
  <2>7. \A u, q : Sent(u, q)' <=> Sent(u, q) \/ (u = n /\ q = i)
    BY <2>1, <2>2 DEF Sent
  <2>8. OneLiveForward'
    BY <1>1 DEF DirectInv, OneLiveForward, Ids
  <2>9. OneWay'
    BY <1>1, <1>4, <2>1, <2>2, <2>4 DEF DirectInv, OneWay
  <2>10. HandedOnce'
    BY <2>1, <2>2, <2>4 DEF DirectInv, HandedOnce, Handed
  <2>11. SentOnce'
    <3>1. ASSUME NEW q \in Ids, NEW u \in DOMAIN txs', Sent(u, q)'
          PROVE  Backs(q, u)' /\ \A z \in DOMAIN txs' : Sent(z, q)' => z = u
      <4>1. CASE q = i
        <5>1. \A z : Sent(z, q)' => z = n
          BY <1>4, <2>7, <4>1 DEF Sent
        <5>2. Backs(q, u)'
          BY <1>1, <1>4, <4>1 DEF Backs
        <5> QED BY <3>1, <5>1, <5>2
      <4>2. CASE q # i
        <5>1. Sent(u, q) /\ \A z : Sent(z, q)' => Sent(z, q)
          BY <2>7, <3>1, <4>2
        <5>2. \A z : Sent(z, q) => z \in DOMAIN txs
          BY DEF Sent
        <5>3. Backs(q, u) /\ \A z \in DOMAIN txs : Sent(z, q) => z = u
          BY <5>1, <5>2 DEF DirectInv, SentOnce
        <5>4. Backs(q, u)'
          BY <1>1, <5>3 DEF Backs
        <5> QED BY <5>1, <5>2, <5>3, <5>4
      <4> QED BY <4>1, <4>2
    <3> QED BY <2>4, <3>1 DEF SentOnce
  <2>12. \A j \in Ids : paid[j] # NoTx => paid[j][1] \in DOMAIN txs
    BY DEF DirectInv, RowsSay, PaidBy
  <2>13. RowsSay'
    <3>1. ASSUME NEW j \in Ids
          PROVE  /\ rows[j].state \in Pending => paid[j] = NoTx
                 /\ rows[j].state \in {"submitted", "forwarded"} => paid[j] # NoTx
                 /\ rows[j].state = "forwarded" => txs'[paid[j][1]].state = "mined"
                 /\ paid[j] # NoTx => PaidBy(j)'
      BY <1>1, <2>2, <2>12 DEF DirectInv, RowsSay, PaidBy
    <3> QED BY <1>1, <3>1 DEF RowsSay, Ids
  <2>14. \A j \in Ids : paid[j][1] # n
    BY <2>2, <2>12 DEF NoTx
  <2>15. TaskFits(t)'
    <3>1. t.row \in Ids' /\ t.rest \subseteq Ids' /\ router' /\ rows'[t.row].state = "broadcasting"
      BY <1>1, <1>4, <2>3, <2>4
    <3>2. \A u : Sent(u, t.row)' => u = n
      BY <1>4, <2>3, <2>7 DEF Sent
    <3>3. /\ n \in DOMAIN txs' /\ txs'[n].path = "router" /\ txs'[n].legs[1].for = t.row
          /\ \A j \in Ids' : paid'[j][1] # n
      BY <1>1, <2>1, <2>2, <2>3, <2>4, <2>14
    <3> QED BY <2>3, <3>1, <3>2, <3>3 DEF TaskFits, Claiming
  <2>16. \A v \in Workers \ {w} : tasks[v].pc \in Claiming => tasks[v].row # i
    BY <1>1, <1>2 DEF DirectInv, Exclusive, Claiming
  <2>17. TasksHold'
    <3>1. \A v \in Workers \ {w} : tasks[v].pc \in Claiming =>
            /\ rows'[tasks[v].row].state = "broadcasting"
            /\ tasks[v].pc = "submit" => \A j \in Ids' : paid'[j][1] # tasks[v].tx
      BY <1>1 DEF DirectInv, TasksHold, TaskFits, Ids
    <3>2. \A v \in Workers \ {w} : tasks[v].pc \in Claiming =>
            /\ rows'[tasks[v].row].state = "broadcasting"
            /\ \A q : q = tasks[v].row => \A u : Sent(u, q)' => Sent(u, q)
            /\ tasks[v].pc = "submit" => \A j \in Ids' : paid'[j][1] # tasks[v].tx
      BY <2>7, <2>16, <3>1
    <3> QED BY <1>1, <2>3, <2>6, <2>15, <3>2, OthersStay
  <2>18. Exclusive'
    <3>1. \A v \in Workers : tasks'[v] = IF v = w THEN t ELSE tasks[v]
      BY <2>3 DEF DirectInv, TypeOK
    <3> QED BY <1>1, <1>2, <2>3, <3>1 DEF DirectInv, Exclusive, Claiming
  <2>19. LedgerHolds'
    BY <1>1, <2>2 DEF DirectInv, LedgerHolds
  <2>20. ScansHold' /\ ScannedIsExplained'
    BY <1>1, <2>5, <2>6, WatchStays DEF TypeOK
  <2> QED BY <2>5, <2>8, <2>9, <2>10, <2>11, <2>13, <2>17, <2>18, <2>19, <2>20 DEF DirectInv
<1> QED BY <1>1, <1>2, <1>5, <1>6 DEF Broadcast

\* While a worker is at its claimed row, no other worker is at it.
LEMMA OwnRow ==
  ASSUME DirectInv, NEW w \in Workers, NEW v \in Workers \ {w},
         tasks[w].pc \in Claiming, tasks[v].pc \in Claiming
  PROVE  /\ tasks[v].row \in Ids /\ tasks[v].row # tasks[w].row
         /\ rows[tasks[v].row].state = "broadcasting"
<1>1. tasks[v].row \in Ids /\ rows[tasks[v].row].state = "broadcasting"
  BY DEF DirectInv, TasksHold, TaskFits, Claiming
<1>2. tasks[v].row # tasks[w].row
  BY DEF DirectInv, Exclusive
<1> QED BY <1>1, <1>2

\* The outcome of the broadcast goes to the row, and the hash with it.
LEMMA RecordStep ==
  ASSUME DirectInv, NEW w \in Workers, RecordBroadcast(w)
  PROVE  DirectInv'
<1>1. /\ tasks[w] \in Task /\ TaskFits(tasks[w]) /\ tasks[w].pc \in {"submit", "fail"}
      /\ tasks[w].pc \in Claiming /\ NextDebt(w) /\ rows \in Seq(Row)
      /\ UNCHANGED <<txs, ledger, cursor, reported, scans, router, asked, crashes>>
  BY DEF DirectInv, TypeOK, RowsTypeOK, TasksHold, RecordBroadcast, chainVars, watchVars, Claiming
<1>2. PICK i \in Ids : i = tasks[w].row
  BY <1>1 DEF TaskFits, Claiming
<1>4. PICK n \in Nat : n = tasks[w].tx
  BY <1>1 DEF Task
<1>5. /\ rows[i].state = "broadcasting" /\ paid[i] = NoTx
      /\ tasks[w].pc = "submit" => \A u \in DOMAIN txs : Sent(u, i) => u = n
  BY <1>1, <1>2, <1>4 DEF TaskFits, DirectInv, RowsSay, Pending
<1>6. PICK t \in Task : /\ tasks' = [tasks EXCEPT ![w] = t]
                        /\ t.pc \in {"idle", "simulate"} /\ TaskFits(t)
  BY <1>1, NextDebtFacts DEF Claiming
<1>7. /\ rows' \in Seq(Row) /\ Len(rows') = Len(rows) /\ Ids' = Ids
      /\ \A j \in Ids : rows'[j].order = rows[j].order /\ (j # i => rows'[j] = rows[j])
      /\ rows'[i].state = IF tasks[w].pc = "submit" THEN "submitted" ELSE "failed"
      /\ OneLiveForward'
  <2>1. CASE tasks[w].pc = "submit"
    <3>1. /\ TransitionForward(i, "broadcast_ok", TRUE) /\ "broadcast_ok" \in DOMAIN From
          /\ From["broadcast_ok"] = "broadcasting" /\ To["broadcast_ok"] = "submitted"
      BY <1>2, <2>1 DEF RecordBroadcast, From, To
    <3> QED BY <1>1, <1>5, <2>1, <3>1, TransitionFacts, LatchTransition DEF Ids, DirectInv
  <2>2. CASE tasks[w].pc = "fail"
    <3>1. /\ TransitionForward(i, "broadcast_failed", FALSE) /\ "broadcast_failed" \in DOMAIN From
          /\ From["broadcast_failed"] = "broadcasting" /\ To["broadcast_failed"] = "failed"
      BY <1>2, <2>2 DEF RecordBroadcast, From, To
    <3> QED BY <1>1, <1>5, <2>2, <3>1, TransitionFacts, LatchTransition DEF Ids, DirectInv
  <2> QED BY <1>1, <2>1, <2>2
<1>8. /\ paid' \in Seq(Nat \X Nat) /\ Len(paid') = Len(paid)
      /\ \A j \in Ids : j # i => paid'[j] = paid[j]
      /\ paid'[i] = IF tasks[w].pc = "submit" THEN <<n, 0>> ELSE NoTx
  <2>1. CASE tasks[w].pc = "submit"
    <3>1. paid' = [paid EXCEPT ![i] = <<n, 0>>] /\ <<n, 0>> \in Nat \X Nat
      BY <1>2, <1>4, <1>5, <2>1 DEF RecordBroadcast
    <3>2. paid \in Seq(Nat \X Nat) /\ DOMAIN paid = Ids
      BY TypeFacts DEF DirectInv, TypeOK
    <3> QED BY <2>1, <3>1, <3>2, ExceptSeq
  <2>2. CASE tasks[w].pc = "fail"
    BY <1>1, <1>5, <2>2 DEF RecordBroadcast, DirectInv, TypeOK
  <2> QED BY <1>1, <2>1, <2>2
<1>9. tasks[w].pc = "submit" => /\ n \in DOMAIN txs /\ txs[n].path = "router"
                                /\ txs[n].legs[1].for = i
                                /\ n # 0
  BY <1>1, <1>2, <1>4, TypeFacts DEF TaskFits, DirectInv
<1>10. TypeOK'
  <2>1. tasks' \in [Workers -> Task]
    BY <1>6 DEF DirectInv, TypeOK
  <2> QED BY <1>1, <1>7, <1>8, <2>1 DEF DirectInv, TypeOK, RowsTypeOK
<1>11. Onward
  BY <1>1, <1>5, <1>7, <1>8, TypeFacts DEF Onward, DirectInv
<1>12. OneWay' /\ HandedOnce' /\ LedgerHolds' /\ \A u, q : Sent(u, q)' <=> Sent(u, q)
  BY <1>1, <1>7, ChainStays
<1>13. SentOnce'
  <2>1. tasks[w].pc = "submit" =>
          rows'[i].state = "submitted" /\ \A u : Sent(u, i) => paid'[i] = <<u, 0>>
    BY <1>5, <1>7, <1>8 DEF Sent
  <2>2. tasks[w].pc # "submit" => rows'[i].state = "failed"
    BY <1>7
  <2>3. \A j \in Ids : j # i => rows'[j] = rows[j] /\ paid'[j] = paid[j]
    BY <1>7, <1>8
  <2> QED BY <1>12, <2>1, <2>2, <2>3, SentMoves
<1>14. RowsSay'
  <2>1. ASSUME NEW j \in Ids
        PROVE  /\ rows'[j].state \in Pending => paid'[j] = NoTx
               /\ rows'[j].state \in {"submitted", "forwarded"} => paid'[j] # NoTx
               /\ rows'[j].state = "forwarded" => txs'[paid'[j][1]].state = "mined"
               /\ paid'[j] # NoTx => PaidBy(j)'
    <3>1. CASE j = i
      <4>1. CASE tasks[w].pc = "submit"
        <5>1. paid'[i][1] = n /\ paid'[i][2] = 0 /\ paid'[i] # NoTx
          BY <1>8, <1>9, <4>1 DEF NoTx
        <5>2. PaidBy(i)'
          BY <1>1, <1>9, <4>1, <5>1 DEF PaidBy
        <5> QED BY <1>7, <3>1, <4>1, <5>1, <5>2 DEF Pending
      <4>2. CASE tasks[w].pc # "submit"
        BY <1>7, <1>8, <3>1, <4>2 DEF Pending
      <4> QED BY <4>1, <4>2
    <3>2. CASE j # i
      BY <1>1, <1>7, <1>8, <3>2, RowSaysStill
    <3> QED BY <3>1, <3>2
  <2> QED BY <1>7, <2>1 DEF RowsSay
<1>15. TasksHold'
  <2>1. TaskFits(t)'
    BY <1>1, <1>6, <1>11, TaskStays DEF Claiming
  <2>2. ASSUME NEW v \in Workers \ {w}, tasks[v].pc \in Claiming
        PROVE  /\ rows'[tasks[v].row].state = "broadcasting"
               /\ \A q : q = tasks[v].row => \A u : Sent(u, q)' => Sent(u, q)
               /\ tasks[v].pc = "submit" => \A j \in Ids' : paid'[j][1] # tasks[v].tx
    <3>1. /\ tasks[v].row \in Ids /\ tasks[v].row # i /\ rows[tasks[v].row].state = "broadcasting"
      BY <1>1, <1>2, <2>2, OwnRow
    <3>2. tasks[v].pc = "submit" =>
            /\ tasks[v].tx \in DOMAIN txs /\ txs[tasks[v].tx].legs[1].for # i
            /\ \A j \in Ids : paid[j][1] # tasks[v].tx
      BY <3>1 DEF DirectInv, TasksHold, TaskFits
    <3>3. tasks[v].pc = "submit" => \A j \in Ids : paid'[j][1] # tasks[v].tx
      <4> SUFFICES ASSUME tasks[v].pc = "submit", NEW j \in Ids PROVE paid'[j][1] # tasks[v].tx
        OBVIOUS
      <4>1. CASE j # i
        BY <1>8, <3>2, <4>1
      <4>2. CASE j = i /\ tasks[w].pc = "submit"
        BY <1>8, <1>9, <3>2, <4>2
      <4>3. CASE j = i /\ tasks[w].pc # "submit"
        BY <1>5, <1>8, <3>2, <4>3
      <4> QED BY <4>1, <4>2, <4>3
    <3> QED BY <1>7, <1>12, <3>1, <3>3
  <2> QED BY <1>1, <1>6, <1>11, <2>1, <2>2, OthersStay
<1>16. Exclusive'
  <2>1. \A v \in Workers : tasks'[v] = IF v = w THEN t ELSE tasks[v]
    BY <1>6 DEF DirectInv, TypeOK
  <2> QED BY <1>6, <2>1 DEF DirectInv, Exclusive, Claiming
<1>17. ScansHold' /\ ScannedIsExplained'
  BY <1>1, <1>10, <1>11, WatchStays DEF TypeOK
<1> QED BY <1>7, <1>10, <1>12, <1>13, <1>14, <1>15, <1>16, <1>17 DEF DirectInv

\* Steps of no worker leave the workers what they rely on, if they touch no
\* claimed row and pay nothing with a transaction of the router.
LEMMA TasksStay ==
  ASSUME DirectInv, Onward, UNCHANGED <<txs, router, tasks>>,
         \A i \in Ids : rows[i].state = "broadcasting" => rows'[i].state = "broadcasting",
         \A i \in Ids' : /\ paid'[i][1] \in DOMAIN txs /\ txs[paid'[i][1]].path = "router"
                         => i \in Ids /\ paid'[i] = paid[i]
  PROVE  TasksHold' /\ Exclusive'
<1>1. ASSUME NEW v \in Workers PROVE TaskFits(tasks[v])'
  <2>1. PICK t \in Task : t = tasks[v] /\ t = tasks'[v] /\ TaskFits(t)
    BY DEF DirectInv, TypeOK, TasksHold
  <2>2. t.pc \in Claiming => rows'[t.row].state = "broadcasting"
    BY <2>1 DEF TaskFits, Claiming
  <2>3. t.pc = "submit" => \A i \in Ids' : paid'[i][1] # t.tx
    BY <2>1 DEF TaskFits
  <2>4. \A u : Sent(u, t.row)' => Sent(u, t.row)
    BY DEF Sent
  <2>5. TaskFits(t)'
    BY <2>1, <2>2, <2>3, <2>4, TaskStays
  <2> QED BY <2>1, <2>5
<1> QED BY <1>1 DEF TasksHold, DirectInv, Exclusive

\* A receipt settles a row that waits for it.
LEMMA SettleStep ==
  ASSUME DirectInv, NEW i \in Ids, Settle(i)
  PROVE  DirectInv'
<1>1. /\ rows \in Seq(Row) /\ rows[i].state = "submitted" /\ txs[paid[i][1]].state # "pool"
      /\ UNCHANGED <<paid, txs, ledger, cursor, reported, scans, router, asked, tasks, crashes>>
  BY DEF DirectInv, TypeOK, RowsTypeOK, Settle, chainVars, watchVars
<1>2. /\ paid[i] # NoTx /\ PaidBy(i) /\ paid[i][1] \in DOMAIN txs
      /\ txs[paid[i][1]].state \in {"mined", "failed"}
  BY <1>1, TypeFacts DEF DirectInv, RowsSay, PaidBy, Tx
<1>3. PICK e \in DOMAIN From : /\ TransitionForward(i, e, TRUE) /\ From[e] = "submitted"
                               /\ To[e] = IF txs[paid[i][1]].state = "mined" THEN "forwarded" ELSE "failed"
  BY <1>1, <1>2 DEF Settle, From, To
<1>4. /\ rows' \in Seq(Row) /\ Len(rows') = Len(rows) /\ Ids' = Ids
      /\ \A j \in Ids : rows'[j].order = rows[j].order /\ (j # i => rows'[j] = rows[j])
      /\ rows'[i].state = IF txs[paid[i][1]].state = "mined" THEN "forwarded" ELSE "failed"
      /\ OneLiveForward'
  <2>1. OneLiveForward'
    BY <1>1, <1>3, LatchTransition DEF DirectInv
  <2>2. DOMAIN rows' = Ids /\ rows' \in Seq(Row) /\ Len(rows') = Len(rows)
    BY <1>1, <1>3, TransitionFacts
  <2>3. /\ \A j \in Ids : j # i => rows'[j] = rows[j]
        /\ rows'[i].order = rows[i].order /\ rows'[i].state = To[e]
    <3>1. rows[i].state = From[e]
      BY <1>1, <1>3
    <3> QED BY <1>1, <1>3, <3>1, TransitionFacts
  <2> QED BY <1>3, <2>1, <2>2, <2>3 DEF Ids
<1>5. TypeOK'
  BY <1>1, <1>4 DEF DirectInv, TypeOK, RowsTypeOK
<1>6. Onward
  BY <1>1, <1>4, TypeFacts DEF Onward, DirectInv
<1>7. OneWay' /\ HandedOnce' /\ LedgerHolds' /\ \A u, q : Sent(u, q)' <=> Sent(u, q)
  BY <1>1, <1>4, ChainStays
<1>8. SentOnce'
  <2>1. \A j \in Ids : j # i => rows'[j] = rows[j] /\ paid'[j] = paid[j]
    BY <1>1, <1>4
  <2>2. \/ rows'[i].state = "failed"
        \/ rows[i].state = "submitted" /\ rows'[i].state = "forwarded" /\ paid'[i] = paid[i]
    BY <1>1, <1>4
  <2> QED BY <1>7, <2>1, <2>2, SentMoves
<1>9. RowsSay'
  <2>1. ASSUME NEW j \in Ids
        PROVE  /\ rows'[j].state \in Pending => paid[j] = NoTx
               /\ rows'[j].state \in {"submitted", "forwarded"} => paid[j] # NoTx
               /\ rows'[j].state = "forwarded" => txs[paid[j][1]].state = "mined"
               /\ paid[j] # NoTx => PaidBy(j)
    BY <1>1, <1>2, <1>4 DEF DirectInv, RowsSay, Pending
  <2>2. \A j \in Ids : PaidBy(j) => PaidBy(j)'
    BY <1>1, <1>4 DEF PaidBy
  <2> QED BY <1>1, <1>4, <2>1, <2>2 DEF RowsSay
<1>10. TasksHold' /\ Exclusive'
  <2>1. \A j \in Ids : rows[j].state = "broadcasting" => rows'[j].state = "broadcasting"
    BY <1>1, <1>4
  <2> QED BY <1>1, <1>4, <1>6, <2>1, TasksStay
<1>11. ScansHold' /\ ScannedIsExplained'
  BY <1>1, <1>5, <1>6, WatchStays DEF TypeOK
<1> QED BY <1>4, <1>5, <1>7, <1>8, <1>9, <1>10, <1>11 DEF DirectInv

\* A delivery books its order, and a debt is given to its worker.
LEMMA HandleStep ==
  ASSUME DirectInv, NEW w \in Workers, NEW o \in Orders, HandleForward(w, o)
  PROVE  DirectInv'
<1> DEFINE D == Decision[o]
<1>1. /\ D \in {"owed", "settled_noop", "contribution"} /\ tasks[w] = NoTask
      /\ rows \in Seq(Row) /\ Len(rows) \in Nat /\ paid' = Append(paid, NoTx)
      /\ paid \in Seq(Nat \X Nat) /\ Len(paid) = Len(rows)
      /\ UNCHANGED <<txs, ledger, cursor, reported, scans, router, asked, crashes>>
  BY DirectAssumption DEF HandleForward, DirectInv, TypeOK, RowsTypeOK, chainVars, watchVars
<1>2. PICK r : /\ r = [order |-> o, state |-> D, hashed |-> FALSE,
                       sid |-> IF D = "contribution" THEN NoSid ELSE IntentOf[o],
                       via |-> IF D = "owed" THEN "auto" ELSE "memo"]
               /\ Inserts(r) /\ InsertForward(r)
  BY DEF HandleForward
<1>3. r \in Row /\ r.order = o /\ r.state = D
  <2>1. (IF D = "contribution" THEN NoSid ELSE IntentOf[o]) \in Sids \cup {NoSid}
    BY DirectAssumption
  <2>2. (IF D = "owed" THEN "auto" ELSE "memo") \in Vias /\ D \in States
    BY <1>1 DEF Vias, States, Live, Pending, Confirmed
  <2> HIDE DEF D
  <2> QED BY <1>2, <2>1, <2>2 DEF Row
<1>4. PICK n : n = Len(rows) + 1
  OBVIOUS
<1>5. /\ rows' \in Seq(Row) /\ Len(rows') = n /\ Ids' = Ids \cup {n} /\ n \notin Ids
      /\ \A i \in Ids : rows'[i] = rows[i]
      /\ rows'[n] = r /\ n \in Nat
  <2>1. InsertForward(r) /\ r \in Row
    BY <1>2, <1>3
  <2>2. /\ rows' \in Seq(Row) /\ Len(rows') = Len(rows) + 1
        /\ DOMAIN rows' = Ids \cup {Len(rows) + 1}
        /\ \A i \in Ids : rows'[i] = rows[i]
        /\ rows'[Len(rows) + 1] = r
    BY <1>1, <2>1, InsertFacts
  <2>3. n \notin Ids /\ n \in Nat
    BY <1>1, <1>4 DEF Ids
  <2>4. Ids' = DOMAIN rows'
    BY DEF Ids
  <2> QED BY <1>4, <2>2, <2>3, <2>4
<1>6. OneLiveForward'
  BY <1>1, <1>2, <1>3, LatchInsert DEF Inserts, DirectInv
<1>7. /\ paid' \in Seq(Nat \X Nat) /\ Len(paid') = n
      /\ \A i \in Ids : paid'[i] = paid[i]
      /\ paid'[n] = NoTx
  BY <1>1, <1>4 DEF NoTx, Ids
<1>8. PICK t \in Task : /\ tasks' = [tasks EXCEPT ![w] = t]
                        /\ \/ t = NoTask
                           \/ /\ t.pc \in {"simulate", "ask"} /\ t.row = n /\ t.rest = {}
                              /\ t.pc = "simulate" <=> router
  <2>1. CASE D = "owed"
    <3> DEFINE t == [NoTask EXCEPT !.pc = IF router THEN "simulate" ELSE "ask", !.row = n]
    <3>1. tasks' = [tasks EXCEPT ![w] = t]
      BY <1>1, <1>4, <2>1 DEF HandleForward, DirectInv, TypeOK, NoTask
    <3>2. t \in Task /\ t.pc \in {"simulate", "ask"} /\ t.row = n /\ t.rest = {}
          /\ (t.pc = "simulate" <=> router)
      BY <1>5 DEF NoTask, Task, DirectInv, TypeOK
    <3> QED BY <3>1, <3>2
  <2>2. CASE D # "owed"
    <3>1. tasks' = [tasks EXCEPT ![w] = NoTask]
      BY <1>1, <2>2 DEF HandleForward, DirectInv, TypeOK
    <3> QED BY <3>1, NoTaskFits
  <2> QED BY <2>1, <2>2
<1> HIDE DEF D
<1>9. TypeOK'
  <2>1. tasks' \in [Workers -> Task]
    BY <1>8 DEF DirectInv, TypeOK
  <2> QED BY <1>1, <1>5, <1>7, <2>1 DEF DirectInv, TypeOK, RowsTypeOK
<1>10. Onward
  BY <1>1, <1>5, <1>7, TypeFacts DEF Onward, DirectInv
<1>11. OneWay' /\ HandedOnce' /\ LedgerHolds' /\ \A u, q : Sent(u, q)' <=> Sent(u, q)
  BY <1>1, <1>5, ChainStays
<1>12. SentOnce'
  BY <1>5, <1>7, <1>11, SentMoves
<1>13. RowsSay'
  <2>1. ASSUME NEW i \in Ids'
        PROVE  /\ rows'[i].state \in Pending => paid'[i] = NoTx
               /\ rows'[i].state \in {"submitted", "forwarded"} => paid'[i] # NoTx
               /\ rows'[i].state = "forwarded" => txs'[paid'[i][1]].state = "mined"
               /\ paid'[i] # NoTx => PaidBy(i)'
    <3>1. CASE i = n
      <4>1. rows'[i].state \notin {"submitted", "forwarded"} /\ paid'[i] = NoTx
        BY <1>1, <1>3, <1>5, <1>7, <3>1
      <4> QED BY <4>1
    <3>2. CASE i \in Ids
      BY <1>1, <1>5, <1>7, <3>2, RowSaysStill
    <3> QED BY <1>5, <3>1, <3>2
  <2> QED BY <2>1 DEF RowsSay
<1>14. TasksHold'
  <2>1. TaskFits(t)'
    BY <1>1, <1>5, <1>8 DEF TaskFits, NoTask, Claiming
  <2>2. \A v \in Workers \ {w} : tasks[v].pc \in Claiming =>
          /\ rows'[tasks[v].row].state = "broadcasting"
          /\ \A q : q = tasks[v].row => \A u : Sent(u, q)' => Sent(u, q)
          /\ tasks[v].pc = "submit" => \A j \in Ids' : paid'[j][1] # tasks[v].tx
    <3> SUFFICES ASSUME NEW v \in Workers \ {w}, tasks[v].pc \in Claiming
                 PROVE  /\ rows'[tasks[v].row].state = "broadcasting"
                        /\ tasks[v].pc = "submit" => \A j \in Ids' : paid'[j][1] # tasks[v].tx
      BY <1>11
    <3>1. /\ tasks[v].row \in Ids /\ rows[tasks[v].row].state = "broadcasting"
          /\ tasks[v].pc = "submit" =>
               tasks[v].tx \in DOMAIN txs /\ \A j \in Ids : paid[j][1] # tasks[v].tx
      BY DEF DirectInv, TasksHold, TaskFits, Claiming
    <3>2. tasks[v].pc = "submit" => tasks[v].tx # 0
      BY <3>1, TypeFacts DEF DirectInv
    <3>3. tasks[v].pc = "submit" => \A j \in Ids' : paid'[j][1] # tasks[v].tx
      BY <1>5, <1>7, <3>1, <3>2 DEF NoTx
    <3> QED BY <1>5, <3>1, <3>3
  <2> QED BY <1>1, <1>8, <1>10, <2>1, <2>2, OthersStay
<1>15. Exclusive'
  <2>1. \A v \in Workers : tasks'[v] = IF v = w THEN t ELSE tasks[v]
    BY <1>8 DEF DirectInv, TypeOK
  <2> QED BY <1>8, <2>1 DEF DirectInv, Exclusive, Claiming, NoTask
<1>16. ScansHold' /\ ScannedIsExplained'
  BY <1>1, <1>9, <1>10, WatchStays DEF TypeOK
<1> QED BY <1>6, <1>9, <1>11, <1>12, <1>13, <1>14, <1>15, <1>16 DEF DirectInv

-----------------------------------------------------------------------------
(* The watcher *)

\* A tick that thinks, reports, or moves the cursor.
LEMMA TickStep ==
  ASSUME DirectInv, NEW v \in Watchers, NEW s \in ScanAim, ScanFits(s)',
         scans' = [scans EXCEPT ![v] = s],
         UNCHANGED <<rows, paid, txs, ledger, router, asked, tasks>>,
         reported \subseteq reported', reported' \subseteq Nat \X Nat \X Verdicts,
         cursor' \in 0..Len(ledger), crashes' \in 0..MaxCrashes, ScannedIsExplained'
  PROVE  DirectInv'
<1>1. ledger' \in Seq(Nat) /\ Onward
  BY TypeFacts DEF Onward, Ids, DirectInv, TypeOK
<1>2. ScansHold' /\ scans' \in [Watchers -> ScanAim]
  BY <1>1, ScansMove
<1>3. TypeOK'
  BY <1>2 DEF DirectInv, TypeOK, RowsTypeOK, Ids
<1>4. OneLiveForward' /\ HandedOnce' /\ SentOnce' /\ RowsSay' /\ LedgerHolds'
  BY TablesStay
<1>5. OneWay'
  BY DEF DirectInv, OneWay, Ids
<1>6. TasksHold' /\ Exclusive'
  BY <1>1, TasksStay DEF Ids
<1> QED BY <1>2, <1>3, <1>4, <1>5, <1>6 DEF DirectInv

\* Where a tick is, in the ledger.
LEMMA ScanFacts ==
  ASSUME DirectInv, NEW v \in Watchers, scans[v].pc # "idle"
  PROVE  /\ scans[v] \in ScanAim /\ ScanFits(scans[v])
         /\ scans[v].pos \in DOMAIN ledger /\ ledger[scans[v].pos] \in DOMAIN txs
         /\ scans[v].pos \in Nat /\ scans[v].leg \in Nat /\ scans[v].to \in 1..Len(ledger)
<1>1. scans[v] \in ScanAim /\ ScanFits(scans[v])
  BY DEF DirectInv, TypeOK, ScansHold
<1>2. scans[v].pos \in 1..scans[v].to /\ scans[v].to <= Len(ledger) /\ scans[v].to \in Nat
  BY <1>1 DEF ScanFits, ScanAim
<1>3. scans[v].pos \in DOMAIN ledger /\ scans[v].to \in 1..Len(ledger)
  BY <1>2, TypeFacts DEF DirectInv
<1> QED BY <1>1, <1>3 DEF ScanAim, DirectInv, LedgerHolds

\* A tick that goes on from a leg it has explained.
LEMMA NextLegFacts ==
  ASSUME DirectInv, Onward, UNCHANGED <<txs, ledger>>, NEW v \in Watchers,
         scans[v].pc # "idle", NEW p, p = scans[v].pos, NEW l, l = scans[v].leg,
         Explained(p, l)', NextLeg(v)
  PROVE  \E s \in ScanAim : ScanFits(s)' /\ scans' = [scans EXCEPT ![v] = s]
<1>1. PICK x \in ScanAim : x = scans[v] /\ ScanFits(x) /\ x.pc # "idle" /\ x.pos = p /\ x.leg = l
  BY ScanFacts
<1>2. ledger' \in Seq(Nat) /\ ledger \in Seq(Nat) /\ txs \in Seq(Tx)
  BY DEF DirectInv, TypeOK
<1>3. ScanFits(x)'
  BY <1>1, <1>2, ScanStays
<1>4. /\ p \in DOMAIN ledger /\ ledger[p] \in DOMAIN txs /\ p \in Nat \ {0} /\ l \in Nat
      /\ x.to \in Nat /\ x.to <= Len(ledger) /\ p <= x.to
      /\ txs[ledger[p]].legs \in Seq(Leg) /\ l \in DOMAIN txs[ledger[p]].legs
      /\ \A q \in 1..(p - 1) : \A k \in DOMAIN txs'[ledger'[q]].legs : Explained(q, k)'
      /\ \A k \in 1..(l - 1) : Explained(p, k)'
  <2>1. p \in DOMAIN ledger /\ ledger[p] \in DOMAIN txs
    BY <1>1, ScanFacts
  <2>2. txs[ledger[p]].legs \in Seq(Leg)
    BY <2>1, TypeFacts DEF DirectInv, Tx
  <2>3. p \in 1..x.to /\ x.to <= Len(ledger) /\ x.to \in Nat /\ l \in Nat /\ l \in DOMAIN txs[ledger[p]].legs
    BY <1>1 DEF ScanFits, ScanAim
  <2>4. /\ \A q \in 1..(p - 1) : \A k \in DOMAIN txs'[ledger'[q]].legs : Explained(q, k)'
        /\ \A k \in 1..(l - 1) : Explained(p, k)'
    BY <1>1, <1>3 DEF ScanFits
  <2> QED BY <2>1, <2>2, <2>3, <2>4
<1>5. \A k \in 1..l : Explained(p, k)'
  <2>1. \A k \in 1..l : k = l \/ k \in 1..(l - 1)
    BY <1>4
  <2> QED BY <1>4, <2>1
<1>6. \A q \in DOMAIN ledger : FirstCheck(q) \in {"used", "known"}
                              /\ (FirstCheck(q) = "used" => txs[ledger[q]].path = "owners")
  BY DEF FirstCheck
<1>7. CASE l < Len(txs[ledger[p]].legs)
  <2>1. PICK s \in ScanAim : s = [x EXCEPT !.leg = l + 1, !.row = 0, !.pc = FirstCheck(p)]
    <3>1. FirstCheck(p) \in {"used", "known"} /\ l + 1 \in Nat
      BY <1>4, <1>6
    <3> DEFINE s == [x EXCEPT !.leg = l + 1, !.row = 0, !.pc = FirstCheck(p)]
    <3>2. s \in ScanAim
      BY <3>1 DEF ScanAim
    <3> QED BY <3>2
  <2>2. /\ s.pos = p /\ s.to = x.to /\ s.leg = l + 1 /\ s.pc = FirstCheck(p)
        /\ scans' = [scans EXCEPT ![v] = s]
    BY <1>1, <1>7, <2>1 DEF NextLeg, ScanAt, ScanAim
  <2>3. l + 1 \in DOMAIN txs[ledger[p]].legs /\ (l + 1) - 1 = l
    BY <1>4, <1>7
  <2>4. ScanFits(s)'
    BY <1>4, <1>5, <1>6, <2>2, <2>3 DEF ScanFits
  <2> QED BY <2>2, <2>4
<1>8. CASE ~ (l < Len(txs[ledger[p]].legs))
  <2>0. \A k \in DOMAIN txs[ledger[p]].legs : Explained(p, k)'
    <3>1. DOMAIN txs[ledger[p]].legs = 1..l
      BY <1>4, <1>8
    <3> QED BY <1>5, <3>1
  <2>1. CASE p < x.to
    <3>1. p + 1 \in DOMAIN ledger /\ p + 1 \in 1..x.to /\ (p + 1) - 1 = p
      <4>1. DOMAIN ledger = 1..Len(ledger) /\ Len(ledger) \in Nat
        BY TypeFacts DEF DirectInv
      <4>2. p \in Nat \ {0} /\ x.to \in Nat /\ x.to <= Len(ledger)
        BY <1>4
      <4> QED BY <2>1, <4>1, <4>2
    <3>2. PICK s \in ScanAim : s = [x EXCEPT !.pos = p + 1, !.leg = 1, !.row = 0, !.pc = FirstCheck(p + 1)]
      <4>1. FirstCheck(p + 1) \in {"used", "known"} /\ p + 1 \in Nat
        BY <1>4, <1>6, <3>1
      <4> DEFINE s == [x EXCEPT !.pos = p + 1, !.leg = 1, !.row = 0, !.pc = FirstCheck(p + 1)]
      <4>2. s \in ScanAim
        BY <4>1 DEF ScanAim
      <4> QED BY <4>2
    <3>3. /\ s.pos = p + 1 /\ s.to = x.to /\ s.leg = 1 /\ s.pc = FirstCheck(p + 1)
          /\ scans' = [scans EXCEPT ![v] = s]
      BY <1>1, <1>8, <2>1, <3>2 DEF NextLeg, ScanAt, ScanAim
    <3>4. 1 \in DOMAIN txs[ledger[p + 1]].legs
      <4>1. ledger[p + 1] \in DOMAIN txs
        BY <3>1 DEF DirectInv, LedgerHolds
      <4>2. txs[ledger[p + 1]].legs \in Seq(Leg) /\ txs[ledger[p + 1]].legs # << >>
        BY <4>1, TypeFacts DEF DirectInv, Tx, OneWay
      <4> QED BY <4>2
    <3>5. \A q \in 1..p : \A k \in DOMAIN txs'[ledger'[q]].legs : Explained(q, k)'
      <4>1. \A q \in 1..p : q = p \/ q \in 1..(p - 1)
        BY <1>4
      <4> QED BY <1>4, <2>0, <4>1
    <3>6. ScanFits(s)'
      BY <1>4, <1>6, <3>1, <3>3, <3>4, <3>5 DEF ScanFits
    <3> QED BY <3>3, <3>6
  <2>2. CASE ~ (p < x.to)
    <3>1. PICK s \in ScanAim : s = [x EXCEPT !.row = 0, !.pc = "cursor"]
      BY DEF ScanAim
    <3>2. /\ s.pos = p /\ s.to = x.to /\ s.leg = l /\ s.pc = "cursor"
          /\ scans' = [scans EXCEPT ![v] = s]
      BY <1>1, <1>8, <2>2, <3>1 DEF NextLeg, ScanAt, ScanAim
    <3>3. p = x.to
      BY <1>4, <2>2
    <3>4. ScanFits(s)'
      BY <1>4, <2>0, <3>2, <3>3 DEF ScanFits
    <3> QED BY <3>2, <3>4
  <2> QED BY <2>1, <2>2
<1> QED BY <1>7, <1>8

\* A tick that only thinks, or dies.
LEMMA CalmTick ==
  ASSUME DirectInv, NEW v \in Watchers, NEW s \in ScanAim, ScanFits(s),
         scans' = [scans EXCEPT ![v] = s],
         UNCHANGED <<rows, paid, txs, ledger, router, asked, cursor, reported, tasks>>,
         crashes' \in 0..MaxCrashes
  PROVE  DirectInv'
<1>1. ledger' \in Seq(Nat) /\ Onward
  BY TypeFacts DEF Onward, Ids, DirectInv, TypeOK
<1>2. ScanFits(s)' /\ ScannedIsExplained'
  BY <1>1, ScanStays, CursorStays
<1>3. reported' \subseteq Nat \X Nat \X Verdicts /\ cursor' \in 0..Len(ledger)
  BY DEF DirectInv, TypeOK
<1> QED BY <1>2, <1>3, TickStep

\* A tick that does not run relies on nothing.
LEMMA NoScanFits == NoScan \in ScanAim /\ ScanFits(NoScan)
BY DEF NoScan, ScanAim, ScanFits

\* A tick begins after the cursor; what was ordered before it is explained.
LEMMA ScanStep ==
  ASSUME DirectInv, NEW v \in Watchers, NEW to, Scan(v, to)
  PROVE  DirectInv'
<1>1. /\ cursor \in Nat /\ to \in Nat /\ to <= Len(ledger) /\ cursor + 1 \in 1..to
      /\ cursor + 1 \in DOMAIN ledger /\ (cursor + 1) - 1 = cursor /\ Len(ledger) \in Nat
      /\ UNCHANGED <<rows, paid, txs, ledger, router, asked, cursor, reported, tasks, crashes>>
      /\ crashes \in 0..MaxCrashes
  <2>1. cursor \in Nat /\ Len(ledger) \in Nat /\ DOMAIN ledger = 1..Len(ledger)
    BY TypeFacts DEF DirectInv, TypeOK
  <2>2. to \in (cursor + 1)..Len(ledger)
    BY DEF Scan
  <2>3. /\ UNCHANGED <<rows, paid, txs, ledger, router, asked, cursor, reported, tasks, crashes>>
        /\ crashes \in 0..MaxCrashes
    BY DEF Scan, DirectInv, TypeOK, chainVars
  <2> QED BY <2>1, <2>2, <2>3
<1>2. PICK f \in {"used", "known"} : /\ f = FirstCheck(cursor + 1)
                                     /\ f = "used" => txs[ledger[cursor + 1]].path = "owners"
  BY DEF FirstCheck
<1> DEFINE y == [NoScan EXCEPT !.pos = cursor + 1, !.leg = 1, !.to = to]
           x == [y EXCEPT !.pc = f]
<1>3. x \in ScanAim /\ x.pc = f /\ x.pos = cursor + 1 /\ x.leg = 1 /\ x.to = to
  <2>1. y \in ScanAim /\ y.pos = cursor + 1 /\ y.leg = 1 /\ y.to = to
    <3>1. cursor + 1 \in Nat /\ to \in Nat /\ NoScan \in ScanAim
      BY <1>1, NoScanFits
    <3> QED BY <3>1 DEF ScanAim
  <2> HIDE DEF y
  <2> QED BY <2>1 DEF ScanAim
<1>4. scans' = [scans EXCEPT ![v] = x]
  BY <1>2 DEF Scan, ScanAt
<1> HIDE DEF x
<1>5. 1 \in DOMAIN txs[ledger[cursor + 1]].legs
  <2>1. ledger[cursor + 1] \in DOMAIN txs
    BY <1>1 DEF DirectInv, LedgerHolds
  <2>2. txs[ledger[cursor + 1]].legs \in Seq(Leg) /\ txs[ledger[cursor + 1]].legs # << >>
    BY <2>1, TypeFacts DEF DirectInv, Tx, OneWay
  <2> QED BY <2>2
<1>6. \A p \in 1..cursor : \A l \in DOMAIN txs[ledger[p]].legs : Explained(p, l)
  BY DEF DirectInv, ScannedIsExplained, Explained
<1>7. ScanFits(x)
  <2>1. /\ x.pos \in 1..x.to /\ x.to <= Len(ledger) /\ x.leg \in DOMAIN txs[ledger[x.pos]].legs
        /\ x.pos - 1 = cursor /\ x.pc \in {"used", "known"}
        /\ x.pc = "used" => txs[ledger[x.pos]].path = "owners"
    BY <1>1, <1>2, <1>3, <1>5
  <2>2. \A l \in 1..(x.leg - 1) : FALSE
    BY <1>3
  <2> QED BY <1>6, <2>1, <2>2 DEF ScanFits
<1> QED BY <1>1, <1>3, <1>4, <1>7, CalmTick

\* The questions a tick asks of the tables before it acts.
LEMMA AskStep ==
  ASSUME DirectInv, NEW v \in Watchers, LegUsed(v) \/ MatchOwed(v)
  PROVE  DirectInv'
<1>1. /\ scans[v].pc \in {"used", "match"} /\ crashes \in 0..MaxCrashes
      /\ UNCHANGED <<rows, paid, txs, ledger, router, asked, cursor, reported, tasks, crashes>>
  BY DEF LegUsed, MatchOwed, DirectInv, TypeOK, chainVars
<1>2. PICK x \in ScanAim : x = scans[v] /\ ScanFits(x) /\ x.pc \in {"used", "match"}
  <2>1. scans[v] \in ScanAim /\ ScanFits(scans[v])
    BY <1>1, ScanFacts
  <2> QED BY <1>1, <2>1
<1>3. ASSUME NEW c \in {"match", "known"}, ScanAt(v, x, c) PROVE DirectInv'
  <2> DEFINE s == [x EXCEPT !.pc = c]
  <2>1. s \in ScanAim
    BY DEF ScanAim
  <2>2. ScanFits(s)
    BY <1>2 DEF ScanAim, ScanFits
  <2>3. scans' = [scans EXCEPT ![v] = s]
    BY <1>3 DEF ScanAt
  <2> QED BY <1>1, <2>1, <2>2, <2>3, CalmTick
<1>4. ASSUME NEW i \in Ids, Kind[rows[i].order] = txs[ledger[x.pos]].legs[x.leg].kind,
             ScanAt(v, [x EXCEPT !.row = i], "take")
      PROVE  DirectInv'
  <2> DEFINE s == [[x EXCEPT !.row = i] EXCEPT !.pc = "take"]
  <2>1. i \in Nat
    BY TypeFacts DEF DirectInv
  <2>2. s \in ScanAim /\ s.pos = x.pos /\ s.leg = x.leg /\ s.to = x.to /\ s.row = i /\ s.pc = "take"
    BY <2>1 DEF ScanAim
  <2>3. scans' = [scans EXCEPT ![v] = s]
    BY <1>4 DEF ScanAt
  <2> HIDE DEF s
  <2>4. ScanFits(s)
    BY <1>2, <1>4, <2>2 DEF ScanFits
  <2> QED BY <1>1, <2>2, <2>3, <2>4, CalmTick
<1>5. CASE LegUsed(v)
  <2>1. ScanAt(v, x, "known") \/ ScanAt(v, x, "match")
    BY <1>2, <1>5 DEF LegUsed
  <2> QED BY <1>3, <2>1
<1>6. CASE MatchOwed(v)
  <2>1. \/ ScanAt(v, x, "known")
        \/ \E i \in Ids : /\ Kind[rows[i].order] = txs[ledger[x.pos]].legs[x.leg].kind
                          /\ ScanAt(v, [x EXCEPT !.row = i], "take")
    BY <1>2, <1>6 DEF MatchOwed, ScannedLeg
  <2> QED BY <1>3, <1>4, <2>1
<1> QED BY <1>5, <1>6

\* A transfer of a transaction that some row names is let pass.
LEMMA KnownStep ==
  ASSUME DirectInv, NEW v \in Watchers, IsKnownForwardTx(v)
  PROVE  DirectInv'
<1>1. /\ scans[v].pc = "known" /\ crashes \in 0..MaxCrashes /\ cursor \in 0..Len(ledger)
      /\ reported \subseteq Nat \X Nat \X Verdicts
      /\ UNCHANGED <<rows, paid, txs, ledger, router, asked, cursor, reported, tasks, crashes>>
  BY DEF IsKnownForwardTx, DirectInv, TypeOK, chainVars
<1>2. PICK x \in ScanAim : x = scans[v] /\ ScanFits(x) /\ x.pc = "known" /\ x.pos \in DOMAIN ledger
  BY <1>1, ScanFacts
<1>3. CASE \E i \in Ids : paid[i][1] = ledger[x.pos]
  <2>1. NextLeg(v)
    BY <1>2, <1>3 DEF IsKnownForwardTx
  <2>2. ledger' \in Seq(Nat) /\ Onward
    BY <1>1, TypeFacts DEF Onward, Ids, DirectInv, TypeOK
  <2>3. Explained(x.pos, x.leg)'
    BY <1>2, <1>3, <2>2, ExplainedStays DEF Explained
  <2>4. PICK s \in ScanAim : ScanFits(s)' /\ scans' = [scans EXCEPT ![v] = s]
    BY <1>1, <1>2, <2>1, <2>2, <2>3, NextLegFacts
  <2>5. ScannedIsExplained'
    BY <1>1, <2>2, CursorStays
  <2> QED BY <1>1, <2>4, <2>5, TickStep
<1>4. CASE ~ \E i \in Ids : paid[i][1] = ledger[x.pos]
  <2> DEFINE s == [x EXCEPT !.pc = "verdict"]
  <2>1. s \in ScanAim /\ ScanFits(s)
    BY <1>2 DEF ScanAim, ScanFits
  <2>2. scans' = [scans EXCEPT ![v] = s]
    BY <1>2, <1>4 DEF IsKnownForwardTx, ScanAt
  <2> QED BY <1>1, <2>1, <2>2, CalmTick
<1> QED BY <1>3, <1>4

\* Every other transfer is reported.
LEMMA ReportStep ==
  ASSUME DirectInv, NEW v \in Watchers, NEW verdict \in Verdicts, Report(v, verdict)
  PROVE  DirectInv'
<1>1. /\ scans[v].pc = "verdict" /\ crashes \in 0..MaxCrashes /\ cursor \in 0..Len(ledger)
      /\ reported \subseteq Nat \X Nat \X Verdicts /\ NextLeg(v)
      /\ UNCHANGED <<rows, paid, txs, ledger, router, asked, cursor, tasks, crashes>>
  BY DEF Report, DirectInv, TypeOK, chainVars
<1>2. PICK x \in ScanAim : /\ x = scans[v] /\ x.pos \in DOMAIN ledger /\ ledger[x.pos] \in Nat
                           /\ x.leg \in Nat
  BY <1>1, ScanFacts, TypeFacts DEF DirectInv
<1>3. reported' = reported \cup {<<ledger[x.pos], x.leg, verdict>>}
  BY <1>2 DEF Report, ScannedName
<1>4. reported \subseteq reported' /\ reported' \subseteq Nat \X Nat \X Verdicts
  BY <1>1, <1>2, <1>3
<1>5. ledger' \in Seq(Nat) /\ Onward
  BY <1>1, <1>4, TypeFacts DEF Onward, Ids, DirectInv, TypeOK
<1>6. Explained(x.pos, x.leg)'
  BY <1>1, <1>3 DEF Explained
<1>7. PICK s \in ScanAim : ScanFits(s)' /\ scans' = [scans EXCEPT ![v] = s]
  BY <1>1, <1>2, <1>5, <1>6, NextLegFacts
<1>8. ScannedIsExplained'
  BY <1>1, <1>5, CursorStays
<1> QED BY <1>1, <1>4, <1>7, <1>8, TickStep

\* The cursor only passes what has been gone through.
LEMMA SetCursorStep ==
  ASSUME DirectInv, NEW v \in Watchers, SetCursor(v)
  PROVE  DirectInv'
<1>1. /\ scans[v].pc = "cursor" /\ crashes \in 0..MaxCrashes
      /\ reported \subseteq Nat \X Nat \X Verdicts /\ cursor' = scans[v].to
      /\ scans' = [scans EXCEPT ![v] = NoScan]
      /\ UNCHANGED <<rows, paid, txs, ledger, router, asked, reported, tasks, crashes>>
  BY DEF SetCursor, DirectInv, TypeOK, chainVars
<1>2. PICK x \in ScanAim : x = scans[v] /\ ScanFits(x) /\ x.pc = "cursor" /\ x.to \in 1..Len(ledger)
  BY <1>1, ScanFacts
<1>3. cursor' \in 0..Len(ledger)
  BY <1>1, <1>2
<1>4. ScanFits(NoScan)'
  BY DEF ScanFits, NoScan
<1>5. ScannedIsExplained'
  <2>1. /\ x.pos = x.to /\ x.pos \in Nat
        /\ \A p \in 1..(x.pos - 1) : \A l \in DOMAIN txs[ledger[p]].legs : Explained(p, l)
        /\ \A l \in DOMAIN txs[ledger[x.pos]].legs : Explained(x.pos, l)
    BY <1>2 DEF ScanFits, ScanAim
  <2>2. \A p \in 1..x.to : p = x.pos \/ p \in 1..(x.pos - 1)
    BY <2>1
  <2>3. \A p \in 1..x.to : \A l \in DOMAIN txs[ledger[p]].legs : Explained(p, l)
    BY <2>1, <2>2
  <2>4. cursor' = x.to
    BY <1>1, <1>2
  <2> QED BY <1>1, <2>3, <2>4 DEF ScannedIsExplained, Explained, Ids
<1> QED BY <1>1, <1>3, <1>4, <1>5, NoScanFits, TickStep

\* A tick dies; the next one begins at the cursor again.
LEMMA CrashScanStep ==
  ASSUME DirectInv, NEW v \in Watchers, CrashScan(v)
  PROVE  DirectInv'
<1>1. /\ scans' = [scans EXCEPT ![v] = NoScan]
      /\ UNCHANGED <<rows, paid, txs, ledger, router, asked, cursor, reported, tasks>>
  BY DEF CrashScan, chainVars
<1>2. crashes' \in 0..MaxCrashes
  BY DirectBoundsAssumption DEF CrashScan, DirectInv, TypeOK
<1> QED BY <1>1, <1>2, NoScanFits, CalmTick

\* A leg that fits a debt closes it, if nobody has taken the row meanwhile.
LEMMA TakeStep ==
  ASSUME DirectInv, NEW v \in Watchers, SettleOwedOutflow(v)
  PROVE  DirectInv'
<1>1. /\ scans[v].pc = "take" /\ crashes \in 0..MaxCrashes /\ cursor \in 0..Len(ledger)
      /\ rows \in Seq(Row) /\ paid \in Seq(Nat \X Nat) /\ DOMAIN paid = Ids
      /\ UNCHANGED <<txs, ledger, router, asked, cursor, reported, tasks, crashes>>
  BY TypeFacts DEF SettleOwedOutflow, DirectInv, TypeOK, RowsTypeOK, chainVars
<1>2. PICK x \in ScanAim : /\ x = scans[v] /\ ScanFits(x) /\ x.pc = "take" /\ x.pos \in DOMAIN ledger
                           /\ ledger[x.pos] \in DOMAIN txs
  BY <1>1, ScanFacts
<1>3. PICK i \in Ids : i = x.row
  BY <1>2 DEF ScanFits
<1>4. PICK n \in Nat, l \in Nat : /\ n = ledger[x.pos] /\ l = x.leg /\ n \in DOMAIN txs /\ n # 0
                                  /\ txs[n].path = "owners" /\ l \in DOMAIN txs[n].legs
                                  /\ Kind[rows[i].order] = txs[n].legs[l].kind
  <2>1. ledger[x.pos] \in Nat /\ x.leg \in Nat /\ ledger[x.pos] # 0
    BY <1>2, TypeFacts DEF DirectInv, ScanAim
  <2> QED BY <1>2, <1>3, <2>1 DEF ScanFits
<1>5. /\ TransitionForward(i, "owners_transfer", TRUE) /\ "owners_transfer" \in DOMAIN From
      /\ From["owners_transfer"] = "owed" /\ To["owners_transfer"] = "submitted"
  BY <1>2, <1>3 DEF SettleOwedOutflow, From, To
<1>6. CASE rows[i].state # "owed"
  <2> DEFINE s == [x EXCEPT !.row = 0, !.pc = "known"]
  <2>1. s \in ScanAim /\ ScanFits(s)
    BY <1>2 DEF ScanAim, ScanFits
  <2>2. scans' = [scans EXCEPT ![v] = s] /\ UNCHANGED paid
    BY <1>2, <1>3, <1>6 DEF SettleOwedOutflow, ScanAt
  <2>3. UNCHANGED rows
    BY <1>5, <1>6 DEF TransitionForward
  <2> QED BY <1>1, <2>1, <2>2, <2>3, CalmTick
<1>7. CASE rows[i].state = "owed"
  <2>1. /\ rows' \in Seq(Row) /\ Len(rows') = Len(rows) /\ Ids' = Ids
        /\ \A j \in Ids : rows'[j].order = rows[j].order /\ (j # i => rows'[j] = rows[j])
        /\ rows'[i].state = "submitted"
    BY <1>1, <1>5, <1>7, TransitionFacts DEF Ids
  <2>2. OneLiveForward'
    BY <1>1, <1>5, LatchTransition DEF DirectInv
  <2>3. paid' = [paid EXCEPT ![i] = <<n, l>>] /\ NextLeg(v)
    BY <1>2, <1>3, <1>4, <1>7 DEF SettleOwedOutflow, ScannedName
  <2>4. /\ paid' \in Seq(Nat \X Nat) /\ Len(paid') = Len(paid)
        /\ \A j \in Ids : j # i => paid'[j] = paid[j]
        /\ paid'[i] = <<n, l>>
    <3>1. <<n, l>> \in Nat \X Nat
      OBVIOUS
    <3> QED BY <1>1, <2>3, <3>1, ExceptSeq
  <2>5. paid[i] = NoTx
    BY <1>7 DEF DirectInv, RowsSay, Pending
  <2>6. Onward
    BY <1>1, <2>1, <2>4, <2>5, TypeFacts DEF Onward, DirectInv
  <2>7. OneWay' /\ HandedOnce' /\ LedgerHolds' /\ \A u, q : Sent(u, q)' <=> Sent(u, q)
    BY <1>1, <2>1, ChainStays
  <2>8. SentOnce'
    <3>1. \A j \in Ids : j # i => rows'[j] = rows[j] /\ paid'[j] = paid[j]
      BY <2>1, <2>4
    <3> QED BY <1>7, <2>7, <3>1, SentMoves
  <2>9. RowsSay'
    <3>1. ASSUME NEW j \in Ids
          PROVE  /\ rows'[j].state \in Pending => paid'[j] = NoTx
                 /\ rows'[j].state \in {"submitted", "forwarded"} => paid'[j] # NoTx
                 /\ rows'[j].state = "forwarded" => txs'[paid'[j][1]].state = "mined"
                 /\ paid'[j] # NoTx => PaidBy(j)'
      <4>1. CASE j = i
        <5>1. paid'[i][1] = n /\ paid'[i][2] = l /\ paid'[i] # NoTx
          BY <1>4, <2>4 DEF NoTx
        <5>2. PaidBy(i)'
          BY <1>1, <1>4, <2>1, <5>1 DEF PaidBy
        <5> QED BY <2>1, <4>1, <5>1, <5>2 DEF Pending
      <4>2. CASE j # i
        BY <1>1, <2>1, <2>4, <4>2, RowSaysStill
      <4> QED BY <4>1, <4>2
    <3> QED BY <2>1, <3>1 DEF RowsSay
  <2>10. TasksHold' /\ Exclusive'
    <3>1. \A j \in Ids : rows[j].state = "broadcasting" => rows'[j].state = "broadcasting"
      BY <1>7, <2>1
    <3>2. \A j \in Ids' : /\ paid'[j][1] \in DOMAIN txs /\ txs[paid'[j][1]].path = "router"
                          => j \in Ids /\ paid'[j] = paid[j]
      BY <1>4, <2>1, <2>4
    <3> QED BY <1>1, <2>6, <3>1, <3>2, TasksStay
  <2>11. Explained(x.pos, x.leg)'
    <3>1. i \in Ids' /\ paid'[i][1] = ledger'[x.pos]
      BY <1>1, <1>4, <2>1, <2>4
    <3> QED BY <3>1 DEF Explained
  <2>12. PICK s \in ScanAim : ScanFits(s)' /\ scans' = [scans EXCEPT ![v] = s]
    BY <1>1, <1>2, <2>3, <2>6, <2>11, NextLegFacts
  <2>13. ledger' \in Seq(Nat)
    BY <1>1 DEF DirectInv, TypeOK
  <2>14. ScansHold' /\ scans' \in [Watchers -> ScanAim] /\ ScannedIsExplained'
    BY <1>1, <2>6, <2>12, <2>13, ScansMove, CursorStays
  <2>15. TypeOK'
    BY <1>1, <2>1, <2>4, <2>14 DEF DirectInv, TypeOK, RowsTypeOK
  <2> QED BY <2>2, <2>7, <2>8, <2>9, <2>10, <2>14, <2>15 DEF DirectInv
<1> QED BY <1>6, <1>7

-----------------------------------------------------------------------------
(* Theorems *)

\* The empty tables satisfy the invariant.
LEMMA DirectInit == Init => DirectInv
<1> SUFFICES ASSUME Init PROVE DirectInv
  OBVIOUS
<1>1. /\ Ids = {} /\ DOMAIN txs = {} /\ DOMAIN ledger = {} /\ Len(ledger) = 0
      /\ Len(rows) = 0 /\ Len(paid) = 0
      /\ rows \in Seq(Row) /\ paid \in Seq(Nat \X Nat) /\ txs \in Seq(Tx) /\ ledger \in Seq(Nat)
  BY DEF Init, Ids
<1>2. \A w \in Workers : tasks[w] = NoTask
  BY DEF Init
<1>3. \A v \in Watchers : scans[v] = NoScan
  BY DEF Init
<1>4. TypeOK
  <2>1. router \in BOOLEAN /\ asked \subseteq Ids /\ cursor \in 0..Len(ledger) /\ crashes \in 0..MaxCrashes
        /\ reported \subseteq Nat \X Nat \X Verdicts
    BY <1>1, DirectAssumption, DirectBoundsAssumption DEF Init
  <2>2. NoTask \in Task /\ NoScan \in ScanAim
    BY NoScanFits DEF NoTask, Task
  <2>3. tasks \in [Workers -> Task] /\ scans \in [Watchers -> ScanAim]
    BY <2>2 DEF Init
  <2> QED BY <1>1, <2>1, <2>3 DEF TypeOK, RowsTypeOK
<1>5. OneLiveForward /\ HandedOnce /\ SentOnce /\ RowsSay /\ LedgerHolds
  BY <1>1 DEF OneLiveForward, HandedOnce, SentOnce, RowsSay, LedgerHolds
<1>6. OneWay
  BY <1>1 DEF OneWay, Init
<1>7. TasksHold /\ Exclusive
  BY <1>2 DEF TasksHold, TaskFits, Exclusive, NoTask, Claiming
<1>8. ScansHold
  BY <1>3, NoScanFits DEF ScansHold
<1>9. ScannedIsExplained
  BY DEF ScannedIsExplained, Init
<1> QED BY <1>4, <1>5, <1>6, <1>7, <1>8, <1>9 DEF DirectInv

\* So does a state in which nothing has changed.
LEMMA DirectStutter == DirectInv /\ UNCHANGED vars => DirectInv'
<1> SUFFICES ASSUME DirectInv, UNCHANGED vars PROVE DirectInv'
  OBVIOUS
<1>1. UNCHANGED <<rows, paid, txs, ledger, router, asked, cursor, reported, tasks, scans, crashes>>
  BY DEF vars
<1>2. ledger' \in Seq(Nat) /\ Onward
  BY <1>1, TypeFacts DEF Onward, Ids, DirectInv, TypeOK
<1>3. ScansHold' /\ ScannedIsExplained'
  BY <1>1, <1>2, WatchStays
<1>4. TasksHold' /\ Exclusive'
  BY <1>1, <1>2, TasksStay DEF Ids
<1>5. OneLiveForward' /\ HandedOnce' /\ SentOnce' /\ RowsSay' /\ LedgerHolds' /\ OneWay'
  BY <1>1, TablesStay, ChainStays DEF Ids
<1>6. TypeOK'
  BY <1>1 DEF DirectInv, TypeOK, RowsTypeOK, Ids
<1> QED BY <1>3, <1>4, <1>5, <1>6 DEF DirectInv

\* Every step keeps the invariant.
LEMMA DirectStep == DirectInv /\ [Next]_vars => DirectInv'
<1> SUFFICES ASSUME DirectInv, [Next]_vars PROVE DirectInv'
  OBVIOUS
<1>1. ASSUME NEW w \in Workers, Route(w) \/ RouteAllOwed(w) \/ Refused(w) \/ CrashTask(w)
      PROVE  DirectInv'
  BY <1>1, CalmStep, ClaimStep, BroadcastStep, RecordStep DEF Route
<1>2. ASSUME NEW w \in Workers, NEW o \in Orders, HandleForward(w, o) PROVE DirectInv'
  BY <1>2, HandleStep
<1>3. ASSUME NEW i \in Ids, Settle(i) PROVE DirectInv'
  BY <1>3, SettleStep
<1>4. ASSUME NEW t \in DOMAIN txs, NEW state \in {"mined", "failed"}, ChainMoves(t, state)
      PROVE  DirectInv'
  BY <1>4, ChainStep
<1>5. ASSUME NEW i \in Ids \cup {0}, NEW j \in Ids \cup {0}, OwnersPay(i, j)
      PROVE  DirectInv'
  BY <1>5, OwnersPayStep
<1>6. ASSUME NEW path \in Paths, NEW kind \in Kinds, Steal(path, kind) PROVE DirectInv'
  BY <1>6, StealStep
<1>7. ASSUME NEW v \in Watchers, WatchStep(v) \/ CrashScan(v) PROVE DirectInv'
  BY <1>7, AskStep, TakeStep, KnownStep, SetCursorStep, ReportStep, CrashScanStep DEF WatchStep
<1>8. ASSUME NEW v \in Watchers, NEW to \in DOMAIN ledger, Scan(v, to) PROVE DirectInv'
  BY <1>8, ScanStep
<1>9. CASE UNCHANGED vars
  BY <1>9, DirectStutter
<1> QED BY <1>1, <1>2, <1>3, <1>4, <1>5, <1>6, <1>7, <1>8, <1>9 DEF Next

\* The invariant of the direct rail holds whatever the isolates, the cron, the
\* owners and the thieves do, and in whatever order.
THEOREM DirectInvariant == Spec => []DirectInv
<1>1. Init => DirectInv
  BY DirectInit
<1>2. DirectInv /\ [Next]_vars => DirectInv'
  BY DirectStep
<1> QED BY <1>1, <1>2, PTL DEF Spec

\* The tables of the direct rail, what is on the chain and what each isolate
\* and tick has read of them are well formed.
THEOREM DirectTypeCorrect == Spec => []TypeOK
<1>1. DirectInv => TypeOK
  BY DEF DirectInv
<1> QED BY <1>1, DirectInvariant, PTL

\* One payment at most is made for a debt, by the router or by the owners,
\* however many isolates and sweeps route it and whatever the node answers.
THEOREM DebtPaidOnce == Spec => []PaidOnce
<1>1. DirectInv => PaidOnce
  <2> SUFFICES ASSUME DirectInv, NEW i \in Ids PROVE Cardinality(Payments(i)) <= 1
    BY DEF PaidOnce
  <2>1. ASSUME NEW n \in Payments(i)
        PROVE  /\ n = <<n[1], n[2]>> /\ n[1] \in DOMAIN txs
               /\ \/ txs[n[1]].path = "router" /\ router /\ n[2] = 1 /\ Sent(n[1], i)
                  \/ txs[n[1]].path = "owners" /\ ~ router /\ n[2] \in DOMAIN txs[n[1]].legs
                     /\ Handed(n[1], n[2], i)
    <3>1. /\ n \in (DOMAIN txs) \X (1..2) /\ txs[n[1]].state \in {"pool", "mined"}
          /\ n[2] \in DOMAIN txs[n[1]].legs /\ txs[n[1]].legs[n[2]].for = i
      BY <2>1 DEF Payments
    <3>2. /\ n[1] \in DOMAIN txs /\ txs[n[1]].path \in Paths /\ txs[n[1]].legs \in Seq(Leg)
          /\ n = <<n[1], n[2]>>
      BY <3>1, TypeFacts DEF DirectInv, Tx
    <3>3. i # 0
      BY TypeFacts DEF DirectInv
    <3>4. txs[n[1]].path \in {"router", "owners"}
      BY <3>1, <3>2, <3>3 DEF DirectInv, OneWay, Paths
    <3>5. CASE txs[n[1]].path = "router"
      <4>1. router /\ Len(txs[n[1]].legs) = 1
        BY <3>2, <3>5 DEF DirectInv, OneWay
      <4>2. n[2] = 1
        BY <3>1, <3>2, <4>1
      <4> QED BY <3>1, <3>2, <3>5, <4>1, <4>2 DEF Sent
    <3>6. CASE txs[n[1]].path = "owners"
      <4>1. i \in asked
        BY <3>1, <3>2, <3>3, <3>6 DEF DirectInv, OneWay
      <4>2. ~ router
        BY <4>1 DEF DirectInv, OneWay
      <4> QED BY <3>1, <3>2, <3>6, <4>2 DEF Handed
    <3> QED BY <3>4, <3>5, <3>6
  <2>2. ASSUME NEW n \in Payments(i), NEW m \in Payments(i) PROVE n = m
    <3>1. CASE router
      <4>1. n[1] = m[1]
        BY <2>1, <3>1 DEF DirectInv, SentOnce
      <4> QED BY <2>1, <3>1, <4>1
    <3>2. CASE ~ router
      <4>1. Handed(n[1], n[2], i) /\ Handed(m[1], m[2], i)
        BY <2>1, <3>2 DEF DirectInv, OneWay
      <4>2. /\ n[1] \in DOMAIN txs /\ n[2] \in DOMAIN txs[n[1]].legs
            /\ m[1] \in DOMAIN txs /\ m[2] \in DOMAIN txs[m[1]].legs
        BY <4>1 DEF Handed
      <4>3. i \in Nat \ {0}
        BY TypeFacts DEF DirectInv
      <4>4. n[1] = m[1] /\ n[2] = m[2]
        BY <4>1, <4>2, <4>3 DEF DirectInv, HandedOnce
      <4> QED BY <2>1, <4>4
    <3> QED BY <3>1, <3>2
  <2>3. CASE Payments(i) = {}
    BY <2>3, FS_EmptySet
  <2>4. CASE Payments(i) # {}
    <3>1. PICK n \in Payments(i) : Payments(i) = {n}
      BY <2>2, <2>4
    <3>2. Cardinality({n}) = 1
      BY FS_Singleton
    <3> QED BY <3>1, <3>2
  <2> QED BY <2>3, <2>4
<1> QED BY <1>1, DirectInvariant, PTL

\* A settled row names a transaction that was mined and is the rail's own for
\* the row or the owners' for its target and amount.
THEOREM SettledByPayment == Spec => []ForwardedIsPaid
<1>1. DirectInv => ForwardedIsPaid
  <2> SUFFICES ASSUME DirectInv, NEW i \in Ids, rows[i].state = "forwarded"
               PROVE  /\ txs[paid[i][1]].state = "mined"
                      /\ \/ /\ txs[paid[i][1]].path = "router"
                            /\ txs[paid[i][1]].legs[1].for = i
                         \/ /\ txs[paid[i][1]].path = "owners"
                            /\ txs[paid[i][1]].legs[paid[i][2]].kind = Kind[rows[i].order]
    BY DEF ForwardedIsPaid
  <2>1. PaidBy(i) /\ txs[paid[i][1]].state = "mined"
    BY DEF DirectInv, RowsSay
  <2> QED BY <2>1 DEF PaidBy
<1> QED BY <1>1, DirectInvariant, PTL

\* Nothing the cursor of the watcher has passed was missed, though two ticks
\* run at once, are cut short and die between any two of their steps.
THEOREM NothingMissed == Spec => []ScannedIsExplained
<1>1. DirectInv => ScannedIsExplained
  BY DEF DirectInv
<1> QED BY <1>1, DirectInvariant, PTL

-----------------------------------------------------------------------------
(* One transfer of the owners closes one debt, while one tick runs at a time. *)

\* No two rows name the same transfer, and none names the one the tick is at
\* once it has found it unused.
LegInv == DirectInv /\ LegPaysOneDebt /\ FreshLeg

\* A row is given a transfer by the watcher only; the router's transactions go
\* down as leg 0, and to one row each.
LEMMA LegsStay ==
  ASSUME LegInv,
         \A i \in Ids' :
           \/ i \in Ids /\ paid'[i] = paid[i]
           \/ /\ paid'[i][2] = 0
              /\ paid'[i] # NoTx => \A j \in Ids' \ {i} : paid'[j][1] # paid'[i][1],
         \A p \in DOMAIN ledger : ledger'[p] = ledger[p],
         \A v \in Watchers : scans'[v].pc \in {"match", "take"} =>
           /\ scans[v].pc \in {"match", "take"}
           /\ scans'[v].pos = scans[v].pos /\ scans'[v].leg = scans[v].leg
  PROVE  LegPaysOneDebt' /\ FreshLeg'
<1>1. LegPaysOneDebt'
  BY DEF LegInv, LegPaysOneDebt
<1>2. ASSUME NEW v \in Watchers, scans'[v].pc \in {"match", "take"}, NEW i \in Ids'
      PROVE  paid'[i] # <<ledger'[scans'[v].pos], scans'[v].leg>>
  <2>1. scans[v].pc \in {"match", "take"} /\ scans'[v].pos = scans[v].pos /\ scans'[v].leg = scans[v].leg
    BY <1>2
  <2>2. /\ scans[v].pos \in DOMAIN ledger /\ ledger[scans[v].pos] \in DOMAIN txs
        /\ scans[v].leg \in DOMAIN txs[ledger[scans[v].pos]].legs
    BY <2>1, ScanFacts DEF LegInv, ScanFits
  <2>3. scans[v].leg # 0
    <3>1. txs[ledger[scans[v].pos]].legs \in Seq(Leg)
      BY <2>2, TypeFacts DEF LegInv, DirectInv, Tx
    <3> QED BY <2>2, <3>1
  <2>4. i \in Ids => paid[i] # <<ledger[scans[v].pos], scans[v].leg>>
    BY <2>1 DEF LegInv, FreshLeg, ScannedName
  <2> QED BY <2>1, <2>2, <2>3, <2>4
<1> QED BY <1>1, <1>2 DEF FreshLeg, ScannedName

\* After a leg comes one that has not been looked at.
LEMMA NextLegQuiet ==
  ASSUME DirectInv, NEW v \in Watchers, NextLeg(v)
  PROVE  scans'[v].pc \notin {"match", "take"}
<1>1. \A pos : FirstCheck(pos) \in {"used", "known"}
  BY DEF FirstCheck
<1>2. scans \in [Watchers -> ScanAim]
  BY DEF DirectInv, TypeOK
<1>3. PICK x \in ScanAim : x = scans[v]
  BY <1>2
<1>4. PICK y \in ScanAim, c \in {"used", "known", "cursor"} : ScanAt(v, y, c)
  <2>1. x.pos + 1 \in Nat /\ x.leg + 1 \in Nat
    BY DEF ScanAim
  <2>2. CASE x.leg < Len(txs[ledger[x.pos]].legs)
    <3> DEFINE y == [x EXCEPT !.leg = x.leg + 1, !.row = 0]
    <3>1. y \in ScanAim
      BY <2>1 DEF ScanAim
    <3>2. ScanAt(v, y, FirstCheck(x.pos))
      BY <1>3, <2>2 DEF NextLeg
    <3> QED BY <1>1, <3>1, <3>2
  <2>3. CASE ~ (x.leg < Len(txs[ledger[x.pos]].legs)) /\ x.pos < x.to
    <3> DEFINE y == [x EXCEPT !.pos = x.pos + 1, !.leg = 1, !.row = 0]
    <3>1. y \in ScanAim
      BY <2>1 DEF ScanAim
    <3>2. ScanAt(v, y, FirstCheck(x.pos + 1))
      BY <1>3, <2>3 DEF NextLeg
    <3> QED BY <1>1, <3>1, <3>2
  <2>4. CASE ~ (x.leg < Len(txs[ledger[x.pos]].legs)) /\ ~ (x.pos < x.to)
    <3> DEFINE y == [x EXCEPT !.row = 0]
    <3>1. y \in ScanAim
      BY DEF ScanAim
    <3>2. ScanAt(v, y, "cursor")
      BY <1>3, <2>4 DEF NextLeg
    <3> QED BY <3>1, <3>2
  <2> QED BY <2>2, <2>3, <2>4
<1>5. scans'[v] = [y EXCEPT !.pc = c]
  BY <1>2, <1>4 DEF ScanAt
<1> QED BY <1>5 DEF ScanAim

\* The workers' steps: a debt booked, or a hash recorded.
LEMMA LegTask ==
  ASSUME LegInv, NEW w \in Workers,
         Route(w) \/ RouteAllOwed(w) \/ Refused(w) \/ CrashTask(w)
         \/ \E o \in Orders : HandleForward(w, o)
  PROVE  LegPaysOneDebt' /\ FreshLeg'
<1>1. UNCHANGED <<ledger, scans>>
  BY DEF Route, AskOwners, Simulated, ClaimOwed, Broadcast, RecordBroadcast, RouteAllOwed,
         Refused, CrashTask, HandleForward, chainVars, watchVars
<1>2. CASE AskOwners(w) \/ Simulated(w) \/ ClaimOwed(w) \/ Broadcast(w) \/ RouteAllOwed(w)
           \/ Refused(w) \/ CrashTask(w)
  <2>1. UNCHANGED paid /\ Ids' = Ids
    BY <1>2 DEF AskOwners, Simulated, ClaimOwed, Broadcast, RouteAllOwed, Refused, CrashTask,
                TransitionForward, Ids
  <2> QED BY <1>1, <2>1, LegsStay
<1>3. CASE RecordBroadcast(w)
  <2>1. Ids' = Ids
    BY <1>3 DEF RecordBroadcast, TransitionForward, Ids
  <2>2. CASE tasks[w].pc = "submit" /\ rows[tasks[w].row].state = "broadcasting"
    <3>1. paid' = [paid EXCEPT ![tasks[w].row] = <<tasks[w].tx, 0>>]
      BY <1>3, <2>2 DEF RecordBroadcast
    <3>2. /\ tasks[w].row \in Ids /\ DOMAIN paid = Ids
          /\ \A j \in Ids : paid[j][1] # tasks[w].tx
      BY <2>2, TypeFacts DEF LegInv, DirectInv, TasksHold, TaskFits
    <3>3. \A j \in Ids : paid'[j] = IF j = tasks[w].row THEN <<tasks[w].tx, 0>> ELSE paid[j]
      BY <3>1, <3>2
    <3> QED BY <1>1, <2>1, <3>2, <3>3, LegsStay
  <2>3. CASE ~ (tasks[w].pc = "submit" /\ rows[tasks[w].row].state = "broadcasting")
    <3>1. UNCHANGED paid
      BY <1>3, <2>3 DEF RecordBroadcast
    <3> QED BY <1>1, <2>1, <3>1, LegsStay
  <2> QED BY <2>2, <2>3
<1>4. ASSUME NEW o \in Orders, HandleForward(w, o) PROVE LegPaysOneDebt' /\ FreshLeg'
  <2>1. paid' = Append(paid, NoTx) /\ \E r : rows' = Append(rows, r)
    BY <1>4 DEF HandleForward, InsertForward
  <2>2. rows \in Seq(Row) /\ paid \in Seq(Nat \X Nat) /\ Len(paid) = Len(rows)
    BY DEF LegInv, DirectInv, TypeOK, RowsTypeOK
  <2>3. PICK r : rows' = Append(rows, r)
    BY <2>1
  <2>4. Ids' = Ids \cup {Len(rows) + 1}
    BY <2>2, <2>3 DEF Ids
  <2>5. \A i \in Ids' : (i \in Ids /\ paid'[i] = paid[i]) \/ paid'[i] = NoTx
    BY <2>1, <2>2, <2>4 DEF Ids, NoTx
  <2>6. \A i \in Ids' : \/ i \in Ids /\ paid'[i] = paid[i]
                        \/ /\ paid'[i][2] = 0
                           /\ paid'[i] # NoTx => \A j \in Ids' \ {i} : paid'[j][1] # paid'[i][1]
    BY <2>5 DEF NoTx
  <2> QED BY <1>1, <2>6, LegsStay
<1> QED BY <1>2, <1>3, <1>4 DEF Route

\* The steps of the chain, of receipts and of those who hold keys.
LEMMA LegChain ==
  ASSUME LegInv,
         \/ \E i \in Ids : Settle(i)
         \/ \E t \in DOMAIN txs, state \in {"mined", "failed"} : ChainMoves(t, state)
         \/ \E i, j \in Ids \cup {0} : OwnersPay(i, j)
         \/ \E path \in Paths, kind \in Kinds : Steal(path, kind)
         \/ UNCHANGED vars
  PROVE  LegPaysOneDebt' /\ FreshLeg'
<1>1. UNCHANGED <<paid, scans>> /\ Ids' = Ids
  BY DEF Settle, ChainMoves, OwnersPay, Steal, watchVars, vars, TransitionForward, Ids
<1>2. ledger' = ledger \/ \E t : ledger' = Append(ledger, t)
  BY DEF Settle, ChainMoves, OwnersPay, Steal, Mine, vars, chainVars
<1>3. ledger \in Seq(Nat)
  BY DEF LegInv, DirectInv, TypeOK
<1>4. \A p \in DOMAIN ledger : ledger'[p] = ledger[p]
  <2>1. ASSUME NEW t, ledger' = Append(ledger, t) PROVE \A p \in DOMAIN ledger : ledger'[p] = ledger[p]
    BY <1>3, <2>1, SMTT(20)
  <2> QED BY <1>2, <2>1
<1> QED BY <1>1, <1>4, LegsStay

\* The steps of the one tick.
LEMMA LegTick ==
  ASSUME LegInv, NEW v \in Watchers, Watchers = {v},
         WatchStep(v) \/ CrashScan(v) \/ \E to \in DOMAIN ledger : Scan(v, to)
  PROVE  LegPaysOneDebt' /\ FreshLeg'
<1>1. scans \in [Watchers -> ScanAim] /\ scans[v] \in ScanAim /\ UNCHANGED ledger
  BY DEF LegInv, DirectInv, TypeOK, WatchStep, LegUsed, MatchOwed, SettleOwedOutflow,
         IsKnownForwardTx, SetCursor, Report, CrashScan, Scan, chainVars
<1>2. CASE \/ CrashScan(v) \/ SetCursor(v) \/ \E to \in DOMAIN ledger : Scan(v, to)
           \/ IsKnownForwardTx(v) \/ \E verdict \in Verdicts : Report(v, verdict)
           \/ MatchOwed(v)
  <2>1. UNCHANGED paid /\ Ids' = Ids
    BY <1>2 DEF CrashScan, SetCursor, Scan, IsKnownForwardTx, Report, MatchOwed, Ids
  <2>2. scans'[v].pc \in {"match", "take"} =>
          /\ scans[v].pc \in {"match", "take"}
          /\ scans'[v].pos = scans[v].pos /\ scans'[v].leg = scans[v].leg
    <3>1. CASE CrashScan(v) \/ SetCursor(v)
      BY <1>1, <3>1 DEF CrashScan, SetCursor, NoScan
    <3>2. CASE \E to \in DOMAIN ledger : Scan(v, to)
      <4>1. \A pos : FirstCheck(pos) \in {"used", "known"}
        BY DEF FirstCheck
      <4>2. \A s, c : ScanAt(v, s, c) /\ s \in ScanAim => scans'[v].pc = c
        BY <1>1 DEF ScanAt, ScanAim
      <4>3. PICK to \in Nat : ScanAt(v, [NoScan EXCEPT !.pos = cursor + 1, !.leg = 1, !.to = to], FirstCheck(cursor + 1))
        <5>1. PICK to \in DOMAIN ledger : Scan(v, to)
          BY <3>2
        <5>2. to \in Nat
          BY TypeFacts DEF LegInv, DirectInv
        <5> QED BY <5>1, <5>2 DEF Scan
      <4>4. cursor + 1 \in Nat /\ NoScan \in ScanAim
        BY NoScanFits, TypeFacts DEF LegInv, DirectInv, TypeOK
      <4>5. [NoScan EXCEPT !.pos = cursor + 1, !.leg = 1, !.to = to] \in ScanAim
        BY <4>4 DEF ScanAim
      <4>6. scans'[v].pc = FirstCheck(cursor + 1)
        BY <4>2, <4>3, <4>5
      <4> QED BY <4>1, <4>6
    <3>3. CASE NextLeg(v)
      BY <3>3, NextLegQuiet DEF LegInv
    <3>4. CASE IsKnownForwardTx(v)
      <4>1. NextLeg(v) \/ ScanAt(v, scans[v], "verdict")
        BY <3>4 DEF IsKnownForwardTx
      <4> QED BY <1>1, <3>3, <4>1 DEF ScanAt, ScanAim
    <3>5. CASE MatchOwed(v)
      <4>1. scans[v].pc = "match"
        BY <3>5 DEF MatchOwed
      <4>2. \/ ScanAt(v, scans[v], "known")
            \/ \E i \in Ids : ScanAt(v, [scans[v] EXCEPT !.row = i], "take")
        BY <3>5 DEF MatchOwed
      <4>3. CASE ScanAt(v, scans[v], "known")
        BY <1>1, <4>3 DEF ScanAt, ScanAim
      <4>4. ASSUME NEW i \in Ids, ScanAt(v, [scans[v] EXCEPT !.row = i], "take")
            PROVE  scans'[v].pos = scans[v].pos /\ scans'[v].leg = scans[v].leg
        BY <1>1, <4>4 DEF ScanAt, ScanAim
      <4> QED BY <4>1, <4>2, <4>3, <4>4
    <3> QED BY <1>2, <3>1, <3>2, <3>3, <3>4, <3>5 DEF Report
  <2> QED BY <1>1, <2>1, <2>2, LegsStay
<1>3. CASE LegUsed(v)
  <2>1. UNCHANGED <<paid, rows>> /\ Ids' = Ids
    BY <1>3 DEF LegUsed, Ids
  <2>2. LegPaysOneDebt'
    BY <2>1 DEF LegInv, LegPaysOneDebt
  <2>3. scans'[v].pc = "match" => \A i \in Ids : paid[i] # ScannedName(v)
    BY <1>1, <1>3 DEF LegUsed, ScanAt, ScanAim
  <2>4. scans'[v].pc # "take" /\ scans'[v].pos = scans[v].pos /\ scans'[v].leg = scans[v].leg
    BY <1>1, <1>3 DEF LegUsed, ScanAt, ScanAim
  <2>5. FreshLeg'
    BY <1>1, <2>1, <2>3, <2>4 DEF FreshLeg, ScannedName
  <2> QED BY <2>2, <2>5
<1>4. CASE SettleOwedOutflow(v)
  <2>1. Ids' = Ids /\ scans[v].pc = "take"
    BY <1>4 DEF SettleOwedOutflow, TransitionForward, Ids
  <2>2. CASE rows[scans[v].row].state = "owed"
    <3>1. paid' = [paid EXCEPT ![scans[v].row] = ScannedName(v)] /\ NextLeg(v)
      BY <1>4, <2>2 DEF SettleOwedOutflow
    <3>2. scans[v].row \in Ids /\ DOMAIN paid = Ids
      BY <2>1, ScanFacts, TypeFacts DEF LegInv, DirectInv, ScanFits
    <3>3. \A j \in Ids : paid'[j] = IF j = scans[v].row THEN ScannedName(v) ELSE paid[j]
      BY <3>1, <3>2
    <3>4. \A j \in Ids : paid[j] # ScannedName(v)
      BY <2>1 DEF LegInv, FreshLeg
    <3>5. LegPaysOneDebt'
      BY <2>1, <3>3, <3>4 DEF LegInv, LegPaysOneDebt
    <3>6. FreshLeg'
      BY <3>1, NextLegQuiet DEF LegInv, FreshLeg
    <3> QED BY <3>5, <3>6
  <2>3. CASE rows[scans[v].row].state # "owed"
    <3>1. UNCHANGED paid /\ ScanAt(v, [scans[v] EXCEPT !.row = 0], "known")
      BY <1>4, <2>3 DEF SettleOwedOutflow
    <3>2. scans'[v].pc = "known"
      BY <1>1, <3>1 DEF ScanAt, ScanAim
    <3> QED BY <1>1, <2>1, <3>1, <3>2, LegsStay
  <2> QED BY <2>2, <2>3
<1> QED BY <1>2, <1>3, <1>4 DEF WatchStep

\* One transfer of the owners never closes two debts, whatever the ticks
\* before this one had done when they died.
THEOREM LegClosesOne ==
  ASSUME \A v, w \in Watchers : v = w
  PROVE  Spec => []LegPaysOneDebt
<1>1. Init => LegInv
  <2> SUFFICES ASSUME Init PROVE LegInv
    OBVIOUS
  <2>1. Ids = {} /\ \A v \in Watchers : scans[v].pc = "idle"
    BY DEF Init, Ids, NoScan
  <2> QED BY <2>1, DirectInit DEF LegInv, LegPaysOneDebt, FreshLeg
<1>2. LegInv /\ [Next]_vars => LegInv'
  <2> SUFFICES ASSUME LegInv, [Next]_vars PROVE LegInv'
    OBVIOUS
  <2>1. DirectInv'
    BY DirectStep DEF LegInv
  <2>2. ASSUME NEW v \in Watchers, WatchStep(v) \/ CrashScan(v) \/ \E to \in DOMAIN ledger : Scan(v, to)
        PROVE  LegPaysOneDebt' /\ FreshLeg'
    <3>1. Watchers = {v}
      OBVIOUS
    <3> QED BY <2>2, <3>1, LegTick
  <2>3. LegPaysOneDebt' /\ FreshLeg'
    BY <2>2, LegTask, LegChain DEF Next
  <2> QED BY <2>1, <2>3 DEF LegInv
<1> QED BY <1>1, <1>2, PTL DEF Spec, LegInv

=============================================================================
