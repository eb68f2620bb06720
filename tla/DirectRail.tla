------------------------------ MODULE DirectRail ------------------------------
(***************************************************************************)
(* A direct-mode rail.  Monerium mints into the project's own Safe, unless *)
(* the reference was lost on the way: then the EURe sits in the tenant's   *)
(* main Safe and the rail books it as owed (D4).  Such a debt is paid by   *)
(* the ProjectRouter role (ADR 0026), if the rail has one, or else by the  *)
(* owners of the Safe, who are asked to; the watcher of the Safe's         *)
(* outflows matches their transfer with the debt, and reports every        *)
(* transfer it cannot explain.                                             *)
(*                                                                         *)
(* An action is the code between two awaits.  What a settled row does to   *)
(* its intent is the subject of Forwarding.                                *)
(***************************************************************************)
EXTENDS ForwardRows, FiniteSets

CONSTANTS
  Workers,       \* isolates running handleForward or the owed cron
  Watchers,      \* cron ticks of the outflow watcher running at the same time
  Decision,      \* order -> "owed" | "settled_noop" | "contribution"
  IntentOf,      \* order -> the intent it was resolved to
  Kinds,         \* what the watcher compares: <<target, amount>> of a transfer
  Kind,          \* order -> the transfer that pays it
  OtherKind,     \* a transfer no debt asks for
  Routers,       \* whether the rail has a ProjectRouter: BOOLEAN for either
  Thefts,        \* transfers nobody ordered: <<"role" | "module", kind>>
  Batch,         \* debts the cron reads at once
  MaxRows,       \* bound: rows an order may get
  MaxTxs,        \* bound: transactions
  MaxCrashes     \* bound: evictions

ASSUME DirectAssumption ==
  /\ Decision \in [Orders -> {"owed", "settled_noop", "contribution"}]
  /\ IntentOf \in [Orders -> Sids]
  /\ Kind \in [Orders -> Kinds \ {OtherKind}] /\ OtherKind \in Kinds
  /\ Routers \subseteq BOOLEAN
  /\ Thefts \subseteq {"role", "module"} \X Kinds
ASSUME DirectBoundsAssumption ==
  Batch \in Nat \ {0} /\ MaxRows \in Nat /\ MaxTxs \in Nat /\ MaxCrashes \in Nat

VARIABLES
  paid,      \* row -> <<tx_hash, tx_log_index>>; 0 for NULL
  txs,       \* transactions that move EURe out of the main Safe
  ledger,    \* those that were mined, in the order of their blocks
  router,    \* the rail has a ProjectRouter; fixed
  asked,     \* rows whose debt the owners were asked to pay by hand
  cursor,    \* chain_watch_cursor: how far of the ledger has been scanned
  reported,  \* outflows reported: <<transaction, leg, verdict>>
  tasks,     \* worker -> the debts it is routing
  scans,     \* watcher -> where in the ledger it is
  crashes    \* evictions so far

chainVars == <<txs, ledger>>
watchVars == <<cursor, reported, scans>>
vars == <<rows, paid, txs, ledger, router, asked, cursor, reported, tasks, scans, crashes>>

Paths    == {"router", "owners", "role", "module"}
Verdicts == {"role_unknown", "role_unhashed", "module_unknown", "other"}

\* `for` is the row whose debt the sender meant to pay, 0 for none; nothing on
\* the chain shows it.
Leg == [kind : Kinds, for : Nat]
Tx  == [path : Paths, legs : Seq(Leg), state : {"pool", "mined", "failed"}]

NoTx == <<0, 0>>

\* The debt a worker routes, those it has listed after it, and the transaction
\* it has just sent.
Task == [pc : {"idle", "ask", "simulate", "claim", "broadcast", "submit", "fail"},
         row : Nat, rest : SUBSET Nat, tx : Nat]

\* The leg of a transaction of the ledger a tick has come to, the last
\* transaction it is to look at, and the row it has found.
ScanAim == [pc : {"idle", "used", "match", "take", "known", "verdict", "cursor"},
            pos : Nat, leg : Nat, to : Nat, row : Nat]

NoTask == [pc |-> "idle", row |-> 0, rest |-> {}, tx |-> 0]
NoScan == [pc |-> "idle", pos |-> 0, leg |-> 0, to |-> 0, row |-> 0]

Init ==
  /\ rows = << >> /\ paid = << >> /\ txs = << >> /\ ledger = << >>
  /\ router \in Routers /\ asked = {}
  /\ cursor = 0 /\ reported = {} /\ crashes = 0
  /\ tasks = [w \in Workers |-> NoTask] /\ scans = [v \in Watchers |-> NoScan]

Owed(i) == rows[i].state = "owed" /\ ~ rows[i].hashed

\* A transaction may still be made: those that a worker is about to make
\* are counted.
Making == {w \in Workers : tasks[w].pc \in {"claim", "broadcast"}}
TxRoom == Len(txs) + Cardinality(Making) < MaxTxs

-----------------------------------------------------------------------------
(* handleForward on a direct rail *)

\* The decision of the gate, the claim (a single candidate) and, for a debt,
\* what is to be done about it.  Whether there is a router was read with the
\* rail, at the start.
HandleForward(w, o) ==
  LET r == [order |-> o, state |-> Decision[o], hashed |-> FALSE,
            sid |-> IF Decision[o] = "contribution" THEN NoSid ELSE IntentOf[o],
            via |-> IF Decision[o] = "owed" THEN "auto" ELSE "memo"]
  IN
  /\ tasks[w] = NoTask
  /\ Cardinality({i \in Ids : rows[i].order = o}) < MaxRows
  /\ ~ LatestIn(o, {"submitted", "resolved_offrail"} \cup Confirmed)
  /\ Inserts(r) /\ InsertForward(r)
  /\ paid' = Append(paid, NoTx)
  /\ tasks' = IF Decision[o] = "owed"
              THEN [tasks EXCEPT ![w].pc = IF router THEN "simulate" ELSE "ask",
                                 ![w].row = Len(rows) + 1]
              ELSE tasks
  /\ UNCHANGED <<chainVars, watchVars, router, asked, crashes>>

AskOwners(w) ==
  /\ tasks[w].pc = "ask"
  /\ asked' = asked \cup {tasks[w].row}
  /\ tasks' = [tasks EXCEPT ![w] = NoTask]
  /\ UNCHANGED <<rows, paid, chainVars, watchVars, router, crashes>>

-----------------------------------------------------------------------------
(* routeOwed, by the webhook for its own debt and by the cron for a list *)

ListOwedForwards ==
  {i \in Ids : Owed(i) /\ Cardinality({j \in Ids : j < i /\ Owed(j)}) < Batch}

\* The oldest debt first.
RouteOldest(w, debts) ==
  \E i \in debts :
    /\ \A j \in debts : i <= j
    /\ tasks' = [tasks EXCEPT ![w] = [pc |-> "simulate", row |-> i, rest |-> debts \ {i}, tx |-> 0]]

NextDebt(w) ==
  IF tasks[w].rest = {} THEN tasks' = [tasks EXCEPT ![w] = NoTask]
                        ELSE RouteOldest(w, tasks[w].rest)

\* A slip: one transaction of the router at a time.
RouteOneAtATime(w) ==
  /\ router /\ tasks[w] = NoTask
  /\ ~ \E i \in Ids : rows[i].state \in {"broadcasting", "submitted"}
  /\ RouteOldest(w, ListOwedForwards)
  /\ UNCHANGED <<rows, paid, chainVars, watchVars, router, asked, crashes>>

RouteAllOwed(w) ==
  /\ router /\ tasks[w] = NoTask
  /\ RouteOldest(w, ListOwedForwards)
  /\ UNCHANGED <<rows, paid, chainVars, watchVars, router, asked, crashes>>

\* The modifier refuses while the project is not in the role, and the Safe
\* while it lacks the balance.
Refused(w) ==
  /\ tasks[w].pc = "simulate"
  /\ NextDebt(w)
  /\ UNCHANGED <<rows, paid, chainVars, watchVars, router, asked, crashes>>

Simulated(w) ==
  /\ tasks[w].pc = "simulate" /\ TxRoom
  /\ tasks' = [tasks EXCEPT ![w].pc = "claim"]
  /\ UNCHANGED <<rows, paid, chainVars, watchVars, router, asked, crashes>>

\* A slip: the outcome of the UPDATE is not looked at.
ClaimBlindly(w) ==
  /\ tasks[w].pc = "claim"
  /\ TransitionForward(tasks[w].row, "router_claim", FALSE)
  /\ tasks' = [tasks EXCEPT ![w].pc = "broadcast"]
  /\ UNCHANGED <<paid, chainVars, watchVars, router, asked, crashes>>

ClaimOwed(w) ==
  LET i == tasks[w].row IN
  /\ tasks[w].pc = "claim"
  /\ TransitionForward(i, "router_claim", FALSE)
  /\ IF rows[i].state = "owed" THEN tasks' = [tasks EXCEPT ![w].pc = "broadcast"]
                               ELSE NextDebt(w)
  /\ UNCHANGED <<paid, chainVars, watchVars, router, asked, crashes>>

\* The call may fail although the node has taken the transaction.  The one
\* retry after a nonce collision sends nothing twice and is left out.
Broadcast(w) ==
  LET i == tasks[w].row
      t == [path |-> "router", legs |-> <<[kind |-> Kind[rows[i].order], for |-> i]>>, state |-> "pool"]
  IN
  /\ tasks[w].pc = "broadcast"
  /\ \/ /\ txs' = Append(txs, t)
        /\ tasks' = [tasks EXCEPT ![w].pc = "submit", ![w].tx = Len(txs) + 1]
     \/ /\ tasks' = [tasks EXCEPT ![w].pc = "fail"]
        /\ txs' = Append(txs, t) \/ UNCHANGED txs
  /\ UNCHANGED <<rows, paid, ledger, watchVars, router, asked, crashes>>

RecordBroadcast(w) ==
  LET i == tasks[w].row IN
  /\ tasks[w].pc \in {"submit", "fail"}
  /\ IF tasks[w].pc = "submit"
     THEN /\ TransitionForward(i, "broadcast_ok", TRUE)
          /\ paid' = IF rows[i].state = "broadcasting"
                     THEN [paid EXCEPT ![i] = <<tasks[w].tx, 0>>] ELSE paid
     ELSE TransitionForward(i, "broadcast_failed", FALSE) /\ UNCHANGED paid
  /\ NextDebt(w)
  /\ UNCHANGED <<chainVars, watchVars, router, asked, crashes>>

\* The poll, the cron reconcile, the status read and the watcher itself: the
\* first to see the receipt flips the row.
Settle(i) ==
  /\ rows[i].state = "submitted" /\ txs[paid[i][1]].state # "pool"
  /\ TransitionForward(i, IF txs[paid[i][1]].state = "mined" THEN "receipt_confirmed"
                                                             ELSE "receipt_failed", TRUE)
  /\ UNCHANGED <<paid, chainVars, watchVars, router, asked, tasks, crashes>>

-----------------------------------------------------------------------------
(* The chain, the owners, and whoever else holds a key *)

Mine(tx) == txs' = Append(txs, tx) /\ ledger' = Append(ledger, Len(txs) + 1)

\* "failed": reverted, or dropped and never mined.
ChainMoves(t, state) ==
  /\ txs[t].state = "pool"
  /\ txs' = [txs EXCEPT ![t].state = state]
  /\ ledger' = IF state = "mined" THEN Append(ledger, t) ELSE ledger
  /\ UNCHANGED <<rows, paid, watchVars, router, asked, tasks, crashes>>

\* The transactions of the owners that pay the debt of a row.
ByHand(i) == {t \in DOMAIN txs : txs[t].path = "owners" /\ \E l \in DOMAIN txs[t].legs : txs[t].legs[l].for = i}

\* One transaction of the owners: a debt they were asked to pay, two of them,
\* or one with something else before or after it.
OwnersPay(i, j) ==
  LET leg(k) == [kind |-> IF k = 0 THEN OtherKind ELSE Kind[rows[k].order], for |-> k]
      ready(k) == k = 0 \/ (k \in asked /\ ByHand(k) = {})
  IN
  /\ TxRoom /\ ready(i) /\ ready(j) /\ {i, j} # {0}
  /\ Mine([path |-> "owners", state |-> "mined",
           legs |-> IF i = j THEN <<leg(i)>> ELSE <<leg(i), leg(j)>>])
  /\ UNCHANGED <<rows, paid, watchVars, router, asked, tasks, crashes>>

Steal(path, kind) ==
  /\ TxRoom /\ <<path, kind>> \in Thefts
  /\ Mine([path |-> path, legs |-> <<[kind |-> kind, for |-> 0]>>, state |-> "mined"])
  /\ UNCHANGED <<rows, paid, watchVars, router, asked, tasks, crashes>>

-----------------------------------------------------------------------------
(* watchSafeOutflows: one tick, leg by leg *)

ScannedLeg(v) == LET s == scans[v] IN txs[ledger[s.pos]].legs[s.leg]
ScannedName(v) == <<ledger[scans[v].pos], scans[v].leg>>

\* A slip: what already has a row is let pass before debts are matched.
FirstCheckKnown(pos) == "known"

\* A slip: a module's transfer may pay a debt as well.
FirstCheckAny(pos) == "used"

\* classify: only what the owners executed themselves can pay a debt.
FirstCheck(pos) == IF txs[ledger[pos]].path = "owners" THEN "used" ELSE "known"

ScanAt(v, s, pc) == scans' = [scans EXCEPT ![v] = [s EXCEPT !.pc = pc]]

NextLeg(v) ==
  LET s == scans[v] IN
  IF s.leg < Len(txs[ledger[s.pos]].legs)
  THEN ScanAt(v, [s EXCEPT !.leg = s.leg + 1, !.row = 0], FirstCheck(s.pos))
  ELSE IF s.pos < s.to
       THEN ScanAt(v, [s EXCEPT !.pos = s.pos + 1, !.leg = 1, !.row = 0], FirstCheck(s.pos + 1))
       ELSE ScanAt(v, [s EXCEPT !.row = 0], "cursor")

\* How far the tick looks is left open: the confirmation lag, the largest
\* range, and the range a node is willing to answer.
Scan(v, to) ==
  /\ scans[v] = NoScan /\ to \in (cursor + 1)..Len(ledger)
  /\ ScanAt(v, [NoScan EXCEPT !.pos = cursor + 1, !.leg = 1, !.to = to], FirstCheck(cursor + 1))
  /\ UNCHANGED <<rows, paid, chainVars, router, asked, cursor, reported, tasks, crashes>>

\* A slip: whether the leg has been used is not asked.
NeverUsed(v) ==
  /\ scans[v].pc = "used"
  /\ ScanAt(v, scans[v], "match")
  /\ UNCHANGED <<rows, paid, chainVars, router, asked, cursor, reported, tasks, crashes>>

LegUsed(v) ==
  /\ scans[v].pc = "used"
  /\ ScanAt(v, scans[v], IF \E i \in Ids : paid[i] = ScannedName(v) THEN "known" ELSE "match")
  /\ UNCHANGED <<rows, paid, chainVars, router, asked, cursor, reported, tasks, crashes>>

\* The oldest debt for the same target and amount.
MatchOwed(v) ==
  LET fits == {i \in Ids : Owed(i) /\ Kind[rows[i].order] = ScannedLeg(v).kind} IN
  /\ scans[v].pc = "match"
  /\ \/ fits = {} /\ ScanAt(v, scans[v], "known")
     \/ \E i \in fits : /\ \A j \in fits : i <= j
                        /\ ScanAt(v, [scans[v] EXCEPT !.row = i], "take")
  /\ UNCHANGED <<rows, paid, chainVars, router, asked, cursor, reported, tasks, crashes>>

SettleOwedOutflow(v) ==
  LET i == scans[v].row IN
  /\ scans[v].pc = "take"
  /\ TransitionForward(i, "owners_transfer", TRUE)
  /\ IF rows[i].state = "owed"
     THEN paid' = [paid EXCEPT ![i] = ScannedName(v)] /\ NextLeg(v)
     ELSE ScanAt(v, [scans[v] EXCEPT !.row = 0], "known") /\ UNCHANGED paid
  /\ UNCHANGED <<chainVars, router, asked, cursor, reported, tasks, crashes>>

IsKnownForwardTx(v) ==
  /\ scans[v].pc = "known"
  /\ IF \E i \in Ids : paid[i][1] = ledger[scans[v].pos]
     THEN NextLeg(v) ELSE ScanAt(v, scans[v], "verdict")
  /\ UNCHANGED <<rows, paid, chainVars, router, asked, cursor, reported, tasks, crashes>>

\* A row without a hash only explains a transfer while it is young.
VerdictsOf(v) ==
  LET path == txs[ledger[scans[v].pos]].path IN
  CASE path = "owners" -> {"other"}
    [] path = "module" -> {"module_unknown"}
    [] OTHER -> {"role_unknown"} \cup
         (IF \E i \in Ids : /\ rows[i].state = "broadcasting"
                            /\ Kind[rows[i].order] = ScannedLeg(v).kind
          THEN {"role_unhashed"} ELSE {})

\* The alert and the audit entry.
Report(v, verdict) ==
  /\ scans[v].pc = "verdict" /\ verdict \in VerdictsOf(v)
  /\ reported' = reported \cup {<<ScannedName(v)[1], scans[v].leg, verdict>>}
  /\ NextLeg(v)
  /\ UNCHANGED <<rows, paid, chainVars, router, asked, cursor, tasks, crashes>>

\* A slip: the cursor goes to the head although the range was cut.
SetCursorToHead(v) ==
  /\ scans[v].pc = "cursor"
  /\ cursor' = Len(ledger)
  /\ scans' = [scans EXCEPT ![v] = NoScan]
  /\ UNCHANGED <<rows, paid, chainVars, router, asked, reported, tasks, crashes>>

SetCursor(v) ==
  /\ scans[v].pc = "cursor"
  /\ cursor' = scans[v].to
  /\ scans' = [scans EXCEPT ![v] = NoScan]
  /\ UNCHANGED <<rows, paid, chainVars, router, asked, reported, tasks, crashes>>

-----------------------------------------------------------------------------
CrashTask(w) ==
  /\ tasks[w] # NoTask /\ crashes < MaxCrashes
  /\ tasks' = [tasks EXCEPT ![w] = NoTask] /\ crashes' = crashes + 1
  /\ UNCHANGED <<rows, paid, chainVars, watchVars, router, asked>>

CrashScan(v) ==
  /\ scans[v] # NoScan /\ crashes < MaxCrashes
  /\ scans' = [scans EXCEPT ![v] = NoScan] /\ crashes' = crashes + 1
  /\ UNCHANGED <<rows, paid, chainVars, router, asked, cursor, reported, tasks>>

Route(w) == AskOwners(w) \/ Simulated(w) \/ ClaimOwed(w) \/ Broadcast(w) \/ RecordBroadcast(w)

WatchStep(v) ==
  \/ LegUsed(v) \/ MatchOwed(v) \/ SettleOwedOutflow(v) \/ IsKnownForwardTx(v)
  \/ SetCursor(v) \/ \E verdict \in Verdicts : Report(v, verdict)

Next ==
  \/ \E w \in Workers :
       \/ Route(w) \/ RouteAllOwed(w) \/ Refused(w) \/ CrashTask(w)
       \/ \E o \in Orders : HandleForward(w, o)
  \/ \E i \in Ids : Settle(i)
  \/ \E t \in DOMAIN txs, state \in {"mined", "failed"} : ChainMoves(t, state)
  \/ \E i, j \in Ids \cup {0} : OwnersPay(i, j)
  \/ \E path \in Paths, kind \in Kinds : Steal(path, kind)
  \/ \E v \in Watchers : WatchStep(v) \/ CrashScan(v) \/ \E to \in DOMAIN ledger : Scan(v, to)

Spec == Init /\ [][Next]_vars

\* Isolates run to their end unless evicted, the cron comes every 2 minutes
\* and starts the watcher, the sweep of the debts and the reconcile; a debt
\* is not refused for ever.
Fairness ==
  /\ WF_vars(\E w \in Workers : Route(w))
  /\ SF_vars(\E w \in Workers : Simulated(w)) /\ SF_vars(\E w \in Workers : RouteAllOwed(w))
  /\ WF_vars(\E v \in Watchers : WatchStep(v) \/ \E to \in DOMAIN ledger : Scan(v, to))
  /\ WF_vars(\E i \in Ids : Settle(i))
FairSpec == Spec /\ Fairness

-----------------------------------------------------------------------------
(* Properties *)

\* The type invariant of the direct rail.
TypeOK ==
  /\ RowsTypeOK
  /\ paid \in Seq(Nat \X Nat) /\ Len(paid) = Len(rows)
  /\ txs \in Seq(Tx) /\ ledger \in Seq(Nat)
  /\ router \in BOOLEAN /\ asked \subseteq Ids
  /\ cursor \in 0..Len(ledger)
  /\ reported \subseteq Nat \X Nat \X Verdicts
  /\ tasks \in [Workers -> Task] /\ scans \in [Watchers -> ScanAim]
  /\ crashes \in 0..MaxCrashes

\* The payments of the debt of row i: transfers made for it that may still
\* arrive or have arrived.
Payments(i) ==
  {n \in (DOMAIN txs) \X (1..2) :
     /\ txs[n[1]].state \in {"pool", "mined"}
     /\ n[2] \in DOMAIN txs[n[1]].legs /\ txs[n[1]].legs[n[2]].for = i}

\* A debt is paid once, whichever of the webhook and the sweeps of the cron
\* gets to it ("the webhook and the cron can never both pay the same debt"),
\* also after an RPC error for a transaction that went out ("`failed`, not
\* back to `owed`: an ambiguous RPC error may mean the tx went out after all").
PaidOnce == \A i \in Ids : Cardinality(Payments(i)) <= 1

\* One transfer of the owners closes one debt ("jedan leg po redu"), though a
\* tick is evicted and the next one scans the same blocks again ("A leg that
\* already consumed a row (rescan after a crash) matches nothing").
LegPaysOneDebt ==
  \A i, j \in Ids : (i # j /\ paid[i] # NoTx) => paid[i] # paid[j]

\* A row is settled by the rail's own transaction for its order, or by a
\* transfer of the owners of just its amount to its target; a transfer through
\* a stolen key or another module never passes for one.
ForwardedIsPaid ==
  \A i \in Ids : rows[i].state = "forwarded" =>
    LET tx == txs[paid[i][1]] IN
    /\ tx.state = "mined"
    /\ \/ tx.path = "router" /\ tx.legs[1].for = i
       \/ tx.path = "owners" /\ tx.legs[paid[i][2]].kind = Kind[rows[i].order]

\* What the cursor has passed was not missed: a row names the transaction or
\* the transfer has been reported, though ticks are evicted and ranges cut.
ScannedIsExplained ==
  \A p \in 1..cursor : \A l \in DOMAIN txs[ledger[p]].legs :
    \/ \E i \in Ids : paid[i][1] = ledger[p]
    \/ \E verdict \in Verdicts : <<ledger[p], l, verdict>> \in reported

\* The owners do as they are asked, and each of their transfers closes a debt
\* (one of the same amount to the same target), also when two are paid by one
\* transaction or a tick dies between its legs: again and again there comes a
\* time when none is waiting to be seen.
HandPaymentIsSeen ==
  []<>(\A t \in DOMAIN txs : \A l \in DOMAIN txs[t].legs :
         (txs[t].path = "owners" /\ txs[t].legs[l].for # 0) =>
           \E i \in Ids : paid[i] = <<t, l>> /\ rows[i].state = "forwarded")

\* With a router no debt is left lying: it is claimed or settled, unless the
\* bound on transactions is reached.
DebtIsTaken ==
  []<>(router => (\A o \in Orders : ~ LatestIn(o, {"owed"})) \/ ~ TxRoom)

=============================================================================
