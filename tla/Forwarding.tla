------------------------------ MODULE Forwarding ------------------------------
(***************************************************************************)
(* A forward-mode rail: how the money of a processed Monerium order leaves *)
(* the receiving Safe, and how the payment intent it paid is settled.      *)
(*                                                                         *)
(* Nothing here is locked.  Every webhook delivery, cron run, status read  *)
(* and admin request is an isolate of its own (a worker), and a worker     *)
(* gives way to the others at every `await`: an action is the code between *)
(* two awaits.  What keeps them apart is in the database: the latches of   *)
(* ForwardRows and the guarded updates of ForwardRows and Intents.         *)
(***************************************************************************)
EXTENDS ForwardRows, Intents, FiniteSets

CONSTANTS
  Workers,    \* isolates running at the same time
  Carries,    \* order -> "memo" | "code" | "stray": what the remittance names
  Named,      \* order -> the sid so named; NoSid in a memo = a campaign
  Payee,      \* sid -> target_address of the intent
  Created,    \* sid -> created_at of the intent (a rank)
  Trusted,    \* sids whose destination is trusted (SR-01)
  Near,       \* order -> sids created inside its look-back window
  OpenAt,     \* order -> sids still open when it was placed
  Gate,       \* what authorizeForward may decide about a target
  PaidByHand, \* orders the owners paid by hand, outside the rail
  Forced,     \* operators give the written reason that lifts a refusal
  Faults,     \* RPC faults that may happen: "ambiguous_rpc", "blind_node"
  Fates,      \* how a broadcast transaction may end
  MaxRows,    \* bound: order -> rows it may get
  MaxCrashes  \* bound: evictions

ASSUME RoutingAssumption ==
  /\ Carries \in [Orders -> {"memo", "code", "stray"}]
  /\ Named \in [Orders -> Sids \cup {NoSid}]
  /\ \A o \in Orders : Carries[o] = "code" => Named[o] # NoSid
ASSUME TrustedAssumption == Trusted \subseteq Sids
ASSUME GateAssumption == Gate \subseteq {"broadcasting", "settled_noop", "blocked"}
ASSUME FatesAssumption == Fates \subseteq {"mined", "reverted", "gone"}
ASSUME BoundsAssumption == MaxRows \in [Orders -> Nat] /\ MaxCrashes \in Nat

VARIABLES
  chain,     \* row -> state of the transaction broadcast for it
  outbox,    \* merchant events enqueued: <<type, what its webhook-id names>>
  tasks,     \* worker -> the continuation it runs
  crashes    \* evictions so far

vars == <<rows, intents, chain, outbox, tasks, crashes>>

TxStates == {"none", "pool", "mined", "reverted", "gone"}
Events   == ({"int", "undp", "late"} \X Sids) \cup ({"cmp", "blk"} \X Orders)

PCs == {"idle", "code", "resolve", "gate", "claim", "lost", "park", "blocked",
        "send", "sent", "unsent", "poll", "confirm", "fail",
        "full", "short", "late", "tell", "offrail"}

\* One worker: where it is, the order it works for, the row it inserted or
\* settles, the intents it may still claim, how it found them, the state its
\* row is to be born in, and the event it is about to enqueue.
Task == [pc : PCs, order : Orders \cup {NoOrder}, row : Nat,
         cands : SUBSET (Sids \cup {NoSid}), via : Vias, birth : States,
         event : {"int", "undp", "late", "cmp", "blk"}]

Idle == [pc |-> "idle", order |-> NoOrder, row |-> 0, cands |-> {},
         via |-> "memo", birth |-> "blocked", event |-> "blk"]

Init ==
  /\ rows = << >> /\ chain = << >>
  /\ IntentsInit
  /\ outbox = {} /\ crashes = 0
  /\ tasks = [w \in Workers |-> Idle]

-----------------------------------------------------------------------------
(* Helpers *)

At(w, pc)  == tasks[w].pc = pc
Become(w, t) == tasks' = [tasks EXCEPT ![w] = t]
Goto(w, pc)  == tasks' = [tasks EXCEPT ![w].pc = pc]
Rest(w)      == Become(w, Idle)

HasLiveRow(s) == \E i \in Ids : rows[i].sid = s /\ rows[i].state \in Live

\* The bound MaxRows: the rows of an order, those that its tasks may still
\* insert counted (a task inserts at most one).
MayInsert(o) == {w \in Workers : tasks[w].order = o /\ tasks[w].pc \in
                   {"code", "resolve", "gate", "claim", "lost", "park", "offrail"}}
Room(o) == Cardinality({i \in Ids : rows[i].order = o}) + Cardinality(MayInsert(o)) < MaxRows[o]

MemoSid(o) == IF Carries[o] = "memo" THEN Named[o] ELSE NoSid

\* The start of handleForward for an order as its remittance names it.
HandleForward(o) ==
  IF Carries[o] = "memo"
  THEN [Idle EXCEPT !.pc = "gate", !.order = o, !.cands = {Named[o]}]
  ELSE [Idle EXCEPT !.pc = IF Carries[o] = "code" THEN "code" ELSE "resolve", !.order = o]

\* handleForward with the intent an operator picked.
HandleManual(o, s) ==
  [Idle EXCEPT !.pc = "gate", !.order = o, !.cands = {s}, !.via = "manual"]

\* What findStrayCandidates offers and resolveStray makes of it: the intents
\* open at placement decide alone if there are any, and the deciding tier
\* must agree on the payee ({}: park).
StrayCandidates(o) ==
  {s \in Near[o] : Price[s] = Amount[o] /\ Unsettled(s) /\ ~ HasLiveRow(s)}
ResolveStray(o, candidates) ==
  LET live == candidates \cap Trusted
      tier == IF live \cap OpenAt[o] # {} THEN live \cap OpenAt[o] ELSE live
  IN  IF \A s, t \in tier : Payee[s] = Payee[t] THEN tier ELSE {}

\* The intents a task may claim next: the newest, any of them on a tie.
Claimable(t) ==
  IF t.via = "memo" THEN {MemoSid(t.order)}
  ELSE {s \in t.cands : \A c \in t.cands : Created[c] <= Created[s]}

-----------------------------------------------------------------------------
(* From the order to the broadcast: maybeForward and handleForward *)

MaybeForward(w, o) ==
  /\ At(w, "idle") /\ Room(o)
  /\ ~ LatestIn(o, {"submitted", "resolved_offrail"} \cup Confirmed)
  /\ Become(w, HandleForward(o))
  /\ UNCHANGED <<rows, intents, chain, outbox, crashes>>

\* A code that nothing holds (any more) falls through to the resolver; how
\* long a hold lasts is left open.
MatchShortRef(w) ==
  LET o == tasks[w].order IN
  /\ At(w, "code")
  /\ \/ /\ Unsettled(Named[o]) /\ ~ HasLiveRow(Named[o]) /\ Named[o] \in Trusted
        /\ Become(w, [tasks[w] EXCEPT !.pc = "gate", !.cands = {Named[o]}, !.via = "code"])
     \/ Goto(w, "resolve")
  /\ UNCHANGED <<rows, intents, chain, outbox, crashes>>

FindStray(w) ==
  LET sids == ResolveStray(tasks[w].order, StrayCandidates(tasks[w].order)) IN
  /\ At(w, "resolve")
  /\ Become(w, [tasks[w] EXCEPT !.pc = "gate", !.cands = sids,
                                !.via = IF sids = {} THEN "memo" ELSE "auto"])
  /\ UNCHANGED <<rows, intents, chain, outbox, crashes>>

\* The gate's tenant, whitelist, cap and mint checks are left to Gate; a
\* routing without a target is refused as unrouted, one to an intent that
\* does not exist as blocked.
Decisions(t) ==
  IF t.cands = {} THEN {"unrouted"} \cup (Gate \cap {"blocked"})
  ELSE IF \E s \in t.cands \cap Sids : intents[s].state = "none" THEN {"blocked"}
  ELSE Gate

\* A slip: a refusal ends the task without a row.
AuthorizeSilently(w) ==
  /\ At(w, "gate")
  /\ \E d \in Decisions(tasks[w]) :
       IF d \in Parked THEN Rest(w)
       ELSE Become(w, [tasks[w] EXCEPT !.pc = "claim", !.birth = d])
  /\ UNCHANGED <<rows, intents, chain, outbox, crashes>>

AuthorizeForward(w) ==
  /\ At(w, "gate")
  /\ \E d \in Decisions(tasks[w]) :
       Become(w, [tasks[w] EXCEPT !.pc = IF d \in Parked THEN "park" ELSE "claim",
                                  !.birth = d])
  /\ UNCHANGED <<rows, intents, chain, outbox, crashes>>

\* One INSERT of claimForward: it takes the latch or loses it.
ClaimForward(w) ==
  LET t == tasks[w] IN
  /\ At(w, "claim")
  /\ \E s \in Claimable(t) :
       LET r == [order |-> t.order, sid |-> s, via |-> t.via,
                 state |-> t.birth, hashed |-> FALSE]
       IN
       \/ /\ Inserts(r)
          /\ InsertForward(r)
          /\ chain' = Append(chain, "none")
          /\ IF t.birth = "broadcasting" THEN Become(w, [t EXCEPT !.pc = "send", !.row = Len(rows) + 1])
             ELSE IF s # NoSid THEN Become(w, [t EXCEPT !.pc = "full", !.row = Len(rows) + 1])
             ELSE Rest(w)
       \/ /\ ~ Inserts(r)
          /\ IF t.via = "memo" THEN Rest(w)
             ELSE Become(w, [t EXCEPT !.pc = "lost", !.cands = @ \ {s}])
          /\ UNCHANGED <<rows, chain>>
  /\ UNCHANGED <<intents, outbox, crashes>>

\* Which latch was lost?  The order's: another delivery owns it, stop.  The
\* intent's: try the next candidate; none left: park.
LostLatch(w) ==
  LET t == tasks[w] IN
  /\ At(w, "lost")
  /\ IF LatestIn(t.order, Live) THEN Rest(w)
     ELSE IF t.cands = {} THEN Become(w, [t EXCEPT !.pc = "park", !.birth = "unrouted"])
     ELSE Goto(w, "claim")
  /\ UNCHANGED <<rows, intents, chain, outbox, crashes>>

\* A parked row always names what the remittance said, never a guess; the
\* merchant is told only when that names an intent or a campaign.
Park(w) ==
  LET t == tasks[w] IN
  /\ At(w, "park")
  /\ InsertForward([order |-> t.order, sid |-> MemoSid(t.order), via |-> "memo",
                    state |-> t.birth, hashed |-> FALSE])
  /\ chain' = Append(chain, "none")
  /\ IF Carries[t.order] = "memo"
     THEN Become(w, [t EXCEPT !.pc = "blocked", !.row = Len(rows) + 1]) ELSE Rest(w)
  /\ UNCHANGED <<intents, outbox, crashes>>

EmitBlocked(w) ==
  /\ At(w, "blocked")
  /\ outbox' = outbox \cup {<<"blk", tasks[w].order>>}
  /\ Rest(w)
  /\ UNCHANGED <<rows, intents, chain, crashes>>

\* forwardViaSafe: accepted, refused, or (a fault) accepted although the call
\* failed.  A nonce collision is refused and sent once more: one step here.
ForwardViaSafe(w) ==
  /\ At(w, "send")
  /\ \/ /\ chain' = [chain EXCEPT ![tasks[w].row] = "pool"]
        /\ Goto(w, "sent")
     \/ /\ Goto(w, "unsent")
        /\ UNCHANGED chain
     \/ /\ "ambiguous_rpc" \in Faults
        /\ chain' = [chain EXCEPT ![tasks[w].row] = "pool"]
        /\ Goto(w, "unsent")
  /\ UNCHANGED <<rows, intents, outbox, crashes>>

\* A slip: the intent is settled on the broadcast.
UpdateAndSettle(w) ==
  /\ \/ /\ At(w, "sent")
        /\ TransitionForward(tasks[w].row, "broadcast_ok", TRUE)
        /\ Goto(w, IF rows[tasks[w].row].sid = NoSid THEN "poll" ELSE "full")
     \/ /\ At(w, "unsent")
        /\ TransitionForward(tasks[w].row, "broadcast_failed", FALSE)
        /\ Rest(w)
  /\ UNCHANGED <<intents, chain, outbox, crashes>>

UpdateForward(w) ==
  /\ \/ /\ At(w, "sent")
        /\ TransitionForward(tasks[w].row, "broadcast_ok", TRUE)
        /\ Goto(w, "poll")
     \/ /\ At(w, "unsent")
        /\ TransitionForward(tasks[w].row, "broadcast_failed", FALSE)
        /\ Rest(w)
  /\ UNCHANGED <<intents, chain, outbox, crashes>>

-----------------------------------------------------------------------------
(* From the receipt to the merchant: confirm.ts *)

\* The primary path: the worker that broadcast polls the receipt, and gives
\* up after the last delay.
PollForwardConfirmation(w) ==
  /\ At(w, "poll")
  /\ \/ chain[tasks[w].row] = "mined"    /\ Goto(w, "confirm")
     \/ chain[tasks[w].row] = "reverted" /\ Goto(w, "fail")
     \/ Rest(w)
  /\ UNCHANGED <<rows, intents, chain, outbox, crashes>>

\* A slip: no receipt after half an hour is enough, the mempool is not asked.
NoReceiptYet(i) == chain[i] \in {"gone", "pool"}

\* The other two paths: the cron over submitted rows and the status read.
\* They read the row and then its receipt; a row that has moved on in between
\* only makes the guarded update below a no-op, so the two reads are one step.
\* Only the cron gives up on a transaction no node knows.
LooksDropped(i) == chain[i] = "gone" \/ (chain[i] = "pool" /\ "blind_node" \in Faults)

\* A slip: only receipts settle a row, a vanished transaction does not.
ReadReceiptOnly(w, i) ==
  LET Take(pc) == Become(w, [Idle EXCEPT !.pc = pc, !.order = rows[i].order, !.row = i]) IN
  /\ At(w, "idle")
  /\ rows[i].state = "submitted" /\ rows[i].hashed
  /\ \/ chain[i] = "mined" /\ Take("confirm")
     \/ chain[i] = "reverted" /\ Take("fail")
  /\ UNCHANGED <<rows, intents, chain, outbox, crashes>>

ReadReceipt(w, i) ==
  LET Take(pc) == Become(w, [Idle EXCEPT !.pc = pc, !.order = rows[i].order, !.row = i]) IN
  /\ At(w, "idle")
  /\ rows[i].state = "submitted" /\ rows[i].hashed
  /\ \/ chain[i] = "mined" /\ Take("confirm")
     \/ (chain[i] = "reverted" \/ LooksDropped(i)) /\ Take("fail")
  /\ UNCHANGED <<rows, intents, chain, outbox, crashes>>

\* A slip: the effects do not wait for the UPDATE to take effect.
SettleEveryReceipt(w) ==
  LET i == tasks[w].row IN
  /\ At(w, "confirm")
  /\ TransitionForward(i, "receipt_confirmed", rows[i].hashed)
  /\ IF rows[i].sid # NoSid THEN Goto(w, "full")
     ELSE Become(w, [tasks[w] EXCEPT !.pc = "tell", !.event = "cmp"])
  /\ UNCHANGED <<intents, chain, outbox, crashes>>

\* confirmForwardOnce: only the worker whose UPDATE took effect goes on.
SettleConfirmedForward(w) ==
  LET i == tasks[w].row IN
  /\ At(w, "confirm")
  /\ TransitionForward(i, "receipt_confirmed", rows[i].hashed)
  /\ IF rows[i].state # "submitted" THEN Rest(w)
     ELSE IF rows[i].sid # NoSid THEN Goto(w, "full")
     ELSE Become(w, [tasks[w] EXCEPT !.pc = "tell", !.event = "cmp"])
  /\ UNCHANGED <<intents, chain, outbox, crashes>>

MarkForwardFailed(w) ==
  /\ At(w, "fail")
  /\ TransitionForward(tasks[w].row, "receipt_failed", rows[tasks[w].row].hashed)
  /\ Rest(w)
  /\ UNCHANGED <<intents, chain, outbox, crashes>>

\* flipPaidAndNotify: three guarded writes, tried one after the other; the
\* event rides on the one that took effect.
Then(w, pc, event) == Become(w, [tasks[w] EXCEPT !.pc = pc, !.event = event])

FlipPaid(w) ==
  LET s == rows[tasks[w].row].sid
      o == tasks[w].order
  IN
  /\ \/ /\ At(w, "full")
        /\ IF FullApplies(s, o) THEN MarkIntentPaid(s, o) /\ Then(w, "tell", "int")
           ELSE Goto(w, "short") /\ UNCHANGED intents
     \/ /\ At(w, "short")
        /\ IF ShortApplies(s, o) THEN MarkIntentUnderpaid(s, o) /\ Then(w, "tell", "undp")
           ELSE Goto(w, "late") /\ UNCHANGED intents
     \/ /\ At(w, "late")
        /\ IF LateApplies(s) THEN MarkIntentLate(s, o) /\ Then(w, "tell", "late")
           ELSE Rest(w) /\ UNCHANGED intents
  /\ UNCHANGED <<rows, chain, outbox, crashes>>

\* A slip: nothing is enqueued for a late payment.
TellInTime(w) ==
  LET t == tasks[w] IN
  /\ At(w, "tell")
  /\ outbox' = IF t.event = "late" THEN outbox
               ELSE outbox \cup {<<t.event, IF t.event = "cmp" THEN t.order ELSE rows[t.row].sid>>}
  /\ Rest(w)
  /\ UNCHANGED <<rows, intents, chain, crashes>>

\* The INSERT OR IGNORE into the outbox under an id that names the intent
\* (int, undp, late) or the order (cmp).
Tell(w) ==
  LET t == tasks[w] IN
  /\ At(w, "tell")
  /\ outbox' = outbox \cup {<<t.event, IF t.event = "cmp" THEN t.order ELSE rows[t.row].sid>>}
  /\ Rest(w)
  /\ UNCHANGED <<rows, intents, chain, crashes>>

-----------------------------------------------------------------------------
(* Operators *)

\* checkReroute, and then handleForward in a task of its own.
Reroute(w, o, s) ==
  /\ At(w, "idle") /\ Room(o)
  /\ ~ LatestIn(o, Live \cup {"resolved_offrail"})
  /\ intents[s].state \in {"pending", "expired"} /\ intents[s].order = NoOrder
  /\ Forced \/ (Amount[o] = Price[s] /\ s \in Trusted)
  /\ Become(w, HandleManual(o, s))
  /\ UNCHANGED <<rows, intents, chain, outbox, crashes>>

\* The admin's retry of a failed row (status failed: also an unrouted park).
Retry(w, i) ==
  LET r == rows[i] IN
  /\ At(w, "idle") /\ Room(r.order)
  /\ r.state \in {"failed", "unrouted"}
  /\ r.hashed => chain[i] = "reverted" \/ LooksDropped(i)
  /\ GetForwardByOrder(r.order) = i
  /\ Become(w, IF r.via = "manual" /\ r.sid # NoSid
               THEN HandleManual(r.order, r.sid) ELSE HandleForward(r.order))
  /\ UNCHANGED <<rows, intents, chain, outbox, crashes>>

\* markResolvedOffRail: the check, and after the reads of the manual
\* transaction the INSERT, which no latch covers.
CheckOffRail(w, o) ==
  /\ At(w, "idle") /\ Room(o)
  /\ o \in PaidByHand
  /\ ~ LatestIn(o, Live \cup {"resolved_offrail"})
  /\ Become(w, [Idle EXCEPT !.pc = "offrail", !.order = o])
  /\ UNCHANGED <<rows, intents, chain, outbox, crashes>>

RecordOffRail(w) ==
  LET o == tasks[w].order IN
  /\ At(w, "offrail")
  /\ InsertForward([order |-> o, sid |-> MemoSid(o), via |-> "offrail",
                    state |-> "resolved_offrail", hashed |-> TRUE])
  /\ chain' = Append(chain, "mined")
  /\ Rest(w)
  /\ UNCHANGED <<intents, outbox, crashes>>

-----------------------------------------------------------------------------
(* The surroundings: the chain, the checkout, the clock, evictions *)

ChainMoves(i) ==
  /\ chain[i] = "pool"
  /\ \E fate \in Fates : chain' = [chain EXCEPT ![i] = fate]
  /\ UNCHANGED <<rows, intents, outbox, tasks, crashes>>

OpenIntent(s) ==
  CreateIntent(s) /\ UNCHANGED <<rows, chain, outbox, tasks, crashes>>

Sweep(overdue) ==
  SweepExpiredIntents(overdue) /\ UNCHANGED <<rows, chain, outbox, tasks, crashes>>

\* The isolate is evicted between two awaits.
Crash(w) ==
  /\ ~ At(w, "idle") /\ crashes < MaxCrashes
  /\ crashes' = crashes + 1
  /\ Rest(w)
  /\ UNCHANGED <<rows, intents, chain, outbox>>

-----------------------------------------------------------------------------
Step(w) ==
  \/ MatchShortRef(w) \/ FindStray(w) \/ AuthorizeForward(w)
  \/ ClaimForward(w) \/ LostLatch(w) \/ Park(w) \/ EmitBlocked(w)
  \/ ForwardViaSafe(w) \/ UpdateForward(w)
  \/ PollForwardConfirmation(w) \/ SettleConfirmedForward(w) \/ MarkForwardFailed(w)
  \/ FlipPaid(w) \/ Tell(w) \/ RecordOffRail(w)

Start(w) ==
  \/ \E o \in Orders : MaybeForward(w, o) \/ CheckOffRail(w, o)
  \/ \E o \in Orders, s \in Sids : Reroute(w, o, s)
  \/ \E i \in Ids : ReadReceipt(w, i) \/ Retry(w, i)

Surroundings ==
  \/ \E i \in Ids : ChainMoves(i)
  \/ \E s \in Sids : OpenIntent(s)
  \/ \E overdue \in SUBSET Sids : Sweep(overdue)
  \/ \E w \in Workers : Crash(w)

Next == (\E w \in Workers : Step(w) \/ Start(w)) \/ Surroundings

Spec == Init /\ [][Next]_vars

=============================================================================
