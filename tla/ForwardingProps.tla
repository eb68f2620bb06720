--------------------------- MODULE ForwardingProps ---------------------------
(***************************************************************************)
(* What the forward-mode rail promises, as formulas about Forwarding.      *)
(***************************************************************************)
EXTENDS Forwarding, FiniteSetsExt

\* The type invariant of the forward-mode rail.
TypeOK ==
  /\ RowsTypeOK /\ IntentsTypeOK
  /\ chain \in Seq(TxStates) /\ Len(chain) = Len(rows)
  /\ outbox \subseteq Events
  /\ tasks \in [Workers -> Task]
  /\ crashes \in Nat

\* The money of one order leaves the Safe at most once: of all the attempts
\* made for an order, at most one has a transfer that is, or may still be, on
\* the chain.  Needs an RPC node without faults (Faults = {}).
Moved(i) == chain[i] \in {"pool", "mined"} /\ rows[i].via # "offrail"
AtMostOneTransfer ==
  \A i, j \in Ids : rows[i].order = rows[j].order /\ Moved(i) /\ Moved(j) => i = j

\* A settled intent is backed by money: the order it names has a confirmed
\* forward for this very intent, its transfer is mined (or never had to
\* leave the Safe), and "paid" means that order carried the full price.
Backs(i, s) == /\ rows[i].order = intents[s].order /\ rows[i].sid = s
               /\ \/ rows[i].state = "forwarded" /\ chain[i] = "mined"
                  \/ rows[i].state = "settled_noop"
SettledIsBacked ==
  \A s \in Sids : intents[s].order # NoOrder =>
    /\ \E i \in Ids : Backs(i, s)
    /\ intents[s].state = "paid" => Amount[intents[s].order] >= Price[s]

\* One order's money settles one intent: no two intents claim the same order,
\* however often the order was parked, resolved, rerouted or retried.
OneIntentPerOrder ==
  \A s, t \in Sids : intents[s].order = intents[t].order /\ intents[s].order # NoOrder
                     => s = t

\* What the merchant has been told agrees with the intent for good: "paid" is
\* only said of a paid intent, "late" only of an expired one, and so never
\* both of the same intent; "underpaid" only when a payment is recorded.
MerchantStory ==
  \A s \in Sids :
    /\ <<"int", s>> \in outbox => LogicalIntentState(s) = "paid"
    /\ <<"late", s>> \in outbox => LogicalIntentState(s) = "late"
    /\ <<"undp", s>> \in outbox => intents[s].order # NoOrder

\* confirmForwardOnce has one winner: two of the three paths that may observe
\* a receipt never run the effects of the same row.
Settling(w) == tasks[w].pc \in {"full", "short", "late", "tell"}
SingleSettler ==
  \A v, w \in Workers : Settling(v) /\ Settling(w) /\ tasks[v].row = tasks[w].row => v = w

\* The resolver never hands two payments the same intent, and an operator's
\* pick counts as one of them (migration 0018): at most one live row.
OneStrayPerIntent ==
  \A i, j \in Ids : rows[i].sid = rows[j].sid
                    /\ rows[i].via \in Resolved /\ rows[j].via \in Resolved
                    /\ rows[i].state \in Live /\ rows[j].state \in Live => i = j

\* A stray follows one payee from the resolver's decision to the row it
\* claims: the walk over the candidates, when another payment takes the first
\* of them, never reaches an address the gate was not asked about.
WalkKeepsPayee ==
  \A w \in Workers : tasks[w].via = "auto" =>
    \A s \in tasks[w].cands :
      /\ \A t \in tasks[w].cands : Payee[s] = Payee[t]
      /\ tasks[w].pc = "send" => Payee[rows[tasks[w].row].sid] = Payee[s]

\* A campaign hears of a contribution only when the money has arrived, and a
\* merchant only hears "blocked" of an order that is parked under the very
\* sid its remittance named; a stray that parks is reported to nobody.
CampaignStory ==
  \A o \in Orders :
    /\ <<"cmp", o>> \in outbox =>
         \E i \in Ids : /\ rows[i].order = o /\ rows[i].sid = NoSid
                        /\ rows[i].state = "forwarded" /\ chain[i] = "mined"
    /\ <<"blk", o>> \in outbox =>
         Carries[o] = "memo" /\ \E i \in Ids : /\ rows[i].order = o
                                               /\ rows[i].state \in Parked
                                               /\ rows[i].sid = Named[o]

\* Without evictions nothing is left half done: whenever no worker runs, each
\* confirmed forward for an intent has been recorded on it and the merchant
\* has an event about it.
ConfirmedIsSettled ==
  (\A w \in Workers : At(w, "idle")) =>
    \A i \in Ids : rows[i].state \in {"forwarded", "settled_noop"} /\ rows[i].sid # NoSid =>
      /\ intents[rows[i].sid].order # NoOrder
      /\ \E e \in {"int", "undp", "late"} : <<e, rows[i].sid>> \in outbox

\* A settlement is final: once an intent carries a paid_at, no later payment,
\* retry or sweep changes it.
SettlementIsFinal ==
  [][\A s \in Sids : intents[s].dated => intents'[s] = intents[s]]_vars

\* Rows are history: no step removes a row, changes whose it is, or moves one
\* that has reached a terminal state.
TerminalRowsStay ==
  [][\A i \in Ids : /\ i \in DOMAIN rows'
                    /\ rows'[i].order = rows[i].order /\ rows'[i].sid = rows[i].sid
                    /\ rows[i].state \in Terminal => rows'[i] = rows[i]]_vars

\* The forward-mode rail implements Payments: the place of an order's money is
\* read off the chain, the credits off payment_intents, what was told off the
\* outbox.
Place(o) ==
  LET its == {i \in Ids : rows[i].order = o /\ rows[i].via # "offrail"} IN
  IF \E i \in its : chain[i] = "mined" \/ rows[i].state = "settled_noop" THEN "there"
  ELSE IF \E i \in its : chain[i] = "pool" THEN "moving" ELSE "safe"

Abstract == INSTANCE Payments WITH
  place  <- [o \in Orders |-> Place(o)],
  credit <- [s \in Sids |-> intents[s].order],
  told   <- {e \in outbox : e[1] \in {"int", "undp", "late"}}
ImplementsPayments == Abstract!Spec

-----------------------------------------------------------------------------
(* Liveness *)

\* Cloudflare runs a continuation to its end unless it evicts the isolate;
\* the cron starts every 2 minutes in an isolate of its own (strong fairness:
\* the workers of the model are few, isolates are not); a transaction does
\* not stay in the mempool for ever; with RECONCILE_FORWARDS=1 the cron runs
\* the forward path of an order that has no row.
TotalRows == MapThenSumSet(LAMBDA o : MaxRows[o], Orders)
Backstop(o) == GetForwardByOrder(o) = 0 /\ \E w \in Workers : MaybeForward(w, o)
Fairness ==
  /\ \A w \in Workers : WF_vars(Step(w))
  /\ \A i \in 1..TotalRows : /\ SF_vars(i \in Ids /\ \E w \in Workers : ReadReceipt(w, i))
                             /\ WF_vars(i \in Ids /\ ChainMoves(i))
  /\ \A o \in Orders : SF_vars(Backstop(o))
FairSpec == Spec /\ Fairness

\* A broadcast forward never stays in limbo: whichever workers are evicted,
\* one of the three paths settles or fails it.
SubmittedResolves ==
  \A i \in 1..TotalRows :
    (i \in Ids /\ rows[i].state = "submitted") ~> (i \in Ids /\ rows[i].state \in Terminal)

\* No processed order is forgotten: it ends with at least one row, a forward
\* or a park an operator can see.
OrderIsAnswered == \A o \in Orders : <>(GetForwardByOrder(o) # 0)

\* A confirmed forward reaches the merchant, if no worker is evicted.
ConfirmedIsTold ==
  \A i \in 1..TotalRows, s \in Sids :
    (i \in Ids /\ rows[i].state = "forwarded" /\ rows[i].sid = s)
      ~> (\E e \in {"int", "undp", "late"} : <<e, s>> \in outbox)

-----------------------------------------------------------------------------
(* What a doc or a comment says of the program and the code does not do *)

\* "Final - never forwarded again" (db.ts): no transfer is broadcast for an
\* order that was resolved outside the rail.
OffRailIsFinal ==
  [][\A i, j \in Ids : chain[i] = "none" /\ chain'[i] = "pool" /\ rows[i].order = rows[j].order
                       => rows[j].state # "resolved_offrail"]_vars

=============================================================================
