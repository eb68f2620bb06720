------------------------------- MODULE Shopify -------------------------------
(***************************************************************************)
(* The Shopify app (shopify/worker): one order of one shop, the intent it  *)
(* gets at MPT, the app's own row, and the passes that bring the row and   *)
(* the order in line with the intent.  A pass is one run of ensureIntent   *)
(* or of refreshOrder: the cron makes one at a time, the MPT webhook, the  *)
(* Thank-you extension and an operator's resync make others beside it.     *)
(* Each call of a pass is a step, and a pass may end at any of them: the   *)
(* call fails, or the isolate is evicted.                                  *)
(***************************************************************************)
EXTENDS Naturals

CONSTANTS
  Hooks,        \* passes of the webhook, the extension and the operator
  Cron,         \* the pass of the cron
  Cancels,      \* values shops.auto_cancel may have
  MaxOwed,      \* bound: amounts an order may come to owe
  MaxFailures   \* bound: passes cut off

ASSUME ShopifyAssumption == Cron \notin Hooks /\ Cancels \subseteq BOOLEAN /\ MaxOwed \in Nat /\ MaxFailures \in Nat

VARIABLES
  auto,      \* shops.auto_cancel
  order,     \* the order at Shopify
  tags,      \* of its tags, those that say a payment did not simply settle it
  intent,    \* the intent at MPT
  row,       \* the app's row, NoRow before its INSERT
  pass,      \* the passes
  failures

vars == <<auto, order, tags, intent, row, pass, failures>>
Passes == Hooks \cup {Cron}

NoIntent == [state |-> "none", amount |-> 0, got |-> 0, grace |-> FALSE, prompt |-> TRUE, owed |-> 0]
NoRow    == [status |-> "none", amount |-> 0, synced |-> FALSE, paidAt |-> FALSE, tagged |-> FALSE]
NoOrder  == [paid |-> "no", cancelled |-> "no", owes |-> 0]
Unseen   == [state |-> "none", got |-> 0]
Idle     == [at |-> "idle", row |-> NoRow, seen |-> Unseen, order |-> NoOrder, to |-> "none", done |-> FALSE]

Init ==
  /\ auto \in Cancels
  /\ order = [NoOrder EXCEPT !.owes = 1] /\ tags = {} /\ intent = NoIntent /\ row = NoRow
  /\ pass = [p \in Passes |-> Idle] /\ failures = 0

------------------------------------------------------------------------------
(* What happens to the order and the intent outside the app.               *)

\* The merchant edits, cancels or settles the order by hand.
EditOrder ==
  /\ order.owes < MaxOwed /\ order.paid = "no" /\ order' = [order EXCEPT !.owes = @ + 1]
  /\ UNCHANGED <<auto, tags, intent, row, pass, failures>>
CancelByHand ==
  /\ order.cancelled = "no" /\ order' = [order EXCEPT !.cancelled = "merchant"]
  /\ UNCHANGED <<auto, tags, intent, row, pass, failures>>

\* The buyer has a QR only when the app has a row.  An expired intent may still be paid, a
\* rejected one paid again; a short payment settles without paid_at (BW-01).  Two fields are
\* history: neither expired nor rejected so far, and what the order owed when it was paid.
IntentMoves ==
  /\ row # NoRow
  /\ \/ /\ intent.state = "pending"
        /\ intent' = [intent EXCEPT !.state = "expired", !.prompt = FALSE]
     \/ intent.state = "expired" /\ ~intent.grace /\ intent' = [intent EXCEPT !.grace = TRUE]
     \/ intent.state \in {"pending", "expired", "rejected"} /\ intent' = [intent EXCEPT !.state = "received"]
     \/ intent.state = "received" /\ intent' = [intent EXCEPT !.state = "rejected", !.prompt = FALSE]
     \/ /\ intent.state = "received"
        /\ \E got \in {intent.amount - 1, intent.amount} :
             intent' = [intent EXCEPT !.state = IF got < intent.amount THEN "short" ELSE "paid",
                                      !.got = got, !.owed = order.owes]
  /\ UNCHANGED <<auto, order, tags, row, pass, failures>>

------------------------------------------------------------------------------
(* ensureIntent.                                                           *)

Go(p, at) == pass' = [pass EXCEPT ![p].at = at]
End(p)    == pass' = [pass EXCEPT ![p] = Idle]

\* orders/create and the first call of the extension, when there is no row.
Ensure(p) ==
  /\ p \in Hooks /\ pass[p] = Idle /\ row = NoRow /\ Go(p, "ensure")
  /\ UNCHANGED <<auto, order, tags, intent, row, failures>>

FetchNew(p) ==
  /\ pass[p].at = "ensure"
  /\ IF order.cancelled # "no" \/ order.paid # "no" THEN End(p)
     ELSE pass' = [pass EXCEPT ![p].at = "create", ![p].order = order]
  /\ UNCHANGED <<auto, order, tags, intent, row, failures>>

\* Both callers derive the same sid: the loser is answered 409 and reads the intent.
CreateIntent(p) ==
  /\ pass[p].at = "create" /\ Go(p, "insert")
  /\ intent' = IF intent = NoIntent
               THEN [NoIntent EXCEPT !.state = "pending", !.amount = pass[p].order.owes] ELSE intent
  /\ UNCHANGED <<auto, order, tags, row, failures>>

\* INSERT OR IGNORE.
InsertOrder(p) ==
  /\ pass[p].at = "insert" /\ End(p)
  /\ row' = IF row = NoRow THEN [NoRow EXCEPT !.status = "pending", !.amount = pass[p].order.owes] ELSE row
  /\ UNCHANGED <<auto, order, tags, intent, failures>>

------------------------------------------------------------------------------
(* refreshOrder and applyIntent.                                           *)

Terminal == {"paid", "underpaid", "rejected", "cancelled"}
Final    == {"paid", "underpaid", "rejected", "expired"}

\* A slip: only the rows of open orders are polled.
ListOpen == row.status \in {"pending", "received", "expired", "cancelled"}
ListOrdersToSync ==
  \/ row.status \in {"pending", "received", "expired", "cancelled"}
  \/ ~row.synced /\ row.status \in {"paid", "underpaid", "expired"}

\* The webhook and the operator refresh any row, the cron the ones it lists.
Refresh(p) ==
  /\ pass[p] = Idle /\ row # NoRow /\ (p = Cron => ListOrdersToSync)
  /\ pass' = [pass EXCEPT ![p].at = "read", ![p].row = row]
  /\ UNCHANGED <<auto, order, tags, intent, row, failures>>

GetIntent(p) ==
  /\ pass[p].at = "read"
  /\ pass' = [pass EXCEPT ![p].at = "apply", ![p].seen = [state |-> intent.state, got |-> intent.got]]
  /\ UNCHANGED <<auto, order, tags, intent, row, failures>>

ClassifyIntent(seen, amount) ==
  CASE seen.state = "paid"  -> IF seen.got < amount THEN "underpaid" ELSE "paid"
    [] seen.state = "short" -> "underpaid"
    [] OTHER                -> seen.state

NextStatus(current, observed) ==
  IF \/ current \in Terminal
     \/ current = "received" /\ observed \in {"pending", "expired"}
  THEN current ELSE observed

\* What the pass does after its first write: at most one of the three.
FollowUp(was, observed, status) ==
  CASE status = "received" /\ ~was.tagged -> "tagReceived"
    [] was.status = "cancelled" /\ observed \in {"paid", "underpaid"} /\ ~was.paidAt -> "tagAfterCancel"
    [] status \in Final /\ (~was.synced \/ status # was.status) -> status
    [] OTHER -> "idle"

\* The first updateOrder: whatever the row says by now, without a condition.
ApplyIntent(p) ==
  LET me == pass[p]
      observed == ClassifyIntent(me.seen, me.row.amount)
      status   == NextStatus(me.row.status, observed)
      after    == FollowUp(me.row, observed, status)
  IN /\ me.at = "apply"
     /\ row' = [row EXCEPT !.status = status, !.paidAt = me.row.paidAt \/ me.seen.state = "paid"]
     /\ IF after = "idle" THEN End(p)
        ELSE pass' = [pass EXCEPT ![p] = [Idle EXCEPT !.at = after,
                        !.seen = IF after \in {"paid", "expired"} THEN me.seen ELSE Unseen]]
     /\ UNCHANGED <<auto, order, tags, intent, failures>>

\* tagsAdd may be called again; the moment it landed is kept, so that it lands once (SH-04).
TagReceived(p) ==
  /\ pass[p].at = "tagReceived" /\ row' = [row EXCEPT !.tagged = TRUE] /\ End(p)
  /\ UNCHANGED <<auto, order, tags, intent, failures>>

Tag(tag) == tags' = tags \cup {tag}

TagPaidAfterCancel(p) ==
  /\ pass[p].at = "tagAfterCancel" /\ Tag("afterCancel") /\ End(p)
  /\ UNCHANGED <<auto, order, intent, row, failures>>

------------------------------------------------------------------------------
(* syncFinalToShopify.                                                     *)

\* The last updateOrder comes next, with this status, and synced when done.
Finish(p, status, done) == pass' = [pass EXCEPT ![p] = [Idle EXCEPT !.at = "record", !.to = status, !.done = done]]

FetchOrder(p) ==
  /\ pass[p].at = "paid"
  /\ pass' = [pass EXCEPT ![p].at = "settle", ![p].order = order]
  /\ UNCHANGED <<auto, order, tags, intent, row, failures>>

\* A slip: what the order owed when the QR was issued.
UnderTheQr(me) == me.order.paid = "no" /\ me.seen.got < row.amount
\* settleAgainstOutstanding, of the order as it is now (SH-02).
Underpaid(me) == me.order.paid = "no" /\ me.seen.got < me.order.owes

\* canMarkAsPaid was read with the order; Shopify refuses a mark that came too late.
Settle(p) ==
  LET me == pass[p] IN
  /\ me.at = "settle"
  /\ \/ /\ me.order.cancelled # "no" /\ Tag("afterCancel") /\ Finish(p, "paid", TRUE)
        /\ UNCHANGED order
     \/ /\ me.order.cancelled = "no" /\ Underpaid(me) /\ Tag("underpaid") /\ Finish(p, "underpaid", TRUE)
        /\ UNCHANGED order
     \/ /\ me.order.cancelled = "no" /\ ~Underpaid(me) /\ UNCHANGED tags
        /\ IF me.order.paid # "no" THEN Finish(p, "paid", TRUE) /\ UNCHANGED order
           ELSE IF order.paid # "no" \/ order.cancelled # "no" THEN End(p) /\ UNCHANGED order
           ELSE order' = [order EXCEPT !.paid = "app"] /\ Finish(p, "paid", TRUE)
  /\ UNCHANGED <<auto, intent, row, failures>>

SyncUnderpaid(p) ==
  /\ pass[p].at = "underpaid" /\ Tag("underpaid") /\ Finish(p, "underpaid", TRUE)
  /\ UNCHANGED <<auto, order, intent, row, failures>>
SyncRejected(p) ==
  /\ pass[p].at = "rejected" /\ Finish(p, "rejected", TRUE)
  /\ UNCHANGED <<auto, order, tags, intent, row, failures>>

\* mayAutoCancel: the grace period, and the stage as this pass read it (SH-03).
MayAutoCancel(me) == intent.grace /\ me.seen.state = "expired"

SyncExpired(p) ==
  /\ pass[p].at = "expired"
  /\ IF ~auto THEN Finish(p, "expired", TRUE)
     ELSE IF MayAutoCancel(pass[p]) THEN Go(p, "cancel") ELSE Finish(p, "expired", FALSE)
  /\ UNCHANGED <<auto, order, tags, intent, row, failures>>

CancelOrder(p) ==
  /\ pass[p].at = "cancel"
  /\ IF order.cancelled # "no" THEN End(p) /\ UNCHANGED order
     ELSE order' = [order EXCEPT !.cancelled = "app"] /\ Finish(p, "cancelled", TRUE)
  /\ UNCHANGED <<auto, tags, intent, row, failures>>

RecordSync(p) ==
  /\ pass[p].at = "record" /\ End(p)
  /\ row' = [row EXCEPT !.status = pass[p].to, !.synced = pass[p].done]
  /\ UNCHANGED <<auto, order, tags, intent, failures>>

\* A call fails and applyIntent only notes it (last_error), or the isolate is gone.  A pass
\* that ends before its first write might as well not have begun.
Fail(p) ==
  /\ pass[p].at \notin {"idle", "ensure", "create", "read", "apply"}
  /\ failures < MaxFailures /\ failures' = failures + 1 /\ End(p)
  /\ UNCHANGED <<auto, order, tags, intent, row>>

Step(p) ==
  \/ FetchNew(p) \/ CreateIntent(p) \/ InsertOrder(p)
  \/ GetIntent(p) \/ ApplyIntent(p)
  \/ TagReceived(p) \/ TagPaidAfterCancel(p)
  \/ FetchOrder(p) \/ Settle(p) \/ SyncUnderpaid(p) \/ SyncRejected(p)
  \/ SyncExpired(p) \/ CancelOrder(p) \/ RecordSync(p)

Next ==
  \/ EditOrder \/ CancelByHand \/ IntentMoves
  \/ \E p \in Passes : Ensure(p) \/ Refresh(p) \/ Step(p) \/ Fail(p)

\* The cron comes every two minutes; a pass that is not cut off goes on.
Fairness ==
  /\ WF_vars(Refresh(Cron))
  /\ \A p \in Passes : WF_vars(Step(p))

Spec == Init /\ [][Next]_vars /\ Fairness
------------------------------------------------------------------------------
Statuses == {"none", "pending", "received"} \cup Terminal \cup Final

\* Types.
TypeOK ==
  /\ row.status \in Statuses /\ row.amount \in 0..MaxOwed
  /\ intent.got <= intent.amount
  /\ \A p \in Passes : pass[p].to \in Statuses

\* An order that grew before its payment arrived is not marked paid by that payment, however
\* old the intent, the row or the pass is (sync.ts, SH-02, BW-01).
GrownIsNotPaid ==
  order.paid = "app" => intent.state = "paid" /\ intent.got >= intent.owed

Told == order.paid # "no" \/ tags # {}

\* A payment that arrives in time is brought to the merchant: the order is marked paid, or
\* tagged as underpaid or as paid after a cancellation - whatever calls fail and however
\* passes with old rows overlap (index.ts, "the backstop for lost webhooks").
PaymentReachesShop == (intent.prompt /\ intent.state = "paid") ~> Told

\* A failed call is retried until the merchant is told of a row that says paid ("Leave
\* shopify_synced_at NULL - the cron retries on its next tick"), a late payment's included.
PaidRowReachesShop == row.status = "paid" ~> Told
==============================================================================
