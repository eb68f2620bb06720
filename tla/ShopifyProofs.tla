----------------------------- MODULE ShopifyProofs -----------------------------
(***************************************************************************)
(* A theorem about what the merchant's shop is told of a payment, for any  *)
(* number of hooks and cron passes, cancellations and failures.            *)
(***************************************************************************)
EXTENDS Shopify, Integers, TLAPS

ShopOrder == [paid : {"no", "app"}, cancelled : {"no", "merchant", "app"}, owes : Nat]
IntentStates == {"none", "pending", "expired", "received", "rejected", "short", "paid"}
ShopIntent == [state : IntentStates, amount : Int, got : Int, grace : BOOLEAN, prompt : BOOLEAN, owed : Nat]
RowStatuses == {"none", "pending", "received", "paid", "underpaid", "rejected", "cancelled", "expired"}
ShopRow == [status : RowStatuses, amount : Nat, synced : BOOLEAN, paidAt : BOOLEAN, tagged : BOOLEAN]
Places == {"idle", "ensure", "create", "insert", "read", "apply", "tagReceived", "tagAfterCancel",
           "paid", "underpaid", "rejected", "expired", "settle", "cancel", "record"}
ShopPass == [at : Places, row : ShopRow, seen : [state : IntentStates, got : Int], order : ShopOrder,
             to : RowStatuses, done : BOOLEAN]

\* What the passes and the row say of a payment is what the intent says: nothing
\* calls it paid that is not, and a pass that may mark the order has read what it
\* owes after the payment.
PassSound(me, i) ==
  /\ me.seen.state = "paid" => i.state = "paid" /\ me.seen.got = i.got
  /\ me.row.status = "paid" => i.state = "paid"
  /\ me.to = "paid" => i.state = "paid"
  /\ me.at = "apply" /\ me.row.status = "paid" => me.seen.state = "paid"
  /\ me.at \in {"paid", "settle"} => me.seen.state = "paid"
  /\ me.at = "settle" => i.owed <= me.order.owes

ShopInv ==
  /\ order \in ShopOrder /\ intent \in ShopIntent /\ row \in ShopRow
  /\ pass \in [Passes -> ShopPass]
  /\ intent.state = "paid" => intent.owed <= order.owes
  /\ row.status = "paid" => intent.state = "paid"
  /\ \A p \in Passes : PassSound(pass[p], intent)
  /\ GrownIsNotPaid

\* A pass goes on; the order and the row may move with it.
LEMMA PassGoes ==
  ASSUME ShopInv, NEW p \in Passes, NEW me \in ShopPass, pass' = [pass EXCEPT ![p] = me],
         PassSound(me, intent), UNCHANGED intent,
         order' \in ShopOrder, order'.owes = order.owes, row' \in ShopRow,
         row'.status = "paid" => intent.state = "paid",
         order'.paid = "app" => intent.state = "paid" /\ intent.got >= intent.owed
  PROVE  ShopInv'
<1>1. /\ pass' \in [Passes -> ShopPass] /\ pass'[p] = me
      /\ \A q \in Passes \ {p} : pass'[q] = pass[q]
  BY DEF ShopInv
<1>2. \A q \in Passes : PassSound(pass'[q], intent')
  BY <1>1 DEF ShopInv
<1> QED BY <1>1, <1>2 DEF ShopInv, GrownIsNotPaid

LEMMA IdleIsPass == Idle \in ShopPass /\ Idle.at = "idle" /\ \A i : PassSound(Idle, i)
<1>1. NoRow \in ShopRow /\ NoRow.status = "none"
  BY DEF NoRow, ShopRow, RowStatuses
<1>2. Unseen \in [state : IntentStates, got : Int] /\ Unseen.state = "none"
  BY DEF Unseen, IntentStates
<1>3. NoOrder \in ShopOrder
  BY DEF NoOrder, ShopOrder
<1> QED BY <1>1, <1>2, <1>3 DEF Idle, ShopPass, PassSound, Places, RowStatuses

\* The pass that ends, and the one that goes on to a place where nothing is settled.
LEMMA PassEnds ==
  ASSUME ShopInv, NEW p \in Passes, End(p), UNCHANGED intent,
         order' \in ShopOrder, order'.owes = order.owes, row' \in ShopRow,
         row'.status = "paid" => intent.state = "paid",
         order'.paid = "app" => intent.state = "paid" /\ intent.got >= intent.owed
  PROVE  ShopInv'
<1>1. pass' = [pass EXCEPT ![p] = Idle]
  BY DEF End
<1> QED BY <1>1, IdleIsPass, PassGoes

LEMMA PassMoves ==
  ASSUME ShopInv, NEW p \in Passes, NEW at \in Places \ {"apply", "paid", "settle"}, Go(p, at),
         UNCHANGED <<intent, order, row>>
  PROVE  ShopInv'
<1> DEFINE me == [pass[p] EXCEPT !.at = at]
<1>1. pass' = [pass EXCEPT ![p] = me] /\ pass[p] \in ShopPass
  BY DEF Go, ShopInv
<1>2. me \in ShopPass /\ me.at = at /\ me.seen = pass[p].seen /\ me.row = pass[p].row /\ me.to = pass[p].to
  BY <1>1 DEF ShopPass
<1> HIDE DEF me
<1>3. PassSound(me, intent)
  BY <1>2 DEF ShopInv, PassSound
<1>4. order.paid = "app" => intent.state = "paid" /\ intent.got >= intent.owed
  BY DEF ShopInv, GrownIsNotPaid
<1> QED BY <1>1, <1>2, <1>3, <1>4, PassGoes DEF ShopInv

\* The last write is of a status that the intent bears out.
LEMMA PassFinishes ==
  ASSUME ShopInv, NEW p \in Passes, NEW status \in RowStatuses, NEW done \in BOOLEAN, Finish(p, status, done),
         status = "paid" => intent.state = "paid", UNCHANGED <<intent, row>>,
         order' \in ShopOrder, order'.owes = order.owes,
         order'.paid = "app" => intent.state = "paid" /\ intent.got >= intent.owed
  PROVE  ShopInv'
<1> DEFINE m1 == [Idle EXCEPT !.at = "record"]
           m2 == [m1 EXCEPT !.to = status]
           me == [m2 EXCEPT !.done = done]
<1>1. pass' = [pass EXCEPT ![p] = me]
  BY DEF Finish
<1>2. m1 \in ShopPass /\ m1.at = "record" /\ m1.seen = Unseen /\ m1.row = NoRow
  BY IdleIsPass DEF Idle, ShopPass, Places
<1> HIDE DEF m1
<1>3. m2 \in ShopPass /\ m2.at = "record" /\ m2.seen = Unseen /\ m2.row = NoRow /\ m2.to = status
  BY <1>2 DEF ShopPass
<1> HIDE DEF m2
<1>4. me \in ShopPass /\ me.at = "record" /\ me.seen = Unseen /\ me.row = NoRow /\ me.to = status
  BY <1>3 DEF ShopPass
<1> HIDE DEF me
<1>5. PassSound(me, intent)
  BY <1>4 DEF PassSound, Unseen, NoRow
<1> QED BY <1>1, <1>4, <1>5, PassGoes DEF ShopInv

\* What a pass reads of the intent and the row makes its first write.
LEMMA PassApplies ==
  ASSUME ShopInv, NEW p \in Passes, ApplyIntent(p)
  PROVE  ShopInv'
<1> DEFINE me == pass[p]
           observed == ClassifyIntent(me.seen, me.row.amount)
           status == NextStatus(me.row.status, observed)
           after == FollowUp(me.row, observed, status)
<1>1. me \in ShopPass /\ PassSound(me, intent) /\ me.at = "apply" /\ UNCHANGED <<order, intent>>
  BY DEF ShopInv, ApplyIntent
<1>2. observed \in RowStatuses /\ (observed = "paid" => me.seen.state = "paid")
  <2>1. me.seen.state \in IntentStates
    BY <1>1 DEF ShopPass
  <2> QED BY <2>1 DEF ClassifyIntent, IntentStates, RowStatuses
<1> HIDE DEF observed
<1>3. status \in RowStatuses /\ (status = "paid" => me.seen.state = "paid")
  <2>1. me.row.status \in RowStatuses
    BY <1>1 DEF ShopPass, ShopRow
  <2>2. status \in {me.row.status, observed}
    BY DEF NextStatus
  <2> QED BY <1>1, <1>2, <2>1, <2>2 DEF PassSound
<1> HIDE DEF status
<1>4. /\ after \in Places \ {"ensure", "create", "insert", "read", "apply", "settle", "cancel", "record"}
      /\ after = "paid" => status = "paid"
  BY DEF FollowUp, Final, Places
<1> HIDE DEF after
<1>5. /\ row' = [row EXCEPT !.status = status, !.paidAt = me.row.paidAt \/ me.seen.state = "paid"]
      /\ IF after = "idle" THEN End(p)
         ELSE pass' = [pass EXCEPT ![p] = [Idle EXCEPT !.at = after,
                           !.seen = IF after \in {"paid", "expired"} THEN me.seen ELSE Unseen]]
  BY DEF ApplyIntent, after, status, observed
<1> DEFINE paidAt == me.row.paidAt \/ me.seen.state = "paid"
           row1 == [row EXCEPT !.status = status]
<1>6. row' \in ShopRow /\ row'.status = status
  <2>1. row1 \in ShopRow /\ row1.status = status
    BY <1>3 DEF ShopInv, ShopRow
  <2>2. row' = [row1 EXCEPT !.paidAt = paidAt] /\ paidAt \in BOOLEAN
    BY <1>5
  <2> HIDE DEF row1, paidAt
  <2> QED BY <2>1, <2>2 DEF ShopRow
<1>7. status = "paid" => intent.state = "paid"
  BY <1>1, <1>3 DEF PassSound
<1>8. order.paid = "app" => intent.state = "paid" /\ intent.got >= intent.owed
  BY DEF ShopInv, GrownIsNotPaid
<1>9. CASE after = "idle"
  BY <1>1, <1>5, <1>6, <1>7, <1>8, <1>9, PassEnds DEF ShopInv
<1>10. CASE after # "idle"
  <2> DEFINE seen == IF after \in {"paid", "expired"} THEN me.seen ELSE Unseen
             m1 == [Idle EXCEPT !.at = after]
             m2 == [m1 EXCEPT !.seen = seen]
  <2>1. /\ seen \in [state : IntentStates, got : Int]
        /\ seen.state = "paid" => seen = me.seen /\ me.seen.state = "paid"
        /\ after = "paid" => seen = me.seen /\ me.seen.state = "paid"
    BY <1>1, <1>3, <1>4 DEF ShopPass, Unseen, IntentStates
  <2> HIDE DEF seen
  <2>2. m1 \in ShopPass /\ m1.at = after /\ m1.row = NoRow /\ m1.to = "none"
    BY <1>4, IdleIsPass DEF ShopPass, Idle
  <2> HIDE DEF m1
  <2>3. m2 \in ShopPass /\ m2.at = after /\ m2.row = NoRow /\ m2.to = "none" /\ m2.seen = seen
    BY <2>1, <2>2 DEF ShopPass
  <2>4. pass' = [pass EXCEPT ![p] = m2]
    BY <1>5, <1>10 DEF m1, seen
  <2> HIDE DEF m2
  <2>5. PassSound(m2, intent)
    BY <1>1, <1>4, <2>1, <2>3 DEF PassSound, NoRow
  <2> QED BY <1>1, <1>6, <1>7, <1>8, <2>3, <2>4, <2>5, PassGoes DEF ShopInv
<1> QED BY <1>9, <1>10

\* The order is marked by what its newest amount, read after the payment, allows.
LEMMA PassSettles ==
  ASSUME ShopInv, NEW p \in Passes, Settle(p)
  PROVE  ShopInv'
<1> DEFINE me == pass[p]
<1>1. /\ me \in ShopPass /\ PassSound(me, intent) /\ me.at = "settle" /\ UNCHANGED <<intent, row>>
      /\ order \in ShopOrder /\ intent \in ShopIntent
      /\ order.paid = "app" => intent.state = "paid" /\ intent.got >= intent.owed
  BY DEF ShopInv, Settle, GrownIsNotPaid
<1>2. intent.state = "paid" /\ me.seen.got = intent.got /\ intent.owed <= me.order.owes
  BY <1>1 DEF PassSound
<1>3. ASSUME NEW status \in {"paid", "underpaid"}, Finish(p, status, TRUE), UNCHANGED order PROVE ShopInv'
  BY <1>1, <1>2, <1>3, PassFinishes DEF RowStatuses
<1>4. ASSUME End(p), UNCHANGED order PROVE ShopInv'
  BY <1>1, <1>2, <1>4, PassEnds DEF ShopInv
<1>5. ASSUME ~Underpaid(me), me.order.paid = "no", order' = [order EXCEPT !.paid = "app"],
             Finish(p, "paid", TRUE)
      PROVE  ShopInv'
  <2>1. order' \in ShopOrder /\ order'.owes = order.owes
    BY <1>1, <1>5 DEF ShopOrder
  <2>2. me.order.owes \in Nat /\ me.seen.got \in Int /\ intent.owed \in Nat
    BY <1>1 DEF ShopPass, ShopOrder, ShopIntent
  <2>3. ~(me.seen.got < me.order.owes)
    BY <1>5 DEF Underpaid
  <2>4. intent.got >= intent.owed
    BY <1>2, <2>2, <2>3
  <2> QED BY <1>1, <1>2, <1>5, <2>1, <2>4, PassFinishes DEF RowStatuses
<1>6. me.order.paid \in {"no", "app"}
  BY <1>1 DEF ShopPass, ShopOrder
<1> QED BY <1>3, <1>4, <1>5, <1>6 DEF Settle

LEMMA ShopInvStep == ShopInv /\ [Next]_(vars) => ShopInv'
<1> SUFFICES ASSUME ShopInv, [Next]_(vars) PROVE ShopInv'
  OBVIOUS
<1>0. /\ order \in ShopOrder /\ intent \in ShopIntent /\ row \in ShopRow
      /\ row.status = "paid" => intent.state = "paid"
      /\ order.paid = "app" => intent.state = "paid" /\ intent.got >= intent.owed
      /\ \A p \in Passes : pass[p] \in ShopPass /\ PassSound(pass[p], intent)
  BY DEF ShopInv, GrownIsNotPaid
<1>1. CASE EditOrder
  <2> DEFINE n == order.owes + 1
  <2>1. order' = [order EXCEPT !.owes = n] /\ UNCHANGED <<intent, row, pass>> /\ n \in Nat /\ n > order.owes
    BY <1>0, <1>1 DEF EditOrder, ShopOrder
  <2> HIDE DEF n
  <2>2. order' \in ShopOrder /\ order'.owes = n /\ order'.paid = order.paid
    BY <1>0, <2>1 DEF ShopOrder
  <2>3. intent.state = "paid" => intent.owed <= order'.owes
    BY <1>0, <2>1, <2>2 DEF ShopInv, ShopIntent, ShopOrder
  <2> QED BY <1>0, <2>1, <2>2, <2>3 DEF ShopInv, GrownIsNotPaid
<1>2. CASE CancelByHand
  <2>1. order' = [order EXCEPT !.cancelled = "merchant"] /\ UNCHANGED <<intent, row, pass>>
    BY <1>2 DEF CancelByHand
  <2>2. order' \in ShopOrder /\ order'.owes = order.owes /\ order'.paid = order.paid
    BY <1>0, <2>1 DEF ShopOrder
  <2> QED BY <1>0, <2>1, <2>2 DEF ShopInv, GrownIsNotPaid
<1>3. ASSUME intent' \in ShopIntent, intent.state # "paid", UNCHANGED <<order, row>>,
             intent'.state = "paid" => intent'.owed <= order.owes
      PROVE  /\ \A p \in Passes : PassSound(pass[p], intent')
             /\ pass' \in [Passes -> ShopPass] /\ (\A p \in Passes : PassSound(pass'[p], intent')) => ShopInv'
  <2>1. ASSUME NEW p \in Passes PROVE PassSound(pass[p], intent')
    BY <1>0, <1>3 DEF PassSound
  <2>2. order.paid # "app" /\ row.status # "paid"
    BY <1>0, <1>3
  <2> QED BY <1>0, <1>3, <2>1, <2>2 DEF ShopInv, GrownIsNotPaid
<1>4. CASE IntentMoves
  <2>1. UNCHANGED <<order, row, pass>> /\ pass \in [Passes -> ShopPass]
    BY <1>4 DEF IntentMoves, ShopInv
  <2>2. intent.state # "paid"
    BY <1>4 DEF IntentMoves
  <2>3. ASSUME NEW state \in IntentStates \ {"paid"}, intent' = [intent EXCEPT !.state = state] PROVE ShopInv'
    <3>1. intent' \in ShopIntent /\ intent'.state = state
      BY <1>0, <2>3 DEF ShopIntent
    <3> QED BY <1>3, <2>1, <2>2, <3>1
  <2>4. ASSUME NEW state \in IntentStates \ {"paid"}, intent' = [intent EXCEPT !.state = state, !.prompt = FALSE]
        PROVE  ShopInv'
    <3> DEFINE i1 == [intent EXCEPT !.state = state]
    <3>1. i1 \in ShopIntent /\ i1.state = state /\ intent' = [i1 EXCEPT !.prompt = FALSE]
      BY <1>0, <2>4 DEF ShopIntent
    <3> HIDE DEF i1
    <3>2. intent' \in ShopIntent /\ intent'.state = state
      BY <3>1 DEF ShopIntent
    <3> QED BY <1>3, <2>1, <2>2, <3>2
  <2>5. ASSUME intent' = [intent EXCEPT !.grace = TRUE] PROVE ShopInv'
    <3>1. intent' \in ShopIntent /\ intent'.state = intent.state
      BY <1>0, <2>5 DEF ShopIntent
    <3> QED BY <1>3, <2>1, <2>2, <3>1
  <2>6. ASSUME NEW got \in {intent.amount - 1, intent.amount},
               intent' = [intent EXCEPT !.state = IF got < intent.amount THEN "short" ELSE "paid",
                                            !.got = got, !.owed = order.owes]
        PROVE  ShopInv'
    <3> DEFINE state == IF got < intent.amount THEN "short" ELSE "paid"
               i1 == [intent EXCEPT !.state = state]
               i2 == [i1 EXCEPT !.got = got]
    <3>1. state \in IntentStates /\ got \in Int /\ order.owes \in Nat
      BY <1>0 DEF IntentStates, ShopIntent, ShopOrder
    <3> HIDE DEF state
    <3>2. i1 \in ShopIntent
      BY <1>0, <3>1 DEF ShopIntent
    <3>3. intent' = [i2 EXCEPT !.owed = order.owes]
      BY <1>0, <2>6 DEF ShopIntent, state
    <3> HIDE DEF i1
    <3>4. i2 \in ShopIntent
      BY <3>1, <3>2 DEF ShopIntent
    <3> HIDE DEF i2
    <3>5. intent' \in ShopIntent /\ intent'.owed = order.owes
      BY <3>1, <3>3, <3>4 DEF ShopIntent
    <3> QED BY <1>3, <2>1, <2>2, <3>1, <3>5
  <2> QED BY <1>4, <2>3, <2>4, <2>5, <2>6 DEF IntentMoves, IntentStates
<1>5. ASSUME NEW p \in Passes, Ensure(p) PROVE ShopInv'
  BY <1>5, PassMoves DEF Ensure, Places
<1>6. ASSUME NEW p \in Passes, End(p), UNCHANGED <<intent, order, row>> PROVE ShopInv'
  BY <1>0, <1>6, PassEnds
<1>7. ASSUME NEW p \in Passes, FetchNew(p) PROVE ShopInv'
  <2>1. CASE End(p)
    BY <1>6, <1>7, <2>1 DEF FetchNew
  <2>2. CASE pass' = [pass EXCEPT ![p].at = "create", ![p].order = order]
    <3> DEFINE m1 == [pass[p] EXCEPT !.at = "create"]
               me == [m1 EXCEPT !.order = order]
    <3>1. pass' = [pass EXCEPT ![p] = me]
      BY <2>2 DEF ShopInv
    <3>2. /\ m1 \in ShopPass /\ m1.at = "create" /\ m1.seen = pass[p].seen /\ m1.row = pass[p].row
          /\ m1.to = pass[p].to
      BY <1>0 DEF ShopPass, Places
    <3> HIDE DEF m1
    <3>3. /\ me \in ShopPass /\ me.at = "create" /\ me.seen = pass[p].seen /\ me.row = pass[p].row
          /\ me.to = pass[p].to
      BY <1>0, <3>2 DEF ShopPass
    <3> HIDE DEF me
    <3>4. PassSound(me, intent)
      BY <1>0, <3>3 DEF PassSound
    <3> QED BY <1>0, <1>7, <3>1, <3>3, <3>4, PassGoes DEF FetchNew
  <2> QED BY <1>7, <2>1, <2>2 DEF FetchNew
<1>8. ASSUME NEW p \in Passes, CreateIntent(p) PROVE ShopInv'
  <2>1. CASE UNCHANGED intent
    BY <1>8, <2>1, PassMoves DEF CreateIntent, Places
  <2>2. CASE intent = NoIntent /\ intent' = [NoIntent EXCEPT !.state = "pending", !.amount = pass[p].order.owes]
    <3> DEFINE n == pass[p].order.owes
               i1 == [intent EXCEPT !.state = "pending"]
               me == [pass[p] EXCEPT !.at = "insert"]
    <3>1. n \in Int
      BY <1>0 DEF ShopPass, ShopOrder
    <3> HIDE DEF n
    <3>2. intent' = [i1 EXCEPT !.amount = n] /\ intent.state = "none"
      BY <2>2 DEF NoIntent, n
    <3>3. i1 \in ShopIntent /\ i1.state = "pending"
      BY <1>0 DEF ShopIntent, IntentStates
    <3> HIDE DEF i1
    <3>4. intent' \in ShopIntent /\ intent'.state = "pending"
      BY <3>1, <3>2, <3>3 DEF ShopIntent
    <3>5. pass' = [pass EXCEPT ![p] = me] /\ pass \in [Passes -> ShopPass] /\ UNCHANGED <<order, row>>
      BY <1>8 DEF CreateIntent, Go, ShopInv
    <3>6. /\ me \in ShopPass /\ me.at = "insert" /\ me.seen = pass[p].seen /\ me.row = pass[p].row
          /\ me.to = pass[p].to
      BY <1>0 DEF ShopPass, Places
    <3> HIDE DEF me
    <3>7. PassSound(me, intent')
      BY <1>0, <3>2, <3>6 DEF PassSound
    <3>8. pass' \in [Passes -> ShopPass] /\ \A q \in Passes : pass'[q] \in {me, pass[q]}
      BY <3>5, <3>6
    <3>9. \A q \in Passes : PassSound(pass'[q], intent')
      BY <1>3, <3>2, <3>4, <3>5, <3>7, <3>8
    <3> QED BY <1>3, <3>2, <3>4, <3>5, <3>8, <3>9
  <2> QED BY <1>8, <2>1, <2>2 DEF CreateIntent
<1>9. ASSUME NEW p \in Passes, InsertOrder(p) PROVE ShopInv'
  <2> DEFINE n == pass[p].order.owes
             r1 == [NoRow EXCEPT !.status = "pending"]
  <2>1. n \in Nat
    BY <1>0 DEF ShopPass, ShopOrder
  <2> HIDE DEF n
  <2>2. NoRow \in ShopRow
    BY DEF NoRow, ShopRow, RowStatuses
  <2>3. r1 \in ShopRow /\ r1.status = "pending"
    BY <2>2 DEF ShopRow, RowStatuses
  <2>4. row' \in {row, [r1 EXCEPT !.amount = n]}
    BY <1>9 DEF InsertOrder, n
  <2> HIDE DEF r1
  <2>5. row' \in ShopRow /\ row'.status \in {row.status, "pending"}
    BY <1>0, <2>1, <2>3, <2>4 DEF ShopRow
  <2> QED BY <1>0, <1>9, <2>5, PassEnds DEF InsertOrder
<1>10. ASSUME NEW p \in Passes, Refresh(p) PROVE ShopInv'
  <2> DEFINE m1 == [pass[p] EXCEPT !.at = "read"]
             me == [m1 EXCEPT !.row = row]
  <2>1. pass' = [pass EXCEPT ![p] = me] /\ UNCHANGED <<intent, order, row>>
    BY <1>10 DEF Refresh, ShopInv
  <2>2. m1 \in ShopPass /\ m1.at = "read" /\ m1.seen = pass[p].seen /\ m1.to = pass[p].to
    BY <1>0 DEF ShopPass, Places
  <2> HIDE DEF m1
  <2>3. me \in ShopPass /\ me.at = "read" /\ me.seen = pass[p].seen /\ me.to = pass[p].to /\ me.row = row
    BY <1>0, <2>2 DEF ShopPass
  <2> HIDE DEF me
  <2>4. PassSound(me, intent)
    BY <1>0, <2>3 DEF PassSound
  <2> QED BY <1>0, <2>1, <2>3, <2>4, PassGoes
<1>11. ASSUME NEW p \in Passes, GetIntent(p) PROVE ShopInv'
  <2> DEFINE seen == [state |-> intent.state, got |-> intent.got]
             m1 == [pass[p] EXCEPT !.at = "apply"]
             me == [m1 EXCEPT !.seen = seen]
  <2>1. pass' = [pass EXCEPT ![p] = me] /\ UNCHANGED <<intent, order, row>>
    BY <1>11 DEF GetIntent, ShopInv
  <2>2. m1 \in ShopPass /\ m1.at = "apply" /\ m1.row = pass[p].row /\ m1.to = pass[p].to
    BY <1>0 DEF ShopPass, Places
  <2> HIDE DEF m1
  <2>3. seen \in [state : IntentStates, got : Int] /\ seen.state = intent.state /\ seen.got = intent.got
    BY <1>0 DEF ShopIntent
  <2> HIDE DEF seen
  <2>4. me \in ShopPass /\ me.at = "apply" /\ me.row = pass[p].row /\ me.to = pass[p].to /\ me.seen = seen
    BY <2>2, <2>3 DEF ShopPass
  <2> HIDE DEF me
  <2>5. PassSound(me, intent)
    BY <1>0, <2>3, <2>4 DEF PassSound
  <2> QED BY <1>0, <2>1, <2>4, <2>5, PassGoes
<1>12. ASSUME NEW p \in Passes, TagReceived(p) PROVE ShopInv'
  <2>1. row' = [row EXCEPT !.tagged = TRUE] /\ End(p) /\ UNCHANGED <<intent, order>>
    BY <1>12 DEF TagReceived
  <2>2. row' \in ShopRow /\ row'.status = row.status
    BY <1>0, <2>1 DEF ShopRow
  <2> QED BY <1>0, <2>1, <2>2, PassEnds
<1>13. ASSUME NEW p \in Passes, TagPaidAfterCancel(p) \/ Fail(p) PROVE ShopInv'
  BY <1>6, <1>13 DEF TagPaidAfterCancel, Fail
<1>14. ASSUME NEW p \in Passes, FetchOrder(p) PROVE ShopInv'
  <2> DEFINE m1 == [pass[p] EXCEPT !.at = "settle"]
             me == [m1 EXCEPT !.order = order]
  <2>1. pass' = [pass EXCEPT ![p] = me] /\ UNCHANGED <<intent, order, row>> /\ pass[p].at = "paid"
    BY <1>14 DEF FetchOrder, ShopInv
  <2>2. /\ m1 \in ShopPass /\ m1.at = "settle" /\ m1.row = pass[p].row /\ m1.to = pass[p].to
        /\ m1.seen = pass[p].seen
    BY <1>0 DEF ShopPass, Places
  <2> HIDE DEF m1
  <2>3. /\ me \in ShopPass /\ me.at = "settle" /\ me.row = pass[p].row /\ me.to = pass[p].to
        /\ me.seen = pass[p].seen /\ me.order = order
    BY <1>0, <2>2 DEF ShopPass
  <2> HIDE DEF me
  <2>4. intent.state = "paid" /\ intent.owed <= order.owes
    BY <1>0, <2>1 DEF PassSound, ShopInv
  <2>5. PassSound(me, intent)
    BY <1>0, <2>1, <2>3, <2>4 DEF PassSound
  <2> QED BY <1>0, <2>1, <2>3, <2>5, PassGoes
<1>15. ASSUME NEW p \in Passes, NEW status \in {"underpaid", "rejected", "expired", "cancelled"}, NEW done \in BOOLEAN,
              Finish(p, status, done), UNCHANGED <<intent, row>>,
              order' \in ShopOrder, order'.owes = order.owes, order'.paid = order.paid
       PROVE  ShopInv'
  BY <1>0, <1>15, PassFinishes DEF RowStatuses
<1>16. ASSUME NEW p \in Passes, SyncUnderpaid(p) \/ SyncRejected(p) PROVE ShopInv'
  BY <1>0, <1>15, <1>16 DEF SyncUnderpaid, SyncRejected
<1>17. ASSUME NEW p \in Passes, SyncExpired(p) PROVE ShopInv'
  <2>1. UNCHANGED <<intent, order, row>>
    BY <1>17 DEF SyncExpired
  <2>2. Go(p, "cancel") \/ \E done \in BOOLEAN : Finish(p, "expired", done)
    BY <1>17 DEF SyncExpired
  <2>3. Go(p, "cancel") => ShopInv'
    BY <2>1, PassMoves DEF Places
  <2> QED BY <1>0, <1>15, <2>1, <2>2, <2>3
<1>18. ASSUME NEW p \in Passes, CancelOrder(p) PROVE ShopInv'
  <2>1. UNCHANGED <<intent, row>>
    BY <1>18 DEF CancelOrder
  <2>2. CASE End(p) /\ UNCHANGED order
    BY <1>6, <2>1, <2>2
  <2>3. CASE order' = [order EXCEPT !.cancelled = "app"] /\ Finish(p, "cancelled", TRUE)
    <3>1. order' \in ShopOrder /\ order'.owes = order.owes /\ order'.paid = order.paid
      BY <1>0, <2>3 DEF ShopOrder
    <3> QED BY <1>15, <2>1, <2>3, <3>1
  <2> QED BY <1>18, <2>2, <2>3 DEF CancelOrder
<1>19. ASSUME NEW p \in Passes, RecordSync(p) PROVE ShopInv'
  <2> DEFINE me == pass[p]
             r1 == [row EXCEPT !.status = me.to]
  <2>1. me.to \in RowStatuses /\ me.done \in BOOLEAN /\ (me.to = "paid" => intent.state = "paid")
    BY <1>0 DEF ShopPass, PassSound
  <2>2. row' = [r1 EXCEPT !.synced = me.done] /\ End(p) /\ UNCHANGED <<intent, order>>
    BY <1>19 DEF RecordSync
  <2>3. r1 \in ShopRow /\ r1.status = me.to
    BY <1>0, <2>1 DEF ShopRow
  <2> HIDE DEF r1
  <2>4. row' \in ShopRow /\ row'.status = me.to
    BY <2>1, <2>2, <2>3 DEF ShopRow
  <2> QED BY <1>0, <2>1, <2>2, <2>4, PassEnds
<1>20. CASE UNCHANGED vars
  BY <1>20 DEF vars, ShopInv, GrownIsNotPaid
<1>21. ASSUME NEW p \in Passes, Step(p) PROVE ShopInv'
  <2>1. ApplyIntent(p) \/ Settle(p) => ShopInv'
    BY PassApplies, PassSettles
  <2> QED BY <1>7, <1>8, <1>9, <1>11, <1>12, <1>13, <1>14, <1>16, <1>17, <1>18, <1>19, <1>21, <2>1, Zenon DEF Step
<1> QED BY <1>1, <1>2, <1>4, <1>5, <1>10, <1>13, <1>20, <1>21, Zenon DEF Next

LEMMA ShopInvInit == Init => ShopInv
<1> SUFFICES ASSUME Init PROVE ShopInv
  OBVIOUS
<1>1. NoOrder = [paid |-> "no", cancelled |-> "no", owes |-> 0] /\ order = [NoOrder EXCEPT !.owes = 1]
  BY DEF NoOrder, Init
<1>2. order \in ShopOrder /\ order.paid = "no"
  BY <1>1 DEF ShopOrder
<1>3. intent \in ShopIntent /\ intent.state = "none"
  BY DEF Init, NoIntent, ShopIntent, IntentStates
<1>4. row \in ShopRow /\ row.status = "none"
  BY DEF Init, NoRow, ShopRow, RowStatuses
<1>5. pass = [p \in Passes |-> Idle]
  BY DEF Init
<1> QED BY <1>2, <1>3, <1>4, <1>5, IdleIsPass DEF ShopInv, GrownIsNotPaid

\* However old the intent, the row or the pass is, the app marks an order paid
\* only by a payment that covers what the order owed when it arrived.
THEOREM ShopIsToldTheTruth == Spec => []GrownIsNotPaid
<1>1. ShopInv => GrownIsNotPaid
  BY DEF ShopInv
<1> QED BY <1>1, ShopInvInit, ShopInvStep, PTL DEF Spec
=============================================================================
