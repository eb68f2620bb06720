---------------------------- MODULE CheckoutProofs ----------------------------
(***************************************************************************)
(* A theorem about what the payer is told, on the page and in the app, for *)
(* any number of orders, answers under way, payments and failures.         *)
(***************************************************************************)
EXTENDS Checkout, Integers, TLAPS

-----------------------------------------------------------------------------
(* What the payer sees *)

Forwards == [status : {"none", "moving", "stuck", "confirmed"}, mine : BOOLEAN]

\* Money of the intent has reached its recipient.
Arrived == \E o \in Orders : Delivered(o)

\* A snapshot that says so is right, and stays right.
Truthful(s) == s # None => (s.stage = "settled" => Arrived)

\* Orders, forwards and the intent as the webhooks, the resolver and the
\* settlement leave them: a forward is of a processed order, the money that the
\* intent holds was forwarded for it, and a named order has had an event.
RailInv ==
  /\ kind \in [Orders -> {"ref", "preview", "bare"}]
  /\ order \in [Orders -> {"none", "placed", "processed", "rejected"}]
  /\ forward \in [Orders -> Forwards]
  /\ newest \in Orders \cup {NoOrder} /\ intent.order \in Orders \cup {NoOrder}
  /\ \A o \in Orders : forward[o].status # "none" => order[o] = "processed"
  /\ newest # NoOrder => order[newest] # "none"
  /\ intent.order # NoOrder => forward[intent.order] = [status |-> "confirmed", mine |-> TRUE]

\* Whatever is shown, or on its way to be shown, is right.
ScreenInv ==
  /\ DOMAIN view = {"snap", "polling", "stream", "qr", "overlay"} /\ Truthful(view.snap)
  /\ asked = [n \in 1..InFlight |-> asked[n]] /\ \A n \in 1..InFlight : Truthful(asked[n])
  /\ Truthful(pushed)

\* The order that the stage is taken from has had an event.
LEMMA StageOrderKnown ==
  ASSUME RailInv
  PROVE  /\ StageOrder \in Orders \cup {NoOrder}
         /\ StageOrder # NoOrder => order[StageOrder] \in {"placed", "processed", "rejected"}
<1>1. StageOrder \in {NoOrder, newest, intent.order}
  BY DEF StageOrder
<1>2. newest \in Orders => order[newest] \in {"placed", "processed", "rejected"}
  BY CheckoutAssumption DEF RailInv
<1>3. intent.order \in Orders => order[intent.order] \in {"placed", "processed", "rejected"}
  BY CheckoutAssumption DEF RailInv
<1> QED BY <1>1, <1>2, <1>3 DEF RailInv

\* How a stage is settled: by the intent's own forward, or without any to a bare address.
LEMMA SettledStage ==
  ASSUME RailInv, ResolveStage = "settled"
  PROVE  /\ StageOrder \in Orders /\ order[StageOrder] = "processed"
         /\ \/ OwnForward(StageOrder) = "confirmed"
            \/ OwnForward(StageOrder) = "none" /\ kind[StageOrder] = "bare"
         /\ Delivered(StageOrder)
<1>1. StageOrder \in Orders /\ order[StageOrder] = "processed"
  <2>1. StageOrder = NoOrder => ResolveStage \in {"expired", "awaiting_payment"}
    BY DEF ResolveStage
  <2>2. \A o \in Orders : order[o] # "processed" => OwnForward(o) = "none"
    BY DEF OwnForward, RailInv
  <2>3. StageOrder \in Orders /\ order[StageOrder] = "rejected" => ResolveStage = "rejected"
    BY <2>2, CheckoutAssumption DEF ResolveStage
  <2>4. StageOrder \in Orders /\ order[StageOrder] = "placed" => ResolveStage = "received_processing"
    BY <2>2, CheckoutAssumption DEF ResolveStage
  <2> QED BY <2>1, <2>3, <2>4, StageOrderKnown
<1>2. \/ OwnForward(StageOrder) = "confirmed"
      \/ OwnForward(StageOrder) = "none" /\ kind[StageOrder] = "bare"
  <2> DEFINE o == StageOrder
             own == OwnForward(o)
  <2>1. o # NoOrder
    BY <1>1, CheckoutAssumption
  <2>2. CASE own = "confirmed"
    BY <2>2
  <2>3. CASE own = "moving"
    <3>1. ResolveStage = "forwarding"
      BY <1>1, <2>1, <2>3 DEF ResolveStage
    <3> QED BY <3>1
  <2>4. CASE own # "confirmed" /\ own # "moving"
    <3>1. ResolveStage = IF ForwardExpected(o) THEN "minted" ELSE "settled"
      BY <1>1, <2>1, <2>4 DEF ResolveStage
    <3> QED BY <3>1 DEF ForwardExpected
  <2> QED BY <2>2, <2>3, <2>4
<1>3. OwnForward(StageOrder) = "confirmed" => forward[StageOrder] = [status |-> "confirmed", mine |-> TRUE]
  BY <1>1 DEF OwnForward, RailInv, Forwards
<1> QED BY <1>1, <1>2, <1>3 DEF Delivered

LEMMA StatusIsTruthful == RailInv => Truthful(Status)
BY SettledStage DEF Status, Truthful, Arrived

\* Each step of the timeline rests on those before it.
LEMMA StepsInOrder == RailInv => NoFakeProgress
<1> SUFFICES ASSUME RailInv PROVE NoFakeProgress
  OBVIOUS
<1> DEFINE o == StageOrder
           key == <<"payment", "processing", "minted", "forwarding", "settled">>
<1>1. Steps.payment = "proven" <=> o # NoOrder
  BY DEF Steps
<1>2. Steps.processing = "proven" <=> o # NoOrder /\ order[o] = "processed"
  BY DEF Steps
<1>3. Steps.minted = "proven" <=> o # NoOrder /\ order[o] = "processed"
  BY DEF Steps
<1>4. Steps.forwarding = "proven" => o # NoOrder /\ order[o] = "processed"
  <2>1. Steps.forwarding = "proven" => o # NoOrder /\ OwnForward(o) = "confirmed"
    BY DEF Steps
  <2> QED BY <2>1, StageOrderKnown DEF OwnForward, RailInv
<1>5. Steps.settled = "proven" => /\ o # NoOrder /\ order[o] = "processed"
                                  /\ Steps.forwarding \in {"proven", "skipped"}
  <2>1. Steps.settled = "proven" => ResolveStage = "settled"
    BY DEF Steps
  <2> QED BY <2>1, SettledStage, CheckoutAssumption DEF Steps, ForwardExpected
<1>6. /\ Steps[key[1]] = Steps.payment /\ Steps[key[2]] = Steps.processing /\ Steps[key[3]] = Steps.minted
      /\ Steps[key[4]] = Steps.forwarding /\ Steps[key[5]] = Steps.settled
  OBVIOUS
<1> HIDE DEF key, o
<1>7. ASSUME NEW i \in 1..5, NEW j \in 1..5, i < j, Steps[key[j]] = "proven"
      PROVE  Steps[key[i]] \in {"proven", "skipped"}
  <2>1. i \in 1..4 /\ j \in 2..5
    BY <1>7
  <2> QED BY <1>1, <1>2, <1>3, <1>4, <1>5, <1>6, <1>7, <2>1
<1> QED BY <1>7 DEF NoFakeProgress, key

\* Nothing of the rail goes back: what was delivered stays so.
LEMMA RailStep == 
  ASSUME RailInv, [Next]_vars
  PROVE  RailInv' /\ (Arrived => Arrived') 
<1>1. ASSUME NEW o \in Orders, NEW state, WebhookEvent(o, state) PROVE RailInv' /\ (Arrived => Arrived')
  <2>1. /\ order[o] \in {"none", "placed"} /\ state \in {"placed", "processed", "rejected"}
        /\ order' = [order EXCEPT ![o] = state] /\ newest' \in {newest, o}
        /\ UNCHANGED <<kind, forward, intent>>
    BY <1>1 DEF WebhookEvent, viewVars
  <2>2. /\ order' \in [Orders -> {"none", "placed", "processed", "rejected"}] /\ order'[o] = state
        /\ \A q \in Orders \ {o} : order'[q] = order[q]
    BY <2>1 DEF RailInv
  <2>3. RailInv'
    BY <2>1, <2>2 DEF RailInv
  <2>4. \A q \in Orders : Delivered(q) => order[q] = "processed"
    BY DEF Delivered, RailInv
  <2>5. Arrived => Arrived'
    BY <2>1, <2>2, <2>4 DEF Arrived, Delivered
  <2> QED BY <2>3, <2>5
<1>2. ASSUME NEW o \in Orders, NEW r \in Forwards, forward' = [forward EXCEPT ![o] = r],
             order[o] = "processed", forward[o].status # "confirmed", UNCHANGED <<kind, order, newest, intent>>
      PROVE  RailInv' /\ (Arrived => Arrived')
  <2>1. /\ forward' \in [Orders -> Forwards] /\ \A q \in Orders \ {o} : forward'[q] = forward[q]
        /\ forward'[o] = r
    BY <1>2 DEF RailInv
  <2>2. forward[o] # [status |-> "confirmed", mine |-> TRUE]
    BY <1>2
  <2>3. intent.order # o /\ UNCHANGED intent.order
    BY <1>2, <2>2, CheckoutAssumption DEF RailInv
  <2>4. RailInv'
    BY <1>2, <2>1, <2>3 DEF RailInv
  <2>5. Arrived => Arrived'
    BY <1>2, <2>1, <2>2 DEF Arrived, Delivered
  <2> QED BY <2>4, <2>5
<1>3. ASSUME NEW o \in Orders, NEW mine \in BOOLEAN, Claim(o, mine) PROVE RailInv' /\ (Arrived => Arrived')
  <2>1. [status |-> "moving", mine |-> mine] \in Forwards /\ forward[o].status # "confirmed"
    BY <1>3 DEF Claim, NoForward, Forwards
  <2> QED BY <1>2, <1>3, <2>1 DEF Claim, viewVars
<1>4. ASSUME NEW o \in Orders, NEW from, NEW to, MoveForward(o, from, to) PROVE RailInv' /\ (Arrived => Arrived')
  <2> DEFINE r == [forward[o] EXCEPT !.status = to]
  <2>1. to \in {"confirmed", "stuck", "moving"} /\ from \in {"moving", "stuck"} /\ forward[o].status = from
        /\ forward[o] \in Forwards
    BY <1>4 DEF MoveForward, RailInv
  <2>2. r \in Forwards
    BY <2>1 DEF Forwards
  <2>3. forward' = [forward EXCEPT ![o] = r]
    BY <1>4 DEF MoveForward
  <2>4. order[o] = "processed"
    BY <2>1 DEF RailInv
  <2> QED BY <1>2, <1>4, <2>1, <2>2, <2>3, <2>4 DEF MoveForward, viewVars
<1>5. ASSUME NEW o \in Orders, NEW enough \in BOOLEAN, SettleIntent(o, enough) PROVE RailInv' /\ (Arrived => Arrived')
  <2>1. intent'.order = o /\ forward[o] = [status |-> "confirmed", mine |-> TRUE] /\ UNCHANGED <<kind, order, forward, newest>>
    BY <1>5 DEF SettleIntent, viewVars
  <2> QED BY <2>1 DEF RailInv, Arrived, Delivered
<1>6. ASSUME SweepExpired PROVE RailInv' /\ (Arrived => Arrived')
  <2>1. intent'.order = intent.order /\ UNCHANGED <<kind, order, forward, newest>>
    BY <1>6 DEF SweepExpired, viewVars
  <2> QED BY <2>1 DEF RailInv, Arrived, Delivered
<1>7. ASSUME UNCHANGED railVars PROVE RailInv' /\ (Arrived => Arrived')
  BY <1>7 DEF railVars, RailInv, Arrived, Delivered
<1> QED BY <1>1, <1>3, <1>4, <1>5, <1>6, <1>7
        DEF Next, vars, railVars, Open, Dismiss, Poll, PollAnswered, PollFailed, StreamSend, StreamEvent, StreamError

\* What a step puts on the screen, or on its way there, is what was there before or the status.
LEMMA ScreenMoves ==
  ASSUME ScreenInv, [Next]_vars
  PROVE  /\ DOMAIN view' = {"snap", "polling", "stream", "qr", "overlay"}
         /\ view'.snap \in {view.snap, Status, pushed} \cup {asked[n] : n \in 1..InFlight}
         /\ pushed' \in {pushed, Status, None}
         /\ asked' = [n \in 1..InFlight |-> asked'[n]]
         /\ \A n \in 1..InFlight : asked'[n] \in {asked[n], Status, None}
<1> DEFINE Shown(v) == DOMAIN v = {"snap", "polling", "stream", "qr", "overlay"}
           On(a) == /\ a = [n \in 1..InFlight |-> a[n]]
                    /\ \A n \in 1..InFlight : a[n] \in {asked[n], Status, None}
<1>1. \A v, s : Shown(v) => Shown(Apply(v, s)) /\ Apply(v, s).snap = s
  BY DEF Apply
<1>2. Shown(view) /\ On(asked) /\ On(Ask)
  BY DEF ScreenInv, Ask
<1> HIDE DEF Shown, On
<1> SUFFICES /\ Shown(view') /\ On(asked') /\ pushed' \in {pushed, Status, None}
             /\ view'.snap \in {view.snap, Status, pushed} \cup {asked[n] : n \in 1..InFlight}
  BY DEF Shown, On
<1>3. CASE Open
  <2> DEFINE over == Status.stage \in {"settled", "rejected"}
             v1 == [view EXCEPT !.polling = TRUE, !.stream = "closed"]
             v2 == [view EXCEPT !.polling = ~ over, !.stream = IF over THEN "closed" ELSE "connecting"]
  <2>1. UNCHANGED <<asked, pushed>> /\ view' \in {v1, Apply(v2, Status)}
    BY <1>3 DEF Open
  <2>2. Shown(v1) /\ Shown(v2) /\ v1.snap = view.snap
    BY <1>2 DEF Shown
  <2> HIDE DEF v1, v2
  <2> QED BY <1>1, <1>2, <2>1, <2>2
<1>4. CASE Dismiss
  <2>1. view' = [view EXCEPT !.overlay = "gone"] /\ UNCHANGED <<asked, pushed>>
    BY <1>4 DEF Dismiss
  <2>2. Shown(view') /\ view'.snap = view.snap
    BY <1>2, <2>1 DEF Shown
  <2> QED BY <1>2, <2>1, <2>2
<1>5. CASE Poll
  BY <1>2, <1>5 DEF Poll
<1>6. ASSUME NEW n \in 1..InFlight, PollAnswered(n) \/ PollFailed(n) PROVE On(asked') /\ UNCHANGED pushed
  <2>1. asked' = [asked EXCEPT ![n] = None] /\ UNCHANGED pushed
    BY <1>6 DEF PollAnswered, PollFailed
  <2> QED BY <1>2, <2>1 DEF On
<1>7. ASSUME NEW n \in 1..InFlight, PollAnswered(n)
      PROVE  Shown(view') /\ view'.snap \in {asked[k] : k \in 1..InFlight}
  <2> DEFINE v == [view EXCEPT !.polling = @ /\ ~ IsFinal(asked[n])]
  <2>1. view' = Apply(v, asked[n])
    BY <1>7 DEF PollAnswered
  <2>2. Shown(v)
    BY <1>2 DEF Shown
  <2> HIDE DEF v
  <2> QED BY <1>1, <2>1, <2>2
<1>8. ASSUME NEW n \in 1..InFlight, PollFailed(n) PROVE UNCHANGED view
  BY <1>8 DEF PollFailed
<1>9. CASE StreamSend
  <2>1. view' = [view EXCEPT !.stream = "open"] /\ pushed' = Status /\ UNCHANGED asked
    BY <1>9 DEF StreamSend
  <2>2. Shown(view') /\ view'.snap = view.snap
    BY <1>2, <2>1 DEF Shown
  <2> QED BY <1>2, <2>1, <2>2
<1>10. CASE StreamEvent
  <2> DEFINE over == pushed.stage \in {"settled", "rejected", "expired"}
             v == [view EXCEPT !.stream = IF over THEN "closed" ELSE "open",
                               !.polling = over /\ (pushed.stage = "expired" \/ ~ IsFinal(pushed))]
  <2>1. view' = Apply(v, pushed) /\ pushed' = None /\ asked' \in {asked, Ask}
    BY <1>10 DEF StreamEvent
  <2>2. Shown(v)
    BY <1>2 DEF Shown
  <2> HIDE DEF v
  <2> QED BY <1>1, <1>2, <2>1, <2>2
<1>11. ASSUME NEW to, StreamError(to) PROVE Shown(view') /\ view'.snap = view.snap /\ pushed' = None /\ UNCHANGED asked
  <2>1. /\ view' = [view EXCEPT !.stream = to, !.polling = @ \/ ~ IsFinal(view.snap)]
        /\ pushed' = None /\ UNCHANGED asked
    BY <1>11 DEF StreamError
  <2> QED BY <1>2, <2>1 DEF Shown
<1>12. CASE UNCHANGED <<view, asked, pushed>>
  BY <1>2, <1>12
<1> QED BY <1>2, <1>3, <1>4, <1>5, <1>6, <1>7, <1>8, <1>9, <1>10, <1>11, <1>12
        DEF Next, vars, viewVars, WebhookEvent, Claim, MoveForward, SettleIntent, SweepExpired

\* A screen shows only what was true when it was said.
LEMMA ScreenStep ==
  ASSUME RailInv, ScreenInv, [Next]_vars
  PROVE  ScreenInv'
<1> DEFINE True1(s) == s # None => (s.stage = "settled" => Arrived')
<1>1. \A s : Truthful(s) => True1(s)
  BY RailStep DEF Truthful
<1>2. /\ Truthful(None) /\ Truthful(Status) /\ Truthful(pushed) /\ Truthful(view.snap)
      /\ \A n \in 1..InFlight : Truthful(asked[n])
  BY StatusIsTruthful DEF ScreenInv, Truthful
<1> HIDE DEF True1
<1>3. True1(view'.snap) /\ True1(pushed') /\ \A n \in 1..InFlight : True1(asked'[n])
  BY <1>1, <1>2, ScreenMoves
<1> QED BY <1>3, ScreenMoves DEF ScreenInv, Truthful, True1

\* Whatever answers are late, lost or out of order, a screen that says settled
\* is right, and no step of the timeline is ahead of those before it.
THEOREM ScreensAreHonest == Spec => []StatusIsHonest
<1>1. Init => RailInv /\ ScreenInv
  <2> SUFFICES ASSUME Init PROVE RailInv /\ ScreenInv
    OBVIOUS
  <2>1. RailInv
    BY CheckoutAssumption DEF Init, RailInv, NoForward, Forwards
  <2>2. ScreenInv
    BY DEF Init, ScreenInv, Truthful
  <2> QED BY <2>1, <2>2
<1>2. RailInv /\ ScreenInv /\ [Next]_vars => RailInv' /\ ScreenInv'
  BY RailStep, ScreenStep
<1>3. RailInv /\ ScreenInv => StatusIsHonest
  <2>1. ScreenInv => SettledIsTrue
    BY DEF ScreenInv, Truthful, SettledIsTrue, Arrived
  <2> QED BY <2>1, StepsInOrder DEF StatusIsHonest
<1> QED BY <1>1, <1>2, <1>3, PTL DEF Spec

=============================================================================
