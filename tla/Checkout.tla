------------------------------ MODULE Checkout ------------------------------
(***************************************************************************)
(* What a payer sees of one intent.  The status is worked out on every     *)
(* read from the intent, the order its money came in and the forward of    *)
(* that order (intents/stage.ts).  The checkout page asks for it every two *)
(* seconds and listens to the event stream; the app only asks.  Answers    *)
(* may be late, and with more than one under way they overtake each other. *)
(*                                                                         *)
(* Orders, forwards and the intent move here as Forwarding has it, cut to  *)
(* what the status tells apart; the stream is that of IntentStream, cut to *)
(* the snapshots it delivers.                                              *)
(***************************************************************************)
EXTENDS Naturals, FiniteSets

CONSTANTS
  Orders,    \* orders that can match the intent
  Kinds,     \* of the orders: "ref" (names the intent), "preview" (the resolver's guess) or "bare"
  NoOrder,
  InFlight,  \* requests of the viewer that can be under way at once
  MaxErrors  \* bound: lost answers and errors of the stream

ASSUME CheckoutAssumption ==
  /\ NoOrder \notin Orders /\ Kinds \subseteq [Orders -> {"ref", "preview", "bare"}]
  /\ InFlight \in Nat \ {0} /\ MaxErrors \in Nat

VARIABLES
  kind, who,  \* what the orders are, and who watches: "page" or "app"
  order,    \* order -> monerium_orders.state, or "none"
  forward,  \* order -> [status, mine], its forward and whether it names this intent
  newest,   \* the order of the newest webhook event that names the sid
  intent,   \* [state, order, received]
  view,     \* [snap, polling, stream, qr, overlay]: what is shown and what keeps it fresh
  asked,    \* the answers on the way back
  pushed,   \* the event of the stream that is on its way
  errors

vars == <<kind, who, order, forward, newest, intent, view, asked, pushed, errors>>
railVars == <<kind, who, order, forward, newest, intent>>
viewVars == <<kind, who, view, asked, pushed, errors>>

NoForward == [status |-> "none", mine |-> FALSE]
Stages == {"awaiting_payment", "received_processing", "minted", "forwarding", "settled", "rejected", "expired"}
Snap == [state : {"pending", "paid", "expired"}, stage : Stages, under : BOOLEAN]
None == [state |-> "none"]   \* nothing shown yet, no answer or event under way

-----------------------------------------------------------------------------
(* stage.ts *)

\* Another intent's forward never counts.
OwnForward(o) == IF forward[o].mine THEN forward[o].status ELSE "none"

\* A slip: an order without a reference is taken for minted to its target.
ForwardExpectedIfRouted(o) == OwnForward(o) # "none" \/ kind[o] = "ref"

\* A forward settles the question; only a bare address is minted straight to its target.
ForwardExpected(o) == OwnForward(o) # "none" \/ kind[o] # "bare"

\* The order the intent was paid with, else the one of the newest event, unless
\* its money went to another intent.
StageOrder ==
  CASE intent.order # NoOrder -> intent.order
    [] newest # NoOrder /\ forward[newest].status \in {"moving", "confirmed"} /\ ~ forward[newest].mine -> NoOrder
    [] OTHER -> newest

ResolveStage ==
  LET o == StageOrder
  IN IF o = NoOrder THEN IF intent.state = "expired" THEN "expired" ELSE "awaiting_payment"
     ELSE CASE order[o] = "rejected" -> "rejected"
            [] order[o] = "placed" -> "received_processing"
            [] OwnForward(o) = "confirmed" -> "settled"
            [] OwnForward(o) = "moving" -> "forwarding"
            [] OTHER -> IF ForwardExpected(o) THEN "minted" ELSE "settled"

\* The timeline of the status, each step as far as it is proven.
Steps ==
  LET o     == StageOrder
      at(s) == o # NoOrder /\ order[o] = s
  IN [payment    |-> IF o # NoOrder THEN "proven" ELSE IF ResolveStage = "expired" THEN "failed" ELSE "waiting",
      processing |-> CASE o = NoOrder -> "waiting" [] at("rejected") -> "failed"
                       [] at("processed") -> "proven" [] OTHER -> "in_progress",
      minted     |-> IF at("processed") THEN "proven" ELSE "waiting",
      forwarding |-> IF o = NoOrder THEN "waiting"
                     ELSE CASE OwnForward(o) = "none" -> IF ForwardExpected(o) THEN "waiting" ELSE "skipped"
                            [] OwnForward(o) = "stuck" -> "failed"
                            [] OwnForward(o) = "confirmed" -> "proven" [] OTHER -> "in_progress",
      settled    |-> IF ResolveStage = "settled" THEN "proven" ELSE "waiting"]

\* What the API and the stream answer with.
Status == [state |-> intent.state, stage |-> ResolveStage, under |-> intent.received = "under"]

-----------------------------------------------------------------------------
(* Orders, forwards and the intent *)

\* Every event of an order with the sid in its memo names it; of the others only
\* the first does, by the resolver's preview.
WebhookEvent(o, state) ==
  /\ \/ order[o] = "none" /\ state = "placed"
     \/ order[o] = "placed" /\ state \in {"processed", "rejected"}
  /\ order' = [order EXCEPT ![o] = state]
  /\ newest' = IF kind[o] = "preview" /\ state # "placed" THEN newest ELSE o
  /\ UNCHANGED <<forward, intent>> /\ UNCHANGED viewVars

\* The resolver decides again when the order is processed.
Claim(o, mine) ==
  /\ order[o] = "processed" /\ kind[o] # "bare" /\ forward[o] = NoForward
  /\ kind[o] = "ref" => mine
  /\ forward' = [forward EXCEPT ![o] = [status |-> "moving", mine |-> mine]]
  /\ UNCHANGED <<order, newest, intent>> /\ UNCHANGED viewVars

\* "moving" is pending or submitted, "stuck" failed, blocked or resolved by hand;
\* a retry moves a stuck one on.
MoveForward(o, from, to) ==
  /\ <<from, to>> \in {<<"moving", "confirmed">>, <<"moving", "stuck">>, <<"stuck", "moving">>}
  /\ forward[o].status = from
  /\ forward' = [forward EXCEPT ![o].status = to]
  /\ UNCHANGED <<order, newest, intent>> /\ UNCHANGED viewVars

\* Enough pays an open intent; less is recorded and leaves it open; an expired one
\* is recorded as late.
SettleIntent(o, enough) ==
  /\ forward[o] = [status |-> "confirmed", mine |-> TRUE] /\ intent.order # o
  /\ \/ intent.state = "pending" /\ enough
     \/ intent.state # "paid" /\ intent.order = NoOrder
  /\ intent' = [state    |-> IF intent.state = "pending" /\ enough THEN "paid" ELSE intent.state,
               order    |-> o,
               received |-> IF enough THEN "full" ELSE "under"]
  /\ UNCHANGED <<order, forward, newest>> /\ UNCHANGED viewVars

SweepExpired ==
  /\ intent.state = "pending" /\ intent' = [intent EXCEPT !.state = "expired"]
  /\ UNCHANGED <<order, forward, newest>> /\ UNCHANGED viewVars

-----------------------------------------------------------------------------
(* The page and the app *)

Opened == view.stream # "unopened"


\* 'settled' is not enough for the page: the return to the shop waits for 'paid'.
IsFinal(s) ==
  \/ s.stage = "rejected"
  \/ s.stage = "settled" /\ (who = "app" \/ s.state = "paid" \/ s.under)

\* Money seen hides the QR code for good and raises the success overlay once; a
\* refusal takes the overlay down.
Received(s) == s.stage \in {"received_processing", "minted", "forwarding", "settled"}
Apply(v, s) ==
  [v EXCEPT !.snap = s, !.qr = @ /\ s.stage \in {"awaiting_payment", "expired"},
            !.overlay = CASE Received(s) /\ @ = "none" -> "up"
                          [] s.stage = "rejected" /\ @ = "up" -> "gone" [] OTHER -> @]

FreeSlots == {n \in 1..InFlight : asked[n] = None}
Ask == [asked EXCEPT ![CHOOSE n \in FreeSlots : TRUE] = Status]

\* The page comes with a snapshot and watches unless its stage is over; the app
\* opens with none.
Open ==
  LET over == Status.stage \in {"settled", "rejected"}
  IN /\ ~ Opened
     /\ view' = IF who = "app" THEN [view EXCEPT !.polling = TRUE, !.stream = "closed"]
                ELSE Apply([view EXCEPT !.polling = ~ over, !.stream = IF over THEN "closed" ELSE "connecting"],
                           Status)
     /\ UNCHANGED <<asked, pushed, errors>> /\ UNCHANGED railVars

\* Every two seconds, whether or not the last answer has come.
Poll ==
  /\ view.polling /\ FreeSlots # {} /\ asked' = Ask
  /\ UNCHANGED <<view, pushed, errors>> /\ UNCHANGED railVars

\* The snapshot replaces what is shown, whatever it is older than.
PollAnswered(n) ==
  /\ asked[n] # None /\ asked' = [asked EXCEPT ![n] = None]
  /\ view' = Apply([view EXCEPT !.polling = @ /\ ~ IsFinal(asked[n])], asked[n])
  /\ UNCHANGED <<pushed, errors>> /\ UNCHANGED railVars

\* No answer: the next tick asks again.
PollFailed(n) ==
  /\ asked[n] # None /\ asked' = [asked EXCEPT ![n] = None]
  /\ errors < MaxErrors /\ errors' = errors + 1
  /\ UNCHANGED <<view, pushed>> /\ UNCHANGED railVars

\* A snapshot on connecting, and one after each change.
StreamSend ==
  /\ view.stream \in {"connecting", "open"} /\ pushed = None
  /\ view.stream = "open" => view.snap # Status
  /\ pushed' = Status /\ view' = [view EXCEPT !.stream = "open"]
  /\ UNCHANGED <<asked, errors>> /\ UNCHANGED railVars

\* A slip: a stage the server closes on ends the watching.
StreamEventEnding ==
  LET over == pushed.stage \in {"settled", "rejected", "expired"}
  IN /\ view.stream = "open" /\ pushed # None /\ pushed' = None
     /\ over => FreeSlots # {}
     /\ view' = Apply([view EXCEPT !.stream = IF over THEN "closed" ELSE "open", !.polling = FALSE], pushed)
     /\ asked' = IF over THEN Ask ELSE asked
     /\ UNCHANGED errors /\ UNCHANGED railVars

\* Polling stops; on a stage the server closes on, one more poll refreshes the
\* record, and polling goes on if there is more to come.
StreamEvent ==
  LET over == pushed.stage \in {"settled", "rejected", "expired"}
  IN /\ view.stream = "open" /\ pushed # None /\ pushed' = None
     /\ over => FreeSlots # {}
     /\ view' = Apply([view EXCEPT !.stream = IF over THEN "closed" ELSE "open",
                                   !.polling = over /\ (pushed.stage = "expired" \/ ~ IsFinal(pushed))],
                      pushed)
     /\ asked' = IF over THEN Ask ELSE asked
     /\ UNCHANGED errors /\ UNCHANGED railVars

\* The browser connects again by itself, unless the server has refused.
StreamError(to) ==
  /\ errors < MaxErrors /\ errors' = errors + 1
  /\ view.stream \in {"connecting", "open"} /\ pushed' = None
  /\ view' = [view EXCEPT !.stream = to, !.polling = @ \/ ~ IsFinal(view.snap)]
  /\ UNCHANGED asked /\ UNCHANGED railVars

\* The payer closes the overlay to see the details; it does not come again.
Dismiss ==
  /\ view.overlay = "up" /\ view' = [view EXCEPT !.overlay = "gone"]
  /\ UNCHANGED <<asked, pushed, errors>> /\ UNCHANGED railVars

-----------------------------------------------------------------------------
Init ==
  /\ kind \in Kinds /\ who \in {"page", "app"}
  /\ order = [o \in Orders |-> "none"] /\ forward = [o \in Orders |-> NoForward] /\ newest = NoOrder
  /\ intent = [state |-> "pending", order |-> NoOrder, received |-> "none"]
  /\ view = [snap |-> None, polling |-> FALSE, stream |-> "unopened", qr |-> TRUE, overlay |-> "none"]
  /\ asked = [n \in 1..InFlight |-> None] /\ pushed = None /\ errors = 0

Next ==
  \/ \E o \in Orders : \/ \E state \in {"placed", "processed", "rejected"} : WebhookEvent(o, state)
                       \/ \E mine \in BOOLEAN : Claim(o, mine)
                       \/ \E from, to \in {"moving", "stuck", "confirmed"} : MoveForward(o, from, to)
                       \/ \E enough \in BOOLEAN : SettleIntent(o, enough)
  \/ SweepExpired \/ Open \/ Dismiss \/ Poll
  \/ \E n \in 1..InFlight : PollAnswered(n) \/ PollFailed(n)
  \/ StreamSend \/ StreamEvent \/ \E to \in {"connecting", "closed"} : StreamError(to)

\* A tick comes, and an answer or an event arrives unless it is lost.
Fairness ==
  /\ WF_vars(Poll) /\ WF_vars(StreamSend) /\ WF_vars(StreamEvent)
  /\ \A n \in 1..InFlight : WF_vars(PollAnswered(n))

Spec == Init /\ [][Next]_vars /\ Fairness

-----------------------------------------------------------------------------
(* Properties *)

\* The variables stay in their types.
TypeOK ==
  /\ kind \in Kinds /\ who \in {"page", "app"}
  /\ order \in [Orders -> {"none", "placed", "processed", "rejected"}]
  /\ \A o \in Orders : forward[o] = NoForward \/ forward[o] \in [status : {"moving", "stuck", "confirmed"}, mine : BOOLEAN]
  /\ newest \in Orders \cup {NoOrder}
  /\ intent \in [state : {"pending", "paid", "expired"}, order : Orders \cup {NoOrder},
                 received : {"none", "under", "full"}]
  /\ Status \in Snap
  /\ view \in [snap : Snap \cup {None}, polling : BOOLEAN, stream : {"unopened", "connecting", "open", "closed"},
              qr : BOOLEAN, overlay : {"none", "up", "gone"}]
  /\ asked \in [1..InFlight -> Snap \cup {None}] /\ pushed \in Snap \cup {None}

Delivered(o) == forward[o] = [status |-> "confirmed", mine |-> TRUE] \/ (kind[o] = "bare" /\ order[o] = "processed")

\* SR-03: 'settled' on a screen means that money of this intent has reached its
\* recipient, never another intent's, however late or out of order the answer.
SettledIsTrue ==
  (view.snap # None /\ view.snap.stage = "settled") => \E o \in Orders : Delivered(o)

\* "No fake progress": a step is only shown as proven when those before it are.
NoFakeProgress ==
  LET key  == <<"payment", "processing", "minted", "forwarding", "settled">>
  IN \A i, j \in 1..5 : (i < j /\ Steps[key[j]] = "proven") => Steps[key[i]] \in {"proven", "skipped"}

\* Both together: neither the screen nor the timeline is ahead of the money.
StatusIsHonest == SettledIsTrue /\ NoFakeProgress

\* An intent whose preview was withdrawn awaits its payment again; a page that
\* knows it shows the code to pay by, and no success.
AwaitingCanBePaid ==
  (view.snap = Status /\ view.snap.stage = "awaiting_payment") => view.qr /\ view.overlay # "up"

\* "Polling as the fallback that never goes away": once the intent is paid, the
\* open page and the open app come to show it for good, unless an order
\* was refused, with which they stop.
Stopped == \E o \in Orders : order[o] = "rejected"
PaidIsShown ==
  (Opened /\ intent.state = "paid" /\ ~ Stopped)
    ~> [](Stopped \/ (view.snap # None /\ view.snap.stage = "settled"))

\* "The return to the app waits for 'paid'", and an open page waits with it.
PageReturns ==
  (Opened /\ who = "page" /\ intent.state = "paid" /\ ~ Stopped) ~> (Stopped \/ view.snap.state = "paid")
=============================================================================
