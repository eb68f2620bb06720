----------------------------- MODULE OrderIngest -----------------------------
(***************************************************************************)
(* How a Monerium order reaches the rail: by webhook, at least once and in *)
(* any order, or by the cron that lists the orders of a tenant.  Both end  *)
(* in the same monotone upsert and the same forward path.                  *)
(*                                                                         *)
(* Monerium retries a delivery until it is answered 200, or gives up after *)
(* 12 hours; a delivery that is slow to be answered is repeated while the  *)
(* first one still runs.                                                   *)
(***************************************************************************)
EXTENDS Naturals, FiniteSets

CONSTANTS
  Orders,         \* issue orders of one tenant
  Workers,        \* isolates running at the same time
  PendingIntents, \* some intent of the tenant is pending all the time
  Reconciling,    \* RECONCILE_FORWARDS = "1"
  MaxMishaps      \* bound: failed upserts, deliveries given up and evictions

IngestAssumption ==
  PendingIntents \in BOOLEAN /\ Reconciling \in BOOLEAN /\ MaxMishaps \in Nat

VARIABLES
  upstream,  \* order -> its state at Monerium
  sending,   \* deliveries Monerium has not seen answered: <<order, state>>
  claims,    \* monerium_processed_event_ids
  stored,    \* order -> its state in monerium_orders
  forwards,  \* orders with a row in monerium_forwards
  told,      \* lifecycle events enqueued: <<"rcv" | "rej", order>>
  alerted,   \* orders the operator was alerted of
  tasks,     \* worker -> what it does for which order
  failures,  \* failed upserts and deliveries given up so far
  crashes    \* evictions so far

vars == <<upstream, sending, claims, stored, forwards, told, alerted, tasks, failures, crashes>>

OrderStates == {"none", "placed", "pending", "processed", "rejected"}
OrderStateRank(state) ==
  CASE state = "none" -> 0 [] state = "placed" -> 1 [] state = "pending" -> 2
    [] state \in {"processed", "rejected"} -> 3

PCs == {"claim", "upsert", "release", "background",   \* a webhook delivery
        "compare", "advance", "notify", "stuck"}      \* the cron, for one order
Jobs == {"notify", "forward"}

Idle == << >>
Task == [pc : PCs, order : Orders, state : OrderStates, jobs : SUBSET Jobs]

Init ==
  /\ upstream = [o \in Orders |-> "none"] /\ stored = [o \in Orders |-> "none"]
  /\ sending = {} /\ claims = {} /\ forwards = {} /\ told = {} /\ alerted = {}
  /\ tasks = [w \in Workers |-> Idle] /\ failures = 0 /\ crashes = 0

At(w, pc)   == tasks[w] # Idle /\ tasks[w].pc = pc
Goto(w, pc) == tasks' = [tasks EXCEPT ![w].pc = pc]
Rest(w)     == tasks' = [tasks EXCEPT ![w] = Idle]
Begin(w, pc, o, state) ==
  /\ tasks[w] = Idle
  /\ tasks' = [tasks EXCEPT ![w] = [pc |-> pc, order |-> o, state |-> state, jobs |-> {}]]

Event(w)  == <<tasks[w].order, tasks[w].state>>
Answer(w) == sending' = sending \ {Event(w)}

Fails == failures + crashes < MaxMishaps /\ failures' = failures + 1

-----------------------------------------------------------------------------
(* Monerium *)

Advance(o, state) ==
  /\ \/ upstream[o] = "none" /\ state \in {"placed", "pending"}
     \/ upstream[o] = "placed" /\ state = "pending"
     \/ upstream[o] = "pending" /\ state \in {"processed", "rejected"}
  /\ upstream' = [upstream EXCEPT ![o] = state]
  /\ sending' = sending \cup {<<o, state>>}
  /\ UNCHANGED <<claims, stored, forwards, told, alerted, tasks, failures, crashes>>

GiveUp(event) ==
  /\ event \in sending /\ Fails
  /\ sending' = sending \ {event}
  /\ UNCHANGED <<upstream, claims, stored, forwards, told, alerted, tasks, crashes>>

Deliver(w, event) ==
  /\ event \in sending
  /\ Begin(w, "claim", event[1], event[2])
  /\ UNCHANGED <<upstream, sending, claims, stored, forwards, told, alerted, failures, crashes>>

-----------------------------------------------------------------------------
(* handleMoneriumWebhook *)

\* The INSERT OR IGNORE of the webhook-id decides who processes the event.
AlreadyProcessed(w) ==
  /\ At(w, "claim")
  /\ IF Event(w) \in claims
     THEN Answer(w) /\ Rest(w) /\ UNCHANGED claims
     ELSE claims' = claims \cup {Event(w)} /\ Goto(w, "upsert") /\ UNCHANGED sending
  /\ UNCHANGED <<upstream, stored, forwards, told, alerted, failures, crashes>>

\* The WHERE of the upsert.
Applies(o, state) == OrderStateRank(state) >= OrderStateRank(stored[o])

\* A slip: an order is forwarded when Monerium has the funds.
JobsOnReceipt(state) ==
  IF state \in {"pending", "processed"} THEN {"notify", "forward"} ELSE {"notify"}

\* What runs in waitUntil after the answer.
JobsFor(state) == IF state = "processed" THEN {"notify", "forward"} ELSE {"notify"}

UpsertOrder(w) ==
  LET t == tasks[w] IN
  /\ At(w, "upsert")
  /\ \/ /\ Applies(t.order, t.state)
        /\ stored' = [stored EXCEPT ![t.order] = t.state]
        /\ tasks' = [tasks EXCEPT ![w].pc = "background", ![w].jobs = JobsFor(t.state)]
        /\ Answer(w)
        /\ UNCHANGED failures
     \/ /\ ~ Applies(t.order, t.state)
        /\ Answer(w) /\ Rest(w)
        /\ UNCHANGED <<stored, failures>>
     \/ /\ Fails
        /\ Goto(w, "release")
        /\ UNCHANGED <<stored, sending>>
  /\ UNCHANGED <<upstream, claims, forwards, told, alerted, crashes>>

\* The claim is given back so that the retry is processed; the database that
\* has failed once may fail again, and nobody hears of it.
ReleaseProcessed(w) ==
  /\ At(w, "release")
  /\ claims' = claims \ {Event(w)} \/ UNCHANGED claims
  /\ Rest(w)
  /\ UNCHANGED <<upstream, sending, stored, forwards, told, alerted, failures, crashes>>

\* rcv_ for everything but a refusal, so that a missed order.created is made
\* up for.
LifecycleEvent(o, state) == <<IF state = "rejected" THEN "rej" ELSE "rcv", o>>

\* The INSERT of a forward or a park by maybeForward (the module Forwarding).
Background(w, job) ==
  LET t == tasks[w] IN
  /\ At(w, "background") /\ job \in t.jobs
  /\ told' = IF job = "notify" THEN told \cup {LifecycleEvent(t.order, t.state)} ELSE told
  /\ forwards' = IF job = "forward" THEN forwards \cup {t.order} ELSE forwards
  /\ IF t.jobs = {job} THEN Rest(w) ELSE tasks' = [tasks EXCEPT ![w].jobs = @ \ {job}]
  /\ UNCHANGED <<upstream, sending, claims, stored, alerted, failures, crashes>>

-----------------------------------------------------------------------------
(* reconcileTenant, for one order of the list *)

\* A slip: a processed order is not in flight.
InFlightBeforeMint ==
  \/ PendingIntents
  \/ \E o \in Orders : stored[o] \in {"placed", "pending"}

SomethingInFlight ==
  \/ PendingIntents
  \/ \E o \in Orders : stored[o] \in {"placed", "pending"}
  \/ \E o \in Orders : stored[o] = "processed" /\ o \notin forwards

ListOrders(w, o) ==
  /\ SomethingInFlight /\ upstream[o] # "none"
  /\ Begin(w, "compare", o, upstream[o])
  /\ UNCHANGED <<upstream, sending, claims, stored, forwards, told, alerted, failures, crashes>>

Compare(w) ==
  LET t == tasks[w] IN
  /\ At(w, "compare")
  /\ Goto(w, IF OrderStateRank(t.state) > OrderStateRank(stored[t.order])
             THEN "advance" ELSE "stuck")
  /\ UNCHANGED <<upstream, sending, claims, stored, forwards, told, alerted, failures, crashes>>

AdvanceStored(w) ==
  LET t == tasks[w] IN
  /\ At(w, "advance")
  /\ IF Applies(t.order, t.state)
     THEN stored' = [stored EXCEPT ![t.order] = t.state] /\ Goto(w, "notify")
     ELSE Goto(w, "stuck") /\ UNCHANGED stored
  /\ UNCHANGED <<upstream, sending, claims, forwards, told, alerted, failures, crashes>>

NotifyLifecycle(w) ==
  LET t == tasks[w] IN
  /\ At(w, "notify")
  /\ told' = told \cup {LifecycleEvent(t.order, t.state)}
  /\ Goto(w, "stuck")
  /\ UNCHANGED <<upstream, sending, claims, stored, forwards, alerted, failures, crashes>>

\* A row, a state before "processed", or the grace period: nothing to do.
LeaveAlone(w) ==
  /\ At(w, "stuck")
  /\ Rest(w)
  /\ UNCHANGED <<upstream, sending, claims, stored, forwards, told, alerted, failures, crashes>>

\* Past the grace period.  The forward path looks for a row once more and its
\* latch decides; the alert comes again every 6 hours.
IsStuckWithoutForward(w, o) ==
  /\ At(w, "stuck") /\ tasks[w].order = o
  /\ tasks[w].state = "processed" /\ o \notin forwards
  /\ forwards' = IF Reconciling THEN forwards \cup {o} ELSE forwards
  /\ alerted' = IF Reconciling THEN alerted ELSE alerted \cup {o}
  /\ Rest(w)
  /\ UNCHANGED <<upstream, sending, claims, stored, told, failures, crashes>>

-----------------------------------------------------------------------------
Crash(w) ==
  /\ tasks[w] # Idle /\ failures + crashes < MaxMishaps
  /\ crashes' = crashes + 1
  /\ Rest(w)
  /\ UNCHANGED <<upstream, sending, claims, stored, forwards, told, alerted, failures>>

Webhook(w) == \/ AlreadyProcessed(w) \/ UpsertOrder(w) \/ ReleaseProcessed(w)
              \/ \E job \in Jobs : Background(w, job)
Reconcile(w) == Compare(w) \/ AdvanceStored(w) \/ NotifyLifecycle(w) \/ LeaveAlone(w)

Next ==
  \/ \E o \in Orders, state \in OrderStates : Advance(o, state)
  \/ \E event \in Orders \X OrderStates : GiveUp(event)
  \/ \E w \in Workers :
       \/ Webhook(w) \/ Reconcile(w) \/ Crash(w)
       \/ \E event \in Orders \X OrderStates : Deliver(w, event)
       \/ \E o \in Orders : ListOrders(w, o) \/ IsStuckWithoutForward(w, o)

Spec == Init /\ [][Next]_vars

\* Isolates run to their end unless evicted.  Monerium delivers an event until
\* it is answered or given up, and completes an order; the cron lists every
\* order of the last 7 days again and again, for longer than the grace period.
Fairness ==
  /\ \A w \in Workers : WF_vars(Webhook(w) \/ Reconcile(w))
  /\ \A event \in Orders \X OrderStates : SF_vars(\E w \in Workers : Deliver(w, event))
  /\ \A o \in Orders : /\ SF_vars(\E w \in Workers : ListOrders(w, o))
                       /\ SF_vars(\E w \in Workers : IsStuckWithoutForward(w, o))
FairSpec == Spec /\ Fairness

-----------------------------------------------------------------------------
(* Properties *)

\* The type invariant of the ingest.
TypeOK ==
  /\ upstream \in [Orders -> OrderStates] /\ stored \in [Orders -> OrderStates]
  /\ sending \subseteq Orders \X OrderStates /\ claims \subseteq Orders \X OrderStates
  /\ forwards \subseteq Orders /\ alerted \subseteq Orders
  /\ told \subseteq {"rcv", "rej"} \X Orders
  /\ tasks \in [Workers -> Task \cup {Idle}]
  /\ failures \in 0..MaxMishaps /\ crashes \in 0..MaxMishaps

\* The forward path only ever runs for an order whose EURe has been minted,
\* whichever of webhook and cron got there first and with however old a
\* snapshot (the race of 2026-05-21).
ForwardsAreMinted == \A o \in forwards : upstream[o] = "processed"

\* What is stored of an order follows Monerium: it never goes back, whichever
\* of a late delivery and the cron writes last, and an order that ended one
\* way never turns into one that ended the other way.
StoredGoesForward ==
  [][\A o \in Orders :
       /\ OrderStateRank(stored'[o]) >= OrderStateRank(stored[o])
       /\ OrderStateRank(stored[o]) = 3 => stored'[o] = stored[o]]_vars

\* No processed order sits silently in the Safe: it gets a row, or the operator
\* an alert - though an event is lost, by an eviction after its claim, a failed
\* release or a delivery given up, and nothing else of the tenant is in flight.
ProcessedIsAnswered ==
  \A o \in Orders : (upstream[o] = "processed") ~> (o \in forwards \/ o \in alerted)

\* The merchant hears how an order ended, unless an isolate is evicted.
OutcomeIsTold ==
  \A o \in Orders :
    /\ (upstream[o] = "processed") ~> (<<"rcv", o>> \in told \/ crashes > 0)
    /\ (upstream[o] = "rejected") ~> (<<"rej", o>> \in told \/ crashes > 0)

=============================================================================
