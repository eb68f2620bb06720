-------------------------------- MODULE Sandbox --------------------------------
(**************************************************************************)
(* The self-serve sandbox (ADR 0024): tenants without a rail, intents of  *)
(* theirs, and payments that are simulated by the writes a real payment   *)
(* makes.  Requests overlap, isolates are evicted, and the six-hourly     *)
(* cron deletes the tenants that were idle for a TTL.                     *)
(*                                                                        *)
(* Names, URLs, Turnstile, the event log, payment.received and .rejected  *)
(* are left out.  The unit of time is the TTL, so no request lasts from   *)
(* one instant to the next.                                               *)
(**************************************************************************)
EXTENDS Naturals, FiniteSets, TLC

CONSTANTS
  Callers,
  PerIp,       \* SANDBOX_PER_IP_PER_DAY; all callers have one IP
  MaxActive,   \* SANDBOX_MAX_TENANTS
  PerTenant,   \* SIM_PER_TENANT_PER_DAY
  MaxTenants, MaxOrders,   \* bounds: tenants and simulated orders ever made
  MaxNow,      \* bound on the clock
  MaxCrashes   \* bound: evictions

SandboxAssumption == {PerIp, MaxActive, PerTenant, MaxTenants, MaxOrders, MaxNow, MaxCrashes} \subseteq Nat

Sandboxes == 1..MaxTenants
SimOrders  == 1..MaxOrders

VARIABLES
  now,
  tenants,   \* tenants and sandbox_tenants: [made, on, born, expires, keys, hook]
  intent,    \* the intent: [tenant, state, order, got]; tenant 0 before it is made
  orders,    \* monerium_orders of the intent: order -> state
  forwards,  \* orders with a confirmed forward row
  told,      \* webhook_outbox, of settlements: [what, order]
  call,      \* caller -> its request
  sweep,     \* the cron's list
  answered,  \* a simulation that settles was answered ok
  crashes

vars == <<now, tenants, intent, orders, forwards, told, call, sweep, answered, crashes>>
settled == <<intent, orders, forwards, told, answered>>
outside == <<now, crashes>>

Ask    == 2          \* amount_cents of the intent
Idle   == [pc |-> "idle"]
NoIntent == [tenant |-> 0, state |-> "none", order |-> 0, got |-> 0]
Outcomes == {"paid", "received", "underpaid", "late", "rejected"}

Init ==
  /\ now = 0 /\ intent = NoIntent /\ forwards = {} /\ told = {} /\ sweep = {} /\ answered = FALSE /\ crashes = 0
  /\ tenants = [t \in Sandboxes |-> [made |-> FALSE, on |-> FALSE, born |-> 0, expires |-> 0, keys |-> {}, hook |-> FALSE]]
  /\ orders = [o \in SimOrders |-> "none"]
  /\ call = [c \in Callers |-> Idle]

Goes(c, r) == call' = [call EXCEPT ![c] = r]
Ends(c)    == Goes(c, Idle)
At(c, pc)  == call[c].pc = pc
Done(t, settles) == [pc |-> "touch", tenant |-> t, settles |-> settles]

-----------------------------------------------------------------------------
(* Sandboxes *)

CountActive == Cardinality({t \in Sandboxes : tenants[t].on /\ tenants[t].expires > now})
CountRecent == Cardinality({t \in Sandboxes : tenants[t].on /\ tenants[t].born = now})

\* The limits are read, then the rows are written in a batch, then two keys.
AskTenant(c) ==
  /\ At(c, "idle") /\ CountRecent < PerIp /\ CountActive < MaxActive
  /\ Goes(c, [pc |-> "create"])
  /\ UNCHANGED <<tenants, sweep, settled, outside>>

CreateSandboxTenant(c, hook) ==
  \E t \in Sandboxes :
    /\ At(c, "create") /\ ~ tenants[t].made /\ \A s \in 1..(t - 1) : tenants[s].made
    /\ tenants' = [tenants EXCEPT ![t] = [made |-> TRUE, on |-> TRUE, born |-> now, expires |-> now + 1,
                                          keys |-> {}, hook |-> hook]]
    /\ Goes(c, [pc |-> "keys", tenant |-> t])
    /\ UNCHANGED <<sweep, settled, outside>>

\* No cron deletes a tenant that was just made.
InsertApiKey(c) ==
  LET t == call[c].tenant IN
  /\ At(c, "keys")
  /\ IF "secret" \in tenants[t].keys
     THEN tenants' = [tenants EXCEPT ![t].keys = @ \cup {"public"}] /\ Ends(c)
     ELSE tenants' = [tenants EXCEPT ![t].keys = {"secret"}] /\ UNCHANGED call
  /\ UNCHANGED <<sweep, settled, outside>>

\* resolveRequestTenant, for a *_test_ key; a tenant past its TTL is one until it is swept.
Resolved(t, kinds) == tenants[t].on /\ tenants[t].keys \cap kinds # {}

TouchedTenant(t) == IF tenants[t].on THEN [tenants[t] EXCEPT !.expires = now + 1] ELSE tenants[t]
TouchSandboxTenant(t) == tenants' = [tenants EXCEPT ![t] = TouchedTenant(t)]

UpdateSandboxWebhook(c, t, hook) ==
  /\ At(c, "idle") /\ Resolved(t, {"secret"})
  /\ tenants' = [tenants EXCEPT ![t] = [TouchedTenant(t) EXCEPT !.hook = hook]]
  /\ UNCHANGED <<call, sweep, settled, outside>>

AskIntent(c, t) ==
  /\ At(c, "idle") /\ Resolved(t, {"secret", "public"}) /\ Goes(c, [pc |-> "intent", tenant |-> t])
  /\ UNCHANGED <<tenants, sweep, settled, outside>>

CreateSandboxIntent(c) ==
  /\ At(c, "intent") /\ Goes(c, Done(call[c].tenant, FALSE))
  /\ intent' = IF intent = NoIntent THEN [NoIntent EXCEPT !.tenant = call[c].tenant, !.state = "pending"] ELSE intent
  /\ UNCHANGED <<tenants, sweep, orders, forwards, told, answered, outside>>

\* What a request ends with; a simulation is answered after it.
Touch(c) ==
  /\ At(c, "touch") /\ TouchSandboxTenant(call[c].tenant) /\ Ends(c)
  /\ answered' = (answered \/ call[c].settles)
  /\ UNCHANGED <<sweep, intent, orders, forwards, told, outside>>

\* sweepExpiredIntents, once the deadline of the intent is over.
Expire ==
  /\ intent.state = "pending" /\ intent' = [intent EXCEPT !.state = "expired"]
  /\ UNCHANGED <<tenants, orders, forwards, told, call, sweep, answered, outside>>

-----------------------------------------------------------------------------
(* POST /api/intents/:sid/simulate *)

\* simulatedAmountCents; an amount that the caller names makes a payment in full of an
\* underpaid one or the other way round, and the other outcomes do not look at it.
SimulatedAmount(outcome) == IF outcome = "underpaid" THEN Ask - 1 ELSE Ask

Simulations == Cardinality({o \in SimOrders : orders[o] # "none"})

SimulateRoute(c, outcome) ==
  /\ At(c, "idle") /\ intent.tenant # 0 /\ tenants[intent.tenant].on
  /\ Simulations < PerTenant /\ intent.order = 0
  /\ Goes(c, [pc |-> "open", outcome |-> outcome, cents |-> SimulatedAmount(outcome), order |-> 0, tenant |-> intent.tenant])
  /\ UNCHANGED <<tenants, sweep, settled, outside>>

\* With an order held: received ends here.
GoesOn(c, o) ==
  Goes(c, IF call[c].outcome = "received" THEN Done(call[c].tenant, FALSE)
          ELSE [call[c] EXCEPT !.pc = "finish", !.order = o])

\* The newest order of the intent, to the second: any of those there are.
\* A pending one is gone on with, a final one refused.
ReadOpen(c) ==
  LET made == {o \in SimOrders : orders[o] # "none"} IN
  /\ At(c, "open")
  /\ \/ made = {} /\ Goes(c, [call[c] EXCEPT !.pc = "receive"])
     \/ \E o \in made : IF orders[o] = "pending" THEN GoesOn(c, o) ELSE Ends(c)
  /\ UNCHANGED <<tenants, sweep, settled, outside>>

\* upsertMoneriumOrder: a state of no lower rank.
Upserted(o, state) ==
  IF state = "pending" /\ orders[o] # "none" THEN orders ELSE [orders EXCEPT ![o] = state]

\* Held: payment.received, and the end if that is the outcome.
NewOrder(c) ==
  \E o \in SimOrders :
    /\ At(c, "receive") /\ \A p \in SimOrders : orders[p] = "none" <=> p >= o
    /\ orders' = Upserted(o, "pending") /\ GoesOn(c, o)
    /\ UNCHANGED <<tenants, sweep, intent, forwards, told, answered, outside>>

Reject(c) ==
  /\ At(c, "finish") /\ call[c].outcome = "rejected"
  /\ orders' = Upserted(call[c].order, "rejected")
  /\ Goes(c, Done(call[c].tenant, FALSE))
  /\ UNCHANGED <<tenants, sweep, intent, forwards, told, answered, outside>>

\* late: the intent expires first, if nobody paid it.
ExpireFirst(c) ==
  /\ At(c, "finish") /\ call[c].outcome = "late"
  /\ intent' = IF intent.state = "pending" THEN [intent EXCEPT !.state = "expired"] ELSE intent
  /\ Goes(c, [call[c] EXCEPT !.outcome = "paid"])
  /\ UNCHANGED <<tenants, sweep, orders, forwards, told, answered, outside>>

Process(c) ==
  /\ At(c, "finish") /\ call[c].outcome \in {"paid", "underpaid"}
  /\ orders' = Upserted(call[c].order, "processed")
  /\ Goes(c, [pc |-> "forward", cents |-> call[c].cents, order |-> call[c].order, tenant |-> call[c].tenant])
  /\ UNCHANGED <<tenants, sweep, intent, forwards, told, answered, outside>>

\* insertForward: the live latch is per order; the settlement goes on either way.
InsertForward(c) ==
  /\ At(c, "forward") /\ forwards' = forwards \cup {call[c].order}
  /\ Goes(c, [call[c] EXCEPT !.pc = "paid"])
  /\ UNCHANGED <<tenants, sweep, intent, orders, told, answered, outside>>

\* A slip: the amount is not asked for a payment in full.
AppliesAnyAmount(mark, cents) ==
  /\ intent.tenant # 0
  /\ CASE mark = "paid"      -> intent.state = "pending"
       [] mark = "underpaid" -> intent.state = "pending" /\ intent.order = 0 /\ cents < Ask
       [] OTHER              -> intent.state = "expired" /\ intent.order = 0

\* settleNonRoutedPaid: three conditional updates, tried one after another.
Applies(mark, cents) ==
  /\ intent.tenant # 0
  /\ CASE mark = "paid"      -> intent.state = "pending" /\ cents >= Ask
       [] mark = "underpaid" -> intent.state = "pending" /\ intent.order = 0 /\ cents < Ask
       [] OTHER              -> intent.state = "expired" /\ intent.order = 0

Marks == {"paid", "underpaid", "late"}

Mark(c, mark) ==
  /\ At(c, mark)
  /\ IF Applies(mark, call[c].cents)
     THEN /\ intent' = [intent EXCEPT !.order = call[c].order, !.got = call[c].cents,
                                      !.state = IF mark = "paid" THEN "paid" ELSE @]
          /\ Goes(c, [pc |-> "tell", mark |-> mark, tenant |-> call[c].tenant])
     ELSE /\ Goes(c, CASE mark = "paid"      -> [call[c] EXCEPT !.pc = "underpaid"]
                        [] mark = "underpaid" -> [call[c] EXCEPT !.pc = "late"]
                        [] OTHER              -> Done(call[c].tenant, TRUE))
          /\ UNCHANGED intent
  /\ UNCHANGED <<tenants, sweep, orders, forwards, told, answered, outside>>

\* The event is made of the intent as it is read now; without an endpoint none is stored.
Tell(c) ==
  LET t == call[c].tenant IN
  /\ At(c, "tell") /\ Goes(c, Done(t, TRUE))
  /\ told' = IF intent.tenant # 0 /\ tenants[t].on /\ tenants[t].hook
             THEN told \cup {[what |-> call[c].mark, order |-> intent.order]} ELSE told
  /\ UNCHANGED <<tenants, sweep, intent, orders, forwards, answered, outside>>

-----------------------------------------------------------------------------
(* The cron, the clock, evictions *)

ListExpired ==
  LET due == {t \in Sandboxes : tenants[t].on /\ tenants[t].expires <= now} IN
  /\ sweep = {} /\ due # {} /\ sweep' = due
  /\ UNCHANGED <<tenants, call, settled, outside>>

\* One batch: the tenant goes with everything it owns.
DeleteTenant(t) ==
  /\ t \in sweep /\ sweep' = sweep \ {t}
  /\ tenants' = [tenants EXCEPT ![t].on = FALSE, ![t].keys = {}, ![t].hook = FALSE]
  /\ IF intent.tenant = t
     THEN /\ intent' = [NoIntent EXCEPT !.state = "swept"] /\ forwards' = {} /\ told' = {} /\ answered' = FALSE
          /\ orders' = [o \in SimOrders |-> "none"]
     ELSE UNCHANGED settled
  /\ UNCHANGED <<call, outside>>

Tick ==
  /\ now < MaxNow /\ now' = now + 1
  /\ sweep = {} /\ \A c \in Callers : At(c, "idle")
  /\ UNCHANGED <<tenants, call, sweep, settled, crashes>>

Evict ==
  /\ crashes < MaxCrashes /\ crashes' = crashes + 1
  /\ \/ \E c \in Callers : ~ At(c, "idle") /\ Ends(c) /\ UNCHANGED sweep
     \/ sweep # {} /\ sweep' = {} /\ UNCHANGED call
  /\ UNCHANGED <<now, tenants, settled>>

SimulateStep(c) ==
  \/ ReadOpen(c) \/ NewOrder(c) \/ Reject(c) \/ ExpireFirst(c) \/ Process(c) \/ InsertForward(c)
  \/ Tell(c) \/ \E mark \in Marks : Mark(c, mark)

Next ==
  \/ \E c \in Callers :
       \/ AskTenant(c) \/ InsertApiKey(c) \/ Touch(c) \/ SimulateStep(c)
       \/ \E hook \in BOOLEAN : CreateSandboxTenant(c, hook)
       \/ CreateSandboxIntent(c)
       \/ \E t \in Sandboxes : \/ intent = NoIntent /\ AskIntent(c, t)
                               \/ \E hook \in BOOLEAN : UpdateSandboxWebhook(c, t, hook)
       \/ \E outcome \in Outcomes : SimulateRoute(c, outcome)
  \/ Expire \/ ListExpired \/ (\E t \in Sandboxes : DeleteTenant(t)) \/ Tick \/ Evict

Spec == Init /\ [][Next]_vars

-----------------------------------------------------------------------------
(* What holds while the tenant is there *)

\* A simulation that was answered ok and that moved money has settled the intent, on its
\* own order or on one it lost to, whatever overlapped with it, expired or was cut off.
AnsweredIsSettled == intent.tenant # 0 /\ answered => intent.order # 0

\* What the merchant was told of the intent stays so: it is paid in full by that order, or
\* it had expired before that order's money came.
ToldStands ==
  intent.tenant # 0 =>
    \A e \in told :
      /\ e.what = "paid" => intent.state = "paid" /\ intent.order = e.order /\ intent.got >= Ask
      /\ e.what = "late" => intent.state = "expired" /\ intent.order = e.order
=============================================================================
