----------------------------- MODULE OutflowAlerts -----------------------------
(**************************************************************************)
(* The cron entry of the theft detector (monerium/outflowWatch.ts         *)
(* watchAllRailOutflows): every two minutes each rail is read, failures   *)
(* in a row are counted in KV, the third raises an alert, and a tick that *)
(* has read every rail pings a dead-man switch outside.  DirectRail has   *)
(* what a rail's reading does.                                            *)
(*                                                                        *)
(* The counter is read and written back; ticks may overlap and an isolate *)
(* be evicted.  KV answers with what was written last.                    *)
(**************************************************************************)
EXTENDS Naturals

CONSTANTS
  Ticks,           \* isolates of the cron
  Rails,           \* rails to be watched
  FailAlertTicks,  \* FAIL_ALERT_TICKS
  MaxOutages,      \* bound: outages of RPC nodes
  MaxCrashes       \* bound: evictions

AlertsAssumption == FailAlertTicks \in Nat \ {0} /\ MaxOutages \in Nat /\ MaxCrashes \in Nat

VARIABLES
  down,        \* rail -> does its RPC node refuse?
  fail,        \* rail -> watch:fail in KV, no further than one past the alert
  told,        \* rails reported blind since they were last read
  lost,        \* rails whose count was stored by a tick that ended before its alert
  tick,        \* isolate -> the tick it runs
  overlapped,  \* two ticks have been under way at the same time
  outages, crashes

vars == <<down, fail, told, lost, tick, overlapped, outages, crashes>>

Idle == [pc |-> "idle"]

Init ==
  /\ down = [r \in Rails |-> FALSE] /\ fail = [r \in Rails |-> 0]
  /\ told = {} /\ lost = {} /\ tick = [k \in Ticks |-> Idle]
  /\ overlapped = FALSE /\ outages = 0 /\ crashes = 0

At(k, pc) == tick[k].pc = pc
Set(k, t) == tick' = [tick EXCEPT ![k] = t]
Kept == UNCHANGED <<down, overlapped, outages, crashes>>

\* The rails are listed.  read: those this tick has read; ok: allOk.
StartTick(k) ==
  /\ At(k, "idle")
  /\ Set(k, [pc |-> "next", todo |-> Rails, read |-> {}, ok |-> TRUE])
  /\ overlapped' = (overlapped \/ \E j \in Ticks : ~ At(j, "idle"))
  /\ UNCHANGED <<down, fail, told, lost, outages, crashes>>

\* One rail after another; an error anywhere in its reading is the rail's.
WatchRail(k) ==
  /\ At(k, "next")
  /\ \E r \in tick[k].todo :
       LET t == [tick[k] EXCEPT !.todo = @ \ {r}]
       IN Set(k, IF down[r] THEN [pc |-> "count", todo |-> t.todo, read |-> t.read, ok |-> FALSE, rail |-> r]
                 ELSE [pc |-> "clear", todo |-> t.todo, read |-> t.read, ok |-> t.ok, rail |-> r])
  /\ UNCHANGED <<fail, told, lost>> /\ Kept

NextRail(t) == [pc |-> "next", todo |-> t.todo, read |-> t.read, ok |-> t.ok]

\* TOKEN_CACHE.delete
ClearFails(k) ==
  LET r == tick[k].rail
  IN /\ At(k, "clear")
     /\ fail' = [fail EXCEPT ![r] = 0] /\ told' = told \ {r} /\ lost' = lost \ {r}
     /\ Set(k, NextRail([tick[k] EXCEPT !.read = @ \cup {r}]))
     /\ Kept

\* TOKEN_CACHE.get; what is past the alert stays past it.
CountFails(k) ==
  LET n == fail[tick[k].rail]
  IN /\ At(k, "count")
     /\ Set(k, [pc |-> "put", todo |-> tick[k].todo, read |-> tick[k].read, ok |-> FALSE, rail |-> tick[k].rail,
                n |-> IF n > FailAlertTicks THEN n ELSE n + 1])
     /\ UNCHANGED <<fail, told, lost>> /\ Kept

\* TOKEN_CACHE.put; only the one count is told.
PutFails(k) ==
  LET t == tick[k]
  IN /\ At(k, "put")
     /\ fail' = [fail EXCEPT ![t.rail] = t.n]
     /\ Set(k, IF t.n = FailAlertTicks THEN [t EXCEPT !.pc = "alert"] ELSE NextRail(t))
     /\ UNCHANGED <<told, lost>> /\ Kept

Alert(k) ==
  /\ At(k, "alert") /\ told' = told \cup {tick[k].rail} /\ Set(k, NextRail(tick[k]))
  /\ UNCHANGED <<fail, lost>> /\ Kept

\* The ping, if every rail was read, and the end of the tick.
EndTick(k) ==
  /\ At(k, "next") /\ tick[k].todo = {} /\ Set(k, Idle)
  /\ UNCHANGED <<fail, told, lost>> /\ Kept

-----------------------------------------------------------------------------
Outage(r) ==
  /\ ~ down[r] /\ outages < MaxOutages /\ outages' = outages + 1
  /\ down' = [down EXCEPT ![r] = TRUE]
  /\ UNCHANGED <<fail, told, lost, tick, overlapped, crashes>>

Recover(r) ==
  /\ down[r] /\ down' = [down EXCEPT ![r] = FALSE]
  /\ UNCHANGED <<fail, told, lost, tick, overlapped, outages, crashes>>

Evict(k) ==
  /\ ~ At(k, "idle") /\ crashes < MaxCrashes /\ crashes' = crashes + 1
  /\ Set(k, Idle) /\ lost' = IF At(k, "alert") THEN lost \cup {tick[k].rail} ELSE lost
  /\ UNCHANGED <<down, fail, told, overlapped, outages>>

Step(k) == WatchRail(k) \/ ClearFails(k) \/ CountFails(k) \/ PutFails(k) \/ Alert(k) \/ EndTick(k)

Next ==
  \/ \E k \in Ticks : StartTick(k) \/ Step(k) \/ Evict(k)
  \/ \E r \in Rails : Outage(r) \/ Recover(r)

\* The cron comes back, and a tick that is not evicted goes on.
Fairness == WF_vars(\E k \in Ticks : StartTick(k)) /\ \A k \in Ticks : WF_vars(Step(k))

Spec == Init /\ [][Next]_vars /\ Fairness

-----------------------------------------------------------------------------
(* Properties *)

\* The variables stay in their types.
TypeOK ==
  /\ down \in [Rails -> BOOLEAN] /\ fail \in [Rails -> 0..(FailAlertTicks + 1)]
  /\ told \subseteq Rails /\ lost \subseteq Rails
  /\ \A k \in Ticks : tick[k].pc \in {"idle", "next", "clear", "count", "put", "alert"}
  /\ overlapped \in BOOLEAN /\ outages \in 0..MaxOutages /\ crashes \in 0..MaxCrashes

\* A rail that cannot be read any more is reported, unless the tick that counted the third
\* failure was evicted before the alert, or ticks have overlapped (outflowWatch.ts 392-393).
BlindIsTold ==
  \A r \in Rails : down[r] ~> (r \in told \/ ~ down[r] \/ r \in lost \/ overlapped)

\* The dead-man switch: a tick that comes to its ping has read every rail itself, so no
\* outage goes unnoticed outside once the ticks under way at its beginning have ended.
Pings(k) == At(k, "next") /\ tick[k].todo = {} /\ tick[k].ok
PingIsEarned == \A k \in Ticks : Pings(k) => tick[k].read = Rails
==============================================================================
