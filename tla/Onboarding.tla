------------------------------ MODULE Onboarding ------------------------------
(***************************************************************************)
(* One tenant on its way to a live rail: tenants/railAdmin.ts over         *)
(* tenants/onboarding.ts, the encrypted columns of tenants/rail.ts and     *)
(* tenants/secrets.ts, and docs/runbook/kek-rotation.md.                   *)
(*                                                                         *)
(* Every admin request loads the tenant and its rail row first, decides on *)
(* what it saw and then writes without a condition; the worker may be      *)
(* evicted between any two of its steps.  A stored secret is a pair of its *)
(* value and the key-encryption key it is under.                           *)
(***************************************************************************)
EXTENDS Naturals, Sequences

CONSTANTS
  Requests,    \* the admin requests that may be in flight together
  Configs,     \* the settings an operator may save
  Forwarding,  \* the settings whose mode is 'forward': the rail signs
  MaxValue,    \* bound: secrets ever generated or typed in
  MaxKek,      \* bound: key-encryption keys ever used
  MaxCrashes   \* bound: evictions of the worker

OnboardingAssumption ==
  /\ Forwarding \subseteq Configs
  /\ MaxValue \in Nat \ {0} /\ MaxKek \in Nat \ {0} /\ MaxCrashes \in Nat

VARIABLES
  status,      \* tenants.status, "none" before the tenant exists
  rail,        \* the tenant_rail row
  env,         \* the two worker secrets: the KEK in use and the previous one, 0 = unset
  req,         \* the admin requests
  subs,        \* enabled webhook subscriptions at Monerium, each named by the secret it signs with
  minted,      \* secrets generated so far
  wrapped,     \* the KEK under which the operator's last whole rewrap ran
  certified,   \* the settings the last passed verification looked at
  crashes

vars == <<status, rail, env, req, subs, minted, wrapped, certified, crashes>>

NoBlob  == [value |-> 0, kek |-> 0]
Columns == <<"client", "router", "hook">>
NoRail  == [config |-> "none", client |-> NoBlob, router |-> NoBlob, hook |-> NoBlob,
            sub |-> 0, verified |-> FALSE]
Idle    == [op |-> "none", pc |-> "idle", seen |-> NoRail, keks |-> [cur |-> 0, prev |-> 0],
            config |-> "none", fresh |-> FALSE, column |-> 0]

\* What verification looks at, without the keys the secrets are wrapped in.
Content(row) == [config |-> row.config, client |-> row.client.value, router |-> row.router.value,
                 hook |-> row.hook.value, sub |-> row.sub]

\* importKeks and decryptSecret: the current key, then the previous one.
Opens(keks, blob) == blob.kek \in {keks.cur, keks.prev} \ {0}

\* railFromStoredRow: a rail whose secrets do not all open is no rail.
Usable(keks, row) ==
  /\ row.config # "none"
  /\ Opens(keks, row.client)
  /\ row.hook = NoBlob \/ Opens(keks, row.hook)
  /\ row.config \in Forwarding => row.router = NoBlob \/ Opens(keks, row.router)

Seal(r) == [value |-> minted + 1, kek |-> req[r].keks.cur]

Init ==
  /\ status = "none" /\ rail = NoRail
  /\ env = [cur |-> 1, prev |-> 0]
  /\ req = [r \in Requests |-> Idle]
  /\ subs = {} /\ minted = 0 /\ wrapped = 1 /\ crashes = 0
  /\ certified = Content(NoRail)

CreateTenant ==
  /\ status = "none" /\ status' = "onboarding"
  /\ UNCHANGED <<rail, env, req, subs, minted, wrapped, certified, crashes>>

\* loadTenantAndRail and the checks that follow it.
Load(r, op, config, fresh, column) ==
  /\ req[r] = Idle /\ status # "none"
  /\ req' = [req EXCEPT ![r] = [op |-> op, pc |-> op, seen |-> rail, keks |-> env,
                                config |-> config, fresh |-> fresh, column |-> column]]
  /\ UNCHANGED <<status, rail, env, subs, minted, wrapped, certified, crashes>>

\* suspend_first: the rail of a live tenant is not edited.
MayEdit == status # "active"

LoadPut(r, config, fresh) ==
  MayEdit /\ (rail = NoRail => fresh) /\ Load(r, "put", config, fresh, 0)

LoadRouterKey(r) == MayEdit /\ rail # NoRail /\ Load(r, "router", "none", FALSE, 0)
LoadWebhook(r)   == MayEdit /\ rail # NoRail /\ Load(r, "disable", "none", FALSE, 0)
LoadVerify(r)    == rail # NoRail /\ Usable(env, rail) /\ Load(r, "report", "none", FALSE, 0)
LoadRewrap(r)    == rail # NoRail /\ Load(r, "wrap", "none", FALSE, 1)

\* nextStatus
NextStatus(op) ==
  CASE op = "suspend"  -> IF status = "active" THEN "suspended" ELSE "refused"
    [] op = "activate" -> IF rail.verified /\ status = "onboarding" THEN "active" ELSE "refused"
    [] op = "resume"   -> IF rail.verified /\ status = "suspended" THEN "active" ELSE "refused"

LoadTransition(r, op) ==
  NextStatus(op) # "refused" /\ Load(r, "status", NextStatus(op), FALSE, 0)

Done(r) == req' = [req EXCEPT ![r] = Idle]
Goto(r, pc) == req' = [req EXCEPT ![r].pc = pc]
Running(r, pc) == req[r].pc = pc

\* A slip: saving the settings keeps the verification of the old ones.
UpsertKeepingVerified(r, client) ==
  [rail EXCEPT !.config = req[r].config, !.client = client]
\* upsertRail: one statement; a secret that was not typed in is written back as it was seen.
Upsert(r, client) ==
  [rail EXCEPT !.config = req[r].config, !.client = client, !.verified = FALSE]

Put(r) ==
  /\ Running(r, "put")
  /\ req[r].fresh => minted < MaxValue
  /\ rail' = Upsert(r, IF req[r].fresh THEN Seal(r) ELSE req[r].seen.client)
  /\ minted' = IF req[r].fresh THEN minted + 1 ELSE minted
  /\ Done(r)
  /\ UNCHANGED <<status, env, subs, wrapped, certified, crashes>>

\* generateRouterKey; asking for ?rotate=1 is the operator's word, so it is always given.
RouterKey(r) ==
  /\ Running(r, "router") /\ minted < MaxValue
  /\ rail' = [rail EXCEPT !.router = Seal(r), !.verified = FALSE]
  /\ minted' = minted + 1
  /\ Done(r)
  /\ UNCHANGED <<status, env, subs, wrapped, certified, crashes>>

\* registerTenantWebhook: the previous subscription goes first, if Monerium answers.
DisablePrevious(r) ==
  /\ Running(r, "disable") /\ Goto(r, "secret")
  /\ \/ subs' = IF Usable(req[r].keks, rail) THEN subs \ {rail.sub} ELSE subs
     \/ subs' = subs
  /\ UNCHANGED <<status, rail, env, minted, wrapped, certified, crashes>>

StoreHookSecret(r) ==
  /\ Running(r, "secret") /\ minted < MaxValue
  /\ rail' = [rail EXCEPT !.hook = Seal(r), !.sub = 0, !.verified = FALSE]
  /\ minted' = minted + 1
  /\ req' = [req EXCEPT ![r].pc = "subscribe", ![r].column = minted + 1]
  /\ UNCHANGED <<status, env, subs, wrapped, certified, crashes>>

\* The subscription is made with the request's own secret; the answer may be lost.
Subscribe(r) ==
  /\ Running(r, "subscribe")
  /\ \/ Usable(req[r].keks, rail) /\ subs' = subs \cup {req[r].column} /\ Goto(r, "record")
     \/ Usable(req[r].keks, rail) /\ subs' = subs \cup {req[r].column} /\ Done(r)
     \/ UNCHANGED subs /\ Done(r)
  /\ UNCHANGED <<status, rail, env, minted, wrapped, certified, crashes>>

RecordSubscription(r) ==
  /\ Running(r, "record")
  /\ rail' = [rail EXCEPT !.sub = req[r].column]
  /\ Done(r)
  /\ UNCHANGED <<status, env, subs, minted, wrapped, certified, crashes>>

\* runVerify on the row the request read: its own columns, then the outside world.
Complete(row) ==
  /\ row.hook # NoBlob /\ row.sub # 0
  /\ row.config \in Forwarding => row.router # NoBlob

SaveReport(r, outside) ==
  LET ok == outside /\ Complete(req[r].seen) IN
  /\ Running(r, "report")
  /\ rail' = [rail EXCEPT !.verified = ok]
  /\ certified' = IF ok THEN Content(req[r].seen) ELSE certified
  /\ Done(r)
  /\ UNCHANGED <<status, env, subs, minted, wrapped, crashes>>

SetStatus(r) ==
  /\ Running(r, "status") /\ status' = req[r].config
  /\ Done(r)
  /\ UNCHANGED <<rail, env, subs, minted, wrapped, certified, crashes>>

\* encryptSecret(keks[0], decryptSecret(keks, blob)): the value is kept, the key is the current one.
Rewrapped(r, blob) == [blob EXCEPT !.kek = req[r].keks.cur]

\* rewrapTenantSecrets: one column at a time, from the row it read at the start.
RewrapColumn(r) ==
  /\ Running(r, "wrap")
  /\ LET column == Columns[req[r].column]
         blob   == req[r].seen[column]
         last   == req[r].column = Len(Columns)
     IN \/ /\ blob # NoBlob /\ ~Opens(req[r].keks, blob)          \* rewrap_failed
           /\ Done(r) /\ UNCHANGED <<rail, wrapped>>
        \/ /\ blob # NoBlob => Opens(req[r].keks, blob)
           /\ rail' = IF blob = NoBlob THEN rail
                      ELSE [rail EXCEPT ![column] = Rewrapped(r, blob)]
           /\ wrapped' = IF last THEN req[r].keks.cur ELSE wrapped
           /\ IF last THEN Done(r) ELSE req' = [req EXCEPT ![r].column = @ + 1]
  /\ UNCHANGED <<status, env, subs, minted, certified, crashes>>

Evict(r) ==
  /\ req[r] # Idle /\ crashes < MaxCrashes
  /\ crashes' = crashes + 1 /\ Done(r)
  /\ UNCHANGED <<status, rail, env, subs, minted, wrapped, certified>>

\* The runbook: the old key becomes PREV, then the new one takes its place, and PREV
\* goes when a rewrap under the new key has come back without an error.
KeepOldKek ==
  /\ env.prev = 0 /\ env.cur < MaxKek /\ env' = [env EXCEPT !.prev = env.cur]
  /\ UNCHANGED <<status, rail, req, subs, minted, wrapped, certified, crashes>>
NewKek ==
  /\ env.prev = env.cur /\ env' = [env EXCEPT !.cur = @ + 1]
  /\ UNCHANGED <<status, rail, req, subs, minted, wrapped, certified, crashes>>
DropOldKek ==
  /\ env.prev \notin {0, env.cur} /\ (wrapped = env.cur \/ rail = NoRail)
  /\ \A r \in Requests : req[r] = Idle
  /\ env' = [env EXCEPT !.prev = 0]
  /\ UNCHANGED <<status, rail, req, subs, minted, wrapped, certified, crashes>>

Next ==
  \/ CreateTenant \/ KeepOldKek \/ NewKek \/ DropOldKek
  \/ \E r \in Requests :
       \/ \E config \in Configs, fresh \in BOOLEAN : LoadPut(r, config, fresh)
       \/ LoadRouterKey(r) \/ LoadWebhook(r) \/ LoadVerify(r) \/ LoadRewrap(r)
       \/ \E op \in {"activate", "suspend", "resume"} : LoadTransition(r, op)
       \/ Put(r) \/ RouterKey(r) \/ SetStatus(r) \/ RewrapColumn(r) \/ Evict(r)
       \/ DisablePrevious(r) \/ StoreHookSecret(r) \/ Subscribe(r) \/ RecordSubscription(r)
       \/ \E outside \in BOOLEAN : SaveReport(r, outside)

Spec == Init /\ [][Next]_vars
------------------------------------------------------------------------------
\* Types.
TypeOK ==
  /\ status \in {"none", "onboarding", "active", "suspended"}
  /\ rail.config \in Configs \cup {"none"} /\ rail.verified \in BOOLEAN
  /\ subs \subseteq 1..minted /\ minted \in 0..MaxValue /\ crashes \in 0..MaxCrashes
  /\ \A c \in {"client", "router", "hook"} : rail[c].value <= minted /\ rail[c].kek <= MaxKek

\* A live tenant runs on exactly the settings, keys and webhook its last passed
\* verification looked at: onboarding.ts, "passes verify, and only then may be activated.
\* Any change to the rail config resets verification".
ActiveIsVerified == status = "active" => Content(rail) = certified

\* Every stored secret opens with a key the worker still has, at every point of a KEK
\* rotation and wherever a rewrap was cut off (docs/runbook/kek-rotation.md).
SecretsOpen ==
  \A c \in {"client", "router", "hook"} : rail[c] # NoBlob => Opens(env, rail[c])

\* A live tenant's webhook subscription is enabled at Monerium and signs with the secret
\* the route checks with (registerTenantWebhook).
ActiveIsSubscribed == status = "active" => rail.sub \in subs /\ rail.sub = rail.hook.value
==============================================================================
