----------------------------- MODULE TenantAccess -----------------------------
(***************************************************************************)
(* Who may be paid: the payout whitelist and the campaigns of the tenants  *)
(* (tenants/db.ts, tenants/campaigns.ts, tenants/admin.ts), the project    *)
(* Safes the setup page makes (setup/projects.ts) and the gate that reads  *)
(* all of them before an order is forwarded (tenants/whitelist.ts).        *)
(*                                                                         *)
(* Each statement of a handler is a step: requests of several operators    *)
(* and gates of several orders interleave, and the worker may be evicted   *)
(* between any two steps.                                                  *)
(***************************************************************************)
EXTENDS Naturals

CONSTANTS
  Tenants,
  Campaigns,   \* campaign ids
  Safes,       \* addresses
  Dynamic,     \* tenants whose allow_sources name the wallet registry
  Intents,     \* [tenant, target] of the intents there are
  MainSafe,    \* a tenant's receiving Safe: money to it is not moved
  Requests,    \* admin requests in flight together
  Orders,      \* orders at the gate together
  Casts,       \* which of them take part in one behaviour
  None,
  MaxRequests, \* bound: admin requests ever made
  MaxCrashes   \* bound: evictions

AccessAssumption ==
  /\ Dynamic \subseteq Tenants
  /\ Intents \subseteq [tenant : Tenants, target : Safes]
  /\ MainSafe \in [Tenants -> Safes \cup {None}]
  /\ Casts \subseteq SUBSET (Requests \cup Orders)
  /\ MaxRequests \in Nat /\ MaxCrashes \in Nat

VARIABLES
  status,      \* tenants.status
  campaign,    \* tenant_campaigns: NoRow or [tenant, safe, live]
  listed,      \* tenant_payout_addresses without a revoked_at
  wallets,     \* addresses in wallet_registry or wallet_accounts
  deployed,    \* Safes with code on chain
  linked,      \* Safes linked to the tenants' Monerium accounts
  req,         \* the admin requests
  gate,        \* the orders at the gate
  told,        \* the registration last answered with ok for an id, until its tenant revokes it
  made,        \* campaigns that came from addProject, with their Safe
  ever,        \* addresses ever listed by a tenant
  cast,        \* the requests and orders of this behaviour
  asked, crashes

vars == <<status, campaign, listed, wallets, deployed, linked, req, gate, told, made, ever, cast, asked, crashes>>
rows  == <<status, campaign, listed, wallets>>
chain == <<deployed, linked>>
ghost == <<told, made, ever, cast>>

NoRow  == [tenant |-> None, safe |-> None, live |-> FALSE]
Idle   == [op |-> "idle", tenant |-> None, id |-> None, safe |-> None, project |-> FALSE]
AtRest == [at |-> "idle", rail |-> None, kind |-> None, id |-> None, target |-> None, tenant |-> None]

Init ==
  /\ cast \in Casts
  /\ status \in IF cast \cap Orders = {} THEN {[t \in Tenants |-> "active"]}
               ELSE [Tenants -> {"active", "suspended"}]
  /\ campaign = [c \in Campaigns |-> NoRow]
  /\ listed = [t \in Tenants |-> {}]
  /\ wallets = {} /\ deployed = {} /\ linked = {}
  /\ req = [r \in Requests |-> Idle] /\ gate = [o \in Orders |-> AtRest]
  /\ told = [c \in Campaigns |-> NoRow] /\ made = [c \in Campaigns |-> NoRow]
  /\ ever = [t \in Tenants |-> {}] /\ asked = 0 /\ crashes = 0

------------------------------------------------------------------------------
(* The admin requests.                                                     *)

Start(r, op, t, c, s, project) ==
  /\ r \in cast /\ req[r] = Idle /\ asked < MaxRequests
  /\ asked' = asked + 1
  /\ req' = [req EXCEPT ![r] = [op |-> op, tenant |-> t, id |-> c, safe |-> s, project |-> project]]
  /\ UNCHANGED <<rows, chain, ghost, gate, crashes>>

Ask(r, t) ==
  \/ \E c \in Campaigns, s \in Safes : Start(r, "check", t, c, s, FALSE)
  \/ \E c \in Campaigns, s \in Safes \ {MainSafe[t]} : Start(r, "plan", t, c, s, TRUE)
  \/ \E c \in Campaigns : Start(r, "revoke", t, c, None, FALSE)
  \/ \E s \in Safes : Start(r, "list", t, None, s, FALSE)
  \/ \E s \in Safes : Start(r, "unlist", t, None, s, FALSE)

Goto(r, op) == req' = [req EXCEPT ![r].op = op]
Done(r)     == req' = [req EXCEPT ![r] = Idle]

\* campaignIdFree: a revoked campaign is not seen, whoever's it was.
IdFree(t, c) == campaign[c].live => campaign[c].tenant = t

\* registerCampaign and the first check of addProject.
Check(r) ==
  /\ req[r].op \in {"check", "plan"}
  /\ IF ~IdFree(req[r].tenant, req[r].id) THEN Done(r)
     ELSE Goto(r, IF req[r].op = "plan" THEN "deploy" ELSE "add")
  /\ UNCHANGED <<rows, chain, ghost, gate, asked, crashes>>

OnceDeployed(r) == Goto(r, "link")

\* addProject: the Worker's deployer or the owner's own wallet makes the planned Safe;
\* a request that finds no code and cannot deploy ends.
Deploy(r) ==
  /\ req[r].op = "deploy"
  /\ \/ req[r].safe \in deployed /\ OnceDeployed(r) /\ UNCHANGED deployed
     \/ req[r].safe \notin deployed /\ Done(r) /\ UNCHANGED deployed
     \/ deployed' = deployed \cup {req[r].safe} /\ (OnceDeployed(r) \/ Done(r))
  /\ UNCHANGED <<rows, linked, ghost, gate, asked, crashes>>

\* findAddress, else link: Monerium may refuse, or link and lose the answer.
Link(r) ==
  /\ req[r].op = "link"
  /\ \/ linked' = linked \cup {req[r].safe} /\ (Goto(r, "check") \/ Done(r))
     \/ UNCHANGED linked /\ Done(r)
  /\ UNCHANGED <<rows, deployed, ghost, gate, asked, crashes>>

\* addCampaign: ON CONFLICT ... WHERE the row is the same tenant's; otherwise nothing is written.
Written(t, c, s) ==
  IF campaign[c] = NoRow \/ campaign[c].tenant = t
  THEN [tenant |-> t, safe |-> s, live |-> TRUE] ELSE campaign[c]

AddCampaign(r) ==
  LET me == req[r] IN
  /\ me.op = "add" /\ Goto(r, "whitelist")
  /\ campaign' = [campaign EXCEPT ![me.id] = Written(me.tenant, me.id, me.safe)]
  /\ made' = IF campaign'[me.id] = campaign[me.id] THEN made
             ELSE [made EXCEPT ![me.id] = IF me.project THEN campaign'[me.id] ELSE NoRow]
  /\ UNCHANGED <<status, listed, wallets, chain, told, ever, cast, gate, asked, crashes>>

PutOnList(t, s) ==
  /\ listed' = [listed EXCEPT ![t] = @ \cup {s}]
  /\ ever' = [ever EXCEPT ![t] = @ \cup {s}]

\* The Safe goes on the whitelist too, and the operator is told ok.
ListCampaign(r) ==
  LET me == req[r] IN
  /\ me.op = "whitelist" /\ Done(r)
  /\ PutOnList(me.tenant, me.safe)
  /\ told' = [told EXCEPT ![me.id] = [tenant |-> me.tenant, safe |-> me.safe, live |-> TRUE]]
  /\ UNCHANGED <<status, campaign, wallets, chain, made, cast, gate, asked, crashes>>

\* revokeCampaign: only the tenant named in the URL (BW-24).
RevokeCampaign(r) ==
  LET me == req[r] IN
  /\ me.op = "revoke" /\ Done(r)
  /\ campaign' = IF campaign[me.id].tenant = me.tenant
                 THEN [campaign EXCEPT ![me.id].live = FALSE] ELSE campaign
  /\ told' = IF told[me.id].tenant = me.tenant THEN [told EXCEPT ![me.id] = NoRow] ELSE told
  /\ UNCHANGED <<status, listed, wallets, chain, made, ever, cast, gate, asked, crashes>>

\* addPayoutAddress and revokePayoutAddress.
ListAddress(r) ==
  /\ req[r].op = "list" /\ Done(r) /\ PutOnList(req[r].tenant, req[r].safe)
  /\ UNCHANGED <<status, campaign, wallets, chain, told, made, cast, gate, asked, crashes>>
UnlistAddress(r) ==
  /\ req[r].op = "unlist" /\ Done(r)
  /\ listed' = [listed EXCEPT ![req[r].tenant] = @ \ {req[r].safe}]
  /\ UNCHANGED <<status, campaign, wallets, chain, ghost, gate, asked, crashes>>

Evict(r) ==
  /\ req[r] # Idle /\ crashes < MaxCrashes /\ crashes' = crashes + 1 /\ Done(r)
  /\ UNCHANGED <<rows, chain, ghost, gate, asked>>

\* Tenants come and go live (Onboarding) and users register their own wallets; only an order
\* at the gate can tell.
SwitchTenant(t) ==
  /\ \E o \in Orders : gate[o] # AtRest
  /\ status' = [status EXCEPT ![t] = IF @ = "active" THEN "suspended" ELSE "active"]
  /\ UNCHANGED <<campaign, listed, wallets, chain, ghost, req, gate, asked, crashes>>
RegisterWallet(s) ==
  /\ \E o \in Orders : gate[o] # AtRest
  /\ wallets' = wallets \cup {s} /\ s \notin wallets
  /\ UNCHANGED <<status, campaign, listed, chain, ghost, req, gate, asked, crashes>>

------------------------------------------------------------------------------
(* The gate: authorizeForward on a tenant's rail.                          *)

\* A signed webhook brings an order to the rail of the tenant whose IBAN was paid; its memo
\* names a campaign or an intent and an address.
Arrive(o, rail, kind, id, target) ==
  /\ o \in cast /\ gate[o] = AtRest
  /\ gate' = [gate EXCEPT ![o] = [at |-> "bind", rail |-> rail, kind |-> kind, id |-> id,
                                  target |-> target, tenant |-> None]]
  /\ UNCHANGED <<rows, chain, ghost, req, asked, crashes>>

Park(o)   == gate' = [gate EXCEPT ![o] = AtRest]
At(o, pc) == gate[o].at = pc

\* A slip: the rail does not ask whose campaign or intent the memo named.
AnyTenants(o, bound) == bound.target = gate[o].target
\* tenant_mismatch and target_mismatch.
Binds(o, bound) == bound.tenant = gate[o].rail /\ bound.target = gate[o].target

Bind(o) ==
  LET bound == IF gate[o].kind = "mpt" THEN gate[o].id
               ELSE [tenant |-> campaign[gate[o].id].tenant, target |-> campaign[gate[o].id].safe]
      known == gate[o].kind = "cmp" => campaign[gate[o].id].live
  IN /\ At(o, "bind")
     /\ IF known /\ Binds(o, bound)
        THEN gate' = [gate EXCEPT ![o].tenant = bound.tenant, ![o].at = "status"]
        ELSE Park(o)
     /\ UNCHANGED <<rows, chain, ghost, req, asked, crashes>>

\* getTenantStatus, then the no-op for the Safe itself.
ReadStatus(o) ==
  /\ At(o, "status")
  /\ IF status[gate[o].tenant] # "active" \/ gate[o].target = MainSafe[gate[o].rail] THEN Park(o)
     ELSE gate' = [gate EXCEPT ![o].at = "static"]
  /\ UNCHANGED <<rows, chain, ghost, req, asked, crashes>>

Allow(o) == gate' = [gate EXCEPT ![o].at = "forward"]

\* isAddressWhitelisted: the table first, then the tenant's row, then its dynamic sources.
ReadStatic(o) ==
  /\ At(o, "static")
  /\ IF gate[o].target \in listed[gate[o].tenant] THEN Allow(o)
     ELSE gate' = [gate EXCEPT ![o].at = "tenant"]
  /\ UNCHANGED <<rows, chain, ghost, req, asked, crashes>>

ReadTenant(o) ==
  /\ At(o, "tenant")
  /\ IF status[gate[o].tenant] = "active" /\ gate[o].tenant \in Dynamic
     THEN gate' = [gate EXCEPT ![o].at = "dynamic"] ELSE Park(o)
  /\ UNCHANGED <<rows, chain, ghost, req, asked, crashes>>

ReadWallets(o) ==
  /\ At(o, "dynamic") /\ IF gate[o].target \in wallets THEN Allow(o) ELSE Park(o)
  /\ UNCHANGED <<rows, chain, ghost, req, asked, crashes>>

\* The forward is made (Forwarding) and the order leaves the gate.
Leave(o) ==
  /\ At(o, "forward") /\ Park(o)
  /\ UNCHANGED <<rows, chain, ghost, req, asked, crashes>>

Next ==
  \/ \E r \in Requests :
       \/ \E t \in Tenants : Ask(r, t)
       \/ Check(r) \/ Deploy(r) \/ Link(r) \/ AddCampaign(r) \/ ListCampaign(r)
       \/ RevokeCampaign(r) \/ ListAddress(r) \/ UnlistAddress(r) \/ Evict(r)
  \/ \E t \in Tenants : SwitchTenant(t)
  \/ \E s \in Safes : RegisterWallet(s)
  \/ \E o \in Orders :
       \/ \E rail \in Tenants, s \in Safes :
            \/ \E c \in Campaigns : Arrive(o, rail, "cmp", c, s)
            \/ \E i \in Intents : Arrive(o, rail, "mpt", i, s)
       \/ Bind(o) \/ ReadStatus(o) \/ ReadStatic(o) \/ ReadTenant(o) \/ ReadWallets(o) \/ Leave(o)

Spec == Init /\ [][Next]_vars
------------------------------------------------------------------------------
\* Types.
TypeOK ==
  /\ \A c \in Campaigns : campaign[c] = NoRow \/ (campaign[c].tenant \in Tenants /\ campaign[c].safe \in Safes)
  /\ listed \in [Tenants -> SUBSET Safes] /\ \A t \in Tenants : listed[t] \subseteq ever[t]

\* A campaign id belongs to one tenant for good (campaigns.ts, BW-24), whatever two
\* operators register, revoke and register again at once.
CampaignStays ==
  [][\A c \in Campaigns : campaign[c] # NoRow => campaign'[c].tenant = campaign[c].tenant]_vars

\* A campaign made by addProject points at a Safe that is deployed and linked at Monerium,
\* wherever an earlier attempt was cut off (projects.ts, "a retry starts clean").
ProjectIsReal ==
  \A c \in Campaigns : made[c] # NoRow => made[c].safe \in deployed \cap linked

\* Money on a tenant's rail is forwarded only to an address that very tenant listed, or to a
\* registered wallet where the tenant takes them (whitelist.ts, ADR 0017).
OwnListOnly ==
  \A o \in Orders : At(o, "forward") =>
     \/ gate[o].target \in ever[gate[o].rail]
     \/ gate[o].rail \in Dynamic /\ gate[o].target \in wallets

\* A registration answered with ok is there: the campaign row is the tenant's, with its Safe.
RegistrationHolds ==
  \A c \in Campaigns : told[c] # NoRow => campaign[c].tenant = told[c].tenant
==============================================================================
