------------------------------ MODULE MCTenants ------------------------------
(****************************************************************************)
(* What a tenant and its payers ask of the API: intents made and listed,    *)
(* the tenant set up and its secrets kept, its campaigns registered and its *)
(* orders authorised, its Safe made, its people logged in, its sandbox.  The*)
(* parts share nothing, so a behaviour is one of one part.                  *)
(****************************************************************************)
EXTENDS ShortRefs

CONSTANTS
  first, second, MaxSid, Callers, Casts, Own, Pools, ReadAs, Caps, Attempts, MaxFailures,  \* IntentApi
  ListSid, PageSize, MaxClock,                                         \* IntentList
  Operators, Configs, Forwarding, MaxValue, MaxKek,                     \* Onboarding
  ta, tb, camp, s1, s2, r1, r2, o,
  Tenants, Campaigns, Safes, Dynamic, Intents, MainSafe, Together, Requests, Orders, None, MaxRequests,  \* TenantAccess
  Owners, Threshold, Projects, Nothing, MaxNonce, MaxEdits,             \* SafeSetup
  Browsers, Emails, Lifetime, IdleTime, Resolution, Fresh, Answerable, MaxPasskeys, MaxTime,
  MaxSessions, MaxChallenges, MaxAdded,                                 \* AdminAuth
  PerIp, MaxActive, PerTenant, MaxTenants, MaxOrders, MaxNow,           \* Sandbox
  MaxCrashes   \* bound: evictions

Nobody == None
Made == [session |-> MaxSessions, challenge |-> MaxChallenges, passkey |-> MaxAdded]

FirstIsNoPayer == {as \in [Callers -> {"app", "shop", "payer"}] : as[first] # "payer"}
OneSidEach     == [p \in Callers |-> IF p = first THEN 1 ELSE 2]
\* Once the shortest is held, two bodies that differ in the order of two digits.
Bodies     == <<{<<0, 1, 7>>}, {<<0, 1, 7, 3>>, <<0, 1, 3, 7>>}>>
DammCodes  == [i \in DOMAIN Bodies |-> {ShortRefFromBody(b) : b \in Bodies[i]}]
DammReads  == [c \in UNION {DammCodes[i] : i \in DOMAIN DammCodes} |-> Reads(c)]
OneIntent   == {[tenant |-> tb, target |-> s1]}
NoMainSafe  == [t \in Tenants |-> None]
TwoRequests == {{r1, r2}, {r1, o}}

VARIABLES
  i_cast, i_cap, i_rows, i_holds, i_calls, i_failures,
  l_at, l_clock, l_walk,
  b_status, b_rail, b_env, b_req, b_subs, b_minted, b_wrapped, b_certified, b_crashes,
  a_status, a_campaign, a_listed, a_wallets, a_deployed, a_linked, a_req, a_gate, a_told, a_made, a_ever, a_cast, a_asked, a_crashes,
  s_wanted, s_revoked, s_scoped, s_nonce, s_queue, s_page, s_shown, s_executed, s_edits,
  d_now, d_allowed, d_sessions, d_challenges, d_passkeys, d_cookie, d_req, d_made, d_used, d_won, d_proven,
  x_now, x_tenants, x_intent, x_orders, x_forwards, x_told, x_call, x_sweep, x_answered, x_crashes,
  part   \* the part whose behaviour this is

i_all == <<i_cast, i_cap, i_rows, i_holds, i_calls, i_failures>>
l_all == <<l_at, l_clock, l_walk>>
b_all == <<b_status, b_rail, b_env, b_req, b_subs, b_minted, b_wrapped, b_certified, b_crashes>>
a_all == <<a_status, a_campaign, a_listed, a_wallets, a_deployed, a_linked, a_req, a_gate, a_told, a_made, a_ever, a_cast, a_asked, a_crashes>>
s_all == <<s_wanted, s_revoked, s_scoped, s_nonce, s_queue, s_page, s_shown, s_executed, s_edits>>
d_all == <<d_now, d_allowed, d_sessions, d_challenges, d_passkeys, d_cookie, d_req, d_made, d_used, d_won, d_proven>>
x_all == <<x_now, x_tenants, x_intent, x_orders, x_forwards, x_told, x_call, x_sweep, x_answered, x_crashes>>
all == <<i_all, l_all, b_all, a_all, s_all, d_all, x_all, part>>

I == INSTANCE IntentApi WITH
  cast <- i_cast, cap <- i_cap, rows <- i_rows, holds <- i_holds,
  calls <- i_calls, failures <- i_failures
L == INSTANCE IntentList WITH
  MaxSid <- ListSid, at <- l_at, clock <- l_clock, walk <- l_walk
B == INSTANCE Onboarding WITH
  Requests <- Operators, status <- b_status, rail <- b_rail,
  env <- b_env, req <- b_req, subs <- b_subs, minted <- b_minted,
  wrapped <- b_wrapped, certified <- b_certified, crashes <- b_crashes
A == INSTANCE TenantAccess WITH
  Casts <- Together, status <- a_status, campaign <- a_campaign,
  listed <- a_listed, wallets <- a_wallets, deployed <- a_deployed,
  linked <- a_linked, req <- a_req, gate <- a_gate, told <- a_told,
  made <- a_made, ever <- a_ever, cast <- a_cast, asked <- a_asked,
  crashes <- a_crashes
S == INSTANCE SafeSetup WITH
  wanted <- s_wanted, revoked <- s_revoked, scoped <- s_scoped,
  nonce <- s_nonce, queue <- s_queue, page <- s_page, shown <- s_shown,
  executed <- s_executed, edits <- s_edits
D == INSTANCE AdminAuth WITH
  MaxMade <- Made, now <- d_now, allowed <- d_allowed,
  sessions <- d_sessions, challenges <- d_challenges,
  passkeys <- d_passkeys, cookie <- d_cookie, req <- d_req,
  made <- d_made, used <- d_used, won <- d_won, proven <- d_proven
X == INSTANCE Sandbox WITH
  now <- x_now, tenants <- x_tenants, intent <- x_intent,
  orders <- x_orders, forwards <- x_forwards, told <- x_told,
  call <- x_call, sweep <- x_sweep, answered <- x_answered,
  crashes <- x_crashes

\* A part that does not run has one state.
Init ==
  /\ part \in {"api", "list", "onboarding", "access", "setup", "admin", "sandbox"}
  /\ I!Init /\ L!Init /\ B!Init /\ A!Init /\ S!Init /\ D!Init /\ X!Init
  /\ part # "api" => (i_cap = 1 /\ i_cast = [p \in Callers |-> "app"])
  /\ part # "access" => (a_cast = {r1, r2})
  /\ part # "setup" => s_scoped = {}
  /\ part # "admin" => d_passkeys = {}

Of(p) == part = p /\ UNCHANGED part
ApiStep == Of("api") /\ I!Next /\ UNCHANGED <<l_all, b_all, a_all, s_all, d_all, x_all>>
ListStep == Of("list") /\ L!Next /\ UNCHANGED <<i_all, b_all, a_all, s_all, d_all, x_all>>
OnboardingStep == Of("onboarding") /\ B!Next /\ UNCHANGED <<i_all, l_all, a_all, s_all, d_all, x_all>>
AccessStep == Of("access") /\ A!Next /\ UNCHANGED <<i_all, l_all, b_all, s_all, d_all, x_all>>
SetupStep == Of("setup") /\ S!Next /\ UNCHANGED <<i_all, l_all, b_all, a_all, d_all, x_all>>
AdminStep == Of("admin") /\ D!Next /\ UNCHANGED <<i_all, l_all, b_all, a_all, s_all, x_all>>
SandboxStep == Of("sandbox") /\ X!Next /\ UNCHANGED <<i_all, l_all, b_all, a_all, s_all, d_all>>
Next == ApiStep \/ ListStep \/ OnboardingStep \/ AccessStep \/ SetupStep \/ AdminStep \/ SandboxStep
Spec == Init /\ [][Next]_all

ASSUME TenantsAssumption ==
  /\ I!IntentApiAssumption /\ L!IntentListAssumption /\ B!OnboardingAssumption /\ A!AccessAssumption
  /\ S!SetupAssumption /\ D!AdminAuthAssumption /\ X!SandboxAssumption
------------------------------------------------------------------------------
\* IntentApi, IntentList: a payer who has read an intent's code, off the screen or a
\* screenshot, is taken for the payer of that intent or of none, as long as it can still be
\* paid; whoever was told that the sid is registered, 409 included, has it; and who pages
\* through the intents sees each once ("a page never shifts under concurrent inserts").
IntentsAreKept == I!CodeNamesItsIntent /\ I!AcceptedExists /\ L!ListIsComplete

\* Onboarding: a live tenant runs on exactly the settings, keys and webhook that its last
\* passed verification looked at, and every stored secret opens with a key the worker still
\* has, at every point of a rotation and wherever a rewrap was cut off.
LiveIsVerified == B!ActiveIsVerified /\ B!SecretsOpen

\* TenantAccess: a campaign id belongs to one tenant for good; a campaign made by addProject
\* points at a Safe that is deployed and linked, wherever an earlier attempt was cut off; and
\* money on a tenant's rail goes only to an address that very tenant listed or to a registered
\* wallet where it takes them.
PayeesStand == A!CampaignStays /\ [](A!ProjectIsReal /\ A!OwnListOnly)

\* SafeSetup: the Safe only carries out what as many owners as its threshold were shown.
OwnersDecide == S!OwnersDecide

\* AdminAuth: nobody is in the admin pages but for whom Access vouched once, on a session
\* that has not lain idle; a challenge passes one verification.
SessionsHold == D!FirstByAccess /\ D!IdleIsOver /\ D!ChallengeOnce

\* Sandbox: while the tenant is there, a simulation answered ok has settled its intent, with
\* which other, deadline or eviction it ever crossed, and what the merchant was told of the
\* intent stays so.
SimulationSettles == X!AnsweredIsSettled /\ X!ToldStands
==============================================================================
