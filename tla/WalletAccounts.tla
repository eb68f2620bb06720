---------------------------- MODULE WalletAccounts ----------------------------
(****************************************************************************)
(* Identities and accounts of the wallet app: passkeys of one user that the *)
(* platform syncs between the devices, each device's own registry           *)
(* (wallet/src/lib/passkey.ts, accounts.ts), the backend's copy of both      *)
(* (backend/src/wallets) and what runs beside the screens: account sync, the *)
(* search for the recovery owner, calls nobody waits for, and the binding   *)
(* of a phone.  One tab per device.                                         *)
(****************************************************************************)
EXTENDS Naturals, FiniteSets, FiniteSetsExt

CONSTANTS
  Devices, Creds,  \* devices; passkeys, each an identity
  NoCred,
  Worlds,          \* records [creds, devices, phone]
  MaxSalt,         \* bound: derived accounts of an identity have salts 0..MaxSalt
  MaxOtps,         \* bound: verifications of the phone number
  MaxPosts,        \* bound: registrations under way
  MaxFailures      \* bound: lost calls, failed deployments and evictions

AccountsAssumption ==
  NoCred \notin Creds /\ MaxSalt \in Nat /\ MaxOtps \in Nat
  /\ MaxPosts \in Nat /\ MaxFailures \in Nat
  /\ IsFiniteSet(Devices) /\ \A w \in Worlds : w.devices \subseteq Devices

VARIABLES
  world,     \* of this behaviour: its passkeys and devices, and whether it is about the
             \* phone or about accounts
  made,      \* passkeys in the keychain of the user
  local,     \* of each device: known records, those with a recovery owner, active, accounts, open
  wallets,   \* wallet_registry: "none", "bare" or "owned" (with a recovery owner)
  accounts,  \* wallet_accounts
  posts,     \* registrations under way that nobody waits for
  asked,     \* the passkey a device has asked the registry for
  unusable,  \* devices that call the passkey picked last unusable
  syncing, ensuring,  \* the identity whose accounts, whose recovery owner a device looks for
  bind,      \* a device's phone binding: [at, cred, otp, count]
  consumed,  \* otp_consumed: wallet -> verifications
  bound,     \* wallet_phone_bindings.verification_count of the one phone
  otps, failures

phone == <<bind, consumed, bound, otps>>
jobs == <<asked, unusable, syncing, ensuring>>
backend == <<wallets, accounts>>
vars == <<world, made, local, backend, posts, jobs, phone, failures>>

Salts == 0..MaxSalt
Unbound == [at |-> "idle", cred |-> NoCred, otp |-> 0, count |-> 0]
Init ==
  /\ made = {} /\ posts = {} /\ accounts = {} /\ failures = 0 /\ otps = 0
  /\ local = [d \in Devices |-> [known |-> {}, owned |-> {}, active |-> NoCred,
                                 accts |-> {}, open |-> NoCred]]
  /\ wallets = [c \in Creds |-> "none"]
  /\ world \in Worlds
  /\ asked = [d \in Devices |-> NoCred] /\ unusable = {}
  /\ syncing = asked /\ ensuring = asked
  /\ bind = [d \in Devices |-> Unbound]
  /\ consumed = [c \in Creds |-> 0] /\ bound = consumed

Fail == failures < MaxFailures /\ failures' = failures + 1
Put(d, l) == local' = [local EXCEPT ![d] = l]
WalletPost(c, owned) == [cred |-> c, salt |-> MaxSalt + 1, owned |-> owned]
AccountPost(c, s) == [cred |-> c, salt |-> s, owned |-> TRUE]

\* savePasskey also makes the record the active one.
Saved(l, c, owned) ==
  [l EXCEPT !.known = @ \cup {c}, !.active = c,
            !.owned = IF owned THEN @ \cup {c} ELSE @ \ {c}]
\* getActivePasskey: the only record stands in for one that is no longer known.
ActivePasskey(l) ==
  CASE l.active \in l.known -> l.active
    [] l.active \notin l.known /\ Cardinality(l.known) = 1 -> CHOOSE c \in l.known : TRUE
    [] OTHER -> NoCred
------------------------------------------------------------------------------
\* Landing.

\* Into the wallet: sync and the search for the recovery owner start beside it; the latter
\* looks at the record as it is now.
Enter(d, l, c) ==
  /\ Put(d, [l EXCEPT !.active = c, !.open = c])
  /\ syncing' = [syncing EXCEPT ![d] = IF world.phone THEN NoCred ELSE c]
  /\ ensuring' = [ensuring EXCEPT ![d] = IF c \in l.owned THEN NoCred ELSE c]
  /\ posts' = posts \cup (IF c \in l.owned THEN {WalletPost(c, TRUE)} ELSE {})

Room == Cardinality(posts') <= MaxPosts
AtLanding(d) == local[d].open = NoCred /\ asked[d] = NoCred

\* runCreate: the record is kept once the Safe is deployed, and registered without waiting;
\* a deployment that fails leaves a passkey behind that no registry knows.
RunCreate(d, c) ==
  /\ AtLanding(d) /\ c \in world.creds \ made
  /\ made' = made \cup {c}
  /\ \/ /\ Put(d, [Saved(local[d], c, TRUE) EXCEPT !.open = c])
        /\ posts' = posts \cup {WalletPost(c, TRUE)} /\ UNCHANGED failures
     \/ Fail /\ UNCHANGED <<local, posts>>
  /\ UNCHANGED <<world, backend, jobs, phone>>

OpenKnown(d, c) ==
  /\ AtLanding(d) /\ c \in local[d].known
  /\ Enter(d, local[d], c) /\ unusable' = unusable \ {d}
  /\ UNCHANGED <<world, made, backend, asked, phone, failures>>

\* openExisting, the autofill and the probe before a creation: whatever passkey the
\* platform offers; one this device does not know is looked up.
EnterByCredentialId(d, c) ==
  /\ AtLanding(d) /\ c \in made \ local[d].known
  /\ asked' = [asked EXCEPT ![d] = c] /\ unusable' = unusable \ {d}
  /\ UNCHANGED <<world, made, local, backend, posts, syncing, ensuring, phone, failures>>

\* A slip: an outage is an answer as good as 404.
LookupAnyhow(d, c) ==
  /\ unusable' = unusable \cup {d}
  /\ \/ wallets[c] = "none" /\ UNCHANGED failures
     \/ Fail
LookupWalletStrict(d, c) ==
  \/ wallets[c] = "none" /\ unusable' = unusable \cup {d} /\ UNCHANGED failures
  \/ Fail /\ UNCHANGED unusable

LookupAnswered(d) ==
  LET c == asked[d]
      l == local[d]
  IN  /\ c # NoCred /\ asked' = [asked EXCEPT ![d] = NoCred]
      /\ \/ /\ wallets[c] # "none"
            /\ Enter(d, Saved(l, c, wallets[c] = "owned"), c)
            /\ UNCHANGED <<unusable, failures>>
         \/ LookupWalletStrict(d, c) /\ UNCHANGED <<local, posts, syncing, ensuring>>
      /\ UNCHANGED <<world, made, backend, phone>>

\* Back to the list of wallets.
SignOut(d) ==
  /\ local[d].open # NoCred /\ bind[d].at = "idle" /\ Put(d, [local[d] EXCEPT !.open = NoCred])
  /\ UNCHANGED <<world, made, backend, posts, jobs, phone, failures>>

\* archivePasskey: out of this device's list, its accounts stay behind, hidden; the newest
\* of the rest becomes the active one.
ConfirmArchive(d, c) ==
  /\ AtLanding(d) /\ c \in local[d].known
  /\ LET l == [local[d] EXCEPT !.known = @ \ {c}, !.owned = @ \ {c}]
     IN  \/ l.active # c /\ Put(d, l)
         \/ l.active = c /\ \E n \in IF l.known = {} THEN {NoCred} ELSE l.known :
              Put(d, [l EXCEPT !.active = n])
  /\ UNCHANGED <<world, made, backend, posts, jobs, phone, failures>>
------------------------------------------------------------------------------
\* Accounts.

AccountsOf(l, c) == {a \in l.accts : a[1] = c}
NextSaltNonce(l, c) ==
  IF AccountsOf(l, c) = {} THEN 0 ELSE Max({a[2] : a \in AccountsOf(l, c)}) + 1

DeriveAccount(d) ==
  LET l == local[d]
      c == l.open
      a == <<c, NextSaltNonce(l, c)>>
  IN  /\ c \in l.known \cap l.owned /\ a[2] <= MaxSalt /\ ~world.phone
      /\ Put(d, [l EXCEPT !.accts = @ \cup {a}])
      /\ posts' = posts \cup {AccountPost(c, a[2])}
      /\ UNCHANGED <<world, made, backend, jobs, phone, failures>>

ArchiveDerivedAccount(d, a) ==
  /\ local[d].open # NoCred /\ a \in local[d].accts /\ a[1] \in local[d].known
  /\ Put(d, [local[d] EXCEPT !.accts = @ \ {a}])
  /\ UNCHANGED <<world, made, backend, posts, jobs, phone, failures>>

\* The switcher lists the accounts of every identity; the active passkey stays.
SwitchAccount(d, c) ==
  /\ local[d].open \notin {c, NoCred} /\ c \in local[d].known /\ bind[d].at = "idle"
  /\ Put(d, [local[d] EXCEPT !.open = c])
  /\ UNCHANGED <<world, made, backend, posts, jobs, phone, failures>>

\* Pull what this device has not, push what the backend has not; an unreachable backend
\* counts as an empty one.
SyncAccounts(d) ==
  LET c == syncing[d]
  IN  /\ c # NoCred /\ syncing' = [syncing EXCEPT ![d] = NoCred]
      /\ \E reached \in BOOLEAN :
           LET remote == IF reached THEN {a \in accounts : a[1] = c} ELSE {}
               l == [local[d] EXCEPT !.accts = @ \cup remote]
           IN  /\ Put(d, l) /\ IF reached THEN UNCHANGED failures ELSE Fail
               /\ posts' = posts \cup {AccountPost(a[1], a[2]) : a \in AccountsOf(l, c) \ remote}
      /\ UNCHANGED <<world, made, backend, asked, unusable, ensuring, phone>>

\* The owners of the deployed Safe name it, or when they cannot be read the backend; the
\* record saved is the one read at the start, whatever has become of it since.
EnsureRecoveryOwner(d) ==
  LET c == ensuring[d]
  IN  /\ c # NoCred /\ ensuring' = [ensuring EXCEPT ![d] = NoCred]
      /\ \/ /\ Put(d, Saved(local[d], c, TRUE)) /\ posts' = posts \cup {WalletPost(c, TRUE)}
            /\ UNCHANGED failures
         \/ Fail /\ wallets[c] # "owned" /\ UNCHANGED <<local, posts>>
      /\ UNCHANGED <<world, made, backend, asked, unusable, syncing, phone>>

\* runExpand: another passkey of the same Safe; its record carries no recovery owner.
RunExpand(d, c) ==
  LET l == local[d]
  IN  /\ l.open # NoCred /\ ActivePasskey(l) # NoCred /\ c \in world.creds \ made
      /\ made' = made \cup {c}
      /\ \/ /\ Put(d, [Saved(l, c, FALSE) EXCEPT !.active = l.open])
            /\ posts' = posts \cup {WalletPost(c, FALSE)} /\ UNCHANGED failures
         \/ Fail /\ UNCHANGED <<local, posts>>
      /\ UNCHANGED <<world, backend, jobs, phone>>

\* The home screen registers a wallet that is not found, or whose lookup failed.
RegisterIfMissing(d) ==
  LET p == ActivePasskey(local[d])
  IN  /\ local[d].open # NoCred /\ p # NoCred
      /\ \/ wallets[local[d].open] = "none" /\ UNCHANGED failures
         \/ Fail
      /\ posts' = posts \cup {WalletPost(p, FALSE)}
      /\ UNCHANGED <<world, made, local, backend, jobs, phone>>
------------------------------------------------------------------------------
\* POST /api/wallets and /accounts

\* INSERT OR IGNORE; a recovery owner is filled in where there is none.
RegisterWallet(c, owned) ==
  wallets' = [wallets EXCEPT ![c] = IF owned THEN "owned" ELSE IF @ = "none" THEN "bare" ELSE @]

Deliver(m) ==
  /\ m \in posts /\ posts' = posts \ {m}
  /\ IF m.salt \in Salts
     THEN accounts' = accounts \cup {<<m.cred, m.salt>>} /\ UNCHANGED wallets
     ELSE RegisterWallet(m.cred, m.owned) /\ UNCHANGED accounts
  /\ UNCHANGED <<world, made, local, jobs, phone, failures>>

Lose(m) ==
  /\ m \in posts /\ posts' = posts \ {m} /\ Fail
  /\ UNCHANGED <<world, made, local, backend, jobs, phone>>
------------------------------------------------------------------------------
\* Binding the phone: the app, then POST bind-phone.

Rest == UNCHANGED <<world, made, local, accounts, posts, jobs>>
Bind(d, at) == bind' = [bind EXCEPT ![d].at = at]
BindEnd(d) == bind' = [bind EXCEPT ![d] = Unbound]

OtpVerified(d) ==
  /\ local[d].open # NoCred /\ bind[d].at = "idle" /\ world.phone
  /\ otps < MaxOtps /\ otps' = otps + 1
  /\ bind' = [bind EXCEPT ![d] = [Unbound EXCEPT !.at = "ensure", !.cred = local[d].open,
                                                 !.otp = otps + 1]]
  /\ Rest /\ UNCHANGED <<wallets, consumed, bound, failures>>

\* Not found, or not reached: the active passkey is registered first.
CompleteBind(d) ==
  LET p == ActivePasskey(local[d])
      missing == wallets[bind[d].cred] = "none"
  IN  /\ bind[d].at = "ensure"
      /\ \/ ~missing /\ Bind(d, "post") /\ UNCHANGED <<wallets, failures>>
         \/ /\ missing /\ UNCHANGED failures
            /\ IF p = NoCred THEN BindEnd(d) /\ UNCHANGED wallets
               ELSE RegisterWallet(p, FALSE) /\ Bind(d, "post")
         \/ Fail /\ BindEnd(d) /\ UNCHANGED wallets
      /\ Rest /\ UNCHANGED <<consumed, bound, otps>>

\* markOtpConsumed
Consume(d) == consumed' = [consumed EXCEPT ![bind[d].cred] = @ + 1]
WriteCount(d) == bound' = [bound EXCEPT ![bind[d].cred] = bind[d].count + 1]

MarkOtpConsumed(d) ==
  /\ bind[d].at = "post"
  /\ IF wallets[bind[d].cred] = "none" THEN BindEnd(d) /\ UNCHANGED consumed
     ELSE Bind(d, "read") /\ Consume(d)
  /\ Rest /\ UNCHANGED <<wallets, bound, otps, failures>>

\* upsertPhoneBinding reads the count and then writes it.
ReadBinding(d) ==
  /\ bind[d].at = "read"
  /\ bind' = [bind EXCEPT ![d].at = "write", ![d].count = bound[bind[d].cred]]
  /\ Rest /\ UNCHANGED <<wallets, consumed, bound, otps, failures>>

WriteBinding(d) ==
  /\ bind[d].at = "write" /\ BindEnd(d) /\ WriteCount(d)
  /\ Rest /\ UNCHANGED <<wallets, consumed, otps, failures>>

\* The request dies between two of its statements.
BindLost(d) ==
  /\ bind[d].at \in {"read", "write"} /\ Fail /\ BindEnd(d)
  /\ Rest /\ UNCHANGED <<wallets, consumed, bound, otps>>
------------------------------------------------------------------------------
Landing(d) ==
  \/ \E c \in Creds : \/ RunCreate(d, c) \/ OpenKnown(d, c) \/ EnterByCredentialId(d, c)
                      \/ ConfirmArchive(d, c)
  \/ LookupAnswered(d) \/ SignOut(d)
Wallet(d) ==
  \/ DeriveAccount(d) \/ RegisterIfMissing(d)
  \/ \E c \in Creds : SwitchAccount(d, c) \/ RunExpand(d, c)
  \/ \E a \in Creds \X Salts : ArchiveDerivedAccount(d, a)
Beside(d) == SyncAccounts(d) \/ EnsureRecoveryOwner(d)
BindPhone(d) ==
  OtpVerified(d) \/ CompleteBind(d) \/ MarkOtpConsumed(d) \/ ReadBinding(d) \/ WriteBinding(d)
    \/ BindLost(d)

Next ==
  \/ \E d \in world.devices : (Landing(d) \/ Wallet(d) \/ Beside(d) \/ BindPhone(d)) /\ Room
  \/ \E m \in posts : Deliver(m) \/ Lose(m)

Spec == Init /\ [][Next]_vars
------------------------------------------------------------------------------
TypeOK ==
  /\ made \subseteq Creds /\ failures \in 0..MaxFailures
  /\ wallets \in [Creds -> {"none", "bare", "owned"}] /\ accounts \subseteq Creds \X Salts
  /\ \A d \in Devices : /\ local[d].owned \subseteq local[d].known
                        /\ local[d].known \subseteq made
                        /\ local[d].accts \subseteq Creds \X Salts
  /\ unusable \subseteq Devices

\* A passkey is called unusable, and its user sent to create another wallet, only when
\* the registry has no wallet for it: never because a call failed (registry.ts 125-133).
UnusableIsUnknown ==
  [][\A d \in Devices :
       asked[d] # NoCred /\ asked'[d] = NoCred /\ d \in unusable'
         => wallets[asked[d]] = "none"]_vars

\* A wallet never shows more confirmations of its phone than verifications it has used
\* up, though the count is read before it is written and requests die half way (api.ts
\* 138-194).
BindingIsProven == \A c \in Creds : bound[c] <= consumed[c]

\* What the SDK promises of a new account, that it is a fresh one (sdk.js createAccount):
\* one that no device has under another name.
MintedIsNew ==
  [][\A d, e \in Devices, a \in Creds \X Salts :
       AccountPost(a[1], a[2]) \in posts' \ posts /\ a \in local'[d].accts \ local[d].accts
         => a \notin local[e].accts]_vars

\* What BindPhone registers the wallet for: the wallet is found when its phone is bound.
BindFindsWallet == \A d \in Devices : bind[d].at = "post" => wallets[bind[d].cred] # "none"

\* The passkey the app signs, registers and adds owners with is that of the open wallet.
OpenUsesItsPasskey ==
  \A d \in Devices : local[d].open \in local[d].known => ActivePasskey(local[d]) = local[d].open
==============================================================================
