--------------------------------- MODULE Cards ---------------------------------
(**************************************************************************)
(* The wallet's card tab: a wizard over an account at Gnosis Pay, and the *)
(* screen of an open card account.  The step shown is derived from the    *)
(* session token, which lives in memory, and from the last GET /user;     *)
(* requests overlap, and an answer comes when it comes.  Each refresh is  *)
(* mirrored in D1.                                                        *)
(*                                                                        *)
(* Issuing, freezing and voiding a card, the daily limit and the list of  *)
(* card payments are passed on to Gnosis Pay and leave nothing here.      *)
(**************************************************************************)
EXTENDS Naturals, FiniteSets

CONSTANTS
  Accounts,     \* wallet accounts (Safes) of one device
  Deployed,     \* those whose Safe has code
  Known,        \* those that went through the wizard before, on another device
  Slots,        \* bound: refreshes in flight
  Nobody,       \* no token, no user, no answer
  Relogins,     \* BOOLEAN: may the login be pressed when there is a token already?
  MaxSessions   \* bound: tokens issued

CardsAssumption ==
  /\ Deployed \subseteq Accounts /\ Known \subseteq Accounts /\ Nobody \notin Accounts
  /\ MaxSessions \in Nat /\ Relogins \in BOOLEAN

VARIABLES
  active,     \* the wallet's active account
  page,       \* is /kartica open?
  jwt,        \* the token in memory: [who, user, n]
  sessions,   \* tokens issued
  expired,    \* tokens up to this one have expired
  gp,         \* account -> its record at Gnosis Pay
  store,      \* useGpStore: [user, terms, step]
  fetches,    \* slot -> a refresh in flight: [pc, tok, user, terms]
  op,         \* the button pressed: [what, pc, tok, acct]
  screen,     \* state of the step's component: [deploying, owners]
  post,       \* a mirror request under way
  rows,       \* gp_users
  funded      \* amounts sent to card accounts: [to, custom]

vars == <<active, page, jwt, sessions, expired, gp, store, fetches, op, screen, post, rows, funded>>
outside == <<active, gp, expired>>

NewUser == [user |-> FALSE, terms |-> FALSE, kyc |-> "notStarted", sof |-> FALSE,
            phone |-> FALSE, safe |-> "none", owners |-> 0, delay |-> FALSE]
OldUser == [NewUser EXCEPT !.user = TRUE, !.terms = TRUE, !.kyc = "approved", !.sof = TRUE,
                           !.phone = TRUE, !.safe = "ok", !.owners = 1]

Anon    == [user |-> Nobody, terms |-> FALSE, step |-> "anon"]
Screen0 == [deploying |-> FALSE, owners |-> 0]
NoFetch == [pc |-> "none"]

Init ==
  /\ active \in Accounts /\ page = FALSE /\ jwt = Nobody /\ sessions = 0 /\ expired = 0
  /\ gp = [a \in Accounts |-> IF a \in Known THEN OldUser ELSE NewUser]
  /\ store = Anon /\ fetches = [r \in Slots |-> NoFetch] /\ op = Nobody /\ screen = Screen0
  /\ post = Nobody /\ rows = [a \in Accounts |-> Nobody] /\ funded = {}

Refused(tok) == tok.n <= expired

-----------------------------------------------------------------------------
(* The store *)

\* The first thing that is missing.  terms is TRUE when all are accepted.
DeriveGpStep(j, user, terms) ==
  CASE j = Nobody \/ (j.user /\ user = Nobody) -> "anon"
    [] ~ j.user               -> "signup"
    [] ~ terms                -> "terms"
    [] user.kyc \in {"notStarted", "documentsRequested"} -> "kyc"
    [] user.kyc = "pending"   -> "kyc-pending"
    [] user.kyc = "requiresAction" -> "kyc-action"
    [] user.kyc = "rejected"  -> "kyc-rejected"
    [] ~ user.sof             -> "sof"
    [] ~ user.phone           -> "phone"
    [] user.safe # "ok"       -> "deploy"
    [] OTHER                  -> "ready"

\* Another step is another component.
Show(s) ==
  /\ store' = s
  /\ screen' = IF s.step = store.step THEN screen ELSE Screen0

\* Without a token, or with one of before the sign-up, nothing is asked.
RefreshWith(j, r) ==
  \/ /\ j # Nobody /\ j.user /\ fetches[r].pc = "none"
     /\ fetches' = [fetches EXCEPT ![r] = [pc |-> "user", tok |-> j, user |-> Nobody, terms |-> FALSE]]
     /\ UNCHANGED <<store, screen>>
  \/ /\ j = Nobody /\ Show(Anon) /\ UNCHANGED fetches
  \/ /\ j # Nobody /\ ~ j.user /\ Show([Anon EXCEPT !.step = "signup"]) /\ UNCHANGED fetches

\* Gnosis Pay answers a request of a refresh; the answer is on its way.
Answer(r) ==
  LET f == fetches[r] IN
  /\ f.pc \in {"user", "terms"}
  /\ fetches' = [fetches EXCEPT ![r] =
       IF Refused(f.tok) THEN [f EXCEPT !.pc = "refused"]
       ELSE IF f.pc = "user" THEN [f EXCEPT !.pc = "gotUser",
              !.user = [of |-> f.tok.who, kyc |-> gp[f.tok.who].kyc, sof |-> gp[f.tok.who].sof,
                        phone |-> gp[f.tok.who].phone, safe |-> gp[f.tok.who].safe]]
       ELSE [f EXCEPT !.pc = "gotTerms", !.terms = gp[f.tok.who].terms]]
  /\ UNCHANGED <<page, jwt, sessions, store, op, screen, post, rows, funded, outside>>

\* syncMirror: under the account that is active now; best effort, so it may be lost.
SyncMirror(user) ==
  \/ UNCHANGED post
  \/ /\ post = Nobody /\ jwt # Nobody
     /\ post' = [acct |-> active, signer |-> jwt.who, safe |-> user.of]

Derived(r, terms) ==
  LET f == fetches[r] IN
  /\ Show([user |-> f.user, terms |-> terms, step |-> DeriveGpStep(jwt, f.user, terms)])
  /\ SyncMirror(f.user)
  /\ fetches' = [fetches EXCEPT ![r] = NoFetch] /\ UNCHANGED jwt

\* GpAuthExpiredError in a refresh: back to the login.
Expelled(r) ==
  /\ jwt' = Nobody /\ Show(Anon)
  /\ fetches' = [fetches EXCEPT ![r] = NoFetch] /\ UNCHANGED post

\* A 401 forgets the token in memory, whichever token it was about.
Refresh(r) ==
  /\ \/ fetches[r].pc = "refused" /\ Expelled(r)
     \/ fetches[r].pc = "gotUser" /\ store.terms /\ Derived(r, TRUE)
     \/ fetches[r].pc = "gotUser" /\ ~ store.terms /\ jwt = Nobody /\ Expelled(r)
     \/ /\ fetches[r].pc = "gotUser" /\ ~ store.terms /\ jwt # Nobody
        /\ fetches' = [fetches EXCEPT ![r].pc = "terms", ![r].tok = jwt]
        /\ UNCHANGED <<jwt, store, screen, post>>
     \/ fetches[r].pc = "gotTerms" /\ Derived(r, fetches[r].terms)
  /\ UNCHANGED <<page, sessions, op, rows, funded, outside>>

RefreshFails(r) ==
  /\ fetches[r].pc # "none"
  /\ fetches' = [fetches EXCEPT ![r] = NoFetch]
  /\ UNCHANGED <<page, jwt, sessions, store, op, screen, post, rows, funded, outside>>

-----------------------------------------------------------------------------
(* The page *)

\* Without a token the step of the store is shown as it was left.
Enter(r) ==
  /\ ~ page /\ page' = TRUE
  /\ IF jwt = Nobody THEN UNCHANGED <<store, screen, fetches>> ELSE RefreshWith(jwt, r)
  /\ UNCHANGED <<jwt, sessions, op, post, rows, funded, outside>>

Leave ==
  /\ page /\ page' = FALSE /\ screen' = Screen0
  /\ UNCHANGED <<jwt, sessions, store, fetches, op, post, rows, funded, outside>>

KycPoll(r) ==
  /\ page /\ store.step \in {"kyc", "kyc-pending"}
  /\ RefreshWith(jwt, r)
  /\ UNCHANGED <<page, jwt, sessions, op, post, rows, funded, outside>>

DeployPoll(r) ==
  /\ page /\ screen.deploying /\ jwt # Nobody
  /\ \/ Refused(jwt) /\ jwt' = Nobody /\ UNCHANGED <<store, screen, fetches>>
     \/ ~ Refused(jwt) /\ gp[jwt.who].safe = "ok" /\ RefreshWith(jwt, r) /\ UNCHANGED jwt
     \/ /\ ~ Refused(jwt) /\ gp[jwt.who].safe = "failed"
        /\ screen' = [screen EXCEPT !.deploying = FALSE] /\ UNCHANGED <<jwt, store, fetches>>
  /\ UNCHANGED <<page, sessions, op, post, rows, funded, outside>>

\* GpCardScreen reload: a part that fails is left as it was.
LoadOwners ==
  /\ page /\ store.step = "ready" /\ jwt # Nobody
  /\ IF Refused(jwt) THEN jwt' = Nobody /\ UNCHANGED screen
     ELSE /\ gp[jwt.who].owners > 0
          /\ screen' = [screen EXCEPT !.owners = gp[jwt.who].owners] /\ UNCHANGED jwt
  /\ UNCHANGED <<page, sessions, store, fetches, op, post, rows, funded, outside>>

\* A slip: owners that could not be read are taken for enough.
GateUnlessOne == screen.owners # 1

HasSecondOwner == screen.owners >= 2

\* A request that a button sends, with the token of the moment; without one it fails at once.
Sent(step, what) ==
  /\ page /\ op = Nobody /\ store.step = step
  /\ what = "login" \/ jwt # Nobody
  /\ op' = [what |-> what, pc |-> "sent", tok |-> jwt, acct |-> active]
  /\ UNCHANGED <<page, jwt, sessions, store, fetches, screen, post, rows, funded, outside>>

\* The login is with the passkey that is active at the press, and needs a deployed Safe.  The
\* page shows it although there is a token when a first refresh with that token has failed.
Login       == /\ active \in Deployed /\ sessions < MaxSessions /\ (jwt = Nobody \/ Relogins)
               /\ Sent("anon", "login")
Signup      == sessions < MaxSessions /\ Sent("signup", "signup")
AcceptAll   == Sent("terms", "terms")
StartKyc    == Sent("kyc", "kyc")
ReopenKyc   == Sent("kyc-action", "kyc")
SubmitSof   == Sent("sof", "sof")
VerifyPhone == Sent("phone", "phone")
Deploy      == ~ screen.deploying /\ Sent("deploy", "deploy")
Fund        == Sent("ready", "fund") \/ (HasSecondOwner /\ Sent("ready", "custom"))
AddOwner    == Sent("ready", "owner")

\* A change of owners is signed by the passkey active then, which speaks for its own Safe only.
SignGpModuleTx(u, a) == IF active = a /\ u.owners = 1 THEN [u EXCEPT !.delay = TRUE] ELSE u

\* What Gnosis Pay makes of a request for the account a.
Requested(what, a) ==
  LET u == gp[a] IN
  CASE what = "signup" -> [u EXCEPT !.user = TRUE]
    [] what = "terms"  -> [u EXCEPT !.terms = TRUE]
    [] what = "kyc" /\ u.kyc = "notStarted" -> [u EXCEPT !.kyc = "documentsRequested"]
    [] what = "sof"    -> [u EXCEPT !.sof = TRUE]
    [] what = "phone"  -> [u EXCEPT !.phone = u.phone \/ u.kyc = "approved"]
    [] what = "deploy" /\ u.phone /\ u.safe \in {"none", "failed"} -> [u EXCEPT !.safe = "processing"]
    [] what = "owner"  -> SignGpModuleTx(u, a)
    [] OTHER           -> u

Serve ==
  /\ op # Nobody /\ op.pc = "sent"
  /\ IF op.what # "login" /\ Refused(op.tok) THEN op' = [op EXCEPT !.pc = "refused"] /\ UNCHANGED gp
     ELSE /\ op' = [op EXCEPT !.pc = "done"]
          /\ IF op.what = "login" THEN UNCHANGED gp
             ELSE gp' = [gp EXCEPT ![op.tok.who] = Requested(op.what, op.tok.who)]
  /\ UNCHANGED <<active, expired, page, jwt, sessions, store, fetches, screen, post, rows, funded>>

Done(what) == op # Nobody /\ op.pc = "done" /\ op.what \in what /\ op' = Nobody
NewToken(who, user) == jwt' = [who |-> who, user |-> user, n |-> sessions + 1] /\ sessions' = sessions + 1

GpLogin(r) ==
  /\ Done({"login"}) /\ NewToken(op.acct, gp[op.acct].user) /\ RefreshWith(jwt', r)
  /\ UNCHANGED <<page, post, rows, funded, outside>>

SignedUp(r) ==
  /\ Done({"signup"}) /\ NewToken(op.tok.who, TRUE) /\ RefreshWith(jwt', r)
  /\ UNCHANGED <<page, post, rows, funded, outside>>

StepDone(r) ==
  /\ Done({"terms", "sof", "phone"}) /\ RefreshWith(jwt, r)
  /\ UNCHANGED <<page, jwt, sessions, post, rows, funded, outside>>

Deploying ==
  /\ Done({"deploy"})
  /\ screen' = IF page /\ store.step = "deploy" THEN [screen EXCEPT !.deploying = TRUE] ELSE screen
  /\ UNCHANGED <<page, jwt, sessions, store, fetches, post, rows, funded, outside>>

\* To the Send page, with the card account's address as it was just read.
ResolveGpSafeAddress ==
  /\ Done({"fund", "custom"}) /\ gp[op.tok.who].safe = "ok"
  /\ funded' = funded \cup {[to |-> op.tok.who, custom |-> op.what = "custom"]}
  /\ page' = FALSE /\ screen' = Screen0
  /\ UNCHANGED <<jwt, sessions, store, fetches, post, rows, outside>>

\* An error, or nothing left to do: a message is shown.  A 401 forgets the token.
Fails ==
  /\ op # Nobody /\ op' = Nobody
  /\ jwt' = IF op.pc = "refused" THEN Nobody ELSE jwt
  /\ UNCHANGED <<page, sessions, store, fetches, screen, post, rows, funded, outside>>

-----------------------------------------------------------------------------
(* The backend's mirror, and what happens outside *)

\* gp_signer is kept as it was first written.
UpsertGpUser ==
  LET old == rows[post.acct] IN
  /\ post # Nobody /\ post' = Nobody
  /\ rows' = [rows EXCEPT ![post.acct] =
       [signer |-> IF old = Nobody THEN post.signer ELSE old.signer, safe |-> post.safe]]
  /\ UNCHANGED <<page, jwt, sessions, store, fetches, op, screen, funded, outside>>

SwitchAccount(a) ==
  /\ a # active /\ active' = a
  /\ UNCHANGED <<page, jwt, sessions, expired, gp, store, fetches, op, screen, post, rows, funded>>

Expire ==
  /\ expired < sessions /\ expired' = expired + 1
  /\ UNCHANGED <<active, page, jwt, sessions, gp, store, fetches, op, screen, post, rows, funded>>

\* The identity check, the deployment, the delay of a change of owners.
Progress(u) ==
  (IF u.user /\ u.terms THEN
     {[u EXCEPT !.kyc = k] : k \in CASE u.kyc \in {"documentsRequested", "requiresAction"} -> {"pending"}
                                     [] u.kyc = "pending" -> {"requiresAction", "rejected", "approved"}
                                     [] OTHER -> {}}
   ELSE {})
  \cup (IF u.safe = "processing" THEN {[u EXCEPT !.safe = "ok", !.owners = 1], [u EXCEPT !.safe = "failed"]} ELSE {})
  \cup (IF u.delay THEN {[u EXCEPT !.delay = FALSE, !.owners = 2]} ELSE {})

GnosisPay(a) ==
  /\ \E u \in Progress(gp[a]) : gp' = [gp EXCEPT ![a] = u]
  /\ UNCHANGED <<active, expired, page, jwt, sessions, store, fetches, op, screen, post, rows, funded>>

-----------------------------------------------------------------------------
Next ==
  \/ \E r \in Slots : \/ Answer(r) \/ Refresh(r) \/ RefreshFails(r)
                      \/ Enter(r) \/ KycPoll(r) \/ DeployPoll(r)
                      \/ GpLogin(r) \/ SignedUp(r) \/ StepDone(r)
  \/ Login \/ Signup \/ AcceptAll \/ StartKyc \/ ReopenKyc \/ SubmitSof \/ VerifyPhone
  \/ Deploy \/ Deploying \/ Fund \/ ResolveGpSafeAddress \/ AddOwner
  \/ Leave \/ LoadOwners \/ Serve \/ Fails \/ UpsertGpUser \/ Expire
  \/ \E a \in Accounts : SwitchAccount(a) \/ GnosisPay(a)

Spec == Init /\ [][Next]_vars

-----------------------------------------------------------------------------
(* Properties *)

\* More than a preset goes only to a card account with a second owner, so a lost passkey
\* locks in pocket money at most: whatever tokens, accounts and answers crossed since the
\* owners were read (GpCardScreen.tsx, the postmortem's gate).
GateHolds == \A f \in funded : f.custom => gp[f.to].owners = 2

\* The mirror's row of an account is about that account: its Safe is the identity at
\* Gnosis Pay, and it never changes (gnosispay.ts: "GP identitet korisnika = njegov
\* DOMOVINA Safe"; db.ts: gp_signer is never changed after the first write).
MirrorIsOwn == \A a \in Accounts : rows[a] # Nobody => rows[a].signer = a
=============================================================================
