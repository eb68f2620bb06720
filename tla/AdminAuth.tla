------------------------------- MODULE AdminAuth -------------------------------
(**************************************************************************)
(* The way into the admin pages: a login by Cloudflare Access or by a     *)
(* passkey makes a session in D1; every request looks the session up, and *)
(* a fresh one may add a passkey.  Requests of several browsers overlap;  *)
(* each runs with the list of e-mails of the deployment it began under.   *)
(*                                                                        *)
(* The host, the Origin header, the headers of the answer and the form of *)
(* paths and cookies are left out.                                        *)
(**************************************************************************)
EXTENDS Naturals, FiniteSets, FiniteSetsExt

CONSTANTS
  Browsers,
  Emails,
  Nobody,       \* no session, no e-mail
  Lifetime,     \* SESSION_TTL_SECONDS
  IdleTime,     \* SESSION_IDLE_SECONDS
  Resolution,   \* LAST_SEEN_RESOLUTION_SECONDS
  Fresh,        \* PASSKEY_REAUTH_SECONDS
  Answerable,   \* CHALLENGE_TTL_SECONDS
  MaxPasskeys,  \* MAX_PASSKEYS_PER_EMAIL
  MaxMade,      \* bound: sessions, challenges and passkeys ever made, a record of numbers
  MaxTime       \* bound on the clock

AdminAuthAssumption == {Lifetime, IdleTime, Resolution, Fresh, Answerable, MaxPasskeys, MaxTime} \subseteq Nat

VARIABLES
  now,
  allowed,     \* ADMIN_EMAILS
  sessions,    \* admin_sessions: [id, email, created, expires, seen]
  challenges,  \* admin_challenges: [id, purpose, email, expires]
  passkeys,    \* admin_passkeys: [id, email]
  cookie,      \* browser -> id of its session
  req,         \* browser -> the request it waits for
  made,        \* ids given: [session, challenge, passkey]
  used,        \* session -> when it was last accepted
  won,         \* challenge -> verifications it passed
  proven       \* e-mails that Access vouched for

vars == <<now, allowed, sessions, challenges, passkeys, cookie, req, made, used, won, proven>>
tables == <<sessions, challenges, passkeys>>
ghosts == <<used, won, proven>>

Ids(kind) == 1..MaxMade[kind]
NoRequest == [pc |-> "none"]

\* Some have added a passkey before.
Init ==
  /\ now = 0 /\ allowed = Emails /\ sessions = {} /\ challenges = {}
  /\ passkeys \in {{}} \cup {{[id |-> 1, email |-> e]} : e \in Emails}
  /\ proven = {k.email : k \in passkeys}
  /\ cookie = [b \in Browsers |-> Nobody] /\ req = [b \in Browsers |-> NoRequest]
  /\ made = [session |-> 0, challenge |-> 0, passkey |-> Cardinality(passkeys)]
  /\ used = [s \in Ids("session") |-> 0] /\ won = [c \in Ids("challenge") |-> 0]

Free(b)     == req[b].pc = "none"
Goes(b, r)  == req' = [req EXCEPT ![b] = r]
Ends(b)     == Goes(b, NoRequest)

-----------------------------------------------------------------------------
(* Sessions *)

\* createSession: the expired ones are deleted on the way.
CreateSession(b, email) ==
  LET id == made.session + 1 IN
  /\ id \in Ids("session") /\ made' = [made EXCEPT !.session = id]
  /\ sessions' = {s \in sessions : s.expires >= now} \cup
       {[id |-> id, email |-> email, created |-> now, expires |-> now + Lifetime, seen |-> now]}
  /\ cookie' = [cookie EXCEPT ![b] = id]
  /\ used' = [used EXCEPT ![id] = now]

\* Access vouches for an e-mail; the Worker looks it up in its own list.
Sso(b, email) ==
  /\ Free(b) /\ email \in allowed
  /\ CreateSession(b, email) /\ proven' = proven \cup {email}
  /\ UNCHANGED <<now, allowed, challenges, passkeys, req, won>>

Expired(s)  == s.expires <= now
IdleLong(s) == now - s.seen > IdleTime

\* getSession.
Accepted(s, list) == ~ Expired(s) /\ s.email \in list /\ ~ IdleLong(s)

\* last_seen_at is written at most once in Resolution, and the write may fail.
Touched(s) ==
  IF now - s.seen > Resolution
  THEN {sessions, (sessions \ {s}) \cup {[s EXCEPT !.seen = now]}}
  ELSE {sessions}

\* Any request under /admin: the middleware accepts its session, and its handler runs.
Request(b, what) ==
  \E s \in sessions :
    /\ Free(b) /\ cookie[b] = s.id /\ Accepted(s, allowed)
    /\ sessions' \in Touched(s) /\ used' = [used EXCEPT ![s.id] = now]
    /\ Goes(b, [pc |-> what, email |-> s.email, created |-> IF what = "act" THEN 0 ELSE s.created,
               idle |-> now - used[s.id] > IdleTime])
    /\ UNCHANGED <<now, allowed, challenges, passkeys, cookie, made, won, proven>>

\* What the handlers of the admin pages do is no matter here.
Act(b) ==
  /\ req[b].pc = "act" /\ Ends(b)
  /\ UNCHANGED <<now, allowed, tables, cookie, made, ghosts>>

DeleteSession(b) ==
  /\ Free(b) /\ cookie[b] # Nobody
  /\ sessions' = {s \in sessions : s.id # cookie[b]} /\ cookie' = [cookie EXCEPT ![b] = Nobody]
  /\ used' = [used EXCEPT ![cookie[b]] = 0]
  /\ UNCHANGED <<now, allowed, challenges, passkeys, req, made, won, proven>>

-----------------------------------------------------------------------------
(* Challenges *)

StoreChallenge(purpose, email) ==
  LET id == made.challenge + 1 IN
  /\ id \in Ids("challenge") /\ made' = [made EXCEPT !.challenge = id]
  /\ challenges' = {c \in challenges : c.expires >= now} \cup
       {[id |-> id, purpose |-> purpose, email |-> email, expires |-> now + Answerable]}

\* A slip: the challenge is read, and deleted with the insert.
ConsumeLater(c, purpose) ==
  /\ c.purpose = purpose /\ c.expires >= now
  /\ UNCHANGED challenges /\ won' = [won EXCEPT ![c.id] = @ + 1]

\* Deleted at the first verification, whatever comes of it.
ConsumeChallenge(c, purpose) ==
  /\ c.purpose = purpose /\ c.expires >= now
  /\ challenges' = challenges \ {c} /\ won' = [won EXCEPT ![c.id] = @ + 1]

SpoilChallenge(b, c) ==
  /\ req[b].pc \in {"verify", "register"} /\ c.id = req[b].challenge
  /\ challenges' = challenges \ {c} /\ Ends(b)
  /\ UNCHANGED <<now, allowed, sessions, passkeys, cookie, made, ghosts>>

LoginOptions(b) ==
  /\ Free(b) /\ StoreChallenge("login", Nobody)
  /\ UNCHANGED <<now, allowed, sessions, passkeys, cookie, req, ghosts>>

\* verifyLogin: the key and the list, then the challenge, then the session.
VerifyLogin(b, k, c) ==
  /\ Free(b) /\ k.email \in allowed
  /\ Goes(b, [pc |-> "verify", email |-> k.email, challenge |-> c.id])
  /\ UNCHANGED <<now, allowed, tables, cookie, made, ghosts>>

LoginVerified(b, c) ==
  /\ req[b].pc = "verify" /\ c.id = req[b].challenge
  /\ ConsumeChallenge(c, "login") /\ Goes(b, [pc |-> "start", email |-> req[b].email])
  /\ UNCHANGED <<now, allowed, sessions, passkeys, cookie, made, used, proven>>

StartSession(b) ==
  /\ req[b].pc = "start" /\ CreateSession(b, req[b].email) /\ Ends(b)
  /\ UNCHANGED <<now, allowed, challenges, passkeys, won, proven>>

-----------------------------------------------------------------------------
(* Passkeys *)

\* A fresh login, and room for one more.
PasskeyRegisterRefusal(r) ==
  \/ now - r.created > Fresh
  \/ Cardinality({k \in passkeys : k.email = r.email}) >= MaxPasskeys

RegistrationOptions(b) ==
  /\ req[b].pc = "options" /\ Ends(b)
  /\ IF PasskeyRegisterRefusal(req[b]) THEN UNCHANGED <<challenges, made>>
     ELSE StoreChallenge("register", req[b].email)
  /\ UNCHANGED <<now, allowed, sessions, passkeys, cookie, ghosts>>

\* The refusal is asked again, for a challenge of the options.
RegisterVerify(b, c) ==
  /\ req[b].pc = "add"
  /\ IF PasskeyRegisterRefusal(req[b]) THEN Ends(b)
     ELSE Goes(b, [pc |-> "register", email |-> req[b].email, challenge |-> c.id])
  /\ UNCHANGED <<now, allowed, tables, cookie, made, ghosts>>

VerifyRegistration(b, c) ==
  /\ req[b].pc = "register" /\ c.id = req[b].challenge /\ c.email = req[b].email
  /\ ConsumeChallenge(c, "register") /\ Goes(b, [pc |-> "insert", email |-> req[b].email])
  /\ UNCHANGED <<now, allowed, sessions, passkeys, cookie, made, used, proven>>

InsertPasskey(b) ==
  /\ req[b].pc = "insert" /\ made.passkey + 1 \in Ids("passkey")
  /\ passkeys' = passkeys \cup {[id |-> made.passkey + 1, email |-> req[b].email]}
  /\ made' = [made EXCEPT !.passkey = @ + 1] /\ Ends(b)
  /\ UNCHANGED <<now, allowed, sessions, challenges, cookie, ghosts>>

DeletePasskey(b, k) ==
  /\ req[b].pc = "act" /\ k.email = req[b].email
  /\ passkeys' = passkeys \ {k} /\ Ends(b)
  /\ UNCHANGED <<now, allowed, sessions, challenges, cookie, made, ghosts>>

-----------------------------------------------------------------------------
\* The challenge is gone, or the isolate is.
Fails(b) ==
  /\ ~ Free(b) /\ Ends(b)
  /\ UNCHANGED <<now, allowed, tables, cookie, made, ghosts>>

\* A deployment with another list.
Deploy(e) ==
  /\ allowed' = IF e \in allowed THEN allowed \ {e} ELSE allowed \cup {e}
  /\ UNCHANGED <<now, tables, cookie, req, made, ghosts>>

Tick ==
  /\ now < MaxTime /\ now' = now + 1
  /\ UNCHANGED <<allowed, tables, cookie, req, made, ghosts>>

Next ==
  \/ \E b \in Browsers :
       \/ \E e \in Emails : Sso(b, e)
       \/ \E what \in {"act", "options", "add"} : Request(b, what)
       \/ Act(b) \/ DeleteSession(b) \/ LoginOptions(b) \/ StartSession(b)
       \/ RegistrationOptions(b) \/ InsertPasskey(b) \/ Fails(b)
       \/ \E c \in challenges : \/ LoginVerified(b, c) \/ VerifyRegistration(b, c)
                                \/ RegisterVerify(b, c) \/ SpoilChallenge(b, c)
                                \/ \E k \in passkeys : VerifyLogin(b, k, c)
       \/ \E k \in passkeys : DeletePasskey(b, k)
  \/ Tick \/ \E e \in Emails : Deploy(e)

Spec == Init /\ [][Next]_vars

-----------------------------------------------------------------------------
(* Properties *)

\* "a session nobody used for this long is over, whatever its expiry": a request that a
\* session is accepted for follows an earlier use of it within the idle time, though the
\* use is noted late, out of order or not at all (session.ts).
IdleIsOver ==
  \A b \in Browsers : req[b].pc \in {"act", "options", "add"} => ~ req[b].idle

\* A challenge passes one verification, of however many that come with it at once.
ChallengeOnce == \A c \in Ids("challenge") : won[c] <= 1

\* Whoever has a session or a passkey was once let in by Access: "Prvi passkey se
\* upisuje nakon ulaska preko Accessa" (mount.ts).
FirstByAccess ==
  /\ \A s \in sessions : s.email \in proven
  /\ \A k \in passkeys : k.email \in proven

\* "an e-mail can hold at most MAX_PASSKEYS_PER_EMAIL" (mount.ts, AD-03).
FewPasskeys == \A e \in Emails : Cardinality({k \in passkeys : k.email = e}) <= MaxPasskeys
=============================================================================
