----------------------------- MODULE WalletProofs -----------------------------
(***************************************************************************)
(* Theorems about the wallet: its prompts, the page that embeds it, its    *)
(* card tab, its money, the keys of its receipts and its identities, for   *)
(* any number of calls, tabs, devices and accounts.                        *)
(***************************************************************************)
EXTENDS MCWallet, FiniteSetTheorems, TLAPS

-----------------------------------------------------------------------------
(* The passkey prompts of a tab *)

\* A call that is going on has the signal that the next one will abort.
PromptsInv ==
  /\ c_at = [c \in Calls |-> c_at[c]]
  /\ C!OnlyNewestGoesOn

\* A call that ends forgets the shared signal only when it is its own, and no
\* step of another call takes the signal away without aborting its owner.
LEMMA PromptsInvStep == PromptsInv /\ [Next]_all => PromptsInv'
<1> SUFFICES ASSUME PromptsInv, [Next]_all PROVE PromptsInv'
  OBVIOUS
<1>1. CASE CeremonyStep
  <2>1. ASSUME NEW c \in Calls, C!NextWebAuthnSignal(c) PROVE PromptsInv'
    BY <2>1, WalletAssumption
       DEF C!NextWebAuthnSignal, C!Go, PromptsInv, C!OnlyNewestGoesOn, C!CeremonyAssumption
  <2>2. ASSUME NEW c \in Calls, C!Prompt(c) PROVE PromptsInv'
    BY <2>2 DEF C!Prompt, C!Go, PromptsInv, C!OnlyNewestGoesOn
  <2>3. ASSUME NEW c \in Calls, C!AlreadyPending(c) PROVE PromptsInv'
    BY <2>3 DEF C!AlreadyPending, C!Go, C!ClearAbortIfCurrent, PromptsInv, C!OnlyNewestGoesOn
  <2>4. ASSUME NEW c \in Calls, C!Ends(c) PROVE PromptsInv'
    BY <2>4 DEF C!Ends, C!Go, C!ClearAbortIfCurrent, PromptsInv, C!OnlyNewestGoesOn
  <2>5. ASSUME C!LetGo PROVE PromptsInv'
    BY <2>5 DEF C!LetGo, PromptsInv, C!OnlyNewestGoesOn
  <2> QED BY <1>1, <2>1, <2>2, <2>3, <2>4, <2>5 DEF CeremonyStep, C!Next
<1>2. CASE UNCHANGED c_all
  BY <1>2 DEF c_all, PromptsInv, C!OnlyNewestGoesOn
<1> QED BY <1>1, <1>2 DEF Next, all, RelayStep, AccountsStep, EmbedStep, CardsStep, DonationsStep,
                          RecoveryStep, ReceiptsStep

\* However calls overlap, fail and are repeated, only the newest is still going on.
THEOREM NewestPromptOnly == Spec => []OnlyNewestGoesOn
<1>1. Init => PromptsInv
  BY DEF Init, C!Init, PromptsInv, C!OnlyNewestGoesOn
<1>2. PromptsInv => OnlyNewestGoesOn
  BY DEF PromptsInv, OnlyNewestGoesOn
<1> QED BY <1>1, <1>2, PromptsInvStep, PTL DEF Spec

-----------------------------------------------------------------------------
(* The page that embeds the wallet *)

\* The records of the sends are those the host's calls made.
EmbedInv ==
  /\ e_send = [s \in E!Sends |-> e_send[s]]
  /\ \A s \in E!Sends : DOMAIN e_send[s] = {"at", "acct", "cred", "answer"}
  /\ E!SendIsOwn

\* The identity is set once, by the frame that has checked whose the account
\* is, and the account of a call stays as the host gave it.
LEMMA EmbedInvStep == EmbedInv /\ [Next]_all => EmbedInv'
<1> SUFFICES ASSUME EmbedInv, [Next]_all PROVE EmbedInv'
  OBVIOUS
<1>1. CASE EmbedStep
  <2>1. ASSUME UNCHANGED e_send PROVE EmbedInv'
    BY <2>1 DEF EmbedInv, E!SendIsOwn
  <2>2. ASSUME NEW s \in E!Sends, E!Send(s) PROVE EmbedInv'
    BY <2>2 DEF E!Send, E!NoSend, EmbedInv, E!SendIsOwn, E!host, NoCred
  <2>3. ASSUME NEW s \in E!Sends, NEW a, E!Answer(s, a) PROVE EmbedInv'
    BY <2>3 DEF E!Answer, EmbedInv, E!SendIsOwn
  <2>4. ASSUME NEW s \in E!Sends, E!HandleCommand(s) PROVE EmbedInv'
    BY <2>3, <2>4 DEF E!HandleCommand, E!BelongsTo, EmbedInv, E!SendIsOwn
  <2>5. ASSUME NEW s \in E!Sends, E!ConfirmSend(s) PROVE EmbedInv'
    BY <2>5 DEF E!ConfirmSend, EmbedInv, E!SendIsOwn
  <2>6. ASSUME E!FrameReady PROVE EmbedInv'
    BY <2>6 DEF E!FrameReady, EmbedInv, E!SendIsOwn
  <2>7. E!Handoff \/ E!Hide => UNCHANGED e_send
    BY DEF E!Handoff, E!Hide, E!Redirect, E!Return, E!Consume, E!Disconnect, E!host
  <2>8. ASSUME NEW s \in E!Sends, E!DismissSend(s) \/ E!SendOver(s) PROVE EmbedInv'
    BY <2>3, <2>8 DEF E!DismissSend, E!SendOver
  <2> QED BY <1>1, <2>1, <2>2, <2>4, <2>5, <2>6, <2>7, <2>8 DEF EmbedStep, E!Next, E!Sending
<1>2. CASE UNCHANGED e_all
  BY <1>2 DEF e_all, EmbedInv, E!SendIsOwn
<1> QED BY <1>1, <1>2 DEF Next, all, RelayStep, AccountsStep, CeremonyStep, CardsStep, DonationsStep,
                          RecoveryStep, ReceiptsStep

\* Whatever the frame's storage says and whether or not the registry answers: a
\* payment is put before the user with the identity that its account belongs to.
THEOREM SendsAreOwn == Spec => []SendIsOwn
<1>1. Init => EmbedInv
  <2>1. Init => e_send = [s \in E!Sends |-> E!NoSend]
    BY DEF Init, E!Init
  <2>2. DOMAIN E!NoSend = {"at", "acct", "cred", "answer"} /\ E!NoSend.cred = None
    BY DEF E!NoSend
  <2>3. Init => \A s \in E!Sends : e_send[s] = E!NoSend
    BY <2>1
  <2>4. Init => E!SendIsOwn
    BY <2>2, <2>3 DEF E!SendIsOwn
  <2> QED BY <2>1, <2>2, <2>3, <2>4 DEF EmbedInv
<1>2. EmbedInv => SendIsOwn
  BY DEF EmbedInv, SendIsOwn
<1> QED BY <1>1, <1>2, EmbedInvStep, PTL DEF Spec

-----------------------------------------------------------------------------
(* The card tab *)

\* Owners come with the deployed Safe; a second one, once there, stays.
GpAccount(u) ==
  /\ DOMAIN u = {"user", "terms", "kyc", "sof", "phone", "safe", "owners", "delay"}
  /\ u.owners \in {0, 1, 2}
  /\ u.owners # 0 => u.safe = "ok"
  /\ u.delay => u.owners # 0

Keeps(u, v) == u.owners = 2 => v.owners = 2

\* The owners on the screen are those of the account of the token, and of the
\* request under way; a login is only under way without a token, before any owners
\* are shown.
CardsInv ==
  /\ g_active \in Accounts
  /\ g_gp = [a \in Accounts |-> g_gp[a]] /\ \A a \in Accounts : GpAccount(g_gp[a])
  /\ DOMAIN g_screen = {"deploying", "owners"} /\ g_screen.owners \in {0, 1, 2}
  /\ g_screen.owners # 0 => g_store.step = "ready"
  /\ g_jwt # None => g_jwt.who \in Accounts /\ (G!HasSecondOwner => g_gp[g_jwt.who].owners = 2)
  /\ g_op # None =>
       /\ DOMAIN g_op = {"what", "pc", "tok", "acct"}
       /\ g_op.what = "login" => g_jwt = None /\ g_screen.owners = 0 /\ g_op.acct \in Accounts
       /\ g_op.what # "login" => /\ g_op.tok.who \in Accounts
                                 /\ g_jwt # None => g_jwt.who = g_op.tok.who
                                 /\ G!HasSecondOwner => g_gp[g_op.tok.who].owners = 2
       /\ g_op.what = "custom" => g_gp[g_op.tok.who].owners = 2
  /\ \A f \in g_funded : f.to \in Accounts /\ (f.custom => g_gp[f.to].owners = 2)

\* The user logs in only without a token.
OneLogin == ~Relogins

\* The screen shows the owners it has shown, or none yet.
ScreenStep ==
  /\ DOMAIN g_screen' = {"deploying", "owners"}
  /\ \/ g_screen'.owners = g_screen.owners /\ g_store'.step = g_store.step
     \/ g_screen'.owners = 0

LEMMA ShowStep ==
  ASSUME CardsInv, NEW s, G!Show(s)
  PROVE  ScreenStep
BY DEF G!Show, G!Screen0, CardsInv, ScreenStep

LEMMA RefreshStep ==
  ASSUME CardsInv, NEW j, NEW r, G!RefreshWith(j, r)
  PROVE  ScreenStep
BY ShowStep DEF G!RefreshWith, CardsInv, ScreenStep

\* A step that adds neither token nor request nor money leaves all as it should be.
LEMMA CardsCalm ==
  ASSUME CardsInv, ScreenStep, UNCHANGED <<g_active, g_gp, g_funded>>,
         g_jwt' \in {g_jwt, None}, g_op' \in {g_op, None}
  PROVE  CardsInv'
BY DEF CardsInv, ScreenStep, G!HasSecondOwner

\* A change of anything but Safe and owners changes neither.
LEMMA FieldKept ==
  ASSUME NEW u, GpAccount(u), NEW f \in {"user", "terms", "kyc", "sof", "phone"}, NEW x
  PROVE  GpAccount([u EXCEPT ![f] = x]) /\ Keeps(u, [u EXCEPT ![f] = x])
BY DEF GpAccount, Keeps

\* No request takes an owner away.
LEMMA RequestKeeps ==
  ASSUME NEW a \in Accounts, GpAccount(g_gp[a]), NEW what
  PROVE  GpAccount(G!Requested(what, a)) /\ Keeps(g_gp[a], G!Requested(what, a))
<1> DEFINE u == g_gp[a]
           v == G!Requested(what, a)
<1>1. CASE \E f \in {"user", "terms", "kyc", "sof", "phone"} : \E x : v = [u EXCEPT ![f] = x]
  BY <1>1, FieldKept
<1>2. CASE v = u
  BY <1>2 DEF Keeps
<1>3. CASE v = [u EXCEPT !.safe = "processing"] /\ u.safe \in {"none", "failed"}
  BY <1>3 DEF GpAccount, Keeps
<1>4. CASE v = [u EXCEPT !.delay = TRUE] /\ u.owners = 1
  BY <1>4 DEF GpAccount, Keeps
<1>5. CASE what = "signup" \/ what = "terms" \/ what = "kyc" \/ what = "sof" \/ what = "phone"
  <2>1. \/ v = [u EXCEPT !["user"] = TRUE] \/ v = [u EXCEPT !["terms"] = TRUE]
        \/ v = [u EXCEPT !["kyc"] = "documentsRequested"] \/ v = [u EXCEPT !["sof"] = TRUE]
        \/ v = [u EXCEPT !["phone"] = u.phone \/ u.kyc = "approved"] \/ v = u
    BY <1>5 DEF G!Requested
  <2> QED BY <2>1, <1>1, <1>2
<1>6. CASE what = "deploy"
  BY <1>2, <1>3, <1>6 DEF G!Requested
<1>7. CASE what = "owner"
  BY <1>2, <1>4, <1>7 DEF G!Requested, G!SignGpModuleTx
<1>8. CASE what \notin {"signup", "terms", "kyc", "sof", "phone", "deploy", "owner"}
  BY <1>2, <1>8 DEF G!Requested
<1> QED BY <1>5, <1>6, <1>7, <1>8

\* Nor does anything that Gnosis Pay does by itself.
LEMMA ProgressKeeps ==
  ASSUME NEW u, GpAccount(u), NEW v \in G!Progress(u)
  PROVE  GpAccount(v) /\ Keeps(u, v)
<1>1. \/ \E x : v = [u EXCEPT !["kyc"] = x]
      \/ u.safe = "processing" /\ v = [[u EXCEPT !.safe = "ok"] EXCEPT !.owners = 1]
      \/ u.safe = "processing" /\ v = [u EXCEPT !.safe = "failed"]
      \/ u.delay /\ v = [[u EXCEPT !.delay = FALSE] EXCEPT !.owners = 2]
  BY DEF G!Progress
<1>2. CASE \E x : v = [u EXCEPT !["kyc"] = x]
  <2>1. PICK x : v = [u EXCEPT !["kyc"] = x]
    BY <1>2
  <2> QED BY <2>1 DEF GpAccount, Keeps
<1>3. CASE u.safe = "processing" /\ v = [[u EXCEPT !.safe = "ok"] EXCEPT !.owners = 1]
  BY <1>3 DEF GpAccount, Keeps
<1>4. CASE u.safe = "processing" /\ v = [u EXCEPT !.safe = "failed"]
  BY <1>4 DEF GpAccount, Keeps
<1>5. CASE u.delay /\ v = [[u EXCEPT !.delay = FALSE] EXCEPT !.owners = 2]
  BY <1>5 DEF GpAccount, Keeps
<1> QED BY <1>1, <1>2, <1>3, <1>4, <1>5

LEMMA AccountStep ==
  ASSUME CardsInv, NEW a \in Accounts, NEW v, GpAccount(v), Keeps(g_gp[a], v),
         g_gp' = [g_gp EXCEPT ![a] = v], UNCHANGED <<g_active, g_jwt, g_screen, g_store, g_funded>>,
         g_op # None /\ g_op' # None =>
           DOMAIN g_op' = DOMAIN g_op /\ g_op'.what = g_op.what /\ g_op'.tok = g_op.tok /\ g_op'.acct = g_op.acct,
         g_op = None => g_op' = None
  PROVE  CardsInv'
BY DEF CardsInv, G!HasSecondOwner, Keeps

\* A button sends its request with the token of the moment.
LEMMA SentStep ==
  ASSUME CardsInv, NEW step, NEW what, G!Sent(step, what),
         what = "login" => step = "anon" /\ g_jwt = None, what = "custom" => G!HasSecondOwner
  PROVE  CardsInv'
BY DEF G!Sent, CardsInv, G!HasSecondOwner, G!outside

LEMMA CardsInvStep == OneLogin /\ CardsInv /\ [Next]_all => CardsInv'
<1> SUFFICES ASSUME OneLogin, CardsInv, [Next]_all PROVE CardsInv'
  OBVIOUS
<1>1. CASE CardsStep
  <2>1. ASSUME NEW r \in Slots, G!Answer(r) \/ G!RefreshFails(r) PROVE CardsInv'
    BY <2>1, CardsCalm DEF G!Answer, G!RefreshFails, G!outside, CardsInv, ScreenStep
  <2>2. ASSUME NEW r \in Slots, G!Refresh(r) PROVE CardsInv'
    BY <2>2, CardsCalm, ShowStep DEF G!Refresh, G!Expelled, G!Derived, G!outside, CardsInv, ScreenStep
  <2>3. ASSUME NEW r \in Slots, G!Enter(r) \/ G!KycPoll(r) \/ G!DeployPoll(r) PROVE CardsInv'
    BY <2>3, CardsCalm, RefreshStep DEF G!Enter, G!KycPoll, G!DeployPoll, G!outside, CardsInv, ScreenStep
  <2>4. ASSUME NEW r \in Slots, G!GpLogin(r) PROVE CardsInv'
    <3>1. ScreenStep
      BY <2>4, ShowStep DEF G!GpLogin, G!RefreshWith, CardsInv, ScreenStep
    <3>2. g_screen'.owners = 0 /\ g_jwt'.who \in Accounts /\ g_op' = None
      BY <2>4, <3>1 DEF G!GpLogin, G!Done, G!NewToken, CardsInv, ScreenStep
    <3> QED BY <2>4, <3>1, <3>2 DEF G!GpLogin, G!outside, CardsInv, ScreenStep, G!HasSecondOwner
  <2>5. ASSUME NEW r \in Slots, G!SignedUp(r) PROVE CardsInv'
    <3>1. ScreenStep
      BY <2>5, ShowStep DEF G!SignedUp, G!RefreshWith, CardsInv, ScreenStep
    <3>2. /\ g_op # None /\ g_op.what # "login" /\ g_jwt'.who = g_op.tok.who /\ g_op' = None
      BY <2>5 DEF G!SignedUp, G!Done, G!NewToken, CardsInv
    <3> QED BY <2>5, <3>1, <3>2 DEF G!SignedUp, G!outside, CardsInv, ScreenStep, G!HasSecondOwner
  <2>6. ASSUME NEW r \in Slots, G!StepDone(r) PROVE CardsInv'
    BY <2>6, CardsCalm, RefreshStep DEF G!StepDone, G!Done, G!outside
  <2>7. ASSUME G!Login PROVE CardsInv'
    BY <2>7, SentStep DEF G!Login, OneLogin
  <2>8. ASSUME G!Signup \/ G!AcceptAll \/ G!StartKyc \/ G!ReopenKyc \/ G!SubmitSof \/ G!VerifyPhone
        PROVE  CardsInv'
    BY <2>8, SentStep DEF G!Signup, G!AcceptAll, G!StartKyc, G!ReopenKyc, G!SubmitSof, G!VerifyPhone
  <2>9. ASSUME G!Deploy \/ G!Fund \/ G!AddOwner PROVE CardsInv'
    BY <2>9, SentStep DEF G!Deploy, G!Fund, G!AddOwner
  <2>10. ASSUME G!Deploying \/ G!Leave \/ G!Fails \/ G!UpsertGpUser PROVE CardsInv'
    BY <2>10, CardsCalm
       DEF G!Deploying, G!Done, G!Leave, G!Fails, G!UpsertGpUser, G!Screen0, G!outside, CardsInv, ScreenStep
  <2>11. ASSUME G!ResolveGpSafeAddress PROVE CardsInv'
    <3>1. /\ g_op # None /\ g_op.what \in {"fund", "custom"} /\ g_op' = None
          /\ g_screen' = G!Screen0 /\ g_screen'.owners = 0 /\ DOMAIN g_screen' = {"deploying", "owners"}
      BY <2>11 DEF G!ResolveGpSafeAddress, G!Done, G!Screen0
    <3>2. g_op.tok.who \in Accounts /\ (g_op.what = "custom" => g_gp[g_op.tok.who].owners = 2)
      BY <3>1 DEF CardsInv
    <3>3. UNCHANGED <<g_active, g_gp, g_jwt, g_store>>
      BY <2>11 DEF G!ResolveGpSafeAddress, G!outside
    <3>4. g_funded' = g_funded \cup {[to |-> g_op.tok.who, custom |-> g_op.what = "custom"]}
      BY <2>11 DEF G!ResolveGpSafeAddress
    <3>5. \A f \in g_funded' : f.to \in Accounts /\ (f.custom => g_gp[f.to].owners = 2)
      <4> SUFFICES ASSUME NEW f \in g_funded' PROVE f.to \in Accounts /\ (f.custom => g_gp[f.to].owners = 2)
        OBVIOUS
      <4>1. CASE f \in g_funded
        BY <4>1 DEF CardsInv
      <4>2. CASE f = [to |-> g_op.tok.who, custom |-> g_op.what = "custom"]
        <5>1. f.to = g_op.tok.who /\ (f.custom <=> g_op.what = "custom")
          BY <4>2, Zenon
        <5> QED BY <3>2, <5>1
      <4> QED BY <3>4, <4>1, <4>2
    <3> QED BY <3>1, <3>3, <3>5 DEF CardsInv, G!HasSecondOwner
  <2>12. ASSUME G!LoadOwners PROVE CardsInv'
    BY <2>12 DEF G!LoadOwners, G!outside, CardsInv, G!HasSecondOwner, GpAccount
  <2>13. ASSUME G!Serve PROVE CardsInv'
    <3>1. /\ g_op # None /\ g_op' = [g_op EXCEPT !.pc = g_op'.pc]
          /\ UNCHANGED <<g_active, g_jwt, g_screen, g_store, g_funded>>
      BY <2>13 DEF G!Serve, CardsInv
    <3>2. /\ DOMAIN g_op' = DOMAIN g_op /\ g_op'.what = g_op.what /\ g_op'.tok = g_op.tok
          /\ g_op'.acct = g_op.acct
      BY <3>1 DEF CardsInv
    <3>3. CASE UNCHANGED g_gp
      BY <3>1, <3>2, <3>3 DEF CardsInv, G!HasSecondOwner
    <3>4. CASE g_op.what # "login" /\ g_gp' = [g_gp EXCEPT ![g_op.tok.who] = G!Requested(g_op.what, g_op.tok.who)]
      <4>1. g_op.tok.who \in Accounts /\ GpAccount(g_gp[g_op.tok.who])
        BY <3>1, <3>4 DEF CardsInv
      <4> QED BY <3>1, <3>2, <3>4, <4>1, RequestKeeps, AccountStep
    <3> QED BY <2>13, <3>3, <3>4 DEF G!Serve
  <2>14. ASSUME NEW a \in Accounts, G!GnosisPay(a) PROVE CardsInv'
    BY <2>14, ProgressKeeps, AccountStep DEF G!GnosisPay, CardsInv
  <2>15. ASSUME NEW a \in Accounts, G!SwitchAccount(a) PROVE CardsInv'
    BY <2>15 DEF G!SwitchAccount, CardsInv, G!HasSecondOwner
  <2>16. ASSUME G!Expire PROVE CardsInv'
    BY <2>16 DEF G!Expire, CardsInv, G!HasSecondOwner
  <2> QED BY <1>1, <2>1, <2>2, <2>3, <2>4, <2>5, <2>6, <2>7, <2>8, <2>9, <2>10, <2>11, <2>12, <2>13,
             <2>14, <2>15, <2>16 DEF CardsStep, G!Next
<1>2. CASE UNCHANGED g_all
  BY <1>2 DEF g_all, CardsInv, G!HasSecondOwner
<1> QED BY <1>1, <1>2 DEF Next, all, RelayStep, AccountsStep, EmbedStep, CeremonyStep, DonationsStep,
                          RecoveryStep, ReceiptsStep

\* Whatever accounts, tokens and answers cross: more than a preset goes only to a
\* card account with a second owner, unless a login is pressed over a token.
THEOREM GateStands == OneLogin => (Spec => []GateHolds)
<1>1. Init => CardsInv
  BY DEF Init, G!Init, G!OldUser, G!NewUser, G!Screen0, CardsInv, GpAccount
<1>2. CardsInv => GateHolds
  BY DEF CardsInv, GateHolds, G!GateHolds
<1> SUFFICES ASSUME OneLogin PROVE Spec => []GateHolds
  OBVIOUS
<1>3. CardsInv /\ [Next]_all => CardsInv'
  BY CardsInvStep
<1> QED BY <1>1, <1>2, <1>3, PTL DEF Spec

-----------------------------------------------------------------------------
(* Getting money out of a Safe nobody has a record of *)

SafeState == [code : BOOLEAN, nonce : {0, 1}, eure : BOOLEAN]
RecoveryTx == [safe : V!Safes, key : Creds \cup {None}, salt : SaltNonces, cold : {TRUE},
               st : {"pending", "landed", "reverted"}]

\* What a page carries to the relay.
Withdrawing(p) ==
  /\ V!In(p, "balance") \/ V!In(p, "identified") => v_phase[p].key \in Creds \cup {None}
  /\ V!In(p, "amount") \/ V!In(p, "relay") =>
       /\ DOMAIN v_phase[p] = {"kind", "key", "safe", "salt"} /\ v_phase[p].key \in Creds \cup {None}
       /\ v_phase[p].safe \in V!Safes /\ v_phase[p].salt \in SaltNonces

\* A Safe that has code has been used, so that a transfer over nonce 0 deploys
\* the Safe it is for; the money is there until some transaction of the Safe.
RecoveryInv ==
  /\ v_chain \in [V!Safes -> SafeState]
  /\ v_form \in [Forms -> [safe : V!Safes, salt : SaltNonces]]
  /\ v_phase = [p \in Forms |-> v_phase[p]] /\ \A p \in Forms : Withdrawing(p)
  /\ v_txs \in Seq(RecoveryTx)
  /\ \A s \in V!Safes : v_chain[s].code => v_chain[s].nonce = 1
  /\ \A i \in DOMAIN v_txs :
       LET t == v_txs[i]
       IN  /\ V!Create2Matches(t)
           /\ t.st = "pending" => v_chain[t.safe].eure \/ v_chain[t.safe].nonce = 1
           /\ t.st = "reverted" => v_chain[t.safe].nonce = 1

\* What becomes of a withdrawal, when it is tried and when it is mined.
LEMMA RecoveryOutcome ==
  ASSUME RecoveryInv, NEW t \in RecoveryTx, V!Create2Matches(t)
  PROVE  /\ V!Outcome(t) = IF ~v_chain[t.safe].code /\ v_chain[t.safe].eure /\ v_chain[t.safe].nonce = 0
                           THEN "landed" ELSE "reverted"
         /\ V!DeployedSafe(t) = t.safe
<1> DEFINE s == v_chain[t.safe]
<1>1. t.cold = TRUE /\ t.safe = <<t.key, t.salt>> /\ V!DeployedSafe(t) = t.safe /\ t.safe \in V!Safes
  BY DEF V!Create2Matches, V!PredictSafe, V!DeployedSafe, RecoveryTx
<1>2. s \in SafeState /\ (s.code => s.nonce = 1)
  BY <1>1 DEF RecoveryInv
<1>3. t.safe[1] = t.key
  BY <1>1
<1>4. V!Executes([s EXCEPT !.code = TRUE], t) <=> (s.nonce = 0 /\ s.eure)
  BY <1>2, <1>3 DEF V!Executes, SafeState
<1> QED BY <1>1, <1>2, <1>4 DEF V!Outcome

\* The relay takes a withdrawal only when it would go through now.
LEMMA WithdrawalStep ==
  ASSUME RecoveryInv, NEW p \in Forms, V!Relay(p)
  PROVE  RecoveryInv'
<1> DEFINE ph == v_phase[p]
           t  == V!Tx(ph, ~v_chain[ph.safe].code)
<1>1. /\ ph.safe \in V!Safes /\ ph.salt \in SaltNonces /\ ph.key \in Creds \cup {None}
      /\ v_chain[ph.safe] \in SafeState
  BY DEF V!Relay, RecoveryInv, Withdrawing
<1>2. /\ v_phase' = [q \in Forms |-> v_phase'[q]] /\ \A q \in Forms : Withdrawing(q)'
      /\ UNCHANGED <<v_chain, v_form>>
  BY DEF V!Relay, V!Go, V!In, V!Error, RecoveryInv, Withdrawing
<1>3. CASE UNCHANGED v_txs
  BY <1>2, <1>3 DEF RecoveryInv
<1>4. CASE v_txs' = Append(v_txs, t) /\ (t.cold => V!Create2Matches(ph)) /\ V!Outcome(t) # "reverted"
  <2>1. /\ t.safe = ph.safe /\ t.key = ph.key /\ t.salt = ph.salt /\ t.st = "pending"
        /\ (t.cold <=> ~v_chain[ph.safe].code)
    BY DEF V!Tx
  <2>2. CASE v_chain[ph.safe].code
    <3>1. v_chain[ph.safe].nonce = 1
      BY <1>1, <2>2 DEF RecoveryInv
    <3>2. V!Outcome(t) = "reverted"
      BY <2>1, <2>2, <3>1 DEF V!Outcome, V!Executes, V!DeployedSafe
    <3> QED BY <1>4, <3>2
  <2>3. CASE ~v_chain[ph.safe].code
    <3>1. t = [safe |-> ph.safe, key |-> ph.key, salt |-> ph.salt, cold |-> TRUE, st |-> "pending"]
      BY <2>3 DEF V!Tx
    <3>2. t \in RecoveryTx /\ V!Create2Matches(t)
      BY <1>1, <1>4, <2>1, <2>3, <3>1 DEF RecoveryTx, V!Create2Matches
    <3>3. v_chain[t.safe].eure
      BY <1>4, <3>2, RecoveryOutcome
    <3>4. v_txs' \in Seq(RecoveryTx) /\ Len(v_txs') = Len(v_txs) + 1
      BY <1>4, <3>2 DEF RecoveryInv
    <3>5. \A i \in DOMAIN v_txs' : v_txs'[i] = t \/ (i \in DOMAIN v_txs /\ v_txs'[i] = v_txs[i])
      BY <1>4, <3>2 DEF RecoveryInv
    <3> HIDE DEF t
    <3> QED BY <1>2, <2>1, <3>2, <3>3, <3>4, <3>5 DEF RecoveryInv, V!Create2Matches
  <2> QED BY <2>2, <2>3
<1> QED BY <1>3, <1>4 DEF V!Relay

\* Whatever is mined first, the others of that Safe fail after it.
LEMMA RecoveryMined ==
  ASSUME RecoveryInv, NEW i \in DOMAIN v_txs, V!Mine(i)
  PROVE  RecoveryInv'
<1> DEFINE t == v_txs[i]
<1>1. /\ t \in RecoveryTx /\ t.st = "pending" /\ V!Create2Matches(t) /\ t.safe \in V!Safes /\ t.cold = TRUE
      /\ v_chain[t.safe] \in SafeState
      /\ v_chain[t.safe].eure \/ v_chain[t.safe].nonce = 1
  <2>1. t \in RecoveryTx /\ V!Create2Matches(t)
    BY DEF RecoveryInv
  <2>2. t.st = "pending"
    BY DEF V!Mine
  <2> QED BY <2>1, <2>2 DEF RecoveryInv, RecoveryTx
<1>2. /\ v_txs' = [v_txs EXCEPT ![i].st = V!Outcome(t)] /\ UNCHANGED <<v_form, v_phase>>
      /\ v_chain' = IF V!Outcome(t) = "landed"
                    THEN [[[v_chain EXCEPT ![t.safe].code = TRUE] EXCEPT ![t.safe].nonce = 1]
                            EXCEPT ![t.safe].eure = FALSE]
                    ELSE v_chain
  BY <1>1, RecoveryOutcome DEF V!Mine
<1>3. V!Outcome(t) \in {"landed", "reverted"}
      /\ (V!Outcome(t) = "reverted" => v_chain[t.safe].nonce = 1)
  BY <1>1, RecoveryOutcome DEF RecoveryInv, SafeState
<1>4. /\ v_txs' \in Seq(RecoveryTx) /\ DOMAIN v_txs' = DOMAIN v_txs
      /\ \A j \in DOMAIN v_txs : /\ v_txs'[j].safe = v_txs[j].safe /\ v_txs'[j].key = v_txs[j].key
                                 /\ v_txs'[j].salt = v_txs[j].salt
                                 /\ v_txs'[j].st = IF j = i THEN V!Outcome(t) ELSE v_txs[j].st
  <2> DEFINE u == [t EXCEPT !.st = V!Outcome(t)]
  <2>1. /\ u \in RecoveryTx /\ u.safe = t.safe /\ u.key = t.key /\ u.salt = t.salt
        /\ u.st = V!Outcome(t)
    BY <1>1, <1>3 DEF RecoveryTx
  <2>2. v_txs' = [v_txs EXCEPT ![i] = u]
    BY <1>2
  <2> HIDE DEF u
  <2> QED BY <2>1, <2>2 DEF RecoveryInv
<1>5. /\ v_chain' \in [V!Safes -> SafeState]
      /\ \A s \in V!Safes : /\ v_chain'[s].code => v_chain'[s].nonce = 1
                            /\ v_chain[s].nonce = 1 => v_chain'[s].nonce = 1
                            /\ v_chain[s].eure => v_chain'[s].eure \/ v_chain'[s].nonce = 1
  BY <1>1, <1>2 DEF RecoveryInv, SafeState
<1> HIDE DEF t
<1>6. \A p \in Forms : Withdrawing(p)'
  BY <1>2 DEF RecoveryInv, Withdrawing, V!In
<1>7. ASSUME NEW j \in DOMAIN v_txs
      PROVE  /\ V!Create2Matches(v_txs'[j])
             /\ v_txs'[j].st = "pending" => v_chain'[v_txs'[j].safe].eure \/ v_chain'[v_txs'[j].safe].nonce = 1
             /\ v_txs'[j].st = "reverted" => v_chain'[v_txs'[j].safe].nonce = 1
  <2>1. v_txs[j] \in RecoveryTx /\ v_txs[j].safe \in V!Safes
    <3>1. v_txs[j] \in RecoveryTx
      BY DEF RecoveryInv
    <3> QED BY <3>1 DEF RecoveryTx
  <2>2. /\ V!Create2Matches(v_txs[j])
        /\ v_txs[j].st = "pending" => v_chain[v_txs[j].safe].eure \/ v_chain[v_txs[j].safe].nonce = 1
        /\ v_txs[j].st = "reverted" => v_chain[v_txs[j].safe].nonce = 1
    BY DEF RecoveryInv
  <2>3. CASE j = i
    BY <1>1, <1>3, <1>4, <1>5, <2>1, <2>2, <2>3 DEF V!Create2Matches, t
  <2>4. CASE j # i
    BY <1>4, <1>5, <2>1, <2>2, <2>4 DEF V!Create2Matches
  <2> QED BY <2>3, <2>4
<1> QED BY <1>2, <1>4, <1>5, <1>6, <1>7 DEF RecoveryInv

LEMMA RecoveryInvStep == RecoveryInv /\ [Next]_all => RecoveryInv'
<1> SUFFICES ASSUME RecoveryInv, [Next]_all PROVE RecoveryInv'
  OBVIOUS
<1>1. CASE RecoveryStep
  <2>1. ASSUME NEW p \in Forms, V!Edit(p) PROVE RecoveryInv'
    BY <2>1 DEF V!Edit, RecoveryInv, Withdrawing, V!In
  <2>2. ASSUME NEW p \in Forms, V!OnlyPhase, NEW ph, V!Go(p, ph),
               ph.kind \in {"balance", "identified"} => ph.key \in Creds \cup {None},
               ph.kind \in {"amount", "relay"} =>
                 /\ DOMAIN ph = {"kind", "key", "safe", "salt"} /\ ph.key \in Creds \cup {None}
                 /\ ph.safe \in V!Safes /\ ph.salt \in SaltNonces
        PROVE  RecoveryInv'
    BY <2>2 DEF V!OnlyPhase, V!Go, V!In, RecoveryInv, Withdrawing
  <2>3. ASSUME NEW p \in Forms, V!OnIdentify(p) \/ V!TryAgain(p) PROVE RecoveryInv'
    BY <2>2, <2>3 DEF V!OnIdentify, V!TryAgain, V!Form
  <2>4. ASSUME NEW p \in Forms, V!DiscoverableGet(p) PROVE RecoveryInv'
    <3>1. V!NextRp(v_phase[p]).kind \in {"identifying", "error"}
      BY <2>4 DEF V!DiscoverableGet, V!NextRp, V!Error, V!In
    <3>2. ASSUME NEW k \in V!KeysOf(Head(v_phase[p].rps)), NEW matches \in SUBSET V!RecoverPubkeys(k),
                 matches # {}
          PROVE  (CHOOSE x \in matches : TRUE) \in Creds \cup {None}
      BY <3>2, WalletAssumption DEF V!RecoverPubkeys, V!KeysOf, V!RecoveryAssumption
    <3>3. CASE V!Go(p, V!NextRp(v_phase[p])) \/ V!Go(p, V!Error)
      BY <2>2, <2>4, <3>1, <3>3 DEF V!DiscoverableGet, V!Error
    <3>4. ASSUME NEW k \in V!KeysOf(Head(v_phase[p].rps)), NEW matches, matches # {},
                 matches = {x \in V!RecoverPubkeys(k) : V!PredictSafe(x, v_phase[p].salt) = v_phase[p].target},
                 V!Go(p, [kind |-> "balance", key |-> CHOOSE x \in matches : TRUE, target |-> v_phase[p].target])
          PROVE  RecoveryInv'
      <4>1. (CHOOSE x \in matches : TRUE) \in Creds \cup {None}
        BY <3>2, <3>4
      <4> QED BY <2>2, <2>4, <3>4, <4>1 DEF V!DiscoverableGet
    <3> QED BY <2>4, <3>3, <3>4 DEF V!DiscoverableGet
  <2>5. ASSUME NEW p \in Forms, V!ReadBalance(p) PROVE RecoveryInv'
    BY <2>2, <2>5 DEF V!ReadBalance, V!Error, RecoveryInv, Withdrawing
  <2>6. ASSUME NEW p \in Forms, V!OnWithdraw(p) PROVE RecoveryInv'
    BY <2>2, <2>6 DEF V!OnWithdraw, RecoveryInv, Withdrawing
  <2>7. ASSUME NEW p \in Forms, V!SignTransfer(p) PROVE RecoveryInv'
    BY <2>2, <2>7 DEF V!SignTransfer, V!Error, RecoveryInv, Withdrawing
  <2>8. ASSUME NEW s \in V!Safes, V!Elsewhere(s) PROVE RecoveryInv'
    <3>1. /\ v_chain' \in [V!Safes -> SafeState]
          /\ \A q \in V!Safes : /\ v_chain'[q].code => v_chain'[q].nonce = 1
                                /\ v_chain[q].nonce = 1 => v_chain'[q].nonce = 1
                                /\ v_chain[q].eure => v_chain'[q].eure \/ v_chain'[q].nonce = 1
      <4>1. CASE v_chain' = [v_chain EXCEPT ![s].eure = TRUE]
        BY <4>1 DEF RecoveryInv, SafeState
      <4>2. CASE v_chain' = [v_chain EXCEPT ![s] = [code |-> TRUE, nonce |-> 1, eure |-> FALSE]]
        <5> DEFINE u == [code |-> TRUE, nonce |-> 1, eure |-> FALSE]
        <5>1. u \in SafeState /\ u.nonce = 1
          BY DEF SafeState
        <5>2. v_chain' = [v_chain EXCEPT ![s] = u]
          BY <4>2
        <5> HIDE DEF u
        <5> QED BY <5>1, <5>2 DEF RecoveryInv
      <4> QED BY <2>8, <4>1, <4>2 DEF V!Elsewhere
    <3>2. \A i \in DOMAIN v_txs : v_txs[i].safe \in V!Safes
      <4>1. \A i \in DOMAIN v_txs : v_txs[i] \in RecoveryTx
        BY DEF RecoveryInv
      <4> QED BY <4>1 DEF RecoveryTx
    <3> QED BY <2>8, <3>1, <3>2 DEF V!Elsewhere, RecoveryInv, Withdrawing, V!In, V!Create2Matches
  <2> QED BY <1>1, <2>1, <2>3, <2>4, <2>5, <2>6, <2>7, <2>8, WithdrawalStep, RecoveryMined
          DEF RecoveryStep, V!Next, V!Step
<1>2. CASE UNCHANGED v_all
  BY <1>2 DEF v_all, RecoveryInv, Withdrawing, V!In, V!Create2Matches
<1> QED BY <1>1, <1>2 DEF Next, all, RelayStep, AccountsStep, EmbedStep, CeremonyStep, CardsStep,
                          DonationsStep, ReceiptsStep

\* No Safe has code, and nothing is under way.
LEMMA RecoveryInvInit == Init => RecoveryInv
<1> SUFFICES ASSUME Init PROVE RecoveryInv
  OBVIOUS
<1>1. V!Init
  BY DEF Init
<1>2. v_form \in [Forms -> [safe : V!Safes, salt : SaltNonces]]
  BY <1>1 DEF V!Init, V!Safes
<1>3. \A p \in Forms : v_phase[p].kind = "form" /\ v_phase = [q \in Forms |-> v_phase[q]]
  BY <1>1 DEF V!Init, V!Form
<1>4. v_chain \in [V!Safes -> SafeState] /\ \A s \in V!Safes : ~v_chain[s].code
  BY <1>1 DEF V!Init, SafeState
<1>5. v_txs = <<>> /\ v_phase = [q \in Forms |-> v_phase[q]]
  BY <1>1 DEF V!Init
<1> QED BY <1>2, <1>3, <1>4, <1>5 DEF RecoveryInv, Withdrawing, V!In

-----------------------------------------------------------------------------
(* The relay *)

RelaySafe == [safe : BOOLEAN, owner : BOOLEAN, signer : BOOLEAN, nonce : Nat, threshold : {1, 2},
              strays : {0}]
RelayRequest == [at : {"idle", "nonce", "sign", "limits", "preflight", "hot", "recheck", "cold", "bump",
                       "boot", "receipt"},
                 op : {"send", "activate", "recover"}, nonce : Nat, used : Nat, skipSigner : BOOLEAN,
                 skipSafe : BOOLEAN]
RelayTx == [path : {"hot", "cold", "boot"}, nonce : Nat, skipSigner : BOOLEAN, skipSafe : BOOLEAN,
            by : Tabs, st : {"pending", "landed", "reverted"}]

\* What is sent by itself goes to a Safe that is there; what deploys one deploys
\* the Safe that is meant, or leaves the one that is there alone.
Meant(path, skipSafe, s) ==
  /\ path = "hot" => s.safe
  /\ path = "cold" => (skipSafe => s.safe) /\ (skipSafe \/ R!Predicted)

\* The wallet can be used.
Ours(s) == s.safe /\ s.owner /\ s.signer

\* What a lagging node has of the Safe the chain has too, and every transaction
\* that is under way is meant for the Safe there is or will be.
RelayInv ==
  /\ r_chain \in RelaySafe /\ r_lagged \in RelaySafe /\ (r_lagged.safe => r_chain.safe)
  /\ r_req \in [Tabs -> RelayRequest] /\ r_used \in Nat
  /\ r_txs \in Seq(RelayTx)
  /\ \A c \in Tabs : Meant(r_req[c].at, r_req[c].skipSafe, r_chain)
  /\ \A i \in DOMAIN r_txs : /\ Meant(r_txs[i].path, r_txs[i].skipSafe, r_chain)
                             /\ r_txs[i].path = "boot" /\ r_txs[i].st = "landed" => Ours(r_chain)
  /\ R!RevealedIsOwned

LEMMA ExecutedSafe ==
  ASSUME NEW d \in RelaySafe
  PROVE  /\ R!Executed(d) \in RelaySafe /\ R!Executed(d).safe = d.safe
         /\ R!Executed(d).owner = d.owner /\ R!Executed(d).signer = d.signer
<1> DEFINE n == d.nonce + 1
<1>1. n \in Nat
  BY DEF RelaySafe
<1>2. R!Executed(d) = [d EXCEPT !.nonce = n]
  BY DEF R!Executed
<1> HIDE DEF n
<1> QED BY <1>1, <1>2 DEF RelaySafe

\* A transaction that is meant does what it says or fails, and takes nothing away.
LEMMA RelayOutcome ==
  ASSUME NEW s \in RelaySafe, NEW t \in RelayTx, Meant(t.path, t.skipSafe, s)
  PROVE  /\ R!Outcome(s, t) \in {"landed", "reverted"}
         /\ R!After(s, t) \in RelaySafe
         /\ s.safe => R!After(s, t).safe
         /\ Ours(s) => Ours(R!After(s, t))
         /\ t.path = "boot" /\ R!Outcome(s, t) = "landed" => Ours(R!After(s, t))
<1>1. CASE t.path = "boot"
  <2>1. R!Outcome(s, t) = IF s.safe THEN "reverted" ELSE "landed"
    BY <1>1 DEF R!Outcome
  <2>2. CASE s.safe
    BY <1>1, <2>1, <2>2 DEF R!After
  <2>3. CASE ~s.safe
    <3>1. R!After(s, t) = [s EXCEPT !.safe = TRUE, !.owner = TRUE, !.signer = TRUE, !.nonce = 1]
      BY <1>1, <2>1, <2>3 DEF R!After
    <3>2. R!After(s, t) = [safe |-> TRUE, owner |-> TRUE, signer |-> TRUE, nonce |-> 1,
                           threshold |-> s.threshold, strays |-> s.strays]
      BY <3>1 DEF RelaySafe
    <3> QED BY <1>1, <2>1, <2>3, <3>2 DEF RelaySafe, Ours
  <2> QED BY <2>2, <2>3
<1>2. CASE t.path = "hot"
  <2>1. s.safe
    BY <1>2 DEF Meant
  <2>2. R!Outcome(s, t) = IF R!Executes(s, t) THEN "landed" ELSE "reverted"
    BY <1>2, <2>1 DEF R!Outcome
  <2>3. R!After(s, t) = IF R!Executes(s, t) THEN R!Executed(s) ELSE s
    BY <1>2, <2>2 DEF R!After
  <2> QED BY <1>2, <2>2, <2>3, ExecutedSafe DEF Ours
<1>3. CASE t.path = "cold"
  <2> DEFINE d == R!Deploys(s, t)
  <2>1. /\ d \in RelaySafe /\ d.safe /\ (s.owner => d.owner) /\ (s.signer => d.signer)
    <3> DEFINE s1 == IF t.skipSigner THEN s ELSE [s EXCEPT !.signer = TRUE]
    <3>1. s1 \in RelaySafe /\ s1.safe = s.safe /\ s1.owner = s.owner /\ (s.signer => s1.signer)
      BY DEF RelaySafe
    <3>2. CASE t.skipSafe
      BY <1>3, <3>1, <3>2 DEF R!Deploys, Meant
    <3>3. CASE ~t.skipSafe
      <4>1. d = [s1 EXCEPT !.safe = TRUE, !.owner = TRUE]
        BY <1>3, <3>3 DEF R!Deploys, Meant
      <4> HIDE DEF s1
      <4> QED BY <3>1, <4>1 DEF RelaySafe
    <3> QED BY <3>2, <3>3
  <2>2. R!Outcome(s, t) = IF ~R!Collides(s, t) /\ R!Executes(d, t) THEN "landed" ELSE "reverted"
    BY <1>3, <2>1 DEF R!Outcome
  <2>3. R!After(s, t) = IF R!Outcome(s, t) = "landed" THEN R!Executed(d) ELSE s
    BY <1>3, <2>2 DEF R!After
  <2> HIDE DEF d
  <2> QED BY <1>3, <2>1, <2>2, <2>3, ExecutedSafe DEF Ours
<1> QED BY <1>1, <1>2, <1>3 DEF RelayTx

\* A request has come to another place.
Turned(c, at, skipSafe) ==
  \E q \in RelayRequest : r_req' = [r_req EXCEPT ![c] = q] /\ q.at = at /\ q.skipSafe = skipSafe

Places == {"idle", "nonce", "sign", "limits", "preflight", "hot", "recheck", "cold", "bump", "boot", "receipt"}

LEMMA GoTurns ==
  ASSUME RelayInv, NEW c \in Tabs, NEW at \in Places, R!Go(c, at)
  PROVE  Turned(c, at, r_req[c].skipSafe)
<1> DEFINE q == [r_req[c] EXCEPT !.at = at]
<1>1. r_req' = [r_req EXCEPT ![c] = q]
  BY DEF R!Go
<1>2. q \in RelayRequest /\ q.at = at /\ q.skipSafe = r_req[c].skipSafe
  BY DEF RelayInv, RelayRequest, Places
<1> QED BY <1>1, <1>2 DEF Turned

LEMMA IdleIsRequest == R!Idle \in RelayRequest /\ R!Idle.at = "idle" /\ R!Idle.skipSafe = FALSE
BY DEF R!Idle, RelayRequest

LEMMA EndTurns ==
  ASSUME NEW c \in Tabs, R!End(c)
  PROVE  Turned(c, "idle", FALSE)
<1>1. r_req' = [r_req EXCEPT ![c] = R!Idle]
  BY DEF R!End
<1> QED BY <1>1, IdleIsRequest, Zenon DEF Turned

LEMMA ColdTurns ==
  ASSUME RelayInv, NEW c \in Tabs, NEW signer \in BOOLEAN, NEW safe \in BOOLEAN, R!Cold(c, signer, safe)
  PROVE  Turned(c, "cold", safe)
<1> DEFINE q1 == [r_req[c] EXCEPT !.at = "cold"]
           q2 == [q1 EXCEPT !.skipSigner = signer]
           q == [q2 EXCEPT !.skipSafe = safe]
<1>1. r_req' = [r_req EXCEPT ![c] = q] /\ r_req[c] \in RelayRequest
  BY DEF R!Cold, RelayInv
<1>2. q1 \in RelayRequest /\ q1.at = "cold"
  BY <1>1 DEF RelayRequest
<1> HIDE DEF q1
<1>3. q2 \in RelayRequest /\ q2.at = "cold"
  BY <1>2 DEF RelayRequest
<1> HIDE DEF q2
<1>4. q \in RelayRequest /\ q.at = "cold" /\ q.skipSafe = safe
  BY <1>3 DEF RelayRequest
<1> QED BY <1>1, <1>4, Zenon DEF Turned

\* A transaction as a request makes it.
LEMMA TxOfRequest ==
  ASSUME RelayInv, NEW c \in Tabs, NEW path \in {"hot", "cold", "boot"}
  PROVE  /\ R!Tx(c, path) \in RelayTx /\ R!Tx(c, path).path = path
         /\ R!Tx(c, path).skipSafe = r_req[c].skipSafe /\ R!Tx(c, path).st = "pending"
<1>1. r_req[c] \in RelayRequest
  BY DEF RelayInv
<1> QED BY <1>1 DEF R!Tx, RelayTx, RelayRequest

\* A request goes on; it may send what is meant for the Safe, and show a wallet that is ours.
LEMMA RequestTurns ==
  ASSUME RelayInv, NEW c \in Tabs, NEW at, NEW skipSafe, Turned(c, at, skipSafe), Meant(at, skipSafe, r_chain),
         R!Still, r_used' \in Nat, r_created' \in {r_created, "asked", "failed"} \/ Ours(r_chain),
         \/ UNCHANGED r_txs
         \/ \E t \in RelayTx : R!Broadcast(t) /\ Meant(t.path, t.skipSafe, r_chain) /\ t.st = "pending"
  PROVE  RelayInv'
<1>1. PICK q \in RelayRequest : r_req' = [r_req EXCEPT ![c] = q] /\ q.at = at /\ q.skipSafe = skipSafe
  BY DEF Turned
<1>2. /\ r_req' \in [Tabs -> RelayRequest]
      /\ \A d \in Tabs : Meant(r_req'[d].at, r_req'[d].skipSafe, r_chain)
  BY <1>1 DEF RelayInv
<1> DEFINE Sound(txs) == /\ txs \in Seq(RelayTx)
                         /\ \A i \in DOMAIN txs : /\ Meant(txs[i].path, txs[i].skipSafe, r_chain)
                                                  /\ txs[i].path = "boot" /\ txs[i].st = "landed" => Ours(r_chain)
<1>3. Sound(r_txs')
  <2>1. CASE UNCHANGED r_txs
    BY <2>1 DEF RelayInv
  <2>2. ASSUME NEW t \in RelayTx, R!Broadcast(t), Meant(t.path, t.skipSafe, r_chain), t.st = "pending"
        PROVE  Sound(r_txs')
    <3>1. r_txs' = Append(r_txs, t) /\ r_txs \in Seq(RelayTx)
      BY <2>2 DEF R!Broadcast, RelayInv
    <3>2. \A i \in DOMAIN r_txs' : r_txs'[i] = t \/ (i \in DOMAIN r_txs /\ r_txs'[i] = r_txs[i])
      BY <3>1
    <3> QED BY <2>2, <3>1, <3>2 DEF RelayInv
  <2> QED BY <2>1, <2>2
<1>4. UNCHANGED <<r_kind, r_chain, r_lagged>>
  BY DEF R!Still
<1>5. R!RevealedIsOwned'
  BY <1>4 DEF RelayInv, R!RevealedIsOwned, Ours
<1> QED BY <1>2, <1>3, <1>4, <1>5 DEF RelayInv, Meant, R!Predicted, Ours

\* The Safe moves on, and a transaction with it.
LEMMA ChainTurns ==
  ASSUME RelayInv, r_chain' \in RelaySafe, r_lagged' = r_chain, r_chain.safe => r_chain'.safe,
         Ours(r_chain) => Ours(r_chain'), UNCHANGED <<r_kind, r_req, r_used, r_created>>,
         r_txs' \in Seq(RelayTx), DOMAIN r_txs' = DOMAIN r_txs,
         \A i \in DOMAIN r_txs : /\ r_txs'[i].path = r_txs[i].path /\ r_txs'[i].skipSafe = r_txs[i].skipSafe
                                 /\ \/ r_txs'[i].st = r_txs[i].st
                                    \/ r_txs'[i].path = "boot" /\ r_txs'[i].st = "landed" => Ours(r_chain')
  PROVE  RelayInv'
<1>1. \A path, skipSafe : Meant(path, skipSafe, r_chain) => Meant(path, skipSafe, r_chain')
  BY DEF Meant
<1>2. \A i \in DOMAIN r_txs' : /\ Meant(r_txs'[i].path, r_txs'[i].skipSafe, r_chain')
                               /\ r_txs'[i].path = "boot" /\ r_txs'[i].st = "landed" => Ours(r_chain')
  BY <1>1 DEF RelayInv
<1>3. R!RevealedIsOwned'
  BY DEF RelayInv, R!RevealedIsOwned, Ours
<1>4. \A c \in Tabs : Meant(r_req[c].at, r_req[c].skipSafe, r_chain')
  BY <1>1 DEF RelayInv
<1> QED BY <1>2, <1>3, <1>4 DEF RelayInv, Meant, R!Predicted

LEMMA RelayMined ==
  ASSUME RelayInv, NEW i \in DOMAIN r_txs, R!Mine(i)
  PROVE  RelayInv'
<1> DEFINE t == r_txs[i]
           o == R!Outcome(r_chain, t)
<1>1. t \in RelayTx /\ Meant(t.path, t.skipSafe, r_chain)
  BY DEF RelayInv
<1>2. /\ o \in {"landed", "reverted"} /\ R!After(r_chain, t) \in RelaySafe
      /\ r_chain.safe => R!After(r_chain, t).safe
      /\ Ours(r_chain) => Ours(R!After(r_chain, t))
      /\ t.path = "boot" /\ o = "landed" => Ours(R!After(r_chain, t))
  BY <1>1, RelayOutcome DEF RelayInv
<1>3. /\ r_chain' = R!After(r_chain, t) /\ r_lagged' = r_chain /\ UNCHANGED <<r_kind, r_req, r_used, r_created>>
      /\ r_txs' = [r_txs EXCEPT ![i].st = o]
  BY DEF R!Mine
<1> HIDE DEF o
<1>4. /\ r_txs' \in Seq(RelayTx) /\ DOMAIN r_txs' = DOMAIN r_txs
      /\ \A j \in DOMAIN r_txs : /\ r_txs'[j].path = r_txs[j].path /\ r_txs'[j].skipSafe = r_txs[j].skipSafe
                                 /\ r_txs'[j].st = IF j = i THEN o ELSE r_txs[j].st
  <2> DEFINE u == [t EXCEPT !.st = o]
  <2>1. u \in RelayTx /\ u.path = t.path /\ u.skipSafe = t.skipSafe /\ u.st = o
    BY <1>1, <1>2 DEF RelayTx
  <2>2. r_txs' = [r_txs EXCEPT ![i] = u]
    BY <1>3
  <2> HIDE DEF u
  <2> QED BY <2>1, <2>2 DEF RelayInv
<1> QED BY <1>2, <1>3, <1>4, ChainTurns

LEMMA RelayInvStep == RelayInv /\ [Next]_all => RelayInv'
<1> SUFFICES ASSUME RelayInv, [Next]_all PROVE RelayInv'
  OBVIOUS
<1>1. CASE RelayStep
  <2>1. ASSUME NEW c \in Tabs, NEW op \in {"send", "activate", "recover"}, R!Start(c, op) PROVE RelayInv'
    <3> DEFINE at == IF op = "recover" THEN "sign" ELSE "nonce"
    <3>1. Turned(c, at, FALSE)
      <4> DEFINE q1 == [R!Idle EXCEPT !.op = op]
                 q == [q1 EXCEPT !.at = at]
      <4>1. q1 \in RelayRequest /\ q1.skipSafe = FALSE
        BY IdleIsRequest DEF RelayRequest
      <4>2. r_req' = [r_req EXCEPT ![c] = q]
        BY <2>1 DEF R!Start
      <4>3. at \in {"sign", "nonce"}
        OBVIOUS
      <4> HIDE DEF q1, at
      <4>4. q \in RelayRequest /\ q.at = at /\ q.skipSafe = FALSE
        BY <4>1, <4>3 DEF RelayRequest
      <4> QED BY <4>2, <4>4, Zenon DEF Turned
    <3> QED BY <2>1, <3>1, RequestTurns DEF R!Start, Meant, RelayInv
  <2>2. ASSUME NEW c \in Tabs, R!ReadNonce(c) PROVE RelayInv'
    <3>1. PICK v \in R!Views : r_req' = [r_req EXCEPT ![c].nonce = IF v.safe THEN v.nonce ELSE 0, ![c].at = "sign"]
      BY <2>2 DEF R!ReadNonce
    <3> DEFINE n == IF v.safe THEN v.nonce ELSE 0
               q == [[r_req[c] EXCEPT !.nonce = n] EXCEPT !.at = "sign"]
    <3>2. n \in Nat
      BY DEF R!Views, RelayInv, RelaySafe
    <3>3. r_req' = [r_req EXCEPT ![c] = q] /\ r_req[c] \in RelayRequest
      BY <3>1 DEF RelayInv
    <3> HIDE DEF n
    <3>4. q \in RelayRequest /\ q.at = "sign" /\ q.skipSafe = r_req[c].skipSafe
      BY <3>2, <3>3 DEF RelayRequest
    <3>5. Turned(c, "sign", r_req[c].skipSafe)
      BY <3>3, <3>4 DEF Turned
    <3> QED BY <2>2, <3>5, RequestTurns DEF R!ReadNonce, Meant, RelayInv
  <2>3. ASSUME NEW c \in Tabs, R!Sign(c) PROVE RelayInv'
    <3>1. R!Still /\ UNCHANGED <<r_txs, r_used, r_created>> /\ r_used \in Nat
      BY <2>3 DEF R!Sign, RelayInv
    <3>2. CASE R!Go(c, "limits")
      <4>1. Turned(c, "limits", r_req[c].skipSafe) /\ Meant("limits", r_req[c].skipSafe, r_chain)
        BY <3>2, GoTurns DEF Places, Meant
      <4> QED BY <3>1, <4>1, RequestTurns
    <3>3. CASE R!End(c)
      BY <3>1, <3>3, EndTurns, RequestTurns DEF Meant
    <3> QED BY <2>3, <3>2, <3>3 DEF R!Sign
  <2>4. ASSUME NEW c \in Tabs, R!ReadLimits(c) PROVE RelayInv'
    <3>1. CASE R!End(c)
      BY <2>4, <3>1, EndTurns, RequestTurns DEF R!ReadLimits, Meant, RelayInv
    <3>2. CASE r_req' = [r_req EXCEPT ![c].used = r_used, ![c].at = "preflight"]
      <4> DEFINE q == [[r_req[c] EXCEPT !.used = r_used] EXCEPT !.at = "preflight"]
      <4>1. r_req' = [r_req EXCEPT ![c] = q] /\ r_req[c] \in RelayRequest
        BY <3>2 DEF RelayInv
      <4>2. q \in RelayRequest /\ q.at = "preflight" /\ q.skipSafe = r_req[c].skipSafe
        BY <4>1 DEF RelayInv, RelayRequest
      <4>3. Turned(c, "preflight", r_req[c].skipSafe)
        BY <4>1, <4>2 DEF Turned
      <4> QED BY <2>4, <4>3, RequestTurns DEF R!ReadLimits, Meant, RelayInv
    <3> QED BY <2>4, <3>1, <3>2 DEF R!ReadLimits
  <2>5. ASSUME NEW c \in Tabs, NEW v \in R!Views, NEW w \in R!Views, R!ColdOrRefused(c, w.signer, v.safe),
               R!Still, UNCHANGED <<r_txs, r_used, r_created, r_faults>>
        PROVE  RelayInv'
    <3>1. v.safe \in BOOLEAN /\ w.signer \in BOOLEAN /\ (v.safe => r_chain.safe)
      BY DEF R!Views, RelayInv, RelaySafe
    <3>2. CASE R!End(c)
      BY <2>5, <3>2, EndTurns, RequestTurns DEF Meant, RelayInv
    <3>3. CASE R!Cold(c, w.signer, v.safe) /\ (v.safe \/ R!Predicted)
      <4>1. Turned(c, "cold", v.safe)
        BY <3>1, <3>3, ColdTurns
      <4>2. Meant("cold", v.safe, r_chain)
        BY <3>1, <3>3 DEF Meant
      <4> QED BY <2>5, <4>1, <4>2, RequestTurns DEF RelayInv
    <3> QED BY <2>5, <3>2, <3>3 DEF R!ColdOrRefused
  <2>6. ASSUME NEW c \in Tabs, R!Preflight(c) PROVE RelayInv'
    <3>1. PICK v \in R!Views, w \in R!Views :
                IF R!HasCode(v) THEN R!Go(c, "hot") ELSE R!ColdOrRefused(c, w.signer, FALSE)
      BY <2>6 DEF R!Preflight
    <3>2. R!Still /\ UNCHANGED <<r_txs, r_used, r_created, r_faults>>
      BY <2>6 DEF R!Preflight
    <3>3. CASE v.safe
      <4>1. Turned(c, "hot", r_req[c].skipSafe)
        BY <3>1, <3>3, GoTurns DEF R!HasCode, Places
      <4>2. Meant("hot", r_req[c].skipSafe, r_chain)
        BY <3>3 DEF Meant, R!Views, RelayInv
      <4> QED BY <3>2, <4>1, <4>2, RequestTurns DEF RelayInv
    <3>4. CASE ~v.safe
      <4>1. v.safe = FALSE
        BY <3>4 DEF R!Views, RelayInv, RelaySafe
      <4> QED BY <2>5, <3>1, <3>2, <3>4, <4>1 DEF R!HasCode
    <3> QED BY <3>3, <3>4
  <2>7. ASSUME NEW c \in Tabs, R!SendHotPath(c) PROVE RelayInv'
    <3>1. /\ R!Tx(c, "hot") \in RelayTx /\ R!Tx(c, "hot").st = "pending"
          /\ Meant(R!Tx(c, "hot").path, R!Tx(c, "hot").skipSafe, r_chain)
      BY <2>7, TxOfRequest DEF R!SendHotPath, R!At, RelayInv, Meant
    <3>2. PICK at \in {"bump", "recheck"} : R!Go(c, at)
      BY <2>7 DEF R!SendHotPath
    <3>3. Turned(c, at, r_req[c].skipSafe) /\ Meant(at, r_req[c].skipSafe, r_chain)
      BY <3>2, GoTurns DEF Places, Meant
    <3>4. /\ R!Still /\ UNCHANGED <<r_used, r_created>>
          /\ UNCHANGED r_txs \/ R!Broadcast(R!Tx(c, "hot"))
      BY <2>7 DEF R!SendHotPath
    <3> QED BY <3>1, <3>3, <3>4, RequestTurns DEF RelayInv
  <2>8. ASSUME NEW c \in Tabs, R!Recheck(c) PROVE RelayInv'
    <3>1. PICK v \in R!Views, w \in R!Views :
                IF v.safe /\ w.signer THEN R!End(c) ELSE R!ColdOrRefused(c, w.signer, v.safe)
      BY <2>8 DEF R!Recheck
    <3>2. R!Still /\ UNCHANGED <<r_txs, r_used, r_created, r_faults>>
      BY <2>8 DEF R!Recheck
    <3>3. CASE R!End(c)
      BY <3>2, <3>3, EndTurns, RequestTurns DEF Meant, RelayInv
    <3> QED BY <2>5, <3>1, <3>2, <3>3
  <2>9. ASSUME NEW c \in Tabs, R!SendColdPath(c) PROVE RelayInv'
    <3>1. /\ R!Tx(c, "cold") \in RelayTx /\ R!Tx(c, "cold").st = "pending"
          /\ Meant(R!Tx(c, "cold").path, R!Tx(c, "cold").skipSafe, r_chain)
      BY <2>9, TxOfRequest DEF R!SendColdPath, R!At, RelayInv, Meant
    <3>2. R!Go(c, "bump") \/ R!End(c)
      BY <2>9 DEF R!SendColdPath
    <3>3. \E at \in {"bump", "idle"} : \E skip : Turned(c, at, skip) /\ Meant(at, skip, r_chain)
      BY <3>2, GoTurns, EndTurns DEF Places, Meant
    <3>4. /\ R!Still /\ UNCHANGED <<r_used, r_created>>
          /\ UNCHANGED r_txs \/ R!Broadcast(R!Tx(c, "cold"))
      BY <2>9 DEF R!SendColdPath
    <3> QED BY <3>1, <3>3, <3>4, RequestTurns DEF RelayInv
  <2>10. ASSUME NEW c \in Tabs, R!Bump(c) PROVE RelayInv'
    <3>1. r_used' \in Nat
      BY <2>10 DEF R!Bump, RelayInv, RelayRequest
    <3> QED BY <2>10, <3>1, EndTurns, RequestTurns DEF R!Bump, Meant
  <2>11. ASSUME NEW c \in Tabs, R!Create(c) PROVE RelayInv'
    BY <2>11, GoTurns, RequestTurns DEF R!Create, Meant, RelayInv, Places
  <2>12. ASSUME NEW c \in Tabs, R!BootstrapDeploy(c) PROVE RelayInv'
    <3>1. CASE R!End(c) /\ r_created' = "failed" /\ UNCHANGED r_txs
      <4>1. R!Still /\ UNCHANGED r_used /\ r_used \in Nat
        BY <2>12 DEF R!BootstrapDeploy, RelayInv
      <4> QED BY <3>1, <4>1, EndTurns, RequestTurns DEF Meant
    <3>2. CASE r_req' = [r_req EXCEPT ![c].at = "receipt", ![c].used = r_used] /\ R!Broadcast(R!Tx(c, "boot"))
               /\ UNCHANGED r_created
      <4> DEFINE q == [[r_req[c] EXCEPT !.at = "receipt"] EXCEPT !.used = r_used]
      <4>1. r_req' = [r_req EXCEPT ![c] = q] /\ r_req[c] \in RelayRequest
        BY <3>2 DEF RelayInv
      <4>2. q \in RelayRequest /\ q.at = "receipt" /\ q.skipSafe = r_req[c].skipSafe
        BY <4>1 DEF RelayInv, RelayRequest
      <4>3. Turned(c, "receipt", r_req[c].skipSafe) /\ Meant("receipt", r_req[c].skipSafe, r_chain)
        BY <4>1, <4>2 DEF Turned, Meant
      <4>4. /\ R!Tx(c, "boot") \in RelayTx /\ R!Tx(c, "boot").st = "pending"
            /\ Meant(R!Tx(c, "boot").path, R!Tx(c, "boot").skipSafe, r_chain)
        BY TxOfRequest DEF Meant
      <4> QED BY <2>12, <3>2, <4>3, <4>4, RequestTurns DEF R!BootstrapDeploy, RelayInv
    <3> QED BY <2>12, <3>1, <3>2 DEF R!BootstrapDeploy
  <2>13. ASSUME NEW c \in Tabs, R!AwaitReceipt(c) PROVE RelayInv'
    <3>1. R!Confirmed(c) => Ours(r_chain)
      BY DEF R!Confirmed, R!OwnTx, RelayInv
    <3>2. r_used' \in Nat
      BY <2>13 DEF R!AwaitReceipt, RelayInv, RelayRequest
    <3> QED BY <2>13, <3>1, <3>2, EndTurns, RequestTurns DEF R!AwaitReceipt, Meant
  <2>14. ASSUME R!CatchUp PROVE RelayInv'
    BY <2>14 DEF R!CatchUp, RelayInv, Meant, R!Predicted, Ours, R!RevealedIsOwned
  <2>15. ASSUME R!RaiseThreshold PROVE RelayInv'
    <3> DEFINE n == r_chain.nonce + 1
    <3>1. r_chain' = [[r_chain EXCEPT !.threshold = 2] EXCEPT !.nonce = n] /\ r_chain \in RelaySafe /\ n \in Nat
      BY <2>15 DEF R!RaiseThreshold, RelayInv, RelaySafe
    <3> HIDE DEF n
    <3>2. /\ r_chain' \in RelaySafe /\ r_chain'.safe = r_chain.safe /\ r_chain'.owner = r_chain.owner
          /\ r_chain'.signer = r_chain.signer
      BY <3>1 DEF RelaySafe
    <3>3. r_lagged' = r_chain /\ UNCHANGED <<r_kind, r_txs, r_req, r_used, r_created>>
      BY <2>15 DEF R!RaiseThreshold
    <3> QED BY <3>2, <3>3 DEF RelayInv, Meant, R!Predicted, Ours, R!RevealedIsOwned
  <2>16. \A i \in 1..Len(r_txs) : i \in DOMAIN r_txs
    BY DEF RelayInv
  <2> QED BY <1>1, <2>1, <2>2, <2>3, <2>4, <2>6, <2>7, <2>8, <2>9, <2>10, <2>11, <2>12, <2>13, <2>14, <2>15,
             <2>16, RelayMined DEF RelayStep, R!Next, R!Request, R!Serve
<1>2. CASE UNCHANGED r_all
  BY <1>2 DEF r_all, RelayInv, Meant, R!Predicted, Ours, R!RevealedIsOwned
<1> QED BY <1>1, <1>2 DEF Next, all, AccountsStep, EmbedStep, CeremonyStep, CardsStep,
                          DonationsStep, RecoveryStep, ReceiptsStep

LEMMA RelayInvInit == Init => RelayInv
<1> SUFFICES ASSUME Init PROVE RelayInv
  OBVIOUS
<1>1. /\ r_chain = [safe |-> FALSE, owner |-> FALSE, signer |-> r_kind = "derived",
                    nonce |-> 0, threshold |-> 1, strays |-> 0]
      /\ r_lagged = r_chain /\ r_txs = <<>> /\ r_used = 0
      /\ r_created = IF r_kind = "bootstrap" THEN "no" ELSE "revealed"
      /\ r_req = [c \in Tabs |-> R!Idle]
  BY DEF Init, R!Init
<1>2. r_chain \in RelaySafe
  BY <1>1 DEF RelaySafe
<1>3. \A c \in Tabs : r_req[c].at = "idle"
  BY <1>1, IdleIsRequest
<1> QED BY <1>1, <1>2, <1>3, IdleIsRequest DEF RelayInv, Meant, R!RevealedIsOwned

-----------------------------------------------------------------------------
(* The donations *)

\* Blocks that a run may hand to the receiver.
Told(found, chain, latest) == found \subseteq {b \in N!Blocks : b <= latest /\ ~ chain[b].rail}

\* A run knows the Safes whose donations it must find, and has found, or the
\* receiver has taken, those of the blocks it has passed.
RunSound(t, chain, latest, start, credited) ==
  /\ t.pc \in {"idle", "head", "cursor", "scan", "post", "put"}
  /\ t.pc \in {"head", "cursor", "scan"} => \A b \in N!Blocks : chain[b].due => chain[b].to \in t.watch
  /\ t.pc \in {"cursor", "scan"} => t.head \in Nat /\ t.head <= latest
  /\ t.pc = "scan" =>
       /\ t.from \in Nat \ {0} /\ t.from <= t.head /\ Told(t.found, chain, latest)
       /\ \A b \in N!Blocks : chain[b].due /\ start <= b /\ b < t.from => b \in credited \cup t.found
  /\ t.pc \in {"post", "put"} => t.end \in Nat /\ t.end <= latest
  /\ t.pc = "post" =>
       /\ Told(t.found, chain, latest)
       /\ \A b \in N!Blocks : chain[b].due /\ start <= b /\ b <= t.end => b \in credited \cup t.found
  /\ t.pc = "put" => \A b \in N!Blocks : chain[b].due /\ start <= b /\ b <= t.end => b \in credited

\* What the chain has is settled: a donation that is due is in a block of the past.
ChainSound ==
  /\ n_chain = [b \in N!Blocks |-> n_chain[b]] /\ n_latest \in 0..MaxBlock
  /\ \A b \in N!Blocks :
       n_chain[b].due => b <= n_latest /\ ~ n_chain[b].rail /\ n_chain[b].to \in n_watchlist

DonationsInv ==
  /\ ChainSound
  /\ n_start \in Nat /\ Told(n_credited, n_chain, n_latest)
  /\ n_run = [r \in Runs |-> n_run[r]]
  /\ \A r \in Runs : RunSound(n_run[r], n_chain, n_latest, n_start, n_credited)
  /\ n_cursors \subseteq 0..n_latest
  /\ N!DonationsAreTold

\* The run moves, and what the receiver has taken stays taken.
LEMMA RunMoves ==
  ASSUME DonationsInv, NEW r \in Runs, NEW t, N!Goes(r, t), UNCHANGED <<n_chain, n_latest, n_watchlist>>,
         n_start' \in Nat, n_start <= n_start',
         n_credited \subseteq n_credited', Told(n_credited', n_chain, n_latest),
         RunSound(t, n_chain, n_latest, n_start', n_credited'),
         n_cursors' \subseteq 0..n_latest,
         \A c \in n_cursors' \ n_cursors : \A b \in N!Blocks :
            n_start' <= b /\ b <= c /\ n_chain[b].due => b \in n_credited'
  PROVE  DonationsInv'
<1>1. /\ n_run' = [q \in Runs |-> n_run'[q]] /\ n_run'[r] = t
      /\ \A q \in Runs \ {r} : n_run'[q] = n_run[q]
  BY DEF N!Goes, DonationsInv
<1>2. ASSUME NEW q \in Runs \ {r}
      PROVE  RunSound(n_run[q], n_chain, n_latest, n_start', n_credited')
  <2>1. RunSound(n_run[q], n_chain, n_latest, n_start, n_credited)
    BY DEF DonationsInv
  <2>2. \A b \in N!Blocks : n_start' <= b => n_start <= b
    BY DEF DonationsInv, N!Blocks
  <2> QED BY <2>1, <2>2 DEF RunSound
<1>3. \A q \in Runs : RunSound(n_run'[q], n_chain', n_latest', n_start', n_credited')
  BY <1>1, <1>2
<1>4. N!DonationsAreTold'
  <2>1. \A b \in N!Blocks : n_start' <= b => n_start <= b
    BY DEF DonationsInv, N!Blocks
  <2> QED BY <2>1 DEF DonationsInv, N!DonationsAreTold, Told
<1>5. ChainSound' /\ Told(n_credited', n_chain', n_latest')
  BY DEF DonationsInv, ChainSound
<1> QED BY <1>1, <1>3, <1>4, <1>5 DEF DonationsInv

\* A run begins after the cursor, so all that is due up to there has been taken.
LEMMA RunBegins ==
  ASSUME DonationsInv, NEW r \in Runs, n_run[r].pc = "cursor", NEW from \in Nat \ {0}, N!Begins(r, from),
         UNCHANGED <<n_chain, n_latest, n_watchlist, n_cursors, n_credited>>, n_start' \in Nat, n_start <= n_start',
         \A b \in N!Blocks : n_chain[b].due /\ n_start' <= b /\ b < from => b \in n_credited
  PROVE  DonationsInv'
<1>1. RunSound(n_run[r], n_chain, n_latest, n_start, n_credited) /\ n_cursors \subseteq 0..n_latest
      /\ Told(n_credited, n_chain, n_latest)
  BY DEF DonationsInv
<1>2. CASE from > n_run[r].head
  <2>1. N!Goes(r, N!Resting) /\ N!Resting.pc = "idle"
    BY <1>2 DEF N!Begins, N!Resting
  <2>2. RunSound(N!Resting, n_chain, n_latest, n_start', n_credited')
    BY <2>1 DEF RunSound
  <2> QED BY <1>1, <2>1, <2>2, RunMoves
<1>3. CASE ~(from > n_run[r].head)
  <2> DEFINE t == [pc |-> "scan", watch |-> n_run[r].watch, head |-> n_run[r].head,
                   from |-> from, chunks |-> 0, found |-> {}]
  <2>1. N!Goes(r, t)
    BY <1>3 DEF N!Begins
  <2>2. RunSound(t, n_chain, n_latest, n_start', n_credited')
    BY <1>1, <1>3 DEF RunSound, Told
  <2> HIDE DEF t
  <2> QED BY <1>1, <2>1, <2>2, RunMoves
<1> QED BY <1>2, <1>3

LEMMA DonationsInvStep == DonationsInv /\ [Next]_all => DonationsInv'
<1> SUFFICES ASSUME DonationsInv, [Next]_all PROVE DonationsInv'
  OBVIOUS
<1> USE DEF N!outside
<1>0. /\ n_start \in Nat /\ n_start <= n_start /\ Told(n_credited, n_chain, n_latest)
      /\ n_cursors \subseteq 0..n_latest /\ n_latest \in Nat /\ MaxBlock \in Nat /\ ChainSound
      /\ \A r \in Runs : RunSound(n_run[r], n_chain, n_latest, n_start, n_credited)
  BY WalletAssumption DEF DonationsInv, ChainSound, N!DonationsAssumption
<1>1. CASE DonationsStep
  <2>1. ASSUME NEW r \in Runs, N!FetchWatchlist(r) PROVE DonationsInv'
    <3> DEFINE t == [pc |-> "head", watch |-> n_watchlist]
    <3>1. RunSound(t, n_chain, n_latest, n_start, n_credited)
      BY <1>0 DEF RunSound, ChainSound
    <3>2. N!Goes(r, t) /\ UNCHANGED <<n_chain, n_latest, n_watchlist, n_cursors, n_start, n_credited>>
      BY <2>1 DEF N!FetchWatchlist
    <3> HIDE DEF t
    <3> QED BY <1>0, <3>1, <3>2, RunMoves
  <2>2. ASSUME NEW r \in Runs, N!GetBlockNumber(r) PROVE DonationsInv'
    <3> DEFINE t == [pc |-> "cursor", watch |-> n_run[r].watch, head |-> n_latest]
    <3>1. RunSound(t, n_chain, n_latest, n_start, n_credited)
      BY <1>0, <2>2 DEF RunSound, N!GetBlockNumber
    <3>2. N!Goes(r, t) /\ UNCHANGED <<n_chain, n_latest, n_watchlist, n_cursors, n_start, n_credited>>
      BY <2>2 DEF N!GetBlockNumber
    <3> HIDE DEF t
    <3> QED BY <1>0, <3>1, <3>2, RunMoves
  <2>3. ASSUME NEW r \in Runs, N!ReadCursor(r) PROVE DonationsInv'
    <3>1. n_run[r].pc = "cursor" /\ UNCHANGED <<n_chain, n_latest, n_watchlist, n_cursors, n_credited>>
      BY <2>3 DEF N!ReadCursor
    <3>2. ASSUME NEW c \in n_cursors, N!Begins(r, c + 1), UNCHANGED n_start PROVE DonationsInv'
      <4>1. c \in Nat /\ c + 1 \in Nat \ {0}
        BY <1>0
      <4>2. \A b \in N!Blocks : n_chain[b].due /\ n_start <= b /\ b < c + 1 => b \in n_credited
        BY <4>1 DEF DonationsInv, N!DonationsAreTold, N!Blocks
      <4> QED BY <1>0, <3>1, <3>2, <4>1, <4>2, RunBegins
    <3>3. ASSUME NEW from, from = IF n_run[r].head > Lookback THEN n_run[r].head - Lookback ELSE 1,
                 N!Begins(r, from), n_start' = IF from > n_start THEN from ELSE n_start
          PROVE  DonationsInv'
      <4>1. n_run[r].head \in Nat /\ Lookback \in Nat
        BY <1>0, <3>1, WalletAssumption DEF RunSound, N!DonationsAssumption
      <4>2. from \in Nat \ {0}
        BY <4>1, <3>3
      <4>3. n_start' \in Nat /\ n_start <= n_start' /\ from <= n_start'
        BY <1>0, <3>3, <4>2
      <4>4. \A b \in N!Blocks : ~(n_start' <= b /\ b < from)
        BY <4>2, <4>3 DEF N!Blocks
      <4> QED BY <3>1, <3>3, <4>2, <4>3, <4>4, RunBegins
    <3> QED BY <2>3, <3>2, <3>3 DEF N!ReadCursor
  <2>4. ASSUME NEW r \in Runs, N!GetLogs(r) PROVE DonationsInv'
    <3> DEFINE t == n_run[r]
               to == N!Lesser(t.from + Chunk - 1, t.head)
               found == t.found \cup {b \in t.from..to : N!Donation(r, b)}
    <3>1. t.pc = "scan" /\ RunSound(t, n_chain, n_latest, n_start, n_credited)
      BY <1>0, <2>4 DEF N!GetLogs
    <3>2. t.from \in Nat \ {0} /\ t.head \in Nat /\ t.from <= t.head /\ t.head <= n_latest /\ Chunk \in Nat \ {0}
      BY <3>1, WalletAssumption DEF RunSound, N!DonationsAssumption
    <3>3. to \in Nat /\ t.from <= to /\ to <= t.head
      BY <3>2 DEF N!Lesser
    <3> HIDE DEF to
    <3>4. Told(found, n_chain, n_latest)
      <4>1. \A b \in t.from..to : b \in N!Blocks /\ b <= n_latest
        BY <1>0, <3>2, <3>3 DEF N!Blocks, ChainSound
      <4> QED BY <3>1, <4>1 DEF RunSound, Told, N!Donation
    <3>5. \A b \in N!Blocks : n_chain[b].due /\ n_start <= b /\ b <= to => b \in n_credited \cup found
      <4> SUFFICES ASSUME NEW b \in N!Blocks, n_chain[b].due, n_start <= b, b <= to
                   PROVE  b \in n_credited \cup found
        OBVIOUS
      <4>1. CASE b < t.from
        BY <3>1, <4>1 DEF RunSound
      <4>2. CASE ~(b < t.from)
        <5>1. b \in t.from..to
          BY <3>2, <3>3, <4>2 DEF N!Blocks
        <5>2. N!Donation(r, b)
          BY <1>0, <3>1 DEF RunSound, N!Donation, ChainSound
        <5> QED BY <5>1, <5>2
      <4> QED BY <4>1, <4>2
    <3>6. \/ to < t.head /\ N!Goes(r, [t EXCEPT !.from = to + 1, !.chunks = @ + 1, !.found = found])
          \/ N!Goes(r, [pc |-> IF found = {} THEN "put" ELSE "post", found |-> found, end |-> to])
      BY <2>4 DEF N!GetLogs, to
    <3>7. UNCHANGED <<n_chain, n_latest, n_watchlist, n_cursors, n_start, n_credited>>
      BY <2>4 DEF N!GetLogs
    <3>8. CASE to < t.head /\ N!Goes(r, [t EXCEPT !.from = to + 1, !.chunks = @ + 1, !.found = found])
      <4> DEFINE n == to + 1
                 k == t.chunks + 1
                 u == [t EXCEPT !.from = n, !.chunks = k, !.found = found]
      <4>1. n \in Nat \ {0} /\ n <= t.head /\ \A b \in N!Blocks : b < n => b <= to
        BY <3>2, <3>3, <3>8 DEF N!Blocks
      <4>2. N!Goes(r, u)
        BY <3>8
      <4> HIDE DEF n, k, found
      <4>3. RunSound(u, n_chain, n_latest, n_start, n_credited)
        BY <3>1, <3>4, <3>5, <4>1 DEF RunSound
      <4> HIDE DEF u
      <4> QED BY <1>0, <3>7, <4>2, <4>3, RunMoves
    <3>9. CASE N!Goes(r, [pc |-> IF found = {} THEN "put" ELSE "post", found |-> found, end |-> to])
      <4> HIDE DEF found
      <4> DEFINE u == [pc |-> IF found = {} THEN "put" ELSE "post", found |-> found, end |-> to]
      <4>1. u.pc \in {"post", "put"} /\ u.found = found /\ u.end = to /\ (u.pc = "put" => found = {})
        OBVIOUS
      <4>2. to \in Nat /\ to <= n_latest
        BY <1>0, <3>2, <3>3
      <4>4. N!Goes(r, u)
        BY <3>9
      <4> HIDE DEF u
      <4>3. RunSound(u, n_chain, n_latest, n_start, n_credited)
        BY <3>4, <3>5, <4>1, <4>2 DEF RunSound
      <4> QED BY <1>0, <3>7, <4>3, <4>4, RunMoves
    <3> QED BY <3>6, <3>8, <3>9
  <2>5. ASSUME NEW r \in Runs, N!Goes(r, N!Resting), UNCHANGED <<n_chain, n_latest, n_watchlist, n_cursors, n_start>>,
               n_credited \subseteq n_credited', Told(n_credited', n_chain, n_latest)
        PROVE  DonationsInv'
    <3>1. RunSound(N!Resting, n_chain, n_latest, n_start, n_credited')
      BY DEF RunSound, N!Resting
    <3> QED BY <1>0, <2>5, <3>1, RunMoves
  <2>6. ASSUME NEW r \in Runs, N!Post(r) PROVE DonationsInv'
    <3>1. /\ n_run[r].pc = "post" /\ n_credited' = n_credited \cup n_run[r].found
          /\ UNCHANGED <<n_chain, n_latest, n_watchlist, n_cursors, n_start>>
          /\ RunSound(n_run[r], n_chain, n_latest, n_start, n_credited)
      BY <1>0, <2>6 DEF N!Post
    <3>2. n_credited \subseteq n_credited' /\ Told(n_credited', n_chain, n_latest)
      BY <1>0, <3>1 DEF RunSound, Told
    <3>3. CASE N!Goes(r, [n_run[r] EXCEPT !.pc = "put"])
      <4> DEFINE u == [n_run[r] EXCEPT !.pc = "put"]
      <4>1. u.pc = "put" /\ u.end = n_run[r].end
        BY <3>1 DEF RunSound
      <4>2. RunSound(u, n_chain, n_latest, n_start, n_credited')
        BY <3>1, <4>1 DEF RunSound
      <4> HIDE DEF u
      <4> QED BY <1>0, <3>1, <3>2, <3>3, <4>2, RunMoves DEF u
    <3> QED BY <2>5, <2>6, <3>1, <3>2, <3>3 DEF N!Post
  <2>7. ASSUME NEW r \in Runs, N!PutCursor(r) PROVE DonationsInv'
    <3>1. /\ n_run[r].pc = "put" /\ n_cursors' = n_cursors \cup {n_run[r].end} /\ N!Goes(r, N!Resting)
          /\ UNCHANGED <<n_chain, n_latest, n_watchlist, n_start, n_credited>>
          /\ RunSound(n_run[r], n_chain, n_latest, n_start, n_credited)
      BY <1>0, <2>7 DEF N!PutCursor
    <3>2. RunSound(N!Resting, n_chain, n_latest, n_start, n_credited)
      BY DEF RunSound, N!Resting
    <3>3. n_cursors' \subseteq 0..n_latest
      <4>1. n_run[r].end \in Nat /\ n_run[r].end <= n_latest
        BY <3>1 DEF RunSound
      <4>2. n_cursors \subseteq 0..n_latest /\ n_latest \in Nat
        BY <1>0
      <4>3. n_run[r].end \in 0..n_latest
        BY <4>1, <4>2
      <4>4. n_cursors' = n_cursors \cup {n_run[r].end}
        BY <3>1
      <4> QED BY <4>2, <4>3, <4>4
    <3>4. \A b \in N!Blocks : n_start <= b /\ b <= n_run[r].end /\ n_chain[b].due => b \in n_credited
      BY <3>1 DEF RunSound
    <3>5. \A c \in n_cursors' \ n_cursors : \A b \in N!Blocks :
            n_start' <= b /\ b <= c /\ n_chain[b].due => b \in n_credited'
      BY <3>1, <3>4
    <3>6. /\ n_start' \in Nat /\ n_start <= n_start' /\ n_credited \subseteq n_credited'
          /\ Told(n_credited', n_chain, n_latest)
          /\ RunSound(N!Resting, n_chain, n_latest, n_start', n_credited')
      BY <1>0, <3>1, <3>2
    <3> QED BY <3>1, <3>3, <3>5, <3>6, RunMoves
  <2>8. ASSUME NEW r \in Runs, N!Fail(r) PROVE DonationsInv'
    BY <1>0, <2>5, <2>8 DEF N!Fail
  <2>9. ASSUME NEW s \in Payees, N!Launch(s) PROVE DonationsInv'
    BY <2>9 DEF N!Launch, DonationsInv, ChainSound, N!DonationsAreTold
  <2>10. ASSUME NEW s \in Payees, NEW rail \in BOOLEAN, N!Transfer(s, rail) PROVE DonationsInv'
    <3> DEFINE n == n_latest + 1
               x == [to |-> s, rail |-> rail,
                     due |-> /\ s \in n_watchlist /\ ~ rail
                             /\ \A r \in Runs : n_run[r].pc \in {"idle", "post", "put"} \/ s \in n_run[r].watch]
    <3>1. /\ n \in N!Blocks /\ n_latest < n /\ n_latest' = n /\ n_chain' = [n_chain EXCEPT ![n] = x]
          /\ UNCHANGED <<n_watchlist, n_cursors, n_run, n_start, n_credited>>
      BY <1>0, <2>10 DEF N!Transfer, N!Blocks
    <3>2. /\ n_chain' = [b \in N!Blocks |-> n_chain'[b]] /\ n_chain'[n] = x
          /\ \A b \in N!Blocks \ {n} : n_chain'[b] = n_chain[b]
      BY <1>0, <3>1 DEF ChainSound
    <3>3. /\ x.to = s
          /\ x.due => /\ s \in n_watchlist /\ ~ x.rail
                      /\ \A r \in Runs : n_run[r].pc \in {"idle", "post", "put"} \/ s \in n_run[r].watch
      OBVIOUS
    <3> HIDE DEF x
    <3>4. n \in Nat /\ n \in 0..MaxBlock /\ \A b \in 0..n_latest : b < n /\ b # n /\ b <= n
      BY <1>0, <3>1 DEF N!Blocks
    <3> HIDE DEF n
    <3>5. ChainSound'
      BY <1>0, <3>1, <3>2, <3>3, <3>4 DEF ChainSound, N!Blocks
    <3>6. \A found : Told(found, n_chain, n_latest) => Told(found, n_chain', n_latest')
      <4> SUFFICES ASSUME NEW found, Told(found, n_chain, n_latest), NEW b \in found
                   PROVE  b \in N!Blocks /\ b <= n_latest' /\ ~ n_chain'[b].rail
        BY DEF Told
      <4>1. b \in N!Blocks /\ b <= n_latest /\ ~ n_chain[b].rail
        BY DEF Told
      <4>2. b \in 0..n_latest
        BY <1>0, <4>1 DEF N!Blocks
      <4> QED BY <3>1, <3>2, <3>4, <4>1, <4>2
    <3>7. ASSUME NEW r \in Runs PROVE RunSound(n_run[r], n_chain', n_latest', n_start, n_credited)
      <4> DEFINE t == n_run[r]
      <4>1. RunSound(t, n_chain, n_latest, n_start, n_credited)
        BY <1>0
      <4>2. t.pc \in {"head", "cursor", "scan"} => \A b \in N!Blocks : n_chain'[b].due => n_chain'[b].to \in t.watch
        BY <3>2, <3>3, <4>1 DEF RunSound
      <4>3. t.pc \in {"cursor", "scan"} => t.head \in Nat /\ t.head <= n_latest'
        BY <1>0, <3>1, <3>4, <4>1 DEF RunSound
      <4>4. t.pc \in {"post", "put"} => t.end \in Nat /\ t.end <= n_latest'
        BY <1>0, <3>1, <3>4, <4>1 DEF RunSound
      <4>5. \A b \in N!Blocks, m \in Nat : b <= m /\ m <= n_latest => n_chain'[b] = n_chain[b]
        BY <1>0, <3>2, <3>4 DEF N!Blocks
      <4>6. t.pc = "scan" => /\ Told(t.found, n_chain', n_latest') /\ t.from \in Nat \ {0} /\ t.from <= t.head
                             /\ \A b \in N!Blocks : n_chain'[b].due /\ n_start <= b /\ b < t.from
                                  => b \in n_credited \cup t.found
        <5> SUFFICES ASSUME t.pc = "scan"
                     PROVE  /\ Told(t.found, n_chain', n_latest') /\ t.from \in Nat \ {0} /\ t.from <= t.head
                            /\ \A b \in N!Blocks : n_chain'[b].due /\ n_start <= b /\ b < t.from
                                 => b \in n_credited \cup t.found
          OBVIOUS
        <5>1. t.from \in Nat \ {0} /\ t.from <= t.head /\ t.head \in Nat /\ t.head <= n_latest
          BY <4>1 DEF RunSound
        <5>2. \A b \in N!Blocks : b < t.from => b <= t.head
          BY <5>1 DEF N!Blocks
        <5>3. \A b \in N!Blocks : b < t.from => n_chain'[b] = n_chain[b]
          BY <4>5, <5>1, <5>2
        <5> QED BY <3>6, <4>1, <5>3 DEF RunSound
      <4>7. t.pc = "post" => /\ Told(t.found, n_chain', n_latest')
                             /\ \A b \in N!Blocks : n_chain'[b].due /\ n_start <= b /\ b <= t.end
                                  => b \in n_credited \cup t.found
        BY <3>6, <4>1, <4>5 DEF RunSound
      <4>8. t.pc = "put" => \A b \in N!Blocks : n_chain'[b].due /\ n_start <= b /\ b <= t.end => b \in n_credited
        BY <4>1, <4>5 DEF RunSound
      <4> QED BY <4>1, <4>2, <4>3, <4>4, <4>6, <4>7, <4>8 DEF RunSound
    <3>8. N!DonationsAreTold'
      <4>1. \A c \in n_cursors, b \in N!Blocks : b <= c => n_chain'[b] = n_chain[b]
        BY <1>0, <3>2, <3>4 DEF N!Blocks
      <4>2. Told(n_credited, n_chain', n_latest')
        BY <1>0, <3>6
      <4> QED BY <3>1, <4>1, <4>2 DEF DonationsInv, N!DonationsAreTold, Told
    <3>9. n_cursors \subseteq 0..n_latest'
      BY <1>0, <3>1, <3>4
    <3>10. Told(n_credited, n_chain', n_latest')
      BY <1>0, <3>6
    <3> QED BY <1>0, <3>1, <3>5, <3>7, <3>8, <3>9, <3>10 DEF DonationsInv
  <2> QED BY <1>1, <2>1, <2>2, <2>3, <2>4, <2>6, <2>7, <2>8, <2>9, <2>10
          DEF DonationsStep, N!Next, N!ScanOnchainDonations
<1>2. CASE UNCHANGED n_all
  BY <1>2 DEF n_all, DonationsInv, ChainSound, N!DonationsAreTold
<1> QED BY <1>1, <1>2 DEF Next, all, RelayStep, AccountsStep, EmbedStep, CeremonyStep, CardsStep,
                          RecoveryStep, ReceiptsStep

LEMMA DonationsInvInit == Init => DonationsInv
<1> SUFFICES ASSUME Init PROVE DonationsInv
  OBVIOUS
<1>1. /\ n_chain = [b \in N!Blocks |-> [to |-> "none", rail |-> FALSE, due |-> FALSE]]
      /\ n_latest = 0 /\ n_cursors = {} /\ n_start = 0 /\ n_credited = {}
      /\ n_run = [r \in Runs |-> N!Resting]
  BY DEF Init, N!Init
<1>2. ChainSound
  BY <1>1, WalletAssumption DEF ChainSound, N!DonationsAssumption
<1>3. RunSound(N!Resting, n_chain, n_latest, n_start, n_credited)
  BY DEF RunSound, N!Resting
<1> QED BY <1>1, <1>2, <1>3 DEF DonationsInv, Told, N!DonationsAreTold

\* Whatever nodes lag, calls fail and pages close, the money of the wallet's
\* Safes, of the campaigns and of a recovered Safe is where it was meant to be.
THEOREM MoneyStays == Spec => []MoneyIsNotLost
<1>1. Init => RelayInv /\ DonationsInv /\ RecoveryInv
  BY RelayInvInit, DonationsInvInit, RecoveryInvInit
<1>2. RelayInv /\ DonationsInv /\ RecoveryInv /\ [Next]_all => RelayInv' /\ DonationsInv' /\ RecoveryInv'
  BY RelayInvStep, DonationsInvStep, RecoveryInvStep
<1>3. RelayInv /\ DonationsInv /\ RecoveryInv => MoneyIsNotLost
  <2>1. RelayInv => R!NothingIsStranded
    <3> SUFFICES ASSUME RelayInv PROVE R!NothingIsStranded
      OBVIOUS
    <3>1. \A i \in 1..Len(r_txs) : r_txs[i] \in RelayTx
      BY DEF RelayInv
    <3>2. \A i \in 1..Len(r_txs) : r_txs[i].st # "noop"
      BY <3>1 DEF RelayTx
    <3>3. r_chain.strays = 0
      BY DEF RelayInv, RelaySafe
    <3> QED BY <3>2, <3>3 DEF R!NothingIsStranded
  <2>2. RecoveryInv => V!DoneIsMoved
    <3> SUFFICES ASSUME RecoveryInv, NEW i \in DOMAIN v_txs
                 PROVE  v_txs[i].st # "noop" /\ (v_txs[i].st = "reverted" => v_chain[v_txs[i].safe].nonce > 0)
      BY DEF V!DoneIsMoved
    <3>1. v_txs[i] \in RecoveryTx
      BY DEF RecoveryInv
    <3>2. v_txs[i].st = "reverted" => v_chain[v_txs[i].safe].nonce = 1
      BY DEF RecoveryInv
    <3>3. v_txs[i].st # "noop"
      BY <3>1 DEF RecoveryTx
    <3> QED BY <3>2, <3>3
  <2>3. RelayInv => R!RevealedIsOwned
    BY DEF RelayInv
  <2>4. DonationsInv => N!DonationsAreTold
    BY DEF DonationsInv
  <2> QED BY <2>1, <2>2, <2>3, <2>4 DEF MoneyIsNotLost
<1> QED BY <1>1, <1>2, <1>3, PTL DEF Spec

-----------------------------------------------------------------------------
(* The keys of receipts *)

PagePlaces == {"closed", "offer", "asking", "created", "refused", "ready", "stuck",
               "checkout", "loading", "shown", "failed"}
ReceiptTab == [at : PagePlaces, sid : Sids \cup {Plain}, key : Sids \cup {Plain}, lazy : BOOLEAN]

\* The sids whose key is where it should be: those in storage, or any, when the browser
\* does not save or has thrown its storage away.
Kept == IF k_storable /\ ~ k_cleared THEN k_stored ELSE Sids \cup {Plain}

\* A tab that asks for an intent has its key saved; one that asks for a receipt has the
\* key of that sid, or none.
TabSound(p, kept, lost) ==
  /\ p.at = "asking" => p.sid \in kept
  /\ p.at \in {"loading", "shown"} => p.sid # Plain /\ p.key \in {Plain, p.sid}
  /\ p.at = "shown" => p.lazy = (p.key = p.sid)
  /\ p.at = "failed" => lost > 0

KeysInv ==
  /\ k_page \in [Forms -> ReceiptTab] /\ k_losses \in Nat
  /\ k_made \subseteq Sids /\ k_intents \subseteq Sids \cup {Plain}
  /\ \A t \in Forms : TabSound(k_page[t], Kept, k_losses)
  /\ K!KeyOutlivesPayment

\* A tab goes to a sound place; what is in storage is not lost meanwhile.
LEMMA TabGoes ==
  ASSUME KeysInv, NEW t \in Forms, NEW p \in ReceiptTab, k_page' = [k_page EXCEPT ![t] = p],
         TabSound(p, Kept', k_losses'), k_losses' \in Nat, k_losses' >= k_losses,
         k_storable' = k_storable, k_cleared' = k_cleared, k_stored \subseteq k_stored',
         k_made' \subseteq Sids, k_intents' \subseteq Sids \cup {Plain},
         \A s \in k_intents' \ {Plain} : s \in k_intents \cup Kept
  PROVE  KeysInv'
<1>1. /\ k_page' \in [Forms -> ReceiptTab] /\ k_page'[t] = p
      /\ \A u \in Forms : u # t => k_page'[u] = k_page[u]
  BY DEF KeysInv
<1>2. ASSUME NEW u \in Forms PROVE TabSound(k_page'[u], Kept', k_losses')
  <2>1. Kept \subseteq Kept' /\ k_losses \in Nat
    BY DEF Kept, KeysInv
  <2>2. CASE u # t
    BY <1>1, <2>1, <2>2 DEF KeysInv, TabSound
  <2> QED BY <1>1, <2>2
<1>3. K!KeyOutlivesPayment'
  BY DEF KeysInv, K!KeyOutlivesPayment, Kept
<1> QED BY <1>1, <1>2, <1>3 DEF KeysInv

\* Or nothing but the tab changes.
LEMMA TabMoves ==
  ASSUME KeysInv, NEW t \in Forms, NEW p \in ReceiptTab, k_page' = [k_page EXCEPT ![t] = p],
         TabSound(p, Kept', k_losses'),
         UNCHANGED <<k_stored, k_made, k_intents, k_losses, k_storable, k_cleared>>
  PROVE  KeysInv'
<1>1. /\ k_losses' \in Nat /\ k_losses' >= k_losses
      /\ k_made' \subseteq Sids /\ k_intents' \subseteq Sids \cup {Plain}
  BY DEF KeysInv
<1> QED BY <1>1, TabGoes

LEMMA KeysInvStep == KeysInv /\ [Next]_all => KeysInv'
<1> SUFFICES ASSUME KeysInv, [Next]_all PROVE KeysInv'
  OBVIOUS
<1>0. K!Closed \in ReceiptTab /\ Plain \notin Sids
  BY WalletAssumption DEF K!Closed, ReceiptTab, PagePlaces, K!PageAssumption
<1>1. CASE UNCHANGED k_all
  BY <1>1 DEF k_all, KeysInv, TabSound, Kept, K!KeyOutlivesPayment
<1>2. CASE ReceiptsStep
  <2>1. ASSUME NEW t \in Forms, K!NewPage(t) PROVE KeysInv'
    <3> DEFINE p == k_page[t]
    <3>0. p \in ReceiptTab /\ TabSound(p, Kept, k_losses)
      BY DEF KeysInv
    <3>1. CASE K!OpenNew(t)
      <4> DEFINE q == [K!Closed EXCEPT !.at = "offer"]
      <4>1. q \in ReceiptTab /\ q.at = "offer"
        BY <1>0 DEF ReceiptTab, PagePlaces
      <4>2. k_page' = [k_page EXCEPT ![t] = q]
        BY <3>1 DEF K!OpenNew, K!Show
      <4> HIDE DEF q
      <4>3. TabSound(q, Kept', k_losses')
        BY <4>1 DEF TabSound
      <4>4. UNCHANGED <<k_stored, k_made, k_intents, k_losses, k_storable, k_cleared>>
        BY <3>1 DEF K!OpenNew, K!OnlyPage, K!outside
      <4> QED BY <4>1, <4>2, <4>3, <4>4, TabMoves
    <3>2. CASE K!MakeKey(t)
      <4>1. PICK s \in Sids \ k_made :
              /\ k_made' = k_made \cup {s} /\ K!SaveKey(s)
              /\ K!Show(t, [K!Closed EXCEPT !.at = "asking", !.sid = s, !.key = s])
        BY <3>2 DEF K!MakeKey
      <4> DEFINE q == [[[K!Closed EXCEPT !.at = "asking"] EXCEPT !.sid = s] EXCEPT !.key = s]
      <4>0. q \in ReceiptTab /\ q.at = "asking" /\ q.sid = s
        BY <1>0 DEF ReceiptTab, PagePlaces
      <4>2. k_page' = [k_page EXCEPT ![t] = q]
        BY <4>1 DEF K!Show
      <4> HIDE DEF q
      <4>3. k_stored \subseteq k_stored' /\ (k_storable => s \in k_stored')
        BY <4>1 DEF K!SaveKey
      <4>4. UNCHANGED <<k_intents, k_storable, k_losses, k_cleared>>
        BY <3>2 DEF K!MakeKey, K!outside
      <4>5. TabSound(q, Kept', k_losses')
        BY <4>0, <4>3, <4>4 DEF TabSound, Kept
      <4>6. /\ k_losses' \in Nat /\ k_losses' >= k_losses
            /\ k_made' \subseteq Sids /\ k_intents' \subseteq Sids \cup {Plain}
        BY <4>1, <4>4 DEF KeysInv
      <4>7. \A s_ \in k_intents' \ {Plain} : s_ \in k_intents \cup Kept
        BY <4>4
      <4> QED BY <4>0, <4>2, <4>3, <4>4, <4>5, <4>6, <4>7, TabGoes
    <3>3. CASE K!ReceiptIntent(t)
      <4>1. /\ p.at = "asking" /\ UNCHANGED <<k_stored, k_made, k_storable, k_losses, k_cleared>>
            /\ k_intents' \subseteq k_intents \cup {p.sid}
            /\ \E at \in {"created", "refused"} : k_page' = [k_page EXCEPT ![t] = [p EXCEPT !.at = at]]
        BY <3>3 DEF K!ReceiptIntent, K!At, K!Show, K!outside
      <4>2. PICK at \in {"created", "refused"} : k_page' = [k_page EXCEPT ![t] = [p EXCEPT !.at = at]]
        BY <4>1
      <4> DEFINE q == [p EXCEPT !.at = at]
      <4>3. q \in ReceiptTab /\ q.at = at
        BY <3>0 DEF ReceiptTab, PagePlaces
      <4>4. k_page' = [k_page EXCEPT ![t] = q] /\ p.sid \in Sids \cup {Plain} /\ p.sid \in Kept
        BY <3>0, <4>1, <4>2 DEF ReceiptTab, TabSound
      <4> HIDE DEF q, p
      <4>5. TabSound(q, Kept', k_losses')
        BY <4>3 DEF TabSound
      <4>6. /\ k_losses' \in Nat /\ k_losses' >= k_losses /\ k_stored \subseteq k_stored'
            /\ k_made' \subseteq Sids /\ k_intents \subseteq Sids \cup {Plain}
        BY <4>1 DEF KeysInv
      <4>7. /\ k_intents' \subseteq Sids \cup {Plain}
            /\ \A s \in k_intents' \ {Plain} : s \in k_intents \cup Kept
        BY <4>1, <4>4, <4>6
      <4> QED BY <4>1, <4>3, <4>4, <4>5, <4>6, <4>7, TabGoes
    <3>4. CASE K!Answered(t)
      <4>1. \E q \in ReceiptTab : q.at \in {"ready", "offer"} /\ k_page' = [k_page EXCEPT ![t] = q]
        <5>1. CASE k_page' = [k_page EXCEPT ![t] = [p EXCEPT !.at = "ready"]]
          BY <3>0, <5>1 DEF ReceiptTab, PagePlaces
        <5>2. CASE k_page' = [k_page EXCEPT ![t] = [K!Closed EXCEPT !.at = "offer"]]
          BY <1>0, <5>2 DEF ReceiptTab, PagePlaces
        <5> QED BY <3>4, <5>1, <5>2 DEF K!Answered, K!Show
      <4>2. PICK q \in ReceiptTab : q.at \in {"ready", "offer"} /\ k_page' = [k_page EXCEPT ![t] = q]
        BY <4>1
      <4>3. TabSound(q, Kept', k_losses')
        BY <4>2 DEF TabSound
      <4>4. UNCHANGED <<k_stored, k_made, k_intents, k_losses, k_storable, k_cleared>>
        BY <3>4 DEF K!Answered, K!OnlyPage, K!outside
      <4> QED BY <4>1, <4>2, <4>3, <4>4, TabMoves
    <3>5. CASE K!AnswerLost(t)
      <4> DEFINE q == [p EXCEPT !.at = "stuck"]
      <4>1. q \in ReceiptTab /\ q.at = "stuck"
        BY <3>0 DEF ReceiptTab, PagePlaces
      <4>2. k_page' = [k_page EXCEPT ![t] = q]
        BY <3>5 DEF K!AnswerLost, K!Show
      <4>3. k_losses' \in Nat /\ k_losses' >= k_losses
        BY <3>5 DEF K!AnswerLost, KeysInv
      <4> HIDE DEF q
      <4>4. TabSound(q, Kept', k_losses')
        BY <4>1 DEF TabSound
      <4>5. /\ UNCHANGED <<k_stored, k_made, k_intents, k_storable, k_cleared>>
            /\ k_made \subseteq Sids /\ k_intents \subseteq Sids \cup {Plain}
        BY <3>5 DEF K!AnswerLost, KeysInv
      <4> QED BY <4>1, <4>2, <4>3, <4>4, <4>5, TabGoes
    <3>6. CASE K!Backup(t)
      BY <3>6 DEF K!Backup, K!outside, KeysInv, TabSound, Kept, K!KeyOutlivesPayment
    <3>7. CASE K!Continue(t)
      <4> DEFINE q == [p EXCEPT !.at = "checkout"]
      <4>1. q \in ReceiptTab /\ q.at = "checkout"
        BY <3>0 DEF ReceiptTab, PagePlaces
      <4>2. k_page' = [k_page EXCEPT ![t] = q]
        BY <3>7 DEF K!Continue, K!Show
      <4> HIDE DEF q
      <4>3. TabSound(q, Kept', k_losses')
        BY <4>1 DEF TabSound
      <4>4. UNCHANGED <<k_stored, k_made, k_intents, k_losses, k_storable, k_cleared>>
        BY <3>7 DEF K!Continue, K!OnlyPage, K!outside
      <4> QED BY <4>1, <4>2, <4>3, <4>4, TabMoves
    <3> QED BY <2>1, <3>1, <3>2, <3>3, <3>4, <3>5, <3>6, <3>7 DEF K!NewPage
  <2>2. ASSUME NEW t \in Forms, K!ViewPage(t) PROVE KeysInv'
    <3> DEFINE p == k_page[t]
    <3>0. p \in ReceiptTab /\ TabSound(p, Kept, k_losses)
      BY DEF KeysInv
    <3>1. CASE K!OpenView(t)
      <4>1. PICK s \in k_intents \ {Plain} :
              K!Show(t, [K!Closed EXCEPT !.at = "loading", !.sid = s,
                                         !.key = IF K!ValidKeyFor(s, K!LoadKey(s)) THEN K!LoadKey(s) ELSE Plain])
        BY <3>1 DEF K!OpenView
      <4> DEFINE k == IF K!ValidKeyFor(s, K!LoadKey(s)) THEN K!LoadKey(s) ELSE Plain
                 q == [[[K!Closed EXCEPT !.at = "loading"] EXCEPT !.sid = s] EXCEPT !.key = k]
      <4>2. s \in Sids /\ k \in {Plain, s}
        BY DEF KeysInv, K!ValidKeyFor
      <4>3. k_page' = [k_page EXCEPT ![t] = q]
        BY <4>1 DEF K!Show
      <4> HIDE DEF k
      <4>4. q \in ReceiptTab /\ q.at = "loading" /\ q.sid = s /\ q.key = k
        BY <1>0, <4>2 DEF ReceiptTab, PagePlaces
      <4> HIDE DEF q
      <4>5. TabSound(q, Kept', k_losses')
        BY <1>0, <4>2, <4>4 DEF TabSound
      <4>6. UNCHANGED <<k_stored, k_made, k_intents, k_losses, k_storable, k_cleared>>
        BY <3>1 DEF K!OpenView, K!OnlyPage, K!outside
      <4> QED BY <4>1, <4>2, <4>3, <4>4, <4>5, <4>6, TabMoves
    <3>2. CASE K!FetchReceipt(t)
      <4> DEFINE q == [[p EXCEPT !.at = "shown"] EXCEPT !.lazy = p.key # Plain]
      <4>1. p.at = "loading" /\ p.sid # Plain /\ p.key \in {Plain, p.sid}
        BY <3>0, <3>2 DEF K!FetchReceipt, TabSound
      <4>2. k_page' = [k_page EXCEPT ![t] = q]
        BY <3>2, <4>1 DEF K!FetchReceipt, K!Show
      <4>3. q \in ReceiptTab /\ q.at = "shown" /\ q.sid = p.sid /\ q.key = p.key /\ q.lazy = (p.key # Plain)
        BY <3>0 DEF ReceiptTab, PagePlaces
      <4> HIDE DEF q
      <4>4. q.lazy = (q.key = q.sid)
        BY <4>1, <4>3
      <4>5. TabSound(q, Kept', k_losses')
        BY <4>1, <4>3, <4>4 DEF TabSound
      <4>6. UNCHANGED <<k_stored, k_made, k_intents, k_losses, k_storable, k_cleared>>
        BY <3>2 DEF K!FetchReceipt, K!OnlyPage, K!outside
      <4> QED BY <4>1, <4>2, <4>3, <4>4, <4>5, <4>6, TabMoves
    <3>3. CASE K!FetchLost(t)
      <4> DEFINE q == [p EXCEPT !.at = "failed"]
      <4>1. q \in ReceiptTab /\ q.at = "failed"
        BY <3>0 DEF ReceiptTab, PagePlaces
      <4>2. k_page' = [k_page EXCEPT ![t] = q]
        BY <3>3 DEF K!FetchLost, K!Show
      <4>3. k_losses' \in Nat /\ k_losses' >= k_losses /\ k_losses' > 0
        BY <3>3 DEF K!FetchLost, KeysInv
      <4> HIDE DEF q
      <4>4. TabSound(q, Kept', k_losses')
        BY <4>1, <4>3 DEF TabSound
      <4>5. /\ UNCHANGED <<k_stored, k_made, k_intents, k_storable, k_cleared>>
            /\ k_made \subseteq Sids /\ k_intents \subseteq Sids \cup {Plain}
        BY <3>3 DEF K!FetchLost, KeysInv
      <4> QED BY <4>1, <4>2, <4>3, <4>4, <4>5, TabGoes
    <3>4. ASSUME NEW f \in k_files, NEW b \in BOOLEAN, K!Import(t, f, b) PROVE KeysInv'
      <4> DEFINE q == [[p EXCEPT !.at = "loading"] EXCEPT !.key = f.key]
      <4>1. p.at = "shown" /\ f.key = p.sid /\ p.sid # Plain
        BY <3>0, <3>4 DEF K!Import, K!At, K!ValidKeyFor, TabSound
      <4>2. k_page' = [k_page EXCEPT ![t] = q]
        BY <3>4 DEF K!Import, K!Show
      <4>3. q \in ReceiptTab /\ q.at = "loading" /\ q.sid = p.sid /\ q.key = p.sid
        BY <3>0, <4>1 DEF ReceiptTab, PagePlaces
      <4>4. k_stored \subseteq k_stored'
        BY <3>4 DEF K!Import, K!SaveKey
      <4> HIDE DEF q
      <4>5. TabSound(q, Kept', k_losses')
        BY <4>1, <4>3 DEF TabSound
      <4>6. /\ UNCHANGED <<k_made, k_intents, k_storable, k_cleared, k_losses>>
            /\ k_losses' \in Nat /\ k_losses' >= k_losses
            /\ k_made' \subseteq Sids /\ k_intents' \subseteq Sids \cup {Plain}
        BY <3>4 DEF K!Import, K!outside, KeysInv
      <4> QED BY <4>2, <4>3, <4>4, <4>5, <4>6, TabGoes
    <3>5. ASSUME NEW b \in BOOLEAN, K!PartB(t, b) PROVE KeysInv'
      BY <3>5 DEF K!PartB, K!outside, KeysInv, TabSound, Kept, K!KeyOutlivesPayment
    <3> QED BY <2>2, <3>1, <3>2, <3>3, <3>4, <3>5 DEF K!ViewPage
  <2>3. ASSUME NEW t \in Forms, K!Leave(t) PROVE KeysInv'
    <3>1. k_page' = [k_page EXCEPT ![t] = K!Closed] /\ TabSound(K!Closed, Kept', k_losses')
      BY <2>3 DEF K!Leave, K!Show, K!Closed, TabSound
    <3>2. UNCHANGED <<k_stored, k_made, k_intents, k_losses, k_storable, k_cleared>>
      BY <2>3 DEF K!Leave, K!OnlyPage, K!outside
    <3> QED BY <1>0, <3>1, <3>2, TabMoves
  <2>4. CASE K!Close
    BY <2>4 DEF K!Close, K!outside, KeysInv, TabSound, Kept, K!KeyOutlivesPayment
  <2>5. CASE K!ClearStorage
    <3>1. /\ k_cleared' /\ UNCHANGED <<k_page, k_made, k_intents>> /\ k_losses' = k_losses + 1
      BY <2>5 DEF K!ClearStorage
    <3>2. ASSUME NEW t \in Forms PROVE TabSound(k_page'[t], Kept', k_losses')
      <4>1. k_page[t] \in ReceiptTab /\ TabSound(k_page[t], Kept, k_losses) /\ k_losses \in Nat
        BY DEF KeysInv
      <4>2. k_page[t].sid \in Kept' /\ k_losses' > 0
        BY <3>1, <4>1 DEF Kept, ReceiptTab
      <4> QED BY <3>1, <4>1, <4>2 DEF TabSound
    <3> QED BY <3>1, <3>2 DEF KeysInv, K!KeyOutlivesPayment
  <2> QED BY <1>2, <2>1, <2>2, <2>3, <2>4, <2>5 DEF ReceiptsStep, K!Next
<1> QED BY <1>1, <1>2 DEF Next, all, RelayStep, AccountsStep, EmbedStep, CeremonyStep, CardsStep,
                          DonationsStep, RecoveryStep

\* However calls overlap, fail and are repeated, the key outlives the payment and no tab
\* asks with the key of another receipt.
LEMMA KeysStay == Spec => [](K!KeyOutlivesPayment /\ K!OwnKeyOnly)
<1>1. Init => KeysInv
  <2> SUFFICES ASSUME Init PROVE KeysInv
    OBVIOUS
  <2>1. K!Closed \in ReceiptTab /\ \A kept, lost : TabSound(K!Closed, kept, lost)
    BY DEF K!Closed, ReceiptTab, PagePlaces, TabSound
  <2> QED BY <2>1 DEF Init, K!Init, KeysInv, K!KeyOutlivesPayment
<1>2. KeysInv => K!OwnKeyOnly
  <2> SUFFICES ASSUME KeysInv, NEW t \in Forms
               PROVE  /\ k_page[t].at = "failed" => k_losses > 0
                      /\ k_page[t].at = "shown" => k_page[t].lazy = (k_page[t].key = k_page[t].sid)
    BY DEF K!OwnKeyOnly
  <2> QED BY DEF KeysInv, TabSound
<1>3. KeysInv => K!KeyOutlivesPayment
  BY DEF KeysInv
<1> QED BY <1>1, <1>2, <1>3, KeysInvStep, PTL DEF Spec

-----------------------------------------------------------------------------
(* The passkeys and the phone *)

\* The devices whose verification is used up and not yet counted, or given up.
Counting(b, c) == {d \in Devices : b[d].at \in {"read", "write"} /\ b[d].cred = c}

\* There are verifications for the count and for all that are still to be counted, and for
\* each that has read the count, whatever the others have written since.
PhoneSound(b, bnd, used) ==
  \A c \in Creds :
    /\ bnd[c] + Cardinality(Counting(b, c)) <= used[c]
    /\ \A d \in Devices : b[d].at = "write" /\ b[d].cred = c =>
         b[d].count \in Nat /\ b[d].count + Cardinality(Counting(b, c)) <= used[c]

\* A device that waits for the registry does not call the passkey unusable.
AccountsInv ==
  /\ a_world \in Worlds
  /\ a_asked = [d \in Devices |-> a_asked[d]]
  /\ \A d \in Devices : a_asked[d] # NoCred => d \notin a_unusable
  /\ a_bind = [d \in Devices |-> a_bind[d]]
  /\ \A d \in Devices : DOMAIN a_bind[d] = {"at", "cred", "otp", "count"}
  /\ a_bound \in [Creds -> Nat] /\ a_consumed \in [Creds -> Nat]
  /\ PhoneSound(a_bind, a_bound, a_consumed)

\* What the assumption says of the devices.
LEMMA DevicesFacts ==
  /\ IsFiniteSet(Devices) /\ NoCred \notin Creds
  /\ \A w \in Worlds : w.devices \subseteq Devices
BY WalletAssumption DEF A!AccountsAssumption, A!IsFiniteSet, IsFiniteSet

LEMMA RoomRemains ==
  /\ \A x, y, n, u \in Nat : n <= y /\ x + y <= u => x + n <= u
  /\ \A x, y, n, u, v \in Nat : x + y <= u /\ v - n = u - y => x + n <= v
OBVIOUS

LEMMA CountingFacts ==
  ASSUME NEW b, NEW c
  PROVE  /\ IsFiniteSet(Counting(b, c)) /\ Cardinality(Counting(b, c)) \in Nat
         /\ \A T \in SUBSET Counting(b, c) : Cardinality(T) \in Nat /\ Cardinality(T) <= Cardinality(Counting(b, c))
<1>1. IsFiniteSet(Counting(b, c))
  BY DevicesFacts, FS_Subset DEF Counting
<1> QED BY <1>1, FS_Subset, FS_CardinalityType

\* A binding that is not being counted may begin, go on or end.
LEMMA BindCalm ==
  ASSUME AccountsInv, NEW d \in Devices, NEW r, r.at \notin {"read", "write"},
         a_bind' = [a_bind EXCEPT ![d] = r], UNCHANGED <<a_bound, a_consumed>>
  PROVE  PhoneSound(a_bind, a_bound, a_consumed)'
<1>1. a_bind'[d] = r /\ \A e \in Devices : e # d => a_bind'[e] = a_bind[e]
  BY DEF AccountsInv
<1>2. ASSUME NEW c \in Creds
      PROVE  /\ Counting(a_bind', c) \subseteq Counting(a_bind, c)
             /\ Cardinality(Counting(a_bind', c)) \in Nat /\ Cardinality(Counting(a_bind, c)) \in Nat
             /\ Cardinality(Counting(a_bind', c)) <= Cardinality(Counting(a_bind, c))
  <2>1. Counting(a_bind', c) \subseteq Counting(a_bind, c)
    BY <1>1 DEF Counting
  <2> QED BY <2>1, CountingFacts
<1>3. ASSUME NEW c \in Creds
      PROVE  /\ a_bound[c] + Cardinality(Counting(a_bind', c)) <= a_consumed[c]
             /\ \A e \in Devices : a_bind'[e].at = "write" /\ a_bind'[e].cred = c =>
                  a_bind'[e].count \in Nat /\ a_bind'[e].count + Cardinality(Counting(a_bind', c)) <= a_consumed[c]
  <2>1. /\ a_bound[c] \in Nat /\ a_consumed[c] \in Nat
        /\ a_bound[c] + Cardinality(Counting(a_bind, c)) <= a_consumed[c]
    BY DEF AccountsInv, PhoneSound
  <2>2. ASSUME NEW e \in Devices, a_bind'[e].at = "write", a_bind'[e].cred = c
        PROVE  a_bind'[e].count \in Nat /\ a_bind'[e].count + Cardinality(Counting(a_bind', c)) <= a_consumed[c]
    <3>1. e # d /\ a_bind'[e] = a_bind[e]
      BY <1>1, <2>2
    <3>2. a_bind[e].count \in Nat /\ a_bind[e].count + Cardinality(Counting(a_bind, c)) <= a_consumed[c]
      BY <2>2, <3>1 DEF AccountsInv, PhoneSound
    <3> QED BY <1>2, <2>1, <3>1, <3>2, RoomRemains
  <2>3. a_bound[c] + Cardinality(Counting(a_bind', c)) <= a_consumed[c]
    BY <1>2, <2>1, RoomRemains
  <2> QED BY <2>2, <2>3
<1> QED BY <1>3 DEF PhoneSound

\* One verification is used up, and is to be counted.
LEMMA BindConsumes ==
  ASSUME AccountsInv, NEW d \in Devices, a_bind[d].at = "post",
         NEW r, r.at = "read", r.cred = a_bind[d].cred, a_bind' = [a_bind EXCEPT ![d] = r],
         a_consumed' = [a_consumed EXCEPT ![r.cred] = @ + 1], UNCHANGED a_bound
  PROVE  PhoneSound(a_bind, a_bound, a_consumed)'
<1>1. a_bind'[d] = r /\ \A e \in Devices : e # d => a_bind'[e] = a_bind[e]
  BY DEF AccountsInv
<1>2. ASSUME NEW c \in Creds
      PROVE  /\ Cardinality(Counting(a_bind', c)) \in Nat /\ Cardinality(Counting(a_bind, c)) \in Nat
             /\ a_consumed'[c] \in Nat
             /\ a_consumed'[c] - Cardinality(Counting(a_bind', c)) = a_consumed[c] - Cardinality(Counting(a_bind, c))
  <2>0. Cardinality(Counting(a_bind', c)) \in Nat /\ Cardinality(Counting(a_bind, c)) \in Nat /\ a_consumed[c] \in Nat
    BY CountingFacts DEF AccountsInv
  <2>1. CASE r.cred = c
    <3>1. Counting(a_bind', c) = Counting(a_bind, c) \cup {d} /\ d \notin Counting(a_bind, c)
      BY <1>1, <2>1 DEF Counting
    <3>2. Cardinality(Counting(a_bind', c)) = Cardinality(Counting(a_bind, c)) + 1
      BY <3>1, CountingFacts, FS_AddElement
    <3>3. a_consumed'[c] = a_consumed[c] + 1
      BY <2>1 DEF AccountsInv
    <3> QED BY <2>0, <3>2, <3>3
  <2>2. CASE r.cred # c
    <3>1. Counting(a_bind', c) = Counting(a_bind, c)
      BY <1>1, <2>2 DEF Counting
    <3>2. a_consumed'[c] = a_consumed[c]
      BY <2>2 DEF AccountsInv
    <3> QED BY <2>0, <3>1, <3>2
  <2> QED BY <2>1, <2>2
<1>3. ASSUME NEW c \in Creds
      PROVE  /\ a_bound'[c] + Cardinality(Counting(a_bind', c)) <= a_consumed'[c]
             /\ \A e \in Devices : a_bind'[e].at = "write" /\ a_bind'[e].cred = c =>
                  a_bind'[e].count \in Nat /\ a_bind'[e].count + Cardinality(Counting(a_bind', c)) <= a_consumed'[c]
  <2>1. /\ a_bound[c] \in Nat /\ a_consumed[c] \in Nat
        /\ a_bound[c] + Cardinality(Counting(a_bind, c)) <= a_consumed[c]
    BY DEF AccountsInv, PhoneSound
  <2>2. ASSUME NEW e \in Devices, a_bind'[e].at = "write", a_bind'[e].cred = c
        PROVE  a_bind'[e].count \in Nat /\ a_bind'[e].count + Cardinality(Counting(a_bind', c)) <= a_consumed'[c]
    <3>1. e # d /\ a_bind'[e] = a_bind[e]
      BY <1>1, <2>2
    <3>2. a_bind[e].count \in Nat /\ a_bind[e].count + Cardinality(Counting(a_bind, c)) <= a_consumed[c]
      BY <2>2, <3>1 DEF AccountsInv, PhoneSound
    <3>3. /\ a_consumed'[c] \in Nat /\ Cardinality(Counting(a_bind', c)) \in Nat
          /\ Cardinality(Counting(a_bind, c)) \in Nat
          /\ a_consumed'[c] - Cardinality(Counting(a_bind', c)) = a_consumed[c] - Cardinality(Counting(a_bind, c))
      BY <1>2
    <3>4. a_bind[e].count + Cardinality(Counting(a_bind', c)) <= a_consumed'[c]
      BY <2>1, <3>2, <3>3, RoomRemains
    <3> QED BY <3>1, <3>2, <3>4
  <2>3. a_bound'[c] + Cardinality(Counting(a_bind', c)) <= a_consumed'[c]
    BY <1>2, <2>1, RoomRemains
  <2> QED BY <2>2, <2>3
<1> QED BY <1>3 DEF PhoneSound

\* The count is read: there are verifications for it and for all still to be counted.
LEMMA BindReads ==
  ASSUME AccountsInv, NEW d \in Devices, a_bind[d].at = "read",
         NEW r, r.at = "write", r.cred = a_bind[d].cred, r.count = a_bound[r.cred],
         a_bind' = [a_bind EXCEPT ![d] = r], UNCHANGED <<a_bound, a_consumed>>
  PROVE  PhoneSound(a_bind, a_bound, a_consumed)'
<1>1. a_bind'[d] = r /\ \A e \in Devices : e # d => a_bind'[e] = a_bind[e]
  BY DEF AccountsInv
<1>2. \A c \in Creds : Counting(a_bind', c) = Counting(a_bind, c)
  BY <1>1 DEF Counting
<1>3. ASSUME NEW c \in Creds, NEW e \in Devices, a_bind'[e].at = "write", a_bind'[e].cred = c
      PROVE  a_bind'[e].count \in Nat /\ a_bind'[e].count + Cardinality(Counting(a_bind, c)) <= a_consumed[c]
  <2>1. CASE e = d
    BY <1>1, <1>3, <2>1 DEF AccountsInv, PhoneSound
  <2>2. CASE e # d
    BY <1>1, <1>3, <2>2 DEF AccountsInv, PhoneSound
  <2> QED BY <2>1, <2>2
<1> QED BY <1>2, <1>3 DEF PhoneSound, AccountsInv

\* The count is written, maybe over a higher one.
LEMMA BindWrites ==
  ASSUME AccountsInv, NEW d \in Devices, a_bind[d].at = "write",
         NEW r, r.at = "idle", a_bind' = [a_bind EXCEPT ![d] = r],
         a_bound' = [a_bound EXCEPT ![a_bind[d].cred] = a_bind[d].count + 1], UNCHANGED a_consumed
  PROVE  PhoneSound(a_bind, a_bound, a_consumed)' /\ a_bound' \in [Creds -> Nat]
<1>1. a_bind'[d] = r /\ \A e \in Devices : e # d => a_bind'[e] = a_bind[e]
  BY DEF AccountsInv
<1>2. ASSUME NEW c \in Creds
      PROVE  /\ Cardinality(Counting(a_bind', c)) \in Nat /\ Cardinality(Counting(a_bind, c)) \in Nat
             /\ Cardinality(Counting(a_bind', c)) <= Cardinality(Counting(a_bind, c))
             /\ a_bound'[c] \in Nat
             /\ a_bound'[c] + Cardinality(Counting(a_bind', c)) <= a_consumed[c]
  <2>0. /\ Cardinality(Counting(a_bind', c)) \in Nat /\ Cardinality(Counting(a_bind, c)) \in Nat
        /\ a_consumed[c] \in Nat /\ a_bound[c] \in Nat
        /\ a_bound[c] + Cardinality(Counting(a_bind, c)) <= a_consumed[c]
    BY CountingFacts DEF AccountsInv, PhoneSound
  <2>1. CASE a_bind[d].cred = c
    <3>1. Counting(a_bind', c) = Counting(a_bind, c) \ {d} /\ d \in Counting(a_bind, c)
      BY <1>1, <2>1 DEF Counting
    <3>2. Cardinality(Counting(a_bind', c)) = Cardinality(Counting(a_bind, c)) - 1
      BY <3>1, CountingFacts, FS_RemoveElement
    <3>3. a_bind[d].count \in Nat /\ a_bind[d].count + Cardinality(Counting(a_bind, c)) <= a_consumed[c]
      BY <2>1 DEF AccountsInv, PhoneSound
    <3>4. a_bound'[c] = a_bind[d].count + 1
      BY <2>1 DEF AccountsInv
    <3> QED BY <2>0, <3>2, <3>3, <3>4
  <2>2. CASE a_bind[d].cred # c
    <3>1. Counting(a_bind', c) = Counting(a_bind, c)
      BY <1>1, <2>2 DEF Counting
    <3>2. a_bound'[c] = a_bound[c]
      BY <2>2 DEF AccountsInv
    <3> QED BY <2>0, <3>1, <3>2
  <2> QED BY <2>1, <2>2
<1>3. ASSUME NEW c \in Creds, NEW e \in Devices, a_bind'[e].at = "write", a_bind'[e].cred = c
      PROVE  a_bind'[e].count \in Nat /\ a_bind'[e].count + Cardinality(Counting(a_bind', c)) <= a_consumed[c]
  <2>1. e # d /\ a_bind'[e] = a_bind[e]
    BY <1>1, <1>3
  <2>2. /\ a_bind[e].count \in Nat /\ a_consumed[c] \in Nat
        /\ a_bind[e].count + Cardinality(Counting(a_bind, c)) <= a_consumed[c]
    BY <1>3, <2>1 DEF AccountsInv, PhoneSound
  <2>3. /\ Cardinality(Counting(a_bind', c)) \in Nat /\ Cardinality(Counting(a_bind, c)) \in Nat
        /\ Cardinality(Counting(a_bind', c)) <= Cardinality(Counting(a_bind, c))
    BY <1>2
  <2>4. a_bind[e].count + Cardinality(Counting(a_bind', c)) <= a_consumed[c]
    BY <2>2, <2>3, RoomRemains
  <2> QED BY <2>1, <2>2, <2>4
<1>4. a_bound' \in [Creds -> Nat]
  BY <1>2 DEF AccountsInv
<1> QED BY <1>2, <1>3, <1>4 DEF PhoneSound

\* What a step says of the lookups, beside what it does to the phone.
LEMMA LookupStep ==
  ASSUME AccountsInv, [Next]_all
  PROVE  /\ a_asked' = [d \in Devices |-> a_asked'[d]]
         /\ \A d \in Devices : a_asked'[d] # NoCred => d \notin a_unusable'
         /\ \A d \in Devices : a_asked[d] # NoCred /\ a_asked'[d] = NoCred /\ d \in a_unusable'
              => a_wallets[a_asked[d]] = "none"
<1> DEFINE Fine ==
      /\ a_asked' = [d \in Devices |-> a_asked'[d]]
      /\ \A d \in Devices : a_asked'[d] # NoCred => d \notin a_unusable'
      /\ \A d \in Devices : a_asked[d] # NoCred /\ a_asked'[d] = NoCred /\ d \in a_unusable'
           => a_wallets[a_asked[d]] = "none"
<1> SUFFICES Fine
  OBVIOUS
<1>1. ASSUME UNCHANGED <<a_asked, a_unusable>> PROVE Fine
  BY <1>1 DEF AccountsInv
<1>2. ASSUME NEW d \in Devices, NEW c \in Creds, A!OpenKnown(d, c) PROVE Fine
  BY <1>2 DEF A!OpenKnown, A!Enter, AccountsInv
<1>3. ASSUME NEW d \in Devices, NEW c \in Creds, A!EnterByCredentialId(d, c) PROVE Fine
  BY <1>3, DevicesFacts DEF A!EnterByCredentialId, AccountsInv
<1>4. ASSUME NEW d \in Devices, A!LookupAnswered(d) PROVE Fine
  <2>1. /\ a_asked[d] # NoCred /\ a_asked' = [a_asked EXCEPT ![d] = NoCred]
        /\ \/ UNCHANGED a_unusable
           \/ a_wallets[a_asked[d]] = "none" /\ a_unusable' = a_unusable \cup {d}
    BY <1>4 DEF A!LookupAnswered, A!LookupWalletStrict
  <2> QED BY <2>1 DEF AccountsInv
<1>5. ASSUME NEW d, NEW c,
             \/ A!RunCreate(d, c) \/ A!ConfirmArchive(d, c) \/ A!SignOut(d)
             \/ A!DeriveAccount(d) \/ A!RegisterIfMissing(d) \/ A!SwitchAccount(d, c) \/ A!RunExpand(d, c)
             \/ A!ArchiveDerivedAccount(d, c) \/ A!SyncAccounts(d) \/ A!EnsureRecoveryOwner(d)
      PROVE  UNCHANGED <<a_asked, a_unusable>>
  BY <1>5 DEF A!RunCreate, A!ConfirmArchive, A!SignOut, A!DeriveAccount, A!RegisterIfMissing, A!SwitchAccount,
              A!RunExpand, A!ArchiveDerivedAccount, A!SyncAccounts, A!EnsureRecoveryOwner, A!jobs
<1>6. ASSUME NEW d, A!BindPhone(d) PROVE UNCHANGED <<a_asked, a_unusable>>
  BY <1>6 DEF A!BindPhone, A!OtpVerified, A!CompleteBind, A!MarkOtpConsumed, A!ReadBinding, A!WriteBinding,
              A!BindLost, A!Rest, A!jobs
<1>7. ASSUME NEW m, A!Deliver(m) \/ A!Lose(m) PROVE UNCHANGED <<a_asked, a_unusable>>
  BY <1>7 DEF A!Deliver, A!Lose, A!jobs
<1>8. a_world.devices \subseteq Devices
  BY DevicesFacts DEF AccountsInv
<1>9. CASE AccountsStep
  <2>1. ASSUME NEW d \in Devices, A!Landing(d) PROVE Fine
    BY <1>1, <1>2, <1>3, <1>4, <1>5, <2>1 DEF A!Landing
  <2>2. ASSUME NEW d \in Devices, A!Wallet(d) PROVE Fine
    BY <1>1, <1>5, <2>2 DEF A!Wallet
  <2>3. ASSUME NEW d \in Devices, A!Beside(d) PROVE Fine
    BY <1>1, <1>5, <2>3 DEF A!Beside
  <2> QED BY <1>1, <1>6, <1>7, <1>8, <1>9, <2>1, <2>2, <2>3, Zenon DEF AccountsStep, A!Next
<1>10. CASE UNCHANGED a_all
  BY <1>1, <1>10 DEF a_all
<1> QED BY <1>9, <1>10 DEF Next, all, RelayStep, EmbedStep, CeremonyStep, CardsStep, DonationsStep,
                           RecoveryStep, ReceiptsStep

\* What a step says of the phone.
PhoneInv(b, bnd, used) ==
  /\ b = [d \in Devices |-> b[d]]
  /\ \A d \in Devices : DOMAIN b[d] = {"at", "cred", "otp", "count"}
  /\ bnd \in [Creds -> Nat] /\ used \in [Creds -> Nat]
  /\ PhoneSound(b, bnd, used)

LEMMA PhoneStep ==
  ASSUME AccountsInv, [Next]_all
  PROVE  a_world' \in Worlds /\ PhoneInv(a_bind', a_bound', a_consumed')
<1> DEFINE Fine == a_world' = a_world /\ PhoneInv(a_bind', a_bound', a_consumed')
<1> SUFFICES Fine
  BY DEF AccountsInv
<1>0. \A d \in Devices : DOMAIN a_bind[d] = {"at", "cred", "otp", "count"}
  BY DEF AccountsInv
<1>1. ASSUME UNCHANGED <<a_world, a_bind, a_bound, a_consumed>> PROVE Fine
  BY <1>1 DEF AccountsInv, PhoneInv
<1>2. ASSUME NEW d \in Devices, NEW r, DOMAIN r = {"at", "cred", "otp", "count"},
             a_bind' = [a_bind EXCEPT ![d] = r], UNCHANGED a_world,
             a_bound' \in [Creds -> Nat], a_consumed' \in [Creds -> Nat],
             PhoneSound(a_bind, a_bound, a_consumed)'
      PROVE  Fine
  BY <1>2 DEF AccountsInv, PhoneInv
<1>3. ASSUME NEW d \in Devices, NEW r, DOMAIN r = {"at", "cred", "otp", "count"},
             a_bind' = [a_bind EXCEPT ![d] = r], r.at \notin {"read", "write"},
             UNCHANGED <<a_world, a_bound, a_consumed>>
      PROVE  Fine
  <2>1. a_bound' \in [Creds -> Nat] /\ a_consumed' \in [Creds -> Nat]
    BY <1>3 DEF AccountsInv
  <2>2. PhoneSound(a_bind, a_bound, a_consumed)'
    BY <1>3, BindCalm
  <2> QED BY <1>2, <1>3, <2>1, <2>2
<1>4. DOMAIN A!Unbound = {"at", "cred", "otp", "count"} /\ A!Unbound.at = "idle"
  BY DEF A!Unbound
<1>5. ASSUME NEW d \in Devices, A!OtpVerified(d) PROVE Fine
  <2> DEFINE r == [[[A!Unbound EXCEPT !.at = "ensure"] EXCEPT !.cred = a_local[d].open] EXCEPT !.otp = a_otps + 1]
  <2>1. a_bind' = [a_bind EXCEPT ![d] = r] /\ UNCHANGED <<a_world, a_bound, a_consumed>>
    BY <1>5 DEF A!OtpVerified, A!Rest
  <2>2. DOMAIN r = {"at", "cred", "otp", "count"} /\ r.at = "ensure"
    BY <1>4
  <2> HIDE DEF r
  <2> QED BY <1>3, <2>1, <2>2
<1>6. ASSUME NEW d \in Devices, NEW at, A!Bind(d, at)
      PROVE  \E r : /\ DOMAIN r = {"at", "cred", "otp", "count"} /\ r.at = at /\ r.cred = a_bind[d].cred
                    /\ a_bind' = [a_bind EXCEPT ![d] = r]
  <2> DEFINE r == [a_bind[d] EXCEPT !.at = at]
  <2>1. a_bind' = [a_bind EXCEPT ![d] = r]
    BY <1>6 DEF A!Bind
  <2>2. DOMAIN r = {"at", "cred", "otp", "count"} /\ r.at = at /\ r.cred = a_bind[d].cred
    BY <1>0
  <2> HIDE DEF r
  <2> QED BY <2>1, <2>2
<1>7. ASSUME NEW d \in Devices, A!BindEnd(d), UNCHANGED <<a_world, a_bound, a_consumed>> PROVE Fine
  BY <1>3, <1>4, <1>7 DEF A!BindEnd
<1>8. ASSUME NEW d \in Devices, A!Bind(d, "post"), UNCHANGED <<a_world, a_bound, a_consumed>> PROVE Fine
  <2>1. PICK r : /\ DOMAIN r = {"at", "cred", "otp", "count"} /\ r.at = "post"
                 /\ a_bind' = [a_bind EXCEPT ![d] = r]
    BY <1>6, <1>8
  <2> QED BY <1>3, <1>8, <2>1
<1>9. ASSUME NEW d \in Devices, A!CompleteBind(d) PROVE Fine
  <2>1. UNCHANGED <<a_world, a_bound, a_consumed>>
    BY <1>9 DEF A!CompleteBind, A!Rest
  <2>2. A!Bind(d, "post") \/ A!BindEnd(d)
    BY <1>9 DEF A!CompleteBind
  <2> QED BY <1>7, <1>8, <2>1, <2>2
<1>10. ASSUME NEW d \in Devices, A!MarkOtpConsumed(d) PROVE Fine
  <2>1. a_bind[d].at = "post" /\ UNCHANGED <<a_world, a_bound>>
    BY <1>10 DEF A!MarkOtpConsumed, A!Rest
  <2>2. CASE A!BindEnd(d) /\ UNCHANGED a_consumed
    BY <1>7, <2>1, <2>2
  <2>3. CASE A!Bind(d, "read") /\ A!Consume(d)
    <3>1. PICK r : /\ DOMAIN r = {"at", "cred", "otp", "count"} /\ r.at = "read" /\ r.cred = a_bind[d].cred
                   /\ a_bind' = [a_bind EXCEPT ![d] = r]
      BY <1>6, <2>3
    <3>2. a_consumed' = [a_consumed EXCEPT ![r.cred] = @ + 1]
      BY <2>3, <3>1 DEF A!Consume
    <3>3. a_bound' \in [Creds -> Nat] /\ a_consumed' \in [Creds -> Nat]
      <4>1. a_bound \in [Creds -> Nat] /\ a_consumed \in [Creds -> Nat]
        BY DEF AccountsInv
      <4>2. \A c \in Creds : a_consumed[c] + 1 \in Nat
        BY <4>1
      <4> QED BY <2>1, <3>2, <4>1, <4>2
    <3>4. PhoneSound(a_bind, a_bound, a_consumed)'
      BY <2>1, <3>1, <3>2, BindConsumes
    <3> QED BY <1>2, <2>1, <3>1, <3>3, <3>4
  <2> QED BY <1>10, <2>2, <2>3 DEF A!MarkOtpConsumed
<1>11. ASSUME NEW d \in Devices, A!ReadBinding(d) PROVE Fine
  <2> DEFINE r == [[a_bind[d] EXCEPT !.at = "write"] EXCEPT !.count = a_bound[a_bind[d].cred]]
  <2>1. a_bind' = [a_bind EXCEPT ![d] = r]
    BY <1>11 DEF A!ReadBinding, AccountsInv
  <2>2. /\ DOMAIN r = {"at", "cred", "otp", "count"} /\ r.at = "write" /\ r.cred = a_bind[d].cred
        /\ r.count = a_bound[r.cred]
    BY <1>0
  <2> HIDE DEF r
  <2>3. a_bind[d].at = "read" /\ UNCHANGED <<a_world, a_bound, a_consumed>>
    BY <1>11 DEF A!ReadBinding, A!Rest
  <2>4. PhoneSound(a_bind, a_bound, a_consumed)'
    BY <2>1, <2>2, <2>3, BindReads
  <2>5. a_bound' \in [Creds -> Nat] /\ a_consumed' \in [Creds -> Nat]
    BY <2>3 DEF AccountsInv
  <2> QED BY <1>2, <2>1, <2>2, <2>3, <2>4, <2>5
<1>12. ASSUME NEW d \in Devices, A!WriteBinding(d) PROVE Fine
  <2>1. /\ a_bind[d].at = "write" /\ UNCHANGED <<a_world, a_consumed>>
        /\ a_bind' = [a_bind EXCEPT ![d] = A!Unbound]
        /\ a_bound' = [a_bound EXCEPT ![a_bind[d].cred] = a_bind[d].count + 1]
    BY <1>12 DEF A!WriteBinding, A!Rest, A!BindEnd, A!WriteCount
  <2>2. PhoneSound(a_bind, a_bound, a_consumed)' /\ a_bound' \in [Creds -> Nat]
    BY <1>4, <2>1, BindWrites
  <2>3. a_consumed' \in [Creds -> Nat]
    BY <2>1 DEF AccountsInv
  <2> QED BY <1>2, <1>4, <2>1, <2>2, <2>3
<1>13. ASSUME NEW d \in Devices, A!BindLost(d) PROVE Fine
  <2>1. A!BindEnd(d) /\ UNCHANGED <<a_world, a_bound, a_consumed>>
    BY <1>13 DEF A!BindLost, A!Rest
  <2> QED BY <1>7, <2>1
<1>14. ASSUME NEW d \in Devices, A!BindPhone(d) PROVE Fine
  BY <1>5, <1>9, <1>10, <1>11, <1>12, <1>13, <1>14 DEF A!BindPhone
<1>15. ASSUME NEW d, NEW c,
             \/ A!RunCreate(d, c) \/ A!OpenKnown(d, c) \/ A!EnterByCredentialId(d, c) \/ A!ConfirmArchive(d, c)
             \/ A!LookupAnswered(d) \/ A!SignOut(d)
             \/ A!DeriveAccount(d) \/ A!RegisterIfMissing(d) \/ A!SwitchAccount(d, c) \/ A!RunExpand(d, c)
             \/ A!ArchiveDerivedAccount(d, c) \/ A!SyncAccounts(d) \/ A!EnsureRecoveryOwner(d)
      PROVE  UNCHANGED <<a_world, a_bind, a_bound, a_consumed>>
  BY <1>15 DEF A!RunCreate, A!OpenKnown, A!EnterByCredentialId, A!ConfirmArchive, A!LookupAnswered, A!SignOut,
               A!DeriveAccount, A!RegisterIfMissing, A!SwitchAccount, A!RunExpand,
               A!ArchiveDerivedAccount, A!SyncAccounts, A!EnsureRecoveryOwner, A!phone
<1>16. ASSUME NEW m, A!Deliver(m) \/ A!Lose(m) PROVE UNCHANGED <<a_world, a_bind, a_bound, a_consumed>>
  BY <1>16 DEF A!Deliver, A!Lose, A!phone
<1>17. a_world.devices \subseteq Devices
  BY DevicesFacts DEF AccountsInv
<1>18. CASE AccountsStep
  <2>1. ASSUME NEW d, A!Landing(d) \/ A!Wallet(d) \/ A!Beside(d) PROVE Fine
    BY <1>1, <1>15, <2>1 DEF A!Landing, A!Wallet, A!Beside
  <2> QED BY <1>1, <1>14, <1>16, <1>17, <1>18, <2>1, Zenon DEF AccountsStep, A!Next
<1>19. CASE UNCHANGED a_all
  BY <1>1, <1>19 DEF a_all
<1> QED BY <1>18, <1>19 DEF Next, all, RelayStep, EmbedStep, CeremonyStep, CardsStep, DonationsStep,
                            RecoveryStep, ReceiptsStep

\* A passkey is called unusable only when the registry has no wallet for it, a wallet
\* never shows more confirmations of its phone than verifications it has used up, and the
\* key of a receipt outlives its payment, whatever calls are lost and overlap.
THEOREM WalletStaysKnown == Spec => WalletIsKnown
<1>1. Init => AccountsInv
  <2> SUFFICES ASSUME Init PROVE AccountsInv
    OBVIOUS
  <2>1. /\ a_world \in Worlds /\ a_asked = [d \in Devices |-> NoCred]
        /\ a_bind = [d \in Devices |-> A!Unbound]
        /\ a_consumed = [c \in Creds |-> 0] /\ a_bound = a_consumed
    BY DEF Init, A!Init
  <2>2. \A d \in Devices : /\ DOMAIN a_bind[d] = {"at", "cred", "otp", "count"}
                           /\ a_bind[d].at = "idle"
    BY <2>1 DEF A!Unbound
  <2>3. \A c \in Creds : Counting(a_bind, c) = {}
    BY <2>2 DEF Counting
  <2>4. PhoneSound(a_bind, a_bound, a_consumed)
    <3>1. \A c \in Creds : a_bound[c] = 0 /\ a_consumed[c] = 0 /\ Cardinality(Counting(a_bind, c)) = 0
      BY <2>1, <2>3, FS_EmptySet
    <3>2. \A d \in Devices : a_bind[d].at # "write"
      BY <2>2
    <3> QED BY <3>1, <3>2 DEF PhoneSound
  <2> QED BY <2>1, <2>2, <2>4 DEF AccountsInv
<1>2. AccountsInv /\ [Next]_all => AccountsInv'
  <2> SUFFICES ASSUME AccountsInv, [Next]_all PROVE AccountsInv'
    OBVIOUS
  <2> QED BY LookupStep, PhoneStep DEF AccountsInv, PhoneInv
<1>3. AccountsInv => A!BindingIsProven
  <2> SUFFICES ASSUME AccountsInv, NEW c \in Creds PROVE a_bound[c] <= a_consumed[c]
    BY DEF A!BindingIsProven
  <2>1. /\ a_bound[c] \in Nat /\ a_consumed[c] \in Nat /\ Cardinality(Counting(a_bind, c)) \in Nat
        /\ a_bound[c] + Cardinality(Counting(a_bind, c)) <= a_consumed[c]
    BY CountingFacts DEF AccountsInv, PhoneSound
  <2> QED BY <2>1
<1>4. AccountsInv /\ [Next]_all =>
        [\A d \in Devices : a_asked[d] # NoCred /\ a_asked'[d] = NoCred /\ d \in a_unusable'
           => a_wallets[a_asked[d]] = "none"]_(A!vars)
  BY LookupStep
<1> QED BY <1>1, <1>2, <1>3, <1>4, KeysStay, PTL DEF Spec, WalletIsKnown, A!UnusableIsUnknown
=============================================================================
