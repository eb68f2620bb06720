----------------------------- MODULE WalletEmbed -----------------------------
(****************************************************************************)
(* A host page and the wallet it embeds (wallet/public/sdk.js and            *)
(* routes/Embed.tsx): the full-page handoffs of connect() and               *)
(* createAccount(), and send() through the iframe, which signs with the      *)
(* identity the host was connected to - found in its own storage, that may   *)
(* be empty, or in the registry, that may be out of reach.  Messages of the  *)
(* two windows arrive in order and are taken as they are posted.             *)
(****************************************************************************)
EXTENDS Naturals, FiniteSets

CONSTANTS
  Creds,        \* identities
  Accts,        \* their accounts
  Owner,        \* Accts -> Creds
  Bootstrap,    \* the accounts that are an identity's own, the others are derived
  None,
  Storages,     \* records [known, accts, active]: what the iframe's storage may hold
  MaxSends,     \* bound: send() calls
  MaxHandoffs   \* bound: full-page handoffs

VARIABLES
  storage,    \* the storage of the iframe
  page,       \* the host page: [want, url, acct], want # "" while the tab is at the wallet
  connected,  \* the cached identity: an account
  ready,      \* __domovina_iframe_ready__ was received
  shown,      \* the iframe covers the page
  stage,      \* Embed's stage: [kind, send]
  send,       \* the send() calls: [at, acct, cred, answer]
  timers,     \* timeouts that will hide the iframe
  handoffs

vars == <<storage, page, connected, ready, shown, stage, send, timers, handoffs>>
host == <<page, connected, handoffs>>

Sends   == 1..MaxSends
NoSend  == [at |-> "none", acct |-> None, cred |-> None, answer |-> ""]
Waiting == [kind |-> "waiting", send |-> 0]
AtHost  == [want |-> "", url |-> "", acct |-> None]
Init ==
  /\ storage \in Storages /\ page = AtHost /\ connected = None
  /\ ready = FALSE /\ shown = FALSE /\ stage = Waiting /\ send = [s \in Sends |-> NoSend]
  /\ timers = 0 /\ handoffs = 0

Quiet == \A s \in Sends : send[s].at \in {"none", "over"}
------------------------------------------------------------------------------
\* The handoffs.  The tab leaves the page, so nothing is under way in it (bound: Quiet).

Redirect(want) ==
  /\ page.want = "" /\ page.url = "" /\ Quiet /\ handoffs < MaxHandoffs
  /\ want = "connect" => connected = None \/ handoffs > 0     \* force re-picks
  /\ page' = [AtHost EXCEPT !.want = want] /\ handoffs' = handoffs + 1
  /\ ready' = FALSE /\ shown' = FALSE /\ stage' = Waiting /\ timers' = 0
  /\ UNCHANGED <<storage, connected, send>>

\* finishConnectReturn with the account picked, finishCreateAccountReturn with the identity
\* whose account was opened, or its error.
Return(a) ==
  /\ page.want # "" /\ (page.want = "account" => a \in Bootstrap)
  /\ \/ page' = [page EXCEPT !.want = "", !.url = page.want, !.acct = a]
     \/ page.want = "account" /\ page' = [page EXCEPT !.want = "", !.url = "cancelled"]
  /\ UNCHANGED <<storage, connected, ready, shown, stage, send, timers, handoffs>>

\* consumeReturnParams and consumeAccountReturnParams: whichever the page calls first takes
\* the parameters and the single-use token; only the second leaves a plain return alone.
Consume(by) ==
  /\ page.want = "" /\ page.url # "" /\ (by = "account" => page.url # "connect")
  /\ page' = AtHost
  /\ connected' = IF page.url # "cancelled" THEN page.acct ELSE connected
  /\ UNCHANGED <<storage, ready, shown, stage, send, timers, handoffs>>

Disconnect ==
  /\ page = AtHost /\ connected # None /\ connected' = None
  /\ UNCHANGED <<storage, page, ready, shown, stage, send, timers, handoffs>>
------------------------------------------------------------------------------
\* send(): commands wait for the iframe to say it is ready.
Send(s) ==
  /\ page = AtHost /\ connected # None /\ send[s].at = "none"
  /\ \A t \in 1..(s - 1) : send[t].at # "none"
  /\ send' = [send EXCEPT ![s] = [NoSend EXCEPT !.acct = connected,
                                                !.at = IF ready THEN "handled" ELSE "queued"]]
  /\ UNCHANGED <<storage, host, ready, shown, stage, timers>>

FrameReady ==
  /\ ~ready /\ \E s \in Sends : send[s].at = "queued"
  /\ ready' = TRUE
  /\ send' = [s \in Sends |-> IF send[s].at = "queued" THEN [send[s] EXCEPT !.at = "handled"]
                              ELSE send[s]]
  /\ UNCHANGED <<storage, host, shown, stage, timers>>

Answer(s, a) == send' = [send EXCEPT ![s].at = "over", ![s].answer = a]

\* resolveSigningRecord: without the registry it is the iframe's own active passkey.
SigningRecords(s) ==
  LET c == Owner[send[s].acct]
  IN  IF c \in storage.known THEN {c} ELSE {c, storage.active}

\* resolveSendAccount: the identity's own account, or a derived one of it that storage or
\* the registry knows.
\* A slip: whose the account is is not looked at.
AnyAccount(c, a) == a \in Accts /\ c \in Creds
BelongsTo(c, a) == Owner[a] = c
Resolvable(c, a) == a \in Bootstrap \cup storage.accts

\* handleCommand: a refusal, or the card, which takes the place of whatever is on screen.
HandleCommand(s) ==
  /\ send[s].at = "handled"
  /\ \E c \in SigningRecords(s), reached \in BOOLEAN :
       IF c # None /\ BelongsTo(c, send[s].acct) /\ (reached \/ Resolvable(c, send[s].acct))
       THEN /\ send' = [send EXCEPT ![s].at = "card", ![s].cred = c]
            /\ stage' = [kind |-> "card", send |-> s] /\ shown' = TRUE
       ELSE Answer(s, "error") /\ UNCHANGED <<stage, shown>>
  /\ UNCHANGED <<storage, host, ready, timers>>

OnCard(s) == stage = [kind |-> "card", send |-> s] /\ shown /\ send[s].at = "card"

DismissSend(s) ==
  /\ OnCard(s) /\ Answer(s, "error") /\ shown' = FALSE /\ stage' = Waiting
  /\ UNCHANGED <<storage, host, ready, timers>>

ConfirmSend(s) ==
  /\ OnCard(s) /\ send' = [send EXCEPT ![s].at = "signing"]
  /\ stage' = [kind |-> "busy", send |-> s]
  /\ UNCHANGED <<storage, host, ready, shown, timers>>

\* Face ID and the relay, then a note in place of whatever is on screen by then; the answer
\* of the relay may be lost.
SendOver(s) ==
  /\ send[s].at = "signing" /\ \E a \in {"ok", "error"} : Answer(s, a)
  /\ stage' = [kind |-> "note", send |-> s] /\ timers' = timers + 1
  /\ UNCHANGED <<storage, host, ready, shown>>

Hide ==
  /\ timers > 0 /\ timers' = timers - 1 /\ shown' = FALSE /\ stage' = Waiting
  /\ UNCHANGED <<storage, host, ready, send>>
------------------------------------------------------------------------------
Handoff ==
  \/ \E want \in {"connect", "account"} : Redirect(want) \/ Consume(want)
  \/ \E a \in Accts : Return(a)
  \/ Disconnect
Sending == \E s \in Sends : Send(s) \/ HandleCommand(s) \/ DismissSend(s) \/ ConfirmSend(s)
                              \/ SendOver(s)
Next == Handoff \/ Sending \/ FrameReady \/ Hide

Spec == Init /\ [][Next]_vars
------------------------------------------------------------------------------
TypeOK ==
  /\ connected \in Accts \cup {None} /\ timers \in 0..MaxSends
  /\ stage.kind \in {"waiting", "card", "busy", "note"} /\ stage.send \in 0..MaxSends
  /\ \A s \in Sends : send[s].cred \in Creds \cup {None} /\ send[s].answer \in {"", "ok", "error"}

\* A payment is only ever put before the user, signed and relayed with the identity that
\* the account belongs to which the host connected - also when the iframe's storage names
\* another wallet and the registry is out of reach (Embed.tsx 120-193).
SendIsOwn == \A s \in Sends : send[s].cred # None => send[s].cred = Owner[send[s].acct]

\* A card the user has not answered can be answered.
CardsCanBeAnswered == \A s \in Sends : send[s].at = "card" => OnCard(s)
==============================================================================
