------------------------------ MODULE MCWallet -------------------------------
(****************************************************************************)
(* The wallet: payments through its relay, the identities and accounts of   *)
(* a user on two devices, the host page that embeds it, the passkey prompts *)
(* of a tab, the card tab, the recovery of a forgotten Safe, the keys of the*)
(* receipts in the browser, and donations from any wallet to the Safe of a  *)
(* campaign.  The parts share nothing, so a behaviour is one of one part.   *)
(****************************************************************************)
EXTENDS Naturals, Sequences, FiniteSets

CONSTANTS
  Tabs, Kinds, Limit, MaxTxs, MaxFaults,                          \* WalletRelay
  d1, d2, ka, kb, Devices, Creds, MaxSalt, MaxOtps, MaxPosts, MaxFailures,  \* WalletAccounts
  ka1, kb1, Accts, Bootstrap, MaxSends, MaxHandoffs,                \* WalletEmbed
  Calls,                                                          \* WalletCeremony
  Accounts, Deployed, Known, Slots, MaxSessions, Relogins,          \* Cards
  Runs, Payees, Listed, Chunk, MaxChunks, Lookback, MaxBlock,       \* Donations
  Forms, Legacy, SaltNonces, OnParent,                            \* Recovery
  Sids, Plain, MaxLosses,                                         \* ReceiptPage
  None

NoCred == None
NoCall == None
\* One passkey on two devices, two on one device, and the two devices binding a phone.
Worlds == {[creds |-> {ka}, devices |-> {d1, d2}, phone |-> FALSE],
           [creds |-> {ka, kb}, devices |-> {d1}, phone |-> TRUE],
           [creds |-> {ka}, devices |-> {d1, d2}, phone |-> TRUE]}
Owner == [x \in Accts |-> IF x \in {ka, ka1} THEN ka ELSE kb]
\* Empty, as a browser partitions it; that of another identity; that of both, the other active.
Storages == {[known |-> {}, accts |-> {}, active |-> None],
             [known |-> {kb}, accts |-> {kb, kb1}, active |-> kb],
             [known |-> {ka, kb}, accts |-> {ka, kb, ka1}, active |-> kb]}
Prompts == [Calls -> {"create", "pick", "legacy", "sign"}]

VARIABLES
  r_kind, r_chain, r_lagged, r_txs, r_req, r_used, r_created, r_faults,
  a_world, a_made, a_local, a_wallets, a_accounts, a_posts, a_asked, a_unusable, a_syncing, a_ensuring, a_bind, a_consumed, a_bound, a_otps, a_failures,
  e_storage, e_page, e_connected, e_ready, e_shown, e_stage, e_send, e_timers, e_handoffs,
  c_kind, c_at, c_tries, c_current, c_aborted, c_platform,
  g_active, g_page, g_jwt, g_sessions, g_expired, g_gp, g_store, g_fetches, g_op, g_screen, g_post, g_rows, g_funded,
  n_chain, n_latest, n_watchlist, n_cursors, n_run, n_start, n_credited, n_faults,
  v_chain, v_form, v_phase, v_txs, v_others,
  k_storable, k_stored, k_files, k_made, k_intents, k_open, k_page, k_losses, k_cleared,
  part   \* the part whose behaviour this is

r_all == <<r_kind, r_chain, r_lagged, r_txs, r_req, r_used, r_created, r_faults>>
a_all == <<a_world, a_made, a_local, a_wallets, a_accounts, a_posts, a_asked, a_unusable, a_syncing, a_ensuring, a_bind, a_consumed, a_bound, a_otps, a_failures>>
e_all == <<e_storage, e_page, e_connected, e_ready, e_shown, e_stage, e_send, e_timers, e_handoffs>>
c_all == <<c_kind, c_at, c_tries, c_current, c_aborted, c_platform>>
g_all == <<g_active, g_page, g_jwt, g_sessions, g_expired, g_gp, g_store, g_fetches, g_op, g_screen, g_post, g_rows, g_funded>>
n_all == <<n_chain, n_latest, n_watchlist, n_cursors, n_run, n_start, n_credited, n_faults>>
v_all == <<v_chain, v_form, v_phase, v_txs, v_others>>
k_all == <<k_storable, k_stored, k_files, k_made, k_intents, k_open, k_page, k_losses, k_cleared>>
all == <<r_all, a_all, e_all, c_all, g_all, n_all, v_all, k_all, part>>

R == INSTANCE WalletRelay WITH
  kind <- r_kind, chain <- r_chain, lagged <- r_lagged, txs <- r_txs,
  req <- r_req, used <- r_used, created <- r_created,
  faults <- r_faults
A == INSTANCE WalletAccounts WITH
  world <- a_world, made <- a_made, local <- a_local,
  wallets <- a_wallets, accounts <- a_accounts, posts <- a_posts,
  asked <- a_asked, unusable <- a_unusable, syncing <- a_syncing,
  ensuring <- a_ensuring, bind <- a_bind, consumed <- a_consumed,
  bound <- a_bound, otps <- a_otps, failures <- a_failures
E == INSTANCE WalletEmbed WITH
  storage <- e_storage, page <- e_page, connected <- e_connected,
  ready <- e_ready, shown <- e_shown, stage <- e_stage, send <- e_send,
  timers <- e_timers, handoffs <- e_handoffs
C == INSTANCE WalletCeremony WITH
  Kinds <- Prompts, kind <- c_kind, at <- c_at, tries <- c_tries,
  current <- c_current, aborted <- c_aborted, platform <- c_platform
G == INSTANCE Cards WITH
  Nobody <- None, active <- g_active, page <- g_page, jwt <- g_jwt,
  sessions <- g_sessions, expired <- g_expired, gp <- g_gp,
  store <- g_store, fetches <- g_fetches, op <- g_op,
  screen <- g_screen, post <- g_post, rows <- g_rows,
  funded <- g_funded
N == INSTANCE Donations WITH
  chain <- n_chain, latest <- n_latest, watchlist <- n_watchlist,
  cursors <- n_cursors, run <- n_run, start <- n_start,
  credited <- n_credited, faults <- n_faults
V == INSTANCE Recovery WITH
  Pages <- Forms, Passkeys <- Creds, NoKey <- None, chain <- v_chain,
  form <- v_form, phase <- v_phase, txs <- v_txs, others <- v_others
K == INSTANCE ReceiptPage WITH
  Pages <- Forms, storable <- k_storable, stored <- k_stored,
  files <- k_files, made <- k_made, intents <- k_intents,
  open <- k_open, page <- k_page, losses <- k_losses,
  cleared <- k_cleared

\* A part that does not run has one state.
Init ==
  /\ part \in {"relay", "accounts", "embed", "ceremony", "cards", "donations", "recovery", "receipts"}
  /\ R!Init /\ A!Init /\ E!Init /\ C!Init /\ G!Init /\ N!Init /\ V!Init /\ K!Init
  /\ part # "relay" => r_kind = "bootstrap"
  /\ part # "accounts" => (a_world.phone /\ a_world.devices = {d1})
  /\ part # "embed" => e_storage.known = {}
  /\ part # "ceremony" => c_kind = [x \in Calls |-> "create"]
  /\ part # "cards" => g_active = ka
  /\ part # "recovery" => v_form = [p \in Forms |-> [safe |-> <<ka, 1>>, salt |-> 1]]
  /\ part # "receipts" => k_storable

Of(p) == part = p /\ UNCHANGED part
RelayStep == Of("relay") /\ R!Next /\ UNCHANGED <<a_all, e_all, c_all, g_all, n_all, v_all, k_all>>
AccountsStep == Of("accounts") /\ A!Next /\ UNCHANGED <<r_all, e_all, c_all, g_all, n_all, v_all, k_all>>
EmbedStep == Of("embed") /\ E!Next /\ UNCHANGED <<r_all, a_all, c_all, g_all, n_all, v_all, k_all>>
CeremonyStep == Of("ceremony") /\ C!Next /\ UNCHANGED <<r_all, a_all, e_all, g_all, n_all, v_all, k_all>>
CardsStep == Of("cards") /\ G!Next /\ UNCHANGED <<r_all, a_all, e_all, c_all, n_all, v_all, k_all>>
DonationsStep == Of("donations") /\ N!Next /\ UNCHANGED <<r_all, a_all, e_all, c_all, g_all, v_all, k_all>>
RecoveryStep == Of("recovery") /\ V!Next /\ UNCHANGED <<r_all, a_all, e_all, c_all, g_all, n_all, k_all>>
ReceiptsStep == Of("receipts") /\ K!Next /\ UNCHANGED <<r_all, a_all, e_all, c_all, g_all, n_all, v_all>>
Next == RelayStep \/ AccountsStep \/ EmbedStep \/ CeremonyStep \/ CardsStep \/ DonationsStep \/ RecoveryStep \/ ReceiptsStep
Spec == Init /\ [][Next]_all

ASSUME WalletAssumption == R!RelayAssumption /\ A!AccountsAssumption /\ G!CardsAssumption /\ N!DonationsAssumption /\ V!RecoveryAssumption
                           /\ K!PageAssumption /\ C!CeremonyAssumption
------------------------------------------------------------------------------
\* WalletRelay, Donations, Recovery: a relayed transaction either carries out what the
\* passkey has signed or fails for all to see, a wallet is shown to its user only when its
\* Safe is there and the passkey owns it, the cursor of the indexer never passes a donation
\* that the campaign has not been told of, and a recovery called done moves the money of the
\* Safe it was signed for, unless another transaction of that Safe came first.
MoneyIsNotLost ==
  R!NothingIsStranded /\ R!RevealedIsOwned /\ N!DonationsAreTold /\ V!DoneIsMoved

\* WalletAccounts: a passkey is called unusable only when the registry has no wallet for it,
\* never because a call failed, and a wallet never shows more confirmations of its phone than
\* verifications it has used up.  ReceiptPage: whatever answers are lost and tabs closed, an
\* intent made under a receipt sid has its key in the browser, unless that does not save or
\* has been cleared, and a receipt is never asked for with the key of another.
WalletIsKnown ==
  A!UnusableIsUnknown /\ []A!BindingIsProven /\ [](K!KeyOutlivesPayment /\ K!OwnKeyOnly)

\* WalletEmbed: a payment is only ever put before the user, signed and relayed with the
\* identity that the account belongs to which the host connected.
SendIsOwn == E!SendIsOwn

\* WalletCeremony: however prompts overlap, fail and are repeated, only the newest is still
\* going on.
OnlyNewestGoesOn == C!OnlyNewestGoesOn

\* Cards: more than a preset goes only to a card account with a second owner, whatever
\* tokens, accounts and answers crossed since the owners were read.
GateHolds == G!GateHolds
==============================================================================
