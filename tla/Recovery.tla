-------------------------------- MODULE Recovery --------------------------------
(**************************************************************************)
(* Getting EURe back from a Safe nobody has a record of (wallet routes/   *)
(* Recover.tsx, lib/recover.ts): the user names the Safe and its salt,    *)
(* picks a passkey, and the page finds out from its signature whether     *)
(* the Safe is derived from it; then it signs the transfer of the whole   *)
(* balance and the relay deploys the Safe and carries it out.  The fields *)
(* of the form stay open all the while.                                   *)
(*                                                                        *)
(* A Safe is the pair of the passkey and the salt it is derived from: the *)
(* hashes are taken to be injective.  WalletRelay has the relay in full;  *)
(* here it reads the chain as it is.                                      *)
(**************************************************************************)
EXTENDS Naturals, Sequences

CONSTANTS
  Pages,      \* tabs
  Passkeys,   \* of the user, each kept for one rpId
  Legacy,     \* \subseteq Passkeys: those of wallet.domovina.ai, the others of its parent
  SaltNonces,
  NoKey,
  OnParent,   \* BOOLEAN: the page is not at wallet.domovina.ai, where both rpIds apply
  MaxTxs      \* bound: transactions of the relay, and transfers from elsewhere

RecoveryAssumption == Legacy \subseteq Passkeys /\ OnParent \in BOOLEAN /\ MaxTxs \in Nat

Safes == Passkeys \X SaltNonces

VARIABLES
  chain,      \* safe -> [code, nonce, eure]
  form,       \* page -> what its fields say: [safe, salt]
  phase,      \* page -> [kind, ...], with the fields as they were at the click
  txs,        \* transactions of the relay: [safe, key, salt, cold, st]
  others      \* transfers from elsewhere

vars == <<chain, form, phase, txs, others>>

Form == [kind |-> "form"]
Error == [kind |-> "error"]

Init ==
  /\ chain = [s \in Safes |-> [code |-> FALSE, nonce |-> 0, eure |-> FALSE]]
  /\ form \in [Pages -> [safe : {<<k, s>> : k \in Passkeys, s \in SaltNonces}, salt : SaltNonces]]
  /\ phase = [p \in Pages |-> Form] /\ txs = << >> /\ others = 0

In(p, kind) == phase[p].kind = kind
Go(p, ph) == phase' = [phase EXCEPT ![p] = ph]
OnlyPhase == UNCHANGED <<chain, form, txs, others>>

\* Whatever the page is doing.
Edit(p) ==
  /\ \E f \in [safe : Safes, salt : SaltNonces] : f # form[p] /\ form' = [form EXCEPT ![p] = f]
  /\ UNCHANGED <<chain, phase, txs, others>>

-----------------------------------------------------------------------------
(* Which passkey is it? *)

\* The rpIds that this host may ask for, the parent first.
RpIds == IF OnParent THEN <<"parent">> ELSE <<"parent", "legacy">>
KeysOf(rp) == IF rp = "legacy" THEN Legacy ELSE Passkeys \ Legacy

OnIdentify(p) ==
  /\ In(p, "form")
  /\ Go(p, [kind |-> "identifying", target |-> form[p].safe, salt |-> form[p].salt, rps |-> RpIds])
  /\ OnlyPhase

\* The pubkeys an ECDSA signature can have come from: the one that made it, and one
\* that belongs to nobody.
RecoverPubkeys(k) == {k, NoKey}

PredictSafe(k, salt) == <<k, salt>>

\* The next rpId, or the end of them.
NextRp(ph) == IF Len(ph.rps) = 1 THEN Error ELSE [ph EXCEPT !.rps = Tail(@)]

\* The user picks any passkey of the rpId or dismisses the prompt; one that does not
\* control the Safe is passed over.  Any other error ends the search.
DiscoverableGet(p) ==
  LET ph == phase[p]
  IN /\ In(p, "identifying")
     /\ \/ Go(p, NextRp(ph)) \/ Go(p, Error)
        \/ \E k \in KeysOf(Head(ph.rps)) :
             LET matches == {x \in RecoverPubkeys(k) : PredictSafe(x, ph.salt) = ph.target}
             IN IF matches = {} THEN Go(p, NextRp(ph))
                ELSE Go(p, [kind |-> "balance", key |-> CHOOSE x \in matches : TRUE, target |-> ph.target])
     /\ OnlyPhase

\* The balance of the Safe that was asked about, or an error of the RPC node.
ReadBalance(p) ==
  /\ In(p, "balance")
  /\ \/ Go(p, [kind |-> "identified", key |-> phase[p].key, eure |-> chain[phase[p].target].eure])
     \/ Go(p, Error)
  /\ OnlyPhase

-----------------------------------------------------------------------------
(* The withdrawal *)

\* The button is there while the balance shown is not zero; the Safe and the salt are
\* those the fields say now.
OnWithdraw(p) ==
  /\ In(p, "identified") /\ phase[p].eure
  /\ Go(p, [kind |-> "amount", key |-> phase[p].key, safe |-> form[p].safe, salt |-> form[p].salt])
  /\ OnlyPhase

\* The balance is read again.  The transfer of it is signed over nonce 0.
SignTransfer(p) ==
  /\ In(p, "amount")
  /\ \/ chain[phase[p].safe].eure /\ Go(p, [phase[p] EXCEPT !.kind = "relay"])
     \/ Go(p, Error)
  /\ OnlyPhase

Tx(ph, cold) == [safe |-> ph.safe, key |-> ph.key, salt |-> ph.salt, cold |-> cold, st |-> "pending"]

\* The signature counts for the owner of the Safe and its next nonce.
Executes(s, t) == s.code /\ t.safe[1] = t.key /\ s.nonce = 0 /\ s.eure

\* What the multiSend of the cold path has deployed when the transfer comes.
DeployedSafe(t) == IF t.cold THEN PredictSafe(t.key, t.salt) ELSE t.safe

Outcome(t) ==
  LET code == chain[t.safe].code \/ (t.cold /\ DeployedSafe(t) = t.safe)
  IN CASE t.cold /\ chain[DeployedSafe(t)].code -> "reverted"
       [] ~ code -> "noop"
       [] OTHER  -> IF Executes([chain[t.safe] EXCEPT !.code = TRUE], t) THEN "landed" ELSE "reverted"

\* A slip: the relay deploys what it is asked to.
AnyMatches(ph) == TRUE

\* create2Mismatch
Create2Matches(ph) == PredictSafe(ph.key, ph.salt) = ph.safe

\* POST /api/relay: the transfer by itself for a Safe that has code, with its deployment
\* for one that has not and is the one these owners give.  The answer may be lost.
Relay(p) ==
  LET ph == phase[p]
      t  == Tx(ph, ~ chain[ph.safe].code)
  IN /\ In(p, "relay")
     /\ IF (t.cold => Create2Matches(ph)) /\ Outcome(t) # "reverted" /\ Len(txs) < MaxTxs
        THEN txs' = Append(txs, t) /\ (Go(p, [kind |-> "done"]) \/ Go(p, Error))
        ELSE Go(p, Error) /\ UNCHANGED txs
     /\ UNCHANGED <<chain, form, others>>

TryAgain(p) == In(p, "error") /\ Go(p, Form) /\ OnlyPhase

-----------------------------------------------------------------------------
(* The chain *)

Mine(i) ==
  LET t == txs[i]
      o == Outcome(t)
      d == IF t.cold /\ o # "reverted" THEN [chain EXCEPT ![DeployedSafe(t)].code = TRUE] ELSE chain
  IN /\ t.st = "pending"
     /\ txs' = [txs EXCEPT ![i].st = o]
     /\ chain' = IF o = "landed" THEN [d EXCEPT ![t.safe].nonce = 1, ![t.safe].eure = FALSE] ELSE d
     /\ UNCHANGED <<form, phase, others>>

\* Someone pays in, or the wallet the Safe belongs to deploys it and pays out.
Elsewhere(s) ==
  /\ others < MaxTxs /\ others' = others + 1
  /\ \/ ~ chain[s].eure /\ chain' = [chain EXCEPT ![s].eure = TRUE]
     \/ chain[s].eure /\ chain' = [chain EXCEPT ![s] = [code |-> TRUE, nonce |-> 1, eure |-> FALSE]]
  /\ UNCHANGED <<form, phase, txs>>

Step(p) ==
  \/ Edit(p) \/ OnIdentify(p) \/ DiscoverableGet(p) \/ ReadBalance(p)
  \/ OnWithdraw(p) \/ SignTransfer(p) \/ Relay(p) \/ TryAgain(p)

Next == (\E p \in Pages : Step(p)) \/ (\E i \in DOMAIN txs : Mine(i)) \/ \E s \in Safes : Elsewhere(s)

Spec == Init /\ [][Next]_vars

-----------------------------------------------------------------------------
(* Properties *)

\* The variables stay in their types.
TypeOK ==
  /\ chain \in [Safes -> [code : BOOLEAN, nonce : 0..1, eure : BOOLEAN]]
  /\ form \in [Pages -> [safe : Safes, salt : SaltNonces]]
  /\ \A p \in Pages : phase[p].kind \in {"form", "identifying", "balance", "identified", "amount",
                                         "relay", "done", "error"}
  /\ \A i \in DOMAIN txs : txs[i].st \in {"pending", "landed", "reverted", "noop"}
  /\ others \in 0..MaxTxs

\* Although the fields may say another Safe or salt than the one the passkey was found
\* for, a withdrawal the page calls done moves the money of the Safe it was signed for;
\* only another transaction of the same Safe, mined before it, keeps it from that.
DoneIsMoved ==
  \A i \in DOMAIN txs :
    /\ txs[i].st # "noop"
    /\ txs[i].st = "reverted" => chain[txs[i].safe].nonce > 0
==============================================================================
