----------------------------- MODULE WalletRelay -----------------------------
(****************************************************************************)
(* Sending from a passkey wallet (wallet/functions/api/relay.ts and         *)
(* bootstrap-deploy.ts; the client side in lib/bootstrap.ts, activate.ts,   *)
(* recover.ts and routes/Send.tsx).  One Safe: the relayer pays the gas of  *)
(* the transfers its passkey signs and deploys the Safe with the first one. *)
(* An RPC node may lag: each read is answered from the chain as it is or as  *)
(* it was before the last transaction.                                       *)
(****************************************************************************)
EXTENDS Naturals, Sequences

CONSTANTS
  Tabs,      \* the tabs and devices that send
  Kinds,     \* \subseteq {"bootstrap", "derived", "pinka"}
  Limit,     \* FREE_DAILY_LIMIT
  MaxTxs,    \* bound: transactions broadcast
  MaxFaults  \* bound: RPC errors for a transaction the node did accept

RelayAssumption ==
  /\ Kinds \subseteq {"bootstrap", "derived", "pinka"} /\ Limit \in Nat
  /\ MaxTxs \in Nat /\ MaxFaults \in Nat

VARIABLES
  kind,      \* where the address comes from
  chain,     \* the Safe, its signer and what else the relay has deployed
  lagged,    \* the chain as a lagging node still has it
  txs,       \* transactions of the relayer, in the order of their broadcast
  req,       \* each tab's request, on either side of the wire
  used,      \* the KV counter of the signer
  created,   \* bootstrap-deploy: "no", "asked", "revealed" or "failed"
  faults

vars == <<kind, chain, lagged, txs, req, used, created, faults>>

Views == {chain, lagged}
Idle == [at |-> "idle", op |-> "send", nonce |-> 0, used |-> 0, skipSigner |-> FALSE,
         skipSafe |-> FALSE]

Init ==
  /\ kind \in Kinds
  /\ chain = [safe |-> FALSE, owner |-> FALSE, signer |-> kind = "derived",
              nonce |-> 0, threshold |-> 1, strays |-> 0]
  /\ lagged = chain
  /\ txs = <<>> /\ used = 0 /\ faults = 0
  /\ created = IF kind = "bootstrap" THEN "no" ELSE "revealed"
  /\ req = [c \in Tabs |-> Idle]

At(c, at) == req[c].at = at
Go(c, at) == req' = [req EXCEPT ![c].at = at]
End(c) == req' = [req EXCEPT ![c] = Idle]
Still == UNCHANGED <<kind, chain, lagged>>
------------------------------------------------------------------------------
\* What a transaction does where it is executed.

\* execTransaction checks one signature of the passkey over the current nonce.
Executes(s, t) == s.safe /\ s.owner /\ s.signer /\ s.threshold = 1 /\ s.nonce = t.nonce
Executed(s) == [s EXCEPT !.nonce = @ + 1]

\* The Safe that createProxyWithNonce deploys for these owners and this salt is the one
\* addressed, except for a bootstrap wallet: that one comes from the owner it began with.
Predicted == kind # "bootstrap"

\* The multiSend of the cold path: it deploys what is missing, or what it takes to be.
Deploys(s, t) ==
  LET s1 == IF t.skipSigner THEN s ELSE [s EXCEPT !.signer = TRUE]
  IN  CASE t.skipSafe -> s1
        [] ~t.skipSafe /\ Predicted -> [s1 EXCEPT !.safe = TRUE, !.owner = TRUE]
        [] OTHER -> [s1 EXCEPT !.strays = 1]
Collides(s, t) == ~t.skipSafe /\ (IF Predicted THEN s.safe ELSE s.strays = 1)

\* A call of an address without code succeeds and does nothing.
Outcome(s, t) ==
  LET d == IF t.path = "cold" THEN Deploys(s, t) ELSE s
  IN  CASE t.path = "boot" -> IF s.safe THEN "reverted" ELSE "landed"
        [] t.path = "cold" /\ Collides(s, t) -> "reverted"
        [] t.path # "boot" /\ ~d.safe -> "noop"
        [] OTHER -> IF Executes(d, t) THEN "landed" ELSE "reverted"
After(s, t) ==
  CASE Outcome(s, t) = "reverted" -> s
    [] t.path = "boot" /\ Outcome(s, t) = "landed" ->
         [s EXCEPT !.safe = TRUE, !.owner = TRUE, !.signer = TRUE, !.nonce = 1]
    [] OTHER -> LET d == IF t.path = "cold" THEN Deploys(s, t) ELSE s
                IN  IF Outcome(s, t) = "landed" THEN Executed(d) ELSE d

\* sendTransaction estimates the gas at some node first and refuses what reverts there.
Estimates(v, t) == Outcome(v, t) # "reverted"
Tx(c, path) == [path |-> path, nonce |-> req[c].nonce, skipSigner |-> req[c].skipSigner,
                skipSafe |-> req[c].skipSafe, by |-> c, st |-> "pending"]
Broadcast(t) == Len(txs) < MaxTxs /\ txs' = Append(txs, t)

Mine(i) ==
  /\ txs[i].st = "pending"
  /\ chain' = After(chain, txs[i]) /\ lagged' = chain
  /\ txs' = [txs EXCEPT ![i].st = Outcome(chain, txs[i])]
  /\ UNCHANGED <<kind, req, used, created, faults>>

CatchUp ==
  /\ lagged # chain /\ lagged' = chain
  /\ UNCHANGED <<kind, chain, txs, req, used, created, faults>>

\* The other owner of a bootstrap or derived Safe raises its threshold elsewhere.
RaiseThreshold ==
  /\ kind # "pinka" /\ chain.safe /\ chain.threshold = 1 /\ created = "revealed"
  /\ chain' = [chain EXCEPT !.threshold = 2, !.nonce = @ + 1] /\ lagged' = chain
  /\ UNCHANGED <<kind, txs, req, used, created, faults>>
------------------------------------------------------------------------------
\* The client.

\* A send looks at the threshold again, an activation whether there is anything to do;
\* a recovery takes the Safe for undeployed and its nonce for 0.
Start(c, op) ==
  /\ At(c, "idle") /\ created = "revealed"
  /\ \E v \in Views :
       CASE op = "send" -> ~(v.safe /\ v.threshold > 1)
         [] op = "activate" -> kind = "derived" /\ ~v.safe
         [] op = "recover" -> kind = "pinka"
  /\ req' = [req EXCEPT ![c] = [Idle EXCEPT !.op = op,
                                            !.at = IF op = "recover" THEN "sign" ELSE "nonce"]]
  /\ Still /\ UNCHANGED <<txs, used, created, faults>>

\* getSafeTxHash
ReadNonce(c) ==
  /\ At(c, "nonce")
  /\ \E v \in Views : req' = [req EXCEPT ![c].nonce = IF v.safe THEN v.nonce ELSE 0,
                                         ![c].at = "sign"]
  /\ Still /\ UNCHANGED <<txs, used, created, faults>>

\* Face ID, and the POST of what it signed.
Sign(c) ==
  /\ At(c, "sign") /\ (Go(c, "limits") \/ End(c))
  /\ Still /\ UNCHANGED <<txs, used, created, faults>>
------------------------------------------------------------------------------
\* POST /api/relay

ReadLimits(c) ==
  /\ At(c, "limits")
  /\ IF used >= Limit THEN End(c)
     ELSE req' = [req EXCEPT ![c].used = used, ![c].at = "preflight"]
  /\ Still /\ UNCHANGED <<txs, used, created, faults>>

Cold(c, signer, safe) ==
  req' = [req EXCEPT ![c].at = "cold", ![c].skipSigner = signer, ![c].skipSafe = safe]

\* create2Mismatch: every path that deploys the Safe refuses another one.
ColdOrRefused(c, signer, safe) == IF safe \/ Predicted THEN Cold(c, signer, safe) ELSE End(c)

HasCode(v) == v.safe
Preflight(c) ==
  /\ At(c, "preflight")
  /\ \E v, w \in Views : IF HasCode(v) THEN Go(c, "hot") ELSE ColdOrRefused(c, w.signer, FALSE)
  /\ Still /\ UNCHANGED <<txs, used, created, faults>>

\* The transfer by itself; an error is looked into, even one that comes back for a
\* transaction that was accepted.
SendHotPath(c) ==
  /\ At(c, "hot")
  /\ \/ /\ \E v \in Views : Estimates(v, Tx(c, "hot"))
        /\ Broadcast(Tx(c, "hot"))
        /\ \/ Go(c, "bump") /\ UNCHANGED faults
           \/ faults < MaxFaults /\ faults' = faults + 1 /\ Go(c, "recheck")
     \/ /\ \E v \in Views : ~Estimates(v, Tx(c, "hot"))
        /\ Go(c, "recheck") /\ UNCHANGED <<txs, faults>>
  /\ Still /\ UNCHANGED <<used, created>>

\* Both deployed: the error goes to the client, as a threshold above 1 or as it is.
Recheck(c) ==
  /\ At(c, "recheck")
  /\ \E v, w \in Views : IF v.safe /\ w.signer THEN End(c) ELSE ColdOrRefused(c, w.signer, v.safe)
  /\ Still /\ UNCHANGED <<txs, used, created, faults>>

SendColdPath(c) ==
  /\ At(c, "cold")
  /\ \/ /\ \E v \in Views : Estimates(v, Tx(c, "cold"))
        /\ Broadcast(Tx(c, "cold")) /\ Go(c, "bump")
     \/ /\ \E v \in Views : ~Estimates(v, Tx(c, "cold"))
        /\ End(c) /\ UNCHANGED txs
  /\ Still /\ UNCHANGED <<used, created, faults>>

\* The counters go up by what was read, and the client is told the hash.
Bump(c) ==
  /\ At(c, "bump") /\ End(c) /\ used' = req[c].used + 1
  /\ Still /\ UNCHANGED <<txs, created, faults>>
------------------------------------------------------------------------------
\* runCreate and POST /api/bootstrap-deploy: the passkey is named after the address, so
\* the Safe starts with another owner, whose signature makes the passkey one as well.
Create(c) ==
  /\ kind = "bootstrap" /\ created = "no" /\ At(c, "idle")
  /\ created' = "asked" /\ Go(c, "boot")
  /\ Still /\ UNCHANGED <<txs, used, faults>>

BootstrapDeploy(c) ==
  /\ At(c, "boot")
  /\ \/ used < Limit /\ Broadcast(Tx(c, "boot"))
        /\ req' = [req EXCEPT ![c].at = "receipt", ![c].used = used] /\ UNCHANGED created
     \/ End(c) /\ created' = "failed" /\ UNCHANGED txs   \* a cap, the network, the gas
  /\ Still /\ UNCHANGED <<used, faults>>

OwnTx(c) == {i \in 1..Len(txs) : txs[i].by = c /\ txs[i].path = "boot"}
\* A slip: the wallet is shown once the transaction is on its way.
Submitted(c) == OwnTx(c) # {}
Confirmed(c) == \E i \in OwnTx(c) : txs[i].st = "landed"
\* The wallet is kept and shown on a receipt of success only; a receipt that fails or
\* does not come in time leaves a passkey without a wallet.
AwaitReceipt(c) ==
  /\ At(c, "receipt") /\ End(c)
  /\ \/ Confirmed(c) /\ created' = "revealed" /\ used' = req[c].used + 1
     \/ created' = "failed" /\ UNCHANGED used
  /\ Still /\ UNCHANGED <<txs, faults>>
------------------------------------------------------------------------------
Request(c) ==
  \/ \E op \in {"send", "activate", "recover"} : Start(c, op)
  \/ ReadNonce(c) \/ Sign(c) \/ Create(c)
Serve(c) ==
  \/ ReadLimits(c) \/ Preflight(c) \/ SendHotPath(c) \/ Recheck(c) \/ SendColdPath(c)
  \/ Bump(c) \/ BootstrapDeploy(c) \/ AwaitReceipt(c)
Next ==
  \/ \E c \in Tabs : Request(c) \/ Serve(c)
  \/ \E i \in 1..Len(txs) : Mine(i)
  \/ CatchUp \/ RaiseThreshold

Spec == Init /\ [][Next]_vars
------------------------------------------------------------------------------
State == [safe : BOOLEAN, owner : BOOLEAN, signer : BOOLEAN, nonce : Nat,
          threshold : 1..2, strays : 0..1]
TypeOK ==
  /\ kind \in Kinds /\ chain \in State /\ lagged \in State
  /\ used \in Nat /\ faults \in 0..MaxFaults
  /\ created \in {"no", "asked", "revealed", "failed"}
  /\ Len(txs) <= MaxTxs
  /\ \A i \in 1..Len(txs) : txs[i].st \in {"pending", "landed", "reverted", "noop"}
  /\ \A c \in Tabs : req[c].nonce \in Nat

\* A relayed transaction either carries out what the passkey has signed or fails for all
\* to see: none succeeds at an address without code, and none deploys another Safe than
\* the one that holds the money (relay.ts 195-205, 272-293).
NothingIsStranded == chain.strays = 0 /\ \A i \in 1..Len(txs) : txs[i].st # "noop"

\* A wallet is shown to its user only when its Safe is there and the passkey owns it, so
\* money sent to the address can be moved (bootstrap.ts 20-23).
RevealedIsOwned ==
  kind = "bootstrap" /\ created = "revealed" => chain.safe /\ chain.owner /\ chain.signer

==============================================================================
