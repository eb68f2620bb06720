------------------------------- MODULE SafeSetup -------------------------------
(**************************************************************************)
(* The setup page of a tenant's main Safe.  D1 says which projects the    *)
(* router should be able to pay; a page reads the chain, plans one Safe   *)
(* transaction that sets the role's whole recipient set, and the owners   *)
(* sign it in the queue of the Safe Transaction Service.  It is executed  *)
(* by an owner's wallet, by the Worker's gas key, or elsewhere.           *)
(*                                                                        *)
(* A signature is of a transaction at a nonce, so an entry of the queue   *)
(* is named by these (its safeTxHash).                                    *)
(**************************************************************************)
EXTENDS Naturals, FiniteSets, FiniteSetsExt

CONSTANTS
  Owners, Threshold,
  Projects,    \* project Safes
  Nothing,     \* no plan, no entry
  MaxNonce,    \* bound: transactions queued
  MaxEdits     \* bound: campaigns added and revoked

SetupAssumption ==
  /\ IsFiniteSet(Owners) /\ Threshold \in 1..Cardinality(Owners)
  /\ MaxNonce \in Nat /\ MaxEdits \in Nat

VARIABLES
  wanted,    \* projects with an active campaign in D1
  revoked,   \* projects with a revoked campaign in D1
  scoped,    \* recipients of the role on the chain
  nonce,     \* nonce of the Safe
  queue,     \* entries of the service: [nonce, tx, sigs]
  page,      \* owner -> the page he has open
  shown,     \* transactions an owner was shown, by his page or elsewhere
  executed,  \* transactions the Safe has executed
  edits      \* campaigns added and revoked so far

vars == <<wanted, revoked, scoped, nonce, queue, page, shown, executed, edits>>
chainVars == <<scoped, nonce, executed>>
d1Vars    == <<wanted, revoked, edits>>

\* other: the calldata of a plan under another operation or value.
Tx == [set : SUBSET Projects, other : BOOLEAN]
Page0 == [pc |-> "open", on |-> {}, off |-> {}, nonce |-> 0, plan |-> Nothing,
          pending |-> Nothing, slot |-> 0]

Init ==
  /\ scoped \in {{}, {CHOOSE p \in Projects : TRUE}} /\ wanted = scoped /\ revoked = {}
  /\ nonce = 0 /\ queue = {} /\ executed = {} /\ edits = 0
  /\ page = [o \in Owners |-> Page0] /\ shown = [o \in Owners |-> {}]

At(o, pc)  == page[o].pc = pc
Set(o, p)  == page' = [page EXCEPT ![o] = p]
Goto(o, pc) == Set(o, [page[o] EXCEPT !.pc = pc])

-----------------------------------------------------------------------------
(* Reading: the context of the tenant, the Safe, the role, the queue *)

ReloadContext(o) ==
  /\ At(o, "open")
  /\ Set(o, [page[o] EXCEPT !.pc = "safe", !.on = wanted, !.off = revoked])
  /\ UNCHANGED <<queue, shown, chainVars, d1Vars>>

\* A plan that was shown is gone before the Safe is read again.
ReadSafe(o) ==
  /\ At(o, "safe")
  /\ Set(o, [page[o] EXCEPT !.pc = "role", !.nonce = nonce, !.plan = Nothing, !.pending = Nothing, !.slot = 0])
  /\ UNCHANGED <<queue, shown, chainVars, d1Vars>>

\* scopeFunction replaces the set, so the plan starts from the one on the chain;
\* removal wins over addition, and the last project cannot go.
BuildProjectRouterBatch(o) ==
  LET kept == (scoped \cup page[o].on) \ page[o].off IN
  /\ At(o, "role")
  /\ IF kept \in {{}, scoped} THEN Goto(o, "ready")
     ELSE Set(o, [page[o] EXCEPT !.pc = "queue", !.plan = [set |-> kept, other |-> FALSE]])
  /\ UNCHANGED <<queue, shown, chainVars, d1Vars>>

Queued(n) == {e \in queue : e.nonce >= n}

\* By target and calldata: operation and value are not compared.
FindPending(o) ==
  LET same == {e \in Queued(page[o].nonce) : e.tx.set = page[o].plan.set} IN
  /\ At(o, "queue")
  /\ \/ same = {} /\ Goto(o, "ready")
     \/ \E e \in same : Set(o, [page[o] EXCEPT !.pc = "ready", !.pending = [nonce |-> e.nonce, tx |-> e.tx]])
  /\ shown' = [shown EXCEPT ![o] = @ \cup {page[o].plan}]
  /\ UNCHANGED <<queue, chainVars, d1Vars>>

-----------------------------------------------------------------------------
(* Clicks *)

\* addExisting, removeCampaign: D1 changes, and the page reads it again.
AddExisting(o, p) ==
  /\ At(o, "ready") /\ edits < MaxEdits /\ p \notin wanted
  /\ wanted' = wanted \cup {p} /\ revoked' = revoked \ {p} /\ edits' = edits + 1
  /\ Goto(o, "open")
  /\ UNCHANGED <<queue, shown, chainVars>>

RemoveCampaign(o, p) ==
  /\ At(o, "ready") /\ edits < MaxEdits /\ p \in wanted
  /\ wanted' = wanted \ {p} /\ revoked' = revoked \cup {p} /\ edits' = edits + 1
  /\ Goto(o, "open")
  /\ UNCHANGED <<queue, shown, chainVars>>

Reload(o) ==
  /\ At(o, "ready")
  /\ Goto(o, "open") \/ Goto(o, "safe")
  /\ UNCHANGED <<queue, shown, chainVars, d1Vars>>

NextNonce(n) == IF Queued(n) = {} THEN n ELSE Max({e.nonce : e \in Queued(n)}) + 1

Propose(o) ==
  LET slot == NextNonce(page[o].nonce) IN
  /\ At(o, "ready") /\ page[o].plan # Nothing /\ page[o].pending = Nothing
  /\ slot < MaxNonce
  /\ Set(o, [page[o] EXCEPT !.pc = "sign", !.slot = slot])
  /\ UNCHANGED <<queue, shown, chainVars, d1Vars>>

Sigs(n, tx) == UNION {e.sigs : e \in {f \in queue : f.nonce = n /\ f.tx = tx}}
Signed(o, n, tx) ==
  queue' = {e \in queue : ~ (e.nonce = n /\ e.tx = tx)}
             \cup {[nonce |-> n, tx |-> tx, sigs |-> Sigs(n, tx) \cup {o}]}

ProposeToService(o) ==
  /\ At(o, "sign")
  /\ Signed(o, page[o].slot, page[o].plan)
  /\ Goto(o, "safe")
  /\ UNCHANGED <<shown, chainVars, d1Vars>>

\* A slip: what is signed is the hash in the queue.
ConfirmQueued(o) ==
  LET e == page[o].pending IN
  /\ At(o, "ready") /\ e # Nothing /\ o \notin Sigs(e.nonce, e.tx)
  /\ Signed(o, e.nonce, e.tx)
  /\ Goto(o, "safe")
  /\ UNCHANGED <<shown, chainVars, d1Vars>>

\* The hash of the page's own plan is signed, and must be the one in the queue.
Confirm(o) ==
  LET e == page[o].pending IN
  /\ At(o, "ready") /\ e # Nothing /\ o \notin Sigs(e.nonce, e.tx)
  /\ e.tx = page[o].plan
  /\ Signed(o, e.nonce, e.tx)
  /\ Goto(o, "safe")
  /\ UNCHANGED <<shown, chainVars, d1Vars>>

-----------------------------------------------------------------------------
(* Execution *)

\* execTransaction: the nonce of the Safe goes on, whatever is queued.
Executes(tx) ==
  /\ nonce' = nonce + 1
  /\ scoped' = IF tx.other THEN scoped ELSE tx.set
  /\ executed' = executed \cup {tx}

\* Signatures of the queue count for the nonce they are of; the sender's own
\* counts for whatever it sends.
Execute(o) ==
  LET e == page[o].pending
      sigs == Sigs(e.nonce, e.tx) \cup {o} IN
  /\ At(o, "ready") /\ e # Nothing /\ e.nonce = page[o].nonce
  /\ Cardinality(sigs) >= Threshold
  /\ \/ e.tx = page[o].plan /\ e.nonce = nonce
     \/ Threshold = 1
  /\ nonce < MaxNonce
  /\ Executes(page[o].plan)
  /\ Goto(o, "safe")
  /\ UNCHANGED <<queue, shown, d1Vars>>

\* Signatures of current owners, one of each.
PickExecSignatures(e) == e.sigs \cap Owners

\* The gas key: everything is read again, and only the next nonce will do.
ExecuteWithGasKey(e) ==
  /\ e \in queue /\ e.nonce = nonce
  /\ Cardinality(PickExecSignatures(e)) >= Threshold
  /\ Executes(e.tx)
  /\ UNCHANGED <<queue, page, shown, d1Vars>>

\* An owner signs something of his own in the Safe app.
SignElsewhere(o, tx) ==
  /\ NextNonce(nonce) < MaxNonce
  /\ Signed(o, NextNonce(nonce), tx)
  /\ shown' = [shown EXCEPT ![o] = @ \cup {tx}]
  /\ UNCHANGED <<page, chainVars, d1Vars>>

-----------------------------------------------------------------------------
PageStep(o) ==
  \/ ReloadContext(o) \/ ReadSafe(o) \/ BuildProjectRouterBatch(o) \/ FindPending(o)
  \/ Reload(o) \/ Propose(o) \/ ProposeToService(o) \/ Confirm(o) \/ Execute(o)
  \/ \E p \in Projects : AddExisting(o, p) \/ RemoveCampaign(o, p)

Next ==
  \/ \E o \in Owners : \/ PageStep(o)
                       \/ SignElsewhere(o, [set |-> Projects, other |-> TRUE])
  \/ \E e \in queue : ExecuteWithGasKey(e)

Spec == Init /\ [][Next]_vars

-----------------------------------------------------------------------------
(* Properties *)

\* What the Safe has done, its owners have decided: each transaction executed was
\* before the eyes of as many of them as must sign, just as it was executed - though
\* pages are stale, plans are proposed twice and the queue holds look-alikes
\* (main.ts reloadContext: "only the owners' 2/3 signature changes what the router may do").
OwnersDecide ==
  \A tx \in executed : Cardinality({o \in Owners : tx \in shown[o]}) >= Threshold
=============================================================================
