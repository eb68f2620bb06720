------------------------------ MODULE Receipts ------------------------------
(***************************************************************************)
(* Payment receipts.  A payer derives the reference (sid) of an intent     *)
(* from a key of its own; when the payment that carries it has reached the *)
(* merchant, the order gets a direct leaf, and the earlier payments from   *)
(* the same IBAN get lazy leaves under the same sid.  Once a day, or when  *)
(* an operator asks, the new leaves are folded into a Merkle root and the  *)
(* root into the chain of anchors, which is time-stamped and mirrored in a *)
(* public repository.                                                      *)
(*                                                                         *)
(* An order is a number: its place in the order of placed_at.  Hashes are  *)
(* terms: keccak256 is taken to be injective.                              *)
(***************************************************************************)
EXTENDS Naturals, FiniteSets, Sequences, SequencesExt, FiniteSetsExt

CONSTANTS
  Payments,    \* processed issue orders, numbered by placed_at
  Iban,        \* order -> normalised counterpart_iban, or NoIban
  NoIban,
  Sids,        \* receipt sids
  Remittance,  \* order -> the receipt sid the payer wrote into it, or Plain
  Linkers,     \* isolates in linkReceipts: the cron, requests of the API
  AnchorRuns,  \* isolates in anchorPendingLeaves: the cron, POST /anchors/now
  LinkBatch,   \* LINK_BATCH
  MaxLeaves,   \* opts.maxLeaves
  MaxBeats,    \* bound: anchors of no leaf
  MaxFailures, \* bound: forwards that fail
  MaxCrashes   \* bound: evictions

Orders == 1..Payments
Plain  == "plain"    \* no receipt sid; a run over every sid

ASSUME ReceiptsAssumption ==
  /\ Payments \in Nat
  /\ Plain \notin Sids /\ Remittance \in [1..Payments -> Sids \cup {Plain}]
  /\ LinkBatch \in Nat \ {0} /\ MaxLeaves \in Nat \ {0}
  /\ MaxBeats \in Nat /\ MaxFailures \in Nat /\ MaxCrashes \in Nat

VARIABLES
  row,         \* order -> its newest forward: [status, own]
  leaves,      \* receipt_leaves, by id
  anchors,     \* receipt_anchors, by seq
  link,        \* linker -> its progress
  run,         \* anchor run -> its progress
  overlapped,  \* two anchor runs have been under way at the same time
  failures,    \* forwards that failed
  crashes      \* evictions

vars == <<row, leaves, anchors, link, run, overlapped, failures, crashes>>
rowVars    == <<row, failures>>
linkVars   == <<link>>
anchorVars == <<anchors, run, overlapped>>

\* own: the sid is the remittance's own, not found by a code or by the resolver.
Row    == [status : {"none", "live", "confirmed", "failed", "resolved_offrail"}, own : BOOLEAN]

-----------------------------------------------------------------------------
(* Hashes and trees *)

LeafHash(l) == <<"leaf", l.kind, l.sid, l.order>>

\* The pair is sorted before it is hashed.
HashPair(a, b) == <<"pair", {a, b}>>

\* An odd node is carried up unchanged.
NextLevel(level) ==
  [k \in 1..((Len(level) + 1) \div 2) |->
     IF 2 * k <= Len(level) THEN HashPair(level[2 * k - 1], level[2 * k]) ELSE level[2 * k - 1]]

Levels(hashes) ==
  LET up[d \in 0..Len(hashes)] == IF d = 0 THEN hashes ELSE NextLevel(up[d - 1]) IN up

Zero == <<"zero">>

MerkleRoot(hashes) == IF hashes = << >> THEN Zero ELSE Levels(hashes)[Len(hashes)][1]

Sibling(i) == IF i % 2 = 1 THEN i + 1 ELSE i - 1

\* From the node at w.at to the one above it; a carried node has no sibling.
Climb(w, level) ==
  [at    |-> (w.at + 1) \div 2,
   proof |-> IF Sibling(w.at) <= Len(level) THEN Append(w.proof, level[Sibling(w.at)]) ELSE w.proof]

\* The siblings on the way up from the node at index.
MerkleProof(hashes, index) ==
  LET up == Levels(hashes)
      walk[d \in 0..Len(hashes)] ==
        IF d = 0 THEN [at |-> index, proof |-> << >>] ELSE Climb(walk[d - 1], up[d - 1])
  IN walk[Len(hashes)].proof

MerkleApply(hash, proof) ==
  LET h[k \in 0..Len(proof)] == IF k = 0 THEN hash ELSE HashPair(h[k - 1], proof[k]) IN h[Len(proof)]

\* Commits to the head before it and to the running totals.
ChainHead(a) == <<"head", a.prev, a.seq, a.root, a.leafCount, a.totalLeaves, a.lazyCount>>

-----------------------------------------------------------------------------
(* What the queries find *)

\* ORDER BY of numbers: the least first.
InOrder(S) ==
  CHOOSE s \in [1..Cardinality(S) -> S] : \A j, k \in 1..Cardinality(S) : j < k => s[j] < s[k]

IsReceipt(o)  == Remittance[o] \in Sids /\ row[o].own
HasLeaf(o)    == \E i \in DOMAIN leaves : leaves[i].order = o
Delivered(o)  == row[o].status \in {"confirmed", "resolved_offrail"}
LiveAnchor(o) == IsReceipt(o) /\ row[o].status \in {"live", "confirmed"}

\* A slip: only what was placed after the newest leaf is looked at.
PendingSinceLast(only) ==
  InOrder({o \in Orders : /\ IsReceipt(o) /\ row[o].status = "confirmed"
                          /\ only \in {Plain, Remittance[o]}
                          /\ \A i \in DOMAIN leaves : leaves[i].order < o})

\* Confirmed receipt payments without a leaf, the oldest first; only = Plain asks
\* for every sid.
PendingAnchors(only) ==
  InOrder({o \in Orders : /\ IsReceipt(o) /\ row[o].status = "confirmed"
                          /\ only \in {Plain, Remittance[o]}
                          /\ ~ HasLeaf(o)})

\* Of any live status: the boundary does not wait for what confirms first.
PreviousAnchor(o) ==
  LET earlier == {b \in Orders : LiveAnchor(b) /\ Iban[b] = Iban[o] /\ b < o}
  IN IF earlier = {} THEN 0 ELSE Max(earlier)

Coverable(o, after) ==
  InOrder({c \in Orders : /\ Iban[c] = Iban[o] /\ after < c /\ c < o
                          /\ ~ HasLeaf(c) /\ Delivered(c) /\ ~ LiveAnchor(c)})

LeavesOf(seq) == InOrder({i \in DOMAIN leaves : leaves[i].anchor = seq})

HashesOf(ids) == [k \in 1..Len(ids) |-> LeafHash(leaves[ids[k]])]

\* The proof the API gives for leaf i, from the leaves its anchor has now.
ProofForLeaf(i) ==
  LET ids == LeavesOf(leaves[i].anchor)
  IN MerkleProof(HashesOf(ids), CHOOSE k \in DOMAIN ids : ids[k] = i)

-----------------------------------------------------------------------------
(* The receipt that the API gives and the page shows *)

LeavesFor(s) == {i \in DOMAIN leaves : leaves[i].sid = s}

NoAnchor == [seq |-> 0]

ToPayment(i) ==
  [kind |-> leaves[i].kind, order |-> leaves[i].order, leafHash |-> LeafHash(leaves[i]),
   anchor |-> IF leaves[i].anchor = 0 THEN NoAnchor
              ELSE [seq |-> leaves[i].anchor, proof |-> ProofForLeaf(i)]]

\* Of the forwards with the sid a confirmed one comes first, then one under way: what
\* is said of one of the best.  A forward that is broadcasting counts as not delivered.
DirectStatus(s) ==
  LET forwards == {o \in Orders : Remittance[o] = s /\ row[o].status # "none"}
      Rank(o)  == CASE row[o].status = "confirmed" -> 0 [] row[o].status = "live" -> 1 [] OTHER -> 2
      best     == {o \in forwards : \A b \in forwards : Rank(o) <= Rank(b)}
      Said(o)  == CASE ~ row[o].own -> {"unbound_stray"}
                    [] row[o].status = "confirmed" -> {"confirmed"}
                    [] row[o].status = "live" -> {"settling", "not_delivered"}
                    [] OTHER -> {"not_delivered"}
  IN IF forwards = {} THEN {"awaiting_payment"} ELSE UNION {Said(o) : o \in best}

BuildReceipt(s, includeLazy) ==
  LET shown == {i \in LeavesFor(s) : includeLazy \/ leaves[i].kind = "direct"}
  IN [status   |-> IF \E i \in shown : leaves[i].kind = "direct" THEN {"issued"} ELSE DirectStatus(s),
      payments |-> {ToPayment(i) : i \in shown}]

\* The routes: GET tells of the direct payments, POST, signed with the key the sid is
\* derived from, of all.  A key is the sid it gives; Plain is none.
ReceiptOf(s, key) == BuildReceipt(s, key # Plain)

\* The page puts the key of another sid aside and asks without one.
ValidKeyFor(s, key)  == key = s
FetchReceipt(s, key) == ReceiptOf(s, IF ValidKeyFor(s, key) THEN key ELSE Plain)

-----------------------------------------------------------------------------
(* The rail, as far as receipts see it *)

Init ==
  /\ row = [o \in Orders |-> [status |-> "none", own |-> FALSE]]
  /\ leaves = << >> /\ anchors = << >>
  /\ link = [l \in Linkers |-> [pc |-> "idle"]]
  /\ run = [a \in AnchorRuns |-> [pc |-> "idle"]]
  /\ overlapped = FALSE /\ failures = 0 /\ crashes = 0

SetRow(o, r) ==
  /\ row' = [row EXCEPT ![o] = r]
  /\ UNCHANGED <<leaves, crashes>> /\ UNCHANGED linkVars /\ UNCHANGED anchorVars

\* The first forward of the order, or another way for one that failed.
Forward(o, own) ==
  /\ row[o].status \in {"none", "failed"}
  /\ own => Remittance[o] \in Sids /\ row[o].status = "none"
  /\ UNCHANGED failures
  /\ SetRow(o, [status |-> "live", own |-> own])

Settle(o) ==
  /\ row[o].status = "live" /\ UNCHANGED failures
  /\ SetRow(o, [row[o] EXCEPT !.status = "confirmed"])

Fail(o) ==
  /\ row[o].status = "live" /\ failures < MaxFailures
  /\ failures' = failures + 1
  /\ SetRow(o, [row[o] EXCEPT !.status = "failed"])

\* The operator retries the row, or has paid by hand.
Resume(o, status) ==
  /\ row[o].status = "failed" /\ UNCHANGED failures
  /\ SetRow(o, [row[o] EXCEPT !.status = status])

-----------------------------------------------------------------------------
(* linkReceipts *)

LinkIdle == [pc |-> "idle"]
SetLink(l, t) == link' = [link EXCEPT ![l] = t]
OnlyLink == /\ UNCHANGED <<crashes>> /\ UNCHANGED rowVars /\ UNCHANGED anchorVars

\* On to the next receipt payment, or the end of the run.
NextAnchor(todo) == IF todo = << >> THEN LinkIdle ELSE [pc |-> "direct", todo |-> todo]

\* The cron asks for every sid, a request for its own.
LinkReceipts(l, only) ==
  LET found == PendingAnchors(only)
  IN /\ link[l].pc = "idle" /\ found # << >>
     /\ SetLink(l, NextAnchor(found))
     /\ UNCHANGED leaves /\ OnlyLink

\* INSERT OR IGNORE: order_id is unique.
WithLeaf(ls, kind, sid, o) ==
  IF \E i \in DOMAIN ls : ls[i].order = o THEN ls
  ELSE Append(ls, [kind |-> kind, sid |-> sid, order |-> o, anchor |-> 0])

\* Who finds the leaf there, or no IBAN to match on, leaves the earlier payments alone.
InsertDirect(l) ==
  LET t == link[l]
      a == Head(t.todo)
  IN /\ t.pc = "direct"
     /\ leaves' = WithLeaf(leaves, "direct", Remittance[a], a)
     /\ SetLink(l, IF HasLeaf(a) \/ Iban[a] = NoIban THEN NextAnchor(Tail(t.todo))
                   ELSE [pc |-> "window", todo |-> t.todo])
     /\ OnlyLink

ReadWindow(l) ==
  LET t == link[l]
  IN /\ t.pc = "window"
     /\ SetLink(l, [pc |-> "cover", todo |-> t.todo, after |-> PreviousAnchor(Head(t.todo))])
     /\ UNCHANGED leaves /\ OnlyLink

ReadCoverable(l) ==
  LET t     == link[l]
      cover == Coverable(Head(t.todo), t.after)
  IN /\ t.pc = "cover"
     /\ SetLink(l, IF cover = << >> THEN NextAnchor(Tail(t.todo))
                   ELSE [pc |-> "lazy", todo |-> t.todo, cover |-> cover])
     /\ UNCHANGED leaves /\ OnlyLink

\* One batch of LINK_BATCH inserts.
InsertLazy(l) ==
  LET t     == link[l]
      n     == IF Len(t.cover) < LinkBatch THEN Len(t.cover) ELSE LinkBatch
      later == SubSeq(t.cover, n + 1, Len(t.cover))
      covered[k \in 0..n] == IF k = 0 THEN leaves
                             ELSE WithLeaf(covered[k - 1], "lazy", Remittance[Head(t.todo)], t.cover[k])
  IN /\ t.pc = "lazy"
     /\ leaves' = covered[n]
     /\ SetLink(l, IF later = << >> THEN NextAnchor(Tail(t.todo)) ELSE [pc |-> "lazy", todo |-> t.todo, cover |-> later])
     /\ OnlyLink

-----------------------------------------------------------------------------
(* anchorPendingLeaves *)

RunIdle == [pc |-> "idle"]
SetRun(a, t) == run' = [run EXCEPT ![a] = t]
OnlyRun == /\ UNCHANGED <<crashes>> /\ UNCHANGED rowVars /\ UNCHANGED linkVars

Pending == LeavesOf(0)

\* Both callers ask for a heartbeat.
ReadPending(a) ==
  LET ids == SubSeq(Pending, 1, IF Len(Pending) < MaxLeaves THEN Len(Pending) ELSE MaxLeaves)
  IN /\ run[a].pc = "idle"
     /\ ids = << >> => Cardinality({s \in DOMAIN anchors : anchors[s].leafCount = 0}) < MaxBeats
     /\ SetRun(a, [pc |-> "head", ids |-> ids])
     /\ overlapped' = (overlapped \/ \E b \in AnchorRuns : run[b].pc \in {"head", "commit"})
     /\ UNCHANGED <<leaves, anchors>> /\ OnlyRun

\* The newest anchor is read after the leaves; the next one is worked out.
ReadHead(a) ==
  LET t    == run[a]
      n    == Len(anchors)
      last == IF n = 0 THEN [totalLeaves |-> 0, lazyCount |-> 0] ELSE anchors[n]
      lazy == {k \in DOMAIN t.ids : leaves[t.ids[k]].kind = "lazy"}
      next == [seq |-> n + 1, prev |-> IF n = 0 THEN Zero ELSE ChainHead(anchors[n]),
               root |-> MerkleRoot(HashesOf(t.ids)), leafCount |-> Len(t.ids),
               totalLeaves |-> last.totalLeaves + Len(t.ids),
               lazyCount |-> last.lazyCount + Cardinality(lazy)]
  IN /\ t.pc = "head"
     /\ SetRun(a, [pc |-> "commit", ids |-> t.ids, next |-> next])
     /\ UNCHANGED <<leaves, anchors, overlapped>> /\ OnlyRun

\* A slip: no upper end, as if every pending leaf had been read.
InRangeOpen(i, ids) == ids # << >> /\ leaves[i].anchor = 0 /\ ids[1] <= i

\* The pending leaves from the first to the last the run has read.
InRange(i, ids) == ids # << >> /\ leaves[i].anchor = 0 /\ ids[1] <= i /\ i <= Last(ids)

\* One transaction: seq is the latch, and the leaves are marked if the row at seq
\* is this run's. The loser stops.
Commit(a) ==
  LET t   == run[a]
      seq == t.next.seq
      won == anchors'[seq] = t.next
  IN /\ t.pc = "commit"
     /\ anchors' = IF seq <= Len(anchors) THEN anchors ELSE Append(anchors, t.next)
     /\ leaves' = [i \in DOMAIN leaves |-> IF won /\ InRange(i, t.ids) THEN [leaves[i] EXCEPT !.anchor = seq]
                                            ELSE leaves[i]]
     /\ SetRun(a, RunIdle)
     /\ UNCHANGED overlapped /\ OnlyRun

\* An isolate goes away with what it was doing.
Evict ==
  /\ crashes < MaxCrashes /\ crashes' = crashes + 1
  /\ \/ \E l \in Linkers : link[l] # LinkIdle /\ SetLink(l, LinkIdle) /\ UNCHANGED run
     \/ \E a \in AnchorRuns : run[a] # RunIdle /\ SetRun(a, RunIdle) /\ UNCHANGED link
  /\ UNCHANGED <<leaves, anchors, overlapped>> /\ UNCHANGED rowVars

-----------------------------------------------------------------------------
LinkStep(l)   == InsertDirect(l) \/ ReadWindow(l) \/ ReadCoverable(l) \/ InsertLazy(l)
AnchorStep(a) == ReadHead(a) \/ Commit(a)
RailStep(o)   == Settle(o) \/ Fail(o) \/ \E s \in {"live", "resolved_offrail"} : Resume(o, s)

Next ==
  \/ \E o \in Orders : RailStep(o) \/ \E own \in BOOLEAN : Forward(o, own)
  \/ \E l \in Linkers : LinkStep(l) \/ \E s \in Sids \cup {Plain} : LinkReceipts(l, s)
  \/ \E a \in AnchorRuns : ReadPending(a) \/ AnchorStep(a)
  \/ Evict

\* The cron comes back, and an isolate that is not evicted goes on.
Fairness ==
  /\ WF_vars(\E l \in Linkers : LinkReceipts(l, Plain))
  /\ \A l \in Linkers : WF_vars(LinkStep(l))
  /\ WF_vars(\E a \in AnchorRuns : ReadPending(a))
  /\ \A a \in AnchorRuns : WF_vars(AnchorStep(a))

Spec == Init /\ [][Next]_vars /\ Fairness

-----------------------------------------------------------------------------
(* Properties *)

\* The variables stay in their types, and anchors and proofs go by seq.
TypeOK ==
  /\ row \in [Orders -> Row]
  /\ \A i \in DOMAIN leaves : /\ leaves[i].kind \in {"direct", "lazy"} /\ leaves[i].sid \in Sids
                              /\ leaves[i].order \in Orders /\ leaves[i].anchor \in 0..Len(anchors)
  /\ \A s \in DOMAIN anchors : anchors[s].seq = s
  /\ \A l \in Linkers : link[l].pc \in {"idle", "direct", "window", "cover", "lazy"}
  /\ \A a \in AnchorRuns : run[a].pc \in {"idle", "head", "commit"}
  /\ overlapped \in BOOLEAN /\ failures \in 0..MaxFailures /\ crashes \in 0..MaxCrashes

Proves(p) ==
  p.anchor # NoAnchor => MerkleApply(p.leafHash, p.anchor.proof) = anchors[p.anchor.seq].root

\* The checks of mpt_receipt_verify.py on a receipt and the anchors: the proof of
\* every anchored payment that the owner's page shows reaches the root of its anchor,
\* whatever linkers and evictions do (anchor.ts proofsForAnchor, "rebuilt from the
\* anchor's leaves").
EveryLeafProves == \A s \in Sids : \A p \in FetchReceipt(s, s).payments : Proves(p)

\* The same, and the totals of the newest anchor count each anchored leaf once, as
\* long as no two anchor runs have been under way together.
AloneEveryLeafProves ==
  ~ overlapped =>
    /\ EveryLeafProves
    /\ anchors # << >> =>
         LET marked == {i \in DOMAIN leaves : leaves[i].anchor # 0}
         IN /\ Last(anchors).totalLeaves = Cardinality(marked)
            /\ Last(anchors).lazyCount = Cardinality({i \in marked : leaves[i].kind = "lazy"})

\* The checkpoint job's chain check: every anchor commits to the one before it and
\* adds its own leaves to the totals, also when runs overlap (anchor.ts chainHead).
ChainUnbroken ==
  \A s \in DOMAIN anchors :
    IF s = 1 THEN anchors[s].prev = Zero /\ anchors[s].totalLeaves = anchors[s].leafCount
    ELSE /\ anchors[s].prev = ChainHead(anchors[s - 1])
         /\ anchors[s].totalLeaves = anchors[s - 1].totalLeaves + anchors[s].leafCount

\* A receipt that has been given out stays what the API gives: the proof of an
\* anchored leaf never changes, also when runs overlap (migration 0028).
ProofsStay ==
  [][\A i \in DOMAIN leaves : leaves[i].anchor # 0 => ProofForLeaf(i)' = ProofForLeaf(i)]_vars

\* A payment is covered by a receipt payment from the same IBAN placed after it,
\* and one that carries a receipt sid of its own and was confirmed is never
\* covered by somebody else's (link.ts, ADR 0022 3a).
CoverageIsOwn ==
  \A i \in DOMAIN leaves :
    LET l == leaves[i]
    IN IF l.kind = "direct" THEN Remittance[l.order] = l.sid /\ row[l.order].own
       ELSE /\ ~ (IsReceipt(l.order) /\ row[l.order].status = "confirmed")
            /\ \E j \in 1..(i - 1) : /\ leaves[j].kind = "direct" /\ leaves[j].sid = l.sid
                                     /\ Iban[leaves[j].order] = Iban[l.order] /\ Iban[l.order] # NoIban
                                     /\ l.order < leaves[j].order

\* Every receipt given out proves its payment and the anchors add up as long as no two
\* anchor runs have overlapped, the chain of anchors never breaks, and no payment is covered
\* by a receipt that is not its payer's (anchor.ts, link.ts).
ReceiptsProve == AloneEveryLeafProves /\ ChainUnbroken /\ CoverageIsOwn

\* A confirmed receipt payment gets its receipt, and the receipt an anchor, also for
\* who has no key, although isolates are evicted on the way and anchor runs overlap.
ReceiptIsIssued ==
  \A o \in Orders :
    (IsReceipt(o) /\ row[o].status = "confirmed")
      ~> LET r == FetchReceipt(Remittance[o], Plain)
         IN /\ r.status = {"issued"}
            /\ \E p \in r.payments : p.order = o /\ p.kind = "direct" /\ p.anchor # NoAnchor
=============================================================================
