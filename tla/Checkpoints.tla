---------------------------- MODULE Checkpoints ----------------------------
(***************************************************************************)
(* The time stamps of the anchors and their public copies.  An anchor run  *)
(* asks the OpenTimestamps calendars for a proof of the chain head it has  *)
(* made; the daily job of the public repository mirrors new anchors with   *)
(* the proof they have, upgrades pending proofs once Bitcoin attests them, *)
(* and checks the chain; the cron takes upgraded proofs back, so that a    *)
(* receipt carries them.  The chain itself is the business of Receipts.    *)
(***************************************************************************)
EXTENDS Naturals, Sequences, SequencesExt

CONSTANTS
  MaxAnchors,  \* bound: anchors made
  PullLimit,   \* anchors one pull looks at, the newest first
  MaxCrashes   \* bound: anchor runs evicted before the stamp is stored

CheckpointsAssumption ==
  MaxAnchors \in Nat /\ PullLimit \in Nat \ {0} /\ MaxCrashes \in Nat

VARIABLES
  ots,       \* receipt_anchors.ots, by seq
  stamping,  \* the anchors whose run is still asking the calendars
  attested,  \* the anchors whose stamp has reached a Bitcoin block
  repo,      \* anchors/<seq>.json and .ots of the public repository
  job,       \* the step the daily job is at
  crashes

vars == <<ots, stamping, attested, repo, job, crashes>>

Proofs == {"none", "pending", "bitcoin"}

Init ==
  /\ ots = << >> /\ repo = << >>
  /\ stamping = {} /\ attested = {}
  /\ job = "fetch" /\ crashes = 0

\* anchorPendingLeaves has committed the next anchor.
Anchor ==
  /\ Len(ots) < MaxAnchors
  /\ ots' = Append(ots, "none") /\ stamping' = stamping \cup {Len(ots) + 1}
  /\ UNCHANGED <<attested, repo, job, crashes>>

\* Each calendar is asked once; what answers is kept, and none may.
StampOts(s, answered) ==
  /\ s \in stamping /\ stamping' = stamping \ {s}
  /\ ots' = IF answered THEN [ots EXCEPT ![s] = "pending"] ELSE ots
  /\ UNCHANGED <<attested, repo, job, crashes>>

EvictStamping(s) ==
  /\ s \in stamping /\ stamping' = stamping \ {s}
  /\ crashes < MaxCrashes /\ crashes' = crashes + 1
  /\ UNCHANGED <<ots, attested, repo, job>>

\* The calendars commit what they were given to a Bitcoin block.
Attest(s) ==
  /\ s \in DOMAIN ots /\ ots[s] = "pending" /\ s \notin attested
  /\ attested' = attested \cup {s}
  /\ UNCHANGED <<ots, stamping, repo, job, crashes>>

\* Anchors newer than the last one here, each with the proof it has by now.
FetchNew ==
  /\ job = "fetch" /\ job' = "upgrade"
  /\ repo' = repo \o SubSeq(ots, Len(repo) + 1, Len(ots))
  /\ UNCHANGED <<ots, stamping, attested, crashes>>

\* A slip: a proof that is still pending ends the loop.
UpgradeInOrder ==
  /\ job = "upgrade" /\ job' = "fetch"
  /\ repo' = [s \in DOMAIN repo |->
                IF repo[s] = "pending" /\ \A q \in 1..s : q \in attested THEN "bitcoin" ELSE repo[s]]
  /\ UNCHANGED <<ots, stamping, attested, crashes>>

\* ots upgrade on every .ots of the repository; the chain check and the index
\* come after it, and the job commits.
UpgradePending ==
  /\ job = "upgrade" /\ job' = "fetch"
  /\ repo' = [s \in DOMAIN repo |-> IF repo[s] = "pending" /\ s \in attested THEN "bitcoin" ELSE repo[s]]
  /\ UNCHANGED <<ots, stamping, attested, crashes>>

\* Only a proof of the same chain head with a Bitcoin attestation is taken.
PullUpgradedOts ==
  LET taken == {s \in DOMAIN repo : s > Len(ots) - PullLimit /\ repo[s] = "bitcoin" /\ ots[s] # "bitcoin"}
  IN /\ taken # {}
     /\ ots' = [s \in DOMAIN ots |-> IF s \in taken THEN "bitcoin" ELSE ots[s]]
     /\ UNCHANGED <<stamping, attested, repo, job, crashes>>

Next ==
  \/ Anchor \/ FetchNew \/ UpgradePending \/ PullUpgradedOts
  \/ \E s \in 1..MaxAnchors :
       EvictStamping(s) \/ Attest(s) \/ \E answered \in BOOLEAN : StampOts(s, answered)

\* The crons run on, the run ends, and the calendars do what they promise.
Fairness ==
  /\ WF_vars(FetchNew \/ UpgradePending) /\ WF_vars(PullUpgradedOts)
  /\ \A s \in 1..MaxAnchors :
       WF_vars(Attest(s)) /\ WF_vars(\E answered \in BOOLEAN : StampOts(s, answered))

Spec == Init /\ [][Next]_vars /\ Fairness

-----------------------------------------------------------------------------
(* mpt_receipt_verify.py --btc-api, once 72 hours have passed *)

\* The .ots file is there and carries an attestation; anything less is an error.
Attested(s) == s \in DOMAIN repo /\ repo[s] = "bitcoin"

\* The variables stay in their types, and the repository is not ahead.
TypeOK ==
  /\ ots \in Seq(Proofs) /\ repo \in Seq(Proofs) /\ Len(repo) <= Len(ots)
  /\ stamping \subseteq DOMAIN ots /\ attested \subseteq DOMAIN ots
  /\ job \in {"fetch", "upgrade"} /\ crashes \in 0..MaxCrashes

\* A proof that was mirrored does reach Bitcoin, and the receipts made from then
\* on carry it (anchor.ts pullUpgradedOts: "so every receipt can embed a
\* Bitcoin-attested .ots").
MirroredIsAttested ==
  \A s \in 1..MaxAnchors :
    (s \in DOMAIN repo /\ repo[s] = "pending") ~> (Attested(s) /\ ots[s] = "bitcoin")

\* "An honest anchor is Bitcoin-attested within hours and the checkpoint repo
\* upgrades its proof daily": no honest anchor stays one the verifier refuses
\* (mpt_receipt_verify.py).
HonestIsAttested ==
  \A s \in 1..MaxAnchors : (s \in DOMAIN ots) ~> Attested(s)
=============================================================================
