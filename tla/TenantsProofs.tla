---------------------------- MODULE TenantsProofs ----------------------------
(***************************************************************************)
(* Theorems about what tenants, their owners and their people ask of the   *)
(* API, for any number of them.                                            *)
(***************************************************************************)
EXTENDS MCTenants, FiniteSetTheorems, SequenceTheorems, WellFoundedInduction, TLAPS

-----------------------------------------------------------------------------
(* The Safe of a tenant: queue, pages and what was shown *)

\* A page that stands at its buttons with a plan, or with an entry that it takes
\* for its plan, has shown that plan; the plan goes before the Safe is read
\* again, so no plan of an earlier reading meets an entry of a later one.
PageShows(p, seen) ==
  /\ DOMAIN p = {"pc", "on", "off", "nonce", "plan", "pending", "slot"}
  /\ p.pc = "role" => p.plan = Nothing /\ p.pending = Nothing
  /\ p.pc = "queue" => p.pending = Nothing
  /\ p.pc \in {"ready", "sign"} /\ (p.plan # Nothing \/ p.pending # Nothing) => p.plan \in seen
  /\ p.pc = "sign" => p.plan # Nothing

\* Who has the transaction before his eyes.
Seers(tx) == {o_ \in Owners : tx \in s_shown[o_]}

\* Whoever signed an entry has seen its transaction, whatever else the queue holds.
SafeInv ==
  /\ s_shown = [o_ \in Owners |-> s_shown[o_]]
  /\ s_page = [o_ \in Owners |-> s_page[o_]]
  /\ \A o_ \in Owners : PageShows(s_page[o_], s_shown[o_])
  /\ \A e \in s_queue : e.sigs \subseteq Seers(e.tx)
  /\ \A tx \in s_executed : Cardinality(Seers(tx)) >= Threshold

\* SafeSetup counts as this module does.
LEMMA SetupCounts ==
  ASSUME NEW T
  PROVE  S!Cardinality(T) = Cardinality(T) /\ (S!IsFiniteSet(T) <=> IsFiniteSet(T))
BY DEF S!Cardinality, Cardinality, S!IsFiniteSet, IsFiniteSet

\* What the assumption says of the owners.
LEMMA OwnersAreFinite == IsFiniteSet(Owners) /\ Threshold \in Nat \ {0}
<1>1. S!SetupAssumption
  BY TenantsAssumption
<1>2. IsFiniteSet(Owners) /\ Threshold \in 1..Cardinality(Owners)
  BY <1>1, SetupCounts DEF S!SetupAssumption
<1> QED BY <1>2, FS_CardinalityType

\* Whatever is shown stays shown, so what was decided stays decided.
LEMMA SeersGrow ==
  ASSUME \A o_ \in Owners : s_shown[o_] \subseteq s_shown'[o_],
         NEW tx
  PROVE  /\ Seers(tx) \subseteq Seers(tx)'
         /\ Cardinality(Seers(tx)) >= Threshold => Cardinality(Seers(tx)') >= Threshold
<1>1. Seers(tx) \subseteq Seers(tx)' /\ Seers(tx)' \subseteq Owners
  BY DEF Seers
<1>2. IsFiniteSet(Seers(tx)') /\ IsFiniteSet(Seers(tx))
  BY <1>1, OwnersAreFinite, FS_Subset
<1>3. /\ Cardinality(Seers(tx)) <= Cardinality(Seers(tx)')
      /\ Cardinality(Seers(tx)) \in Nat /\ Cardinality(Seers(tx)') \in Nat
  BY <1>1, <1>2, FS_Subset, FS_CardinalityType
<1> QED BY <1>1, <1>3, OwnersAreFinite

\* As many signatures as the threshold, each of an owner who has seen it, decide.
LEMMA EnoughSigned ==
  ASSUME NEW tx, NEW sigs \in SUBSET Seers(tx), Cardinality(sigs) >= Threshold
  PROVE  Cardinality(Seers(tx)) >= Threshold
<1>1. IsFiniteSet(Seers(tx)) /\ IsFiniteSet(sigs)
  BY OwnersAreFinite, FS_Subset DEF Seers
<1>2. /\ Cardinality(sigs) <= Cardinality(Seers(tx))
      /\ Cardinality(sigs) \in Nat /\ Cardinality(Seers(tx)) \in Nat
  BY <1>1, FS_Subset, FS_CardinalityType
<1> QED BY <1>2, OwnersAreFinite

\* A page goes on, and nothing is shown or signed.
LEMMA PageStep ==
  ASSUME SafeInv, NEW w \in Owners, NEW p, PageShows(p, s_shown[w]), S!Set(w, p),
         UNCHANGED <<s_queue, s_shown, s_executed>>
  PROVE  SafeInv'
BY DEF SafeInv, S!Set, Seers

\* A signature of what its owner has seen.
LEMMA SignStep ==
  ASSUME SafeInv, NEW w \in Owners, NEW n, NEW tx, S!Signed(w, n, tx),
         s_shown' = [o_ \in Owners |-> s_shown'[o_]],
         \A o_ \in Owners : s_shown[o_] \subseteq s_shown'[o_],
         tx \in s_shown'[w]
  PROVE  \A e \in s_queue' : e.sigs \subseteq Seers(e.tx)'
<1>1. S!Sigs(n, tx) \subseteq Seers(tx)
  BY DEF SafeInv, S!Sigs
<1>2. \A x : Seers(x) \subseteq Seers(x)'
  BY SeersGrow
<1>3. w \in Seers(tx)'
  BY DEF Seers
<1>4. S!Sigs(n, tx) \cup {w} \subseteq Seers(tx)'
  BY <1>1, <1>2, <1>3
<1>5. \A e \in s_queue : e.sigs \subseteq Seers(e.tx)'
  BY <1>2 DEF SafeInv
<1> QED BY <1>4, <1>5 DEF S!Signed

\* The Safe carries out what enough of its owners have seen.
LEMMA ExecuteStep ==
  ASSUME SafeInv, NEW tx, Cardinality(Seers(tx)) >= Threshold, S!Executes(tx),
         UNCHANGED s_shown
  PROVE  \A x \in s_executed' : Cardinality(Seers(x)') >= Threshold
<1>1. \A x : Seers(x)' = Seers(x)
  BY DEF Seers
<1> QED BY <1>1 DEF SafeInv, S!Executes

\* A page that leaves its buttons is bound to nothing until it has read again.
LEMMA PageLeaves ==
  ASSUME NEW p, NEW seen, PageShows(p, seen), NEW pc \in {"open", "safe"}
  PROVE  PageShows([p EXCEPT !.pc = pc], seen)
BY DEF PageShows

\* What a page does, signs and executes.
LEMMA SetupPageStep ==
  ASSUME SafeInv, NEW w \in Owners, S!PageStep(w)
  PROVE  SafeInv'
<1> DEFINE p == s_page[w]
<1>0. PageShows(p, s_shown[w])
  BY DEF SafeInv
<1>1. CASE S!ReloadContext(w)
  <2>1. PICK on, off : S!Set(w, [p EXCEPT !.pc = "safe", !.on = on, !.off = off])
    BY <1>1 DEF S!ReloadContext
  <2>2. PageShows([p EXCEPT !.pc = "safe", !.on = on, !.off = off], s_shown[w])
    BY <1>0 DEF PageShows
  <2> QED BY <1>1, <2>1, <2>2, PageStep DEF S!ReloadContext, S!chainVars
<1>2. CASE S!ReadSafe(w)
  <2> DEFINE q == [p EXCEPT !.pc = "role", !.nonce = s_nonce, !.plan = Nothing, !.pending = Nothing, !.slot = 0]
  <2>1. S!Set(w, q) /\ UNCHANGED <<s_queue, s_shown, s_executed>>
    BY <1>2 DEF S!ReadSafe, S!chainVars
  <2>2. PageShows(q, s_shown[w])
    BY <1>0 DEF PageShows
  <2> QED BY <2>1, <2>2, PageStep
<1>3. CASE S!BuildProjectRouterBatch(w)
  <2>1. p.pc = "role" /\ UNCHANGED <<s_queue, s_shown, s_executed>>
    BY <1>3 DEF S!BuildProjectRouterBatch, S!chainVars, S!At
  <2>2. CASE S!Set(w, [p EXCEPT !.pc = "ready"])
    <3>1. PageShows([p EXCEPT !.pc = "ready"], s_shown[w])
      BY <1>0, <2>1 DEF PageShows
    <3> QED BY <2>1, <2>2, <3>1, PageStep
  <2>3. ASSUME NEW plan, S!Set(w, [p EXCEPT !.pc = "queue", !.plan = plan]) PROVE SafeInv'
    <3>1. PageShows([p EXCEPT !.pc = "queue", !.plan = plan], s_shown[w])
      BY <1>0, <2>1 DEF PageShows
    <3> QED BY <2>1, <2>3, <3>1, PageStep
  <2> QED BY <1>3, <2>2, <2>3 DEF S!BuildProjectRouterBatch, S!Goto
<1>4. CASE S!FindPending(w)
  <2>1. /\ p.pc = "queue" /\ UNCHANGED <<s_queue, s_executed>>
        /\ s_shown' = [s_shown EXCEPT ![w] = @ \cup {p.plan}]
    BY <1>4 DEF S!FindPending, S!chainVars, S!At
  <2>2. /\ s_shown' = [o_ \in Owners |-> s_shown'[o_]] /\ p.plan \in s_shown'[w]
        /\ \A o_ \in Owners : s_shown[o_] \subseteq s_shown'[o_]
        /\ \A o_ \in Owners \ {w} : s_shown'[o_] = s_shown[o_]
    BY <2>1 DEF SafeInv
  <2>3. PICK q : /\ S!Set(w, q) /\ q.plan = p.plan
                 /\ \/ q = [p EXCEPT !.pc = "ready"]
                    \/ \E e : q = [p EXCEPT !.pc = "ready", !.pending = e]
    <3>1. \/ S!Set(w, [p EXCEPT !.pc = "ready"])
          \/ \E e : S!Set(w, [p EXCEPT !.pc = "ready", !.pending = e])
      BY <1>4 DEF S!FindPending, S!Goto
    <3>2. /\ [p EXCEPT !.pc = "ready"].plan = p.plan
          /\ \A e : [p EXCEPT !.pc = "ready", !.pending = e].plan = p.plan
      BY <1>0 DEF PageShows
    <3> QED BY <3>1, <3>2
  <2>4. PageShows(q, s_shown'[w])
    BY <1>0, <2>2, <2>3 DEF PageShows
  <2>5. s_page' = [o_ \in Owners |-> s_page'[o_]] /\ \A o_ \in Owners : PageShows(s_page'[o_], s_shown'[o_])
    BY <2>2, <2>3, <2>4 DEF SafeInv, S!Set
  <2>6. /\ \A e \in s_queue : e.sigs \subseteq Seers(e.tx)'
        /\ \A tx \in s_executed : Cardinality(Seers(tx)') >= Threshold
    BY <2>2, SeersGrow DEF SafeInv
  <2> QED BY <2>1, <2>2, <2>5, <2>6 DEF SafeInv
<1>5. CASE S!Reload(w)
  BY <1>0, <1>5, PageLeaves, PageStep DEF S!Reload, S!Goto, S!chainVars
<1>6. CASE S!Propose(w)
  <2>1. PICK slot : S!Set(w, [p EXCEPT !.pc = "sign", !.slot = slot])
    BY <1>6 DEF S!Propose
  <2>2. p.pc = "ready" /\ p.plan # Nothing /\ UNCHANGED <<s_queue, s_shown, s_executed>>
    BY <1>6 DEF S!Propose, S!chainVars, S!At
  <2>3. PageShows([p EXCEPT !.pc = "sign", !.slot = slot], s_shown[w])
    BY <1>0, <2>2 DEF PageShows
  <2> QED BY <2>1, <2>2, <2>3, PageStep
<1>7. CASE S!ProposeToService(w) \/ S!Confirm(w)
  <2>1. /\ p.plan \in s_shown[w] /\ \E n : S!Signed(w, n, p.plan)
        /\ S!Set(w, [p EXCEPT !.pc = "safe"]) /\ UNCHANGED <<s_shown, s_executed>>
    BY <1>0, <1>7 DEF S!ProposeToService, S!Confirm, S!Goto, S!chainVars, S!At, PageShows
  <2>2. PageShows([p EXCEPT !.pc = "safe"], s_shown[w])
    BY <1>0, PageLeaves
  <2>3. s_page' = [o_ \in Owners |-> s_page'[o_]] /\ \A o_ \in Owners : PageShows(s_page'[o_], s_shown'[o_])
    BY <2>1, <2>2 DEF SafeInv, S!Set
  <2>4. \A e \in s_queue' : e.sigs \subseteq Seers(e.tx)'
    BY <2>1, SignStep DEF SafeInv
  <2>5. \A tx \in s_executed' : Cardinality(Seers(tx)') >= Threshold
    BY <2>1, SeersGrow DEF SafeInv
  <2> QED BY <2>1, <2>3, <2>4, <2>5 DEF SafeInv
<1>8. CASE S!Execute(w)
  <2> DEFINE e == p.pending
             sigs == S!Sigs(e.nonce, e.tx) \cup {w}
  <2>1. /\ p.pc = "ready" /\ e # Nothing /\ Cardinality(sigs) >= Threshold
        /\ (e.tx = p.plan \/ Threshold = 1)
        /\ S!Executes(p.plan) /\ S!Set(w, [p EXCEPT !.pc = "safe"])
        /\ UNCHANGED <<s_queue, s_shown>>
    BY <1>8, SetupCounts DEF S!Execute, S!Goto, S!At
  <2>2. w \in Seers(p.plan)
    BY <1>0, <2>1 DEF PageShows, Seers
  <2>3. Cardinality(Seers(p.plan)) >= Threshold
    <3>1. CASE e.tx = p.plan
      <4>1. S!Sigs(e.nonce, e.tx) \subseteq Seers(e.tx)
        BY DEF SafeInv, S!Sigs
      <4>2. sigs \in SUBSET Seers(p.plan)
        BY <2>2, <3>1, <4>1
      <4> QED BY <2>1, <4>2, EnoughSigned
    <3>2. CASE Threshold = 1
      <4>1. {w} \in SUBSET Seers(p.plan) /\ Cardinality({w}) >= Threshold
        BY <2>2, <3>2, FS_Singleton
      <4> QED BY <4>1, EnoughSigned
    <3> QED BY <2>1, <3>1, <3>2
  <2>4. \A x \in s_executed' : Cardinality(Seers(x)') >= Threshold
    BY <2>1, <2>3, ExecuteStep
  <2>5. PageShows([p EXCEPT !.pc = "safe"], s_shown[w])
    BY <1>0, PageLeaves
  <2>6. s_page' = [o_ \in Owners |-> s_page'[o_]] /\ \A o_ \in Owners : PageShows(s_page'[o_], s_shown'[o_])
    BY <2>1, <2>5 DEF SafeInv, S!Set
  <2>7. \A d \in s_queue' : d.sigs \subseteq Seers(d.tx)'
    BY <2>1, SeersGrow DEF SafeInv, Seers
  <2> QED BY <2>1, <2>4, <2>6, <2>7 DEF SafeInv
<1>9. ASSUME NEW q \in Projects, S!AddExisting(w, q) \/ S!RemoveCampaign(w, q) PROVE SafeInv'
  BY <1>0, <1>9, PageLeaves, PageStep DEF S!AddExisting, S!RemoveCampaign, S!Goto, S!chainVars
<1> QED BY <1>1, <1>2, <1>3, <1>4, <1>5, <1>6, <1>7, <1>8, <1>9 DEF S!PageStep

\* Nobody's page: the gas key, and what an owner signs elsewhere.
LEMMA SetupOtherStep ==
  ASSUME SafeInv,
         \/ \E w \in Owners, tx \in {[set |-> Projects, other |-> TRUE]} : S!SignElsewhere(w, tx)
         \/ \E e \in s_queue : S!ExecuteWithGasKey(e)
  PROVE  SafeInv'
<1>1. ASSUME NEW w \in Owners, NEW tx, S!SignElsewhere(w, tx) PROVE SafeInv'
  <2>1. /\ UNCHANGED <<s_page, s_executed>> /\ s_shown' = [s_shown EXCEPT ![w] = @ \cup {tx}]
        /\ \E n : S!Signed(w, n, tx)
    BY <1>1 DEF S!SignElsewhere, S!chainVars
  <2>2. /\ s_shown' = [o_ \in Owners |-> s_shown'[o_]] /\ tx \in s_shown'[w]
        /\ \A o_ \in Owners : s_shown[o_] \subseteq s_shown'[o_]
    BY <2>1 DEF SafeInv
  <2>3. \A e \in s_queue' : e.sigs \subseteq Seers(e.tx)'
    BY <2>1, <2>2, SignStep
  <2>4. \A o_ \in Owners : PageShows(s_page'[o_], s_shown'[o_])
    BY <2>1, <2>2 DEF SafeInv, PageShows
  <2>5. \A x \in s_executed : Cardinality(Seers(x)') >= Threshold
    BY <2>2, SeersGrow DEF SafeInv
  <2> QED BY <2>1, <2>2, <2>3, <2>4, <2>5 DEF SafeInv
<1>2. ASSUME NEW e \in s_queue, S!ExecuteWithGasKey(e) PROVE SafeInv'
  <2>1. /\ UNCHANGED <<s_queue, s_page, s_shown>> /\ S!Executes(e.tx)
        /\ Cardinality(e.sigs \cap Owners) >= Threshold
    BY <1>2, SetupCounts DEF S!ExecuteWithGasKey, S!PickExecSignatures
  <2>2. e.sigs \cap Owners \in SUBSET Seers(e.tx)
    BY DEF SafeInv
  <2>3. Cardinality(Seers(e.tx)) >= Threshold
    BY <2>1, <2>2, EnoughSigned
  <2>4. \A x \in s_executed' : Cardinality(Seers(x)') >= Threshold
    BY <2>1, <2>3, ExecuteStep
  <2> QED BY <2>1, <2>4 DEF SafeInv, Seers
<1> QED BY <1>1, <1>2

\* Every step of every part keeps the Safe as it should be.
LEMMA SafeInvStep == SafeInv /\ [Next]_all => SafeInv'
<1> SUFFICES ASSUME SafeInv, [Next]_all PROVE SafeInv'
  OBVIOUS
<1>1. CASE SetupStep
  BY <1>1, SetupPageStep, SetupOtherStep DEF SetupStep, S!Next
<1>2. CASE UNCHANGED s_all
  BY <1>2 DEF s_all, SafeInv, Seers
<1>3. SetupStep \/ UNCHANGED s_all
  BY DEF Next, all, ApiStep, ListStep, OnboardingStep, AccessStep, AdminStep, SandboxStep
<1> QED BY <1>1, <1>2, <1>3

\* Nothing planned, queued or executed yet.
LEMMA SafeInvInit == Init => SafeInv
BY DEF Init, S!Init, S!Page0, SafeInv, PageShows, Seers

\* Whatever pages are stale, whatever is proposed twice and whatever else the
\* queue holds: the Safe only carries out what as many owners as its threshold
\* were shown.
THEOREM SafeIsItsOwners == Spec => []OwnersDecide
<1>1. SafeInv => OwnersDecide
  BY SetupCounts DEF SafeInv, Seers, OwnersDecide, S!OwnersDecide
<1> QED BY <1>1, SafeInvInit, SafeInvStep, PTL DEF Spec

-----------------------------------------------------------------------------
(* The way into the admin pages: sessions, challenges, passkeys *)

\* Requests that carry the e-mail of a session or of a passkey.
Carries == {"act", "options", "add", "verify", "start", "register", "insert"}

\* What the tables hold and what is noted of their use; every e-mail in them is
\* one that Access vouched for.
AdminTyped ==
  /\ d_now \in Nat
  /\ d_used \in [D!Ids("session") -> Nat] /\ d_won \in [D!Ids("challenge") -> Nat]
  /\ DOMAIN d_made = {"session", "challenge", "passkey"}
  /\ d_made.session \in Nat /\ d_made.challenge \in Nat
  /\ d_sessions \subseteq [id : D!Ids("session"), email : d_proven, created : Nat, expires : Nat, seen : Nat]
  /\ \A k \in d_passkeys : k.email \in d_proven
  /\ d_req = [w \in Browsers |-> d_req[w]]
  /\ \A w \in Browsers : d_req[w].pc \in Carries => d_req[w].email \in d_proven

\* An id is given once, and the note of a session is never later than its use.
SessionNoted(s) == s.id <= d_made.session /\ s.seen <= d_used[s.id]
SessionsNoted ==
  /\ \A s \in d_sessions : SessionNoted(s)
  /\ \A s, t \in d_sessions : s.id = t.id => s = t
  /\ \A i \in D!Ids("session") : d_used[i] <= d_now

\* A challenge that is still there has not passed; an id not yet given neither.
ChallengesOpen ==
  /\ \A c \in d_challenges : c.id \in D!Ids("challenge") /\ c.id <= d_made.challenge /\ d_won[c.id] = 0
  /\ \A c, d \in d_challenges : c.id = d.id => c = d
  /\ \A i \in D!Ids("challenge") : d_won[i] <= 1 /\ (i > d_made.challenge => d_won[i] = 0)

AdminInv == AdminTyped /\ SessionsNoted /\ ChallengesOpen /\ D!IdleIsOver

\* What the assumption says of the times.
LEMMA AdminTimes == {Lifetime, IdleTime, Resolution, Fresh, Answerable, MaxPasskeys, MaxTime} \subseteq Nat
<1>1. D!AdminAuthAssumption
  BY TenantsAssumption
<1> QED BY <1>1 DEF D!AdminAuthAssumption

\* Steps that leave the tables and the notes alone.
LEMMA AdminReqStep ==
  ASSUME AdminInv, NEW w \in Browsers, NEW r, D!Goes(w, r),
         r.pc \in Carries => r.email \in d_proven,
         r.pc \in {"act", "options", "add"} => ~ r.idle,
         UNCHANGED <<d_now, d_sessions, d_challenges, d_passkeys, d_made, d_used, d_won, d_proven>>
  PROVE  AdminInv'
BY DEF AdminInv, AdminTyped, SessionsNoted, SessionNoted, ChallengesOpen, D!IdleIsOver, D!Goes, D!Ids

\* createSession gives an id that no session has or had.
LEMMA CreateSessionStep ==
  ASSUME AdminInv, NEW w \in Browsers, NEW email \in d_proven', D!CreateSession(w, email),
         d_proven \subseteq d_proven',
         UNCHANGED <<d_now, d_challenges, d_passkeys, d_won>>,
         d_req' = [v \in Browsers |-> d_req'[v]],
         \A v \in Browsers : d_req'[v] = d_req[v] \/ d_req'[v] = D!NoRequest
  PROVE  AdminInv'
<1> DEFINE id == d_made.session + 1
           new == [id |-> id, email |-> email, created |-> d_now, expires |-> d_now + Lifetime, seen |-> d_now]
<1>0. /\ id \in D!Ids("session") /\ id \in Nat /\ id > d_made.session /\ d_now + Lifetime \in Nat
  BY AdminTimes DEF D!CreateSession, AdminInv, AdminTyped
<1>1. /\ d_made' = [d_made EXCEPT !.session = id] /\ d_used' = [d_used EXCEPT ![id] = d_now]
      /\ d_sessions' \subseteq d_sessions \cup {new}
  BY DEF D!CreateSession
<1>2. /\ DOMAIN d_made' = {"session", "challenge", "passkey"}
      /\ d_made'.session = id /\ d_made'.challenge = d_made.challenge
      /\ d_used' \in [D!Ids("session") -> Nat] /\ d_used'[id] = d_now
      /\ \A i \in D!Ids("session") : i # id => d_used'[i] = d_used[i]
  BY <1>0, <1>1 DEF AdminInv, AdminTyped
<1>3. new \in [id : D!Ids("session"), email : d_proven', created : Nat, expires : Nat, seen : Nat]
  BY <1>0 DEF AdminInv, AdminTyped
<1>4. new.id = id /\ new.seen = d_now
  OBVIOUS
<1> HIDE DEF new
<1>5. d_sessions' \subseteq [id : D!Ids("session"), email : d_proven', created : Nat, expires : Nat, seen : Nat]
  BY <1>1, <1>3 DEF AdminInv, AdminTyped
<1>6. \A s \in d_sessions : s.id \in D!Ids("session") /\ s.id \in Nat /\ s.id # id /\ s.id < id /\ s.seen <= d_used[s.id]
  BY <1>0 DEF AdminInv, AdminTyped, SessionsNoted, SessionNoted, D!Ids
<1>7. SessionsNoted'
  <2>1. ASSUME NEW s \in d_sessions' PROVE SessionNoted(s)'
    BY <1>0, <1>1, <1>2, <1>4, <1>6 DEF SessionNoted, AdminInv, AdminTyped
  <2>2. \A s, t \in d_sessions' : s.id = t.id => s = t
    BY <1>1, <1>4, <1>6 DEF AdminInv, SessionsNoted
  <2>3. \A i \in D!Ids("session") : d_used'[i] <= d_now'
    BY <1>2 DEF AdminInv, AdminTyped, SessionsNoted
  <2> QED BY <2>1, <2>2, <2>3 DEF SessionsNoted, D!Ids
<1>8. AdminTyped'
  BY <1>0, <1>2, <1>5 DEF AdminInv, AdminTyped, D!Ids, D!NoRequest, Carries
<1>9. ChallengesOpen'
  BY <1>2 DEF AdminInv, ChallengesOpen, D!Ids
<1>10. D!IdleIsOver'
  BY DEF AdminInv, D!IdleIsOver, D!NoRequest
<1> QED BY <1>7, <1>8, <1>9, <1>10 DEF AdminInv

\* Likewise for a challenge.
LEMMA StoreChallengeStep ==
  ASSUME AdminInv, NEW purpose, NEW email, D!StoreChallenge(purpose, email),
         UNCHANGED <<d_now, d_sessions, d_passkeys, d_used, d_won, d_proven>>,
         d_req' = [v \in Browsers |-> d_req'[v]],
         \A v \in Browsers : d_req'[v] = d_req[v] \/ d_req'[v] = D!NoRequest
  PROVE  AdminInv'
<1> DEFINE id == d_made.challenge + 1
           new == [id |-> id, purpose |-> purpose, email |-> email, expires |-> d_now + Answerable]
<1>1. /\ id \in D!Ids("challenge") /\ id \in Nat /\ id > d_made.challenge
      /\ d_made' = [d_made EXCEPT !.challenge = id] /\ d_challenges' \subseteq d_challenges \cup {new}
  BY DEF D!StoreChallenge, AdminInv, AdminTyped
<1>2. new.id = id
  OBVIOUS
<1> HIDE DEF new
<1>3. /\ DOMAIN d_made' = {"session", "challenge", "passkey"}
      /\ d_made'.challenge = id /\ d_made'.session = d_made.session
  BY <1>1 DEF AdminInv, AdminTyped
<1>4. /\ \A c \in d_challenges' : c.id \in D!Ids("challenge") /\ c.id <= id /\ d_won[c.id] = 0
      /\ \A c, d \in d_challenges' : c.id = d.id => c = d
  BY <1>1, <1>2 DEF AdminInv, AdminTyped, ChallengesOpen, D!Ids
<1>5. \A i \in D!Ids("challenge") : d_won[i] <= 1 /\ (i > id => d_won[i] = 0)
  BY <1>1 DEF AdminInv, AdminTyped, ChallengesOpen, D!Ids
<1>6. ChallengesOpen'
  BY <1>3, <1>4, <1>5 DEF ChallengesOpen, D!Ids
<1>7. AdminTyped'
  BY <1>1, <1>3 DEF AdminInv, AdminTyped, D!Ids, D!NoRequest, Carries
<1>8. SessionsNoted' /\ D!IdleIsOver'
  BY <1>3 DEF AdminInv, SessionsNoted, SessionNoted, D!IdleIsOver, D!NoRequest, D!Ids
<1> QED BY <1>6, <1>7, <1>8 DEF AdminInv

\* A request is accepted: the use before was no longer ago than the note, and the
\* note may be written, or be left as it is.
LEMMA RequestStep ==
  ASSUME AdminInv, NEW w \in Browsers, NEW what \in {"act", "options", "add"}, D!Request(w, what)
  PROVE  AdminInv'
<1>1. PICK s \in d_sessions :
        /\ D!Accepted(s, d_allowed) /\ d_sessions' \in D!Touched(s)
        /\ d_used' = [d_used EXCEPT ![s.id] = d_now]
        /\ D!Goes(w, [pc |-> what, email |-> s.email, created |-> IF what = "act" THEN 0 ELSE s.created,
                      idle |-> d_now - d_used[s.id] > IdleTime])
        /\ UNCHANGED <<d_now, d_challenges, d_passkeys, d_made, d_won, d_proven>>
  BY DEF D!Request
<1>2. /\ s.id \in D!Ids("session") /\ s.email \in d_proven /\ s.seen \in Nat
      /\ s.seen <= d_used[s.id] /\ d_used[s.id] \in Nat /\ d_used[s.id] <= d_now /\ IdleTime \in Nat
      /\ d_now \in Nat /\ s.id <= d_made.session
  BY AdminTimes DEF AdminInv, AdminTyped, SessionsNoted, SessionNoted
<1>3. ~ (d_now - d_used[s.id] > IdleTime)
  BY <1>1, <1>2 DEF D!Accepted, D!IdleLong
<1>4. /\ d_used' \in [D!Ids("session") -> Nat] /\ d_used'[s.id] = d_now
      /\ \A i \in D!Ids("session") : i # s.id => d_used'[i] = d_used[i]
      /\ \A i \in D!Ids("session") : d_used'[i] <= d_now
  BY <1>1, <1>2 DEF AdminInv, AdminTyped, SessionsNoted
<1> DEFINE new == [s EXCEPT !.seen = d_now]
<1>5. /\ new \in [id : D!Ids("session"), email : d_proven, created : Nat, expires : Nat, seen : Nat]
      /\ new.id = s.id /\ new.seen = d_now
  BY <1>2 DEF AdminInv, AdminTyped
<1>6. d_sessions' = d_sessions \/ d_sessions' = (d_sessions \ {s}) \cup {new}
  BY <1>1 DEF D!Touched
<1> HIDE DEF new
<1>7. d_sessions' \subseteq [id : D!Ids("session"), email : d_proven, created : Nat, expires : Nat, seen : Nat]
  BY <1>5, <1>6 DEF AdminInv, AdminTyped
<1>8. SessionsNoted'
  <2>1. ASSUME NEW t \in d_sessions' PROVE t.id <= d_made.session /\ t.seen <= d_used'[t.id]
    <3>1. CASE t \in d_sessions /\ t.id # s.id
      BY <1>4, <3>1 DEF AdminInv, AdminTyped, SessionsNoted, SessionNoted
    <3>2. CASE t.id = s.id
      BY <1>2, <1>4, <1>5, <1>6, <3>2 DEF AdminInv, AdminTyped, SessionsNoted, SessionNoted
    <3> QED BY <1>5, <1>6, <3>1, <3>2
  <2>2. \A t, u \in d_sessions' : t.id = u.id => t = u
    BY <1>5, <1>6 DEF AdminInv, SessionsNoted
  <2> QED BY <1>1, <1>4, <2>1, <2>2 DEF SessionsNoted, SessionNoted, D!Ids
<1>9. AdminTyped'
  BY <1>1, <1>2, <1>4, <1>7 DEF AdminInv, AdminTyped, D!Ids, D!Goes, Carries
<1>10. ChallengesOpen'
  BY <1>1 DEF AdminInv, ChallengesOpen, D!Ids
<1>11. D!IdleIsOver'
  BY <1>1, <1>3 DEF AdminInv, AdminTyped, D!IdleIsOver, D!Goes
<1> QED BY <1>8, <1>9, <1>10, <1>11 DEF AdminInv

\* One verification of a challenge passes, and the challenge is gone.
LEMMA ConsumeStep ==
  ASSUME AdminInv, NEW w \in Browsers, NEW c \in d_challenges, NEW purpose,
         D!ConsumeChallenge(c, purpose), NEW pc \in {"start", "insert"},
         D!Goes(w, [pc |-> pc, email |-> d_req[w].email]), d_req[w].pc \in {"verify", "register"},
         UNCHANGED <<d_now, d_sessions, d_passkeys, d_made, d_used, d_proven>>
  PROVE  AdminInv'
<1>1. /\ c.id \in D!Ids("challenge") /\ c.id <= d_made.challenge /\ d_won[c.id] = 0
      /\ d_challenges' = d_challenges \ {c} /\ d_won' = [d_won EXCEPT ![c.id] = @ + 1]
  BY DEF AdminInv, ChallengesOpen, D!ConsumeChallenge
<1>2. /\ d_won' \in [D!Ids("challenge") -> Nat] /\ d_won'[c.id] = 1
      /\ \A i \in D!Ids("challenge") : i # c.id => d_won'[i] = d_won[i]
  BY <1>1 DEF AdminInv, AdminTyped
<1>3. ChallengesOpen'
  BY <1>1, <1>2 DEF AdminInv, AdminTyped, ChallengesOpen, D!Ids
<1>4. AdminTyped'
  BY <1>2 DEF AdminInv, AdminTyped, D!Ids, D!Goes, Carries
<1>5. SessionsNoted' /\ D!IdleIsOver'
  BY DEF AdminInv, AdminTyped, SessionsNoted, SessionNoted, D!IdleIsOver, D!Goes, D!Ids
<1> QED BY <1>3, <1>4, <1>5 DEF AdminInv

\* A challenge or a session that is deleted takes nothing with it.
LEMMA DeleteStep ==
  ASSUME AdminInv, NEW w \in Browsers,
         D!DeleteSession(w) \/ (\E c \in d_challenges : D!SpoilChallenge(w, c))
           \/ \E k \in d_passkeys : D!DeletePasskey(w, k)
  PROVE  AdminInv'
<1>1. CASE D!DeleteSession(w)
  <2> DEFINE id == d_cookie[w]
  <2>1. /\ d_sessions' = {s \in d_sessions : s.id # id} /\ d_used' = [d_used EXCEPT ![id] = 0]
        /\ UNCHANGED <<d_now, d_challenges, d_passkeys, d_req, d_made, d_won, d_proven>>
    BY <1>1 DEF D!DeleteSession
  <2>2. /\ d_used' \in [D!Ids("session") -> Nat]
        /\ \A i \in D!Ids("session") : d_used'[i] <= d_now
        /\ \A s \in d_sessions' : s \in d_sessions /\ d_used'[s.id] = d_used[s.id]
    <3> HIDE DEF id
    <3>1. d_used' \in [D!Ids("session") -> Nat] /\ d_now \in Nat
      BY <2>1 DEF AdminInv, AdminTyped
    <3>2. \A i \in D!Ids("session") : d_used'[i] = d_used[i] \/ d_used'[i] = 0
      BY <2>1 DEF AdminInv, AdminTyped
    <3>3. \A i \in D!Ids("session") : d_used'[i] <= d_now
      BY <3>1, <3>2 DEF AdminInv, SessionsNoted
    <3>4. \A i \in D!Ids("session") : i # id => d_used'[i] = d_used[i]
      BY <2>1 DEF AdminInv, AdminTyped
    <3>5. \A s \in d_sessions' : s \in d_sessions /\ s.id # id /\ s.id \in D!Ids("session")
      BY <2>1 DEF AdminInv, AdminTyped
    <3> QED BY <3>1, <3>3, <3>4, <3>5
  <2>3. AdminTyped' /\ SessionsNoted'
    BY <2>1, <2>2 DEF AdminInv, AdminTyped, SessionsNoted, SessionNoted, D!Ids
  <2>4. ChallengesOpen' /\ D!IdleIsOver'
    BY <2>1 DEF AdminInv, ChallengesOpen, D!IdleIsOver, D!Ids
  <2> QED BY <2>3, <2>4 DEF AdminInv
<1>2. CASE \E c \in d_challenges : D!SpoilChallenge(w, c)
  BY <1>2 DEF D!SpoilChallenge, AdminInv, AdminTyped, SessionsNoted, SessionNoted, ChallengesOpen,
              D!IdleIsOver, D!Ends, D!Goes, D!NoRequest, D!Ids, Carries, D!ghosts
<1>3. CASE \E k \in d_passkeys : D!DeletePasskey(w, k)
  BY <1>3 DEF D!DeletePasskey, AdminInv, AdminTyped, SessionsNoted, SessionNoted, ChallengesOpen,
              D!IdleIsOver, D!Ends, D!Goes, D!NoRequest, D!Ids, Carries, D!ghosts
<1> QED BY <1>1, <1>2, <1>3

\* Every step of every part keeps the way in as it should be.
LEMMA AdminInvStep == AdminInv /\ [Next]_all => AdminInv'
<1> SUFFICES ASSUME AdminInv, [Next]_all PROVE AdminInv'
  OBVIOUS
<1>1. CASE AdminStep
  <2>1. ASSUME NEW w \in Browsers, NEW e \in Emails, D!Sso(w, e) PROVE AdminInv'
    BY <2>1, CreateSessionStep DEF D!Sso, AdminInv, AdminTyped
  <2>2. ASSUME NEW w \in Browsers, D!Act(w) \/ D!Fails(w) PROVE AdminInv'
    BY <2>2, AdminReqStep DEF D!Act, D!Fails, D!Ends, D!NoRequest, D!tables, D!ghosts, Carries
  <2>3. ASSUME NEW w \in Browsers, D!LoginOptions(w) PROVE AdminInv'
    BY <2>3, StoreChallengeStep DEF D!LoginOptions, AdminInv, AdminTyped, D!ghosts
  <2>4. ASSUME NEW w \in Browsers, D!StartSession(w) PROVE AdminInv'
    <3>1. d_req[w].email \in d_proven' /\ D!CreateSession(w, d_req[w].email)
      BY <2>4 DEF D!StartSession, AdminInv, AdminTyped, Carries
    <3>2. /\ d_req' = [v \in Browsers |-> d_req'[v]]
          /\ \A v \in Browsers : d_req'[v] = d_req[v] \/ d_req'[v] = D!NoRequest
      BY <2>4 DEF D!StartSession, D!Ends, D!Goes, AdminInv, AdminTyped
    <3> QED BY <2>4, <3>1, <3>2, CreateSessionStep DEF D!StartSession
  <2>5. ASSUME NEW w \in Browsers, D!RegistrationOptions(w) PROVE AdminInv'
    <3>1. /\ d_req' = [v \in Browsers |-> d_req'[v]]
          /\ \A v \in Browsers : d_req'[v] = d_req[v] \/ d_req'[v] = D!NoRequest
      BY <2>5 DEF D!RegistrationOptions, D!Ends, D!Goes, AdminInv, AdminTyped
    <3>2. CASE D!StoreChallenge("register", d_req[w].email)
      BY <2>5, <3>1, <3>2, StoreChallengeStep DEF D!RegistrationOptions, D!ghosts
    <3>3. CASE UNCHANGED <<d_challenges, d_made>>
      BY <2>5, <3>3, AdminReqStep DEF D!RegistrationOptions, D!Ends, D!NoRequest, D!ghosts, Carries
    <3> QED BY <2>5, <3>2, <3>3 DEF D!RegistrationOptions
  <2>6. ASSUME NEW w \in Browsers, D!InsertPasskey(w) PROVE AdminInv'
    <3>1. d_req[w].email \in d_proven
      BY <2>6 DEF D!InsertPasskey, AdminInv, AdminTyped, Carries
    <3>2. /\ DOMAIN d_made' = {"session", "challenge", "passkey"}
          /\ d_made'.session = d_made.session /\ d_made'.challenge = d_made.challenge
      BY <2>6 DEF D!InsertPasskey, AdminInv, AdminTyped
    <3> QED BY <2>6, <3>1, <3>2
            DEF D!InsertPasskey, AdminInv, AdminTyped, SessionsNoted, SessionNoted, ChallengesOpen,
                D!IdleIsOver, D!Ends, D!Goes, D!NoRequest, D!Ids, Carries, D!ghosts
  <2>7. ASSUME NEW w \in Browsers, NEW c \in d_challenges, D!LoginVerified(w, c) \/ D!VerifyRegistration(w, c)
        PROVE  AdminInv'
    BY <2>7, ConsumeStep DEF D!LoginVerified, D!VerifyRegistration
  <2>8. ASSUME NEW w \in Browsers, NEW c \in d_challenges, D!RegisterVerify(w, c) PROVE AdminInv'
    <3>1. d_req[w].email \in d_proven
      BY <2>8 DEF D!RegisterVerify, AdminInv, AdminTyped, Carries
    <3> QED BY <2>8, <3>1, AdminReqStep DEF D!RegisterVerify, D!Ends, D!NoRequest, D!tables, D!ghosts, Carries
  <2>9. ASSUME NEW w \in Browsers, NEW c \in d_challenges, NEW k \in d_passkeys, D!VerifyLogin(w, k, c)
        PROVE  AdminInv'
    BY <2>9, AdminReqStep DEF D!VerifyLogin, D!tables, D!ghosts, AdminInv, AdminTyped
  <2>10. ASSUME D!Tick PROVE AdminInv'
    BY <2>10 DEF D!Tick, AdminInv, AdminTyped, SessionsNoted, SessionNoted, ChallengesOpen, D!IdleIsOver,
                 D!tables, D!ghosts, D!Ids
  <2>11. ASSUME NEW e, D!Deploy(e) PROVE AdminInv'
    BY <2>11 DEF D!Deploy, AdminInv, AdminTyped, SessionsNoted, SessionNoted, ChallengesOpen, D!IdleIsOver,
                 D!tables, D!ghosts, D!Ids
  <2> QED BY <1>1, <2>1, <2>2, <2>3, <2>4, <2>5, <2>6, <2>7, <2>8, <2>9, <2>10, <2>11, RequestStep, DeleteStep
          DEF AdminStep, D!Next
<1>2. CASE UNCHANGED d_all
  BY <1>2 DEF d_all, AdminInv, AdminTyped, SessionsNoted, SessionNoted, ChallengesOpen, D!IdleIsOver, D!Ids
<1>3. AdminStep \/ UNCHANGED d_all
  BY DEF Next, all, ApiStep, ListStep, OnboardingStep, AccessStep, SetupStep, SandboxStep
<1> QED BY <1>1, <1>2, <1>3

\* Nobody is in; who has a passkey has been vouched for.
LEMMA AdminInvInit == Init => AdminInv
<1> SUFFICES ASSUME Init PROVE AdminInv
  OBVIOUS
<1>1. d_made.session = 0 /\ d_made.challenge = 0 /\ DOMAIN d_made = {"session", "challenge", "passkey"}
  BY DEF Init, D!Init
<1> QED BY <1>1 DEF Init, D!Init, AdminInv, AdminTyped, SessionsNoted, ChallengesOpen, D!IdleIsOver,
                    D!NoRequest, Carries

\* Whatever requests overlap, are cut off or repeated: whoever has a session or a
\* passkey was once let in by Access, no session is accepted that had lain idle,
\* and a challenge passes one verification.
THEOREM NobodyElseIsIn == Spec => []SessionsHold
<1>1. AdminInv => SessionsHold
  <2> SUFFICES ASSUME AdminInv PROVE SessionsHold
    OBVIOUS
  <2>1. D!FirstByAccess
    BY DEF AdminInv, AdminTyped, D!FirstByAccess
  <2>2. D!ChallengeOnce
    BY DEF AdminInv, ChallengesOpen, D!ChallengeOnce
  <2> QED BY <2>1, <2>2 DEF AdminInv, SessionsHold
<1> QED BY <1>1, AdminInvInit, AdminInvStep, PTL DEF Spec

-----------------------------------------------------------------------------
(* The sandbox: an intent and the simulations that meet at it *)

Simulating == {"open", "receive", "finish", "forward", "paid", "underpaid", "late", "tell"}

IntentTyped(i) ==
  /\ i \in [tenant : Nat, state : {"none", "pending", "expired", "paid", "swept"}, order : Nat, got : Nat]
  /\ i.tenant = 0 <=> i.state \in {"none", "swept"}
  /\ i.state = "paid" => i.order # 0 /\ i.got >= X!Ask

\* Where a simulation stands, it has seen that the intent is there, and what it
\* found the intent not to be, the intent will not be again: each conditional
\* update leaves behind what it was not applied for.
CallStands(r, i) ==
  /\ r.pc \in Simulating => i.state # "none"
  /\ r.pc = "intent" => r.tenant \in X!Sandboxes
  /\ r.pc \in {"open", "receive", "finish"} =>
       DOMAIN r = {"pc", "outcome", "cents", "order", "tenant"} /\ r.cents \in Nat
  /\ r.pc \in {"forward", "paid", "underpaid", "late"} =>
       DOMAIN r = {"pc", "cents", "order", "tenant"} /\ r.cents \in Nat
  /\ r.pc \in {"finish", "forward", "paid", "underpaid", "late"} => r.order \in X!SimOrders
  /\ r.pc = "underpaid" /\ i.state = "pending" => r.cents < X!Ask
  /\ r.pc = "late" /\ i.state = "pending" => i.order # 0
  /\ r.pc = "tell" /\ i.tenant # 0 =>
       /\ i.order # 0
       /\ r.mark = "paid" => i.state = "paid"
       /\ r.mark = "late" => i.state = "expired"
  /\ r.pc = "touch" /\ r.settles => i.state # "none" /\ (i.tenant # 0 => i.order # 0)

AnswersStand(done, i) == done => i.state # "none" /\ (i.tenant # 0 => i.order # 0)

ToldOf(e, i) ==
  /\ i.state # "none"
  /\ i.tenant # 0 /\ e.what = "paid" => i.state = "paid" /\ i.order = e.order
  /\ i.tenant # 0 /\ e.what = "late" => i.state = "expired" /\ i.order = e.order /\ i.order # 0

SandboxInv ==
  /\ IntentTyped(x_intent)
  /\ x_call = [c \in Callers |-> x_call[c]]
  /\ \A c \in Callers : CallStands(x_call[c], x_intent)
  /\ AnswersStand(x_answered, x_intent)
  /\ \A e \in x_told : ToldOf(e, x_intent)

\* An intent only goes on: made once, and from pending to paid or to expired, where
\* one order may still settle it; what has settled it is not replaced.
Onward(i, j) ==
  /\ i.state = "none" \/ j.state # "none"
  /\ j.tenant # 0 /\ i.state # "none" =>
       /\ i.tenant # 0 /\ (i.order # 0 => j.order # 0)
       /\ i.state # "pending" => j.state = i.state
       /\ i.state = "paid" => j = i
       /\ i.state = "expired" /\ i.order # 0 => j = i

LEMMA StandsOnward ==
  ASSUME NEW i, NEW j, IntentTyped(i), IntentTyped(j), Onward(i, j)
  PROVE  /\ \A r : CallStands(r, i) => CallStands(r, j)
         /\ \A done : AnswersStand(done, i) => AnswersStand(done, j)
         /\ \A e : ToldOf(e, i) => ToldOf(e, j)
<1>1. \A r : CallStands(r, i) => CallStands(r, j)
  BY DEF IntentTyped, Onward, CallStands, Simulating
<1>2. \A done : AnswersStand(done, i) => AnswersStand(done, j)
  BY DEF IntentTyped, Onward, AnswersStand
<1>3. \A e : ToldOf(e, i) => ToldOf(e, j)
  BY DEF IntentTyped, Onward, ToldOf
<1> QED BY <1>1, <1>2, <1>3

\* One caller goes on, the intent with it or not.
LEMMA CallerStep ==
  ASSUME SandboxInv, NEW c \in Callers, NEW r, X!Goes(c, r), CallStands(r, x_intent'),
         IntentTyped(x_intent'), Onward(x_intent, x_intent'),
         UNCHANGED <<x_told, x_answered>>
  PROVE  SandboxInv'
<1>1. /\ \A d \in Callers : CallStands(x_call[d], x_intent')
      /\ AnswersStand(x_answered, x_intent')
      /\ \A e \in x_told : ToldOf(e, x_intent')
  BY StandsOnward DEF SandboxInv
<1> QED BY <1>1 DEF SandboxInv, X!Goes

\* Nobody's request: the deadline, and the sweep.
LEMMA IntentStep ==
  ASSUME SandboxInv, IntentTyped(x_intent'), Onward(x_intent, x_intent'), UNCHANGED x_call,
         AnswersStand(x_answered', x_intent'), x_told' \subseteq x_told
  PROVE  SandboxInv'
<1>1. /\ \A d \in Callers : CallStands(x_call[d], x_intent')
      /\ \A e \in x_told : ToldOf(e, x_intent')
  BY StandsOnward DEF SandboxInv
<1> QED BY <1>1 DEF SandboxInv

LEMMA OnwardSelf == \A i : Onward(i, i)
BY DEF Onward

\* What a step of a simulation does with the request and the intent, with no mark
\* of the intent in it.
LEMMA SimulationGoesOn ==
  ASSUME SandboxInv, NEW c \in Callers,
         X!ReadOpen(c) \/ X!NewOrder(c) \/ X!Reject(c) \/ X!ExpireFirst(c) \/ X!Process(c) \/ X!InsertForward(c)
  PROVE  SandboxInv'
<1> DEFINE r == x_call[c]
           i == x_intent
<1>0. CallStands(r, i) /\ IntentTyped(i)
  BY DEF SandboxInv
<1>1. ASSUME NEW q, CallStands(q, i), X!Goes(c, q), UNCHANGED <<x_intent, x_told, x_answered>>
      PROVE  SandboxInv'
  BY <1>0, <1>1, CallerStep, OnwardSelf
<1>2. ASSUME NEW t PROVE CallStands(X!Done(t, FALSE), i)
  BY DEF CallStands, X!Done, Simulating
<1>3. CallStands(X!Idle, i)
  BY DEF CallStands, X!Idle, Simulating
<1>4. ASSUME NEW n \in X!SimOrders, r.pc \in {"open", "receive"} PROVE CallStands([r EXCEPT !.pc = "finish", !.order = n], i)
  BY <1>0, <1>4 DEF CallStands, Simulating
<1>5. ASSUME NEW n \in X!SimOrders, r.pc \in {"open", "receive"}, X!GoesOn(c, n), UNCHANGED <<x_intent, x_told, x_answered>>
      PROVE  SandboxInv'
  <2>1. CASE r.outcome = "received"
    BY <1>1, <1>2, <1>5, <2>1 DEF X!GoesOn
  <2>2. CASE r.outcome # "received"
    BY <1>1, <1>4, <1>5, <2>2 DEF X!GoesOn
  <2> QED BY <2>1, <2>2
<1>6. CASE X!ReadOpen(c)
  <2>1. r.pc = "open" /\ UNCHANGED <<x_intent, x_told, x_answered>>
    BY <1>6 DEF X!ReadOpen, X!At, X!settled
  <2>2. CASE X!Goes(c, [r EXCEPT !.pc = "receive"])
    <3>1. CallStands([r EXCEPT !.pc = "receive"], i)
      BY <1>0, <2>1 DEF CallStands, Simulating
    <3> QED BY <1>1, <2>1, <2>2, <3>1
  <2>3. CASE \E n \in X!SimOrders : X!GoesOn(c, n)
    BY <1>5, <2>1, <2>3
  <2>4. CASE X!Ends(c)
    BY <1>1, <1>3, <2>1, <2>4 DEF X!Ends
  <2> QED BY <1>6, <2>2, <2>3, <2>4 DEF X!ReadOpen
<1>7. CASE X!NewOrder(c)
  BY <1>5, <1>7 DEF X!NewOrder, X!At
<1>8. CASE X!Reject(c)
  BY <1>1, <1>2, <1>8 DEF X!Reject
<1>9. CASE X!ExpireFirst(c)
  <2> DEFINE j == IF i.state = "pending" THEN [i EXCEPT !.state = "expired"] ELSE i
             q == [r EXCEPT !.outcome = "paid"]
  <2>1. r.pc = "finish" /\ x_intent' = j /\ X!Goes(c, q) /\ UNCHANGED <<x_told, x_answered>>
    BY <1>9 DEF X!ExpireFirst, X!At
  <2>2. IntentTyped(j) /\ Onward(i, j)
    BY <1>0 DEF IntentTyped, Onward
  <2>3. CallStands(q, i)
    BY <1>0, <2>1 DEF CallStands, Simulating
  <2>4. CallStands(q, j)
    BY <1>0, <2>2, <2>3, StandsOnward
  <2> HIDE DEF j, q
  <2> QED BY <2>1, <2>2, <2>4, CallerStep
<1>10. CASE X!Process(c)
  <2> DEFINE q == [pc |-> "forward", cents |-> r.cents, order |-> r.order, tenant |-> r.tenant]
  <2>1. r.pc = "finish" /\ X!Goes(c, q) /\ UNCHANGED <<x_intent, x_told, x_answered>>
    BY <1>10 DEF X!Process, X!At
  <2>2. CallStands(q, i)
    BY <1>0, <2>1 DEF CallStands, Simulating
  <2> QED BY <1>1, <2>1, <2>2
<1>11. CASE X!InsertForward(c)
  <2> DEFINE q == [r EXCEPT !.pc = "paid"]
  <2>1. r.pc = "forward" /\ X!Goes(c, q) /\ UNCHANGED <<x_intent, x_told, x_answered>>
    BY <1>11 DEF X!InsertForward, X!At
  <2>2. CallStands(q, i)
    BY <1>0, <2>1 DEF CallStands, Simulating
  <2> QED BY <1>1, <2>1, <2>2
<1> QED BY <1>6, <1>7, <1>8, <1>9, <1>10, <1>11

\* A conditional update: applied, it settles an intent that nothing has settled in
\* full; not applied, the intent is past it for good.
LEMMA MarkStep ==
  ASSUME SandboxInv, NEW c \in Callers, NEW mark \in X!Marks, X!Mark(c, mark)
  PROVE  SandboxInv'
<1> DEFINE r == x_call[c]
           i == x_intent
<1>0. /\ CallStands(r, i) /\ IntentTyped(i) /\ r.pc = mark /\ r.cents \in Nat /\ r.order \in X!SimOrders
      /\ mark \in {"paid", "underpaid", "late"} /\ i.state # "none" /\ X!Ask \in Nat
      /\ UNCHANGED <<x_told, x_answered>>
  BY DEF SandboxInv, X!Mark, X!At, X!Marks, CallStands, Simulating, X!Ask
<1>1. CASE X!Applies(mark, r.cents)
  <2> DEFINE j == [i EXCEPT !.order = r.order, !.got = r.cents, !.state = IF mark = "paid" THEN "paid" ELSE @]
             q == [pc |-> "tell", mark |-> mark, tenant |-> r.tenant]
  <2>1. x_intent' = j /\ X!Goes(c, q)
    BY <1>1 DEF X!Mark
  <2>2. /\ i.tenant # 0 /\ r.order \in Nat \ {0}
        /\ mark = "paid" => i.state = "pending" /\ r.cents >= X!Ask
        /\ mark = "underpaid" => i.state = "pending" /\ i.order = 0
        /\ mark = "late" => i.state = "expired" /\ i.order = 0
    BY <1>0, <1>1 DEF X!Applies, X!SimOrders
  <2>3. /\ j.tenant = i.tenant /\ j.order = r.order /\ j.got = r.cents
        /\ j.state = IF mark = "paid" THEN "paid" ELSE i.state
        /\ j \in [tenant : Nat, state : {"none", "pending", "expired", "paid", "swept"}, order : Nat, got : Nat]
    BY <1>0, <2>2 DEF IntentTyped
  <2>4. q.pc = "tell" /\ q.mark = mark
    OBVIOUS
  <2> HIDE DEF j, q
  <2>5. IntentTyped(j) /\ Onward(i, j)
    BY <1>0, <2>2, <2>3 DEF IntentTyped, Onward
  <2>6. CallStands(q, j)
    BY <1>0, <2>2, <2>3, <2>4 DEF CallStands, Simulating
  <2> QED BY <1>0, <2>1, <2>5, <2>6, CallerStep
<1>2. CASE ~ X!Applies(mark, r.cents)
  <2>1. UNCHANGED x_intent
    BY <1>2 DEF X!Mark
  <2>2. ASSUME NEW q, CallStands(q, i), X!Goes(c, q) PROVE SandboxInv'
    BY <1>0, <2>1, <2>2, CallerStep, OnwardSelf
  <2>3. CASE mark = "paid"
    <3> DEFINE q == [r EXCEPT !.pc = "underpaid"]
    <3>1. X!Goes(c, q)
      BY <1>2, <2>3 DEF X!Mark
    <3>2. i.state = "pending" => r.cents < X!Ask
      BY <1>0, <1>2, <2>3 DEF X!Applies, IntentTyped
    <3>3. CallStands(q, i)
      BY <1>0, <2>3, <3>2 DEF CallStands, Simulating
    <3> QED BY <2>2, <3>1, <3>3
  <2>4. CASE mark = "underpaid"
    <3> DEFINE q == [r EXCEPT !.pc = "late"]
    <3>1. X!Goes(c, q)
      BY <1>2, <2>4 DEF X!Mark
    <3>2. i.state = "pending" => i.order # 0
      BY <1>0, <1>2, <2>4 DEF X!Applies, IntentTyped, CallStands
    <3>3. CallStands(q, i)
      BY <1>0, <2>4, <3>2 DEF CallStands, Simulating
    <3> QED BY <2>2, <3>1, <3>3
  <2>5. CASE mark = "late"
    <3> DEFINE q == X!Done(r.tenant, TRUE)
    <3>1. X!Goes(c, q)
      BY <1>2, <2>5 DEF X!Mark
    <3>2. i.tenant # 0 => i.order # 0
      BY <1>0, <1>2, <2>5 DEF X!Applies, IntentTyped, CallStands
    <3>3. CallStands(q, i)
      BY <1>0, <3>2 DEF CallStands, Simulating, X!Done
    <3> QED BY <2>2, <3>1, <3>3
  <2> QED BY <1>0, <2>3, <2>4, <2>5
<1> QED BY <1>1, <1>2

\* The event is made of the intent as it is now, which is what the mark made of it.
LEMMA TellStep ==
  ASSUME SandboxInv, NEW c \in Callers, X!Tell(c)
  PROVE  SandboxInv'
<1> DEFINE r == x_call[c]
           i == x_intent
           e == [what |-> r.mark, order |-> i.order]
           q == X!Done(r.tenant, TRUE)
<1>1. /\ CallStands(r, i) /\ IntentTyped(i) /\ r.pc = "tell" /\ i.state # "none"
      /\ X!Goes(c, q) /\ UNCHANGED <<x_intent, x_answered>>
      /\ x_told' = x_told \/ (i.tenant # 0 /\ x_told' = x_told \cup {e})
  BY DEF SandboxInv, X!Tell, X!At, CallStands, Simulating
<1>2. i.tenant # 0 => ToldOf(e, i)
  BY <1>1 DEF CallStands, ToldOf
<1>3. CallStands(q, i)
  BY <1>1 DEF CallStands, Simulating, X!Done
<1> HIDE DEF e, q
<1>4. \A d \in x_told' : ToldOf(d, i)
  BY <1>1, <1>2 DEF SandboxInv
<1> QED BY <1>1, <1>3, <1>4 DEF SandboxInv, X!Goes

\* Every step of every part keeps the sandbox as it should be.
LEMMA SandboxInvStep == SandboxInv /\ [Next]_all => SandboxInv'
<1> SUFFICES ASSUME SandboxInv, [Next]_all PROVE SandboxInv'
  OBVIOUS
<1>0. IntentTyped(x_intent) /\ X!Sandboxes \subseteq Nat \ {0}
  BY DEF SandboxInv, X!Sandboxes
<1>1. CASE SandboxStep
  <2>0. ASSUME NEW c \in Callers, NEW q, q.pc \in {"idle", "create", "keys"} \/ (q.pc = "touch" /\ ~ q.settles),
               X!Goes(c, q), UNCHANGED <<x_intent, x_told, x_answered>>
        PROVE  SandboxInv'
    <3>1. CallStands(q, x_intent)
      BY <2>0 DEF CallStands, Simulating
    <3> QED BY <1>0, <2>0, <3>1, CallerStep, OnwardSelf
  <2>1. ASSUME UNCHANGED <<x_intent, x_told, x_answered, x_call>> PROVE SandboxInv'
    BY <2>1 DEF SandboxInv
  <2>2. ASSUME NEW c \in Callers, X!AskTenant(c) PROVE SandboxInv'
    BY <2>0, <2>2 DEF X!AskTenant, X!settled
  <2>3. ASSUME NEW c \in Callers, X!InsertApiKey(c) PROVE SandboxInv'
    BY <2>0, <2>1, <2>3 DEF X!InsertApiKey, X!settled, X!Ends, X!Idle
  <2>4. ASSUME NEW c \in Callers, NEW hook, X!CreateSandboxTenant(c, hook) PROVE SandboxInv'
    BY <2>0, <2>4 DEF X!CreateSandboxTenant, X!settled
  <2>5. ASSUME NEW c \in Callers, NEW t, NEW hook, X!UpdateSandboxWebhook(c, t, hook) PROVE SandboxInv'
    BY <2>1, <2>5 DEF X!UpdateSandboxWebhook, X!settled
  <2>6. ASSUME NEW c \in Callers, X!Touch(c) PROVE SandboxInv'
    <3>1. AnswersStand(x_answered', x_intent)
      BY <2>6 DEF X!Touch, X!At, SandboxInv, CallStands, AnswersStand
    <3>2. CallStands(X!Idle, x_intent)
      BY DEF CallStands, X!Idle, Simulating
    <3> QED BY <2>6, <3>1, <3>2 DEF X!Touch, X!Ends, X!Goes, SandboxInv
  <2>7. ASSUME NEW c \in Callers, X!CreateSandboxIntent(c) PROVE SandboxInv'
    <3> DEFINE q == X!Done(x_call[c].tenant, FALSE)
               j == IF x_intent = X!NoIntent THEN [X!NoIntent EXCEPT !.tenant = x_call[c].tenant, !.state = "pending"]
                    ELSE x_intent
    <3>1. /\ x_call[c].tenant \in Nat \ {0} /\ X!Goes(c, q) /\ x_intent' = j
          /\ UNCHANGED <<x_told, x_answered>>
      BY <1>0, <2>7 DEF X!CreateSandboxIntent, X!At, SandboxInv, CallStands
    <3>2. IntentTyped(j) /\ Onward(x_intent, j)
      <4>1. CASE x_intent = X!NoIntent
        <5>1. /\ j.tenant = x_call[c].tenant /\ j.state = "pending" /\ x_intent.state = "none"
              /\ j \in [tenant : Nat, state : {"none", "pending", "expired", "paid", "swept"}, order : Nat, got : Nat]
          BY <3>1, <4>1 DEF X!NoIntent
        <5> QED BY <3>1, <5>1 DEF IntentTyped, Onward
      <4>2. CASE x_intent # X!NoIntent
        BY <1>0, <4>2, OnwardSelf
      <4> QED BY <4>1, <4>2
    <3>3. CallStands(q, j)
      BY DEF CallStands, X!Done, Simulating
    <3> HIDE DEF q, j
    <3> QED BY <3>1, <3>2, <3>3, CallerStep
  <2>8. ASSUME NEW c \in Callers, NEW t \in X!Sandboxes, X!AskIntent(c, t) PROVE SandboxInv'
    <3>1. CallStands([pc |-> "intent", tenant |-> t], x_intent)
      BY DEF CallStands, Simulating
    <3> QED BY <1>0, <2>8, <3>1, CallerStep, OnwardSelf DEF X!AskIntent, X!settled
  <2>9. ASSUME NEW c \in Callers, NEW outcome \in X!Outcomes, X!SimulateRoute(c, outcome) PROVE SandboxInv'
    <3> DEFINE q == [pc |-> "open", outcome |-> outcome, cents |-> X!SimulatedAmount(outcome), order |-> 0,
                     tenant |-> x_intent.tenant]
    <3>1. x_intent.tenant # 0 /\ X!Goes(c, q) /\ UNCHANGED <<x_intent, x_told, x_answered>>
      BY <2>9 DEF X!SimulateRoute, X!settled
    <3>2. X!SimulatedAmount(outcome) \in Nat
      BY DEF X!SimulatedAmount, X!Ask
    <3>3. CallStands(q, x_intent)
      BY <1>0, <3>1, <3>2 DEF CallStands, Simulating, IntentTyped
    <3> QED BY <1>0, <3>1, <3>3, CallerStep, OnwardSelf
  <2>10. ASSUME NEW c \in Callers, X!SimulateStep(c) PROVE SandboxInv'
    BY <2>10, SimulationGoesOn, MarkStep, TellStep DEF X!SimulateStep
  <2>11. ASSUME X!Expire PROVE SandboxInv'
    <3> DEFINE j == [x_intent EXCEPT !.state = "expired"]
    <3>1. x_intent.state = "pending" /\ x_intent' = j /\ UNCHANGED <<x_told, x_answered, x_call>>
      BY <2>11 DEF X!Expire
    <3>2. IntentTyped(j) /\ Onward(x_intent, j)
      BY <1>0, <3>1 DEF IntentTyped, Onward
    <3>3. AnswersStand(x_answered, j)
      BY <1>0, <3>2, StandsOnward DEF SandboxInv
    <3> QED BY <3>1, <3>2, <3>3, IntentStep
  <2>12. ASSUME NEW t \in X!Sandboxes, X!DeleteTenant(t) PROVE SandboxInv'
    <3> DEFINE j == [X!NoIntent EXCEPT !.state = "swept"]
    <3>1. CASE x_intent.tenant = t
      <4>1. x_intent' = j /\ x_told' = {} /\ x_answered' = FALSE /\ UNCHANGED x_call
        BY <2>12, <3>1 DEF X!DeleteTenant, X!outside
      <4>2. IntentTyped(j) /\ Onward(x_intent, j) /\ AnswersStand(FALSE, j)
        BY DEF IntentTyped, Onward, AnswersStand, X!NoIntent
      <4> QED BY <4>1, <4>2, IntentStep
    <3>2. CASE x_intent.tenant # t
      BY <2>1, <2>12, <3>2 DEF X!DeleteTenant, X!settled
    <3> QED BY <3>1, <3>2
  <2>13. ASSUME X!Evict PROVE SandboxInv'
    BY <2>0, <2>1, <2>13 DEF X!Evict, X!settled, X!Ends, X!Idle
  <2>14. ASSUME X!ListExpired \/ X!Tick PROVE SandboxInv'
    BY <2>1, <2>14 DEF X!ListExpired, X!Tick, X!settled
  <2> QED BY <1>1, <2>2, <2>3, <2>4, <2>5, <2>6, <2>7, <2>8, <2>9, <2>10, <2>11, <2>12, <2>13, <2>14
          DEF SandboxStep, X!Next
<1>2. CASE UNCHANGED x_all
  BY <1>2 DEF x_all, SandboxInv
<1>3. SandboxStep \/ UNCHANGED x_all
  BY DEF Next, all, ApiStep, ListStep, OnboardingStep, AccessStep, SetupStep, AdminStep
<1> QED BY <1>1, <1>2, <1>3

\* No intent, no request.
LEMMA SandboxInvInit == Init => SandboxInv
BY DEF Init, X!Init, X!NoIntent, X!Idle, SandboxInv, IntentTyped, CallStands, AnswersStand, Simulating

\* Whatever simulations, deadlines, sweeps and evictions meet at an intent: one that
\* was answered ok has settled it, and what the merchant was told of it stays so.
THEOREM SimulationsStand == Spec => []SimulationSettles
<1>1. SandboxInv => X!AnsweredIsSettled
  BY DEF SandboxInv, AnswersStand, X!AnsweredIsSettled
<1>2. SandboxInv => X!ToldStands
  BY DEF SandboxInv, IntentTyped, ToldOf, X!ToldStands
<1>3. SandboxInv => SimulationSettles
  BY <1>1, <1>2 DEF SimulationSettles
<1> QED BY <1>3, SandboxInvInit, SandboxInvStep, PTL DEF Spec

-----------------------------------------------------------------------------
(* Who may be paid: campaigns, the whitelist and the gate *)

AdminOps == {"idle", "check", "plan", "deploy", "link", "add", "whitelist", "revoke", "list", "unlist"}
AdminRequest == [op : AdminOps, tenant : Tenants \cup {None}, id : Campaigns \cup {None},
                 safe : Safes \cup {None}, project : BOOLEAN]
CampaignRow == [tenant : Tenants \cup {None}, safe : Safes \cup {None}, live : BOOLEAN]

\* The rows of the campaigns, and that what is listed once is remembered.
AccessTyped ==
  /\ a_campaign \in [Campaigns -> CampaignRow]
  /\ a_made = [c \in Campaigns |-> a_made[c]]
  /\ a_req \in [Requests -> AdminRequest]
  /\ a_gate = [q \in Orders |-> a_gate[q]]
  /\ a_listed = [t \in Tenants |-> a_listed[t]] /\ a_ever = [t \in Tenants |-> a_ever[t]]

\* A project past its link has its Safe on the chain and at Monerium, whichever
\* attempt put it there; one past its deployment has it on the chain.
ProjectStands(me, deployed, linked) ==
  /\ me.op = "link" => me.safe \in deployed
  /\ me.project /\ me.op \in {"check", "add"} => me.safe \in deployed \cap linked

\* An order past its binding is at the gate of the tenant whose rail it is on; what it
\* has been allowed for was listed once, or is a registered wallet.
OrderStands(q, ever, wallets) ==
  /\ DOMAIN q = {"at", "rail", "kind", "id", "target", "tenant"}
  /\ q.at \in {"status", "static", "tenant", "dynamic"} => q.tenant = q.rail /\ q.tenant \in Tenants
  /\ q.at = "dynamic" => q.tenant \in Dynamic
  /\ q.at = "bind" => q.rail \in Tenants
  /\ q.at = "forward" => \/ q.target \in ever[q.rail]
                         \/ q.rail \in Dynamic /\ q.target \in wallets
  /\ q.at = "forward" => q.rail \in Tenants

AccessInv ==
  /\ AccessTyped
  /\ \A t \in Tenants : a_listed[t] \subseteq a_ever[t]
  /\ \A r \in Requests : ProjectStands(a_req[r], a_deployed, a_linked)
  /\ \A q \in Orders : OrderStands(a_gate[q], a_ever, a_wallets)
  /\ A!ProjectIsReal

\* More of the chain, of the list and of the wallets takes nothing away.
LEMMA AccessGrows ==
  ASSUME AccessInv, a_deployed \subseteq a_deployed', a_linked \subseteq a_linked',
         a_wallets \subseteq a_wallets', \A t \in Tenants : a_ever[t] \subseteq a_ever'[t]
  PROVE  /\ \A r \in Requests : ProjectStands(a_req[r], a_deployed', a_linked')
         /\ \A q \in Orders : OrderStands(a_gate[q], a_ever', a_wallets')
<1>1. \A r \in Requests : ProjectStands(a_req[r], a_deployed', a_linked')
  BY DEF AccessInv, ProjectStands
<1>2. ASSUME NEW q \in Orders PROVE OrderStands(a_gate[q], a_ever', a_wallets')
  BY DEF AccessInv, OrderStands
<1> QED BY <1>1, <1>2

\* One request goes on; of the rest only the chain grows.
LEMMA RequestGoesOn ==
  ASSUME AccessInv, NEW r \in Requests,
         NEW me \in AdminRequest,
         a_req' = [a_req EXCEPT ![r] = me], ProjectStands(me, a_deployed', a_linked'),
         a_deployed \subseteq a_deployed', a_linked \subseteq a_linked',
         UNCHANGED <<a_gate, a_wallets, a_listed, a_ever, a_campaign, a_made>>
  PROVE  AccessInv'
<1>1. /\ \A p \in Requests : ProjectStands(a_req[p], a_deployed', a_linked')
      /\ \A q \in Orders : OrderStands(a_gate[q], a_ever', a_wallets')
  BY AccessGrows
<1>2. \A p \in Requests : ProjectStands(a_req'[p], a_deployed', a_linked')
  BY <1>1 DEF AccessInv, AccessTyped
<1>3. AccessTyped'
  BY DEF AccessInv, AccessTyped
<1>4. A!ProjectIsReal'
  BY DEF AccessInv, A!ProjectIsReal, A!NoRow
<1>5. \A t \in Tenants : a_listed'[t] \subseteq a_ever'[t]
  BY DEF AccessInv
<1> QED BY <1>1, <1>2, <1>3, <1>4, <1>5 DEF AccessInv

\* One order goes on; nothing else does.
LEMMA OrderGoesOn ==
  ASSUME AccessInv, NEW w \in Orders, NEW q, a_gate' = [a_gate EXCEPT ![w] = q],
         OrderStands(q, a_ever, a_wallets),
         UNCHANGED <<a_req, a_deployed, a_linked, a_wallets, a_listed, a_ever, a_campaign, a_made>>
  PROVE  AccessInv'
<1>1. \A v \in Orders : OrderStands(a_gate'[v], a_ever', a_wallets')
  BY DEF AccessInv, AccessTyped
<1>2. AccessTyped' /\ A!ProjectIsReal'
  BY DEF AccessInv, AccessTyped, A!ProjectIsReal, A!NoRow
<1> QED BY <1>1, <1>2 DEF AccessInv

\* A request starts, looks, makes its Safe, links it, or ends.
LEMMA OperatorStep ==
  ASSUME AccessInv, NEW r \in Requests,
         \/ \E t \in Tenants : A!Ask(r, t)
         \/ A!Check(r) \/ A!Deploy(r) \/ A!Link(r) \/ A!Evict(r)
  PROVE  AccessInv'
<1>0. a_req[r] \in AdminRequest /\ ProjectStands(a_req[r], a_deployed, a_linked)
  BY DEF AccessInv, AccessTyped
<1>1. A!Idle \in AdminRequest /\ \A deployed, linked : ProjectStands(A!Idle, deployed, linked)
  BY DEF A!Idle, ProjectStands, AdminRequest, AdminOps
<1>2. ASSUME NEW op \in {"check", "plan", "revoke", "list", "unlist"},
             NEW t \in Tenants, NEW c \in Campaigns \cup {None}, NEW s \in Safes \cup {None},
             NEW project \in BOOLEAN, op = "check" => project = FALSE, A!Start(r, op, t, c, s, project)
      PROVE  AccessInv'
  <2> DEFINE me == [op |-> op, tenant |-> t, id |-> c, safe |-> s, project |-> project]
  <2>1. me \in AdminRequest /\ a_req' = [a_req EXCEPT ![r] = me]
    BY <1>2 DEF A!Start, AdminRequest, AdminOps
  <2>2. ProjectStands(me, a_deployed', a_linked')
    BY <1>2 DEF ProjectStands
  <2> HIDE DEF me
  <2> QED BY <1>2, <2>1, <2>2, RequestGoesOn DEF A!Start, A!rows, A!chain, A!ghost
<1>3. ASSUME NEW t \in Tenants, A!Ask(r, t) PROVE AccessInv'
  <2>1. CASE \E c \in Campaigns, s \in Safes : A!Start(r, "check", t, c, s, FALSE)
    BY <1>2, <2>1
  <2>2. CASE \E c \in Campaigns, s \in Safes \ {MainSafe[t]} : A!Start(r, "plan", t, c, s, TRUE)
    BY <1>2, <2>2
  <2>3. CASE \E c \in Campaigns : A!Start(r, "revoke", t, c, None, FALSE)
    BY <1>2, <2>3
  <2>4. CASE \E s \in Safes : A!Start(r, "list", t, None, s, FALSE) \/ A!Start(r, "unlist", t, None, s, FALSE)
    BY <1>2, <2>4
  <2> QED BY <1>3, <2>1, <2>2, <2>3, <2>4 DEF A!Ask
<1>4. ASSUME A!Done(r), a_deployed \subseteq a_deployed', a_linked \subseteq a_linked',
             UNCHANGED <<a_gate, a_wallets, a_listed, a_ever, a_campaign, a_made>>
      PROVE  AccessInv'
  BY <1>1, <1>4, RequestGoesOn DEF A!Done
<1>5. ASSUME NEW op \in AdminOps, A!Goto(r, op),
             op = "link" => a_req[r].safe \in a_deployed',
             op \in {"check", "add"} /\ a_req[r].project => a_req[r].safe \in a_deployed' \cap a_linked',
             a_deployed \subseteq a_deployed', a_linked \subseteq a_linked',
             UNCHANGED <<a_gate, a_wallets, a_listed, a_ever, a_campaign, a_made>>
      PROVE  AccessInv'
  <2> DEFINE me == [a_req[r] EXCEPT !.op = op]
  <2>1. me \in AdminRequest /\ me.op = op /\ me.safe = a_req[r].safe /\ me.project = a_req[r].project
    BY <1>0, <1>5 DEF AdminRequest
  <2>2. a_req' = [a_req EXCEPT ![r] = me]
    BY <1>5 DEF A!Goto
  <2> HIDE DEF me
  <2>3. ProjectStands(me, a_deployed', a_linked')
    BY <1>5, <2>1 DEF ProjectStands
  <2> QED BY <1>5, <2>1, <2>2, <2>3, RequestGoesOn
<1>6. CASE A!Check(r)
  <2>1. /\ a_req[r].op \in {"check", "plan"}
        /\ A!Done(r) \/ A!Goto(r, IF a_req[r].op = "plan" THEN "deploy" ELSE "add")
        /\ UNCHANGED <<a_deployed, a_linked, a_gate, a_wallets, a_listed, a_ever, a_campaign, a_made>>
    BY <1>6 DEF A!Check, A!rows, A!chain, A!ghost
  <2>2. CASE A!Done(r)
    BY <1>4, <2>1, <2>2
  <2>3. CASE a_req[r].op = "plan" /\ A!Goto(r, "deploy")
    BY <1>5, <2>1, <2>3 DEF AdminOps
  <2>4. CASE a_req[r].op = "check" /\ A!Goto(r, "add")
    BY <1>0, <1>5, <2>1, <2>4 DEF ProjectStands, AdminOps
  <2> QED BY <2>1, <2>2, <2>3, <2>4
<1>7. CASE A!Deploy(r)
  <2>1. /\ A!Done(r) \/ (A!Goto(r, "link") /\ a_req[r].safe \in a_deployed')
        /\ a_deployed \subseteq a_deployed'
        /\ UNCHANGED <<a_linked, a_gate, a_wallets, a_listed, a_ever, a_campaign, a_made>>
    BY <1>7 DEF A!Deploy, A!OnceDeployed, A!rows, A!ghost
  <2> QED BY <1>4, <1>5, <2>1 DEF AdminOps
<1>8. CASE A!Link(r)
  <2>1. /\ A!Done(r) \/ (A!Goto(r, "check") /\ a_req[r].safe \in a_linked')
        /\ a_linked \subseteq a_linked' /\ a_req[r].op = "link"
        /\ UNCHANGED <<a_deployed, a_gate, a_wallets, a_listed, a_ever, a_campaign, a_made>>
    BY <1>8 DEF A!Link, A!rows, A!ghost
  <2>2. a_req[r].safe \in a_deployed'
    BY <1>0, <2>1 DEF ProjectStands
  <2> QED BY <1>4, <1>5, <2>1, <2>2 DEF AdminOps
<1>9. CASE A!Evict(r)
  BY <1>4, <1>9 DEF A!Evict, A!rows, A!chain, A!ghost
<1> QED BY <1>3, <1>6, <1>7, <1>8, <1>9

\* A row is written, or an address listed: what the tables say stays backed.
LEMMA WriteStep ==
  ASSUME AccessInv, NEW r \in Requests,
         \/ A!AddCampaign(r) \/ A!ListCampaign(r) \/ A!RevokeCampaign(r)
         \/ A!ListAddress(r) \/ A!UnlistAddress(r)
  PROVE  AccessInv'
<1> DEFINE me == a_req[r]
<1>0. /\ me \in AdminRequest
      /\ ProjectStands(me, a_deployed, a_linked)
  BY DEF AccessInv, AccessTyped
<1>1. /\ UNCHANGED <<a_deployed, a_linked, a_gate, a_wallets>>
      /\ \E op \in {"idle", "whitelist"} : a_req' = [a_req EXCEPT ![r].op = op] \/ a_req' = [a_req EXCEPT ![r] = A!Idle]
  BY DEF A!AddCampaign, A!ListCampaign, A!RevokeCampaign, A!ListAddress, A!UnlistAddress, A!Goto, A!Done, A!chain
<1>2. /\ a_req' \in [Requests -> AdminRequest]
      /\ \A p \in Requests : ProjectStands(a_req'[p], a_deployed', a_linked')
  <2>1. PICK q \in AdminRequest : a_req' = [a_req EXCEPT ![r] = q] /\ q.op \in {"idle", "whitelist"}
    <3>1. /\ A!Idle \in AdminRequest /\ A!Idle.op = "idle"
          /\ \A op \in {"idle", "whitelist"} : [me EXCEPT !.op = op] \in AdminRequest /\ [me EXCEPT !.op = op].op = op
      BY <1>0 DEF A!Idle, AdminRequest, AdminOps
    <3> QED BY <1>1, <3>1
  <2>2. ProjectStands(q, a_deployed, a_linked)
    BY <2>1 DEF ProjectStands
  <2> QED BY <1>1, <2>1, <2>2 DEF AccessInv, AccessTyped
<1>3. /\ a_ever' = [t \in Tenants |-> a_ever'[t]] /\ a_listed' = [t \in Tenants |-> a_listed'[t]]
      /\ \A t \in Tenants : a_ever[t] \subseteq a_ever'[t] /\ a_listed'[t] \subseteq a_ever'[t]
  <2>1. CASE A!ListCampaign(r) \/ A!ListAddress(r)
    <3>1. /\ a_listed' = [a_listed EXCEPT ![me.tenant] = @ \cup {me.safe}]
          /\ a_ever' = [a_ever EXCEPT ![me.tenant] = @ \cup {me.safe}]
      BY <2>1 DEF A!ListCampaign, A!ListAddress, A!PutOnList
    <3> HIDE DEF me
    <3> QED BY <3>1 DEF AccessInv, AccessTyped
  <2>2. CASE A!UnlistAddress(r)
    BY <2>2 DEF A!UnlistAddress, A!ghost, AccessInv, AccessTyped
  <2>3. CASE A!AddCampaign(r) \/ A!RevokeCampaign(r)
    BY <2>3 DEF A!AddCampaign, A!RevokeCampaign, AccessInv, AccessTyped
  <2> QED BY <2>1, <2>2, <2>3
<1>4. \A q \in Orders : OrderStands(a_gate'[q], a_ever', a_wallets')
  BY <1>1, <1>3, AccessGrows
<1>5. /\ a_campaign' \in [Campaigns -> CampaignRow]
      /\ a_made' = [c \in Campaigns |-> a_made'[c]]
      /\ A!ProjectIsReal'
  <2>1. CASE A!AddCampaign(r)
    <3> DEFINE w == A!Written(me.tenant, me.id, me.safe)
    <3>1. /\ me.op = "add" /\ a_campaign' = [a_campaign EXCEPT ![me.id] = w]
          /\ a_made' = a_made \/ \E row : a_made' = [a_made EXCEPT ![me.id] = row]
      BY <2>1 DEF A!AddCampaign
    <3>2. ASSUME me.id \in Campaigns
          PROVE  w = a_campaign[me.id] \/ w = [tenant |-> me.tenant, safe |-> me.safe, live |-> TRUE]
      BY DEF A!Written
    <3>3. a_campaign' \in [Campaigns -> CampaignRow]
      <4>1. me.id \in Campaigns => w \in CampaignRow
        <5>1. me.id \in Campaigns => a_campaign[me.id] \in CampaignRow
          BY DEF AccessInv, AccessTyped
        <5>2. [tenant |-> me.tenant, safe |-> me.safe, live |-> TRUE] \in CampaignRow
          BY <1>0 DEF AdminRequest, CampaignRow
        <5> HIDE DEF w
        <5> QED BY <3>2, <5>1, <5>2
      <4> HIDE DEF w
      <4> QED BY <3>1, <4>1 DEF AccessInv, AccessTyped
    <3>4. a_made' = [c \in Campaigns |-> a_made'[c]]
      BY <3>1 DEF AccessInv, AccessTyped
    <3>5. ASSUME NEW c \in Campaigns, a_made'[c] # A!NoRow PROVE a_made'[c].safe \in a_deployed \cap a_linked
      <4>1. CASE a_made'[c] = a_made[c]
        BY <3>5, <4>1 DEF AccessInv, A!ProjectIsReal
      <4>2. CASE a_made'[c] # a_made[c]
        <5>1. /\ c = me.id /\ a_campaign'[c] # a_campaign[c] /\ me.project /\ a_made'[c] = a_campaign'[c]
          BY <2>1, <3>5, <4>2 DEF A!AddCampaign, AccessInv, AccessTyped
        <5>2. a_campaign'[c] = w
          BY <3>1, <5>1 DEF AccessInv, AccessTyped
        <5>3. a_made'[c].safe = me.safe
          BY <3>2, <5>1, <5>2
        <5> QED BY <1>0, <3>1, <5>1, <5>3 DEF ProjectStands
      <4> QED BY <4>1, <4>2
    <3> QED BY <1>1, <3>3, <3>4, <3>5 DEF A!ProjectIsReal, A!NoRow
  <2>2. CASE A!RevokeCampaign(r)
    BY <1>0, <1>1, <2>2 DEF A!RevokeCampaign, AccessInv, AccessTyped, A!ProjectIsReal, A!NoRow, CampaignRow
  <2>3. CASE A!ListCampaign(r) \/ A!ListAddress(r) \/ A!UnlistAddress(r)
    BY <1>1, <2>3 DEF A!ListCampaign, A!ListAddress, A!UnlistAddress, A!ghost, AccessInv, AccessTyped,
                      A!ProjectIsReal, A!NoRow
  <2> QED BY <2>1, <2>2, <2>3
<1> QED BY <1>1, <1>2, <1>3, <1>4, <1>5 DEF AccessInv, AccessTyped

\* An order comes to the gate, is asked about and leaves.
LEMMA GateStep ==
  ASSUME AccessInv, NEW w \in Orders,
         \/ \E t \in Tenants : \E kind, id, target : A!Arrive(w, t, kind, id, target)
         \/ A!Bind(w) \/ A!ReadStatus(w) \/ A!ReadStatic(w) \/ A!ReadTenant(w) \/ A!ReadWallets(w) \/ A!Leave(w)
  PROVE  AccessInv'
<1> DEFINE q == a_gate[w]
<1>0. /\ OrderStands(q, a_ever, a_wallets)
      /\ UNCHANGED <<a_req, a_deployed, a_linked, a_wallets, a_listed, a_ever, a_campaign, a_made>>
  BY DEF AccessInv, A!Arrive, A!Bind, A!ReadStatus, A!ReadStatic, A!ReadTenant, A!ReadWallets, A!Leave,
         A!rows, A!chain, A!ghost
<1>1. ASSUME A!Park(w) PROVE AccessInv'
  <2>1. OrderStands(A!AtRest, a_ever, a_wallets)
    BY DEF A!AtRest, OrderStands
  <2> QED BY <1>0, <1>1, <2>1, OrderGoesOn DEF A!Park
<1>2. ASSUME NEW at, a_gate' = [a_gate EXCEPT ![w].at = at], OrderStands([q EXCEPT !.at = at], a_ever, a_wallets)
      PROVE  AccessInv'
  BY <1>0, <1>2, OrderGoesOn
<1>3. ASSUME NEW t \in Tenants, NEW kind, NEW id, NEW target, A!Arrive(w, t, kind, id, target) PROVE AccessInv'
  <2> DEFINE n == [at |-> "bind", rail |-> t, kind |-> kind, id |-> id, target |-> target, tenant |-> None]
  <2>1. a_gate' = [a_gate EXCEPT ![w] = n]
    BY <1>3 DEF A!Arrive
  <2>2. OrderStands(n, a_ever, a_wallets)
    BY DEF OrderStands
  <2> HIDE DEF n
  <2> QED BY <1>0, <2>1, <2>2, OrderGoesOn
<1>4. CASE A!Bind(w)
  <2>1. /\ q.at = "bind"
        /\ \/ A!Park(w)
           \/ \E bound : bound.tenant = q.rail /\ a_gate' = [a_gate EXCEPT ![w].tenant = bound.tenant, ![w].at = "status"]
    BY <1>4 DEF A!Bind, A!Binds, A!At
  <2>2. CASE a_gate' = [a_gate EXCEPT ![w].tenant = q.rail, ![w].at = "status"]
    <3>1. a_gate' = [a_gate EXCEPT ![w] = [q EXCEPT !.tenant = q.rail, !.at = "status"]]
      BY <2>2 DEF AccessInv, AccessTyped
    <3>2. OrderStands([q EXCEPT !.tenant = q.rail, !.at = "status"], a_ever, a_wallets)
      BY <1>0, <2>1 DEF OrderStands
    <3> QED BY <1>0, <3>1, <3>2, OrderGoesOn
  <2> QED BY <1>1, <2>1, <2>2
<1>5. CASE A!ReadStatus(w)
  <2>1. q.at = "status" /\ (A!Park(w) \/ a_gate' = [a_gate EXCEPT ![w].at = "static"])
    BY <1>5 DEF A!ReadStatus, A!At
  <2>2. OrderStands([q EXCEPT !.at = "static"], a_ever, a_wallets)
    BY <1>0, <2>1 DEF OrderStands
  <2> QED BY <1>1, <1>2, <2>1, <2>2
<1>6. CASE A!ReadStatic(w)
  <2>1. /\ q.at = "static"
        /\ \/ q.target \in a_listed[q.tenant] /\ a_gate' = [a_gate EXCEPT ![w].at = "forward"]
           \/ a_gate' = [a_gate EXCEPT ![w].at = "tenant"]
    BY <1>6 DEF A!ReadStatic, A!Allow, A!At
  <2>2. OrderStands([q EXCEPT !.at = "tenant"], a_ever, a_wallets)
    BY <1>0, <2>1 DEF OrderStands
  <2>3. q.target \in a_listed[q.tenant] => OrderStands([q EXCEPT !.at = "forward"], a_ever, a_wallets)
    <3>1. q.tenant \in Tenants /\ a_listed[q.tenant] \subseteq a_ever[q.tenant]
      BY <1>0, <2>1 DEF OrderStands, AccessInv
    <3>2. ASSUME q.target \in a_listed[q.tenant] PROVE OrderStands([q EXCEPT !.at = "forward"], a_ever, a_wallets)
      <4>1. q.target \in a_ever[q.rail] /\ q.rail \in Tenants /\ DOMAIN q = {"at", "rail", "kind", "id", "target", "tenant"}
        BY <1>0, <2>1, <3>1, <3>2 DEF OrderStands
      <4> QED BY <4>1 DEF OrderStands
    <3> QED BY <3>2
  <2> QED BY <1>2, <2>1, <2>2, <2>3
<1>7. CASE A!ReadTenant(w)
  <2>1. q.at = "tenant" /\ (A!Park(w) \/ (q.tenant \in Dynamic /\ a_gate' = [a_gate EXCEPT ![w].at = "dynamic"]))
    BY <1>7 DEF A!ReadTenant, A!At
  <2>2. q.tenant \in Dynamic => OrderStands([q EXCEPT !.at = "dynamic"], a_ever, a_wallets)
    BY <1>0, <2>1 DEF OrderStands
  <2> QED BY <1>1, <1>2, <2>1, <2>2
<1>8. CASE A!ReadWallets(w)
  <2>1. q.at = "dynamic" /\ (A!Park(w) \/ (q.target \in a_wallets /\ a_gate' = [a_gate EXCEPT ![w].at = "forward"]))
    BY <1>8 DEF A!ReadWallets, A!Allow, A!At
  <2>2. q.target \in a_wallets => OrderStands([q EXCEPT !.at = "forward"], a_ever, a_wallets)
    BY <1>0, <2>1 DEF OrderStands
  <2> QED BY <1>1, <1>2, <2>1, <2>2
<1>9. CASE A!Leave(w)
  BY <1>1, <1>9 DEF A!Leave
<1> QED BY <1>3, <1>4, <1>5, <1>6, <1>7, <1>8, <1>9

\* Every step of every part keeps it so.
LEMMA AccessInvStep == AccessInv /\ [Next]_all => AccessInv'
<1> SUFFICES ASSUME AccessInv, [Next]_all PROVE AccessInv'
  OBVIOUS
<1>1. CASE AccessStep
  <2>1. ASSUME NEW t, A!SwitchTenant(t) PROVE AccessInv'
    BY <2>1 DEF A!SwitchTenant, A!chain, A!ghost, AccessInv, AccessTyped, A!ProjectIsReal, A!NoRow
  <2>2. ASSUME NEW s, A!RegisterWallet(s) PROVE AccessInv'
    <3>1. /\ UNCHANGED <<a_req, a_gate, a_deployed, a_linked, a_listed, a_ever, a_campaign, a_made>>
          /\ a_wallets \subseteq a_wallets'
      BY <2>2 DEF A!RegisterWallet, A!chain, A!ghost
    <3>2. \A q \in Orders : OrderStands(a_gate[q], a_ever', a_wallets')
      BY <3>1, AccessGrows
    <3> QED BY <3>1, <3>2 DEF AccessInv, AccessTyped, A!ProjectIsReal, A!NoRow
  <2> QED BY <1>1, <2>1, <2>2, OperatorStep, WriteStep, GateStep DEF AccessStep, A!Next
<1>2. CASE UNCHANGED a_all
  BY <1>2 DEF a_all, AccessInv, AccessTyped, A!ProjectIsReal, A!NoRow
<1>3. AccessStep \/ UNCHANGED a_all
  BY DEF Next, all, ApiStep, ListStep, OnboardingStep, AdminStep, SetupStep, SandboxStep
<1> QED BY <1>1, <1>2, <1>3

\* Nothing is registered, listed or asked.
LEMMA AccessInvInit == Init => AccessInv
<1> SUFFICES ASSUME Init PROVE AccessInv
  OBVIOUS
<1>1. A!Idle \in AdminRequest /\ A!NoRow \in CampaignRow
  BY DEF A!Idle, A!NoRow, AdminRequest, AdminOps, CampaignRow
<1>2. AccessTyped
  BY <1>1 DEF Init, A!Init, AccessTyped
<1>3. A!Idle.op = "idle" /\ OrderStands(A!AtRest, a_ever, a_wallets)
  BY DEF A!Idle, A!AtRest, OrderStands
<1> QED BY <1>2, <1>3 DEF Init, A!Init, AccessInv, ProjectStands, A!ProjectIsReal

\* Whoever has a campaign id keeps it, revoked or not.
LEMMA CampaignKept ==
  AccessInv /\ [Next]_all =>
    [\A c \in Campaigns : a_campaign[c] # A!NoRow => a_campaign'[c].tenant = a_campaign[c].tenant]_(A!vars)
<1> SUFFICES ASSUME AccessInv, AccessStep, NEW c \in Campaigns, a_campaign[c] # A!NoRow
             PROVE  a_campaign'[c].tenant = a_campaign[c].tenant
  <2>1. [Next]_all => AccessStep \/ UNCHANGED A!vars
    BY DEF Next, all, a_all, A!vars, ApiStep, ListStep, OnboardingStep, AdminStep, SetupStep, SandboxStep
  <2> QED BY <2>1
<1>0. a_campaign[c] \in CampaignRow /\ a_campaign = [d \in Campaigns |-> a_campaign[d]]
  BY DEF AccessInv, AccessTyped
<1>1. ASSUME UNCHANGED a_campaign PROVE a_campaign'[c].tenant = a_campaign[c].tenant
  BY <1>1
<1>2. ASSUME NEW r \in Requests, A!AddCampaign(r) PROVE a_campaign'[c].tenant = a_campaign[c].tenant
  BY <1>0, <1>2 DEF A!AddCampaign, A!Written
<1>3. ASSUME NEW r \in Requests, A!RevokeCampaign(r) PROVE a_campaign'[c].tenant = a_campaign[c].tenant
  BY <1>0, <1>3 DEF A!RevokeCampaign, CampaignRow
<1>4. ASSUME NEW r \in Requests,
             \/ \E t \in Tenants : A!Ask(r, t)
             \/ A!Check(r) \/ A!Deploy(r) \/ A!Link(r) \/ A!ListCampaign(r)
             \/ A!ListAddress(r) \/ A!UnlistAddress(r) \/ A!Evict(r)
      PROVE  UNCHANGED a_campaign
  BY <1>4 DEF A!Ask, A!Start, A!Check, A!Deploy, A!Link, A!ListCampaign, A!ListAddress, A!UnlistAddress,
              A!Evict, A!rows
<1>5. ASSUME NEW w \in Orders,
             \/ \E t, kind, id, target : A!Arrive(w, t, kind, id, target)
             \/ A!Bind(w) \/ A!ReadStatus(w) \/ A!ReadStatic(w) \/ A!ReadTenant(w) \/ A!ReadWallets(w) \/ A!Leave(w)
      PROVE  UNCHANGED a_campaign
  BY <1>5 DEF A!Arrive, A!Bind, A!ReadStatus, A!ReadStatic, A!ReadTenant, A!ReadWallets, A!Leave, A!rows
<1>6. ASSUME NEW t, A!SwitchTenant(t) \/ A!RegisterWallet(t) PROVE UNCHANGED a_campaign
  BY <1>6 DEF A!SwitchTenant, A!RegisterWallet
<1> QED BY <1>1, <1>2, <1>3, <1>4, <1>5, <1>6 DEF AccessStep, A!Next

\* A campaign id belongs to one tenant for good; a campaign made by addProject points at
\* a Safe that is deployed and linked; and money on a tenant's rail goes only to an
\* address that very tenant listed or to a registered wallet where it takes them - however
\* requests, gates and evictions interleave.
THEOREM PayeesAreTheTenants == Spec => PayeesStand
<1>1. AccessInv => A!ProjectIsReal /\ A!OwnListOnly
  <2>1. AccessInv => A!OwnListOnly
    BY DEF AccessInv, OrderStands, A!OwnListOnly, A!At
  <2> QED BY <2>1 DEF AccessInv
<1> QED BY <1>1, AccessInvInit, AccessInvStep, CampaignKept, PTL DEF Spec, PayeesStand, A!CampaignStays

-----------------------------------------------------------------------------
(* Onboarding: what runs is what was verified, and every secret opens *)

Blob == [value : Nat, kek : Nat]
Row  == [config : Configs \cup {"none"}, client : Blob, router : Blob, hook : Blob, sub : Nat, verified : BOOLEAN]
Statuses == {"none", "onboarding", "active", "suspended"}
RequestPcs == {"idle", "put", "router", "disable", "report", "wrap", "status", "secret", "subscribe", "record"}
TenantRequest == [op : {"none", "put", "router", "disable", "report", "wrap", "status"}, pc : RequestPcs,
                  seen : Row, keks : [cur : Nat, prev : Nat], config : Configs \cup Statuses,
                  fresh : BOOLEAN, column : Nat]

OnboardingTyped ==
  /\ b_status \in Statuses /\ b_rail \in Row /\ b_env \in [cur : Nat \ {0}, prev : Nat]
  /\ b_req \in [Operators -> TenantRequest] /\ b_minted \in Nat /\ b_wrapped \in Nat

\* A column as it is and as it was read: rewrapped or not yet.
Same(read, now)        == now = read
Turned(read, now, kek) == now.value = read.value /\ (now = B!NoBlob \/ now.kek = kek)

\* What the one request under way has seen is still so, but for the columns that it
\* has itself rewrapped, which hold the same secrets.
RequestSees(r, rail) ==
  /\ r.pc \in {"put", "report"} => r.seen = rail
  /\ r.pc = "wrap" =>
       /\ r.column \in 1..3 /\ r.seen.config = rail.config /\ r.seen.sub = rail.sub
       /\ IF r.column = 1 THEN Same(r.seen.client, rail.client) ELSE Turned(r.seen.client, rail.client, r.keks.cur)
       /\ IF r.column <= 2 THEN Same(r.seen.router, rail.router) ELSE Turned(r.seen.router, rail.router, r.keks.cur)
       /\ Same(r.seen.hook, rail.hook)

\* A rail is edited while its tenant is not live, and made live while it is as it was
\* verified; between the two halves of a webhook it is not verified.
RequestMay(r, status, rail, certified) ==
  /\ r.pc \in {"put", "router", "disable", "secret", "subscribe", "record"} => status # "active"
  /\ r.pc \in {"subscribe", "record"} => ~ rail.verified
  /\ r.pc = "status" /\ r.config = "active" => B!Content(rail) = certified
  /\ (r.pc = "put" => r.config \in Configs) /\ (r.pc = "status" => r.config \in Statuses)

\* The columns, the request and the last whole rewrap against the keys there are: while
\* there are two, a whole rewrap under the new one leaves nothing under the old one, and
\* whoever seals now seals with the new one.
Held(blob, env)  == blob # B!NoBlob => blob.kek \in {env.cur, env.prev} \ {0}
Newest(blob, env) == blob # B!NoBlob => blob.kek = env.cur
KeysHeld(rail, env, wrapped) ==
  /\ Held(rail.client, env) /\ Held(rail.router, env) /\ Held(rail.hook, env)
  /\ wrapped <= env.cur /\ env.prev <= env.cur
  /\ wrapped = env.cur /\ env.prev \notin {0, env.cur} =>
       Newest(rail.client, env) /\ Newest(rail.router, env) /\ Newest(rail.hook, env)
RequestSeals(r, env, wrapped) ==
  r.pc # "idle" => /\ r.keks.cur \in {env.cur, env.prev} \ {0}
                   /\ wrapped = env.cur /\ env.prev \notin {0, env.cur} => r.keks.cur = env.cur

VerifiedInv ==
  /\ OnboardingTyped
  /\ b_rail.verified => B!Content(b_rail) = b_certified
  /\ b_status = "active" => B!Content(b_rail) = b_certified
  /\ KeysHeld(b_rail, b_env, b_wrapped)
  /\ \A r \in Operators : /\ RequestSees(b_req[r], b_rail)
                          /\ RequestMay(b_req[r], b_status, b_rail, b_certified)
                          /\ RequestSeals(b_req[r], b_env, b_wrapped)

\* One operator is at work: with two, an edit and a transition that overlap break the
\* promise (the admin routes write without a condition).
OneOperator == \E r \in Operators : Operators = {r}

\* What the invariant says of the one operator's request.
RequestStands(r, status, rail, certified, env, wrapped) ==
  RequestSees(r, rail) /\ RequestMay(r, status, rail, certified) /\ RequestSeals(r, env, wrapped)

\* The one operator's request is all there is to see to.
LEMMA OneRequest ==
  ASSUME VerifiedInv, NEW w, Operators = {w}, OnboardingTyped',
         b_rail'.verified => B!Content(b_rail)' = b_certified',
         b_status' = "active" => B!Content(b_rail)' = b_certified',
         KeysHeld(b_rail', b_env', b_wrapped'),
         RequestStands(b_req'[w], b_status', b_rail', b_certified', b_env', b_wrapped')
  PROVE  VerifiedInv'
BY DEF VerifiedInv, RequestStands

\* A request that ends, or that starts, with nothing else moved.
LEMMA LoadStep ==
  ASSUME VerifiedInv, NEW w, Operators = {w}, NEW r \in TenantRequest,
         b_req' = [b_req EXCEPT ![w] = r],
         RequestStands(r, b_status, b_rail, b_certified, b_env, b_wrapped),
         UNCHANGED <<b_status, b_rail, b_env, b_minted, b_wrapped, b_certified>>
  PROVE  VerifiedInv'
<1>1. b_req'[w] = r /\ b_req' \in [Operators -> TenantRequest]
  BY DEF VerifiedInv, OnboardingTyped
<1>2. OnboardingTyped'
  BY <1>1 DEF VerifiedInv, OnboardingTyped
<1> QED BY <1>1, <1>2, OneRequest DEF VerifiedInv, B!Content

LEMMA IdleStands ==
  /\ B!Idle \in TenantRequest
  /\ \A status, rail, certified, env, wrapped : RequestStands(B!Idle, status, rail, certified, env, wrapped)
BY DEF B!Idle, B!NoRail, B!NoBlob, TenantRequest, Row, Blob, RequestPcs, Statuses, RequestStands, RequestSees,
       RequestMay, RequestSeals

\* What a request reads when it begins is so.
LEMMA BeginStep ==
  ASSUME VerifiedInv, NEW w, Operators = {w},
         NEW op \in {"put", "router", "disable", "report", "wrap", "status"},
         NEW config \in Configs \cup Statuses, NEW fresh \in BOOLEAN, NEW column \in Nat,
         op \in {"put", "router", "disable"} => b_status # "active",
         op = "wrap" => column = 1, op = "put" => config \in Configs, op = "status" => config \in Statuses,
         op = "status" /\ config = "active" => b_rail.verified,
         B!Load(w, op, config, fresh, column)
  PROVE  VerifiedInv'
<1> DEFINE r == [op |-> op, pc |-> op, seen |-> b_rail, keks |-> b_env, config |-> config, fresh |-> fresh,
                 column |-> column]
<1>1. b_req' = [b_req EXCEPT ![w] = r] /\ UNCHANGED <<b_status, b_rail, b_env, b_minted, b_wrapped, b_certified>>
  BY DEF B!Load
<1>2. r \in TenantRequest
  BY DEF VerifiedInv, OnboardingTyped, TenantRequest, RequestPcs
<1>3. /\ r.pc = op /\ r.seen = b_rail /\ r.keks = b_env /\ r.config = config /\ r.column = column
      /\ b_env.cur \in Nat \ {0}
  BY DEF VerifiedInv, OnboardingTyped
<1> HIDE DEF r
<1>4. RequestSees(r, b_rail)
  BY <1>3 DEF RequestSees, Same
<1>5. RequestMay(r, b_status, b_rail, b_certified)
  BY <1>3 DEF RequestMay, VerifiedInv
<1>6. RequestSeals(r, b_env, b_wrapped)
  BY <1>3 DEF RequestSeals
<1> QED BY <1>1, <1>2, <1>4, <1>5, <1>6, LoadStep DEF RequestStands

\* Settings, keys and the webhook are edited while the tenant is not live, and each
\* edit but the last of the webhook's takes its verification away.
LEMMA EditStep ==
  ASSUME VerifiedInv, NEW w, Operators = {w}, NEW r \in TenantRequest, NEW rail \in Row, NEW blob,
         b_req' = [b_req EXCEPT ![w] = r], b_rail' = rail, b_status # "active",
         UNCHANGED <<b_status, b_env, b_wrapped, b_certified>>, b_minted' \in Nat, ~ rail.verified,
         b_req[w].pc # "idle", blob.kek = b_req[w].keks.cur,
         r.keks = b_req[w].keks, r.pc \in {"subscribe", "record"} \/ r = B!Idle,
         rail.client \in {b_rail.client, blob}, rail.router \in {b_rail.router, blob},
         rail.hook \in {b_rail.hook, blob}
  PROVE  VerifiedInv'
<1>1. b_req'[w] = r /\ OnboardingTyped'
  BY DEF VerifiedInv, OnboardingTyped
<1>2. RequestSeals(b_req[w], b_env, b_wrapped)
  BY DEF VerifiedInv
<1>3. KeysHeld(rail, b_env, b_wrapped)
  BY <1>2 DEF VerifiedInv, KeysHeld, Held, Newest, RequestSeals
<1>4. RequestStands(r, b_status, rail, b_certified, b_env, b_wrapped)
  BY <1>2 DEF RequestStands, RequestSees, RequestMay, RequestSeals, B!Idle
<1> QED BY <1>1, <1>3, <1>4, OneRequest DEF VerifiedInv

\* The edits: settings, the router key, the webhook.
LEMMA EditsStep ==
  ASSUME VerifiedInv, NEW w, Operators = {w},
         B!Put(w) \/ B!RouterKey(w) \/ B!DisablePrevious(w) \/ B!StoreHookSecret(w) \/ B!Subscribe(w)
           \/ B!RecordSubscription(w)
  PROVE  VerifiedInv'
<1> DEFINE q == b_req[w]
           blob == B!Seal(w)
<1>0. /\ q \in TenantRequest /\ b_rail \in Row /\ b_minted \in Nat /\ b_env.cur \in Nat
      /\ RequestStands(q, b_status, b_rail, b_certified, b_env, b_wrapped)
      /\ blob \in Blob /\ blob.kek = q.keks.cur
  BY DEF VerifiedInv, OnboardingTyped, RequestStands, TenantRequest, B!Seal, Blob
<1>1. q.pc \in {"put", "router", "disable", "secret", "subscribe", "record"} => b_status # "active"
  BY <1>0 DEF RequestStands, RequestMay
<1>2. ASSUME UNCHANGED <<b_rail, b_status, b_env, b_minted, b_wrapped, b_certified>>, B!Done(w) PROVE VerifiedInv'
  BY <1>2, IdleStands, LoadStep DEF B!Done
<1> HIDE DEF blob
<1>3. ASSUME NEW rail \in Row, b_rail' = rail, B!Done(w), ~ rail.verified, b_minted' \in Nat,
             q.pc \in {"put", "router", "record"}, UNCHANGED <<b_status, b_env, b_wrapped, b_certified>>,
             rail.client \in {b_rail.client, blob}, rail.router \in {b_rail.router, blob}, rail.hook = b_rail.hook
      PROVE  VerifiedInv'
  <2>2. /\ b_req' = [b_req EXCEPT ![w] = B!Idle] /\ b_req'[w] = B!Idle /\ OnboardingTyped'
    BY <1>3, IdleStands DEF B!Done, VerifiedInv, OnboardingTyped
  <2>3. KeysHeld(rail, b_env, b_wrapped)
    BY <1>0, <1>3 DEF VerifiedInv, KeysHeld, Held, Newest, RequestStands, RequestSeals
  <2> QED BY <1>1, <1>3, <2>2, <2>3, IdleStands, OneRequest DEF VerifiedInv
<1>4. CASE B!Put(w)
  <2> DEFINE client == IF q.fresh THEN blob ELSE q.seen.client
             rail == [b_rail EXCEPT !.config = q.config, !.client = client, !.verified = FALSE]
  <2>1. /\ q.pc = "put" /\ b_rail' = rail /\ B!Done(w) /\ UNCHANGED <<b_status, b_env, b_wrapped, b_certified>>
        /\ b_minted' = IF q.fresh THEN b_minted + 1 ELSE b_minted
    BY <1>4 DEF B!Put, B!Upsert, B!Running, blob
  <2>2. client \in {b_rail.client, blob} /\ client \in Blob
    BY <1>0, <2>1 DEF RequestStands, RequestSees, Row
  <2>3. q.config \in Configs
    BY <1>0, <2>1 DEF RequestStands, RequestMay
  <2> HIDE DEF client
  <2>4. /\ rail \in Row /\ ~ rail.verified /\ rail.client = client
        /\ rail.router = b_rail.router /\ rail.hook = b_rail.hook
    BY <1>0, <2>2, <2>3 DEF Row
  <2> HIDE DEF rail
  <2> QED BY <1>0, <1>3, <2>1, <2>2, <2>4
<1>5. CASE B!RouterKey(w)
  <2> DEFINE rail == [b_rail EXCEPT !.router = blob, !.verified = FALSE]
  <2>1. /\ q.pc = "router" /\ b_rail' = rail /\ B!Done(w) /\ UNCHANGED <<b_status, b_env, b_wrapped, b_certified>>
        /\ b_minted' = b_minted + 1
    BY <1>5 DEF B!RouterKey, B!Running, blob
  <2>2. /\ rail \in Row /\ ~ rail.verified /\ rail.router = blob /\ rail.client = b_rail.client /\ rail.hook = b_rail.hook
    BY <1>0 DEF Row
  <2> HIDE DEF rail
  <2> QED BY <1>0, <1>3, <2>1, <2>2
<1>6. ASSUME NEW pc \in {"secret", "record"}, B!Goto(w, pc), q.pc \in {"disable", "subscribe"},
             pc = "record" => q.pc = "subscribe",
             UNCHANGED <<b_rail, b_status, b_env, b_minted, b_wrapped, b_certified>>
      PROVE  VerifiedInv'
  <2> DEFINE r == [q EXCEPT !.pc = pc]
  <2>1. /\ r \in TenantRequest /\ r.pc = pc /\ r.keks = q.keks /\ b_req' = [b_req EXCEPT ![w] = r]
    BY <1>0, <1>6 DEF B!Goto, TenantRequest, RequestPcs
  <2> HIDE DEF r
  <2>2. RequestStands(r, b_status, b_rail, b_certified, b_env, b_wrapped)
    BY <1>0, <1>1, <1>6, <2>1 DEF RequestStands, RequestSees, RequestMay, RequestSeals
  <2> QED BY <1>6, <2>1, <2>2, LoadStep
<1>7. CASE B!DisablePrevious(w)
  BY <1>6, <1>7 DEF B!DisablePrevious, B!Running
<1>8. CASE B!Subscribe(w)
  BY <1>2, <1>6, <1>8 DEF B!Subscribe, B!Running
<1>9. CASE B!StoreHookSecret(w)
  <2> DEFINE r == [q EXCEPT !.pc = "subscribe", !.column = b_minted + 1]
             rail == [b_rail EXCEPT !.hook = blob, !.sub = 0, !.verified = FALSE]
  <2>1. /\ q.pc = "secret" /\ b_rail' = rail /\ b_minted' = b_minted + 1
        /\ b_req' = [b_req EXCEPT ![w].pc = "subscribe", ![w].column = b_minted + 1]
        /\ UNCHANGED <<b_status, b_env, b_wrapped, b_certified>>
    BY <1>9 DEF B!StoreHookSecret, B!Running, blob
  <2>2. /\ rail \in Row /\ ~ rail.verified /\ rail.client = b_rail.client /\ rail.router = b_rail.router
        /\ rail.hook = blob
    BY <1>0 DEF Row
  <2> DEFINE n == b_minted + 1
             s == [q EXCEPT !.pc = "subscribe"]
  <2>a. n \in Nat
    BY <1>0
  <2>b. b_req \in [Operators -> TenantRequest] /\ q = b_req[w]
    BY DEF VerifiedInv, OnboardingTyped
  <2>c. b_req' = [b_req EXCEPT ![w].pc = "subscribe", ![w].column = n] /\ r = [s EXCEPT !.column = n]
    BY <2>1
  <2> HIDE DEF n
  <2>d. s \in TenantRequest /\ s.pc = "subscribe" /\ s.keks = q.keks
    BY <1>0 DEF TenantRequest, RequestPcs
  <2>4. b_req' = [b_req EXCEPT ![w] = r]
    BY <2>b, <2>c
  <2> HIDE DEF s
  <2>3. r \in TenantRequest /\ r.pc = "subscribe" /\ r.keks = q.keks
    BY <2>a, <2>c, <2>d DEF TenantRequest
  <2> HIDE DEF r, rail
  <2>5. /\ b_status # "active" /\ b_req[w].pc # "idle" /\ blob.kek = b_req[w].keks.cur /\ b_minted' \in Nat
        /\ r.keks = b_req[w].keks
    BY <1>0, <1>1, <2>1, <2>3, <2>a DEF n
  <2> QED BY <2>1, <2>2, <2>3, <2>4, <2>5, EditStep
<1>10. CASE B!RecordSubscription(w)
  <2> DEFINE rail == [b_rail EXCEPT !.sub = q.column]
  <2>1. /\ q.pc = "record" /\ b_rail' = rail /\ B!Done(w)
        /\ UNCHANGED <<b_status, b_env, b_minted, b_wrapped, b_certified>>
    BY <1>10 DEF B!RecordSubscription, B!Running
  <2>2. ~ b_rail.verified /\ q.column \in Nat
    BY <1>0, <2>1 DEF RequestStands, RequestMay, TenantRequest
  <2>3. /\ rail \in Row /\ ~ rail.verified /\ rail.client = b_rail.client /\ rail.router = b_rail.router
        /\ rail.hook = b_rail.hook
    BY <1>0, <2>2 DEF Row
  <2> HIDE DEF rail
  <2> QED BY <1>0, <1>3, <2>1, <2>3
<1> QED BY <1>4, <1>5, <1>7, <1>8, <1>9, <1>10

\* A report is of the row that is there; a transition to live takes the settings that
\* were verified.
LEMMA ReportAndStatusStep ==
  ASSUME VerifiedInv, NEW w, Operators = {w}, (\E outside \in BOOLEAN : B!SaveReport(w, outside)) \/ B!SetStatus(w)
  PROVE  VerifiedInv'
<1> DEFINE q == b_req[w]
<1>1. /\ q \in TenantRequest /\ b_rail \in Row /\ B!Idle \in TenantRequest
      /\ RequestSees(q, b_rail) /\ RequestMay(q, b_status, b_rail, b_certified)
      /\ b_req \in [Operators -> TenantRequest]
  BY IdleStands DEF VerifiedInv, OnboardingTyped
<1>2. CASE B!SetStatus(w)
  <2>1. q.pc = "status" /\ b_status' = q.config /\ q.config \in Statuses
    BY <1>1, <1>2 DEF B!SetStatus, B!Running, RequestMay
  <2>2. b_req' = [b_req EXCEPT ![w] = B!Idle] /\ b_req'[w] = B!Idle
        /\ UNCHANGED <<b_rail, b_env, b_minted, b_wrapped, b_certified>>
    BY <1>1, <1>2 DEF B!SetStatus, B!Done
  <2>3. OnboardingTyped'
    BY <1>1, <2>1, <2>2 DEF VerifiedInv, OnboardingTyped
  <2>4. b_status' = "active" => B!Content(b_rail)' = b_certified'
    BY <1>1, <2>1, <2>2 DEF RequestMay, B!Content
  <2> QED BY <2>2, <2>3, <2>4, IdleStands, OneRequest DEF VerifiedInv, B!Content
<1>3. ASSUME NEW outside \in BOOLEAN, B!SaveReport(w, outside) PROVE VerifiedInv'
  <2> DEFINE ok == outside /\ B!Complete(q.seen)
             rail == [b_rail EXCEPT !.verified = ok]
  <2>1. /\ q.pc = "report" /\ b_rail' = rail /\ b_certified' = IF ok THEN B!Content(q.seen) ELSE b_certified
        /\ UNCHANGED <<b_status, b_env, b_minted, b_wrapped>>
    BY <1>3 DEF B!SaveReport, B!Running
  <2>2. b_req' = [b_req EXCEPT ![w] = B!Idle] /\ b_req'[w] = B!Idle
    BY <1>1, <1>3 DEF B!SaveReport, B!Done
  <2>3. q.seen = b_rail /\ ok \in BOOLEAN
    BY <1>1, <2>1 DEF RequestSees, B!Complete
  <2> HIDE DEF ok
  <2>4. /\ rail \in Row /\ rail.verified = ok /\ rail.client = b_rail.client /\ rail.router = b_rail.router
        /\ rail.hook = b_rail.hook /\ B!Content(rail) = B!Content(b_rail)
    BY <1>1, <2>3 DEF Row, B!Content
  <2> HIDE DEF rail
  <2>5. OnboardingTyped'
    BY <1>1, <2>1, <2>2, <2>4 DEF VerifiedInv, OnboardingTyped
  <2>6. B!Content(b_rail)' = B!Content(rail)
    BY <2>1 DEF B!Content
  <2>7. KeysHeld(rail, b_env, b_wrapped)
    BY <2>4 DEF VerifiedInv, KeysHeld, Held, Newest
  <2> QED BY <2>1, <2>2, <2>3, <2>4, <2>5, <2>6, <2>7, IdleStands, OneRequest DEF VerifiedInv
<1> QED BY <1>2, <1>3

\* The rail with a column turned to the request's key: the same secrets.
TurnedRail(w, column) ==
  IF b_req[w].seen[column] = B!NoBlob THEN b_rail
  ELSE [b_rail EXCEPT ![column] = B!Rewrapped(w, b_req[w].seen[column])]

LEMMA TurnedColumn ==
  ASSUME VerifiedInv, NEW w, Operators = {w}, NEW column \in {"client", "router", "hook"},
         b_req[w].seen[column] = b_rail[column]
  PROVE  /\ TurnedRail(w, column) \in Row /\ TurnedRail(w, column).verified = b_rail.verified
         /\ B!Content(TurnedRail(w, column)) = B!Content(b_rail)
         /\ \A c \in {"client", "router", "hook"} \ {column} : TurnedRail(w, column)[c] = b_rail[c]
         /\ Turned(b_rail[column], TurnedRail(w, column)[column], b_req[w].keks.cur)
<1> DEFINE now == TurnedRail(w, column)
           k == b_req[w].keks.cur
           blob == b_rail[column]
           turned == [blob EXCEPT !.kek = k]
<1>1. k \in Nat /\ b_rail \in Row /\ blob \in Blob
  BY DEF VerifiedInv, OnboardingTyped, TenantRequest, Row
<1>2. turned \in Blob /\ turned.value = blob.value /\ turned.kek = k
  BY <1>1 DEF Blob
<1>3. now = IF blob = B!NoBlob THEN b_rail ELSE [b_rail EXCEPT ![column] = turned]
  BY DEF TurnedRail, B!Rewrapped
<1>n. SUFFICES /\ now \in Row /\ now.verified = b_rail.verified /\ B!Content(now) = B!Content(b_rail)
               /\ \A c \in {"client", "router", "hook"} \ {column} : now[c] = b_rail[c]
               /\ Turned(b_rail[column], now[column], k)
  OBVIOUS
<1> HIDE DEF turned, k, now
<1>4. CASE blob = B!NoBlob
  BY <1>1, <1>3, <1>4 DEF Turned, B!NoBlob
<1>5. CASE blob # B!NoBlob /\ column = "client"
  BY <1>1, <1>2, <1>3, <1>5 DEF Turned, Row, B!Content
<1>6. CASE blob # B!NoBlob /\ column = "router"
  BY <1>1, <1>2, <1>3, <1>6 DEF Turned, Row, B!Content
<1>7. CASE blob # B!NoBlob /\ column = "hook"
  BY <1>1, <1>2, <1>3, <1>7 DEF Turned, Row, B!Content
<1> QED BY <1>4, <1>5, <1>6, <1>7

\* The rewrap, column by column: what it has turned is under its key, and when it is
\* through everything is.
LEMMA RewrapStep ==
  ASSUME VerifiedInv, NEW w, Operators = {w}, B!RewrapColumn(w)
  PROVE  VerifiedInv'
<1> DEFINE q == b_req[w]
           column == B!Columns[q.column]
           blob == q.seen[column]
           last == q.column = 3
<1>1. /\ q \in TenantRequest /\ b_rail \in Row /\ B!Idle \in TenantRequest /\ q.pc = "wrap"
      /\ RequestSees(q, b_rail) /\ RequestMay(q, b_status, b_rail, b_certified) /\ RequestSeals(q, b_env, b_wrapped)
      /\ b_req \in [Operators -> TenantRequest] /\ q.keks.cur \in Nat /\ q.column \in 1..3
      /\ UNCHANGED <<b_status, b_env, b_minted, b_certified>>
  BY IdleStands DEF VerifiedInv, OnboardingTyped, B!RewrapColumn, B!Running, RequestSees, TenantRequest
<1>2. CASE B!Done(w) /\ UNCHANGED <<b_rail, b_wrapped>>
  BY <1>1, <1>2, IdleStands, LoadStep DEF B!Done
<1>3. CASE /\ b_rail' = IF blob = B!NoBlob THEN b_rail ELSE [b_rail EXCEPT ![column] = B!Rewrapped(w, blob)]
           /\ b_wrapped' = IF last THEN q.keks.cur ELSE b_wrapped
           /\ IF last THEN B!Done(w) ELSE b_req' = [b_req EXCEPT ![w].column = @ + 1]
  <2>1. /\ column = CASE q.column = 1 -> "client" [] q.column = 2 -> "router" [] q.column = 3 -> "hook"
        /\ column \in {"client", "router", "hook"} /\ q.seen[column] = b_rail[column]
    BY <1>1 DEF B!Columns, RequestSees, Same
  <2> DEFINE now == TurnedRail(w, column)
             r == IF last THEN B!Idle ELSE [q EXCEPT !.column = @ + 1]
  <2>2. /\ b_rail' = now /\ b_req' = [b_req EXCEPT ![w] = r] /\ b_req'[w] = r
    BY <1>1, <1>3 DEF B!Done, TurnedRail
  <2> HIDE DEF column
  <2>3. /\ now \in Row /\ now.verified = b_rail.verified /\ B!Content(now) = B!Content(b_rail)
        /\ \A c \in {"client", "router", "hook"} \ {column} : now[c] = b_rail[c]
        /\ Turned(b_rail[column], now[column], q.keks.cur)
    BY <2>1, TurnedColumn
  <2>4. /\ r \in TenantRequest /\ (~ last => r.pc = "wrap" /\ r.column = q.column + 1 /\ r.seen = q.seen /\ r.keks = q.keks)
        /\ (last => r = B!Idle)
    <3>1. CASE last
      BY <1>1, <3>1
    <3>2. CASE ~ last
      <4>1. q.column + 1 \in Nat
        BY <1>1
      <4> QED BY <1>1, <3>2, <4>1 DEF TenantRequest
    <3> QED BY <3>1, <3>2
  <2> HIDE DEF now, r
  <2>5. OnboardingTyped'
    BY <1>1, <1>3, <2>2, <2>3, <2>4 DEF VerifiedInv, OnboardingTyped
  <2>6. B!Content(b_rail)' = B!Content(now)
    BY <2>2 DEF B!Content
  <2>7. KeysHeld(now, b_env, b_wrapped')
    <3>1. q.keks.cur \in {b_env.cur, b_env.prev} \ {0} /\ b_env.cur \in Nat /\ b_env.prev \in Nat /\ b_wrapped \in Nat
          /\ (b_wrapped = b_env.cur /\ b_env.prev \notin {0, b_env.cur} => q.keks.cur = b_env.cur)
      BY <1>1 DEF RequestSeals, VerifiedInv, OnboardingTyped
    <3>2. KeysHeld(b_rail, b_env, b_wrapped) /\ (last => b_wrapped' = q.keks.cur) /\ (~ last => b_wrapped' = b_wrapped)
      BY <1>3 DEF VerifiedInv
    <3>3. Held(now.client, b_env) /\ Held(now.router, b_env) /\ Held(now.hook, b_env)
      BY <2>1, <2>3, <3>1, <3>2 DEF KeysHeld, Held, Turned
    <3>4. b_wrapped' <= b_env.cur
      BY <3>1, <3>2 DEF KeysHeld
    <3>5. CASE ~ last
      BY <2>1, <2>3, <3>1, <3>2, <3>3, <3>4, <3>5 DEF KeysHeld, Newest, Turned
    <3>6. CASE last
      <4>1. /\ Turned(q.seen.client, b_rail.client, q.keks.cur) /\ Turned(q.seen.router, b_rail.router, q.keks.cur)
            /\ column = "hook"
        BY <1>1, <2>1, <3>6 DEF RequestSees
      <4>2. /\ now.client = b_rail.client /\ now.router = b_rail.router /\ Turned(b_rail.hook, now.hook, q.keks.cur)
        BY <2>3, <4>1
      <4> QED BY <3>1, <3>2, <3>3, <3>4, <3>6, <4>1, <4>2 DEF KeysHeld, Newest, Turned
    <3> QED BY <3>5, <3>6
  <2>8. RequestStands(r, b_status, now, b_certified, b_env, b_wrapped')
    <3>1. CASE last
      BY <2>4, <3>1, IdleStands
    <3>2. CASE ~ last
      <4>1. RequestSees(r, now)
        <5>1. q.column \in {1, 2} /\ r.column = q.column + 1 /\ r.pc = "wrap" /\ r.seen = q.seen /\ r.keks = q.keks
          BY <1>1, <2>4, <3>2
        <5>2. now.config = b_rail.config /\ now.sub = b_rail.sub
          BY <2>3 DEF B!Content
        <5>3. CASE q.column = 1
          <6>1. column = "client" /\ Turned(q.seen.client, now.client, q.keks.cur)
                /\ now.router = b_rail.router /\ now.hook = b_rail.hook
            BY <2>1, <2>3, <5>3
          <6> QED BY <1>1, <5>1, <5>2, <5>3, <6>1 DEF RequestSees, Same
        <5>4. CASE q.column = 2
          <6>1. column = "router" /\ Turned(q.seen.router, now.router, q.keks.cur)
                /\ now.client = b_rail.client /\ now.hook = b_rail.hook
            BY <2>1, <2>3, <5>4
          <6> QED BY <1>1, <5>1, <5>2, <5>4, <6>1 DEF RequestSees, Same
        <5> QED BY <5>1, <5>3, <5>4
      <4>2. RequestMay(r, b_status, now, b_certified)
        BY <2>4, <3>2 DEF RequestMay
      <4>3. RequestSeals(r, b_env, b_wrapped')
        BY <1>1, <1>3, <2>4, <3>2 DEF RequestSeals
      <4> QED BY <4>1, <4>2, <4>3 DEF RequestStands
    <3> QED BY <3>1, <3>2
  <2> QED BY <1>1, <2>2, <2>3, <2>5, <2>6, <2>7, <2>8, OneRequest DEF VerifiedInv
<1>4. <1>2!1 \/ <1>3!1
  BY DEF B!RewrapColumn, B!Columns
<1> QED BY <1>2, <1>3, <1>4

\* The runbook: the old key is kept while anything may be under it.
LEMMA KekStep ==
  ASSUME VerifiedInv, NEW w, Operators = {w}, B!KeepOldKek \/ B!NewKek \/ B!DropOldKek
  PROVE  VerifiedInv'
<1> DEFINE q == b_req[w]
<1>1. /\ b_rail \in Row /\ b_env \in [cur : Nat \ {0}, prev : Nat] /\ b_wrapped \in Nat
      /\ RequestSees(q, b_rail) /\ RequestMay(q, b_status, b_rail, b_certified) /\ RequestSeals(q, b_env, b_wrapped)
      /\ KeysHeld(b_rail, b_env, b_wrapped) /\ q \in TenantRequest
      /\ UNCHANGED <<b_status, b_rail, b_req, b_minted, b_wrapped, b_certified>>
  BY DEF VerifiedInv, OnboardingTyped, B!KeepOldKek, B!NewKek, B!DropOldKek
<1>2. ASSUME NEW env \in [cur : Nat \ {0}, prev : Nat], b_env' = env,
             KeysHeld(b_rail, env, b_wrapped), RequestSeals(q, env, b_wrapped)
      PROVE  VerifiedInv'
  BY <1>1, <1>2, OneRequest DEF VerifiedInv, OnboardingTyped, RequestStands, B!Content
<1>3. CASE B!KeepOldKek
  <2> DEFINE env == [b_env EXCEPT !.prev = b_env.cur]
  <2>1. /\ b_env' = env /\ env \in [cur : Nat \ {0}, prev : Nat] /\ env.cur = b_env.cur /\ env.prev = b_env.cur
        /\ b_env.prev = 0
    BY <1>1, <1>3 DEF B!KeepOldKek
  <2> HIDE DEF env
  <2> QED BY <1>1, <1>2, <2>1 DEF KeysHeld, Held, RequestSeals
<1>4. CASE B!NewKek
  <2> DEFINE env == [b_env EXCEPT !.cur = b_env.cur + 1]
  <2>1. /\ b_env' = env /\ env \in [cur : Nat \ {0}, prev : Nat] /\ env.cur = b_env.cur + 1 /\ env.prev = b_env.cur
        /\ b_env.prev = b_env.cur
    BY <1>1, <1>4 DEF B!NewKek
  <2> HIDE DEF env
  <2> QED BY <1>1, <1>2, <2>1 DEF KeysHeld, Held, RequestSeals
<1>5. CASE B!DropOldKek
  <2> DEFINE env == [b_env EXCEPT !.prev = 0]
  <2>1. /\ b_env' = env /\ env \in [cur : Nat \ {0}, prev : Nat] /\ env.cur = b_env.cur /\ env.prev = 0
        /\ b_env.prev \notin {0, b_env.cur} /\ (b_wrapped = b_env.cur \/ b_rail = B!NoRail) /\ q = B!Idle
    BY <1>1, <1>5 DEF B!DropOldKek
  <2> HIDE DEF env
  <2>2. KeysHeld(b_rail, env, b_wrapped)
    BY <1>1, <2>1 DEF KeysHeld, Held, Newest, B!NoRail
  <2> QED BY <1>2, <2>1, <2>2, IdleStands DEF RequestStands
<1> QED BY <1>3, <1>4, <1>5

\* Requests that begin.
LEMMA LoadsStep ==
  ASSUME VerifiedInv, NEW w, Operators = {w},
         \/ \E config \in Configs, fresh \in BOOLEAN : B!LoadPut(w, config, fresh)
         \/ B!LoadRouterKey(w) \/ B!LoadWebhook(w) \/ B!LoadVerify(w) \/ B!LoadRewrap(w)
         \/ \E op \in {"activate", "suspend", "resume"} : B!LoadTransition(w, op)
  PROVE  VerifiedInv'
<1>0. "none" \in Statuses /\ 0 \in Nat /\ 1 \in Nat /\ FALSE \in BOOLEAN
  BY DEF Statuses
<1>1. ASSUME NEW config \in Configs, NEW fresh \in BOOLEAN, B!LoadPut(w, config, fresh) PROVE VerifiedInv'
  BY <1>0, <1>1, BeginStep DEF B!LoadPut, B!MayEdit
<1>2. CASE B!LoadRouterKey(w)
  BY <1>0, <1>2, BeginStep DEF B!LoadRouterKey, B!MayEdit
<1>3. CASE B!LoadWebhook(w)
  BY <1>0, <1>3, BeginStep DEF B!LoadWebhook, B!MayEdit
<1>4. CASE B!LoadVerify(w)
  BY <1>0, <1>4, BeginStep DEF B!LoadVerify
<1>5. CASE B!LoadRewrap(w)
  BY <1>0, <1>5, BeginStep DEF B!LoadRewrap
<1>6. ASSUME NEW op \in {"activate", "suspend", "resume"}, B!LoadTransition(w, op) PROVE VerifiedInv'
  <2>1. /\ B!NextStatus(op) \in Statuses
        /\ B!NextStatus(op) = "active" => b_rail.verified
    <3>1. B!NextStatus(op) \in {"suspended", "active"} /\ (B!NextStatus(op) = "active" => b_rail.verified)
      BY <1>6 DEF B!LoadTransition, B!NextStatus
    <3> QED BY <3>1 DEF Statuses
  <2>2. B!Load(w, "status", B!NextStatus(op), FALSE, 0)
    BY <1>6 DEF B!LoadTransition
  <2> QED BY <1>0, <2>1, <2>2, BeginStep
<1> QED BY <1>1, <1>2, <1>3, <1>4, <1>5, <1>6

LEMMA VerifiedInvInit == Init => (OneOperator => VerifiedInv)
<1> SUFFICES ASSUME Init, NEW w, Operators = {w} PROVE VerifiedInv
  BY DEF OneOperator
<1>1. B!Init
  BY DEF Init
<1>2. B!NoRail \in Row /\ B!NoRail.client = B!NoBlob /\ B!NoRail.router = B!NoBlob /\ B!NoRail.hook = B!NoBlob
      /\ ~ B!NoRail.verified
  BY DEF B!NoRail, B!NoBlob, Row, Blob
<1>3. OnboardingTyped
  BY <1>1, <1>2, IdleStands DEF B!Init, OnboardingTyped, Statuses
<1>4. KeysHeld(b_rail, b_env, b_wrapped)
  BY <1>1, <1>2 DEF B!Init, KeysHeld, Held, Newest
<1>5. \A r \in Operators : b_req[r] = B!Idle
  BY <1>1 DEF B!Init
<1> QED BY <1>1, <1>2, <1>3, <1>4, <1>5, IdleStands DEF B!Init, VerifiedInv, RequestStands

LEMMA VerifiedInvStep == OneOperator /\ VerifiedInv /\ [Next]_all => VerifiedInv'
<1> SUFFICES ASSUME NEW w, Operators = {w}, VerifiedInv, [Next]_all PROVE VerifiedInv'
  BY DEF OneOperator
<1>1. CASE UNCHANGED b_all
  BY <1>1 DEF b_all, VerifiedInv, OnboardingTyped, B!Content
<1>2. CASE B!Next
  <2>1. CASE B!CreateTenant
    <3>1. /\ b_status' = "onboarding" /\ b_status' \in Statuses
          /\ UNCHANGED <<b_rail, b_env, b_req, b_minted, b_wrapped, b_certified>>
      BY <2>1 DEF B!CreateTenant, Statuses
    <3>2. RequestStands(b_req'[w], b_status', b_rail', b_certified', b_env', b_wrapped')
      BY <3>1 DEF VerifiedInv, RequestStands, RequestSees, RequestMay, RequestSeals
    <3>3. OnboardingTyped'
      BY <3>1 DEF VerifiedInv, OnboardingTyped
    <3> QED BY <3>1, <3>2, <3>3, OneRequest DEF VerifiedInv, B!Content
  <2>2. CASE B!Evict(w)
    BY <2>2, IdleStands, LoadStep DEF B!Evict, B!Done
  <2> QED BY <1>2, <2>1, <2>2, KekStep, LoadsStep, EditsStep, ReportAndStatusStep, RewrapStep DEF B!Next
<1> QED BY <1>1, <1>2 DEF Next, ApiStep, ListStep, OnboardingStep, AccessStep, SetupStep, AdminStep, SandboxStep, all

\* With one operator at work at a time, whatever is cut off by an eviction: a live tenant
\* runs on what was verified, and every stored secret opens at every point of a rotation.
THEOREM LiveStaysVerified == OneOperator => (Spec => []LiveIsVerified)
<1>1. VerifiedInv => B!ActiveIsVerified
  BY DEF VerifiedInv, B!ActiveIsVerified
<1>2. VerifiedInv => B!SecretsOpen
  BY DEF VerifiedInv, KeysHeld, Held, B!SecretsOpen, B!Opens
<1>3. VerifiedInv => LiveIsVerified
  BY <1>1, <1>2 DEF LiveIsVerified
<1> SUFFICES ASSUME OneOperator PROVE Spec => []LiveIsVerified
  OBVIOUS
<1>4. Init => VerifiedInv
  BY VerifiedInvInit
<1>5. VerifiedInv /\ [Next]_all => VerifiedInv'
  BY VerifiedInvStep
<1> QED BY <1>3, <1>4, <1>5, PTL DEF Spec

-----------------------------------------------------------------------------
(* Intents: a code names one of them, and whoever was accepted has one *)

ApiRow  == [state : {"none", "pending", "paid", "expired"}, settled : BOOLEAN,
            age : {"open", "late", "gone"}, code : I!Codes \cup {NoCode}]
ApiCall == [pc : {"idle", "count", "insert", "pick", "take", "name"}, sid : I!Sids, pool : DOMAIN Pools,
            tries : Nat, pick : I!Codes \cup {NoCode},
            answer : {"none", "refused", "capped", "conflict", "error", "created"}]

ApiTyped ==
  /\ i_rows \in [I!Sids -> ApiRow] /\ i_holds \in [I!Codes -> I!Sids \cup {0}]
  /\ i_calls \in [Callers -> ApiCall]

\* A row may be named, or come to be, only by whom it can still be found.
RowNamed(s, row, holds) ==
  /\ row.state = "none" => row.age = "open"
  /\ row.code # NoCode /\ row.state # "paid" /\ row.age # "gone" => holds[row.code] = s

\* Whoever has taken a code holds it as long as the intent may be paid; whoever was told
\* that there is an intent, or is about to name it, has one.
CallStandsFor(q, rows, holds) ==
  /\ q.pc # "idle" => q.answer = "none"
  /\ q.pc \in {"pick", "take", "name"} \/ q.answer \in {"created", "conflict"} => rows[q.sid].state # "none"
  /\ q.pc \in {"take", "name"} => q.pick \in I!Codes
  /\ q.pc = "name" /\ rows[q.sid].state # "paid" /\ rows[q.sid].age # "gone" => holds[q.pick] = q.sid

ApiInv ==
  /\ ApiTyped
  /\ \A s \in I!Sids : RowNamed(s, i_rows[s], i_holds)
  /\ \A p \in Callers : CallStandsFor(i_calls[p], i_rows, i_holds)

\* What IntentApi assumes of its constants.
LEMMA ApiAssumed ==
  /\ MaxSid \in Nat /\ Own \in [Callers -> I!Sids] /\ 1 \in DOMAIN Pools /\ NoCode \notin I!Codes
  /\ \A c \in I!Codes : ReadAs[c] \cap I!Codes \subseteq {c}
  /\ 0 \notin I!Sids /\ \A i \in DOMAIN Pools : Pools[i] \subseteq I!Codes
<1>1. I!IntentApiAssumption
  BY TenantsAssumption
<1>2. MaxSid \in Nat /\ 0 \notin I!Sids
  BY <1>1 DEF I!IntentApiAssumption, I!Sids
<1>3. \A i \in DOMAIN Pools : Pools[i] \subseteq I!Codes
  BY DEF I!Codes
<1> QED BY <1>1, <1>2, <1>3 DEF I!IntentApiAssumption

\* A request goes on, the tables as they are.
LEMMA CallerGoesOn ==
  ASSUME ApiInv, NEW p \in Callers, NEW q \in ApiCall, i_calls' = [i_calls EXCEPT ![p] = q],
         UNCHANGED <<i_rows, i_holds>>, CallStandsFor(q, i_rows, i_holds)
  PROVE  ApiInv'
<1>1. i_calls' \in [Callers -> ApiCall] /\ i_calls'[p] = q /\ \A o_ \in Callers \ {p} : i_calls'[o_] = i_calls[o_]
  BY DEF ApiInv, ApiTyped
<1> QED BY <1>1 DEF ApiInv, ApiTyped

\* It is answered.
LEMMA AnsweredStep ==
  ASSUME ApiInv, NEW p \in Callers, NEW a \in {"refused", "capped", "conflict", "error", "created"},
         I!Answer(p, a), UNCHANGED <<i_rows, i_holds>>,
         a \in {"created", "conflict"} => i_rows[i_calls[p].sid].state # "none"
  PROVE  ApiInv'
<1> DEFINE q == I!Idle(i_calls[p].sid, a)
<1>1. q \in ApiCall /\ q.pc = "idle" /\ q.sid = i_calls[p].sid /\ q.answer = a
  BY ApiAssumed DEF ApiInv, ApiTyped, ApiCall, I!Idle
<1>2. i_calls' = [i_calls EXCEPT ![p] = q]
  BY DEF I!Answer, I!Set
<1> HIDE DEF q
<1>3. CallStandsFor(q, i_rows, i_holds)
  BY <1>1 DEF CallStandsFor
<1> QED BY <1>1, <1>2, <1>3, CallerGoesOn

\* It begins, is counted and inserted.
LEMMA RegisterStep ==
  ASSUME ApiInv, NEW p \in Callers, I!Request(p) \/ I!CountOpen(p) \/ I!Insert(p) \/ I!InsertFails(p)
  PROVE  ApiInv'
<1> DEFINE me == i_calls[p]
<1>0. me \in ApiCall /\ CallStandsFor(me, i_rows, i_holds) /\ i_rows \in [I!Sids -> ApiRow] /\ me.sid \in I!Sids
      /\ i_holds \in [I!Codes -> I!Sids \cup {0}] /\ i_calls \in [Callers -> ApiCall]
  BY DEF ApiInv, ApiTyped, ApiCall
<1>1. ASSUME NEW pc \in {"count", "insert"}, I!Set(p, [me EXCEPT !.pc = pc, !.answer = "none"]),
             UNCHANGED <<i_rows, i_holds>>
      PROVE  ApiInv'
  <2> DEFINE q == [me EXCEPT !.pc = pc, !.answer = "none"]
  <2>1. q \in ApiCall /\ q.pc = pc /\ q.answer = "none" /\ i_calls' = [i_calls EXCEPT ![p] = q]
    BY <1>0, <1>1 DEF ApiCall, I!Set
  <2> HIDE DEF q
  <2>2. CallStandsFor(q, i_rows, i_holds)
    BY <2>1 DEF CallStandsFor
  <2> QED BY <1>1, <2>1, <2>2, CallerGoesOn
<1>2. CASE I!Request(p)
  BY <1>1, <1>2, AnsweredStep DEF I!Request
<1>3. CASE I!CountOpen(p)
  <2>1. CASE I!Answer(p, "capped")
    BY <1>3, <2>1, AnsweredStep DEF I!CountOpen
  <2>2. CASE I!Set(p, [me EXCEPT !.pc = "insert"])
    <3> DEFINE q == [me EXCEPT !.pc = "insert"]
    <3>1. q \in ApiCall /\ q.pc = "insert" /\ q.answer = me.answer /\ me.pc = "count"
          /\ i_calls' = [i_calls EXCEPT ![p] = q] /\ UNCHANGED <<i_rows, i_holds>>
      BY <1>0, <1>3, <2>2 DEF ApiCall, I!Set, I!CountOpen, I!At
    <3> HIDE DEF q
    <3>2. CallStandsFor(q, i_rows, i_holds)
      BY <1>0, <3>1 DEF CallStandsFor
    <3> QED BY <3>1, <3>2, CallerGoesOn
  <2> QED BY <1>3, <2>1, <2>2 DEF I!CountOpen
<1>4. ASSUME NEW q \in ApiCall, q.pc = "insert", q.answer = me.answer, me.pc = "insert",
             I!Set(p, q), UNCHANGED <<i_rows, i_holds>>
      PROVE  ApiInv'
  <2>1. CallStandsFor(q, i_rows, i_holds)
    BY <1>0, <1>4 DEF CallStandsFor
  <2> QED BY <1>4, <2>1, CallerGoesOn DEF I!Set
<1>5. \A n \in Nat, s \in I!Sids :
        LET q == [me EXCEPT !.tries = n + 1, !.sid = s]
            r == [me EXCEPT !.tries = n + 1]
        IN /\ q \in ApiCall /\ q.pc = me.pc /\ q.answer = me.answer
           /\ r \in ApiCall /\ r.pc = me.pc /\ r.answer = me.answer
  <2> TAKE n \in Nat, s \in I!Sids
  <2> DEFINE k == n + 1
  <2>1. k \in Nat
    OBVIOUS
  <2> HIDE DEF k
  <2>2. LET q == [me EXCEPT !.tries = k, !.sid = s]
            r == [me EXCEPT !.tries = k]
        IN /\ q \in ApiCall /\ q.pc = me.pc /\ q.answer = me.answer
           /\ r \in ApiCall /\ r.pc = me.pc /\ r.answer = me.answer
    BY <1>0, <2>1 DEF ApiCall
  <2> QED BY <2>2 DEF k
<1>6. me.tries \in Nat
  BY <1>0 DEF ApiCall
<1>7. CASE I!InsertFails(p)
  <2>1. CASE I!Answer(p, "error")
    BY <1>7, <2>1, AnsweredStep DEF I!InsertFails
  <2>2. CASE I!Set(p, [me EXCEPT !.tries = @ + 1])
    BY <1>0, <1>4, <1>5, <1>6, <1>7, <2>2 DEF I!InsertFails, I!At
  <2> QED BY <1>7, <2>1, <2>2 DEF I!InsertFails
<1>8. CASE I!Insert(p)
  <2>1. CASE i_rows[me.sid].state # "none"
    <3>1. CASE I!Answer(p, "conflict")
      BY <1>8, <2>1, <3>1, AnsweredStep DEF I!Insert, I!Exists
    <3>2. CASE I!Answer(p, "error")
      BY <1>8, <2>1, <3>2, AnsweredStep DEF I!Insert, I!Exists
    <3>3. ASSUME NEW drawn \in I!Sids, I!Set(p, [me EXCEPT !.tries = @ + 1, !.sid = drawn]) PROVE ApiInv'
      BY <1>0, <1>4, <1>5, <1>6, <1>8, <2>1, <3>3 DEF I!Insert, I!Exists, I!At
    <3> QED BY <1>8, <2>1, <3>1, <3>2, <3>3 DEF I!Insert, I!Exists
  <2>2. CASE i_rows[me.sid].state = "none"
    <3> DEFINE q == [me EXCEPT !.pc = "pick", !.tries = 0]
               row == [state |-> "pending", settled |-> FALSE, age |-> "open", code |-> NoCode]
    <3>1. /\ me.pc = "insert" /\ i_rows' = [i_rows EXCEPT ![me.sid] = row] /\ i_calls' = [i_calls EXCEPT ![p] = q]
          /\ i_holds' = i_holds
      BY <1>8, <2>2 DEF I!Insert, I!Exists, I!At, I!CreateIntent, I!Set
    <3>2. q \in ApiCall /\ q.pc = "pick" /\ q.sid = me.sid /\ q.answer = me.answer
      BY <1>0 DEF ApiCall
    <3>3. row \in ApiRow /\ row.state = "pending" /\ row.code = NoCode
      BY DEF ApiRow
    <3> HIDE DEF q, row
    <3>4. /\ i_rows' \in [I!Sids -> ApiRow] /\ i_rows'[me.sid] = row /\ \A s \in I!Sids \ {me.sid} : i_rows'[s] = i_rows[s]
          /\ i_calls' \in [Callers -> ApiCall] /\ i_calls'[p] = q /\ \A o_ \in Callers \ {p} : i_calls'[o_] = i_calls[o_]
      BY <1>0, <3>1, <3>2, <3>3
    <3>5. ASSUME NEW s \in I!Sids PROVE RowNamed(s, i_rows'[s], i_holds')
      BY <3>1, <3>3, <3>4 DEF RowNamed, ApiInv
    <3>6. CallStandsFor(q, i_rows', i_holds')
      BY <1>0, <3>1, <3>2, <3>3, <3>4 DEF CallStandsFor
    <3>7. ASSUME NEW o_ \in Callers \ {p} PROVE CallStandsFor(i_calls'[o_], i_rows', i_holds')
      <4>1. CallStandsFor(i_calls[o_], i_rows, i_holds) /\ i_calls[o_].sid \in I!Sids
        BY <1>0 DEF ApiInv, ApiCall
      <4>2. CASE i_calls[o_].sid = me.sid
        <5>1. i_rows[me.sid].state = "none" /\ i_calls[o_].pc # "name"
          BY <2>2, <4>1, <4>2 DEF CallStandsFor
        <5> QED BY <3>1, <3>3, <3>4, <4>1, <4>2, <5>1 DEF CallStandsFor
      <4>3. CASE i_calls[o_].sid # me.sid
        BY <3>1, <3>4, <4>1, <4>3 DEF CallStandsFor
      <4> QED BY <4>2, <4>3
    <3> QED BY <1>0, <3>1, <3>4, <3>5, <3>6, <3>7 DEF ApiInv, ApiTyped
  <2> QED BY <2>1, <2>2
<1> QED BY <1>2, <1>3, <1>7, <1>8

\* The next pool, or none.
LEMMA NextPoolStep ==
  ASSUME ApiInv, NEW p \in Callers, I!NextPool(p), i_calls[p].pc \in {"pick", "take"},
         UNCHANGED <<i_rows, i_holds>>
  PROVE  ApiInv'
<1> DEFINE me == i_calls[p]
           k == me.pool + 1
<1>0. me \in ApiCall /\ CallStandsFor(me, i_rows, i_holds)
  BY DEF ApiInv, ApiTyped
<1>1. CASE I!Answer(p, "created")
  BY <1>0, <1>1, AnsweredStep DEF CallStandsFor
<1>2. CASE k \in DOMAIN Pools /\ I!Set(p, [me EXCEPT !.pc = "pick", !.pool = k, !.tries = 0])
  <2> DEFINE q == [me EXCEPT !.pc = "pick", !.pool = k, !.tries = 0]
  <2> HIDE DEF k
  <2>1. q \in ApiCall /\ q.pc = "pick" /\ q.sid = me.sid /\ q.answer = me.answer
    BY <1>0, <1>2 DEF ApiCall
  <2>2. i_calls' = [i_calls EXCEPT ![p] = q]
    BY <1>2 DEF I!Set
  <2> HIDE DEF q
  <2>3. CallStandsFor(q, i_rows, i_holds)
    BY <1>0, <2>1 DEF CallStandsFor
  <2> QED BY <2>1, <2>2, <2>3, CallerGoesOn
<1> QED BY <1>1, <1>2 DEF I!NextPool

\* A code is picked, taken if nobody holds it who may still be paid, and written to the intent.
LEMMA NamingStep ==
  ASSUME ApiInv, NEW p \in Callers,
         I!PickFreeBody(p) \/ I!TakeCode(p) \/ I!NameIntent(p) \/ I!AllocationFails(p) \/ I!AnswerLost(p)
  PROVE  ApiInv'
<1> DEFINE me == i_calls[p]
<1>0. me \in ApiCall /\ CallStandsFor(me, i_rows, i_holds) /\ i_rows \in [I!Sids -> ApiRow] /\ me.sid \in I!Sids
      /\ i_holds \in [I!Codes -> I!Sids \cup {0}] /\ i_calls \in [Callers -> ApiCall]
  BY DEF ApiInv, ApiTyped, ApiCall
<1>1. CASE I!AllocationFails(p)
  BY <1>0, <1>1, AnsweredStep DEF I!AllocationFails, CallStandsFor
<1>2. CASE I!AnswerLost(p)
  BY <1>2, AnsweredStep DEF I!AnswerLost
<1>3. CASE I!PickFreeBody(p)
  <2>1. CASE I!NextPool(p)
    BY <1>3, <2>1, NextPoolStep DEF I!PickFreeBody, I!At
  <2>2. ASSUME NEW c \in Pools[me.pool], I!Set(p, [me EXCEPT !.pc = "take", !.pick = c]) PROVE ApiInv'
    <3> DEFINE q == [me EXCEPT !.pc = "take", !.pick = c]
    <3>1. c \in I!Codes /\ me.pc = "pick" /\ UNCHANGED <<i_rows, i_holds>>
      BY <1>0, <1>3, <2>2, ApiAssumed DEF ApiCall, I!PickFreeBody, I!At
    <3>2. q \in ApiCall /\ q.pc = "take" /\ q.sid = me.sid /\ q.answer = me.answer /\ q.pick = c
          /\ i_calls' = [i_calls EXCEPT ![p] = q]
      BY <1>0, <2>2, <3>1 DEF ApiCall, I!Set
    <3> HIDE DEF q
    <3>3. CallStandsFor(q, i_rows, i_holds)
      BY <1>0, <3>1, <3>2 DEF CallStandsFor
    <3> QED BY <3>1, <3>2, <3>3, CallerGoesOn
  <2> QED BY <1>3, <2>1, <2>2 DEF I!PickFreeBody
<1>4. CASE I!TakeCode(p)
  <2> DEFINE c == me.pick
  <2>0. me.pc = "take" /\ c \in I!Codes /\ i_rows' = i_rows /\ i_rows[me.sid].state # "none" /\ me.answer = "none"
    BY <1>0, <1>4 DEF I!TakeCode, I!At, CallStandsFor
  <2>1. CASE UNCHANGED i_holds /\ I!NextPool(p)
    BY <2>0, <2>1, NextPoolStep
  <2>2. CASE UNCHANGED i_holds /\ I!Set(p, [me EXCEPT !.pc = "pick", !.tries = @ + 1])
    <3> DEFINE k == me.tries + 1
               q == [me EXCEPT !.pc = "pick", !.tries = k]
    <3>1. k \in Nat
      BY <1>0 DEF ApiCall
    <3>2. i_calls' = [i_calls EXCEPT ![p] = q]
      BY <2>2 DEF I!Set
    <3> HIDE DEF k
    <3>3. q \in ApiCall /\ q.pc = "pick" /\ q.sid = me.sid /\ q.answer = me.answer
      BY <1>0, <3>1 DEF ApiCall
    <3> HIDE DEF q
    <3>4. CallStandsFor(q, i_rows, i_holds)
      BY <2>0, <3>3 DEF CallStandsFor
    <3> QED BY <2>0, <2>2, <3>2, <3>3, <3>4, CallerGoesOn
  <2>3. CASE /\ ~ I!LiveHold(c) /\ i_holds' = [i_holds EXCEPT ![c] = me.sid]
             /\ I!Set(p, [me EXCEPT !.pc = "name"])
    <3> DEFINE q == [me EXCEPT !.pc = "name"]
    <3>1. q \in ApiCall /\ q.pc = "name" /\ q.sid = me.sid /\ q.answer = me.answer /\ q.pick = c
      BY <1>0 DEF ApiCall
    <3>2. i_calls' = [i_calls EXCEPT ![p] = q]
      BY <2>3 DEF I!Set
    <3> HIDE DEF q
    <3>3. /\ i_holds' \in [I!Codes -> I!Sids \cup {0}] /\ i_holds'[c] = me.sid
          /\ \A d \in I!Codes \ {c} : i_holds'[d] = i_holds[d]
          /\ i_calls' \in [Callers -> ApiCall] /\ i_calls'[p] = q /\ \A o_ \in Callers \ {p} : i_calls'[o_] = i_calls[o_]
      BY <1>0, <2>0, <2>3, <3>1, <3>2
    <3>4. \A s \in I!Sids : i_rows[s].state # "paid" /\ i_rows[s].age # "gone" => i_holds[c] # s
      BY <2>3, ApiAssumed DEF I!LiveHold, I!Live
    <3>5. ASSUME NEW s \in I!Sids PROVE RowNamed(s, i_rows'[s], i_holds')
      <4>1. RowNamed(s, i_rows[s], i_holds) /\ i_rows[s].code \in I!Codes \cup {NoCode}
        BY <1>0 DEF ApiInv, ApiRow
      <4> QED BY <2>0, <3>3, <3>4, <4>1 DEF RowNamed
    <3>6. CallStandsFor(q, i_rows', i_holds')
      BY <2>0, <3>1, <3>3 DEF CallStandsFor
    <3>7. ASSUME NEW o_ \in Callers \ {p} PROVE CallStandsFor(i_calls'[o_], i_rows', i_holds')
      <4>1. CallStandsFor(i_calls[o_], i_rows, i_holds) /\ i_calls[o_].sid \in I!Sids
        BY <1>0 DEF ApiInv, ApiCall
      <4> QED BY <2>0, <3>3, <3>4, <4>1 DEF CallStandsFor
    <3> QED BY <1>0, <2>0, <3>3, <3>5, <3>6, <3>7 DEF ApiInv, ApiTyped
  <2> QED BY <1>4, <2>1, <2>2, <2>3 DEF I!TakeCode
<1>5. CASE I!NameIntent(p)
  <2> DEFINE c == me.pick
             row == [i_rows[me.sid] EXCEPT !.code = c]
             q == I!Idle(me.sid, "created")
  <2>0. /\ me.pc = "name" /\ c \in I!Codes /\ i_holds' = i_holds /\ i_rows[me.sid].state # "none"
        /\ i_rows[me.sid].state # "paid" /\ i_rows[me.sid].age # "gone" => i_holds[c] = me.sid
    BY <1>0, <1>5 DEF I!NameIntent, I!At, CallStandsFor
  <2>1. row \in ApiRow /\ row.state = i_rows[me.sid].state /\ row.age = i_rows[me.sid].age /\ row.code = c
    BY <1>0, <2>0 DEF ApiRow
  <2>2. i_rows' = [i_rows EXCEPT ![me.sid] = row] /\ i_calls' = [i_calls EXCEPT ![p] = q]
    BY <1>0, <1>5 DEF I!NameIntent, I!Answer, I!Set
  <2>3. q \in ApiCall /\ q.pc = "idle" /\ q.sid = me.sid
    BY <1>0, ApiAssumed DEF ApiCall, I!Idle
  <2> HIDE DEF row, q
  <2>4. /\ i_rows' \in [I!Sids -> ApiRow] /\ i_rows'[me.sid] = row /\ \A s \in I!Sids \ {me.sid} : i_rows'[s] = i_rows[s]
        /\ i_calls' \in [Callers -> ApiCall] /\ i_calls'[p] = q /\ \A o_ \in Callers \ {p} : i_calls'[o_] = i_calls[o_]
    BY <1>0, <2>1, <2>2, <2>3
  <2>5. \A s \in I!Sids : i_rows'[s].state = i_rows[s].state /\ i_rows'[s].age = i_rows[s].age
    BY <2>1, <2>4
  <2>6. ASSUME NEW s \in I!Sids PROVE RowNamed(s, i_rows'[s], i_holds')
    BY <2>0, <2>1, <2>4, <2>5 DEF RowNamed, ApiInv
  <2>7. CallStandsFor(q, i_rows', i_holds')
    BY <1>0, <2>0, <2>3, <2>5 DEF CallStandsFor
  <2>8. ASSUME NEW o_ \in Callers \ {p} PROVE CallStandsFor(i_calls'[o_], i_rows', i_holds')
    <3>1. CallStandsFor(i_calls[o_], i_rows, i_holds) /\ i_calls[o_].sid \in I!Sids
      BY <1>0 DEF ApiInv, ApiCall
    <3> QED BY <2>0, <2>4, <2>5, <3>1 DEF CallStandsFor
  <2> QED BY <1>0, <2>0, <2>4, <2>6, <2>7, <2>8 DEF ApiInv, ApiTyped
<1> QED BY <1>1, <1>2, <1>3, <1>4, <1>5

\* Intents only come nearer to their end: what is paid or gone stays so.
LEMMA IntentMoves ==
  ASSUME ApiInv, UNCHANGED <<i_holds, i_calls>>, i_rows' \in [I!Sids -> ApiRow],
         \A s \in I!Sids : /\ i_rows'[s].code = i_rows[s].code
                           /\ i_rows'[s].state = "none" <=> i_rows[s].state = "none"
                           /\ i_rows'[s].state = "none" => i_rows'[s].age = i_rows[s].age
                           /\ i_rows[s].state = "paid" => i_rows'[s].state = "paid"
                           /\ i_rows[s].age = "gone" => i_rows'[s].age = "gone"
  PROVE  ApiInv'
<1>1. ASSUME NEW s \in I!Sids PROVE RowNamed(s, i_rows'[s], i_holds')
  BY <1>1 DEF RowNamed, ApiInv
<1>2. ASSUME NEW p \in Callers PROVE CallStandsFor(i_calls'[p], i_rows', i_holds')
  <2>1. CallStandsFor(i_calls[p], i_rows, i_holds) /\ i_calls[p].sid \in I!Sids
    BY DEF ApiInv, ApiTyped, ApiCall
  <2> QED BY <2>1 DEF CallStandsFor
<1> QED BY <1>1, <1>2 DEF ApiInv, ApiTyped

LEMMA ApiInvStep == ApiInv /\ [Next]_all => ApiInv'
<1> SUFFICES ASSUME ApiInv, [Next]_all PROVE ApiInv'
  OBVIOUS
<1>0. i_rows \in [I!Sids -> ApiRow]
  BY DEF ApiInv, ApiTyped
<1>1. CASE UNCHANGED i_all
  BY <1>1 DEF i_all, ApiInv, ApiTyped
<1>2. ASSUME NEW s \in I!Sids, I!Ages(s) PROVE ApiInv'
  <2> DEFINE age == IF i_rows[s].age = "open" THEN "late" ELSE "gone"
             row == [i_rows[s] EXCEPT !.age = age]
  <2>1. /\ i_rows' = [i_rows EXCEPT ![s] = row] /\ UNCHANGED <<i_holds, i_calls>>
        /\ i_rows[s].state # "none" /\ i_rows[s].age # "gone"
    BY <1>0, <1>2 DEF I!Ages, I!Exists
  <2>2. row \in ApiRow /\ row.code = i_rows[s].code /\ row.state = i_rows[s].state
    BY <1>0 DEF ApiRow
  <2> HIDE DEF row
  <2>3. i_rows' \in [I!Sids -> ApiRow] /\ i_rows'[s] = row /\ \A d \in I!Sids \ {s} : i_rows'[d] = i_rows[d]
    BY <1>0, <2>1, <2>2
  <2> QED BY <2>1, <2>2, <2>3, IntentMoves
<1>3. ASSUME NEW s \in I!Sids, NEW state \in {"pending", "expired", "paid"}, I!Settled(s, state) PROVE ApiInv'
  <2> DEFINE row == [i_rows[s] EXCEPT !.state = state, !.settled = TRUE]
  <2>1. /\ i_rows' = [i_rows EXCEPT ![s] = row] /\ UNCHANGED <<i_holds, i_calls>>
        /\ i_rows[s].state \in {"pending", "expired"}
    BY <1>0, <1>3 DEF I!Settled
  <2>2. row \in ApiRow /\ row.code = i_rows[s].code /\ row.state = state /\ row.age = i_rows[s].age
    BY <1>0 DEF ApiRow
  <2> HIDE DEF row
  <2>3. i_rows' \in [I!Sids -> ApiRow] /\ i_rows'[s] = row /\ \A d \in I!Sids \ {s} : i_rows'[d] = i_rows[d]
    BY <1>0, <2>1, <2>2
  <2> QED BY <2>1, <2>2, <2>3, IntentMoves
<1>4. CASE I!SweepExpiredIntents
  <2> DEFINE overdue == {s \in I!Sids : i_rows[s].state = "pending" /\ i_rows[s].age # "open"}
             rows == [s \in I!Sids |-> IF s \in overdue THEN [i_rows[s] EXCEPT !.state = "expired"] ELSE i_rows[s]]
  <2>1. i_rows' = rows /\ UNCHANGED <<i_holds, i_calls>>
    BY <1>4 DEF I!SweepExpiredIntents
  <2>2. ASSUME NEW s \in I!Sids
        PROVE  /\ rows[s] \in ApiRow /\ rows[s].code = i_rows[s].code /\ rows[s].age = i_rows[s].age
               /\ rows[s].state = i_rows[s].state \/ (i_rows[s].state = "pending" /\ rows[s].state = "expired")
    <3>1. CASE s \in overdue
      BY <1>0, <3>1 DEF ApiRow
    <3>2. CASE s \notin overdue
      BY <1>0, <3>2
    <3> QED BY <3>1, <3>2
  <2>3. rows \in [I!Sids -> ApiRow]
    BY <2>2
  <2> HIDE DEF rows
  <2> QED BY <2>1, <2>2, <2>3, IntentMoves
<1>5. CASE I!Next
  BY <1>2, <1>3, <1>4, <1>5, RegisterStep, NamingStep DEF I!Next
<1> QED BY <1>1, <1>5 DEF Next, ApiStep, ListStep, OnboardingStep, AccessStep, SetupStep, AdminStep, SandboxStep, all

LEMMA ApiInvInit == Init => ApiInv
<1> SUFFICES ASSUME Init PROVE ApiInv
  OBVIOUS
<1>1. I!Init
  BY DEF Init
<1>2. \A s \in I!Sids : I!Idle(s, "none") \in ApiCall
  BY ApiAssumed DEF I!Idle, ApiCall
<1>3. ApiTyped
  BY <1>1, <1>2, ApiAssumed DEF I!Init, ApiTyped, ApiRow
<1> QED BY <1>1, <1>3 DEF I!Init, I!Idle, ApiInv, RowNamed, CallStandsFor

-----------------------------------------------------------------------------
(* The list: no page skips an intent *)

ListWalk == [on : {"no", "yes", "done"}, state : {"any", "pending", "paid"}, cursor : {0} \cup L!Sids,
             seen : SUBSET L!Sids, due : SUBSET L!Sids]

\* What was due and matches still is seen or comes below the cursor.
ListInv ==
  /\ l_at \in [L!Sids -> [second : Nat, state : {"pending", "paid"}]] /\ l_clock \in Nat \ {0}
  /\ l_walk \in ListWalk
  /\ l_walk.cursor # 0 => L!Exists(l_walk.cursor)
  /\ \A s \in l_walk.due : L!Exists(s) /\ (l_walk.state = "paid" => l_at[s].state = "paid")
  /\ l_walk.on # "no" =>
       \A s \in l_walk.due :
         L!Matches(s, l_walk.state) => s \in l_walk.seen \/ (l_walk.on = "yes" /\ L!Below(l_walk.cursor, s))

\* A set of numbers has a least one.
LEMMA LeastNumber ==
  ASSUME NEW T, T \subseteq Nat, T # {}
  PROVE  \E x \in T : \A y \in T : x <= y
<1> DEFINE R == OpToRel(<, Nat)
<1>1. IsWellFoundedOn(R, Nat)
  BY NatLessThanWellFounded
<1>2. ASSUME NEW x \in Nat, NEW y \in Nat, y < x PROVE <<y, x>> \in R
  <2>1. <<y, x>> \in Nat \X Nat /\ <<y, x>>[1] < <<y, x>>[2]
    BY <1>2
  <2> QED BY <2>1, Zenon DEF OpToRel
<1> HIDE DEF R
<1>3. PICK x \in T : \A y \in T : ~ (<<y, x>> \in R)
  BY <1>1, WFMin
<1>4. ASSUME NEW y \in T PROVE x <= y
  <2>1. x \in Nat /\ y \in Nat /\ ~ (<<y, x>> \in R)
    BY <1>3
  <2>2. ~ (y < x)
    BY <1>2, <2>1
  <2> QED BY <2>1, <2>2
<1> QED BY <1>4

\* A page that holds something has an oldest intent.
LEMMA PageHasOldest ==
  ASSUME ListInv, NEW page, page \subseteq L!Sids, page # {}
  PROVE  \E s \in page : \A t \in page : ~ L!Newer(s, t)
<1> DEFINE seconds == {l_at[s].second : s \in page}
<1>0. \A s \in page : s \in Nat /\ l_at[s].second \in Nat
  BY DEF ListInv, L!Sids
<1>1. PICK x \in seconds : \A y \in seconds : x <= y
  <2>1. seconds \subseteq Nat /\ seconds # {}
    BY <1>0
  <2> HIDE DEF seconds
  <2> QED BY <2>1, LeastNumber
<1> DEFINE oldest == {s \in page : l_at[s].second = x}
<1>2. PICK s \in oldest : \A t \in oldest : s <= t
  <2>1. oldest \subseteq Nat /\ oldest # {}
    BY <1>0, <1>1
  <2> HIDE DEF oldest
  <2> QED BY <2>1, LeastNumber
<1>3. ASSUME NEW t \in page PROVE ~ L!Newer(s, t)
  <2>1. x <= l_at[t].second /\ l_at[s].second = x /\ s \in Nat /\ t \in Nat /\ l_at[t].second \in Nat
        /\ x \in Nat
    BY <1>0, <1>1, <1>2
  <2>2. l_at[t].second = x => s <= t
    BY <1>2, <1>3
  <2> QED BY <2>1, <2>2 DEF L!Newer
<1> QED BY <1>2, <1>3

\* What is not on a page comes below all that is.
LEMMA PageIsNewest ==
  ASSUME ListInv, NEW left, left \subseteq L!Sids, NEW s \in left, NEW m \in left,
         L!Cardinality({t \in left : L!Newer(t, m)}) < PageSize,
         ~ (L!Cardinality({t \in left : L!Newer(t, s)}) < PageSize)
  PROVE  L!Newer(m, s)
<1>0. \A t \in left : t \in Nat /\ l_at[t].second \in Nat
  BY DEF ListInv, L!Sids
<1>1. L!Newer(m, s) \/ m = s \/ L!Newer(s, m)
  BY <1>0 DEF L!Newer
<1>2. m # s
  OBVIOUS
<1>3. CASE L!Newer(s, m)
  <2> DEFINE above(u) == {t \in left : L!Newer(t, u)}
  <2>1. above(s) \subseteq above(m)
    BY <1>0, <1>3 DEF L!Newer
  <2>2. IsFiniteSet(left)
    <3>1. L!IntentListAssumption
      BY TenantsAssumption
    <3>2. ListSid \in Nat
      BY <3>1 DEF L!IntentListAssumption
    <3>3. IsFiniteSet(L!Sids)
      BY <3>2, FS_Interval DEF L!Sids
    <3> QED BY <3>3, FS_Subset
  <2>3. IsFiniteSet(above(m)) /\ above(s) \in SUBSET above(m)
    BY <2>1, <2>2, FS_Subset
  <2>4. Cardinality(above(s)) <= Cardinality(above(m)) /\ Cardinality(above(s)) \in Nat /\ Cardinality(above(m)) \in Nat
    BY <2>3, FS_Subset, FS_CardinalityType
  <2>5. \A T : L!Cardinality(T) = Cardinality(T)
    BY DEF L!Cardinality, Cardinality, L!IsFiniteSet, IsFiniteSet
  <2>6. PageSize \in Nat
    <3>1. L!IntentListAssumption
      BY TenantsAssumption
    <3> QED BY <3>1 DEF L!IntentListAssumption
  <2>7. Cardinality(above(m)) < PageSize /\ ~ (Cardinality(above(s)) < PageSize)
    BY <2>5
  <2> QED BY <2>4, <2>6, <2>7
<1> QED BY <1>1, <1>2, <1>3

LEMMA NextPageStep == ListInv /\ L!NextPage => ListInv'
<1> SUFFICES ASSUME ListInv, L!NextPage PROVE ListInv'
  OBVIOUS
<1> DEFINE left == {s \in L!Sids : L!Matches(s, l_walk.state) /\ L!Below(l_walk.cursor, s)}
           page == {s \in left : L!Cardinality({t \in left : L!Newer(t, s)}) < PageSize}
           on == IF page = left THEN "done" ELSE "yes"
           seen == l_walk.seen \cup page
           cursor == IF page = {} THEN l_walk.cursor ELSE CHOOSE s \in page : \A t \in page : ~ L!Newer(s, t)
           walk == [l_walk EXCEPT !.on = on, !.seen = seen, !.cursor = cursor]
<1>1. l_walk.on = "yes" /\ l_walk' = walk /\ UNCHANGED <<l_at, l_clock>>
  BY DEF L!NextPage
<1>2. cursor = l_walk.cursor \/ cursor \in page
  BY PageHasOldest
<1>3. page = {} => cursor = l_walk.cursor
  OBVIOUS
<1>4. page # {} => cursor \in page
  BY PageHasOldest
<1>5. left \subseteq L!Sids /\ page \subseteq left /\ \A s \in left : L!Exists(s)
  BY DEF L!Matches
<1>6. ASSUME NEW s \in left, s \notin page, page # {} PROVE L!Newer(cursor, s)
  <2> HIDE DEF left, cursor
  <2>1. cursor \in left /\ L!Cardinality({t \in left : L!Newer(t, cursor)}) < PageSize
    BY <1>4, <1>6
  <2> QED BY <1>5, <1>6, <2>1, PageIsNewest
<1>7. \A s \in l_walk.due : L!Matches(s, l_walk.state) => s \in l_walk.seen \/ s \in left
  BY <1>1 DEF ListInv, ListWalk
<1> HIDE DEF left, page, cursor
<1>8. /\ l_walk' \in ListWalk /\ l_walk'.on = on /\ l_walk'.state = l_walk.state /\ l_walk'.cursor = cursor
      /\ l_walk'.seen = seen /\ l_walk'.due = l_walk.due
  BY <1>1, <1>2, <1>5 DEF ListInv, ListWalk
<1>9. l_walk'.cursor # 0 => L!Exists(l_walk'.cursor)
  BY <1>2, <1>5, <1>8 DEF ListInv
<1>10. ASSUME NEW s \in l_walk.due, L!Matches(s, l_walk.state)
       PROVE  s \in seen \/ (on = "yes" /\ L!Below(cursor, s))
  <2>1. CASE s \in l_walk.seen \/ s \in page
    BY <2>1
  <2>2. CASE s \in left /\ s \notin page
    <3>1. on = "yes"
      BY <2>2
    <3>2. CASE page = {}
      BY <1>1, <1>3, <1>10, <2>2, <3>1, <3>2 DEF left
    <3>3. CASE page # {}
      BY <1>6, <2>2, <3>1, <3>3 DEF L!Below
    <3> QED BY <3>2, <3>3
  <2> QED BY <1>7, <1>10, <2>1, <2>2
<1>11. /\ \A s : L!Exists(s)' <=> L!Exists(s)
       /\ \A s, state : L!Matches(s, state)' <=> L!Matches(s, state)
       /\ \A c, s : L!Below(c, s)' <=> L!Below(c, s)
  BY <1>1 DEF L!Exists, L!Matches, L!Below, L!Newer
<1> QED BY <1>1, <1>8, <1>9, <1>10, <1>11 DEF ListInv, L!Exists, L!Matches, L!Below, L!Newer

\* Intents are added and paid: one that is there keeps its place in the order.
LEMMA ListMoves ==
  ASSUME ListInv, UNCHANGED <<l_clock, l_walk>>, NEW u \in L!Sids, NEW row,
         row \in [second : Nat, state : {"pending", "paid"}], l_at' = [l_at EXCEPT ![u] = row],
         L!Exists(u) => row.second = l_at[u].second /\ row.state = "paid"
  PROVE  ListInv'
<1>1. /\ l_at' \in [L!Sids -> [second : Nat, state : {"pending", "paid"}]] /\ l_at'[u] = row
      /\ \A s \in L!Sids \ {u} : l_at'[s] = l_at[s]
  BY DEF ListInv
<1>2. \A s \in L!Sids : L!Exists(s) => L!Exists(s)' /\ l_at'[s].second = l_at[s].second
                                      /\ (l_at[s].state = "paid" => l_at'[s].state = "paid")
  BY <1>1 DEF L!Exists
<1>3. l_walk \in ListWalk
  BY DEF ListInv
<1>4. ASSUME NEW s \in l_walk.due PROVE /\ L!Matches(s, l_walk.state)' => L!Matches(s, l_walk.state)
                                        /\ L!Below(l_walk.cursor, s) => L!Below(l_walk.cursor, s)'
  <2>1. s \in L!Sids /\ L!Exists(s) /\ (l_walk.state = "paid" => l_at[s].state = "paid")
        /\ (l_walk.cursor # 0 => l_walk.cursor \in L!Sids /\ L!Exists(l_walk.cursor))
    BY <1>3 DEF ListInv, ListWalk
  <2>2. L!Matches(s, l_walk.state)' => L!Matches(s, l_walk.state)
    BY <1>1, <1>3, <2>1 DEF L!Matches, L!Exists, ListWalk, ListInv
  <2>3. CASE l_walk.cursor = 0
    BY <2>2, <2>3 DEF L!Below
  <2>4. CASE l_walk.cursor # 0
    BY <1>2, <2>1, <2>2, <2>4 DEF L!Below, L!Newer
  <2> QED BY <2>3, <2>4
<1>5. /\ l_walk.cursor # 0 => l_at'[l_walk.cursor].second # 0
      /\ \A s \in l_walk.due : l_at'[s].second # 0 /\ (l_walk.state = "paid" => l_at'[s].state = "paid")
  <2>1. l_walk.cursor # 0 => l_walk.cursor \in L!Sids /\ L!Exists(l_walk.cursor)
    BY <1>3 DEF ListInv, ListWalk
  <2>2. \A s \in l_walk.due : s \in L!Sids /\ L!Exists(s) /\ (l_walk.state = "paid" => l_at[s].state = "paid")
    BY <1>3 DEF ListInv, ListWalk
  <2> QED BY <1>2, <2>1, <2>2 DEF L!Exists
<1>6. l_walk'.on # "no" =>
        \A s \in l_walk'.due :
          L!Matches(s, l_walk.state)' => s \in l_walk'.seen \/ (l_walk'.on = "yes" /\ L!Below(l_walk.cursor, s)')
  BY <1>4 DEF ListInv
<1> QED BY <1>1, <1>5, <1>6 DEF ListInv, L!Exists, L!Matches, L!Below, L!Newer

LEMMA ListInvStep == ListInv /\ [Next]_all => ListInv'
<1> SUFFICES ASSUME ListInv, [Next]_all PROVE ListInv'
  OBVIOUS
<1>0. /\ l_at \in [L!Sids -> [second : Nat, state : {"pending", "paid"}]] /\ l_clock \in Nat \ {0}
      /\ l_walk \in ListWalk
  BY DEF ListInv
<1>1. CASE UNCHANGED l_all
  BY <1>1 DEF l_all, ListInv, L!Exists, L!Matches, L!Below, L!Newer
<1>2. ASSUME NEW s \in L!Sids, L!CreateIntent(s) PROVE ListInv'
  <2> DEFINE row == [l_at[s] EXCEPT !.second = l_clock]
  <2>1. row \in [second : Nat, state : {"pending", "paid"}] /\ l_at' = [l_at EXCEPT ![s] = row] /\ ~ L!Exists(s)
        /\ UNCHANGED <<l_clock, l_walk>>
    BY <1>0, <1>2 DEF L!CreateIntent
  <2> HIDE DEF row
  <2> QED BY <2>1, ListMoves
<1>3. ASSUME NEW s \in L!Sids, L!Pay(s) PROVE ListInv'
  <2> DEFINE row == [l_at[s] EXCEPT !.state = "paid"]
  <2>1. row \in [second : Nat, state : {"pending", "paid"}] /\ l_at' = [l_at EXCEPT ![s] = row]
        /\ row.second = l_at[s].second /\ row.state = "paid" /\ UNCHANGED <<l_clock, l_walk>>
    BY <1>0, <1>3 DEF L!Pay
  <2> HIDE DEF row
  <2> QED BY <2>1, ListMoves
<1>4. CASE L!Tick
  BY <1>0, <1>4 DEF L!Tick, ListInv, L!Exists, L!Matches, L!Below, L!Newer
<1>5. ASSUME NEW state \in {"any", "pending", "paid"}, L!Start(state) PROVE ListInv'
  <2> DEFINE walk == [on |-> "yes", state |-> state, cursor |-> 0, seen |-> {},
                      due |-> {s \in L!Sids : L!Matches(s, state)}]
  <2>1. l_walk' = walk /\ UNCHANGED <<l_at, l_clock>>
    BY <1>5 DEF L!Start
  <2>2. walk \in ListWalk /\ walk.cursor = 0 /\ walk.state = state /\ walk.on = "yes"
        /\ \A s \in walk.due : L!Exists(s) /\ (state = "paid" => l_at[s].state = "paid")
    BY DEF ListWalk, L!Matches
  <2> HIDE DEF walk
  <2> QED BY <1>0, <2>1, <2>2 DEF ListInv, L!Exists, L!Below
<1>6. CASE L!Next
  BY <1>2, <1>3, <1>4, <1>5, <1>6, NextPageStep DEF L!Next
<1> QED BY <1>1, <1>6 DEF Next, ApiStep, ListStep, OnboardingStep, AccessStep, SetupStep, AdminStep, SandboxStep, all

LEMMA ListInvInit == Init => ListInv
BY DEF Init, L!Init, ListInv, ListWalk

-----------------------------------------------------------------------------
\* A code on a screen is read as its intent's or nobody's as long as it can be paid, whoever
\* was told that an intent is registered has it, and who turns all pages misses none; for any
\* callers, sids, pools of codes in which a slip is caught, pages and failures.
THEOREM IntentsStand == Spec => []IntentsAreKept
<1>1. ApiInv => I!CodeNamesItsIntent
  <2> SUFFICES ASSUME ApiInv, NEW s \in I!Sids, i_rows[s].code # NoCode, I!Live(s),
                      NEW c \in ReadAs[i_rows[s].code]
               PROVE  I!FindIntentByShortRef(c) \in {s, 0}
    BY DEF I!CodeNamesItsIntent
  <2>1. i_rows[s].code \in I!Codes /\ i_holds[i_rows[s].code] = s
    BY DEF ApiInv, ApiTyped, ApiRow, RowNamed, I!Live
  <2>2. c \in I!Codes => c = i_rows[s].code
    BY <2>1, ApiAssumed
  <2> QED BY <2>1, <2>2 DEF I!FindIntentByShortRef
<1>2. ApiInv => I!AcceptedExists
  BY DEF ApiInv, CallStandsFor, I!AcceptedExists, I!Exists
<1>3. ListInv => L!ListIsComplete
  BY DEF ListInv, L!ListIsComplete
<1>4. ApiInv /\ ListInv => IntentsAreKept
  BY <1>1, <1>2, <1>3 DEF IntentsAreKept
<1> QED BY <1>4, ApiInvInit, ApiInvStep, ListInvInit, ListInvStep, PTL DEF Spec

-----------------------------------------------------------------------------
(* The short codes *)

\* A set of numbers that has 0 and, with a number, the next one, has them all.
LEMMA CountingUp ==
  ASSUME NEW G, 0 \in G, \A n \in Nat : n \in G => n + 1 \in G
  PROVE  \A n \in Nat : n \in G
<1> SUFFICES ASSUME Nat \ G # {} PROVE FALSE
  OBVIOUS
<1>1. PICK n \in Nat \ G : \A m \in Nat \ G : n <= m
  BY LeastNumber
<1>2. n # 0 /\ n - 1 \in Nat /\ n - 1 \in G
  <2>1. n # 0
    OBVIOUS
  <2>2. n - 1 \in Nat /\ ~ (n <= n - 1)
    BY <2>1
  <2> QED BY <1>1, <2>1, <2>2
<1>3. (n - 1) + 1 = n
  BY <1>2
<1> QED BY <1>2, <1>3

Digits == 0..9
DammAt(a, x) == Damm[a + 1][x + 1]

\* The table: no row or column has a digit twice, the diagonal is 0, and no two
\* different digits lead to the same place in either order.
LEMMA DammTable ==
  /\ \A a, x \in Digits : DammAt(a, x) \in Digits
  /\ \A a, x, y \in Digits : DammAt(a, x) = DammAt(a, y) => x = y
  /\ \A a, b, x \in Digits : DammAt(a, x) = DammAt(b, x) => a = b
  /\ \A a \in Digits : DammAt(a, a) = 0
  /\ \A a, x, y \in Digits : DammAt(DammAt(a, x), y) = DammAt(DammAt(a, y), x) => x = y
<1>1. \A a, x \in Digits : DammAt(a, x) \in Digits
  BY SMTT(60) DEF DammAt, Damm, Digits
<1>2. \A a, x, y \in Digits : DammAt(a, x) = DammAt(a, y) => x = y
  BY SMTT(60) DEF DammAt, Damm, Digits
<1>3. \A a, b, x \in Digits : DammAt(a, x) = DammAt(b, x) => a = b
  BY SMTT(60) DEF DammAt, Damm, Digits
<1>4. \A a \in Digits : DammAt(a, a) = 0
  BY SMTT(60) DEF DammAt, Damm, Digits
<1>5. \A a, x, y \in Digits : DammAt(DammAt(a, x), y) = DammAt(DammAt(a, y), x) => x = y
  BY SMTT(60) DEF DammAt, Damm, Digits
<1> QED BY <1>1, <1>2, <1>3, <1>4, <1>5

\* w is the interim digit of dammInterim after each digit of a code.
Interims(code, w) ==
  /\ w[0] = 0
  /\ \A n \in 1..Len(code) : w[n] = DammAt(w[n - 1], code[n])

\* The interim digits are those of the loop, one after the other.
LEMMA InterimsAre ==
  ASSUME NEW code \in Seq(Digits)
  PROVE  \E w : Interims(code, w) /\ DammInterim(code) = w[Len(code)]
<1> DEFINE Step(n, f) == IF n = 0 THEN 0 ELSE Damm[f[n - 1] + 1][code[n] + 1]
           Rec(m, f) == f = [n \in 0..m |-> Step(n, f)]
           G == {m \in Nat : \E f : Rec(m, f)}
<1>0. Len(code) \in Nat
  OBVIOUS
<1>1. 0 \in G
  <2> DEFINE f == [n \in 0..0 |-> 0]
  <2>1. Rec(0, f)
    OBVIOUS
  <2> QED BY <2>1
<1>2. ASSUME NEW m \in Nat, NEW f, Rec(m, f) PROVE \E g : Rec(m + 1, g)
  <2> DEFINE g == [n \in 0..(m + 1) |-> IF n = m + 1 THEN Step(n, f) ELSE f[n]]
  <2>1. ASSUME NEW n \in 0..(m + 1) PROVE g[n] = Step(n, g)
    <3>1. CASE n = 0
      BY <1>2, <3>1
    <3>2. CASE n \in 1..m
      <4>1. f[n] = Step(n, f)
        <5> HIDE DEF Step
        <5> QED BY <1>2, <3>2
      <4>2. g[n] = f[n] /\ g[n - 1] = f[n - 1]
        BY <3>2
      <4> HIDE DEF g
      <4> QED BY <3>2, <4>1, <4>2
    <3>3. CASE n = m + 1
      <4>1. g[n] = Step(n, f) /\ g[n - 1] = f[n - 1]
        BY <3>3
      <4> HIDE DEF g
      <4> QED BY <3>3, <4>1
    <3> QED BY <3>1, <3>2, <3>3
  <2>2. Rec(m + 1, g)
    <3>1. g = [n \in 0..(m + 1) |-> g[n]]
      OBVIOUS
    <3> HIDE DEF g, Step
    <3> QED BY <2>1, <3>1
  <2> QED BY <2>2
<1>3. Len(code) \in G
  <2>1. \A m \in Nat : m \in G => m + 1 \in G
    <3> HIDE DEF Rec
    <3> QED BY <1>2
  <2> HIDE DEF G
  <2> QED BY <1>0, <1>1, <2>1, CountingUp
<1> DEFINE w == CHOOSE f : Rec(Len(code), f)
<1>4. Rec(Len(code), w)
  <2> HIDE DEF Rec
  <2> QED BY <1>3
<1>5. DammInterim(code) = w[Len(code)]
  BY DEF DammInterim
<1> HIDE DEF w
<1>6. Interims(code, w)
  BY <1>0, <1>4 DEF Interims, DammAt
<1> QED BY <1>5, <1>6

\* They are digits.
LEMMA InterimsAreDigits ==
  ASSUME NEW code \in Seq(Digits), NEW w, Interims(code, w)
  PROVE  \A n \in 0..Len(code) : w[n] \in Digits
<1> DEFINE G == {n \in Nat : n <= Len(code) => w[n] \in Digits}
<1>1. 0 \in G
  BY DEF Interims, Digits
<1>2. ASSUME NEW n \in Nat, n \in G PROVE n + 1 \in G
  <2> SUFFICES ASSUME n + 1 <= Len(code) PROVE w[n + 1] \in Digits
    OBVIOUS
  <2>1. n + 1 \in 1..Len(code) /\ (n + 1) - 1 = n
    OBVIOUS
  <2>2. w[n + 1] = DammAt(w[n], code[n + 1]) /\ w[n] \in Digits /\ code[n + 1] \in Digits
    BY <1>2, <2>1 DEF Interims
  <2> QED BY <2>2, DammTable
<1>3. \A n \in Nat : n \in G
  <2> HIDE DEF G
  <2> QED BY <1>1, <1>2, CountingUp
<1> QED BY <1>3

\* Codes that are the same up to a digit have the same interim digit there.
LEMMA SameSoFar ==
  ASSUME NEW c \in Seq(Digits), NEW e \in Seq(Digits), NEW v, Interims(c, v), NEW w, Interims(e, w),
         Len(c) = Len(e), NEW k \in 0..Len(c), \A j \in 1..k : c[j] = e[j]
  PROVE  v[k] = w[k]
<1> DEFINE G == {n \in Nat : n <= k => v[n] = w[n]}
<1>1. 0 \in G
  BY DEF Interims
<1>2. ASSUME NEW n \in Nat, n \in G PROVE n + 1 \in G
  <2> SUFFICES ASSUME n + 1 <= k PROVE v[n + 1] = w[n + 1]
    OBVIOUS
  <2>1. n + 1 \in 1..Len(c) /\ n + 1 \in 1..k /\ (n + 1) - 1 = n
    OBVIOUS
  <2>2. v[n + 1] = DammAt(v[n], c[n + 1]) /\ w[n + 1] = DammAt(w[n], e[n + 1])
    BY <2>1 DEF Interims
  <2> QED BY <1>2, <2>1, <2>2
<1>3. \A n \in Nat : n \in G
  <2> HIDE DEF G
  <2> QED BY <1>1, <1>2, CountingUp
<1> QED BY <1>3

\* Where the interim digits part, they never meet again over the same digits.
LEMMA PartedForGood ==
  ASSUME NEW c \in Seq(Digits), NEW e \in Seq(Digits), NEW v, Interims(c, v), NEW w, Interims(e, w),
         Len(c) = Len(e), NEW k \in 0..Len(c), v[k] # w[k], \A j \in (k + 1)..Len(c) : c[j] = e[j]
  PROVE  v[Len(c)] # w[Len(c)]
<1> DEFINE G == {n \in Nat : k + n <= Len(c) => v[k + n] # w[k + n]}
<1>0. Len(c) \in Nat /\ k \in Nat
  OBVIOUS
<1>1. 0 \in G
  BY <1>0
<1>2. ASSUME NEW n \in Nat, n \in G PROVE n + 1 \in G
  <2> SUFFICES ASSUME k + (n + 1) <= Len(c) PROVE v[k + (n + 1)] # w[k + (n + 1)]
    OBVIOUS
  <2> DEFINE m == k + n
  <2>1. /\ k + (n + 1) = m + 1 /\ m \in 0..Len(c) /\ m + 1 \in 1..Len(c)
        /\ m + 1 \in (k + 1)..Len(c) /\ (m + 1) - 1 = m /\ v[m] # w[m]
    BY <1>0, <1>2
  <2> HIDE DEF m
  <2>2. v[m + 1] = DammAt(v[m], c[m + 1]) /\ w[m + 1] = DammAt(w[m], c[m + 1])
    BY <2>1 DEF Interims
  <2>3. v[m] \in Digits /\ w[m] \in Digits /\ c[m + 1] \in Digits
    BY <2>1, InterimsAreDigits
  <2>4. DammAt(v[m], c[m + 1]) # DammAt(w[m], c[m + 1])
    BY ONLY <2>1, <2>3, DammTable, Zenon
  <2> QED BY <2>1, <2>2, <2>4
<1>3. \A n \in Nat : n \in G
  <2> HIDE DEF G
  <2> QED BY <1>1, <1>2, CountingUp
<1>4. Len(c) - k \in Nat /\ k + (Len(c) - k) = Len(c)
  BY <1>0
<1> QED BY <1>0, <1>3, <1>4

\* Whoever types a digit wrong has no valid code.
LEMMA WrongDigit ==
  ASSUME NEW code \in Seq(Digits), DammInterim(code) = 0, NEW k \in 1..Len(code), NEW d \in Digits,
         d # code[k]
  PROVE  DammInterim([code EXCEPT ![k] = d]) # 0
<1> DEFINE e == [code EXCEPT ![k] = d]
<1>1. e \in Seq(Digits) /\ Len(e) = Len(code) /\ e[k] = d /\ \A j \in 1..Len(code) : j # k => e[j] = code[j]
  BY ElementOfSeq
<1> HIDE DEF e
<1>2. PICK v : Interims(code, v) /\ DammInterim(code) = v[Len(code)]
  BY InterimsAre
<1>3. PICK w : Interims(e, w) /\ DammInterim(e) = w[Len(e)]
  BY <1>1, InterimsAre
<1>4. Len(code) \in Nat /\ k \in Nat /\ k - 1 \in 0..Len(code) /\ k \in 0..Len(code) /\ code[k] \in Digits
  BY ElementOfSeq
<1>5. v[k - 1] = w[k - 1]
  <2>1. \A j \in 1..(k - 1) : code[j] = e[j]
    BY <1>1, <1>4
  <2> QED BY <1>1, <1>2, <1>3, <1>4, <2>1, SameSoFar
<1>6. v[k] # w[k]
  <2>1. v[k] = DammAt(v[k - 1], code[k]) /\ w[k] = DammAt(w[k - 1], d)
    BY <1>1, <1>2, <1>3 DEF Interims
  <2>2. v[k - 1] \in Digits
    BY <1>2, <1>4, InterimsAreDigits
  <2>3. DammAt(v[k - 1], code[k]) # DammAt(v[k - 1], d)
    BY ONLY <1>4, <2>2, DammTable, d \in Digits, d # code[k], Zenon
  <2> QED BY <1>5, <2>1, <2>3
<1>7. \A j \in (k + 1)..Len(code) : code[j] = e[j]
  BY <1>1, <1>4
<1>8. v[Len(code)] # w[Len(code)]
  BY <1>1, <1>2, <1>3, <1>4, <1>6, <1>7, PartedForGood
<1> QED BY <1>1, <1>2, <1>3, <1>8 DEF e

\* Whoever swaps two different neighbours has no valid code.
LEMMA SwappedDigits ==
  ASSUME NEW code \in Seq(Digits), DammInterim(code) = 0, NEW k \in 1..(Len(code) - 1),
         code[k] # code[k + 1]
  PROVE  DammInterim([code EXCEPT ![k] = code[k + 1], ![k + 1] = code[k]]) # 0
<1> DEFINE e == [code EXCEPT ![k] = code[k + 1], ![k + 1] = code[k]]
<1>0. /\ Len(code) \in Nat /\ k \in Nat /\ k - 1 \in 0..Len(code) /\ k \in 0..Len(code) /\ k + 1 \in 0..Len(code)
      /\ k \in 1..Len(code) /\ k + 1 \in 1..Len(code) /\ (k + 1) - 1 = k /\ k # k + 1
  OBVIOUS
<1>1. code[k] \in Digits /\ code[k + 1] \in Digits
  BY <1>0, ElementOfSeq
<1>2. /\ e \in Seq(Digits) /\ Len(e) = Len(code) /\ e[k] = code[k + 1] /\ e[k + 1] = code[k]
      /\ \A j \in 1..Len(code) : j \notin {k, k + 1} => e[j] = code[j]
  BY <1>0, <1>1, ElementOfSeq
<1> HIDE DEF e
<1>3. PICK v : Interims(code, v) /\ DammInterim(code) = v[Len(code)]
  BY InterimsAre
<1>4. PICK w : Interims(e, w) /\ DammInterim(e) = w[Len(e)]
  BY <1>2, InterimsAre
<1>5. v[k - 1] = w[k - 1]
  <2>1. \A j \in 1..(k - 1) : code[j] = e[j]
    BY <1>0, <1>2
  <2> QED BY <1>0, <1>2, <1>3, <1>4, <2>1, SameSoFar
<1>6. v[k + 1] # w[k + 1]
  <2>1. /\ v[k] = DammAt(v[k - 1], code[k]) /\ w[k] = DammAt(w[k - 1], code[k + 1])
        /\ v[k + 1] = DammAt(v[k], code[k + 1]) /\ w[k + 1] = DammAt(w[k], code[k])
    BY <1>0, <1>2, <1>3, <1>4 DEF Interims
  <2>2. v[k - 1] \in Digits
    BY <1>0, <1>3, InterimsAreDigits
  <2>3. DammAt(DammAt(v[k - 1], code[k]), code[k + 1]) # DammAt(DammAt(v[k - 1], code[k + 1]), code[k])
    BY ONLY <1>1, <2>2, DammTable, code[k] # code[k + 1], Zenon
  <2> QED BY <1>5, <2>1, <2>3
<1>7. \A j \in ((k + 1) + 1)..Len(code) : code[j] = e[j]
  BY <1>0, <1>2
<1>8. v[Len(code)] # w[Len(code)]
  BY <1>0, <1>2, <1>3, <1>4, <1>6, <1>7, PartedForGood
<1> QED BY <1>2, <1>3, <1>4, <1>8 DEF e

\* What a payer types for a code is the code itself or none.
LEMMA TypedIsTheCode ==
  ASSUME NEW code \in Seq(Digits), IsValidShortRef(code), NEW t \in Typed(code), IsValidShortRef(t)
  PROVE  t = code
<1>1. DammInterim(code) = 0 /\ DammInterim(t) = 0 /\ DOMAIN code = 1..Len(code) /\ Len(code) \in Nat
  BY DEF IsValidShortRef
<1>2. CASE t \in {[code EXCEPT ![k] = d] : k \in DOMAIN code, d \in 0..9}
  <2>1. PICK k \in 1..Len(code), d \in Digits : t = [code EXCEPT ![k] = d]
    BY <1>1, <1>2 DEF Digits
  <2>2. d = code[k]
    BY <1>1, <2>1, WrongDigit
  <2> QED BY <2>1, <2>2
<1>3. CASE t \in {[code EXCEPT ![k] = code[k + 1], ![k + 1] = code[k]] : k \in 1..(Len(code) - 1)}
  <2>1. PICK k \in 1..(Len(code) - 1) : t = [code EXCEPT ![k] = code[k + 1], ![k + 1] = code[k]]
    BY <1>3
  <2>2. code[k] = code[k + 1]
    BY <1>1, <2>1, SwappedDigits
  <2> QED BY <1>1, <2>1, <2>2
<1> QED BY <1>2, <1>3 DEF Typed

\* A slip of the payer never sends the money to another intent: whatever code he was
\* given, of any length, one wrong digit or two neighbours swapped are read as that code
\* or as none, alone or beside the code itself (shortRef.ts dammInterim,
\* shortRefFromOrder).  It is what IntentApi assumes of ReadAs.
THEOREM SlipsAreCaught ==
  ASSUME NEW code \in Seq(0..9), IsValidShortRef(code)
  PROVE  Reads(code) \subseteq {code, NoCode}
<1>1. ASSUME NEW memo \in Typed(code), NEW reference \in {NoCode, code}
      PROVE  ShortRefFromOrder(memo, reference) \in {code, NoCode}
  <2> DEFINE codes == {c \in {memo, reference} \ {NoCode} : IsValidShortRef(c)}
  <2>1. codes \subseteq {code}
    BY TypedIsTheCode DEF Digits
  <2>2. Cardinality(codes) = 1 => codes = {code}
    <3>1. codes # {} => codes = {code}
      BY <2>1
    <3>2. Cardinality({}) = 0
      BY FS_EmptySet
    <3>3. codes = {} => Cardinality(codes) # 1
      <4> SUFFICES ASSUME codes = {} PROVE Cardinality(codes) # 1
        OBVIOUS
      <4>1. Cardinality(codes) = 0
        BY <3>2, Zenon
      <4> QED BY <4>1
    <3> HIDE DEF codes
    <3> QED BY <3>1, <3>3
  <2>3. ShortRefFromOrder(memo, reference) = IF Cardinality(codes) = 1 THEN CHOOSE c \in codes : TRUE ELSE NoCode
    BY DEF ShortRefFromOrder
  <2> HIDE DEF codes
  <2> QED BY <2>2, <2>3
<1> QED BY <1>1 DEF Reads

\* Every code that is made is one the rail reads as a code (shortRef.ts
\* shortRefFromBody, isValidShortRef).
THEOREM MadeCodesAreValid ==
  ASSUME NEW body \in Seq(0..9), Len(body) \in 3..6
  PROVE  IsValidShortRef(ShortRefFromBody(body)) /\ ShortRefFromBody(body) \in Seq(0..9)
<1> DEFINE x == DammInterim(body)
           code == Append(body, x)
           N == Len(body)
<1>1. PICK v : Interims(body, v) /\ x = v[N]
  BY InterimsAre DEF Digits
<1>2. N \in Nat /\ x \in Digits
  BY <1>1, InterimsAreDigits DEF Digits
<1> HIDE DEF x
<1>3. /\ code \in Seq(Digits) /\ Len(code) = N + 1 /\ code[N + 1] = x
      /\ \A j \in 1..N : code[j] = body[j]
  BY <1>2 DEF Digits
<1> HIDE DEF code
<1>4. PICK w : Interims(code, w) /\ DammInterim(code) = w[N + 1]
  BY <1>3, InterimsAre
<1>5. w[N] = x
  <2> DEFINE u == [n \in 0..N |-> w[n]]
  <2>1. Interims(body, u)
    BY <1>2, <1>3, <1>4 DEF Interims
  <2>2. v[N] = u[N]
    <3> HIDE DEF u
    <3> QED BY <1>1, <1>2, <2>1, SameSoFar DEF Digits
  <2> QED BY <1>1, <1>2, <2>2
<1>6. w[N + 1] = DammAt(x, x)
  BY <1>2, <1>3, <1>4, <1>5 DEF Interims
<1>7. DammInterim(code) = 0
  BY <1>2, <1>4, <1>6, DammTable
<1>8. Len(code) \in 4..7
  <2>1. N \in 3..6
    OBVIOUS
  <2> HIDE DEF N
  <2> QED BY ONLY <1>3, <2>1
<1>9. code = ShortRefFromBody(body)
  BY DEF code, x, ShortRefFromBody
<1> QED BY <1>3, <1>7, <1>8, <1>9 DEF IsValidShortRef, Digits
=============================================================================
