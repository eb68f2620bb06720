----------------------------- MODULE EventsProofs -----------------------------
(***************************************************************************)
(* Theorems about what the rail is told and tells: the ingest of Monerium  *)
(* orders and the outbox of merchant webhooks, for any number of orders,   *)
(* events, isolates, repeats, retries, resends and evictions.              *)
(***************************************************************************)
EXTENDS MCEvents, Integers, TLAPS

-----------------------------------------------------------------------------
(* What was read of an order *)

\* A snapshot s of an order may be old, but it was true: it ranks below the
\* state u at Monerium now, and what has ended has ended for good.
Past(s, u) ==
  /\ I!OrderStateRank(s) <= I!OrderStateRank(u)
  /\ I!OrderStateRank(s) = 3 => s = u

\* What the snapshots that travel and are stored say of Monerium's state: all
\* of them are past, and whatever forwards an order holds one that is minted.
Snapshots ==
  /\ \A event \in i_sending : Past(event[2], i_upstream[event[1]])
  /\ \A o \in Orders : Past(i_stored[o], i_upstream[o])
  /\ \A w \in Isolates : i_tasks[w] # I!Idle =>
       /\ Past(i_tasks[w].state, i_upstream[i_tasks[w].order])
       /\ "forward" \in i_tasks[w].jobs => i_tasks[w].state = "processed"

\* What TypeOK says of the states and of the tasks.
IngestTyped ==
  /\ i_upstream \in [Orders -> I!OrderStates] /\ i_stored \in [Orders -> I!OrderStates]
  /\ i_sending \subseteq Orders \X I!OrderStates
  /\ i_forwards \subseteq Orders
  /\ i_tasks \in [Isolates -> I!Task \cup {I!Idle}]

IngestInv == IngestTyped /\ Snapshots /\ ForwardsAreMinted

-----------------------------------------------------------------------------
(* The ranks *)

\* The ranks are those of the code, and tell apart all but the two ends.
LEMMA Ranks ==
  /\ I!OrderStateRank("none") = 0 /\ I!OrderStateRank("placed") = 1
  /\ I!OrderStateRank("pending") = 2
  /\ I!OrderStateRank("processed") = 3 /\ I!OrderStateRank("rejected") = 3
  /\ \A s \in I!OrderStates : I!OrderStateRank(s) \in 0..3
BY DEF I!OrderStateRank, I!OrderStates

\* Every state is past itself; a minted snapshot is one of a minted order.
LEMMA PastFacts ==
  ASSUME NEW s \in I!OrderStates, NEW u \in I!OrderStates
  PROVE  /\ Past(s, s)
         /\ Past("none", u)
         /\ Past("processed", u) => u = "processed"
BY Ranks DEF Past, I!OrderStates

\* Monerium only goes forward, so what was past stays past.
LEMMA PastKept ==
  ASSUME IngestTyped, NEW o \in Orders, NEW state \in I!OrderStates, I!Advance(o, state),
         NEW s \in I!OrderStates, NEW p \in Orders, Past(s, i_upstream[p])
  PROVE  Past(s, i_upstream'[p])
<1>1. CASE p # o
  BY <1>1 DEF IngestTyped, I!Advance
<1>2. CASE p = o
  <2>1. i_upstream'[p] = state
    BY <1>2 DEF IngestTyped, I!Advance
  <2>2. I!OrderStateRank(i_upstream[p]) < I!OrderStateRank(state)
    BY <1>2, Ranks DEF I!Advance, I!OrderStates
  <2>3. I!OrderStateRank(s) \in 0..3 /\ I!OrderStateRank(state) \in 0..3 /\ I!OrderStateRank(i_upstream[p]) \in 0..3
    BY Ranks DEF IngestTyped
  <2> QED BY <2>1, <2>2, <2>3 DEF Past
<1> QED BY <1>1, <1>2

-----------------------------------------------------------------------------
(* The steps *)

\* Monerium advances an order.
LEMMA AdvanceStep ==
  ASSUME IngestInv, NEW o \in Orders, NEW state \in I!OrderStates, I!Advance(o, state)
  PROVE  IngestInv'
<1>0. /\ IngestTyped /\ UNCHANGED <<i_claims, i_stored, i_forwards, i_told, i_alerted, i_tasks>>
      /\ i_upstream' = [i_upstream EXCEPT ![o] = state] /\ i_sending' = i_sending \cup {<<o, state>>}
  BY DEF IngestInv, I!Advance
<1>1. IngestTyped'
  BY <1>0 DEF IngestTyped
<1>2. \A event \in i_sending' : Past(event[2], i_upstream'[event[1]])
  <2>1. ASSUME NEW event \in i_sending PROVE Past(event[2], i_upstream'[event[1]])
    BY <1>0, PastKept DEF IngestInv, Snapshots, IngestTyped
  <2>2. Past(state, i_upstream'[o])
    BY <1>0, PastFacts DEF IngestTyped
  <2> QED BY <1>0, <2>1, <2>2
<1>3. \A p \in Orders : Past(i_stored'[p], i_upstream'[p])
  BY <1>0, PastKept DEF IngestInv, Snapshots, IngestTyped
<1>4. ASSUME NEW w \in Isolates, i_tasks'[w] # I!Idle
      PROVE  /\ Past(i_tasks'[w].state, i_upstream'[i_tasks'[w].order])
             /\ "forward" \in i_tasks'[w].jobs => i_tasks'[w].state = "processed"
  <2>1. i_tasks[w] \in I!Task /\ i_tasks'[w] = i_tasks[w] /\ Past(i_tasks[w].state, i_upstream[i_tasks[w].order])
    BY <1>0, <1>4 DEF IngestInv, Snapshots, IngestTyped
  <2>2. i_tasks[w].state \in I!OrderStates /\ i_tasks[w].order \in Orders
    BY <2>1 DEF I!Task
  <2>3. Past(i_tasks[w].state, i_upstream'[i_tasks[w].order])
    BY <1>0, <2>1, <2>2, PastKept
  <2> QED BY <1>4, <2>1, <2>3 DEF IngestInv, Snapshots
<1>5. ForwardsAreMinted'
  BY <1>0 DEF IngestInv, ForwardsAreMinted, I!ForwardsAreMinted, IngestTyped, I!Advance
<1> QED BY <1>1, <1>2, <1>3, <1>4, <1>5 DEF IngestInv, Snapshots

\* A worker takes up a snapshot that Monerium has sent, or that it reads there.
LEMMA BeginStep ==
  ASSUME IngestInv, NEW w \in Isolates,
         \/ \E event \in Orders \X I!OrderStates : I!Deliver(w, event)
         \/ \E o \in Orders : I!ListOrders(w, o)
  PROVE  IngestInv'
<1>1. PICK o \in Orders, state \in I!OrderStates, pc \in I!PCs :
        /\ I!Begin(w, pc, o, state) /\ Past(state, i_upstream[o])
        /\ UNCHANGED <<i_upstream, i_sending, i_claims, i_stored, i_forwards>>
  <2>1. ASSUME NEW event \in Orders \X I!OrderStates, I!Deliver(w, event)
        PROVE  /\ event[1] \in Orders /\ event[2] \in I!OrderStates
               /\ I!Begin(w, "claim", event[1], event[2]) /\ Past(event[2], i_upstream[event[1]])
               /\ UNCHANGED <<i_upstream, i_sending, i_claims, i_stored, i_forwards>>
    BY <2>1 DEF I!Deliver, IngestInv, Snapshots
  <2>2. ASSUME NEW o \in Orders, I!ListOrders(w, o)
        PROVE  /\ i_upstream[o] \in I!OrderStates
               /\ I!Begin(w, "compare", o, i_upstream[o]) /\ Past(i_upstream[o], i_upstream[o])
               /\ UNCHANGED <<i_upstream, i_sending, i_claims, i_stored, i_forwards>>
    BY <2>2, PastFacts DEF I!ListOrders, IngestInv, IngestTyped
  <2>3. {"claim", "compare"} \subseteq I!PCs
    BY DEF I!PCs
  <2> QED BY <2>1, <2>2, <2>3
<1> DEFINE t == [pc |-> pc, order |-> o, state |-> state, jobs |-> {}]
<1>2. t \in I!Task /\ i_tasks' = [i_tasks EXCEPT ![w] = t]
  BY <1>1 DEF I!Begin, I!Task
<1>3. t.state = state /\ t.order = o /\ t.jobs = {}
  OBVIOUS
<1> HIDE DEF t
<1> QED BY <1>1, <1>2, <1>3 DEF IngestInv, IngestTyped, Snapshots, ForwardsAreMinted, I!ForwardsAreMinted

\* A worker that goes on with the snapshot it holds, or ends, keeps the
\* others and Monerium as they are.
LEMMA GoOnFacts ==
  ASSUME IngestInv, NEW w \in Isolates, i_tasks[w] # I!Idle,
         \/ I!Rest(w)
         \/ \E pc \in I!PCs : I!Goto(w, pc)
         \/ \E pc \in I!PCs, jobs \in SUBSET I!Jobs :
              /\ "forward" \in jobs => i_tasks[w].state = "processed"
              /\ i_tasks' = [i_tasks EXCEPT ![w].pc = pc, ![w].jobs = jobs],
         UNCHANGED i_upstream
  PROVE  /\ i_tasks' \in [Isolates -> I!Task \cup {I!Idle}]
         /\ \A v \in Isolates : i_tasks'[v] # I!Idle =>
              /\ Past(i_tasks'[v].state, i_upstream'[i_tasks'[v].order])
              /\ "forward" \in i_tasks'[v].jobs => i_tasks'[v].state = "processed"
<1>0. i_tasks \in [Isolates -> I!Task \cup {I!Idle}] /\ i_tasks[w] \in I!Task
  BY DEF IngestInv, IngestTyped
<1> DEFINE Same(u) ==
             /\ i_tasks' = [i_tasks EXCEPT ![w] = u]
             /\ u # I!Idle => /\ u.state = i_tasks[w].state /\ u.order = i_tasks[w].order
                              /\ "forward" \in u.jobs => i_tasks[w].state = "processed"
<1>1. \E u \in I!Task \cup {I!Idle} : Same(u)
  <2>1. CASE I!Rest(w)
    <3>1. Same(I!Idle)
      BY <2>1 DEF I!Rest
    <3> QED BY <3>1
  <2>2. ASSUME NEW pc \in I!PCs, I!Goto(w, pc) PROVE \E u \in I!Task : Same(u)
    <3> DEFINE u == [i_tasks[w] EXCEPT !.pc = pc]
    <3>1. u \in I!Task /\ u.state = i_tasks[w].state /\ u.order = i_tasks[w].order /\ u.jobs = i_tasks[w].jobs
      BY <1>0 DEF I!Task
    <3>2. i_tasks' = [i_tasks EXCEPT ![w] = u]
      BY <2>2 DEF I!Goto
    <3>3. "forward" \in u.jobs => i_tasks[w].state = "processed"
      BY <3>1 DEF IngestInv, Snapshots
    <3> QED BY <3>1, <3>2, <3>3
  <2>3. ASSUME NEW pc \in I!PCs, NEW jobs \in SUBSET I!Jobs,
               "forward" \in jobs => i_tasks[w].state = "processed",
               i_tasks' = [i_tasks EXCEPT ![w].pc = pc, ![w].jobs = jobs]
        PROVE  \E u \in I!Task : Same(u)
    <3> DEFINE u == [i_tasks[w] EXCEPT !.pc = pc, !.jobs = jobs]
    <3>1. u \in I!Task /\ u.state = i_tasks[w].state /\ u.order = i_tasks[w].order /\ u.jobs = jobs
      BY <1>0 DEF I!Task
    <3>2. i_tasks' = [i_tasks EXCEPT ![w] = u]
      BY <1>0, <2>3
    <3> QED BY <2>3, <3>1, <3>2
  <2> HIDE DEF Same
  <2> QED BY <2>1, <2>2, <2>3
<1>2. PICK u \in I!Task \cup {I!Idle} : Same(u)
  BY <1>1
<1>3. i_tasks'[w] = u /\ \A v \in Isolates : v # w => i_tasks'[v] = i_tasks[v]
  BY <1>0, <1>2
<1> QED BY <1>0, <1>2, <1>3 DEF IngestInv, Snapshots

\* The steps that go on with a snapshot.
LEMMA WorkStep ==
  ASSUME IngestInv, NEW w \in Isolates, I!Webhook(w) \/ I!Reconcile(w) \/ I!Crash(w)
  PROVE  IngestInv'
<1>0. /\ i_tasks[w] # I!Idle /\ UNCHANGED i_upstream /\ i_tasks[w] \in I!Task /\ IngestTyped
      /\ i_tasks[w].state \in I!OrderStates /\ i_tasks[w].order \in Orders
  BY DEF I!Webhook, I!Reconcile, I!AlreadyProcessed, I!UpsertOrder, I!ReleaseProcessed, I!Background,
         I!Compare, I!AdvanceStored, I!NotifyLifecycle, I!LeaveAlone, I!Crash, I!At, IngestInv, IngestTyped, I!Task
<1>1. /\ i_tasks' \in [Isolates -> I!Task \cup {I!Idle}]
      /\ \A v \in Isolates : i_tasks'[v] # I!Idle =>
           /\ Past(i_tasks'[v].state, i_upstream'[i_tasks'[v].order])
           /\ "forward" \in i_tasks'[v].jobs => i_tasks'[v].state = "processed"
  <2> DEFINE Going ==
        \/ I!Rest(w)
        \/ \E pc \in I!PCs : I!Goto(w, pc)
        \/ \E pc \in I!PCs, jobs \in SUBSET I!Jobs :
             /\ "forward" \in jobs => i_tasks[w].state = "processed"
             /\ i_tasks' = [i_tasks EXCEPT ![w].pc = pc, ![w].jobs = jobs]
  <2>1. ASSUME I!UpsertOrder(w) PROVE Going
    <3>1. I!JobsFor(i_tasks[w].state) \in SUBSET I!Jobs
          /\ ("forward" \in I!JobsFor(i_tasks[w].state) => i_tasks[w].state = "processed")
      BY DEF I!JobsFor, I!Jobs
    <3> QED BY <2>1, <3>1 DEF I!UpsertOrder, I!PCs
  <2>2. ASSUME NEW job \in I!Jobs, I!Background(w, job) PROVE Going
    <3> DEFINE jobs == i_tasks[w].jobs \ {job}
    <3>1. jobs \in SUBSET I!Jobs /\ ("forward" \in jobs => i_tasks[w].state = "processed")
      BY <1>0 DEF I!Task, IngestInv, Snapshots
    <3>2. i_tasks[w].pc = "background" /\ i_tasks[w] = [i_tasks[w] EXCEPT !.pc = "background"]
      BY <1>0, <2>2 DEF I!Background, I!At, I!Task
    <3>3. I!Rest(w) \/ i_tasks' = [i_tasks EXCEPT ![w].jobs = jobs]
      BY <2>2 DEF I!Background
    <3>4. ASSUME i_tasks' = [i_tasks EXCEPT ![w].jobs = jobs]
          PROVE  i_tasks' = [i_tasks EXCEPT ![w].pc = "background", ![w].jobs = jobs]
      BY <1>0, <3>2, <3>4 DEF IngestTyped, I!Task
    <3> QED BY <3>1, <3>3, <3>4 DEF I!PCs
  <2>3. ASSUME \/ I!AlreadyProcessed(w) \/ I!ReleaseProcessed(w)
               \/ I!Compare(w) \/ I!AdvanceStored(w) \/ I!NotifyLifecycle(w) \/ I!LeaveAlone(w) \/ I!Crash(w)
        PROVE  Going
    BY <2>3 DEF I!AlreadyProcessed, I!ReleaseProcessed, I!Compare, I!AdvanceStored, I!NotifyLifecycle,
                I!LeaveAlone, I!Crash, I!PCs
  <2>4. Going
    <3> HIDE DEF Going
    <3> QED BY <2>1, <2>2, <2>3 DEF I!Webhook, I!Reconcile
  <2> QED BY <1>0, <2>4, GoOnFacts
<1>2. i_sending' \subseteq i_sending
  BY DEF I!Webhook, I!Reconcile, I!AlreadyProcessed, I!UpsertOrder, I!ReleaseProcessed, I!Background,
         I!Compare, I!AdvanceStored, I!NotifyLifecycle, I!LeaveAlone, I!Crash, I!Answer
<1>3. i_stored' = i_stored \/ i_stored' = [i_stored EXCEPT ![i_tasks[w].order] = i_tasks[w].state]
  BY DEF I!Webhook, I!Reconcile, I!AlreadyProcessed, I!UpsertOrder, I!ReleaseProcessed, I!Background,
         I!Compare, I!AdvanceStored, I!NotifyLifecycle, I!LeaveAlone, I!Crash
<1>4. Past(i_tasks[w].state, i_upstream[i_tasks[w].order])
  BY <1>0 DEF IngestInv, Snapshots
<1>5. i_stored' \in [Orders -> I!OrderStates] /\ \A o \in Orders : Past(i_stored'[o], i_upstream'[o])
  BY <1>0, <1>3, <1>4 DEF IngestInv, IngestTyped, Snapshots
<1>6. \A o \in i_forwards' : o \in i_forwards \/ (o = i_tasks[w].order /\ i_tasks[w].state = "processed")
  <2>1. ASSUME NEW job \in I!Jobs, I!Background(w, job)
        PROVE  \A o \in i_forwards' : o \in i_forwards \/ (o = i_tasks[w].order /\ i_tasks[w].state = "processed")
    BY <1>0, <2>1 DEF I!Background, IngestInv, Snapshots
  <2> QED BY <2>1 DEF I!Webhook, I!Reconcile, I!AlreadyProcessed, I!UpsertOrder, I!ReleaseProcessed,
                      I!Compare, I!AdvanceStored, I!NotifyLifecycle, I!LeaveAlone, I!Crash
<1>7. i_forwards' \subseteq Orders /\ ForwardsAreMinted'
  <2>1. i_tasks[w].state = "processed" => i_upstream[i_tasks[w].order] = "processed"
    BY <1>0, <1>4, PastFacts DEF IngestTyped
  <2> QED BY <1>0, <1>6, <2>1 DEF IngestInv, IngestTyped, ForwardsAreMinted, I!ForwardsAreMinted
<1> QED BY <1>0, <1>1, <1>2, <1>5, <1>7 DEF IngestInv, IngestTyped, Snapshots

\* The cron finds an order past the grace period without a row.
LEMMA StuckStep ==
  ASSUME IngestInv, NEW w \in Isolates, NEW o \in Orders, I!IsStuckWithoutForward(w, o)
  PROVE  IngestInv'
<1>0. /\ i_tasks[w] # I!Idle /\ i_tasks[w].order = o /\ i_tasks[w].state = "processed" /\ I!Rest(w)
      /\ UNCHANGED <<i_upstream, i_sending, i_stored>> /\ i_forwards' \subseteq i_forwards \cup {o}
      /\ IngestTyped
  BY DEF I!IsStuckWithoutForward, I!At, IngestInv
<1>1. /\ i_tasks' \in [Isolates -> I!Task \cup {I!Idle}]
      /\ \A v \in Isolates : i_tasks'[v] # I!Idle =>
           /\ Past(i_tasks'[v].state, i_upstream'[i_tasks'[v].order])
           /\ "forward" \in i_tasks'[v].jobs => i_tasks'[v].state = "processed"
  BY <1>0, GoOnFacts
<1>2. i_upstream[o] = "processed"
  BY <1>0, PastFacts DEF IngestInv, IngestTyped, Snapshots, I!OrderStates
<1> QED BY <1>0, <1>1, <1>2 DEF IngestInv, IngestTyped, Snapshots, ForwardsAreMinted, I!ForwardsAreMinted

\* Every step keeps the invariant.
LEMMA IngestInvStep == IngestInv /\ [Next]_all => IngestInv'
<1> SUFFICES ASSUME IngestInv, [Next]_all PROVE IngestInv'
  OBVIOUS
<1>1. ASSUME NEW event \in Orders \X I!OrderStates, I!GiveUp(event) PROVE IngestInv'
  BY <1>1 DEF I!GiveUp, IngestInv, IngestTyped, Snapshots, ForwardsAreMinted, I!ForwardsAreMinted
<1>2. CASE UNCHANGED i_all
  BY <1>2 DEF i_all, IngestInv, IngestTyped, Snapshots, ForwardsAreMinted, I!ForwardsAreMinted
<1>3. CASE IngestStep
  BY <1>1, <1>3, AdvanceStep, BeginStep, WorkStep, StuckStep DEF IngestStep, I!Next
<1>4. IngestStep \/ UNCHANGED i_all
  BY DEF Next, all, OutboxStep, StreamStep, StampsStep, WatchStep
<1> QED BY <1>2, <1>3, <1>4

\* Before anything is ordered it holds.
LEMMA IngestInvInit == Init => IngestInv
BY PastFacts DEF Init, I!Init, IngestInv, IngestTyped, Snapshots, ForwardsAreMinted, I!ForwardsAreMinted, I!OrderStates, I!Idle

\* The snapshots are past for ever.
THEOREM SnapshotsArePast == IngestSpec => []IngestInv
BY IngestInvInit, IngestInvStep, PTL DEF IngestSpec

\* The forward path only runs for an order whose EURe is minted, whichever of
\* webhook and cron comes first and however old what it read is.
THEOREM OnlyMintedIsForwarded == IngestSpec => []ForwardsAreMinted
<1>1. IngestInv => ForwardsAreMinted
  BY DEF IngestInv
<1> QED BY <1>1, SnapshotsArePast, PTL

\* What is stored of an order never goes back, and never from one end to the
\* other, whichever of a late delivery and the cron writes last.
THEOREM StoredFollowsMonerium == IngestSpec => I!StoredGoesForward
<1>1. ASSUME IngestInv, [Next]_all, NEW o \in Orders
      PROVE  /\ I!OrderStateRank(i_stored'[o]) >= I!OrderStateRank(i_stored[o])
             /\ I!OrderStateRank(i_stored[o]) = 3 => i_stored'[o] = i_stored[o]
  <2>0. i_stored \in [Orders -> I!OrderStates] /\ I!OrderStateRank(i_stored[o]) \in 0..3
        /\ I!OrderStateRank(i_upstream[o]) \in 0..3
    BY <1>1, Ranks DEF IngestInv, IngestTyped
  <2>1. CASE i_stored' = i_stored
    BY <2>0, <2>1
  <2>2. ASSUME NEW w \in Isolates, I!UpsertOrder(w) \/ I!AdvanceStored(w), i_stored' # i_stored
        PROVE  /\ I!OrderStateRank(i_stored'[o]) >= I!OrderStateRank(i_stored[o])
               /\ I!OrderStateRank(i_stored[o]) = 3 => i_stored'[o] = i_stored[o]
    <3>1. /\ i_tasks[w] \in I!Task /\ i_tasks[w] # I!Idle
          /\ I!Applies(i_tasks[w].order, i_tasks[w].state)
          /\ i_stored' = [i_stored EXCEPT ![i_tasks[w].order] = i_tasks[w].state]
      BY <1>1, <2>2 DEF I!UpsertOrder, I!AdvanceStored, I!At, IngestInv, IngestTyped
    <3>2. i_tasks[w].order \in Orders /\ I!OrderStateRank(i_tasks[w].state) \in 0..3
      BY <3>1, Ranks DEF I!Task
    <3>3. CASE i_tasks[w].order # o
      BY <2>0, <3>1, <3>3
    <3>4. CASE i_tasks[w].order = o
      <4>1. /\ i_stored'[o] = i_tasks[w].state
            /\ I!OrderStateRank(i_tasks[w].state) >= I!OrderStateRank(i_stored[o])
        BY <2>0, <3>1, <3>2, <3>4 DEF I!Applies
      <4>2. Past(i_tasks[w].state, i_upstream[o]) /\ Past(i_stored[o], i_upstream[o])
        BY <1>1, <3>1, <3>4 DEF IngestInv, Snapshots
      <4> QED BY <2>0, <3>2, <4>1, <4>2 DEF Past
    <3> QED BY <3>3, <3>4
  <2>3. i_stored' = i_stored \/ \E w \in Isolates : I!UpsertOrder(w) \/ I!AdvanceStored(w)
    <3>1. CASE IngestStep
      BY <3>1 DEF IngestStep, I!Next, I!Advance, I!GiveUp, I!Deliver, I!Webhook, I!Reconcile, I!Crash,
                  I!ListOrders, I!IsStuckWithoutForward, I!AlreadyProcessed, I!ReleaseProcessed,
                  I!Background, I!Compare, I!NotifyLifecycle, I!LeaveAlone
    <3>2. IngestStep \/ UNCHANGED i_all
      BY <1>1 DEF Next, all, OutboxStep, StreamStep, StampsStep, WatchStep
    <3> QED BY <3>1, <3>2 DEF i_all
  <2> QED BY <2>1, <2>2, <2>3
<1>2. IngestInv /\ [Next]_all =>
        [\A o \in Orders : /\ I!OrderStateRank(i_stored'[o]) >= I!OrderStateRank(i_stored[o])
                           /\ I!OrderStateRank(i_stored[o]) = 3 => i_stored'[o] = i_stored[o]]_(I!vars)
  BY <1>1
<1> QED BY <1>2, SnapshotsArePast, PTL DEF IngestSpec, I!StoredGoesForward

-----------------------------------------------------------------------------
(* The rows of the outbox *)

\* What TypeOK says of what an attempt reads and writes.
OutboxTyped ==
  /\ o_rows \in [Events -> O!Row]
  /\ o_tasks \in [Attempts -> O!Task \cup {O!Idle}]
  /\ o_accepted \subseteq Events
  /\ o_spent \in [Events -> O!Counts]

\* A count never runs ahead of the attempts that failed: neither that of a row
\* that may still be tried, nor the one that an attempt under way has read.
\* Short of the last attempt a row is not pending, and nothing is read of it.
RowEarned(r, e, accepted, spent) ==
  /\ r.status = "delivered" => e \in accepted
  /\ r.status = "failed" => spent[e] = MaxAttempts
  /\ r.status # "delivered" => r.attempts <= spent[e]
  /\ r.status \in {"none", "pending"} => r.attempts < MaxAttempts

TaskEarned(t, spent) == t # O!Idle => t.attempts <= spent[t.id] /\ t.attempts < MaxAttempts

OutboxInv ==
  /\ OutboxTyped
  /\ \A e \in Events : RowEarned(o_rows[e], e, o_accepted, o_spent)
  /\ \A w \in Attempts : TaskEarned(o_tasks[w], o_spent)

\* What the assumption says of the number of attempts.
LEMMA MaxIsPositive == MaxAttempts \in Nat \ {0}
BY EventsAssumption DEF O!OutboxAssumption

\* A new attempt that has read no more than the count of its row is earned.
LEMMA AttemptEarned ==
  ASSUME OutboxInv, NEW w \in Attempts, NEW t \in O!Task, TaskEarned(t, o_spent),
         o_tasks' = [o_tasks EXCEPT ![w] = t], UNCHANGED <<o_accepted, o_spent>>
  PROVE  /\ o_tasks' \in [Attempts -> O!Task \cup {O!Idle}]
         /\ \A v \in Attempts : TaskEarned(o_tasks'[v], o_spent')
BY DEF OutboxInv, OutboxTyped, TaskEarned

\* Rows that are enqueued, resent or read for a retry.
LEMMA StartStep ==
  ASSUME OutboxInv, NEW w \in Attempts, NEW e \in Events,
         O!EnqueueAndDeliver(w, e) \/ O!DeliverDue(w, e) \/ O!ResendWebhook(w, e)
  PROVE  OutboxInv'
<1>0. /\ o_rows[e] \in O!Row /\ o_spent[e] \in 0..MaxAttempts /\ MaxAttempts \in Nat \ {0}
      /\ UNCHANGED <<o_accepted, o_spent>>
  BY MaxIsPositive DEF OutboxInv, OutboxTyped, O!Counts, O!EnqueueAndDeliver, O!DeliverDue, O!ResendWebhook
<1>1. ASSUME NEW r \in O!Row, o_rows' = [o_rows EXCEPT ![e] = r], RowEarned(r, e, o_accepted, o_spent)
      PROVE  o_rows' \in [Events -> O!Row] /\ \A d \in Events : RowEarned(o_rows'[d], d, o_accepted', o_spent')
  BY <1>0, <1>1 DEF OutboxInv, OutboxTyped, RowEarned
<1>2. ASSUME NEW t \in O!Task, t.id = e, t.attempts <= o_spent[e], t.attempts < MaxAttempts,
             o_tasks' = [o_tasks EXCEPT ![w] = t]
      PROVE  /\ o_tasks' \in [Attempts -> O!Task \cup {O!Idle}]
             /\ \A v \in Attempts : TaskEarned(o_tasks'[v], o_spent')
  BY <1>0, <1>2, AttemptEarned DEF TaskEarned
<1>3. CASE O!EnqueueAndDeliver(w, e)
  <2> DEFINE r == [o_rows[e] EXCEPT !.status = "pending"]
             t == [id |-> e, attempts |-> 0, first |-> TRUE]
  <2>1. /\ o_tasks' = [o_tasks EXCEPT ![w] = t]
        /\ o_rows' = [o_rows EXCEPT ![e] = r] /\ o_rows[e].status = "none"
    BY <1>3 DEF O!EnqueueAndDeliver, O!Attempt
  <2>2. r \in O!Row /\ r.status = "pending" /\ r.attempts = o_rows[e].attempts
    BY <1>0 DEF O!Row, O!Statuses
  <2>3. RowEarned(r, e, o_accepted, o_spent)
    BY <2>1, <2>2 DEF OutboxInv, RowEarned
  <2>4. t \in O!Task /\ t.id = e /\ t.attempts <= o_spent[e] /\ t.attempts < MaxAttempts
    BY <1>0 DEF O!Task, O!Counts
  <2> HIDE DEF r, t
  <2>5. o_rows' \in [Events -> O!Row] /\ \A d \in Events : RowEarned(o_rows'[d], d, o_accepted', o_spent')
    BY <1>1, <2>1, <2>2, <2>3
  <2>6. o_tasks' \in [Attempts -> O!Task \cup {O!Idle}] /\ \A v \in Attempts : TaskEarned(o_tasks'[v], o_spent')
    BY <1>2, <2>1, <2>4
  <2> QED BY <1>0, <2>5, <2>6 DEF OutboxInv, OutboxTyped
<1>4. CASE O!ResendWebhook(w, e)
  <2> DEFINE r == [status |-> "pending", attempts |-> 0]
             t == [id |-> e, attempts |-> 0, first |-> FALSE]
  <2>1. o_tasks' = [o_tasks EXCEPT ![w] = t] /\ o_rows' = [o_rows EXCEPT ![e] = r]
    BY <1>4 DEF O!ResendWebhook, O!Attempt
  <2>2. r \in O!Row /\ RowEarned(r, e, o_accepted, o_spent)
    BY <1>0 DEF O!Row, O!Statuses, O!Counts, RowEarned
  <2>3. t \in O!Task /\ t.id = e /\ t.attempts <= o_spent[e] /\ t.attempts < MaxAttempts
    BY <1>0 DEF O!Task, O!Counts
  <2> HIDE DEF r, t
  <2>4. o_rows' \in [Events -> O!Row] /\ \A d \in Events : RowEarned(o_rows'[d], d, o_accepted', o_spent')
    BY <1>1, <2>1, <2>2
  <2>5. o_tasks' \in [Attempts -> O!Task \cup {O!Idle}] /\ \A v \in Attempts : TaskEarned(o_tasks'[v], o_spent')
    BY <1>2, <2>1, <2>3
  <2> QED BY <1>0, <2>4, <2>5 DEF OutboxInv, OutboxTyped
<1>5. CASE O!DeliverDue(w, e)
  <2> DEFINE t == [id |-> e, attempts |-> o_rows[e].attempts, first |-> FALSE]
  <2>1. o_rows[e].status = "pending" /\ o_tasks' = [o_tasks EXCEPT ![w] = t] /\ UNCHANGED o_rows
    BY <1>5 DEF O!DeliverDue, O!ListDue, O!FirstDue, O!Attempt
  <2>2. t.id = e /\ t.attempts = o_rows[e].attempts /\ t \in O!Task
    BY <1>0 DEF O!Task, O!Row
  <2> HIDE DEF t
  <2>3. t.attempts <= o_spent[e] /\ t.attempts < MaxAttempts
    BY <2>1, <2>2 DEF OutboxInv, RowEarned
  <2>4. o_tasks' \in [Attempts -> O!Task \cup {O!Idle}] /\ \A v \in Attempts : TaskEarned(o_tasks'[v], o_spent')
    BY <1>2, <2>1, <2>2, <2>3
  <2> QED BY <1>0, <2>1, <2>4 DEF OutboxInv, OutboxTyped, RowEarned
<1> QED BY <1>3, <1>4, <1>5

\* An attempt that is evicted leaves nothing behind.
LEMMA CrashStep ==
  ASSUME OutboxInv, NEW w \in Attempts, O!Crash(w)
  PROVE  OutboxInv'
BY DEF OutboxInv, OutboxTyped, RowEarned, TaskEarned, O!Crash

\* An attempt ends: whatever became of the row since it was read, its mark
\* says no more than what the receiver and the attempts so far bear out.
LEMMA DeliveryStep ==
  ASSUME OutboxInv, NEW w \in Attempts, O!AttemptDelivery(w)
  PROVE  OutboxInv'
<1>a. PICK e \in Events, n \in Nat : e = o_tasks[w].id /\ n = o_tasks[w].attempts + 1
  BY MaxIsPositive DEF OutboxInv, OutboxTyped, O!AttemptDelivery, O!Task, O!Counts
<1>0. /\ n \in 1..MaxAttempts /\ n <= o_spent[e] + 1
      /\ MaxAttempts \in Nat \ {0} /\ o_rows[e] \in O!Row /\ o_spent[e] \in 0..MaxAttempts
  BY <1>a, MaxIsPositive DEF OutboxInv, OutboxTyped, TaskEarned, O!AttemptDelivery, O!Task, O!Counts
<1>1. PICK answer \in O!Answers :
        LET class == O!ClassifyResponse(answer) IN
        /\ o_accepted' = IF answer \in {"ok", "lost"} THEN o_accepted \cup {e} ELSE o_accepted
        /\ o_spent' = [o_spent EXCEPT ![e] =
                         IF answer = "ok" THEN @
                         ELSE IF answer = "refused" \/ @ = MaxAttempts THEN MaxAttempts
                         ELSE @ + 1]
        /\ \/ class = "delivered" /\ O!MarkDelivered(w, e, n)
           \/ class = "retry" /\ ~ O!Exhausted(n) /\ O!MarkRetry(w, e, n)
           \/ class = "retry" /\ O!Exhausted(n) /\ O!MarkFailed(w, e, n)
           \/ class = "permanent" /\ O!MarkFailed(w, e, n)
  BY <1>a DEF O!AttemptDelivery
<1>2. /\ o_accepted' \subseteq Events /\ o_accepted \subseteq o_accepted'
      /\ o_spent' \in [Events -> O!Counts]
      /\ \A d \in Events : o_spent[d] <= o_spent'[d]
      /\ \A d \in Events : o_spent[d] = MaxAttempts => o_spent'[d] = MaxAttempts
  BY <1>0, <1>1 DEF OutboxInv, OutboxTyped, O!Counts
<1>3. /\ answer = "ok" => e \in o_accepted'
      /\ answer = "refused" => o_spent'[e] = MaxAttempts
      /\ answer # "ok" => n <= o_spent'[e]
      /\ answer # "ok" /\ n >= MaxAttempts => o_spent'[e] = MaxAttempts
  BY <1>0, <1>1 DEF OutboxInv, OutboxTyped
<1>4. /\ answer = "ok" <=> O!ClassifyResponse(answer) = "delivered"
      /\ answer = "refused" <=> O!ClassifyResponse(answer) = "permanent"
  BY DEF O!ClassifyResponse, O!Answers
<1>5. /\ o_tasks' = [o_tasks EXCEPT ![w] = O!Idle]
      /\ \/ answer = "ok" /\ o_rows' = [o_rows EXCEPT ![e] = [status |-> "delivered", attempts |-> n]]
         \/ /\ answer # "ok" /\ o_spent'[e] = MaxAttempts
            /\ o_rows' = [o_rows EXCEPT ![e] = [status |-> "failed", attempts |-> n]]
         \/ answer # "ok" /\ n < MaxAttempts /\ o_rows' = [o_rows EXCEPT ![e].attempts = n]
  BY <1>0, <1>1, <1>3, <1>4
     DEF O!MarkDelivered, O!MarkRetry, O!MarkFailed, O!Mark, O!Exhausted
<1>6. o_tasks' \in [Attempts -> O!Task \cup {O!Idle}] /\ \A v \in Attempts : TaskEarned(o_tasks'[v], o_spent')
  <2>1. \A v \in Attempts : o_tasks'[v] = O!Idle \/ o_tasks'[v] = o_tasks[v]
    BY <1>5 DEF OutboxInv, OutboxTyped
  <2>2. \A v \in Attempts : o_tasks[v] # O!Idle =>
           /\ o_tasks[v].id \in Events /\ o_tasks[v].attempts \in Nat
           /\ o_spent[o_tasks[v].id] \in Nat /\ o_spent'[o_tasks[v].id] \in Nat
    BY <1>0, <1>2 DEF OutboxInv, OutboxTyped, O!Task, O!Counts
  <2>3. \A v \in Attempts : TaskEarned(o_tasks'[v], o_spent')
    BY <1>0, <1>2, <2>1, <2>2 DEF OutboxInv, TaskEarned
  <2> QED BY <1>5, <2>3 DEF OutboxInv, OutboxTyped
<1>7. ASSUME NEW r \in O!Row, o_rows' = [o_rows EXCEPT ![e] = r], RowEarned(r, e, o_accepted', o_spent')
      PROVE  o_rows' \in [Events -> O!Row] /\ \A d \in Events : RowEarned(o_rows'[d], d, o_accepted', o_spent')
  <2>1. o_rows' \in [Events -> O!Row] /\ o_rows'[e] = r
    BY <1>0, <1>7 DEF OutboxInv, OutboxTyped
  <2>2. ASSUME NEW d \in Events, d # e PROVE RowEarned(o_rows'[d], d, o_accepted', o_spent')
    <3>1. o_rows'[d] = o_rows[d] /\ o_rows[d] \in O!Row /\ o_spent[d] \in Nat /\ o_spent'[d] \in Nat
      BY <1>0, <1>2, <1>7, <2>2 DEF OutboxInv, OutboxTyped, O!Counts
    <3> QED BY <1>0, <1>2, <3>1 DEF OutboxInv, RowEarned, O!Row, O!Counts
  <2> QED BY <1>7, <2>1, <2>2
<1>8. o_rows' \in [Events -> O!Row] /\ \A d \in Events : RowEarned(o_rows'[d], d, o_accepted', o_spent')
  <2>1. CASE answer = "ok" /\ o_rows' = [o_rows EXCEPT ![e] = [status |-> "delivered", attempts |-> n]]
    <3> DEFINE r == [status |-> "delivered", attempts |-> n]
    <3>1. r \in O!Row /\ RowEarned(r, e, o_accepted', o_spent')
      BY <1>0, <1>3, <2>1 DEF O!Row, O!Statuses, O!Counts, RowEarned
    <3> QED BY <1>7, <2>1, <3>1
  <2>2. CASE /\ answer # "ok" /\ o_spent'[e] = MaxAttempts
             /\ o_rows' = [o_rows EXCEPT ![e] = [status |-> "failed", attempts |-> n]]
    <3> DEFINE r == [status |-> "failed", attempts |-> n]
    <3>1. r \in O!Row /\ RowEarned(r, e, o_accepted', o_spent')
      BY <1>0, <1>3, <2>2 DEF O!Row, O!Statuses, O!Counts, RowEarned
    <3> QED BY <1>7, <2>2, <3>1
  <2>3. CASE answer # "ok" /\ n < MaxAttempts /\ o_rows' = [o_rows EXCEPT ![e].attempts = n]
    <3> DEFINE r == [o_rows[e] EXCEPT !.attempts = n]
    <3>1. r \in O!Row /\ r.status = o_rows[e].status /\ r.attempts = n
      BY <1>0 DEF O!Row, O!Counts
    <3>2. RowEarned(r, e, o_accepted', o_spent')
      BY <1>0, <1>2, <1>3, <2>3, <3>1 DEF OutboxInv, RowEarned
    <3> QED BY <1>7, <2>3, <3>1, <3>2
  <2> QED BY <1>5, <2>1, <2>2, <2>3
<1> QED BY <1>2, <1>6, <1>8 DEF OutboxInv, OutboxTyped

\* Every step of every part keeps the outbox as it should be.
LEMMA OutboxInvStep == OutboxInv /\ [Next]_all => OutboxInv'
<1> SUFFICES ASSUME OutboxInv, [Next]_all PROVE OutboxInv'
  OBVIOUS
<1>1. CASE OutboxStep
  <2>1. ASSUME NEW e \in Events, O!BecomeDue(e) PROVE OutboxInv'
    BY <2>1 DEF O!BecomeDue, OutboxInv, OutboxTyped, RowEarned, TaskEarned
  <2> QED BY <1>1, <2>1, StartStep, CrashStep, DeliveryStep DEF OutboxStep, O!Next
<1>2. CASE UNCHANGED o_all
  BY <1>2 DEF o_all, OutboxInv, OutboxTyped, RowEarned, TaskEarned
<1>3. OutboxStep \/ UNCHANGED o_all
  BY DEF Next, all, IngestStep, StreamStep, StampsStep, WatchStep
<1> QED BY <1>1, <1>2, <1>3

\* An empty outbox is as it should be.
LEMMA OutboxInvInit == Init => OutboxInv
BY MaxIsPositive
   DEF Init, O!Init, OutboxInv, OutboxTyped, RowEarned, TaskEarned, O!Row, O!Statuses, O!Counts

\* Whatever attempts overlap, crash and are repeated, a webhook is only
\* "delivered" when its receiver has taken it and only "failed" when it was
\* refused or had every attempt it is due.
THEOREM MarksAreEarned == Spec => []StatusIsEarned
<1>1. OutboxInv => StatusIsEarned
  BY DEF OutboxInv, RowEarned, StatusIsEarned, O!StatusIsEarned
<1> QED BY <1>1, OutboxInvInit, OutboxInvStep, PTL DEF Spec

-----------------------------------------------------------------------------
(* The streams of an intent *)

\* What TypeOK says of the subscriptions, and what they and the timer owe each other.
BeatInv ==
  /\ s_sub \in [Clients -> [pc : S!SubPCs, val : S!Versions \cup {-1}, changed : BOOLEAN]]
  /\ s_db \in S!Versions /\ s_beating \in BOOLEAN
  /\ S!OpenStreamsHaveABeat

\* A step that neither opens a stream nor ends a subscription keeps the timer, unless
\* it leaves no stream open.
LEMMA BeatKeeps ==
  ASSUME BeatInv, UNCHANGED <<s_sub, s_db>>, s_sinks' \subseteq s_sinks,
         s_beating' = s_beating \/ s_beating' = (s_beating /\ s_sinks' # {})
  PROVE  BeatInv'
<1>1. s_beating' \in BOOLEAN
  BY DEF BeatInv
<1>2. ASSUME s_sinks' # {} PROVE s_beating' \/ \E c \in Clients : s_sub'[c].pc = "announcing"
  <2>1. s_sinks # {}
    BY <1>2
  <2>2. s_beating => s_beating'
    BY <1>2, Zenon
  <2> QED BY <2>1, <2>2 DEF BeatInv, S!OpenStreamsHaveABeat
<1> QED BY <1>1, <1>2 DEF BeatInv, S!OpenStreamsHaveABeat

\* A subscription that goes on to another await before its stream is open.
LEMMA SubGoesOn ==
  ASSUME BeatInv, NEW c \in Clients, s_sub[c].pc # "announcing",
         NEW t \in [pc : S!SubPCs, val : S!Versions \cup {-1}, changed : BOOLEAN],
         s_sub' = [s_sub EXCEPT ![c] = t], UNCHANGED <<s_db, s_sinks>>,
         s_beating' = s_beating \/ s_beating' = (s_beating \/ s_sinks # {})
  PROVE  BeatInv'
<1>1. /\ s_sub' \in [Clients -> [pc : S!SubPCs, val : S!Versions \cup {-1}, changed : BOOLEAN]]
      /\ s_beating' \in BOOLEAN /\ s_beating => s_beating'
  BY DEF BeatInv
<1>2. ASSUME s_sinks' # {} PROVE s_beating' \/ \E d \in Clients : s_sub'[d].pc = "announcing"
  <2>1. s_beating \/ \E d \in Clients : s_sub[d].pc = "announcing"
    BY <1>2 DEF BeatInv, S!OpenStreamsHaveABeat
  <2>2. ASSUME NEW d \in Clients, s_sub[d].pc = "announcing" PROVE s_sub'[d].pc = "announcing"
    BY <2>2 DEF BeatInv
  <2> QED BY <1>1, <2>1, <2>2
<1> QED BY <1>1, <1>2 DEF BeatInv, S!OpenStreamsHaveABeat

\* subscribe(): whatever it gives way to, its stream gets a timer.
LEMMA SubscribeStep ==
  ASSUME BeatInv, NEW c \in Clients, S!Connect(c) \/ S!Subscribe(c)
  PROVE  BeatInv'
<1> DEFINE Run == [pc : S!SubPCs, val : S!Versions \cup {-1}, changed : BOOLEAN]
           At(pc) == [s_sub[c] EXCEPT !.pc = pc]
<1>1. /\ s_sub \in [Clients -> Run] /\ s_sub[c] \in Run /\ s_db \in S!Versions
      /\ S!NoRead("done") \in Run /\ S!NoRead("done").pc = "done"
  BY DEF BeatInv, S!NoRead, S!SubPCs
<1>2. \A pc \in S!SubPCs : At(pc) \in Run /\ At(pc).pc = pc
  BY <1>1
<1>3. {"new", "joining", "reading", "read", "sending", "announcing", "done"} \subseteq S!SubPCs
  BY DEF S!SubPCs
<1> HIDE DEF Run, At
<1>4. CASE S!Connect(c)
  <2>1. /\ s_sub[c].pc = "new" /\ UNCHANGED <<s_db, s_sinks, s_beating>>
        /\ s_sub' = [s_sub EXCEPT ![c] = At("done")] \/ s_sub' = [s_sub EXCEPT ![c] = At("joining")]
    BY <1>4 DEF S!Connect, S!SubGoto, At
  <2> QED BY <1>2, <1>3, <2>1, SubGoesOn DEF Run
<1>5. CASE S!Join(c)
  <2>1. /\ s_sub[c].pc = "joining" /\ UNCHANGED <<s_db, s_sinks>>
        /\ \/ s_sub' = [s_sub EXCEPT ![c] = S!NoRead("done")] /\ s_beating' = (s_beating \/ s_sinks # {})
           \/ s_sub' = [s_sub EXCEPT ![c] = At("reading")] /\ s_beating' = s_beating
    BY <1>5 DEF S!Join, S!SubGoto, S!SubEnds, S!StartBeat, At
  <2> QED BY <1>1, <1>2, <1>3, <2>1, SubGoesOn DEF Run
<1>6. CASE S!ReadSnapshot(c)
  <2>1. /\ s_sub[c].pc = "reading" /\ UNCHANGED <<s_db, s_sinks, s_beating>>
        /\ s_sub' = [s_sub EXCEPT ![c] = [s_sub[c] EXCEPT !.pc = "read", !.val = s_db]]
    BY <1>6 DEF S!ReadSnapshot
  <2>2. [s_sub[c] EXCEPT !.pc = "read", !.val = s_db] \in Run
    BY <1>1, <1>3 DEF Run
  <2> QED BY <2>1, <2>2, SubGoesOn DEF Run
<1>7. CASE S!SendSnapshot(c)
  <2>1. /\ s_sub[c].pc = "read" /\ UNCHANGED <<s_db, s_sinks, s_beating>>
        /\ s_sub' = [s_sub EXCEPT ![c] =
                       [s_sub[c] EXCEPT !.pc = "sending", !.changed = s_sub[c].val # s_lastKey]]
    BY <1>7 DEF S!SendSnapshot
  <2>2. [s_sub[c] EXCEPT !.pc = "sending", !.changed = s_sub[c].val # s_lastKey] \in Run
    BY <1>1, <1>3 DEF Run
  <2> QED BY <2>1, <2>2, SubGoesOn DEF Run
<1>8. CASE S!AddSink(c)
  <2>1. CASE c \in s_gone
    <3>1. /\ s_sub[c].pc = "sending" /\ UNCHANGED <<s_db, s_sinks>>
          /\ s_sub' = [s_sub EXCEPT ![c] = S!NoRead("done")] /\ s_beating' = (s_beating \/ s_sinks # {})
      BY <1>8, <2>1 DEF S!AddSink, S!SubEnds, S!StartBeat
    <3> QED BY <1>1, <3>1, SubGoesOn DEF Run
  <2>2. CASE c \notin s_gone
    <3>1. UNCHANGED <<s_db, s_beating>> /\ s_sub' = [s_sub EXCEPT ![c] = At("announcing")]
      BY <1>8, <2>2 DEF S!AddSink, S!SubGoto, At
    <3>2. s_sub' \in [Clients -> Run] /\ s_sub'[c].pc = "announcing"
      BY <1>1, <1>2, <1>3, <3>1
    <3> QED BY <3>1, <3>2 DEF Run, BeatInv, S!OpenStreamsHaveABeat
  <2> QED BY <2>1, <2>2
<1>9. CASE S!Subscribed(c)
  <2>1. /\ UNCHANGED s_db /\ s_sub' = [s_sub EXCEPT ![c] = S!NoRead("done")]
        /\ s_beating' = (s_beating \/ s_sinks' # {})
    BY <1>9 DEF S!Subscribed, S!SubEnds, S!StartBeat
  <2>2. s_sub' \in [Clients -> Run]
    BY <1>1, <2>1
  <2> QED BY <2>1, <2>2 DEF Run, BeatInv, S!OpenStreamsHaveABeat
<1> QED BY <1>4, <1>5, <1>6, <1>7, <1>8, <1>9 DEF S!Subscribe

\* Pokes, heartbeats and refreshes stop the timer of an idle hub only.
LEMMA RefreshStep ==
  ASSUME BeatInv,
         \/ \E r \in S!Refreshers : S!Poke(r) \/ S!Refresh(r)
         \/ S!Heartbeat
  PROVE  BeatInv'
<1>1. ASSUME NEW r \in S!Refreshers, S!Poke(r) PROVE BeatInv'
  BY <1>1, BeatKeeps DEF S!Poke, S!StopIfIdle
<1>2. ASSUME NEW r \in S!Refreshers, S!ReadStatus(r) PROVE BeatInv'
  BY <1>2, BeatKeeps DEF S!ReadStatus
<1>3. ASSUME NEW r \in S!Refreshers, S!Broadcast(r) PROVE BeatInv'
  BY <1>3, BeatKeeps DEF S!Broadcast, S!StopIfIdle
<1>4. ASSUME NEW r \in S!Refreshers, S!Refreshed(r) PROVE BeatInv'
  <2>1. s_sinks' \subseteq s_sinks
    BY <1>4 DEF S!Refreshed, S!Broadcasted
  <2> QED BY <1>4, <2>1, BeatKeeps DEF S!Refreshed, S!StopIfIdle
<1>5. CASE S!Heartbeat
  BY <1>5, BeatKeeps DEF S!Heartbeat, S!StopIfIdle
<1> QED BY <1>1, <1>2, <1>3, <1>4, <1>5 DEF S!Refresh

LEMMA BeatInvStep == BeatInv /\ [Next]_all => BeatInv'
<1> SUFFICES ASSUME BeatInv, [Next]_all PROVE BeatInv'
  OBVIOUS
<1>1. CASE UNCHANGED s_all
  BY <1>1 DEF s_all, BeatInv, S!OpenStreamsHaveABeat
<1>2. CASE S!Next
  <2>1. ASSUME NEW c \in Clients, S!Expire(c) \/ S!Leave(c) PROVE BeatInv'
    BY <2>1, BeatKeeps DEF S!Expire, S!Leave
  <2>2. ASSUME S!Change PROVE BeatInv'
    <3>1. s_db' \in S!Versions /\ UNCHANGED <<s_sub, s_sinks, s_beating>>
      BY <2>2, EventsAssumption DEF S!Change, S!Versions, BeatInv, S!StreamAssumption
    <3> QED BY <3>1 DEF BeatInv, S!OpenStreamsHaveABeat
  <2> QED BY <1>2, <2>1, <2>2, SubscribeStep, RefreshStep DEF S!Next
<1> QED BY <1>1, <1>2 DEF Next, IngestStep, OutboxStep, StreamStep, StampsStep, WatchStep, all

LEMMA BeatInvInit == Init => BeatInv
<1> SUFFICES ASSUME Init PROVE BeatInv
  OBVIOUS
<1>1. S!NoRead("new") \in [pc : S!SubPCs, val : S!Versions \cup {-1}, changed : BOOLEAN]
  BY DEF S!NoRead, S!SubPCs
<1>2. s_db \in S!Versions
  BY EventsAssumption DEF Init, S!Init, S!Versions, S!StreamAssumption
<1> QED BY <1>1, <1>2 DEF Init, S!Init, BeatInv, S!OpenStreamsHaveABeat

\* The heartbeat of a stream (stream.ts): for any number of clients, pokes and
\* overlapping subscriptions and refreshes, a stream that is open has a running timer,
\* or a subscription is about to start it.
THEOREM OpenStreamsBeat == Spec => []S!OpenStreamsHaveABeat
<1>1. BeatInv => S!OpenStreamsHaveABeat
  BY DEF BeatInv
<1> QED BY <1>1, BeatInvInit, BeatInvStep, PTL DEF Spec

-----------------------------------------------------------------------------
(* The dead-man switch of the theft detector *)

\* A tick between two rails, clearing the count of one that it has read, or with
\* one that it could not read: as long as allOk stands, every rail has been read or
\* is still to be read.
Between(t) ==
  \E todo, read \in SUBSET Rails, ok \in BOOLEAN :
    t = [pc |-> "next", todo |-> todo, read |-> read, ok |-> ok] /\ (ok => todo \cup read = Rails)
Clearing(t) ==
  \E todo, read \in SUBSET Rails, ok \in BOOLEAN, r \in Rails :
    /\ t = [pc |-> "clear", todo |-> todo, read |-> read, ok |-> ok, rail |-> r]
    /\ ok => todo \cup read \cup {r} = Rails
Counting(t) ==
  \E todo, read \in SUBSET Rails, r \in Rails :
    t = [pc |-> "count", todo |-> todo, read |-> read, ok |-> FALSE, rail |-> r]
Counted(t) ==
  \E todo, read \in SUBSET Rails, r \in Rails : \E pc, ok, n :
    /\ t = [pc |-> pc, todo |-> todo, read |-> read, ok |-> ok, rail |-> r, n |-> n]
    /\ pc \in {"put", "alert"} /\ ok = FALSE
TickOK(t) == t = W!Idle \/ Between(t) \/ Clearing(t) \/ Counting(t) \/ Counted(t)

TicksInv == DOMAIN w_tick = Ticks /\ \A k \in Ticks : TickOK(w_tick[k])

\* The stage of a tick tells what it is doing.
LEMMA TickStages ==
  ASSUME NEW t, TickOK(t)
  PROVE  /\ t.pc = "next" => Between(t)
         /\ t.pc = "clear" => Clearing(t)
         /\ t.pc = "count" => Counting(t)
         /\ t.pc \in {"put", "alert"} => Counted(t)
<1>1. t = W!Idle => t.pc = "idle"
  BY DEF W!Idle
<1>2. Between(t) => t.pc = "next"
  BY DEF Between
<1>3. Clearing(t) => t.pc = "clear"
  BY DEF Clearing
<1>4. Counting(t) => t.pc = "count"
  BY DEF Counting
<1>5. Counted(t) => t.pc \in {"put", "alert"}
  BY DEF Counted
<1> QED BY <1>1, <1>2, <1>3, <1>4, <1>5 DEF TickOK

\* A step of one tick leaves the others alone.
LEMMA TickSet ==
  ASSUME TicksInv, NEW k \in Ticks, NEW t, TickOK(t), W!Set(k, t)
  PROVE  TicksInv'
BY DEF TicksInv, W!Set

\* A tick that has the next rail answers for it, or goes on without its allOk.
LEMMA WatchRailStep ==
  ASSUME TicksInv, NEW k \in Ticks, W!WatchRail(k)
  PROVE  TicksInv'
<1>1. w_tick[k].pc = "next" /\ TickOK(w_tick[k])
  BY DEF W!WatchRail, W!At, TicksInv
<1>2. Between(w_tick[k])
  BY <1>1, TickStages
<1>3. PICK todo \in SUBSET Rails, read \in SUBSET Rails, ok \in BOOLEAN :
        w_tick[k] = [pc |-> "next", todo |-> todo, read |-> read, ok |-> ok] /\ (ok => todo \cup read = Rails)
  BY <1>2 DEF Between
<1>4. PICK r \in todo :
        \/ W!Set(k, [pc |-> "count", todo |-> todo \ {r}, read |-> read, ok |-> FALSE, rail |-> r])
        \/ W!Set(k, [pc |-> "clear", todo |-> todo \ {r}, read |-> read, ok |-> ok, rail |-> r])
  <2>1. PICK r \in w_tick[k].todo :
          LET u == [w_tick[k] EXCEPT !.todo = @ \ {r}]
          IN W!Set(k, IF w_down[r] THEN [pc |-> "count", todo |-> u.todo, read |-> u.read, ok |-> FALSE, rail |-> r]
                      ELSE [pc |-> "clear", todo |-> u.todo, read |-> u.read, ok |-> u.ok, rail |-> r])
    BY DEF W!WatchRail
  <2>2. [w_tick[k] EXCEPT !.todo = @ \ {r}] = [pc |-> "next", todo |-> todo \ {r}, read |-> read, ok |-> ok]
    BY <1>3
  <2>3. r \in todo
    BY <1>3, <2>1
  <2>4. CASE w_down[r]
    BY <2>1, <2>2, <2>3, <2>4
  <2>5. CASE ~ w_down[r]
    BY <2>1, <2>2, <2>3, <2>5
  <2> QED BY <2>4, <2>5
<1>5. todo \ {r} \in SUBSET Rails /\ r \in Rails
  BY <1>4
<1>6. TickOK([pc |-> "count", todo |-> todo \ {r}, read |-> read, ok |-> FALSE, rail |-> r])
  BY <1>3, <1>5 DEF TickOK, Counting
<1>7. TickOK([pc |-> "clear", todo |-> todo \ {r}, read |-> read, ok |-> ok, rail |-> r])
  <2>1. ok => (todo \ {r}) \cup read \cup {r} = Rails
    BY <1>3, <1>5
  <2> QED BY <1>3, <1>5, <2>1 DEF TickOK, Clearing
<1> QED BY <1>4, <1>6, <1>7, TickSet

\* A rail that was read is counted among the read ones.
LEMMA ClearFailsStep ==
  ASSUME TicksInv, NEW k \in Ticks, W!ClearFails(k)
  PROVE  TicksInv'
<1>1. w_tick[k].pc = "clear" /\ TickOK(w_tick[k])
  BY DEF W!ClearFails, W!At, TicksInv
<1>2. Clearing(w_tick[k])
  BY <1>1, TickStages
<1>3. PICK todo \in SUBSET Rails, read \in SUBSET Rails, ok \in BOOLEAN, r \in Rails :
        /\ w_tick[k] = [pc |-> "clear", todo |-> todo, read |-> read, ok |-> ok, rail |-> r]
        /\ ok => todo \cup read \cup {r} = Rails
  BY <1>2 DEF Clearing
<1>4. W!Set(k, [pc |-> "next", todo |-> todo, read |-> read \cup {r}, ok |-> ok])
  BY <1>3 DEF W!ClearFails, W!NextRail
<1>5. read \cup {r} \in SUBSET Rails /\ (ok => todo \cup (read \cup {r}) = Rails)
  BY <1>3
<1>6. TickOK([pc |-> "next", todo |-> todo, read |-> read \cup {r}, ok |-> ok])
  BY <1>3, <1>5 DEF TickOK, Between
<1> QED BY <1>4, <1>6, TickSet

\* A rail that could not be read is counted, and the ping of its tick is lost.
LEMMA CountStep ==
  ASSUME TicksInv, NEW k \in Ticks, W!CountFails(k) \/ W!PutFails(k) \/ W!Alert(k)
  PROVE  TicksInv'
<1>1. TickOK(w_tick[k])
  BY DEF TicksInv
<1>2. CASE W!CountFails(k)
  <2>1. Counting(w_tick[k])
    BY <1>1, <1>2, TickStages DEF W!CountFails, W!At
  <2>2. PICK todo \in SUBSET Rails, read \in SUBSET Rails, r \in Rails :
          w_tick[k] = [pc |-> "count", todo |-> todo, read |-> read, ok |-> FALSE, rail |-> r]
    BY <2>1 DEF Counting
  <2>3. PICK n : W!Set(k, [pc |-> "put", todo |-> todo, read |-> read, ok |-> FALSE, rail |-> r, n |-> n])
    <3> DEFINE n == IF w_fail[r] > FailAlertTicks THEN w_fail[r] ELSE w_fail[r] + 1
    <3>1. W!Set(k, [pc |-> "put", todo |-> todo, read |-> read, ok |-> FALSE, rail |-> r, n |-> n])
      BY <1>2, <2>2 DEF W!CountFails
    <3> QED BY <3>1
  <2>4. TickOK([pc |-> "put", todo |-> todo, read |-> read, ok |-> FALSE, rail |-> r, n |-> n])
    BY <2>2 DEF TickOK, Counted
  <2> QED BY <2>3, <2>4, TickSet
<1>3. CASE W!PutFails(k) \/ W!Alert(k)
  <2>1. Counted(w_tick[k])
    BY <1>1, <1>3, TickStages DEF W!PutFails, W!Alert, W!At
  <2>2. PICK todo \in SUBSET Rails, read \in SUBSET Rails, r \in Rails : \E pc, ok, n :
          /\ w_tick[k] = [pc |-> pc, todo |-> todo, read |-> read, ok |-> ok, rail |-> r, n |-> n]
          /\ ok = FALSE
    BY <2>1 DEF Counted
  <2>3. PICK pc, ok, n :
          /\ w_tick[k] = [pc |-> pc, todo |-> todo, read |-> read, ok |-> ok, rail |-> r, n |-> n]
          /\ ok = FALSE
    BY <2>2
  <2>4. \/ W!Set(k, [pc |-> "alert", todo |-> todo, read |-> read, ok |-> ok, rail |-> r, n |-> n])
        \/ W!Set(k, [pc |-> "next", todo |-> todo, read |-> read, ok |-> ok])
    <3>1. W!NextRail(w_tick[k]) = [pc |-> "next", todo |-> todo, read |-> read, ok |-> ok]
      BY <2>3 DEF W!NextRail
    <3>2. [w_tick[k] EXCEPT !.pc = "alert"]
            = [pc |-> "alert", todo |-> todo, read |-> read, ok |-> ok, rail |-> r, n |-> n]
      <4>1. w_tick[k] = [pc |-> pc, todo |-> todo, read |-> read, ok |-> ok, rail |-> r, n |-> n]
        BY <2>3
      <4> QED BY ONLY <4>1
    <3>3. W!Set(k, [w_tick[k] EXCEPT !.pc = "alert"]) \/ W!Set(k, W!NextRail(w_tick[k]))
      BY <1>3 DEF W!PutFails, W!Alert
    <3> QED BY <3>1, <3>2, <3>3
  <2>5. TickOK([pc |-> "alert", todo |-> todo, read |-> read, ok |-> ok, rail |-> r, n |-> n])
    BY <2>3 DEF TickOK, Counted
  <2>6. TickOK([pc |-> "next", todo |-> todo, read |-> read, ok |-> ok])
    BY <2>3 DEF TickOK, Between
  <2> QED BY <2>4, <2>5, <2>6, TickSet
<1> QED BY <1>2, <1>3

LEMMA TicksInvStep == TicksInv /\ [Next]_all => TicksInv'
<1> SUFFICES ASSUME TicksInv, [Next]_all PROVE TicksInv'
  OBVIOUS
<1>1. CASE UNCHANGED w_tick
  BY <1>1 DEF TicksInv
<1>2. CASE W!Next
  <2>1. ASSUME NEW k \in Ticks, W!StartTick(k) PROVE TicksInv'
    <3>1. Rails \in SUBSET Rails /\ {} \in SUBSET Rails /\ TRUE \in BOOLEAN /\ Rails \cup {} = Rails
      OBVIOUS
    <3>2. Between([pc |-> "next", todo |-> Rails, read |-> {}, ok |-> TRUE])
      BY ONLY <3>1, Zenon DEF Between
    <3>3. TickOK([pc |-> "next", todo |-> Rails, read |-> {}, ok |-> TRUE])
      BY <3>2 DEF TickOK
    <3> QED BY <2>1, <3>3, TickSet DEF W!StartTick
  <2>2. ASSUME NEW k \in Ticks, W!Set(k, W!Idle) PROVE TicksInv'
    BY <2>2, TickSet DEF TickOK
  <2>3. ASSUME NEW k \in Ticks, W!EndTick(k) \/ W!Evict(k) PROVE TicksInv'
    BY <2>2, <2>3 DEF W!EndTick, W!Evict
  <2>4. ASSUME NEW r \in Rails, W!Outage(r) \/ W!Recover(r) PROVE TicksInv'
    BY <1>1, <2>4 DEF W!Outage, W!Recover
  <2> QED BY <1>2, <2>1, <2>3, <2>4, WatchRailStep, ClearFailsStep, CountStep DEF W!Next, W!Step
<1> QED BY <1>1, <1>2 DEF Next, IngestStep, OutboxStep, StreamStep, StampsStep, WatchStep, all, w_all

LEMMA TicksInvInit == Init => TicksInv
BY DEF Init, W!Init, TicksInv, TickOK

\* The dead-man switch (outflowWatch.ts): for any number of rails and ticks, however
\* they overlap and are evicted, a tick only pings when it has read every rail itself.
THEOREM PingsAreEarned == Spec => []W!PingIsEarned
<1>1. TicksInv => W!PingIsEarned
  <2> SUFFICES ASSUME TicksInv, NEW k \in Ticks, W!Pings(k) PROVE w_tick[k].read = Rails
    BY DEF W!PingIsEarned
  <2>1. Between(w_tick[k])
    BY TickStages DEF W!Pings, W!At, TicksInv
  <2> QED BY <2>1 DEF Between, W!Pings
<1> QED BY <1>1, TicksInvInit, TicksInvStep, PTL DEF Spec

=============================================================================
