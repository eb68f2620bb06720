------------------------------ MODULE MCEvents -------------------------------
(****************************************************************************)
(* What the rail is told and what it tells others: the orders Monerium      *)
(* reports, the webhooks it sends, the status stream of an intent, the time *)
(* stamps of its receipts, and the alerts of the theft detector.  The parts *)
(* share nothing, so a behaviour is one of one part.                        *)
(****************************************************************************)
EXTENDS Naturals, Sequences, FiniteSets

CONSTANTS
  Parts,                                              \* the parts that are followed
  Orders, Isolates, PendingIntents, Reconciling, MaxMishaps,   \* OrderIngest
  Events, Attempts, MaxAttempts, Batch, MaxResends,   \* WebhookOutbox
  Clients, Pokes, Last, Terminal, MaxSinks,           \* IntentStream
  MaxAnchors, PullLimit,                              \* Checkpoints
  Ticks, Rails, FailAlertTicks, MaxOutages,           \* OutflowAlerts
  Crashes                                             \* bound: evictions

VARIABLES
  i_upstream, i_sending, i_claims, i_stored, i_forwards, i_told, i_alerted, i_tasks,
  i_failures, i_crashes,
  o_rows, o_due, o_tasks, o_accepted, o_spent, o_resends, o_crashes,
  s_db, s_sinks, s_lastKey, s_shown, s_gone, s_beating, s_sub, s_refresh,
  c_ots, c_stamping, c_attested, c_repo, c_job, c_crashes,
  w_down, w_fail, w_told, w_lost, w_tick, w_overlapped, w_outages, w_crashes,
  part   \* the part whose behaviour this is

i_all == <<i_upstream, i_sending, i_claims, i_stored, i_forwards, i_told, i_alerted, i_tasks,
           i_failures, i_crashes>>
o_all == <<o_rows, o_due, o_tasks, o_accepted, o_spent, o_resends, o_crashes>>
s_all == <<s_db, s_sinks, s_lastKey, s_shown, s_gone, s_beating, s_sub, s_refresh>>
c_all == <<c_ots, c_stamping, c_attested, c_repo, c_job, c_crashes>>
w_all == <<w_down, w_fail, w_told, w_lost, w_tick, w_overlapped, w_outages, w_crashes>>
all == <<i_all, o_all, s_all, c_all, w_all, part>>

I == INSTANCE OrderIngest WITH
  Workers <- Isolates, upstream <- i_upstream, sending <- i_sending, claims <- i_claims,
  stored <- i_stored, forwards <- i_forwards, told <- i_told, alerted <- i_alerted,
  tasks <- i_tasks, failures <- i_failures, crashes <- i_crashes
O == INSTANCE WebhookOutbox WITH
  Workers <- Attempts, MaxCrashes <- Crashes, rows <- o_rows,
  due <- o_due, tasks <- o_tasks, accepted <- o_accepted,
  spent <- o_spent, resends <- o_resends, crashes <- o_crashes
S == INSTANCE IntentStream WITH
  db <- s_db, sinks <- s_sinks, lastKey <- s_lastKey, shown <- s_shown,
  gone <- s_gone, beating <- s_beating, sub <- s_sub,
  refresh <- s_refresh
C == INSTANCE Checkpoints WITH
  MaxCrashes <- Crashes, ots <- c_ots, stamping <- c_stamping,
  attested <- c_attested, repo <- c_repo, job <- c_job,
  crashes <- c_crashes
W == INSTANCE OutflowAlerts WITH
  MaxCrashes <- Crashes, down <- w_down, fail <- w_fail,
  told <- w_told, lost <- w_lost, tick <- w_tick,
  overlapped <- w_overlapped, outages <- w_outages,
  crashes <- w_crashes

Init == part \in Parts /\ I!Init /\ O!Init /\ S!Init /\ C!Init /\ W!Init

Of(p) == part = p /\ UNCHANGED part
IngestStep == Of("ingest") /\ I!Next /\ UNCHANGED <<o_all, s_all, c_all, w_all>>
OutboxStep == Of("outbox") /\ O!Next /\ UNCHANGED <<i_all, s_all, c_all, w_all>>
StreamStep == Of("stream") /\ S!Next /\ UNCHANGED <<i_all, o_all, c_all, w_all>>
StampsStep == Of("stamps") /\ C!Next /\ UNCHANGED <<i_all, o_all, s_all, w_all>>
WatchStep  == Of("watch") /\ W!Next /\ UNCHANGED <<i_all, o_all, s_all, c_all>>

Next == IngestStep \/ OutboxStep \/ StreamStep \/ StampsStep \/ WatchStep

\* The fairness of each part, as its module states and explains it; that of the ingest and of
\* the time stamps, which a run of their own follows, apart.
Fairness ==
  /\ \A w \in Attempts : WF_o_all(part = "outbox" /\ O!AttemptDelivery(w))
  /\ \A e \in Events : /\ WF_o_all(part = "outbox" /\ O!BecomeDue(e))
                       /\ SF_o_all(part = "outbox" /\ O!Cron(e))
  /\ \A c \in Clients : WF_s_all(part = "stream" /\ S!Subscribe(c))
  /\ \A r \in Pokes \cup {S!Beat} : WF_s_all(part = "stream" /\ S!Refresh(r))
  /\ WF_s_all(part = "stream" /\ S!Heartbeat) /\ WF_s_all(part = "stream" /\ S!Change)
  /\ WF_w_all(part = "watch" /\ \E k \in Ticks : W!StartTick(k))
  /\ \A k \in Ticks : WF_w_all(part = "watch" /\ W!Step(k))

Spec == Init /\ [][Next]_all /\ Fairness

IngestFairness ==
  /\ \A w \in Isolates : WF_i_all(part = "ingest" /\ (I!Webhook(w) \/ I!Reconcile(w)))
  /\ \A event \in Orders \X I!OrderStates : SF_i_all(part = "ingest" /\ \E w \in Isolates : I!Deliver(w, event))
  /\ \A o \in Orders : /\ SF_i_all(part = "ingest" /\ \E w \in Isolates : I!ListOrders(w, o))
                       /\ SF_i_all(part = "ingest" /\ \E w \in Isolates : I!IsStuckWithoutForward(w, o))
  /\ WF_c_all(part = "stamps" /\ (C!FetchNew \/ C!UpgradePending))
  /\ WF_c_all(part = "stamps" /\ C!PullUpgradedOts)
  /\ \A s \in 1..MaxAnchors :
       /\ WF_c_all(part = "stamps" /\ C!Attest(s))
       /\ WF_c_all(part = "stamps" /\ \E answered \in BOOLEAN : C!StampOts(s, answered))
IngestSpec == Init /\ [][Next]_all /\ IngestFairness

ASSUME EventsAssumption ==
  Parts \subseteq {"ingest", "outbox", "stream", "stamps", "watch"}
  /\ I!IngestAssumption /\ O!OutboxAssumption /\ S!StreamAssumption /\ C!CheckpointsAssumption
  /\ W!AlertsAssumption
------------------------------------------------------------------------------
\* OrderIngest: the forward path only ever runs for an order whose EURe has been minted,
\* whichever of webhook and cron got there first and with however old a snapshot (the race
\* of 2026-05-21).
ForwardsAreMinted == I!ForwardsAreMinted
\* OrderIngest: no processed order sits silently in the Safe: it gets a row, or the operator
\* an alert - though an event is lost, by an eviction after its claim, a failed release or
\* a delivery given up, and nothing else of the tenant is in flight.
ProcessedIsAnswered == I!ProcessedIsAnswered

\* WebhookOutbox: whatever attempts overlap, a row says "delivered" only of an event the
\* receiver has taken, and "failed" only of one it refused or that had all its attempts.
StatusIsEarned == O!StatusIsEarned

\* WebhookOutbox: every event is tried to its end, though the isolate that enqueued it or
\* a cron run is evicted, the due rows do not fit into a batch, and a stale mark sets the
\* count of a row back.  OutflowAlerts: a rail that cannot be read any more is reported,
\* but for a tick evicted before its alert or ticks that overlap, and the dead-man switch
\* is only pinged by a tick that has read every rail itself.
PendingEnds == O!PendingEnds /\ W!BlindIsTold /\ []W!PingIsEarned

\* IntentStream: a stream that was open before the last change is shown it, whatever pokes
\* are missed and however subscriptions and refreshes overlap - unless the one that read
\* it was a client that went away before taking it; and the timer runs whenever a stream is
\* open, but for the moment between the opening of the first one and the end of its
\* subscription.
StreamsShowTheLast == S!LastIsShown /\ []S!OpenStreamsHaveABeat

\* Checkpoints: a proof that was mirrored does reach Bitcoin, and the receipts made from
\* then on carry it (anchor.ts pullUpgradedOts).
MirroredIsAttested == C!MirroredIsAttested
==============================================================================
