---------------------------- MODULE WebhookOutbox ----------------------------
(***************************************************************************)
(* The durable outbox of merchant webhooks: an event is a row first, is    *)
(* attempted at once, and what is not delivered is retried by the cron.    *)
(*                                                                         *)
(* An attempt works on the row as it was read, and its marks go by the id  *)
(* alone: nothing checks that the row is still as it was.  A cron run      *)
(* reads up to 25 rows and attempts them one after the other, each for up  *)
(* to 10 seconds, so that it outlives the two minutes to the next run; an  *)
(* attempt of the model is one row read by such a run (or by an enqueue or *)
(* a resend), waiting for its turn or under way.                           *)
(***************************************************************************)
EXTENDS Naturals, FiniteSets, SequencesExt

CONSTANTS
  Events,       \* webhook-ids
  Workers,      \* attempts waiting or under way at the same time
  MaxAttempts,  \* MAX_ATTEMPTS
  Batch,        \* DUE_BATCH
  MaxResends,   \* bound: resends by an operator
  MaxCrashes    \* bound: evictions

OutboxAssumption ==
  /\ MaxAttempts \in Nat \ {0} /\ Batch \in Nat \ {0}
  /\ MaxResends \in Nat /\ MaxCrashes \in Nat

VARIABLES
  rows,      \* event -> its row of webhook_outbox
  due,       \* events whose next_attempt_at has passed, in that order
  tasks,     \* worker -> the attempt it makes
  accepted,  \* events some attempt of which the receiver took
  spent,     \* event -> attempts that failed, up to MaxAttempts; all of them
             \* once the receiver has refused it for good
  resends, crashes

vars == <<rows, due, tasks, accepted, spent, resends, crashes>>

Statuses == {"none", "pending", "delivered", "failed"}
Counts   == 0..MaxAttempts
Row      == [status : Statuses, attempts : Counts]
Task     == [id : Events, attempts : Counts, first : BOOLEAN]
Idle     == << >>

\* What an endpoint may do; "lost" is a 2xx that does not reach the worker.
Answers == {"ok", "lost", "busy", "refused"}

Init ==
  /\ rows = [e \in Events |-> [status |-> "none", attempts |-> 0]]
  /\ due = << >> /\ tasks = [w \in Workers |-> Idle]
  /\ accepted = {} /\ spent = [e \in Events |-> 0]
  /\ resends = 0 /\ crashes = 0

Attempt(w, e, attempts, first) ==
  /\ tasks[w] = Idle
  /\ tasks' = [tasks EXCEPT ![w] = [id |-> e, attempts |-> attempts, first |-> first]]

-----------------------------------------------------------------------------
\* The INSERT OR IGNORE; an id that exists already is left alone.
EnqueueAndDeliver(w, e) ==
  /\ rows[e].status = "none"
  /\ rows' = [rows EXCEPT ![e].status = "pending"]
  /\ Attempt(w, e, 0, TRUE)
  /\ UNCHANGED <<due, accepted, spent, resends, crashes>>

\* next_attempt_at passes; how long that takes is left open, but the first
\* attempt has ended by then (10 s against a minute).
BecomeDue(e) ==
  /\ rows[e].status # "none" /\ e \notin ToSet(due)
  /\ \A w \in Workers : tasks[w] # Idle /\ tasks[w].id = e => ~ tasks[w].first
  /\ due' = Append(due, e)
  /\ UNCHANGED <<rows, tasks, accepted, spent, resends, crashes>>

\* The first of the due events that are listed, as many as fit a batch.
FirstDue(listed) ==
  {due[i] : i \in {j \in DOMAIN due :
     due[j] \in listed /\ Cardinality({k \in 1..j : due[k] \in listed}) <= Batch}}

\* A slip: a row that was never attempted is left to its first attempt.
ListAttempted == FirstDue({e \in Events : rows[e].status = "pending" /\ rows[e].attempts > 0})

ListDue == FirstDue({e \in Events : rows[e].status = "pending"})

DeliverDue(w, e) ==
  /\ e \in ListDue
  /\ Attempt(w, e, rows[e].attempts, FALSE)
  /\ UNCHANGED <<rows, due, accepted, spent, resends, crashes>>

\* An operator's resend: the row is pending again and attempted at once.  When
\* it is due stays as it was.
ResendWebhook(w, e) ==
  /\ rows[e].status # "none" /\ resends < MaxResends
  /\ resends' = resends + 1
  /\ rows' = [rows EXCEPT ![e] = [status |-> "pending", attempts |-> 0]]
  /\ Attempt(w, e, 0, FALSE)
  /\ UNCHANGED <<due, accepted, spent, crashes>>

-----------------------------------------------------------------------------
(* attemptDelivery: send, classify, mark *)

\* A slip: any answer at all counts as delivered.
ClassifyAnswered(answer) ==
  IF answer \in {"ok", "busy"} THEN "delivered"
  ELSE IF answer = "refused" THEN "permanent" ELSE "retry"

ClassifyResponse(answer) ==
  CASE answer = "ok" -> "delivered"
    [] answer \in {"lost", "busy"} -> "retry"
    [] answer = "refused" -> "permanent"

Exhausted(attempts) == attempts >= MaxAttempts

Mark(e, status, attempts) ==
  /\ rows' = [rows EXCEPT ![e] = [status |-> status, attempts |-> attempts]]
  /\ UNCHANGED due

MarkDelivered(w, e, attempts) ==
  /\ Mark(e, "delivered", attempts)
  /\ tasks' = [tasks EXCEPT ![w] = Idle]

\* The status stays: pending, or what another attempt made of it.
MarkRetry(w, e, attempts) ==
  /\ rows' = [rows EXCEPT ![e].attempts = attempts]
  /\ due' = SelectSeq(due, LAMBDA d : d # e)
  /\ tasks' = [tasks EXCEPT ![w] = Idle]

\* The alert to the operator follows.
MarkFailed(w, e, attempts) ==
  /\ Mark(e, "failed", attempts)
  /\ tasks' = [tasks EXCEPT ![w] = Idle]

\* The answer and the mark: what happens between the two does not matter to a
\* mark that reads nothing.
AttemptDelivery(w) ==
  /\ tasks[w] # Idle
  /\ \E answer \in Answers :
       LET e == tasks[w].id
           attempts == tasks[w].attempts + 1
           class == ClassifyResponse(answer)
       IN
       /\ accepted' = IF answer \in {"ok", "lost"} THEN accepted \cup {e} ELSE accepted
       /\ spent' = [spent EXCEPT ![e] =
                      IF answer = "ok" THEN @
                      ELSE IF answer = "refused" \/ @ = MaxAttempts THEN MaxAttempts
                      ELSE @ + 1]
       /\ \/ class = "delivered" /\ MarkDelivered(w, e, attempts)
          \/ class = "retry" /\ ~ Exhausted(attempts) /\ MarkRetry(w, e, attempts)
          \/ class = "retry" /\ Exhausted(attempts) /\ MarkFailed(w, e, attempts)
          \/ class = "permanent" /\ MarkFailed(w, e, attempts)
  /\ UNCHANGED <<resends, crashes>>

Crash(w) ==
  /\ tasks[w] # Idle /\ crashes < MaxCrashes
  /\ crashes' = crashes + 1
  /\ tasks' = [tasks EXCEPT ![w] = Idle]
  /\ UNCHANGED <<rows, due, accepted, spent, resends>>

Cron(e) == \E w \in Workers : DeliverDue(w, e)

Next ==
  \/ \E w \in Workers :
       \/ AttemptDelivery(w) \/ Crash(w)
       \/ \E e \in Events : EnqueueAndDeliver(w, e) \/ DeliverDue(w, e) \/ ResendWebhook(w, e)
  \/ \E e \in Events : BecomeDue(e)

Spec == Init /\ [][Next]_vars

\* Isolates run to their end unless evicted, time passes, and the cron starts
\* every 2 minutes in an isolate of its own and reads every row it lists.
Fairness ==
  /\ \A w \in Workers : WF_vars(AttemptDelivery(w))
  /\ \A e \in Events : WF_vars(BecomeDue(e)) /\ SF_vars(Cron(e))
FairSpec == Spec /\ Fairness

-----------------------------------------------------------------------------
(* Properties *)

\* The type invariant of the outbox.
TypeOK ==
  /\ rows \in [Events -> Row]
  /\ ToSet(due) \subseteq Events /\ IsInjective(due)
  /\ tasks \in [Workers -> Task \cup {Idle}]
  /\ accepted \subseteq Events
  /\ spent \in [Events -> Counts]

\* Whatever attempts overlap, a row says "delivered" only of an event that the
\* receiver has taken, and "failed" only of one that the receiver refused or
\* that had all of its attempts: no stale mark gives up on an event early.
StatusIsEarned ==
  \A e \in Events :
    /\ rows[e].status = "delivered" => e \in accepted
    /\ rows[e].status = "failed" => spent[e] = MaxAttempts

\* The count of a row never runs ahead of the attempts that were made, though
\* two attempts may count as one: an event gets at least MAX_ATTEMPTS.
CountIsEarned ==
  \A e \in Events : rows[e].status \in {"pending", "failed"} => rows[e].attempts <= spent[e]

\* Every event is tried to its end, though the isolate that enqueued it or a
\* cron run is evicted, the due rows do not fit into a batch, and a stale mark
\* sets the count of a row back.
PendingEnds ==
  \A e \in Events : (rows[e].status = "pending") ~> (rows[e].status \in {"delivered", "failed"})

=============================================================================
