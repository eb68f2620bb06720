------------------------------ MODULE IntentApi ------------------------------
(***************************************************************************)
(* POST /api/intents and its kin (intents/api.ts) and the short references *)
(* (intents/shortRef.ts).                                                  *)
(*                                                                         *)
(* Each caller makes one request at a time; every query to the database is *)
(* a step, so the count of the cap and the free codes that were read may   *)
(* be stale when they are used.  All intents here have one tenant and one  *)
(* target that is not trusted.                                             *)
(***************************************************************************)
EXTENDS Naturals, FiniteSets

CONSTANTS
  MaxSid,       \* sids are 1..MaxSid, in their order
  Callers,      \* callers
  Casts,        \* who the callers can be: "app" (brings its sid), "shop" (secret key, its sid is
                \* drawn) or "payer" (brings a receipt sid for an intent there is)
  Own,          \* caller -> the sid it brings, or the first that is drawn for it
  Pools,        \* the codes of each length, shortest first
  ReadAs,       \* code -> what is read of the remittances of a payer who types it
  NoCode,
  Caps,         \* what maxOpenIntentsPerTarget can be
  Attempts,     \* ALLOCATE_ATTEMPTS
  MaxFailures   \* bound: failed queries and lost answers

Sids == 1..MaxSid
Codes == UNION {Pools[i] : i \in DOMAIN Pools}

IntentApiAssumption ==
  /\ MaxSid \in Nat /\ Casts \subseteq [Callers -> {"app", "shop", "payer"}] /\ Own \in [Callers -> Sids]
  /\ 1 \in DOMAIN Pools /\ NoCode \notin Codes /\ DOMAIN ReadAs = Codes
  /\ \A c \in Codes : ReadAs[c] \cap Codes \subseteq {c}   \* the Damm digit catches every slip
  /\ Caps \subseteq Nat \ {0} /\ Attempts \in Nat \ {0}
  /\ MaxFailures \in Nat

VARIABLES
  cast, cap, \* who the callers are, and the cap
  rows,      \* sid -> [state, settled, age, code]: payment_intents; age is where now is:
             \* "open" before expires_at, "late" within the hold, "gone" after it
  holds,     \* code -> the sid of its row in intent_short_refs, 0 without one
  calls,     \* caller -> [pc, sid, pool, tries, pick, answer]
  failures

vars == <<cast, cap, rows, holds, calls, failures>>

Exists(s) == rows[s].state # "none"
\* LIVE_HOLD_SQL.
Live(s)   == rows[s].state # "paid" /\ rows[s].age # "gone"
Open(s)   == rows[s].state = "pending" /\ rows[s].age = "open"

Set(p, r)      == calls' = [calls EXCEPT ![p] = r]
Idle(s, a)     == [pc |-> "idle", sid |-> s, pool |-> 1, tries |-> 0, pick |-> NoCode, answer |-> a]
Answer(p, a)   == Set(p, Idle(calls[p].sid, a))
At(p, pc)      == calls[p].pc = pc

-----------------------------------------------------------------------------
(* Creating an intent *)

\* SR-01: whoever has no secret key is counted.
Capped == {p \in Callers : cast[p] # "shop"}

\* POST /:sid/receipt-intent: there is an intent, still open, that a payer may re-issue.
Reissuable == \E s \in Sids : Open(s)

\* The body, the key, the rail and the whitelist pass, or the caller is refused.  An
\* app that is answered 404 for its sid registers it again.
Request(p) ==
  LET next == IF p \in Capped THEN "count" ELSE "insert" IN
  /\ At(p, "idle") /\ ~ Exists(calls[p].sid)
  /\ cast[p] # "app" => calls[p].answer = "none"
  /\ cast[p] = "payer" => Reissuable
  /\ \/ Set(p, [calls[p] EXCEPT !.pc = next, !.answer = "none"])
     \/ calls[p].answer = "none" /\ Answer(p, "refused")
  /\ UNCHANGED <<cast, cap, rows, holds, failures>>

CountOpen(p) ==
  /\ At(p, "count")
  /\ IF Cardinality({s \in Sids : Open(s)}) >= cap THEN Answer(p, "capped")
     ELSE Set(p, [calls[p] EXCEPT !.pc = "insert"])
  /\ UNCHANGED <<cast, cap, rows, holds, failures>>

CreateIntent(s) ==
  rows' = [rows EXCEPT ![s] = [state |-> "pending", settled |-> FALSE, age |-> "open", code |-> NoCode]]

\* A sid that is taken is a conflict for who brought it; for a shop another is drawn.
Insert(p) ==
  LET s == calls[p].sid IN
  /\ At(p, "insert")
  /\ IF ~ Exists(s) THEN CreateIntent(s) /\ Set(p, [calls[p] EXCEPT !.pc = "pick", !.tries = 0])
     ELSE /\ IF cast[p] # "shop" THEN Answer(p, "conflict")
             ELSE IF calls[p].tries = 2 THEN Answer(p, "error")
             ELSE \E drawn \in Sids : Set(p, [calls[p] EXCEPT !.tries = @ + 1, !.sid = drawn])
          /\ UNCHANGED rows
  /\ UNCHANGED <<cast, cap, holds, failures>>

\* Another failure must not be taken for a conflict; a shop's is tried again.
InsertFails(p) ==
  /\ At(p, "insert") /\ failures < MaxFailures /\ failures' = failures + 1
  /\ IF cast[p] = "shop" /\ calls[p].tries < 2 THEN Set(p, [calls[p] EXCEPT !.tries = @ + 1])
     ELSE Answer(p, "error")
  /\ UNCHANGED <<cast, cap, rows, holds>>

-----------------------------------------------------------------------------
(* Its short code *)

LiveHold(c) == holds[c] # 0 /\ Live(holds[c])

NextPool(p) ==
  IF calls[p].pool + 1 \in DOMAIN Pools
    THEN Set(p, [calls[p] EXCEPT !.pc = "pick", !.pool = @ + 1, !.tries = 0])
    ELSE Answer(p, "created")

\* pickFreeBody: any body of this length that no live intent holds.
PickFreeBody(p) ==
  LET free == {c \in Pools[calls[p].pool] : ~ LiveHold(c)} IN
  /\ At(p, "pick")
  /\ IF free = {} THEN NextPool(p)
     ELSE \E c \in free : Set(p, [calls[p] EXCEPT !.pc = "take", !.pick = c])
  /\ UNCHANGED <<cast, cap, rows, holds, failures>>

\* A slip: the row is replaced whoever holds it.
TakeHeldCode(p) ==
  LET c == calls[p].pick IN
  /\ At(p, "take")
  /\ holds' = [holds EXCEPT ![c] = calls[p].sid] /\ Set(p, [calls[p] EXCEPT !.pc = "name"])
  /\ UNCHANGED <<cast, cap, rows, failures>>

\* The row is taken only when it is absent or dead.
TakeCode(p) ==
  LET c == calls[p].pick IN
  /\ At(p, "take")
  /\ IF ~ LiveHold(c)
       THEN holds' = [holds EXCEPT ![c] = calls[p].sid] /\ Set(p, [calls[p] EXCEPT !.pc = "name"])
       ELSE /\ UNCHANGED holds
            /\ IF calls[p].tries + 1 < Attempts THEN Set(p, [calls[p] EXCEPT !.pc = "pick", !.tries = @ + 1])
               ELSE NextPool(p)
  /\ UNCHANGED <<cast, cap, rows, failures>>

NameIntent(p) ==
  /\ At(p, "name")
  /\ rows' = [rows EXCEPT ![calls[p].sid].code = calls[p].pick] /\ Answer(p, "created")
  /\ UNCHANGED <<cast, cap, holds, failures>>

\* Best effort: an intent without a code is still created.
AllocationFails(p) ==
  /\ calls[p].pc \in {"pick", "take", "name"} /\ failures < MaxFailures /\ failures' = failures + 1
  /\ Answer(p, "created")
  /\ UNCHANGED <<cast, cap, rows, holds>>

\* The isolate or the connection goes before the answer does.
AnswerLost(p) ==
  /\ ~ At(p, "idle") /\ failures < MaxFailures /\ failures' = failures + 1
  /\ Answer(p, "error")
  /\ UNCHANGED <<cast, cap, rows, holds>>

\* findIntentByShortRef, for a payment that brings the code.
FindIntentByShortRef(c) ==
  IF c \in Codes /\ LiveHold(c) /\ Exists(holds[c]) /\ ~ rows[holds[c]].settled THEN holds[c] ELSE 0

-----------------------------------------------------------------------------
(* What becomes of an intent *)

Ages(s) ==
  /\ Exists(s) /\ rows[s].age # "gone"
  /\ rows' = [rows EXCEPT ![s].age = IF @ = "open" THEN "late" ELSE "gone"]
  /\ UNCHANGED <<cast, cap, holds, calls, failures>>

SweepExpiredIntents ==
  LET overdue == {s \in Sids : rows[s].state = "pending" /\ rows[s].age # "open"} IN
  /\ overdue # {}
  /\ rows' = [s \in Sids |-> IF s \in overdue THEN [rows[s] EXCEPT !.state = "expired"] ELSE rows[s]]
  /\ UNCHANGED <<cast, cap, holds, calls, failures>>

\* In full, short, or late: only the first frees the code.
Settled(s, state) ==
  /\ rows[s].state \in {"pending", "expired"} /\ ~ rows[s].settled
  /\ state \in {rows[s].state} \cup (IF rows[s].state = "pending" THEN {"paid"} ELSE {})
  /\ rows' = [rows EXCEPT ![s].state = state, ![s].settled = TRUE]
  /\ UNCHANGED <<cast, cap, holds, calls, failures>>

-----------------------------------------------------------------------------
Init ==
  /\ cast \in Casts /\ cap \in Caps
  /\ rows = [s \in Sids |-> [state |-> "none", settled |-> FALSE, age |-> "open", code |-> NoCode]]
  /\ holds = [c \in Codes |-> 0]
  /\ calls = [p \in Callers |-> Idle(Own[p], "none")]
  /\ failures = 0

Next ==
  \/ \E p \in Callers : \/ Request(p) \/ CountOpen(p) \/ Insert(p) \/ InsertFails(p)
                        \/ PickFreeBody(p) \/ TakeCode(p) \/ NameIntent(p)
                        \/ AllocationFails(p) \/ AnswerLost(p)
  \/ \E s \in Sids : Ages(s) \/ \E state \in {"pending", "expired", "paid"} : Settled(s, state)
  \/ SweepExpiredIntents

Spec == Init /\ [][Next]_vars

-----------------------------------------------------------------------------
(* Properties *)

\* The variables stay in their types.
TypeOK ==
  /\ cast \in Casts /\ cap \in Caps
  /\ rows \in [Sids -> [state : {"none", "pending", "paid", "expired"}, settled : BOOLEAN,
                        age : {"open", "late", "gone"}, code : Codes \cup {NoCode}]]
  /\ holds \in [Codes -> 0..MaxSid]
  /\ \A p \in Callers : calls[p].sid \in Sids /\ calls[p].pool \in DOMAIN Pools

\* A payer who has read an intent's code, off the screen or a screenshot, is taken for
\* the payer of that intent or of none, as long as it can still be paid, also with a
\* digit typed wrong or two swapped (shortRef.ts, "catches every single wrong digit").
CodeNamesItsIntent ==
  \A s \in Sids : (rows[s].code # NoCode /\ Live(s)) =>
    \A c \in ReadAs[rows[s].code] : FindIntentByShortRef(c) \in {s, 0}

\* Whoever was told that the sid is registered, 409 included, has it.
AcceptedExists ==
  \A p \in Callers : calls[p].answer \in {"created", "conflict"} => Exists(calls[p].sid)
=============================================================================
