----------------------------- MODULE ForwardRows -----------------------------
(***************************************************************************)
(* The table monerium_forwards: one row per attempt to move the money of   *)
(* one Monerium order.  A row's id is its position in the sequence `rows`  *)
(* (AUTOINCREMENT).  The two partial unique indexes of migrations 0016 and *)
(* 0018 are the latches that every money-moving path rests on; a row then  *)
(* changes state only through the guarded UPDATE of transitionForward.     *)
(*                                                                         *)
(* The pair (status, error) of a row is kept as one state name.  Two names *)
(* stand for the one logical state `parked`: "blocked" (status blocked)    *)
(* and "unrouted" (status failed, error no_routing_target), because the    *)
(* admin retry tells them apart.                                           *)
(***************************************************************************)
EXTENDS RailConstants, Sequences

VARIABLE rows

Pending   == {"broadcasting", "owed"}
Confirmed == {"forwarded", "settled_noop", "contribution"}
Live      == Pending \cup {"submitted"} \cup Confirmed
Parked    == {"blocked", "unrouted"}
States    == Live \cup Parked \cup {"failed", "resolved_offrail"}
Terminal  == States \ (Pending \cup {"submitted"})

\* How the row found its intent: memo_prefix of the row ("memo" stands for
\* the prefixes mpt and cmp that come from the remittance itself).
Vias     == {"memo", "code", "auto", "manual", "offrail"}
Resolved == {"auto", "manual"}

Row == [order : Orders, sid : Sids \cup {NoSid}, via : Vias,
        state : States, hashed : BOOLEAN]

\* FORWARD_TRANSITIONS: the only edges a stored row may take.
From == [broadcast_ok      |-> "broadcasting",
         broadcast_failed  |-> "broadcasting",
         owners_transfer   |-> "owed",
         router_claim      |-> "owed",
         receipt_confirmed |-> "submitted",
         receipt_failed    |-> "submitted"]

To == [broadcast_ok      |-> "submitted",
       broadcast_failed  |-> "failed",
       owners_transfer   |-> "submitted",
       router_claim      |-> "broadcasting",
       receipt_confirmed |-> "forwarded",
       receipt_failed    |-> "failed"]

Ids == DOMAIN rows

LiveRow(o) == \E i \in Ids : rows[i].order = o /\ rows[i].state \in Live

\* getForwardByOrder: the newest row of the order, whatever its state; 0 when
\* the order has none.
GetForwardByOrder(o) ==
  IF \E i \in Ids : rows[i].order = o
  THEN CHOOSE i \in Ids : /\ rows[i].order = o
                          /\ \A j \in Ids : rows[j].order = o => j <= i
  ELSE 0

LatestIn(o, S) == LET i == GetForwardByOrder(o)
                  IN  i # 0 /\ rows[i].state \in S

\* Slips of ux_forwards_live: without 'broadcasting' in the index, and with
\* rows in flight only.
LatchWithoutPending(r) ==
  r.state \in Live => ~ \E i \in Ids : rows[i].order = r.order /\ rows[i].state \in Live \ Pending
LatchInFlightOnly(r) ==
  r.state \in Live => ~ \E i \in Ids : rows[i].order = r.order /\ rows[i].state \in Live \ Confirmed

\* ux_forwards_live: at most one live row per order.
OrderLatchFree(r) ==
  r.state \in Live => ~ LiveRow(r.order)

\* A slip of ux_forwards_resolved_sid: over the resolver's rows only.
SidLatchOfResolver(r) ==
  (r.state \in Live /\ r.via = "auto") =>
    \A i \in Ids : ~ (rows[i].sid = r.sid /\ rows[i].via = "auto" /\ rows[i].state \in Live)

\* ux_forwards_resolved_sid: at most one live row per intent among the rows
\* the resolver or an operator attached to it.
SidLatchFree(r) ==
  (r.state \in Live /\ r.via \in Resolved) =>
    \A i \in Ids : ~ /\ rows[i].sid = r.sid
                     /\ rows[i].via \in Resolved
                     /\ rows[i].state \in Live

\* insertForward with ON CONFLICT DO NOTHING: Inserts(r) says whether the
\* INSERT takes effect, InsertForward(r) is its effect.
Inserts(r)       == OrderLatchFree(r) /\ SidLatchFree(r)
InsertForward(r) == rows' = Append(rows, r)

\* transitionForward: UPDATE ... WHERE id = i AND state = From[event].
TransitionForward(i, event, hashed) ==
  rows' = IF rows[i].state = From[event]
          THEN [rows EXCEPT ![i] = [@ EXCEPT !.state = To[event], !.hashed = hashed]]
          ELSE rows

RowsTypeOK == rows \in Seq(Row)

\* The latch of migration 0016, seen from the outside: whatever deliveries,
\* cron runs and operators do, an order never has two live forwards, through
\* every change of state its rows go through after their INSERT.
OneLiveForward ==
  \A i, j \in Ids : rows[i].order = rows[j].order
                    /\ rows[i].state \in Live /\ rows[j].state \in Live => i = j

=============================================================================
