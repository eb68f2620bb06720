----------------------------- MODULE IntentStream -----------------------------
(***************************************************************************)
(* The server-sent events of one payment intent: a Durable Object that     *)
(* holds the open streams of a sid, and re-reads the database on every     *)
(* poke of a writer and on every heartbeat.                                *)
(*                                                                         *)
(* The object is single-threaded but gives way at every `await`, so the    *)
(* subscriptions and refreshes of one sid interleave.  The status of the   *)
(* intent is a number that only grows.  A frame is written when `send` is  *)
(* called and its promise settles later.                                   *)
(***************************************************************************)
EXTENDS Naturals, Integers, FiniteSets

CONSTANTS
  Clients,   \* connections that may be opened
  Pokes,     \* pokes that may be under way at the same time
  Last,      \* the last version of the status
  Terminal,  \* versions with a terminal stage (an expired intent may go on)
  MaxSinks   \* MAX_SINKS_PER_SID

StreamAssumption ==
  Last \in Nat /\ Terminal \subseteq 0..Last /\ Last \in Terminal /\ MaxSinks \in Nat

VARIABLES
  db,        \* the version of the status in the database
  sinks,     \* StreamHub.sinks
  lastKey,   \* StreamHub.lastKey; -1: nothing read yet
  shown,     \* client -> the last version written to it; -1: none
  gone,      \* clients that went away
  beating,   \* the heartbeat timer is running
  sub,       \* client -> its run of subscribe()
  refresh    \* "beat" or a poke -> its run of refresh()

vars == <<db, sinks, lastKey, shown, gone, beating, sub, refresh>>

Beat       == "beat"
Refreshers == Pokes \cup {Beat}
Versions   == 0..Last
SubPCs     == {"new", "joining", "reading", "read", "sending", "announcing", "done"}
RefreshPCs == {"idle", "reading", "read", "sending"}

NoRead(pc) == [pc |-> pc, val |-> -1, changed |-> FALSE]
Resting    == [pc |-> "idle", val |-> -1]

Init ==
  /\ db = 0 /\ sinks = {} /\ lastKey = -1 /\ gone = {} /\ beating = FALSE
  /\ shown = [c \in Clients |-> -1]
  /\ sub = [c \in Clients |-> NoRead("new")]
  /\ refresh = [r \in Refreshers |-> Resting]

Full == Cardinality(sinks) >= MaxSinks

SubGoto(c, pc)     == sub' = [sub EXCEPT ![c].pc = pc]
SubEnds(c)         == sub' = [sub EXCEPT ![c] = NoRead("done")]
StartBeat(open)    == beating' = (beating \/ open # {})
RefreshGoto(r, pc) == refresh' = [refresh EXCEPT ![r].pc = pc]
Rests(r)           == refresh' = [refresh EXCEPT ![r] = Resting]

\* broadcast writes the frame to every sink before it first gives way.
Write(to, v) == shown' = [c \in Clients |-> IF c \in to THEN v ELSE shown[c]]

\* The end of broadcast: the sends that failed drop their sinks, and after a
\* terminal frame closeAll closes whatever is in the set by then.
Broadcasted(v) == IF v \in Terminal THEN {} ELSE sinks \ gone

-----------------------------------------------------------------------------
(* subscribe() *)

\* The limit is read by fetch and again by subscribe; the answer is 429 or a
\* stream that is closed at once.
Connect(c) ==
  /\ sub[c].pc = "new"
  /\ SubGoto(c, IF Full THEN "done" ELSE "joining")
  /\ UNCHANGED <<db, sinks, lastKey, shown, gone, beating, refresh>>

Join(c) ==
  /\ sub[c].pc = "joining"
  /\ IF Full THEN SubEnds(c) /\ StartBeat(sinks)
             ELSE SubGoto(c, "reading") /\ UNCHANGED beating
  /\ UNCHANGED <<db, sinks, lastKey, shown, gone, refresh>>

ReadSnapshot(c) ==
  /\ sub[c].pc = "reading"
  /\ sub' = [sub EXCEPT ![c] = [@ EXCEPT !.pc = "read", !.val = db]]
  /\ UNCHANGED <<db, sinks, lastKey, shown, gone, beating, refresh>>

\* A slip: the key is set before it is compared.
SendSnapshotKeyFirst(c) ==
  /\ sub[c].pc = "read"
  /\ lastKey' = sub[c].val
  /\ SubGoto(c, "sending")
  /\ Write({c}, sub[c].val)
  /\ UNCHANGED <<db, sinks, gone, beating, refresh>>

SendSnapshot(c) ==
  /\ sub[c].pc = "read"
  /\ lastKey' = sub[c].val
  /\ sub' = [sub EXCEPT ![c] = [@ EXCEPT !.pc = "sending", !.changed = sub[c].val # lastKey]]
  /\ Write({c}, sub[c].val)
  /\ UNCHANGED <<db, sinks, gone, beating, refresh>>

\* The client has taken its snapshot, or has gone away and nobody else hears
\* of what was read for it.
AddSink(c) ==
  LET v == sub[c].val IN
  /\ sub[c].pc = "sending"
  /\ IF c \in gone
     THEN SubEnds(c) /\ StartBeat(sinks) /\ UNCHANGED <<sinks, shown>>
     ELSE /\ sinks' = IF v \in Terminal THEN sinks ELSE sinks \cup {c}
          /\ SubGoto(c, "announcing")
          /\ IF sub[c].changed THEN Write(sinks \ {c}, v) ELSE UNCHANGED shown
          /\ UNCHANGED beating
  /\ UNCHANGED <<db, lastKey, gone, refresh>>

\* However subscribe() returns, the heartbeat starts if it is not running.
Subscribed(c) ==
  /\ sub[c].pc = "announcing"
  /\ sinks' = IF sub[c].changed THEN Broadcasted(sub[c].val) ELSE sinks
  /\ StartBeat(sinks')
  /\ SubEnds(c)
  /\ UNCHANGED <<db, lastKey, shown, gone, refresh>>

\* MAX_STREAM_MS after the subscription.
Expire(c) ==
  /\ sub[c].pc = "done" /\ c \in sinks
  /\ sinks' = sinks \ {c}
  /\ UNCHANGED <<db, lastKey, shown, gone, beating, sub, refresh>>

-----------------------------------------------------------------------------
(* refresh() *)

StopIfIdle(open) == beating' = (beating /\ open # {})

Poke(r) ==
  /\ r \in Pokes /\ refresh[r].pc = "idle"
  /\ IF sinks = {} THEN UNCHANGED refresh ELSE RefreshGoto(r, "reading")
  /\ IF sinks = {} THEN StopIfIdle(sinks) ELSE UNCHANGED beating
  /\ UNCHANGED <<db, sinks, lastKey, shown, gone, sub>>

\* A heartbeat: the ping finds out who has gone, then refresh() runs.  One
\* that is late overlaps the next; a poke stands for it.
Heartbeat ==
  /\ beating /\ refresh[Beat].pc = "idle"
  /\ sinks' = sinks \ gone
  /\ IF sinks' = {} THEN UNCHANGED refresh ELSE RefreshGoto(Beat, "reading")
  /\ StopIfIdle(sinks')
  /\ UNCHANGED <<db, lastKey, shown, gone, sub>>

ReadStatus(r) ==
  /\ refresh[r].pc = "reading"
  /\ refresh' = [refresh EXCEPT ![r] = [pc |-> "read", val |-> db]]
  /\ UNCHANGED <<db, sinks, lastKey, shown, gone, beating, sub>>

Broadcast(r) ==
  LET v == refresh[r].val IN
  /\ refresh[r].pc = "read"
  /\ IF v = lastKey
     THEN Rests(r) /\ StopIfIdle(sinks) /\ UNCHANGED <<lastKey, shown>>
     ELSE /\ lastKey' = v
          /\ Write(sinks, v)
          /\ RefreshGoto(r, "sending")
          /\ UNCHANGED beating
  /\ UNCHANGED <<db, sinks, gone, sub>>

Refreshed(r) ==
  /\ refresh[r].pc = "sending"
  /\ sinks' = Broadcasted(refresh[r].val)
  /\ Rests(r)
  /\ StopIfIdle(sinks')
  /\ UNCHANGED <<db, lastKey, shown, gone, sub>>

-----------------------------------------------------------------------------
\* A write that computeStage can see.
Change ==
  /\ db < Last
  /\ \E v \in (db + 1)..Last : db' = v
  /\ UNCHANGED <<sinks, lastKey, shown, gone, beating, sub, refresh>>

Leave(c) ==
  /\ c \notin gone /\ sub[c].pc # "new"
  /\ gone' = gone \cup {c}
  /\ UNCHANGED <<db, sinks, lastKey, shown, beating, sub, refresh>>

Subscribe(c) ==
  \/ Join(c) \/ ReadSnapshot(c) \/ SendSnapshot(c) \/ AddSink(c) \/ Subscribed(c)
Refresh(r) == ReadStatus(r) \/ Broadcast(r) \/ Refreshed(r)

Next ==
  \/ \E c \in Clients : Connect(c) \/ Subscribe(c) \/ Expire(c) \/ Leave(c)
  \/ \E r \in Refreshers : Poke(r) \/ Refresh(r)
  \/ Heartbeat \/ Change

Spec == Init /\ [][Next]_vars

-----------------------------------------------------------------------------
(* Properties *)

\* The type invariant of the stream of one intent.
TypeOK ==
  /\ db \in Versions /\ lastKey \in Versions \cup {-1}
  /\ sinks \subseteq Clients /\ gone \subseteq Clients
  /\ shown \in [Clients -> Versions \cup {-1}]
  /\ beating \in BOOLEAN
  /\ sub \in [Clients -> [pc : SubPCs, val : Versions \cup {-1}, changed : BOOLEAN]]
  /\ refresh \in [Refreshers -> [pc : RefreshPCs, val : Versions \cup {-1}]]

\* The timer runs whenever a stream is open, except for the moment between
\* the opening of the first one and the end of its subscription: a poke or a
\* heartbeat that stops the timer never leaves an open stream without one.
OpenStreamsHaveABeat ==
  sinks # {} => beating \/ \E c \in Clients : sub[c].pc = "announcing"

\* Timers and continuations run, a send settles, and an intent reaches a
\* terminal stage in the end (the cron expires it).  Pokes may all be missed,
\* no client need come or go.
Fairness ==
  /\ \A c \in Clients : WF_vars(Subscribe(c))
  /\ \A r \in Refreshers : WF_vars(Refresh(r))
  /\ WF_vars(Heartbeat) /\ WF_vars(Change)
FairSpec == Spec /\ Fairness

\* A stream that was open before the last change is shown it, whatever pokes
\* are missed and however subscriptions and refreshes overlap - unless the one
\* that read it was a client that went away before taking it.
LastIsShown ==
  \A c \in Clients :
    (c \in sinks /\ db < Last) ~>
      (c \notin sinks \/ shown[c] = Last \/ \E d \in gone : shown[d] = Last)

\* No stream stays open after its terminal frame.
TerminalCloses ==
  \A c \in Clients : (shown[c] \in Terminal) ~> (c \notin sinks)

\* "a missed poke delays an update by at most one heartbeat instead of losing
\* it" (stream.ts): an open stream is shown the last change or closed.
NoUpdateIsLost ==
  \A c \in Clients : (c \in sinks) ~> (c \notin sinks \/ shown[c] = Last)

=============================================================================
