------------------------------- MODULE Donations -------------------------------
(**************************************************************************)
(* The indexer of direct donations: EURe that a donor's own wallet sends  *)
(* to the Safe of a campaign.  A run reads the watchlist, the head of the *)
(* chain and a cursor, scans the logs in chunks, hands what it found to   *)
(* pinka-onchain-ingest and moves the cursor.  Cron runs and the manual   *)
(* trigger overlap; the cursor is in Workers KV, so a run may read an     *)
(* older one.                                                             *)
(**************************************************************************)
EXTENDS Naturals, FiniteSets

CONSTANTS
  Runs,        \* isolates that scan
  Payees,      \* Safes of campaigns
  Listed,      \* those on the watchlist from the beginning
  Chunk,       \* CHUNK
  MaxChunks,   \* MAX_CHUNKS_PER_RUN
  Lookback,    \* FIRST_RUN_LOOKBACK
  MaxBlock,    \* bound: blocks, of one transfer each
  MaxFaults    \* bound: calls that fail and isolates evicted

DonationsAssumption ==
  /\ Listed \subseteq Payees
  /\ {Chunk, MaxChunks} \subseteq Nat \ {0} /\ {Lookback, MaxBlock, MaxFaults} \subseteq Nat

Blocks == 1..MaxBlock

VARIABLES
  chain,      \* block -> its transfer: [to, rail, due]
  latest,     \* the newest block
  watchlist,  \* Safes of the campaigns that are active
  cursors,    \* values the cursor has had, by a run that has no older one to read
  run,        \* run -> its progress
  start,      \* the first block that any first run scanned
  credited,   \* blocks whose transfer the ingest has taken
  faults

vars == <<chain, latest, watchlist, cursors, run, start, credited, faults>>
outside == <<chain, latest, watchlist>>

Resting == [pc |-> "idle"]

Init ==
  /\ chain = [b \in Blocks |-> [to |-> "none", rail |-> FALSE, due |-> FALSE]]
  /\ latest = 0 /\ watchlist = Listed /\ cursors = {} /\ start = 0 /\ credited = {} /\ faults = 0
  /\ run = [r \in Runs |-> Resting]

Goes(r, t) == run' = [run EXCEPT ![r] = t]
Lesser(a, b) == IF a < b THEN a ELSE b

-----------------------------------------------------------------------------
(* The chain and the campaigns *)

\* The rail's own payments go to a Safe of before.  due: the Safe was on the list of whatever run may yet scan the block.
Transfer(to, rail) ==
  /\ latest < MaxBlock /\ latest' = latest + 1
  /\ rail => to \in Listed
  /\ chain' = [chain EXCEPT ![latest + 1] =
       [to |-> to, rail |-> rail,
        due |-> /\ to \in watchlist /\ ~ rail
                /\ \A r \in Runs : run[r].pc \in {"idle", "post", "put"} \/ to \in run[r].watch]]
  /\ UNCHANGED <<watchlist, cursors, run, start, credited, faults>>

Launch(s) ==
  /\ s \notin watchlist /\ watchlist' = watchlist \cup {s}
  /\ UNCHANGED <<chain, latest, cursors, run, start, credited, faults>>

-----------------------------------------------------------------------------
(* scanOnchainDonations *)

FetchWatchlist(r) ==
  /\ run[r].pc = "idle" /\ watchlist # {}
  /\ Goes(r, [pc |-> "head", watch |-> watchlist])
  /\ UNCHANGED <<outside, cursors, start, credited, faults>>

GetBlockNumber(r) ==
  /\ run[r].pc = "head" /\ Goes(r, [pc |-> "cursor", watch |-> run[r].watch, head |-> latest])
  /\ UNCHANGED <<outside, cursors, start, credited, faults>>

\* From the block after the cursor, or some way back at the first run; nothing is new if
\* that is past the head.
Begins(r, from) ==
  IF from > run[r].head THEN Goes(r, Resting)
  ELSE Goes(r, [pc |-> "scan", watch |-> run[r].watch, head |-> run[r].head,
                from |-> from, chunks |-> 0, found |-> {}])

\* The newest cursor, or one that an edge of KV still has.
ReadCursor(r) ==
  /\ run[r].pc = "cursor"
  /\ \/ \E c \in cursors : Begins(r, c + 1) /\ UNCHANGED start
     \/ LET from == IF run[r].head > Lookback THEN run[r].head - Lookback ELSE 1 IN
        cursors = {} /\ Begins(r, from) /\ start' = IF from > start THEN from ELSE start
  /\ UNCHANGED <<outside, cursors, credited, faults>>

\* What the run takes for a donation: the rail's own transfers are credited by its webhook.
Donation(r, b) == chain[b].to \in run[r].watch /\ ~ chain[b].rail

\* One eth_getLogs; the next chunk, or what was found is posted.
GetLogs(r) ==
  LET t     == run[r]
      to    == Lesser(t.from + Chunk - 1, t.head)
      found == t.found \cup {b \in t.from..to : Donation(r, b)}
      more  == to < t.head /\ t.chunks + 1 < MaxChunks IN
  /\ t.pc = "scan"
  /\ Goes(r, IF more THEN [t EXCEPT !.from = to + 1, !.chunks = @ + 1, !.found = found]
             ELSE [pc |-> IF found = {} THEN "put" ELSE "post", found |-> found, end |-> to])
  /\ UNCHANGED <<outside, cursors, start, credited, faults>>

\* The receiver takes each transfer once; its answer may be lost.
Post(r) ==
  /\ run[r].pc = "post" /\ credited' = credited \cup run[r].found
  /\ \/ Goes(r, [run[r] EXCEPT !.pc = "put"]) /\ UNCHANGED faults
     \/ faults < MaxFaults /\ faults' = faults + 1 /\ Goes(r, Resting)
  /\ UNCHANGED <<outside, cursors, start>>

\* Only after what was found is with the receiver.
PutCursor(r) ==
  /\ run[r].pc = "put" /\ cursors' = cursors \cup {run[r].end} /\ Goes(r, Resting)
  /\ UNCHANGED <<outside, start, credited, faults>>

\* A call fails or the isolate is evicted: the cursor stays where it was.
Fail(r) ==
  /\ run[r].pc # "idle" /\ faults < MaxFaults /\ faults' = faults + 1 /\ Goes(r, Resting)
  /\ UNCHANGED <<outside, cursors, start, credited>>

ScanOnchainDonations(r) ==
  FetchWatchlist(r) \/ GetBlockNumber(r) \/ ReadCursor(r) \/ GetLogs(r) \/ Post(r) \/ PutCursor(r)

Next ==
  \/ \E r \in Runs : ScanOnchainDonations(r) \/ Fail(r)
  \/ \E s \in Payees : Launch(s) \/ \E rail \in BOOLEAN : Transfer(s, rail)

Spec == Init /\ [][Next]_vars

-----------------------------------------------------------------------------
(* Properties *)

\* No cursor is past a donation that the ingest does not have, from the first run on and for
\* Safes that were on the list in time, and none that the rail has sent is told: "Do NOT
\* advance the cursor on failure", whichever runs overlap and whatever cursor they read.
DonationsAreTold ==
  /\ \A c \in cursors, b \in Blocks : start <= b /\ b <= c /\ chain[b].due => b \in credited
  /\ \A b \in credited : ~ chain[b].rail
=============================================================================
