------------------------------ MODULE ReceiptPage ------------------------------
(**************************************************************************)
(* The receipt pages in the payer's browser (receipts/client/main.ts,     *)
(* receipts/page.ts).  One page makes the key of a receipt and re-issues  *)
(* the open intent under the sid the key gives; the other fetches the     *)
(* receipt of a sid with the key, if the browser has it, or takes the key *)
(* from a file.  What is lost is lost for good: the key is nowhere else.  *)
(*                                                                        *)
(* A key is the sid it gives, a file the key in it.  The signature and    *)
(* the encryption of a file are taken to be sound; Receipts has what a    *)
(* receipt says.                                                          *)
(**************************************************************************)
EXTENDS Naturals

CONSTANTS
  Pages,      \* tabs of one browser
  Sids,       \* the receipt sids that come to be derived
  Plain,      \* the intent the payer began with, which has no key; no key
  MaxLosses   \* bound: answers lost, storage cleared

PageAssumption == Plain \notin Sids /\ MaxLosses \in Nat

VARIABLES
  storable,   \* does the browser let the page save?
  stored,     \* localStorage: the sids whose key it has
  files,      \* keys the payer has in a file: [key, locked]
  made,       \* sids a key was made for
  intents,    \* intents of the API
  open,       \* is the first intent still pending?
  page,       \* tab -> [at, sid, key, lazy]
  losses,
  cleared     \* the browser has thrown its storage away

vars == <<storable, stored, files, made, intents, open, page, losses, cleared>>
outside == <<storable, losses, cleared>>

Closed == [at |-> "closed", sid |-> Plain, key |-> Plain, lazy |-> FALSE]

Init ==
  /\ storable \in BOOLEAN /\ stored = {} /\ files = {} /\ made = {} /\ intents = {Plain} /\ open = TRUE
  /\ page = [t \in Pages |-> Closed] /\ losses = 0 /\ cleared = FALSE

At(t, at) == page[t].at = at
Show(t, p) == page' = [page EXCEPT ![t] = p]

\* Nothing but the page changes.
OnlyPage == UNCHANGED <<stored, files, made, intents, open>> /\ UNCHANGED outside

-----------------------------------------------------------------------------
(* The key in the browser *)

LoadKey(s) == IF s \in stored THEN s ELSE Plain
ValidKeyFor(s, key) == key # Plain /\ key = s

\* A browser that does not let the page save throws, and the page goes on.
SaveKey(key) == stored' = IF storable THEN stored \cup {key} ELSE stored

-----------------------------------------------------------------------------
(* /potvrda/nova/:sid *)

\* An intent that has a key already is sent on to its receipt.
OpenNew(t) == At(t, "closed") /\ Show(t, [Closed EXCEPT !.at = "offer"]) /\ OnlyPage

\* A slip: the key is left to the backup.
MakeKeyOnly(t) ==
  /\ At(t, "offer")
  /\ \E s \in Sids \ made :
       made' = made \cup {s} /\ Show(t, [Closed EXCEPT !.at = "asking", !.sid = s, !.key = s])
  /\ UNCHANGED <<stored, files, intents, open>> /\ UNCHANGED outside

\* The button is off from here.  The key is saved before the intent exists.
MakeKey(t) ==
  /\ At(t, "offer")
  /\ \E s \in Sids \ made :
       /\ made' = made \cup {s} /\ SaveKey(s)
       /\ Show(t, [Closed EXCEPT !.at = "asking", !.sid = s, !.key = s])
  /\ UNCHANGED <<files, intents, open>> /\ UNCHANGED outside

\* POST /:sid/receipt-intent: created, or refused, as when the first intent is not pending
\* any more.
ReceiptIntent(t) ==
  /\ At(t, "asking")
  /\ \/ /\ open /\ intents' = intents \cup {page[t].sid}
        /\ Show(t, [page[t] EXCEPT !.at = "created"])
     \/ Show(t, [page[t] EXCEPT !.at = "refused"]) /\ UNCHANGED intents
  /\ UNCHANGED <<stored, files, made, open>> /\ UNCHANGED outside

\* A refusal turns the button on again.
Answered(t) ==
  /\ \/ At(t, "created") /\ Show(t, [page[t] EXCEPT !.at = "ready"])
     \/ At(t, "refused") /\ Show(t, [Closed EXCEPT !.at = "offer"])
  /\ OnlyPage

\* fetch throws and nothing catches it: the page stays as it is.
AnswerLost(t) ==
  /\ At(t, "asking") \/ At(t, "created") \/ At(t, "refused")
  /\ losses < MaxLosses /\ losses' = losses + 1
  /\ Show(t, [page[t] EXCEPT !.at = "stuck"])
  /\ UNCHANGED <<stored, files, made, intents, open, storable, cleared>>

\* The backup, and "Nastavi na placanje" to the checkout of the new sid.
Backup(t) ==
  /\ At(t, "ready") /\ files' = files \cup {[key |-> page[t].key, locked |-> FALSE]}
  /\ UNCHANGED <<stored, made, intents, open, page>> /\ UNCHANGED outside

Continue(t) == At(t, "ready") /\ Show(t, [page[t] EXCEPT !.at = "checkout"]) /\ OnlyPage

-----------------------------------------------------------------------------
(* /potvrda/:sid *)

\* The page asks with a valid key, or without one.
OpenView(t) ==
  /\ At(t, "closed")
  /\ \E s \in intents \ {Plain} :
       LET k == LoadKey(s)
       IN Show(t, [Closed EXCEPT !.at = "loading", !.sid = s,
                                 !.key = IF ValidKeyFor(s, k) THEN k ELSE Plain])
  /\ OnlyPage

\* POST with the signature of a key is refused unless the sid is derived from it; GET
\* gives what anybody may see.
FetchReceipt(t) ==
  LET p == page[t]
  IN /\ p.at = "loading"
     /\ IF p.key \in {Plain, p.sid} THEN Show(t, [p EXCEPT !.at = "shown", !.lazy = p.key # Plain])
        ELSE Show(t, [p EXCEPT !.at = "failed"])
     /\ OnlyPage

FetchLost(t) ==
  /\ At(t, "loading") /\ losses < MaxLosses /\ losses' = losses + 1
  /\ Show(t, [page[t] EXCEPT !.at = "failed"])
  /\ UNCHANGED <<stored, files, made, intents, open, storable, cleared>>

\* A slip: the file is taken for what it says it is.
ImportAny(t, f, opened) ==
  /\ At(t, "shown") /\ page[t].key = Plain /\ f \in files /\ (f.locked => opened)
  /\ SaveKey(f.key) /\ Show(t, [page[t] EXCEPT !.at = "loading", !.key = f.key])
  /\ UNCHANGED <<files, made, intents, open>> /\ UNCHANGED outside

\* Offered to who has no key.  Another password and a file of another receipt are turned
\* down; the key is saved and the receipt fetched again.
Import(t, f, opened) ==
  /\ At(t, "shown") /\ page[t].key = Plain /\ f \in files
  /\ f.locked => opened
  /\ ValidKeyFor(page[t].sid, f.key)
  /\ SaveKey(f.key) /\ Show(t, [page[t] EXCEPT !.at = "loading", !.key = f.key])
  /\ UNCHANGED <<files, made, intents, open>> /\ UNCHANGED outside

\* Part B, on paper or as a file: as it is, or locked with a password.
PartB(t, locked) ==
  /\ At(t, "shown") /\ page[t].key # Plain
  /\ files' = files \cup {[key |-> page[t].key, locked |-> locked]}
  /\ UNCHANGED <<stored, made, intents, open, page>> /\ UNCHANGED outside

-----------------------------------------------------------------------------
(* The first intent, the payer and the browser *)

\* The first intent is paid, or expires.
Close == open /\ open' = FALSE /\ UNCHANGED <<stored, files, made, intents, page>> /\ UNCHANGED outside

\* Closed, reloaded or gone with its browser, whatever it was doing.
Leave(t) == ~ At(t, "closed") /\ Show(t, Closed) /\ OnlyPage

ClearStorage ==
  /\ stored # {} /\ losses < MaxLosses /\ losses' = losses + 1
  /\ stored' = {} /\ cleared' = TRUE
  /\ UNCHANGED <<storable, files, made, intents, open, page>>

NewPage(t)  == OpenNew(t) \/ MakeKey(t) \/ ReceiptIntent(t) \/ Answered(t) \/ AnswerLost(t)
               \/ Backup(t) \/ Continue(t)
ViewPage(t) ==
  \/ OpenView(t) \/ FetchReceipt(t) \/ FetchLost(t)
  \/ \E f \in files, b \in BOOLEAN : Import(t, f, b)
  \/ \E b \in BOOLEAN : PartB(t, b)

Next ==
  \/ \E t \in Pages : NewPage(t) \/ ViewPage(t) \/ Leave(t)
  \/ Close \/ ClearStorage

Spec == Init /\ [][Next]_vars

-----------------------------------------------------------------------------
(* Properties *)

\* The variables stay in their types.
TypeOK ==
  /\ storable \in BOOLEAN /\ cleared \in BOOLEAN /\ losses \in 0..MaxLosses
  /\ stored \subseteq Sids /\ made \subseteq Sids
  /\ files \subseteq [key : Sids, locked : BOOLEAN]
  /\ intents \subseteq Sids \cup {Plain} /\ open \in BOOLEAN
  /\ \A t \in Pages :
       /\ page[t].at \in {"closed", "offer", "asking", "created", "refused", "ready", "stuck",
                          "checkout", "loading", "shown", "failed"}
       /\ page[t].sid \in Sids \cup {Plain} /\ page[t].key \in Sids \cup {Plain}

\* "A payment must never outlive its key" (main.ts 197): whatever answers are lost and
\* tabs closed on the way, an intent under a receipt sid has its key in the browser, unless
\* the browser would not save it or has thrown it away since.
KeyOutlivesPayment == storable /\ ~ cleared => intents \ {Plain} \subseteq stored

\* The page that asks for a receipt never fails for a key of another one, wherever the key
\* comes from; and who has the key is shown what it covers.
OwnKeyOnly ==
  \A t \in Pages : /\ page[t].at = "failed" => losses > 0
                   /\ page[t].at = "shown" => page[t].lazy = (page[t].key = page[t].sid)
==============================================================================
