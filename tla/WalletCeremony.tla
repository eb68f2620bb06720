---------------------------- MODULE WalletCeremony ----------------------------
(****************************************************************************)
(* The passkey prompts of one tab (wallet/src/lib/passkey.ts): the platform *)
(* shows one at a time, and does not always let go of one that was aborted  *)
(* or dismissed, so a new call aborts the one before it and a creation or a *)
(* signature is tried again when the platform is still busy.                *)
(****************************************************************************)
EXTENDS Naturals

CONSTANTS
  Calls,  \* the calls of the tab
  Kinds,  \* Calls -> {"create", "pick", "sign"}, the functions that may be so called
  NoCall

CeremonyAssumption == NoCall \notin Calls

VARIABLES
  kind,      \* what each call is
  at,        \* "idle", "asked", "shown", "wait", "done" or "failed"
  tries,     \* attempts made by each call
  current,   \* whose signal currentWebAuthnAbort is
  aborted,   \* calls whose signal is aborted
  platform   \* whose prompt the platform shows or has not let go of

vars == <<kind, at, tries, current, aborted, platform>>

\* A pick asks in two scopes, the one for old wallets only in one.
Attempts(c) == CASE kind[c] = "sign" -> 3 [] kind[c] = "legacy" -> 1 [] OTHER -> 2

Init ==
  /\ kind \in Kinds /\ at = [c \in Calls |-> "idle"] /\ tries = [c \in Calls |-> 0]
  /\ current = NoCall /\ aborted = {} /\ platform = NoCall

Go(c, where) == at' = [at EXCEPT ![c] = where]

\* A slip: a call that ends forgets whatever signal is kept.
ForgetSignal(c) == NoCall
ClearAbortIfCurrent(c) == IF current = c THEN NoCall ELSE current

\* nextWebAuthnSignal, and the call; an attempt that is repeated has a signal of its own.
NextWebAuthnSignal(c) ==
  /\ at[c] \in {"idle", "wait"} /\ Go(c, "asked")
  /\ tries' = [tries EXCEPT ![c] = @ + 1]
  /\ aborted' = (aborted \cup ({current} \ {NoCall})) \ {c} /\ current' = c
  /\ UNCHANGED <<kind, platform>>

Prompt(c) ==
  /\ at[c] = "asked" /\ c \notin aborted /\ platform = NoCall
  /\ platform' = c /\ Go(c, "shown") /\ UNCHANGED <<kind, tries, current, aborted>>

\* "A request is already pending": waited out, but not by a pick.
AlreadyPending(c) ==
  /\ at[c] = "asked" /\ c \notin aborted /\ platform # NoCall
  /\ Go(c, IF kind[c] # "pick" /\ tries[c] < Attempts(c) THEN "wait" ELSE "failed")
  /\ current' = ClearAbortIfCurrent(c) /\ UNCHANGED <<kind, tries, aborted, platform>>

\* The call ends: the user has chosen; or dismissed it, or it was aborted, and then the
\* platform may hold on to the prompt - and a pick, for which both are the same, goes on
\* to the legacy scope.
Ends(c) ==
  /\ \/ at[c] = "shown" /\ c \notin aborted /\ Go(c, "done") /\ platform' = NoCall
     \/ /\ at[c] = "shown" \/ (at[c] = "asked" /\ c \in aborted)
        /\ Go(c, IF kind[c] = "pick" /\ tries[c] = 1 THEN "wait" ELSE "failed")
        /\ platform' \in {platform, IF platform = c THEN NoCall ELSE platform}
  /\ current' = ClearAbortIfCurrent(c) /\ UNCHANGED <<kind, tries, aborted>>

LetGo ==
  /\ platform # NoCall /\ at[platform] # "shown" /\ platform' = NoCall
  /\ UNCHANGED <<kind, at, tries, current, aborted>>

Next ==
  \/ \E c \in Calls : NextWebAuthnSignal(c) \/ Prompt(c) \/ AlreadyPending(c) \/ Ends(c)
  \/ LetGo

Spec == Init /\ [][Next]_vars
------------------------------------------------------------------------------
TypeOK ==
  /\ at \in [Calls -> {"idle", "asked", "shown", "wait", "done", "failed"}]
  /\ \A c \in Calls : tries[c] <= Attempts(c)
  /\ aborted \subseteq Calls /\ {current, platform} \subseteq Calls \cup {NoCall}

\* However calls overlap, fail and are repeated, only the newest is still going on: a call
\* that ends late never leaves a newer one without the signal that the next one aborts
\* (passkey.ts 201-225).
OnlyNewestGoesOn ==
  \A c \in Calls : at[c] \in {"asked", "shown"} /\ c \notin aborted => current = c
==============================================================================
