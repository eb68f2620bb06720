----------------------------- MODULE MCForwarding -----------------------------
(***************************************************************************)
(* Small worlds for Forwarding: what the orders carry, and the intents     *)
(* they may have been meant for.                                           *)
(***************************************************************************)
EXTENDS ForwardingProps, TLC

CONSTANTS o1, o2, s1, s2, s3

Symmetry == Permutations(Workers)

NoneNear == [o \in Orders |-> {}]
AllNear  == [o \in Orders |-> Sids]
Rank     == [s \in Sids |-> IF s = s1 THEN 1 ELSE 2]
One      == [o \in Orders |-> 1]
Two      == [o \in Orders |-> 2]
Three    == [o \in Orders |-> 3]
OnePayee == [s \in Sids |-> "club"]

\* Two payments under one reference: the price, and less than the price.
MemoCarries == [o \in Orders |-> "memo"]
MemoNamed   == [o \in Orders |-> s1]
MemoAmount  == [o \in Orders |-> IF o = o1 THEN 2 ELSE 1]
MemoPrice   == [s \in Sids |-> 2]

\* One payment under the reference of s1, one to a campaign.
CampaignNamed == [o \in Orders |-> IF o = o1 THEN s1 ELSE NoSid]

\* A payment with the short code of s1.
CodeCarries == [o \in Orders |-> "code"]

\* Two payments without a reference, of the price of every intent.  The first
\* may be for either of two payees; the second is too late for the intent of
\* the other one.
StrayCarries == [o \in Orders |-> "stray"]
StrayNamed   == [o \in Orders |-> NoSid]
StrayAmount  == [o \in Orders |-> 2]
StrayNear    == [o \in Orders |-> IF o = o1 THEN Sids ELSE Sids \ {s3}]
TwoPayees    == [s \in Sids |-> IF s = s3 THEN "school" ELSE "club"]

=============================================================================
