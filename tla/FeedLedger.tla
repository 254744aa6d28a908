----------------------------- MODULE FeedLedger -----------------------------
(***************************************************************************)
(* What the encounter feed promises, without saying how: for every webhook *)
(* that has joined, each archived encounter is first open, then announced  *)
(* in the channel, then settled, which is for ever.  Only two things may   *)
(* settle an encounter that was never announced: it was history when the   *)
(* webhook joined, or a replay of captures archived it and withdrew it.    *)
(* What a live poll archived is never withdrawn.  Delivery is at least     *)
(* once: announcing again is a stuttering step here.                       *)
(***************************************************************************)
CONSTANTS Encounters, Webhooks

VARIABLES
  archived,  \* the encounters in the archive
  live,      \* those of them that a live poll archived
  joined,    \* the webhooks the feed has taken up
  ledger     \* what has become of each encounter at each webhook

ledgerVars == <<archived, live, joined, ledger>>

Stages == {"open", "announced", "settled"}

Init ==
  /\ archived = {}
  /\ live = {}
  /\ joined = {}
  /\ ledger = [p \in Encounters \X Webhooks |-> "open"]

\* A poll or a replay archives what it found that is new.
Archive ==
  /\ \E found \in SUBSET (Encounters \ archived) :
       /\ archived' = archived \cup found
       /\ live' \in {live, live \cup found}
  /\ UNCHANGED <<joined, ledger>>

\* The new ledger settles the pairs of S and leaves the others alone.
Settles(S) ==
  ledger' = [p \in Encounters \X Webhooks |-> IF p \in S THEN "settled" ELSE ledger[p]]

\* A webhook joins: some of the archive is settled as its history.
Join(h) ==
  /\ h \notin joined
  /\ joined' = joined \cup {h}
  /\ \E past \in SUBSET archived : Settles(past \X {h})
  /\ UNCHANGED <<archived, live>>

\* The channel shows the encounter for the first time.
Announce(e, h) ==
  /\ e \in archived /\ h \in joined
  /\ ledger[<<e, h>>] = "open"
  /\ ledger' = [ledger EXCEPT ![<<e, h>>] = "announced"]
  /\ UNCHANGED <<archived, live, joined>>

\* The feed records that the encounter was announced.
Settle(e, h) ==
  /\ ledger[<<e, h>>] = "announced"
  /\ Settles({<<e, h>>})
  /\ UNCHANGED <<archived, live, joined>>

\* A replay withdraws, everywhere, encounters no live poll archived.
Withdraw ==
  /\ \E muted \in SUBSET (archived \ live) : Settles(muted \X joined)
  /\ UNCHANGED <<archived, live, joined>>

Next ==
  \/ Archive \/ Withdraw
  \/ \E h \in Webhooks :
       \/ Join(h)
       \/ \E e \in Encounters : Announce(e, h) \/ Settle(e, h)

Spec == Init /\ [][Next]_ledgerVars
=============================================================================
