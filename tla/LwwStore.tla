------------------------------ MODULE LwwStore ------------------------------
(***************************************************************************)
(* What the store behind /api/sync promises its devices (docs/accounts.md: *)
(* "per-item last-write-wins on `updated_at`"): a batch of versions is     *)
(* merged in one step, item by item, and the version with the later time   *)
(* wins.  A tombstone is a version like any other.                         *)
(***************************************************************************)
EXTENDS Naturals

CONSTANTS Items, Versions, None

VARIABLE rows  \* the version of each item, or None

\* Of two versions of one time, the first to arrive stays.
Wins(new, old) == old = None \/ old.at < new.at

Merge(batch) ==
  rows' = [i \in Items |-> IF i \in DOMAIN batch /\ Wins(batch[i], rows[i])
                           THEN batch[i] ELSE rows[i]]

Init == rows = [i \in Items |-> None]

Next == \E I \in SUBSET Items : \E batch \in [I -> Versions] : Merge(batch)

Spec == Init /\ [][Next]_rows
=============================================================================
