-------------------------- MODULE MCEncounterFeed --------------------------
(* Instances of EncounterFeed for TLC. *)
EXTENDS EncounterFeed, TLC

CONSTANTS h1, h2

TwoHooks == {<<h1, h2>>}

\* A redeploy switches the feed on or off.
OffOrOn == {<<>>, <<h1>>}

WorkerSymmetry == Permutations(Workers)
=============================================================================
