-------------------------- MODULE MCArchiveQueries --------------------------
(* Four names: 1 and 2 are of one guild, 3 is of another, which also has a row *)
(* of 2 that a newer one replaced; 4 has no row.                               *)
EXTENDS ArchiveQueries

CONSTANTS Red, Blue

FourPlayers == {[id |-> 1, key |-> 1, guild |-> Red, seen |-> 1],
                [id |-> 2, key |-> 2, guild |-> Red, seen |-> 3],
                [id |-> 3, key |-> 3, guild |-> Blue, seen |-> 1],
                [id |-> 4, key |-> 2, guild |-> Blue, seen |-> 2]}

\* 1 and 3 hunt each other, as do 1 and 4; 2 is hunted by 1 and hunts 3.
FewMeetings == {<<1, 2>>, <<1, 3>>, <<3, 1>>, <<2, 3>>, <<1, 4>>, <<4, 1>>}

\* The name of 4 is part of the name of 1.
Substrings == [k \in Names |-> IF k = 4 THEN {1, 4} ELSE {k}]
=============================================================================
