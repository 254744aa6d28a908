------------------------ MODULE MCLeaderboardHistory ------------------------
(***************************************************************************)
(* Instances of LeaderboardHistory for TLC: two players, who may change    *)
(* places, a guild, and the lists that show them.                          *)
(***************************************************************************)
EXTENDS LeaderboardHistory, TLC

CONSTANTS player, guild, p1, p2, g1

Entry(p, n) == [who |-> p, score |-> n]
P1First == <<Entry(p1, 2), Entry(p2, 1)>>
P2First == <<Entry(p2, 2), Entry(p1, 1)>>

\* Lists of players in any order.
Orders == [x \in Sources |-> {P1First, P2First}]

\* A board of players, one of guilds, and a registry that has the players the other
\* way round.
Opposite ==
  [x \in Sources |->
     {CASE x \in Registries -> P2First
        [] x \in Lists /\ x[2] = player -> P1First
        [] x \in Lists /\ x[2] = guild -> <<Entry(g1, 1)>>}]

\* The boards know nothing of the profile that the registries know.
BoardLists == Lists

\* Neither the lanes of a run nor the two players differ in anything.
Alike == Permutations(Lanes) \cup Permutations({p1, p2})
=============================================================================
