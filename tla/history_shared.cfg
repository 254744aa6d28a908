\* Two lanes: a board's lists of players and of guilds share a period's row, and the
\* list of players names the same participants as a registry, in the opposite order.
SPECIFICATION FairSpec
INVARIANT ReadersGetTheirWeek
PROPERTY TransactionsEnd
CONSTANTS
  player = player
  guild = guild
  p1 = p1
  p2 = p2
  g1 = g1
  Workers = {w1}
  Lanes = {1, 2}
  Boards = {b1}
  Subjects = {player, guild}
  Registries = {r1}
  Silent <- BoardLists
  People = {p1, p2, g1}
  Contents <- Opposite
  Periods = 2
  Rollovers = 1
  MaxPolls = 3
  MaxChanges = 0
  MaxFaults = 1
