\* One worker, two lanes, three labels of a board's list of players, who change
\* places, a week that ends, one fault.
SPECIFICATION Spec
INVARIANTS RevisionsGoForward RevisionsAreReal
PROPERTY FixedChangesAreRevised
SYMMETRY Alike
CONSTANTS
  player = player
  guild = guild
  p1 = p1
  p2 = p2
  g1 = g1
  Workers = {w1}
  Lanes = {l1, l2}
  Boards = {b1}
  Subjects = {player}
  Registries = {}
  Silent = {}
  People = {p1, p2}
  Contents <- Orders
  Periods = 3
  Rollovers = 1
  MaxPolls = 3
  MaxChanges = 1
  MaxFaults = 1
