--------------------------- MODULE ArchiveQueries ---------------------------
(***************************************************************************)
(* What the site, its API, the stream overlay and the slash commands tell  *)
(* of the encounter archive: the SQL of src/src/lib/data.ts as sets and    *)
(* functions over the archive's rows, and the arithmetic that              *)
(* analytics/metrics.ts, overlay/model.ts, discord/commands.ts and         *)
(* discord/embeds.ts put on top.  The same figure is computed in several   *)
(* places, in two languages, over different sets of rows; the properties   *)
(* say where the places must agree.                                        *)
(*                                                                         *)
(* A name is its lower-case form, which every query matches by; only the   *)
(* order of two names tells, so it is a number.  A tick of the clock is a  *)
(* day.                                                                    *)
(***************************************************************************)
EXTENDS Integers, FiniteSets, Folds, Functions, FiniteSetsExt

CONSTANTS
  Names,          \* the names that occur
  Players,        \* the player rows of participants: [id, key, guild, seen]
  NamesWithin,    \* NamesWithin[k]: the lower-case names that contain k
  None,
  CycleLength,    \* days in a leaderboard cycle
  DossierRows,    \* encounters a dossier carries (100)
  HistoryRows,    \* encounters on a page of a history (50)
  SearchRows,     \* encounters a slash command searches (25)
  Meetings,       \* bound of the instance: who hunts whom, as pairs of names
  MaxEncounters,  \* bound of the instance: rows of the archive
  MaxTime         \* bound of the instance: days

Listed == {p.key : p \in Players}

ASSUME ConstantsAssumption ==
  /\ Names \subseteq Nat /\ IsFiniteSet(Players)
  /\ \A p \in Players : p.key \in Names /\ p.seen \in Nat
  /\ \A p, q \in Players : (p.id = q.id \/ (p.key = q.key /\ p.seen = q.seen)) => p = q
  /\ NamesWithin \in [Names -> SUBSET Names] /\ \A k \in Names : k \in NamesWithin[k]
  /\ CycleLength \in Nat \ {0} /\ DossierRows \in Nat \ {0}
  /\ HistoryRows \in Nat \ {0} /\ SearchRows \in Nat \ {0}
  /\ Meetings \subseteq Names \X Names
  /\ MaxEncounters \in Nat /\ MaxTime \in Nat
  /\ None \notin Nat

VARIABLES
  archive,  \* bounty_encounters; the id breaks ties of the event time
  cycle,    \* the leaderboard cycle last polled as CURRENT, or None
  clock

vars == <<archive, cycle, clock>>

Encounter ==
  [id : 1 .. MaxEncounters, at : 0 .. MaxTime, hunter : Names, target : Names,
   outcome : {"KILL", "FAILED"}, credits : 1 .. MaxEncounters]

----------------------------------------------------------------------------
(* Rows *)

Hunted(E, k) == {e \in E : e.hunter = k}
Targeted(E, k) == {e \in E : e.target = k}
Involving(E, k) == Hunted(E, k) \union Targeted(E, k)
Kills(E) == {e \in E : e.outcome = "KILL"}
Failures(E) == {e \in E : e.outcome = "FAILED"}
Count(E) == Cardinality(E)
Credits(E) == SumFunction([e \in Kills(E) |-> e.credits])
Best(E) == IF Kills(E) = {} THEN 0 ELSE Max({e.credits : e \in Kills(E)})

CycleOf(day) == day \div CycleLength
CycleStart(c) == c * CycleLength
CycleEnd(c) == (c + 1) * CycleLength
During(E, c) == {e \in E : CycleStart(c) <= e.at /\ e.at < CycleEnd(c)}
OnDay(E, day) == {e \in E : e.at = day}

\* The order of the lists of encounters: by event time, then id (a dossier's leaves open
\* which of two at one time comes first, data.ts:927).
Before(x, y) == x.at < y.at \/ (x.at = y.at /\ x.id < y.id)
Newest(E, n) == {e \in E : Count({x \in E : Before(e, x)}) < n}

----------------------------------------------------------------------------
(* The record of a hunter (attachHunterStats) and the weekly report *)

\* The CTE actor_events: a row of the archive once for its hunter, once for
\* its target.
ActorEvents(E) ==
  {[key |-> e.hunter, hunts |-> TRUE, e |-> e] : e \in E}
    \union {[key |-> e.target, hunts |-> FALSE, e |-> e] : e \in E}

Tally(A) ==
  LET hunts == {a \in A : a.hunts}
      kills == {a \in hunts : a.e.outcome = "KILL"}
      targeted == {a \in A : ~a.hunts}
      dies == {a \in A : a.hunts = (a.e.outcome = "FAILED")}
  IN [encounters |-> Count(hunts), kills |-> Count(kills), failures |-> Count(hunts \ kills),
      deaths |-> Count(dies), credits |-> SumFunction([a \in kills |-> a.e.credits]),
      targeted |-> Count(targeted), targetDeaths |-> Count(targeted \intersect dies)]

HunterStats(E, k) ==
  LET mine == {a \in ActorEvents(E) : a.key = k}
  IN [known |-> cycle # None,
      cycle |-> Tally(IF cycle = None THEN {} ELSE {a \in mine : a.e \in During({a.e}, cycle)}),
      overall |-> Tally(mine)]

ReportSummary(E, c) ==
  LET R == During(E, c)
  IN [encounters |-> Count(R), claims |-> Count(Kills(R)), failures |-> Count(Failures(R)),
      credits |-> Credits(R), hunters |-> Count({e.hunter : e \in R}),
      targets |-> Count({e.target : e \in R}), days |-> Count({e.at : e \in R})]

ReportHunters(E, c) ==
  LET A == ActorEvents(During(E, c))
  IN [k \in {a.key : a \in {b \in A : b.hunts}} |-> Tally({a \in A : a.key = k})]

ReportTargets(E, c) ==
  LET R == During(E, c)
  IN [k \in {e.target : e \in R} |->
        [targeted |-> Count(Targeted(R, k)), killed |-> Count(Kills(Targeted(R, k))),
         survived |-> Count(Failures(Targeted(R, k)))]]

\* A mutant of ReportDays: today is left out.
ReportDaysBeforeToday(E, c) ==
  [day \in CycleStart(c) .. Min({CycleEnd(c) - 1, clock - 1}) |->
     LET R == OnDay(During(E, c), day)
     IN [encounters |-> Count(R), claims |-> Count(Kills(R)),
         failures |-> Count(Failures(R)), credits |-> Credits(R)]]

\* Every elapsed day of the cycle, zero-filled when quiet.
ReportDays(E, c) ==
  [day \in CycleStart(c) .. Min({CycleEnd(c) - 1, clock}) |->
     LET R == OnDay(During(E, c), day)
     IN [encounters |-> Count(R), claims |-> Count(Kills(R)),
         failures |-> Count(Failures(R)), credits |-> Credits(R)]]

LargestClaim(E, c) == Best(During(E, c))

----------------------------------------------------------------------------
(* The directory of hunters and the numbers of the whole archive *)

\* encounter_metrics, by the hunters' names.
DirectoryMetrics(E) ==
  [k \in {e.hunter : e \in E} |->
     [encounters |-> Count(Hunted(E, k)), wins |-> Count(Kills(Hunted(E, k))),
      losses |-> Count(Failures(Hunted(E, k))), credits |-> Credits(Hunted(E, k)),
      highest |-> Best(Hunted(E, k)), targets |-> Count({e.target : e \in Hunted(E, k)}),
      days |-> Count({e.at : e \in Hunted(E, k)})]]

ArchiveStats(E) ==
  [encounters |-> Count(E), today |-> Count(OnDay(E, clock)),
   hunters |-> Count({e.hunter : e \in E}), targets |-> Count({e.target : e \in E}),
   names |-> Count({e.hunter : e \in E} \union {e.target : e \in E}),
   outcomes |-> [o \in {e.outcome : e \in E} |-> Count({e \in E : e.outcome = o})],
   \* the dashboard's activity, by day
   activity |-> [day \in {e.at : e \in E} |->
                   [encounters |-> Count(OnDay(E, day)), kills |-> Count(Kills(OnDay(E, day))),
                    credits |-> Credits(OnDay(E, day))]]]

----------------------------------------------------------------------------
(* Rivalries, three times *)

Between(E, a, b) ==
  {e \in E : {e.hunter, e.target} = {a, b}}

\* lag(...) OVER (ORDER BY event_at, id) over the kills of one pair
PreviousKill(K, e) == {x \in K : Before(x, e) /\ \A y \in K : ~(Before(x, y) /\ Before(y, e))}
Revenges(K) == {e \in K : \E x \in PreviousKill(K, e) : x.hunter = e.target}

Won(E, k) == {e \in E : \/ e.outcome = "KILL" /\ e.hunter = k
                        \/ e.outcome = "FAILED" /\ e.target = k}

\* A row of the rivalries page: both sides at once.
RivalryRow(E, a, b) ==
  LET M == Between(E, a, b)
  IN [encounters |-> Count(M), winsA |-> Count(Won(M, a)), winsB |-> Count(Won(M, b)),
      claims |-> Count(Kills(M)), credits |-> Credits(M), revenges |-> Count(Revenges(Kills(M)))]

\* A row of the opponents in the dossier of k.
OpponentRow(E, k, o) ==
  LET M == Between(E, k, o)
  IN [encounters |-> Count(M), wins |-> Count(Won(M, k)), losses |-> Count(M) - Count(Won(M, k)),
      claims |-> Count(Kills(Hunted(M, k))), survivals |-> Count(Failures(Targeted(M, k))),
      credits |-> Credits(Hunted(M, k)), creditsLost |-> Credits(Targeted(M, k)),
      revenges |-> Count(Hunted(Revenges(Kills(M)), k))]

\* A mutant of MetricsStep: the previous killer is remembered only when it was the
\* player.
MetricsStepOwnKills(k, m, e) ==
  LET kill == e.outcome = "KILL"
      winner == IF kill THEN e.hunter ELSE e.target
      claim == kill /\ e.hunter = k
      One(b) == IF b THEN 1 ELSE 0
  IN [wins |-> m.wins + One(winner = k), losses |-> m.losses + One(winner # k),
      claims |-> m.claims + One(claim),
      survivals |-> m.survivals + One(~kill /\ e.target = k),
      credits |-> m.credits + (IF claim THEN e.credits ELSE 0),
      revenges |-> m.revenges + One(claim /\ m.killer = e.target),
      killer |-> IF claim THEN e.hunter ELSE m.killer]

\* The page of one rivalry folds over its encounters, oldest first: the latest is the
\* last to be added.
MetricsStep(k, m, e) ==
  LET kill == e.outcome = "KILL"
      winner == IF kill THEN e.hunter ELSE e.target
      claim == kill /\ e.hunter = k
      One(b) == IF b THEN 1 ELSE 0
  IN [wins |-> m.wins + One(winner = k), losses |-> m.losses + One(winner # k),
      claims |-> m.claims + One(claim),
      survivals |-> m.survivals + One(~kill /\ e.target = k),
      credits |-> m.credits + (IF claim THEN e.credits ELSE 0),
      revenges |-> m.revenges + One(claim /\ m.killer = e.target),
      killer |-> IF kill THEN e.hunter ELSE m.killer]

Latest(M) == CHOOSE e \in M : \A x \in M \ {e} : Before(x, e)

MetricsStart ==
  [wins |-> 0, losses |-> 0, claims |-> 0, survivals |-> 0, credits |-> 0, revenges |-> 0, killer |-> None]

RivalryMetrics(E, k, o) ==
  MapThenFoldSet(LAMBDA e, m : MetricsStep(k, m, e), MetricsStart, LAMBDA e : e, Latest, Between(E, k, o))

----------------------------------------------------------------------------
(* Guilds: a guild's members are the player rows that carry its name *)

Guilds == {p.guild : p \in Players} \ {None}

\* The newest row of each name (player_names).
Newer(p) == \E q \in Players : q.key = p.key /\ q.seen > p.seen
PlayerNames == {p \in Players : ~Newer(p)}

Record(E) == [encounters |-> Count(E), wins |-> Count(Kills(E)), losses |-> Count(Failures(E)),
              credits |-> Credits(E)]

\* guild_activity, a sum over the members' own figures
MemberActivity(E, g) ==
  [p \in {q \in PlayerNames : q.guild = g} |-> Record(Hunted(E, p.key))]

GuildSummary(E, g) ==
  LET M == MemberActivity(E, g)
      Sum(f(_)) == SumFunction([p \in DOMAIN M |-> f(M[p])])
  IN [roster |-> Count(DOMAIN M), active |-> Count({p \in DOMAIN M : M[p].encounters > 0}),
      record |-> [encounters |-> Sum(LAMBDA r : r.encounters), wins |-> Sum(LAMBDA r : r.wins),
                  losses |-> Sum(LAMBDA r : r.losses), credits |-> Sum(LAMBDA r : r.credits)]]

\* The roster joins every row of the guild, the newest of its name or not.
GuildRoster(E, g) ==
  [p \in {q \in Players : q.guild = g} |-> Record(Hunted(E, p.key))]

\* A mutant of GuildActivity: the days join the newest row of each name only.
GuildActivityNewest(E, g) ==
  LET joined == {j \in E \X PlayerNames : j[2].guild = g /\ j[2].key = j[1].hunter}
  IN [day \in {j[1].at : j \in joined} |->
        LET J == {j \in joined : j[1].at = day}
        IN [encounters |-> Count(J), wins |-> Count({j \in J : j[1].outcome = "KILL"}),
            losses |-> Count({j \in J : j[1].outcome = "FAILED"})]]

\* By day, over the encounters of the roster's names.
GuildActivity(E, g) ==
  LET joined == {j \in E \X Players : j[2].guild = g /\ j[2].key = j[1].hunter}
  IN [day \in {j[1].at : j \in joined} |->
        LET J == {j \in joined : j[1].at = day}
        IN [encounters |-> Count(J), wins |-> Count({j \in J : j[1].outcome = "KILL"}),
            losses |-> Count({j \in J : j[1].outcome = "FAILED"})]]

GuildOf(k) == LET P == {p \in PlayerNames : p.key = k}
              IN IF P = {} THEN None ELSE (CHOOSE p \in P : TRUE).guild

\* Encounters between members of g and of h, and how many g won.
GuildRival(E, g, h) ==
  LET M == {e \in E : {GuildOf(e.hunter), GuildOf(e.target)} = {g, h}}
      won == {e \in M : \/ e.outcome = "KILL" /\ GuildOf(e.hunter) = g
                        \/ e.outcome = "FAILED" /\ GuildOf(e.target) = g}
  IN [encounters |-> Count(M), wins |-> Count(won), losses |-> Count(M) - Count(won)]

----------------------------------------------------------------------------
(* The dossier of a player, and the views made from it *)

Dossier(E, k) ==
  [key |-> k,
   encounters |-> Newest(Involving(E, k), DossierRows),
   summary |-> [wins |-> Count(Kills(Hunted(E, k))), losses |-> Count(Failures(Hunted(E, k))),
                encounters |-> Count(Hunted(E, k)), credits |-> Credits(Hunted(E, k)),
                highest |-> Best(Hunted(E, k)), targets |-> {e.target : e \in Hunted(E, k)}],
   asTarget |-> [encounters |-> Count(Targeted(E, k)), killed |-> Count(Kills(Targeted(E, k))),
                 survived |-> Count(Failures(Targeted(E, k)))],
   activity |-> [day \in {e.at : e \in Hunted(E, k)} |-> Count(OnDay(Hunted(E, k), day))]]

\* getHunterHistory: the encounters of a name in a role, of an outcome, and its
\* pages, the newest first.
History(E, k, role, outcome) ==
  {e \in (CASE role = "hunter" -> Hunted(E, k) [] role = "target" -> Targeted(E, k)
            [] OTHER -> Involving(E, k)) : outcome \in {"any", e.outcome}}
HistoryPage(H, page) ==
  {e \in H : Count({x \in H : Before(e, x)}) \in (page - 1) * HistoryRows .. page * HistoryRows - 1}

\* hunter_stats ride on the rows, each row's for its hunter: a view finds the
\* player's own record only on a row that the player hunted.
OwnStats(E, k, rows) == IF Hunted(rows, k) = {} THEN None ELSE HunterStats(E, k)

KdFigures(f) == [kills |-> f.kills, deaths |-> f.deaths, contracts |-> f.encounters, credits |-> f.credits]

\* A mutant of KdCard: the deaths as a target are left out.
KdCardFailuresOnly(E, k) ==
  LET d == Dossier(E, k)
  IN [cycle |-> None,
      overall |-> [kills |-> d.summary.wins, deaths |-> d.summary.losses,
                   contracts |-> d.summary.encounters, credits |-> d.summary.credits]]

\* The Kill / Death card of /hunter (kdWindows).
KdCard(E, k) ==
  LET d == Dossier(E, k)
      stats == OwnStats(E, k, d.encounters)
  IN [cycle |-> IF stats = None THEN None ELSE IF stats.known THEN KdFigures(stats.cycle) ELSE None,
      overall |-> [kills |-> d.summary.wins, deaths |-> d.summary.losses + d.asTarget.killed,
                   contracts |-> d.summary.encounters, credits |-> d.summary.credits]]

\* The card of a hunter without a participants row (hunterLiteEmbed).
LiteCard(E, k, rows) ==
  LET stats == OwnStats(E, k, rows)
  IN [cycle |-> IF stats = None THEN None ELSE IF stats.known THEN KdFigures(stats.cycle) ELSE None,
      overall |-> IF stats = None THEN None ELSE KdFigures(stats.overall)]

\* The record under a row of the site's encounter list (HunterStats, TargetStats), of the
\* cycle and of the archive: a hunter's deaths are the contracts he failed, and how often
\* he was killed as a target stands apart.
SiteFigures(t) ==
  [kills |-> t.kills, deaths |-> t.failures, contracts |-> t.encounters, credits |-> t.credits,
   targeted |-> t.targeted, killed |-> t.targetDeaths, survived |-> t.targeted - t.targetDeaths]

SiteCard(E, k) ==
  LET stats == HunterStats(E, k)
  IN [cycle |-> SiteFigures(stats.cycle), overall |-> SiteFigures(stats.overall)]

\* What /hunter answers to a name: the dossier, or what the newest rows that
\* mention the typed text tell of exactly this name.
SearchHits(E, k) ==
  Newest({e \in E : e.hunter \in NamesWithin[k] \/ e.target \in NamesWithin[k]}, SearchRows)

HunterCommand(E, k) ==
  IF k \in Listed THEN [kind |-> "dossier", card |-> KdCard(E, k)]
  ELSE LET rows == Involving(SearchHits(E, k), k)
       IN IF rows = {} THEN [kind |-> "not found", card |-> None]
          ELSE [kind |-> "lite", card |-> LiteCard(E, k, rows)]

\* The stream overlay: its rows and its footer tiles, per period.
ResultFor(e, k) ==
  IF e.hunter = k THEN (IF e.outcome = "KILL" THEN "CLAIMED" ELSE "FAILED")
  ELSE (IF e.outcome = "KILL" THEN "SLAIN" ELSE "ESCAPED")

OverlayToday(E, k) ==
  LET rows == OnDay(Dossier(E, k).encounters, clock)
      mine == Hunted(rows, k)
  IN [rows |-> rows,
      tiles |-> [claimed |-> Count(Kills(mine)), failed |-> Count(mine) - Count(Kills(mine)),
                 credits |-> Credits(mine), best |-> Best(mine)]]

\* A mutant of OverlayCycle: the best claim is taken from all rows, those against the
\* player included.
OverlayCycleAnyBest(E, k) ==
  LET d == Dossier(E, k)
      stats == OwnStats(E, k, d.encounters)
      known == IF stats = None THEN FALSE ELSE stats.known
      rows == IF known THEN During(d.encounters, cycle) ELSE {}
  IN [rows |-> rows,
      tiles |-> [contracts |-> IF known THEN stats.cycle.encounters ELSE 0,
                 claimed |-> IF known THEN stats.cycle.kills ELSE 0,
                 credits |-> IF known THEN stats.cycle.credits ELSE 0,
                 best |-> Best(rows)]]

OverlayCycle(E, k) ==
  LET d == Dossier(E, k)
      stats == OwnStats(E, k, d.encounters)
      known == IF stats = None THEN FALSE ELSE stats.known
      rows == IF known THEN During(d.encounters, cycle) ELSE {}
  IN [rows |-> rows,
      tiles |-> [contracts |-> IF known THEN stats.cycle.encounters ELSE 0,
                 claimed |-> IF known THEN stats.cycle.kills ELSE 0,
                 credits |-> IF known THEN stats.cycle.credits ELSE 0,
                 best |-> Best(Hunted(rows, k))]]

\* The rolling view: the newest rows of any day, under figures of the day, of
\* the cycle and of the whole record.
OverlayRecent(E, k) ==
  LET d == Dossier(E, k)
      stats == OwnStats(E, k, d.encounters)
      known == IF stats = None THEN FALSE ELSE stats.known
  IN [rows |-> Newest(d.encounters, 4),
      tiles |-> [today |-> Count(Kills(Hunted(OnDay(d.encounters, clock), k))),
                 contracts |-> IF stats = None THEN None ELSE stats.cycle.encounters,
                 best |-> IF known THEN Best(Hunted(During(d.encounters, cycle), k)) ELSE 0,
                 record |-> d.summary.highest]]

----------------------------------------------------------------------------
(* The archive fills up *)

Init == archive = {} /\ cycle = None /\ clock = 0

\* The source reports an encounter of today or, late, of yesterday.  Each
\* carries credits of its own; those of a failed contract no figure counts.
Ingest ==
  /\ Count(archive) < MaxEncounters
  /\ \E hunter, target \in Names, outcome \in {"KILL", "FAILED"},
       at \in {clock, IF clock = 0 THEN 0 ELSE clock - 1} :
       /\ hunter # target /\ <<hunter, target>> \in Meetings
       /\ archive' = archive \union
            {[id |-> Count(archive) + 1, at |-> at, hunter |-> hunter, target |-> target,
              outcome |-> outcome, credits |-> Count(archive) + 1]}
  /\ UNCHANGED <<cycle, clock>>

\* A poll of a bounty board stores the cycle that the source calls CURRENT.
ObserveCycle ==
  /\ cycle # CycleOf(clock)
  /\ cycle' = CycleOf(clock)
  /\ UNCHANGED <<archive, clock>>

Tick ==
  /\ clock < MaxTime
  /\ clock' = clock + 1
  /\ UNCHANGED <<archive, cycle>>

Next == Ingest \/ ObserveCycle \/ Tick

Spec == Init /\ [][Next]_vars

----------------------------------------------------------------------------
(* Properties *)

\* What the list of rivalries tells of both sides (window functions in SQL) is what each
\* side's dossier tells: one side's win is the other's loss, its revenges and claims are
\* its share of both.
RivalrySidesAgree ==
  \A a, b \in Names : a < b =>
    LET mine == OpponentRow(archive, a, b)
        theirs == OpponentRow(archive, b, a)
        row == RivalryRow(archive, a, b)
    IN /\ mine.wins = row.winsA /\ mine.losses = row.winsB
       /\ theirs.wins = mine.losses /\ theirs.losses = mine.wins
       /\ mine.creditsLost = theirs.credits /\ theirs.creditsLost = mine.credits
       /\ mine.revenges + theirs.revenges = row.revenges
       /\ mine.claims + theirs.claims = row.claims
       /\ mine.wins + mine.losses = row.encounters

\* A player's wins, claims and revenges against an opponent are the same on the page of
\* the rivalry (a fold in TypeScript), in the dossier and on the list of rivalries.
RivalriesAgree ==
  /\ RivalrySidesAgree
  /\ \A a, b \in Names : a # b =>
       LET page == RivalryMetrics(archive, a, b)
           mine == OpponentRow(archive, a, b)
       IN <<page.wins, page.losses, page.claims, page.survivals, page.credits, page.revenges>>
            = <<mine.wins, mine.losses, mine.claims, mine.survivals, mine.credits, mine.revenges>>

\* The counts of a hunter's record are the same in the hunter_stats beside his encounters,
\* on the site's card, on the card of /hunter, in the directory and in his history; but
\* deaths are two figures.  The site's card calls deaths what the directory calls losses,
\* the contracts he failed (encounter-list.tsx:49); the card of /hunter adds the times he
\* was killed (embeds.ts:211), which the site's card tells apart, as does his dossier.
RecordCountsAgree ==
  LET directory == DirectoryMetrics(archive) IN
  \A k \in Names :
    LET stats == HunterStats(archive, k).overall
        site == SiteCard(archive, k).overall
        card == KdCard(archive, k).overall
        target == Dossier(archive, k).asTarget
    IN /\ card.kills = stats.kills /\ card.kills = site.kills
       /\ card.deaths = stats.deaths /\ card.deaths = site.deaths + site.killed
       /\ card.contracts = stats.encounters /\ card.contracts = site.contracts
       /\ site.targeted = target.encounters /\ site.killed = target.killed
       /\ site.survived = target.survived
       /\ k \in DOMAIN directory =>
            /\ directory[k].wins = stats.kills /\ directory[k].losses = site.deaths
            /\ directory[k].credits = card.credits
       /\ Count(History(archive, k, "hunter", "any")) = card.contracts
       /\ Count(History(archive, k, "hunter", "KILL")) = card.kills
       /\ Count(History(archive, k, "hunter", "FAILED")) = site.deaths
       /\ Count(History(archive, k, "target", "KILL")) = site.killed

\* Each row of a player's history is on one of its pages, and on one only.
HistoryIsPaged ==
  \A k \in Names :
    LET all == History(archive, k, "any", "any")
    IN  \A e \in all : Count({page \in 1 .. Count(all) : e \in HistoryPage(all, page)}) = 1

\* A hunter's record is the same wherever it is told, up to what it calls deaths, its
\* credits too, and on either card of /hunter, for the cycle as for the archive; his history
\* has its rows, each on one of its pages.
RecordsAgree ==
  /\ RecordCountsAgree /\ HistoryIsPaged
  /\ \A k \in Names :
       LET stats == HunterStats(archive, k)
           card == KdCard(archive, k)
           site == SiteCard(archive, k)
           command == HunterCommand(archive, k)
           lite == command.card
       IN /\ card.overall.credits = stats.overall.credits
          /\ card.cycle # None =>
               /\ card.cycle = KdFigures(stats.cycle)
               /\ card.cycle.deaths = site.cycle.deaths + site.cycle.killed
          /\ command.kind = "lite" /\ lite.overall # None => lite.overall = card.overall

\* The report's row of a hunter is the cycle record beside his encounters.
ReportShowsRecords ==
  cycle # None =>
    \A k \in DOMAIN ReportHunters(archive, cycle) :
      ReportHunters(archive, cycle)[k] = HunterStats(archive, k).cycle

\* The six statements of the weekly report tell of the same rows: the heading
\* is the sum of the hunters and the sum of the days, a target's record is
\* what hunters did to it, and nobody dies more often than contracts end so.
ReportAddsUp ==
  /\ ReportShowsRecords
  /\ \A c \in {CycleOf(day) : day \in 0 .. clock} :
       LET summary == ReportSummary(archive, c)
           hunters == ReportHunters(archive, c)
           targets == ReportTargets(archive, c)
           days == ReportDays(archive, c)
           OverHunters(f(_)) == SumFunction([k \in DOMAIN hunters |-> f(hunters[k])])
           OverTargets(f(_)) == SumFunction([k \in DOMAIN targets |-> f(targets[k])])
           OverDays(f(_)) == SumFunction([d \in DOMAIN days |-> f(days[d])])
       IN /\ summary.encounters = OverHunters(LAMBDA h : h.encounters)
          /\ summary.encounters = OverDays(LAMBDA d : d.encounters)
          /\ summary.encounters = OverTargets(LAMBDA t : t.targeted)
          /\ summary.claims = OverHunters(LAMBDA h : h.kills)
          /\ summary.claims = OverDays(LAMBDA d : d.claims)
          /\ summary.claims = OverTargets(LAMBDA t : t.killed)
          /\ summary.credits = OverHunters(LAMBDA h : h.credits)
          /\ summary.credits = OverDays(LAMBDA d : d.credits)
          /\ summary.failures = OverTargets(LAMBDA t : t.survived)
          /\ OverHunters(LAMBDA h : h.deaths) <= summary.failures + summary.claims

\* What a guild won of another, the other lost to it.
GuildRivalsMirror ==
  \A g, h \in Guilds : g # h =>
    LET won == GuildRival(archive, g, h)
        lost == GuildRival(archive, h, g)
    IN won.encounters = lost.encounters /\ won.wins = lost.losses

\* The roster of a guild shows what its summary shows, and on top of it the figures of every
\* row that a newer one of the same name replaced, whichever guild that one names
\* (data.ts:592-594, 646-651); the days show what the roster shows; and rivals tell of each
\* other alike.
GuildsAgree ==
  /\ \A g \in Guilds :
       LET summary == GuildSummary(archive, g).record
           roster == GuildRoster(archive, g)
           days == GuildActivity(archive, g)
           Over(P, f(_)) == SumFunction([p \in P |-> f(roster[p])])
           OnTop(f(_)) == Over(DOMAIN roster \ PlayerNames, f)
       IN /\ Over(DOMAIN roster, LAMBDA r : r.encounters)
                = summary.encounters + OnTop(LAMBDA r : r.encounters)
          /\ Over(DOMAIN roster, LAMBDA r : r.wins) = summary.wins + OnTop(LAMBDA r : r.wins)
          /\ Over(DOMAIN roster, LAMBDA r : r.losses) = summary.losses + OnTop(LAMBDA r : r.losses)
          /\ Over(DOMAIN roster, LAMBDA r : r.wins) = SumFunction([d \in DOMAIN days |-> days[d].wins])
          /\ Over(DOMAIN roster, LAMBDA r : r.losses)
                = SumFunction([d \in DOMAIN days |-> days[d].losses])
  /\ GuildRivalsMirror

\* Under the overlay's cycle view stand the figures of the rows it shows, as long as the
\* dossier still carries every encounter of the cycle; the rolling view shows the same
\* contracts and the same best claim.
OverlayCountsMatchRows ==
  \A k \in Listed :
    LET view == OverlayCycle(archive, k)
        recent == OverlayRecent(archive, k)
        mine == Hunted(view.rows, k)
        carried == Dossier(archive, k).encounters
    IN (cycle # None /\ OwnStats(archive, k, carried) # None)
         => /\ During(Involving(archive, k), cycle) \subseteq carried =>
                 /\ view.rows = During(Involving(archive, k), cycle)
                 /\ view.tiles.contracts = Count(mine) /\ view.tiles.claimed = Count(Kills(mine))
                 /\ view.tiles.best = Best(mine)
            /\ recent.tiles.contracts = view.tiles.contracts
            /\ recent.tiles.best = view.tiles.best

\* Its credits are those of the rows, too; and no claim of the cycle is better than the
\* best on record.
OverlayTilesMatchRows ==
  /\ OverlayCountsMatchRows
  /\ \A k \in Listed :
       LET view == OverlayCycle(archive, k)
           carried == Dossier(archive, k).encounters
           recent == OverlayRecent(archive, k)
       IN cycle # None /\ OwnStats(archive, k, carried) # None =>
            /\ During(Involving(archive, k), cycle) \subseteq carried =>
                 view.tiles.credits = Credits(Hunted(view.rows, k))
            /\ recent.tiles.best <= recent.tiles.record
=============================================================================
