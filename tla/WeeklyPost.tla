----------------------------- MODULE WeeklyPost -----------------------------
(***************************************************************************)
(* The finished week's report card on Discord (lib/discord/weekly-post.ts):*)
(* after every poll the worker decides whether the week before the running *)
(* one is due, renders its card from the site, sends it, and records the   *)
(* week in discord_report_posts.  Nothing locks: the row is the only trace *)
(* of a post, and it is written after Discord has answered.                *)
(***************************************************************************)
EXTENDS Integers, FiniteSets

CONSTANTS
  Publishers,       \* worker processes; two while a deployment replaces one
  WeekLength,       \* a leaderboard week
  Settle,           \* settleMinutes: a reset is left alone for so long
  MaxAge,           \* eight days: a week that ended longer ago is not posted
  WeekEnd,          \* bound: clock
  MaxRows,          \* bound: archived encounters
  MaxWeeklyFaults   \* bound: refusals, lost answers, failed statements, deaths

ASSUME WeeklyAssumption ==
  /\ WeekLength \in Nat \ {0} /\ Settle \in 0..WeekLength /\ MaxAge \in Nat
  /\ WeekEnd \in Nat /\ MaxRows \in Nat /\ MaxWeeklyFaults \in Nat

VARIABLES
  clock,
  periods,    \* the weeks leaderboard_periods has a row of
  rows,       \* the archived encounters: when they happened and were archived
  posts,      \* discord_report_posts
  cards,      \* what the channel shows: [week, rows], and
  sent,       \* how often each week was shown
  job,        \* each process's place in maybePostWeeklyReport
  mishaps,    \* the budget used
  doubtful    \* history: weeks sent and not recorded, or held by two processes

weeklyVars == <<clock, periods, rows, posts, cards, sent, job, mishaps, doubtful>>

Weeks == 0..(WeekEnd \div WeekLength)
StartOf(k) == k * WeekLength
EndOf(k) == (k + 1) * WeekLength
RowsOf(k) == {e \in rows : StartOf(k) <= e.event /\ e.event < EndOf(k)}

NoJob == [at |-> "idle", week |-> 0, card |-> {}]

WeeklyInit ==
  /\ clock = 0
  /\ periods = {} /\ rows = {} /\ posts = {} /\ cards = {} /\ doubtful = {}
  /\ sent = [k \in Weeks |-> 0]
  /\ job = [w \in Publishers |-> NoJob]
  /\ mishaps = 0

-----------------------------------------------------------------------------
\* The polls before: an encounter or a week reaches the archive, late or never.
ArchiveRow ==
  /\ Cardinality(rows) < MaxRows
  /\ \E t \in 0..clock : rows' = rows \cup {[event |-> t, seen |-> clock]}
  /\ UNCHANGED <<clock, periods, posts, cards, sent, job, mishaps, doubtful>>

ArchivePeriod ==
  /\ \E k \in 0..(clock \div WeekLength) : periods' = periods \cup {k}
  /\ UNCHANGED <<clock, rows, posts, cards, sent, job, mishaps, doubtful>>

Newest(S) == CHOOSE k \in S : \A l \in S : l <= k
Running == Newest(periods)
Previous == Newest(periods \ {Running})

\* As a bug: the settling time is counted from the start of the posted week.
DueUnsettled ==
  /\ Cardinality(periods) >= 2
  /\ clock - StartOf(Previous) >= Settle
  /\ clock - EndOf(Previous) <= MaxAge
  /\ Previous \notin posts

\* As a bug: weeks that were posted are not looked up.
DueAgain ==
  /\ Cardinality(periods) >= 2
  /\ clock - StartOf(Running) >= Settle
  /\ clock - EndOf(Previous) <= MaxAge

\* decideWeeklyPost: the newest week runs, the one before it is due once the
\* reset has settled, for eight days, unless it has a row.
Due ==
  /\ Cardinality(periods) >= 2
  /\ clock - StartOf(Running) >= Settle
  /\ clock - EndOf(Previous) <= MaxAge
  /\ Previous \notin posts

Decide(w) ==
  /\ job[w].at = "idle"
  /\ Due
  /\ job' = [job EXCEPT ![w] = [NoJob EXCEPT !.at = "render", !.week = Previous]]
  /\ doubtful' = IF \E v \in Publishers : job[v].at # "idle" /\ job[v].week = Previous
                 THEN doubtful \cup {Previous} ELSE doubtful
  /\ UNCHANGED <<clock, periods, rows, posts, cards, sent, mishaps>>

\* renderShareCard: the site answers with what is archived at that moment.
Render(w) ==
  /\ job[w].at = "render"
  /\ job' = [job EXCEPT ![w].at = "send", ![w].card = RowsOf(job[w].week)]
  /\ UNCHANGED <<clock, periods, rows, posts, cards, sent, mishaps, doubtful>>

Show(w) ==
  /\ job[w].at = "send"
  /\ cards' = cards \cup {[week |-> job[w].week, rows |-> job[w].card]}
  /\ sent' = [sent EXCEPT ![job[w].week] = @ + 1]

Send(w) ==
  /\ Show(w)
  /\ job' = [job EXCEPT ![w].at = "record"]
  /\ UNCHANGED <<clock, periods, rows, posts, mishaps, doubtful>>

\* INSERT ... ON CONFLICT DO NOTHING.
Record(w) ==
  /\ job[w].at = "record"
  /\ posts' = posts \cup {job[w].week}
  /\ job' = [job EXCEPT ![w] = NoJob]
  /\ UNCHANGED <<clock, periods, rows, cards, sent, mishaps, doubtful>>

Mishap == mishaps < MaxWeeklyFaults /\ mishaps' = mishaps + 1

\* Discord posts the card, and its answer is lost.
AnswerVanishes(w) ==
  /\ Mishap
  /\ Show(w)
  /\ job' = [job EXCEPT ![w] = NoJob]
  /\ doubtful' = doubtful \cup {job[w].week}
  /\ UNCHANGED <<clock, periods, rows, posts>>

\* The render, the post or the INSERT fails and is only logged, or the process
\* dies: the next poll decides anew.
GivesUp(w) ==
  /\ Mishap
  /\ job[w].at # "idle"
  /\ job' = [job EXCEPT ![w] = NoJob]
  /\ doubtful' = IF job[w].at = "record" THEN doubtful \cup {job[w].week} ELSE doubtful
  /\ UNCHANGED <<clock, periods, rows, posts, cards, sent>>

HoursPass ==
  /\ clock < WeekEnd
  /\ clock' = clock + 1
  /\ UNCHANGED <<periods, rows, posts, cards, sent, job, mishaps, doubtful>>

Publisher(w) ==
  \/ Decide(w) \/ Render(w) \/ Send(w) \/ Record(w)
  \/ AnswerVanishes(w) \/ GivesUp(w)

WeeklyNext ==
  \/ ArchiveRow
  \/ ArchivePeriod
  \/ HoursPass
  \/ \E w \in Publishers : Publisher(w)

-----------------------------------------------------------------------------
WeeklyTypeOK ==
  /\ clock \in 0..WeekEnd
  /\ periods \subseteq Weeks /\ posts \subseteq Weeks /\ doubtful \subseteq Weeks
  /\ rows \subseteq [event : 0..WeekEnd, seen : 0..WeekEnd]
  /\ \A c \in cards : c.week \in Weeks /\ c.rows \subseteq rows
  /\ sent \in [Weeks -> Nat]
  /\ \A w \in Publishers :
       /\ job[w].at \in {"idle", "render", "send", "record"}
       /\ job[w].week \in Weeks /\ job[w].card \subseteq rows
  /\ mishaps \in 0..MaxWeeklyFaults

\* migrations/0009: "the worker posts each cycle exactly once".  What the code
\* keeps: a week is shown twice only if a process that had shown it did not
\* record it, or two processes had decided for it at one time.
RepeatedOnlyInDoubt == \A k \in Weeks : sent[k] > 1 => k \in doubtful

\* A card is the week's final word as far as the settling time can make it:
\* whatever was archived until then is on it, also when a week between has no
\* row and when the render is late.
CardsAreSettled ==
  \A c \in cards : \A e \in RowsOf(c.week) :
    e.seen < EndOf(c.week) + Settle => e \in c.rows
=============================================================================
