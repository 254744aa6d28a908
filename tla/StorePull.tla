----------------------------- MODULE StorePull ------------------------------
(***************************************************************************)
(* The other handler of src/src/app/api/sync/route.ts: the GETs by which a *)
(* device learns what the others pushed.  A GET is one statement, and its  *)
(* answer is stamped with the time after the statement ran.  The device,   *)
(* outside the repository, sends the serverTime of its last answer as      *)
(* `since`; edits are pushed at their time or later.                       *)
(***************************************************************************)
EXTENDS StoreSync

CONSTANTS
  Readers,   \* the devices whose GETs are followed
  PageSize   \* LIMIT of a GET (2000)

VARIABLES
  clock,
  since,    \* per reader, the serverTime of its last answer
  answer,   \* items a GET has read and not yet answered with, or None
  current   \* history: items of which the reader has the committed version

pullVars == <<since, answer, current>>

PullInit ==
  /\ Init
  /\ clock = 1
  /\ since = [r \in Readers |-> 0]
  /\ answer = [r \in Readers |-> None]
  /\ current = [r \in Readers |-> {}]

Tick ==
  /\ clock < MaxTime
  /\ clock' = clock + 1
  /\ UNCHANGED <<vars, pullVars>>

\* Any step of a PUT.  What it commits is news to the readers.
PushStep ==
  /\ Next
  /\ \A d \in Devices, i \in Items : stamp'[d][i] # None => stamp'[d][i] <= clock
  /\ current' = [r \in Readers |-> {i \in current[r] : rows'[i] = rows[i]}]
  /\ answer' = [r \in Readers |-> IF answer[r] = None THEN None
                                  ELSE {i \in answer[r] : rows'[i] = rows[i]}]
  /\ UNCHANGED <<clock, since>>

Changed(r) == {i \in Items : rows[i] # None /\ rows[i].at > since[r]}

\* ORDER BY updated_at ASC LIMIT PageSize
Page(r, P) ==
  /\ P \subseteq Changed(r)
  /\ Cardinality(P) = PageSize \/ (P = Changed(r) /\ Cardinality(P) < PageSize)
  /\ \A i \in P, j \in Changed(r) \ P : rows[i].at <= rows[j].at

Pull(r) ==
  /\ answer[r] = None
  /\ \E P \in SUBSET Items : Page(r, P) /\ answer' = [answer EXCEPT ![r] = P]
  /\ UNCHANGED <<vars, clock, since, current>>

\* The answer arrives, or is lost and the device asks again.
PullAnswer(r) ==
  /\ answer[r] # None
  /\ \/ /\ since' = [since EXCEPT ![r] = clock]
        /\ current' = [current EXCEPT ![r] = @ \union answer[r]]
     \/ UNCHANGED <<since, current>>
  /\ answer' = [answer EXCEPT ![r] = None]
  /\ UNCHANGED <<vars, clock>>

PullNext == Tick \/ PushStep \/ \E r \in Readers : Pull(r) \/ PullAnswer(r)

PullSpec == PullInit /\ [][PullNext]_<<vars, clock, pullVars>>

\* src/src/app/api/sync/route.ts:7, "GET returns items changed since a
\* watermark": whatever the reader does not have as it is in the store, its GET
\* returns.
PullReturnsChanges ==
  [][\A r \in Readers : Pull(r) => \A i \in Items : rows[i] # None => i \in current[r] \union answer'[r]]_pullVars
=============================================================================
