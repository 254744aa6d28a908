------------------------------ MODULE Services ------------------------------
(***************************************************************************)
(* Four parts of the archive with a state of their own beside what is      *)
(* collected: the weekly post of the worker, the overlay's images and the  *)
(* accounts of the web server, and the record of the answers' shapes.      *)
(* They share neither variable nor lock, so a behaviour of one is the same *)
(* whatever the others do, and it is enough to follow one at a time.       *)
(***************************************************************************)
EXTENDS WeeklyPost, OverlayImages, Accounts, SchemaDrift

VARIABLE part   \* the one that is followed

Init ==
  /\ part \in {"weekly", "images", "accounts", "drift"}
  /\ WeeklyInit /\ ImagesInit /\ AccountsInit /\ DriftInit

Weekly ==
  /\ part = "weekly" /\ WeeklyNext
  /\ UNCHANGED <<part, imageVars, accountVars, driftVars>>
Images ==
  /\ part = "images" /\ ImagesNext
  /\ UNCHANGED <<part, weeklyVars, accountVars, driftVars>>
SignIn ==
  /\ part = "accounts" /\ AccountsNext
  /\ UNCHANGED <<part, weeklyVars, imageVars, driftVars>>
Drift ==
  /\ part = "drift" /\ DriftNext
  /\ UNCHANGED <<part, weeklyVars, imageVars, accountVars>>

Next == Weekly \/ Images \/ SignIn \/ Drift

Spec == Init /\ [][Next]_<<part, weeklyVars, imageVars, accountVars, driftVars>>

\* The types of the four parts' variables.
TypeOK == WeeklyTypeOK /\ ImagesTypeOK /\ AccountsTypeOK /\ DriftTypeOK
=============================================================================
