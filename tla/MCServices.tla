----------------------------- MODULE MCServices -----------------------------
(* An instance of Services for TLC. *)
EXTENDS Services, TLC

CONSTANTS site, app1, app2

\* Both apps sign in through the browser that also shows the website.
OneBrowser == (site :> site) @@ (app1 :> site) @@ (app2 :> site)

\* The boards' answers: without entries (nothing to compare), with a planet, with
\* and without one, with a number in its place, without the field, and with fields
\* the parser does not know.
Text == {<<"planet", "string">>}
Null == {<<"planet", "null">>}
Number == {<<"planet", "number">>}
Bonus == Text \cup {<<"bonus", "number">>}
Note == {<<"note", "string">>}

Boards ==
  {[fields |-> {}, entries |-> es] : es \in {{}, {Text}, {Text, Null}, {Text, Number}, {{}}, {Bonus}}}
    \cup {[fields |-> Note, entries |-> es] : es \in {{}, {Text}}}
=============================================================================
