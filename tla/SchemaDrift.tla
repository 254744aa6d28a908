----------------------------- MODULE SchemaDrift -----------------------------
(***************************************************************************)
(* What a run remembers of the shape of the answers (pipeline.ts:          *)
(* recordSchemaAndUnknownFields; hash.ts; unknown-fields.ts).  Every path  *)
(* of the API is a scope with the signatures it was ever seen to have, and *)
(* what is new in an answer becomes a data quality event and an alert.     *)
(* The statements are no transaction: other lanes and processes run between*)
(* them, and a statement may fail or a process die at any of them.         *)
(*                                                                         *)
(* An answer is an object with fields and one array of entries, themselves *)
(* objects with fields; a field is a name and the type of its value.       *)
(***************************************************************************)
EXTENDS Integers, Sequences, FiniteSets, SequencesExt

CONSTANTS
  Recorders,     \* lanes, of one process or of several
  Scopes,        \* paths of one source
  Payloads,      \* the answers: [fields, entries]
  RootFields, EntryFields, \* unknown-fields.ts: allowed
  NullableFields, \* the entries' fields that the parser lets be null or text
  MaxAnswers,    \* bound: answers
  MaxDriftFaults \* bound: failing statements and dying processes

\* The array itself is a field that unknown-fields.ts allows.
ASSUME DriftAssumption ==
  /\ MaxAnswers \in Nat /\ MaxDriftFaults \in Nat
  /\ "entries" \in RootFields

VARIABLES
  signatures,    \* schema_signatures: the shapes of each scope
  events,        \* data_quality_events: their keys, none resolved
  alerts,        \* the warnings logged, in order
  recorder,      \* each recorder between its statements
  answers, driftFaults, \* the budgets used
  baselines,     \* history: the shapes that found nothing to compare with
  cut            \* history: the shapes stored by a recorder that got no further

driftVars == <<signatures, events, alerts, recorder, answers, driftFaults, baselines, cut>>

-----------------------------------------------------------------------------
(* Shapes: sets of a path and a type that occurs there. *)

EntriesPath == <<"entries">>
EntryPath == <<"entries", "[]">>

\* schemaStructure; its signature is the hash of all of it.
Structure(p) ==
  {<<<<>>, "object">>, <<EntriesPath, "array">>}
    \cup {<<<<f[1]>>, f[2]>> : f \in p.fields}
    \cup {<<EntryPath, "object">> : e \in p.entries}
    \cup {<<Append(EntryPath, f[1]), f[2]>> : f \in UNION p.entries}

Paths(s) == {x[1] : x \in s}
Types(s, path) == {x[2] : x \in {y \in s : y[1] = path}}

\* The arrays whose members a shape does not show, and what is below them.
Unobserved(s) ==
  {a \in Paths(s) : "array" \in Types(s, a)
                      /\ \A path \in Paths(s) : ~IsPrefix(Append(a, "[]"), path)}
Hidden(s, path) == \E a \in Unobserved(s) : IsPrefix(Append(a, "[]"), path)
Comparable(s) == Unobserved(s) = {}

\* isExpectedNullableType.
Expected(path, type) ==
  path \in {Append(EntryPath, f) : f \in NullableFields} /\ type \in {"null", "string"}

\* As a bug: what an empty array hides counts as gone.
NewsOfEmptyArrays(known, s) ==
  LET all == UNION known
      Widened(path) == \E type \in Types(s, path) \ Types(all, path) : ~Expected(path, type)
  IN  [added |-> {path \in Paths(s) \ Paths(all) : ~Hidden(all, path)},
       removed |-> {path \in Paths(all) \ Paths(s) : \A k \in known : path \in Paths(k)},
       widened |-> {[path |-> p, from |-> Types(all, p), to |-> Types(s, p)] :
                      p \in {path \in Paths(s) \cap Paths(all) : Widened(path)}}]

\* diffSchema against the union of the shapes that are known, without the paths
\* that some known shape lacked too.  A path with a type that is neither known nor
\* expected by the parser is named with its types before and now.
News(known, s) ==
  LET all == UNION known
      Widened(path) == \E type \in Types(s, path) \ Types(all, path) : ~Expected(path, type)
  IN  [added |-> {path \in Paths(s) \ Paths(all) : ~Hidden(all, path)},
       removed |-> {path \in Paths(all) \ Paths(s) :
                      ~Hidden(s, path) /\ \A k \in known : path \in Paths(k)},
       widened |-> {[path |-> p, from |-> Types(all, p), to |-> Types(s, p)] :
                      p \in {path \in Paths(s) \cap Paths(all) : Widened(path)}}]

\* News name a path and a type that occurs there.
Names(news, x) ==
  \/ x[1] \in news.added
  \/ \E w \in news.widened : w.path = x[1] /\ x[2] \in w.to \ w.from

NoNews == [added |-> {}, removed |-> {}, widened |-> {}]

\* findUnknownFields.
UnknownFields(p) ==
  {<<f[1]>> : f \in {x \in p.fields : x[1] \notin RootFields}}
    \cup {Append(EntryPath, f[1]) : f \in {x \in UNION p.entries : x[1] \notin EntryFields}}

-----------------------------------------------------------------------------
Resting == [pc |-> "rest"]

DriftInit ==
  /\ signatures = [c \in Scopes |-> {}]
  /\ events = {} /\ alerts = <<>>
  /\ recorder = [r \in Recorders |-> Resting]
  /\ answers = 0 /\ driftFaults = 0
  /\ baselines = {} /\ cut = {}

\* The news of a recorder's shape, once it has read what is known.
NewsOf(r) == News(recorder[r].known, recorder[r].shape)
Shape(r) == <<recorder[r].scope, recorder[r].shape>>

\* As a bug: a scope is looked at for unknown fields once.
AnswerOnce(r, c, p) ==
  /\ recorder[r] = Resting
  /\ answers < MaxAnswers
  /\ answers' = answers + 1
  /\ recorder' = [recorder EXCEPT ![r] =
       [pc |-> IF UnknownFields(p) # {} /\ signatures[c] = {} THEN "fields" ELSE "read",
        scope |-> c, shape |-> Structure(p), unknown |-> UnknownFields(p), known |-> {}]]
  /\ UNCHANGED <<signatures, events, alerts, driftFaults, baselines, cut>>

\* An answer of scope c has been archived.
Answer(r, c, p) ==
  /\ recorder[r] = Resting
  /\ answers < MaxAnswers
  /\ answers' = answers + 1
  /\ recorder' = [recorder EXCEPT ![r] =
       [pc |-> IF UnknownFields(p) # {} THEN "fields" ELSE "read",
        scope |-> c, shape |-> Structure(p), unknown |-> UnknownFields(p), known |-> {}]]
  /\ UNCHANGED <<signatures, events, alerts, driftFaults, baselines, cut>>

\* An open event with the same key leaves the statement without effect, and
\* without a row returned there is no warning.
Raise(key) ==
  /\ events' = events \cup {key}
  /\ alerts' = IF key \in events THEN alerts ELSE Append(alerts, key)

FieldsKey(r) == [type |-> "fields", of |-> recorder[r].unknown]
ChangeKey(r) == [type |-> "change", of |-> NewsOf(r)]

RecordFields(r) ==
  /\ recorder[r].pc = "fields"
  /\ Raise(FieldsKey(r))
  /\ recorder' = [recorder EXCEPT ![r].pc = "read"]
  /\ UNCHANGED <<signatures, answers, driftFaults, baselines, cut>>

\* As a bug: the shapes of every path of the source.
KnownToSource(c, s) ==
  {k \in UNION {signatures[d] : d \in Scopes} : Comparable(s) => Comparable(k)}

\* The shapes that a shape of scope c is compared with.
Known(c, s) == {k \in signatures[c] : Comparable(s) => Comparable(k)}

ReadKnown(r) ==
  /\ recorder[r].pc = "read"
  /\ recorder' = [recorder EXCEPT ![r].pc = "insert",
                                  ![r].known = Known(recorder[r].scope, recorder[r].shape)]
  /\ UNCHANGED <<signatures, events, alerts, answers, driftFaults, baselines, cut>>

\* ON CONFLICT only counts one more occurrence.
Inserts(r) == recorder[r].shape \notin signatures[recorder[r].scope]
Upsert(r) ==
  /\ signatures' = [signatures EXCEPT ![recorder[r].scope] = @ \cup {recorder[r].shape}]
  /\ baselines' = IF Inserts(r) /\ recorder[r].known = {} THEN baselines \cup {Shape(r)}
                  ELSE baselines

\* Only who inserted the shape goes on, when it had something to compare it with
\* and finds news in it.
Reports(r) == Inserts(r) /\ recorder[r].known # {} /\ NewsOf(r) # NoNews

InsertSignature(r) ==
  /\ recorder[r].pc = "insert"
  /\ Upsert(r)
  /\ recorder' = [recorder EXCEPT ![r] = IF Reports(r) THEN [@ EXCEPT !.pc = "report"]
                                         ELSE Resting]
  /\ UNCHANGED <<events, alerts, answers, driftFaults, cut>>

ReportChange(r) ==
  /\ recorder[r].pc = "report"
  /\ Raise(ChangeKey(r))
  /\ recorder' = [recorder EXCEPT ![r] = Resting]
  /\ UNCHANGED <<signatures, answers, driftFaults, baselines, cut>>

\* The recorder ends: SCHEMA_OBSERVATION_FAILED, or its process dies.
Ends(r) ==
  /\ recorder[r].pc # "rest"
  /\ driftFaults < MaxDriftFaults
  /\ driftFaults' = driftFaults + 1
  /\ recorder' = [recorder EXCEPT ![r] = Resting]
  /\ UNCHANGED <<alerts, answers>>

FailsBefore(r) ==
  /\ Ends(r)
  /\ cut' = IF recorder[r].pc = "report" THEN cut \cup {Shape(r)} ELSE cut
  /\ UNCHANGED <<signatures, events, baselines>>

\* The statement took effect, but nobody heard of it.
FailsAfter(r) ==
  /\ Ends(r)
  /\ \/ /\ recorder[r].pc = "fields"
        /\ events' = events \cup {FieldsKey(r)}
        /\ UNCHANGED <<signatures, baselines, cut>>
     \/ /\ recorder[r].pc = "insert"
        /\ Upsert(r)
        /\ cut' = IF Reports(r) THEN cut \cup {Shape(r)} ELSE cut
        /\ UNCHANGED events
     \/ /\ recorder[r].pc = "report"
        /\ events' = events \cup {ChangeKey(r)}
        /\ UNCHANGED <<signatures, baselines, cut>>

DriftNext ==
  \E r \in Recorders :
    \/ \E c \in Scopes, p \in Payloads : Answer(r, c, p)
    \/ RecordFields(r) \/ ReadKnown(r) \/ InsertSignature(r) \/ ReportChange(r)
    \/ FailsBefore(r) \/ FailsAfter(r)

DriftSpec == DriftInit /\ [][DriftNext]_driftVars

-----------------------------------------------------------------------------
DriftTypeOK ==
  /\ signatures \in [Scopes -> SUBSET {Structure(p) : p \in Payloads}]
  /\ Range(alerts) \subseteq events
  /\ \A r \in Recorders : recorder[r].pc \in {"rest", "fields", "read", "insert", "report"}
  /\ answers \in 0..MaxAnswers /\ driftFaults \in 0..MaxDriftFaults
  /\ baselines \cup cut \subseteq UNION {{c} \X signatures[c] : c \in Scopes}

\* pipeline.ts:330-332, "Alert only when the source exhibits something never
\* observed for this scope": whatever stands in a comparable shape of a scope was
\* there when the scope had nothing to compare with, is expected by the parser,
\* or is named by an event.  What is excused is a recorder on its way to its
\* event, or one that was cut off there: nobody reports its shape again.
NothingSlipsIn ==
  \A c \in Scopes : \A s \in signatures[c] : Comparable(s) =>
    \A x \in s :
      \/ Expected(x[1], x[2])
      \/ \E known \in baselines \cup cut : known[1] = c /\ x \in known[2]
      \/ \E key \in events : key.type = "change" /\ Names(key.of, x)
      \/ \E r \in Recorders : recorder[r].pc = "report" /\ Shape(r)[1] = c /\ x \in Shape(r)[2]

\* A field the parser does not know is on file before the shape that has it is:
\* whoever dies in between, the next answer of that shape asks again.
UnknownFieldsAreOnFile ==
  \A c \in Scopes : \A s \in signatures[c] :
    LET unknown == {path \in Paths(s) \ ({<<>>, EntryPath}
                      \cup {<<f>> : f \in RootFields}) :
                      Front(path) = EntryPath => Last(path) \notin EntryFields}
    IN  unknown # {} => [type |-> "fields", of |-> unknown] \in events

\* Shape s and the shapes on file bear news out: s has what is called added, it
\* shows the place of what is called removed without having it there, and it has the
\* types that are called new; what was there before stands in shapes on file.
BorneOut(news, s, filed) ==
  /\ news.added \subseteq Paths(s)
  /\ \A path \in news.removed :
       path \notin Paths(s) /\ ~Hidden(s, path) /\ \E k \in filed : path \in Paths(k)
  /\ \A w \in news.widened :
       /\ w.to = Types(s, w.path) /\ w.to \ w.from # {}
       /\ \A type \in w.from : \E k \in filed : <<w.path, type>> \in k

\* No false alarm: all that an event says is borne out by one shape of one scope and
\* what that scope has on file, whoever failed or ran in between; an empty board, which
\* hides its entries, never makes their fields disappear (hash.ts:93-106).
ReportsAreBorneOut ==
  \A key \in events : key.type = "change" =>
    \E c \in Scopes : \E s \in signatures[c] : BorneOut(key.of, s, signatures[c])
=============================================================================
