-------------------------- MODULE SchemaDrift_proofs --------------------------
(***************************************************************************)
(* Proofs about SchemaDrift, for any recorders, scopes, payloads, answers  *)
(* and faults: nothing new slips into a comparable shape unnoticed, what an*)
(* event says is borne out by the shapes on file, and an unknown field is  *)
(* on file before its shape.                                               *)
(*                                                                         *)
(* NothingSlipsIn is not inductive: it lets a recorder that is about to    *)
(* report excuse all of its shape, of which its event will name only the   *)
(* news.  Accounted says that the news alone excuse, which the step that   *)
(* inserts a shape re-establishes: what is not news to it stands in a shape*)
(* that it has read, which is accounted for already.                       *)
(*                                                                         *)
(* The lemmas at the end are what the types of Services rest on.           *)
(***************************************************************************)
EXTENDS SchemaDrift, SequenceTheorems, TLAPS

Shapes == {Structure(p) : p \in Payloads}
Busy == [pc : {"fields", "read", "insert", "report"}, scope : Scopes, shape : Shapes,
         unknown : {UnknownFields(p) : p \in Payloads}, known : SUBSET Shapes]

TypeInv ==
  /\ signatures \in [Scopes -> SUBSET Shapes]
  /\ recorder \in [Recorders -> Busy \cup {Resting}]

\* What a recorder compares with was read from its scope, and hides nothing if its
\* shape hides nothing.
KnownInv ==
  \A r \in Recorders : recorder[r].pc \in {"insert", "report"} =>
    /\ recorder[r].known \subseteq signatures[recorder[r].scope]
    /\ Comparable(recorder[r].shape) => \A k \in recorder[r].known : Comparable(k)

\* x is told for good, and x is what recorder r is about to tell.
Told(c, x) ==
  \/ Expected(x[1], x[2])
  \/ \E known \in baselines \cup cut : known[1] = c /\ x \in known[2]
  \/ \E key \in events : key.type = "change" /\ Names(key.of, x)

Telling(r, c, x) ==
  /\ recorder[r].pc = "report" /\ recorder[r].scope = c /\ x \in recorder[r].shape
  /\ Names(NewsOf(r), x)

Covered(c, x) == Told(c, x) \/ \E r \in Recorders : Telling(r, c, x)

Accounted ==
  \A c \in Scopes : \A s \in signatures[c] : Comparable(s) => \A x \in s : Covered(c, x)

AlertsInv == alerts \in Seq(events)

IInv == TypeInv /\ KnownInv /\ Accounted /\ AlertsInv

-----------------------------------------------------------------------------
(* Shapes. *)

LEMMA PairsOfShapes ==
  ASSUME NEW s \in Shapes, NEW x \in s
  PROVE  x = <<x[1], x[2]>>
BY DEF Shapes, Structure

\* Together, shapes that hide nothing hide nothing.
LEMMA ComparableUnion ==
  ASSUME NEW K, \A k \in K : Comparable(k), NEW path
  PROVE  ~Hidden(UNION K, path)
<1>1. SUFFICES ASSUME NEW a \in Unobserved(UNION K)  PROVE FALSE
  BY DEF Hidden
<1>2. PICK y \in UNION K : y[1] = a /\ y[2] = "array"
  BY <1>1 DEF Unobserved, Types
<1>3. PICK k \in K : y \in k
  BY <1>2
<1>4. a \in Paths(k) /\ "array" \in Types(k, a)
  BY <1>2, <1>3 DEF Paths, Types
<1>5. PICK p \in Paths(k) : IsPrefix(Append(a, "[]"), p)
  BY <1>3, <1>4 DEF Comparable, Unobserved
<1>6. p \in Paths(UNION K)
  BY <1>3, <1>5 DEF Paths
<1>7. QED
  BY <1>1, <1>5, <1>6 DEF Unobserved

\* What no known shape has is news, unless the parser expects it.
LEMMA NewIsNews ==
  ASSUME NEW K, \A k \in K : Comparable(k), NEW s, NEW x \in s,
         \A k \in K : x \notin k, ~Expected(x[1], x[2]),
         x = <<x[1], x[2]>>, \A y \in UNION K : y = <<y[1], y[2]>>
  PROVE  Names(News(K, s), x)
<1>1. x[1] \in Paths(s) /\ x \notin UNION K
  BY DEF Paths
<1>2. CASE x[1] \in Paths(UNION K)
  <2> DEFINE w == [path |-> x[1], from |-> Types(UNION K, x[1]), to |-> Types(s, x[1])]
  <2>1. x[2] \in Types(s, x[1])
    BY DEF Types
  <2>2. x[2] \notin Types(UNION K, x[1])
    BY <1>1 DEF Types
  <2>3. w \in News(K, s).widened
    BY <1>1, <1>2, <2>1, <2>2 DEF News
  <2>4. w.path = x[1] /\ x[2] \in w.to \ w.from
    BY <2>1, <2>2
  <2>5. QED
    BY <2>3, <2>4 DEF Names
<1>3. CASE x[1] \notin Paths(UNION K)
  <2>1. ~Hidden(UNION K, x[1])
    BY ComparableUnion
  <2>2. QED
    BY <1>1, <1>3, <2>1 DEF News, Names
<1>4. QED
  BY <1>2, <1>3

-----------------------------------------------------------------------------
(* What a step keeps. *)

\* Nothing that is told is taken back, and who is not the step's recorder goes on
\* telling what it was about to tell.
LEMMA CoveredStays ==
  ASSUME NEW q \in Recorders, \A r \in Recorders \ {q} : recorder'[r] = recorder[r],
         events \subseteq events', baselines \subseteq baselines', cut \subseteq cut',
         NEW c, NEW x, Telling(q, c, x) => Covered(c, x)', Covered(c, x)
  PROVE  Covered(c, x)'
<1>1. CASE Told(c, x)
  BY <1>1 DEF Told, Covered
<1>2. ASSUME NEW r \in Recorders \ {q}, Telling(r, c, x)  PROVE Covered(c, x)'
  BY <1>2 DEF Telling, Covered, NewsOf
<1>3. QED
  BY <1>1, <1>2 DEF Covered

\* A recorder that ends telling is covered by what it wrote or by the history.
LEMMA TellingIsCut ==
  ASSUME NEW r \in Recorders, cut' = cut \cup {Shape(r)}, NEW c, NEW x, Telling(r, c, x)
  PROVE  Covered(c, x)'
<1>1. Shape(r) \in cut' /\ Shape(r)[1] = c /\ x \in Shape(r)[2]
  BY DEF Telling, Shape
<1>2. QED
  BY <1>1 DEF Covered, Told

LEMMA TellingIsTold ==
  ASSUME NEW r \in Recorders, events' = events \cup {ChangeKey(r)}, NEW c, NEW x,
         Telling(r, c, x)
  PROVE  Covered(c, x)'
<1>1. ChangeKey(r) \in events' /\ ChangeKey(r).type = "change" /\ ChangeKey(r).of = NewsOf(r)
  BY DEF ChangeKey
<1>2. QED
  BY <1>1 DEF Telling, Covered, Told

\* A step that leaves the signatures alone keeps Accounted, if what its recorder
\* was about to tell stays covered.
LEMMA AccountedStays ==
  ASSUME Accounted, NEW q \in Recorders,
         \A r \in Recorders \ {q} : recorder'[r] = recorder[r],
         signatures' = signatures, events \subseteq events', baselines \subseteq baselines',
         cut \subseteq cut',
         \A c, x : Telling(q, c, x) => Covered(c, x)'
  PROVE  Accounted'
<1>1. SUFFICES ASSUME NEW c \in Scopes, NEW s \in signatures[c], Comparable(s), NEW x \in s
               PROVE  Covered(c, x)'
  BY DEF Accounted
<1>2. Covered(c, x)
  BY <1>1 DEF Accounted
<1>3. QED
  BY <1>2, CoveredStays

\* A shape that is stored is accounted for: by the shapes it was compared with, or
\* by its news, which its recorder tells now or was cut off from.
LEMMA InsertAccounts ==
  ASSUME TypeInv, KnownInv, Accounted, NEW q \in Recorders, recorder[q].pc = "insert",
         Upsert(q), \A r \in Recorders \ {q} : recorder'[r] = recorder[r],
         events \subseteq events', cut \subseteq cut',
         Reports(q) => \/ recorder'[q] = [recorder[q] EXCEPT !.pc = "report"]
                       \/ Shape(q) \in cut'
  PROVE  Accounted'
<1>1. SUFFICES ASSUME NEW c \in Scopes, NEW s \in signatures'[c], Comparable(s), NEW x \in s
               PROVE  Covered(c, x)'
  BY DEF Accounted
<1> DEFINE me == recorder[q]
<1>2. me \in Busy /\ me.scope \in Scopes
  BY DEF TypeInv, Busy, Resting
<1>3. \A y : Covered(c, y) => Covered(c, y)'
  <2>1. baselines \subseteq baselines' /\ \A y : ~Telling(q, c, y)
    BY DEF Upsert, Telling
  <2>2. QED
    BY <2>1, CoveredStays
<1>4. CASE s \in signatures[c]
  BY <1>1, <1>3, <1>4 DEF Accounted
<1>5. CASE s \notin signatures[c]
  <2>1. c = me.scope /\ s = me.shape /\ Inserts(q)
    BY <1>1, <1>2, <1>5 DEF Upsert, TypeInv, Inserts
  <2>2. CASE me.known = {}
    <3>1. Shape(q) \in baselines' /\ Shape(q)[1] = c /\ x \in Shape(q)[2]
      BY <1>1, <2>1, <2>2 DEF Upsert, Shape
    <3>2. QED
      BY <3>1 DEF Covered, Told
  <2>3. ASSUME NEW k \in me.known, x \in k  PROVE Covered(c, x)'
    <3>1. k \in signatures[c] /\ Comparable(k)
      BY <1>1, <2>1 DEF KnownInv
    <3>2. QED
      BY <1>3, <2>3, <3>1 DEF Accounted
  <2>4. CASE Expected(x[1], x[2])
    BY <2>4 DEF Covered, Told
  <2>5. CASE me.known # {} /\ (\A k \in me.known : x \notin k) /\ ~Expected(x[1], x[2])
    <3>1. Names(NewsOf(q), x)
      <4>1. \A k \in me.known : Comparable(k)
        BY <1>1, <2>1 DEF KnownInv
      <4>2. s \in Shapes /\ me.known \subseteq Shapes
        BY <1>2, <2>1 DEF Busy
      <4>3. x = <<x[1], x[2]>> /\ \A y \in UNION me.known : y = <<y[1], y[2]>>
        BY <1>1, <4>2, PairsOfShapes
      <4>4. QED
        BY <2>1, <2>5, <4>1, <4>3, NewIsNews DEF NewsOf
    <3>2. Reports(q)
      BY <2>1, <2>5, <3>1 DEF Reports, NoNews, Names
    <3>3. CASE Shape(q) \in cut'
      <4>1. Shape(q)[1] = c /\ x \in Shape(q)[2]
        BY <1>1, <2>1 DEF Shape
      <4>2. QED
        BY <3>3, <4>1 DEF Covered, Told
    <3>4. CASE recorder'[q] = [me EXCEPT !.pc = "report"]
      <4>1. /\ recorder'[q].pc = "report" /\ recorder'[q].scope = c
            /\ recorder'[q].shape = s /\ recorder'[q].known = me.known
        BY <1>2, <2>1, <3>4 DEF Busy
      <4>2. NewsOf(q)' = NewsOf(q)
        BY <2>1, <4>1 DEF NewsOf
      <4>3. Telling(q, c, x)'
        BY <1>1, <3>1, <4>1, <4>2 DEF Telling
      <4>4. QED
        BY <4>3 DEF Covered
    <3>5. QED
      BY <3>2, <3>3, <3>4
  <2>6. QED
    BY <2>2, <2>3, <2>4, <2>5
<1>6. QED
  BY <1>4, <1>5

\* What is alerted has an event.
LEMMA RaiseKeepsAlerts ==
  ASSUME AlertsInv, NEW key, Raise(key)
  PROVE  AlertsInv'
BY DEF AlertsInv, Raise

LEMMA MoreEventsKeepAlerts ==
  ASSUME AlertsInv, events \subseteq events', UNCHANGED alerts
  PROVE  AlertsInv'
BY DEF AlertsInv

\* Signatures are only added, and the others' recorders stay: what was read is
\* still there.
LEMMA KnownStays ==
  ASSUME TypeInv, KnownInv, NEW q \in Recorders,
         \A r \in Recorders \ {q} : recorder'[r] = recorder[r],
         \A c \in Scopes : signatures[c] \subseteq signatures'[c],
         recorder'[q].pc \in {"insert", "report"} =>
           /\ recorder'[q].known \subseteq signatures'[recorder'[q].scope]
           /\ Comparable(recorder'[q].shape) => \A k \in recorder'[q].known : Comparable(k)
  PROVE  KnownInv'
<1>1. ASSUME NEW r \in Recorders \ {q}, recorder[r].pc \in {"insert", "report"}
      PROVE  recorder[r].scope \in Scopes
  BY <1>1 DEF TypeInv, Busy, Resting
<1>2. QED
  BY <1>1 DEF KnownInv

\* A recorder that ends, or that comes to rest, keeps the types of the others.
LEMMA RecorderType ==
  ASSUME TypeInv, NEW q \in Recorders, NEW v \in Busy \cup {Resting},
         recorder' = [recorder EXCEPT ![q] = v]
  PROVE  /\ recorder' \in [Recorders -> Busy \cup {Resting}]
         /\ recorder'[q] = v
         /\ \A r \in Recorders \ {q} : recorder'[r] = recorder[r]
BY DEF TypeInv

LEMMA BusyRecorder ==
  ASSUME TypeInv, NEW q \in Recorders, recorder[q].pc # "rest"
  PROVE  recorder[q] \in Busy
BY DEF TypeInv, Resting

LEMMA UpsertTypes ==
  ASSUME TypeInv, NEW q \in Recorders, recorder[q].pc # "rest", Upsert(q)
  PROVE  /\ signatures' \in [Scopes -> SUBSET Shapes]
         /\ \A c \in Scopes : signatures[c] \subseteq signatures'[c]
         /\ baselines \subseteq baselines'
<1>1. recorder[q].scope \in Scopes /\ recorder[q].shape \in Shapes
  BY BusyRecorder DEF Busy
<1>2. QED
  BY <1>1 DEF TypeInv, Upsert

-----------------------------------------------------------------------------
(* The steps. *)

LEMMA InitInv == DriftInit => IInv
<1>1. SUFFICES ASSUME DriftInit PROVE IInv
  OBVIOUS
<1>2. TypeInv
  BY <1>1 DEF DriftInit, TypeInv
<1>3. KnownInv
  BY <1>1 DEF DriftInit, KnownInv, Resting
<1>4. Accounted
  BY <1>1 DEF DriftInit, Accounted
<1>5. AlertsInv
  BY <1>1 DEF DriftInit, AlertsInv
<1>6. QED
  BY <1>2, <1>3, <1>4, <1>5 DEF IInv

LEMMA StepAnswer ==
  ASSUME IInv, NEW r \in Recorders, NEW c \in Scopes, NEW p \in Payloads, Answer(r, c, p)
  PROVE  IInv'
<1> USE DEF IInv
<1> DEFINE first == IF UnknownFields(p) # {} THEN "fields" ELSE "read"
           v == [pc |-> first, scope |-> c, shape |-> Structure(p),
                 unknown |-> UnknownFields(p), known |-> {}]
<1>1. v \in Busy /\ v.pc \in {"fields", "read"} /\ recorder' = [recorder EXCEPT ![r] = v]
  <2>1. /\ Structure(p) \in Shapes /\ UnknownFields(p) \in {UnknownFields(o) : o \in Payloads}
        /\ first \in {"fields", "read"} /\ {} \in SUBSET Shapes
    BY DEF Shapes
  <2>2. v \in Busy
    <3> HIDE DEF first
    <3>1. QED
      BY <2>1 DEF Busy
  <2>3. recorder' = [recorder EXCEPT ![r] = v]
    BY DEF Answer
  <2>4. QED
    BY <2>1, <2>2, <2>3
<1>2. /\ recorder' \in [Recorders -> Busy \cup {Resting}]
      /\ recorder'[r] = v
      /\ \A q \in Recorders \ {r} : recorder'[q] = recorder[q]
  BY <1>1, RecorderType
<1>3. TypeInv'
  BY <1>2 DEF TypeInv, Answer
<1>4. KnownInv'
  BY <1>1, <1>2, KnownStays DEF Answer
<1>5. Accounted'
  <2>1. \A d, x : ~Telling(r, d, x)
    BY DEF Telling, Answer, Resting
  <2>2. QED
    BY <1>2, <2>1, AccountedStays DEF Answer
<1>6. AlertsInv'
  BY MoreEventsKeepAlerts DEF Answer
<1>7. QED
  BY <1>3, <1>4, <1>5, <1>6

LEMMA StepRecordFields ==
  ASSUME IInv, NEW r \in Recorders, RecordFields(r)
  PROVE  IInv'
<1> USE DEF IInv
<1> DEFINE v == [recorder[r] EXCEPT !.pc = "read"]
<1>1. v \in Busy /\ v.pc = "read"
  BY BusyRecorder DEF RecordFields, Busy
<1>2. /\ recorder' \in [Recorders -> Busy \cup {Resting}]
      /\ recorder'[r] = v
      /\ \A q \in Recorders \ {r} : recorder'[q] = recorder[q]
  <2>1. recorder' = [recorder EXCEPT ![r] = v]
    BY DEF RecordFields
  <2>2. QED
    BY <1>1, <2>1, RecorderType
<1>3. TypeInv'
  BY <1>2 DEF TypeInv, RecordFields
<1>4. KnownInv'
  BY <1>1, <1>2, KnownStays DEF RecordFields
<1>5. Accounted'
  <2>1. \A d, x : ~Telling(r, d, x)
    BY DEF Telling, RecordFields
  <2>2. QED
    BY <1>2, <2>1, AccountedStays DEF RecordFields, Raise
<1>6. AlertsInv'
  BY RaiseKeepsAlerts DEF RecordFields
<1>7. QED
  BY <1>3, <1>4, <1>5, <1>6

LEMMA StepReadKnown ==
  ASSUME IInv, NEW r \in Recorders, ReadKnown(r)
  PROVE  IInv'
<1> USE DEF IInv
<1> DEFINE known == Known(recorder[r].scope, recorder[r].shape)
           v == [recorder[r] EXCEPT !.pc = "insert", !.known = known]
<1>1. /\ recorder[r] \in Busy
      /\ known \subseteq signatures[recorder[r].scope]
      /\ Comparable(recorder[r].shape) => \A k \in known : Comparable(k)
  BY BusyRecorder DEF ReadKnown, Known
<1>2. v \in Busy /\ v.pc = "insert" /\ v.known = known /\ v.scope = recorder[r].scope
        /\ v.shape = recorder[r].shape
  <2>1. known \subseteq Shapes
    BY <1>1 DEF TypeInv, Busy
  <2>2. QED
    BY <1>1, <2>1 DEF Busy
<1>3. /\ recorder' \in [Recorders -> Busy \cup {Resting}]
      /\ recorder'[r] = v
      /\ \A q \in Recorders \ {r} : recorder'[q] = recorder[q]
  <2>1. recorder' = [recorder EXCEPT ![r] = v]
    BY DEF ReadKnown
  <2>2. QED
    BY <1>2, <2>1, RecorderType
<1>4. TypeInv'
  BY <1>3 DEF TypeInv, ReadKnown
<1>5. KnownInv'
  BY <1>1, <1>2, <1>3, KnownStays DEF ReadKnown
<1>6. Accounted'
  <2>1. \A d, x : ~Telling(r, d, x)
    BY DEF Telling, ReadKnown
  <2>2. QED
    BY <1>3, <2>1, AccountedStays DEF ReadKnown
<1>7. AlertsInv'
  BY MoreEventsKeepAlerts DEF ReadKnown
<1>8. QED
  BY <1>4, <1>5, <1>6, <1>7

LEMMA StepInsertSignature ==
  ASSUME IInv, NEW r \in Recorders, InsertSignature(r)
  PROVE  IInv'
<1> USE DEF IInv
<1> DEFINE v == IF Reports(r) THEN [recorder[r] EXCEPT !.pc = "report"] ELSE Resting
<1>1. recorder[r] \in Busy /\ recorder[r].pc = "insert" /\ Upsert(r)
  BY BusyRecorder DEF InsertSignature
<1>2. v \in Busy \cup {Resting}
  BY <1>1 DEF Busy
<1>3. /\ recorder' \in [Recorders -> Busy \cup {Resting}]
      /\ recorder'[r] = v
      /\ \A q \in Recorders \ {r} : recorder'[q] = recorder[q]
  <2>1. recorder' = [recorder EXCEPT ![r] = v]
    BY DEF InsertSignature
  <2>2. QED
    BY <1>2, <2>1, RecorderType
<1>4. /\ signatures' \in [Scopes -> SUBSET Shapes]
      /\ \A c \in Scopes : signatures[c] \subseteq signatures'[c]
  BY <1>1, UpsertTypes
<1>5. TypeInv'
  BY <1>3, <1>4 DEF TypeInv
<1>6. KnownInv'
  <2>1. CASE Reports(r)
    <3>1. /\ v.known = recorder[r].known /\ v.scope = recorder[r].scope
          /\ v.shape = recorder[r].shape /\ v.scope \in Scopes
      BY <1>1, <2>1 DEF Busy
    <3>2. QED
      BY <1>1, <1>3, <1>4, <3>1, KnownStays DEF KnownInv
  <2>2. CASE ~Reports(r)
    <3>1. v.pc = "rest"
      BY <2>2 DEF Resting
    <3>2. QED
      BY <1>3, <1>4, <3>1, KnownStays
  <2>3. QED
    BY <2>1, <2>2
<1>7. Accounted'
  BY <1>1, <1>3, InsertAccounts DEF InsertSignature
<1>8. AlertsInv'
  BY MoreEventsKeepAlerts DEF InsertSignature
<1>9. QED
  BY <1>5, <1>6, <1>7, <1>8

\* A recorder that comes to rest knows nothing.
LEMMA StepRests ==
  ASSUME IInv, NEW r \in Recorders, recorder' = [recorder EXCEPT ![r] = Resting],
         signatures' \in [Scopes -> SUBSET Shapes],
         \A c \in Scopes : signatures[c] \subseteq signatures'[c]
  PROVE  /\ TypeInv' /\ KnownInv'
         /\ \A q \in Recorders \ {r} : recorder'[q] = recorder[q]
<1> USE DEF IInv
<1>1. /\ recorder' \in [Recorders -> Busy \cup {Resting}]
      /\ recorder'[r] = Resting
      /\ \A q \in Recorders \ {r} : recorder'[q] = recorder[q]
  BY RecorderType
<1>2. Resting.pc = "rest"
  BY DEF Resting
<1>3. QED
  BY <1>1, <1>2, KnownStays DEF TypeInv

LEMMA StepReportChange ==
  ASSUME IInv, NEW r \in Recorders, ReportChange(r)
  PROVE  IInv'
<1> USE DEF IInv
<1>1. TypeInv' /\ KnownInv' /\ \A q \in Recorders \ {r} : recorder'[q] = recorder[q]
  <2>1. signatures \in [Scopes -> SUBSET Shapes]
    BY DEF TypeInv
  <2>2. QED
    BY <2>1, StepRests DEF ReportChange
<1>2. Accounted'
  <2>1. events' = events \cup {ChangeKey(r)}
    BY DEF ReportChange, Raise
  <2>2. \A d, x : Telling(r, d, x) => Covered(d, x)'
    BY <2>1, TellingIsTold
  <2>3. QED
    BY <1>1, <2>1, <2>2, AccountedStays DEF ReportChange
<1>3. AlertsInv'
  BY RaiseKeepsAlerts DEF ReportChange
<1>4. QED
  BY <1>1, <1>2, <1>3

LEMMA StepFailsBefore ==
  ASSUME IInv, NEW r \in Recorders, FailsBefore(r)
  PROVE  IInv'
<1> USE DEF IInv
<1>1. TypeInv' /\ KnownInv' /\ \A q \in Recorders \ {r} : recorder'[q] = recorder[q]
  <2>1. signatures \in [Scopes -> SUBSET Shapes]
    BY DEF TypeInv
  <2>2. QED
    BY <2>1, StepRests DEF FailsBefore, Ends
<1>2. Accounted'
  <2>1. \A d, x : Telling(r, d, x) => Covered(d, x)'
    <3>1. CASE recorder[r].pc = "report"
      BY <3>1, TellingIsCut DEF FailsBefore
    <3>2. CASE recorder[r].pc # "report"
      BY <3>2 DEF Telling
    <3>3. QED
      BY <3>1, <3>2
  <2>2. QED
    BY <1>1, <2>1, AccountedStays DEF FailsBefore
<1>3. AlertsInv'
  BY MoreEventsKeepAlerts DEF FailsBefore, Ends
<1>4. QED
  BY <1>1, <1>2, <1>3

LEMMA StepFailsAfter ==
  ASSUME IInv, NEW r \in Recorders, FailsAfter(r)
  PROVE  IInv'
<1> USE DEF IInv
<1>1. recorder' = [recorder EXCEPT ![r] = Resting] /\ recorder[r].pc # "rest"
        /\ UNCHANGED alerts /\ signatures \in [Scopes -> SUBSET Shapes]
  BY DEF FailsAfter, Ends, TypeInv
<1>2. CASE /\ recorder[r].pc = "fields" /\ events' = events \cup {FieldsKey(r)}
           /\ UNCHANGED <<signatures, baselines, cut>>
  <2>1. TypeInv' /\ KnownInv' /\ \A q \in Recorders \ {r} : recorder'[q] = recorder[q]
    BY <1>1, <1>2, StepRests
  <2>2. \A d, x : ~Telling(r, d, x)
    BY <1>2 DEF Telling
  <2>3. Accounted'
    BY <1>2, <2>1, <2>2, AccountedStays
  <2>4. AlertsInv'
    BY <1>1, <1>2, MoreEventsKeepAlerts
  <2>5. QED
    BY <2>1, <2>3, <2>4
<1>3. CASE /\ recorder[r].pc = "insert" /\ Upsert(r)
           /\ cut' = IF Reports(r) THEN cut \cup {Shape(r)} ELSE cut
           /\ UNCHANGED events
  <2>1. /\ signatures' \in [Scopes -> SUBSET Shapes]
        /\ \A c \in Scopes : signatures[c] \subseteq signatures'[c]
    BY <1>1, <1>3, UpsertTypes
  <2>2. TypeInv' /\ KnownInv' /\ \A q \in Recorders \ {r} : recorder'[q] = recorder[q]
    BY <1>1, <2>1, StepRests
  <2>3. Accounted'
    BY <1>3, <2>2, InsertAccounts
  <2>4. AlertsInv'
    BY <1>1, <1>3, MoreEventsKeepAlerts
  <2>5. QED
    BY <2>2, <2>3, <2>4
<1>4. CASE /\ recorder[r].pc = "report" /\ events' = events \cup {ChangeKey(r)}
           /\ UNCHANGED <<signatures, baselines, cut>>
  <2>1. TypeInv' /\ KnownInv' /\ \A q \in Recorders \ {r} : recorder'[q] = recorder[q]
    BY <1>1, <1>4, StepRests
  <2>2. \A d, x : Telling(r, d, x) => Covered(d, x)'
    BY <1>4, TellingIsTold
  <2>3. Accounted'
    BY <1>4, <2>1, <2>2, AccountedStays
  <2>4. AlertsInv'
    BY <1>1, <1>4, MoreEventsKeepAlerts
  <2>5. QED
    BY <2>1, <2>3, <2>4
<1>5. QED
  BY <1>2, <1>3, <1>4 DEF FailsAfter

LEMMA StepStutters == IInv /\ UNCHANGED driftVars => IInv'
BY DEF IInv, TypeInv, KnownInv, Accounted, Covered, Told, Telling, NewsOf, AlertsInv, driftVars

LEMMA Inductive == IInv /\ [DriftNext]_driftVars => IInv'
<1>1. SUFFICES ASSUME IInv, DriftNext  PROVE IInv'
  BY StepStutters
<1>2. PICK r \in Recorders :
         \/ \E c \in Scopes, p \in Payloads : Answer(r, c, p)
         \/ RecordFields(r) \/ ReadKnown(r) \/ InsertSignature(r) \/ ReportChange(r)
         \/ FailsBefore(r) \/ FailsAfter(r)
  BY <1>1 DEF DriftNext
<1>3. QED
  BY <1>1, <1>2, StepAnswer, StepRecordFields, StepReadKnown, StepInsertSignature,
     StepReportChange, StepFailsBefore, StepFailsAfter

\* The strengthened invariant holds in every state of the specification.
THEOREM DriftInvariant == DriftSpec => []IInv
BY InitInv, Inductive, PTL DEF DriftSpec

\* Nothing new stands in a comparable shape that a scope is on file with and no
\* recorder told, is telling, or was cut off from telling (pipeline.ts:323-353).
THEOREM NewsIsNeverMissed == DriftSpec => []NothingSlipsIn
<1>1. IInv => NothingSlipsIn
  <2>1. SUFFICES ASSUME Accounted, NEW c \in Scopes, NEW s \in signatures[c], Comparable(s),
                        NEW x \in s
                 PROVE  \/ Expected(x[1], x[2])
                        \/ \E known \in baselines \cup cut : known[1] = c /\ x \in known[2]
                        \/ \E key \in events : key.type = "change"
                             /\ Names(key.of, x)
                        \/ \E r \in Recorders : /\ recorder[r].pc = "report"
                                                /\ Shape(r)[1] = c /\ x \in Shape(r)[2]
    BY DEF IInv, NothingSlipsIn
  <2>2. Covered(c, x)
    BY <2>1 DEF Accounted
  <2>3. ASSUME NEW r \in Recorders, Telling(r, c, x)
        PROVE  recorder[r].pc = "report" /\ Shape(r)[1] = c /\ x \in Shape(r)[2]
    BY <2>3 DEF Telling, Shape
  <2>4. QED
    BY <2>2, <2>3 DEF Covered, Told
<1>2. QED
  BY <1>1, DriftInvariant, PTL

-----------------------------------------------------------------------------
(* The fields that the parser does not know. *)

\* What a shape shows of them.
UnknownIn(s) ==
  {path \in Paths(s) \ ({<<>>, EntryPath} \cup {<<f>> : f \in RootFields}) :
     Front(path) = EntryPath => Last(path) \notin EntryFields}

LEMMA FieldPaths ==
  ASSUME NEW x
  PROVE  /\ <<x>> # <<>> /\ <<x>> # EntryPath /\ Front(<<x>>) # EntryPath
         /\ \A y : <<x>> = <<y>> => x = y
<1>1. Len(<<x>>) = 1 /\ <<x>> \in Seq({x}) /\ Len(EntryPath) = 2
  BY DEF EntryPath
<1>2. Len(Front(<<x>>)) = 0
  BY <1>1 DEF Front
<1> QED BY <1>1, <1>2

LEMMA AppendedToTwo ==
  ASSUME NEW S, NEW q \in Seq(S), NEW x \in S, Len(q) = 2
  PROVE  LET path == Append(q, x)
         IN  /\ path \in Seq(S) /\ Len(path) = 3 /\ path[3] = x
             /\ path[1] = q[1] /\ path[2] = q[2]
<1> DEFINE path == Append(q, x)
<1>1. /\ path \in Seq(S) /\ Len(path) = Len(q) + 1
      /\ \A i \in 1..Len(q) : path[i] = q[i]
      /\ path[Len(q) + 1] = x
  BY AppendProperties, SMTT(30)
<1> HIDE DEF path
<1>2. Len(path) = 3 /\ path[3] = x /\ path[1] = q[1] /\ path[2] = q[2]
  BY <1>1
<1> QED BY <1>1, <1>2 DEF path

LEMMA EntryFieldPaths ==
  ASSUME NEW x
  PROVE  LET path == Append(EntryPath, x)
         IN  /\ path # <<>> /\ path # EntryPath /\ \A y : path # <<y>>
             /\ Front(path) = EntryPath /\ Last(path) = x
<1> DEFINE path == Append(EntryPath, x)
           S == {"entries", "[]", x}
<1>1. /\ EntryPath \in Seq(S) /\ x \in S /\ Len(EntryPath) = 2
      /\ EntryPath[1] = "entries" /\ EntryPath[2] = "[]"
  BY DEF EntryPath
<1>2. /\ path \in Seq(S) /\ Len(path) = 3 /\ path[3] = x
      /\ path[1] = EntryPath[1] /\ path[2] = EntryPath[2]
  <2> HIDE DEF S
  <2> QED BY <1>1, AppendedToTwo
<1> HIDE DEF path
<1>3. Front(path) = EntryPath
  <2>1. /\ Front(path) \in Seq(S) /\ Len(Front(path)) = 2
        /\ Front(path)[1] = path[1] /\ Front(path)[2] = path[2]
    <3> HIDE DEF S
    <3>1. Front(path) = SubSeq(path, 1, 2)
      BY <1>2 DEF Front
    <3>2. SubSeq(path, 1, 2) \in Seq(S) /\ Len(SubSeq(path, 1, 2)) = 2
      BY <1>2
    <3>3. SubSeq(path, 1, 2)[1] = path[1]
      BY <1>2
    <3>4. SubSeq(path, 1, 2)[2] = path[2]
      BY <1>2
    <3> QED BY <3>1, <3>2, <3>3, <3>4
  <2> QED BY <1>1, <1>2, <2>1
<1>4. Last(path) = x
  BY <1>2 DEF Last
<1>5. \A y : Len(<<y>>) = 1
  OBVIOUS
<1>6. path # <<>> /\ path # EntryPath /\ \A y : path # <<y>>
  BY <1>1, <1>2, <1>5
<1> QED BY <1>3, <1>4, <1>6 DEF path

\* The shape of an answer shows the fields that were found unknown in the answer.
LEMMA ShapesShowUnknown ==
  ASSUME NEW p
  PROVE  UnknownIn(Structure(p)) = UnknownFields(p)
<1> DEFINE s == Structure(p)
           E(f) == Append(EntryPath, f[1])
<1>1. \A path : path \in Paths(s) <=>
        \/ path = <<>> \/ path = EntriesPath
        \/ \E f \in p.fields : path = <<f[1]>>
        \/ p.entries # {} /\ path = EntryPath
        \/ \E f \in UNION p.entries : path = E(f)
  <2> DEFINE A == {<<<<>>, "object">>, <<EntriesPath, "array">>}
             B == {<<<<f[1]>>, f[2]>> : f \in p.fields}
             C == {<<EntryPath, "object">> : e \in p.entries}
             D == {<<E(f), f[2]>> : f \in UNION p.entries}
  <2>1. s = A \cup B \cup C \cup D
    BY DEF Structure
  <2>2. Paths(s) = Paths(A) \cup Paths(B) \cup Paths(C) \cup Paths(D)
    BY <2>1 DEF Paths
  <2>3. \A path : path \in Paths(A) <=> path \in {<<>>, EntriesPath}
    BY DEF Paths
  <2>4. \A path : path \in Paths(B) <=> \E f \in p.fields : path = <<f[1]>>
    <3>1. \A f \in p.fields : <<<<f[1]>>, f[2]>> \in B
      OBVIOUS
    <3>2. \A z \in B : \E f \in p.fields : z = <<<<f[1]>>, f[2]>>
      OBVIOUS
    <3>3. \A f : <<<<f[1]>>, f[2]>>[1] = <<f[1]>>
      OBVIOUS
    <3> HIDE DEF B
    <3>4. ASSUME NEW f \in p.fields PROVE <<f[1]>> \in Paths(B)
      BY <3>1, <3>3 DEF Paths
    <3>5. ASSUME NEW path \in Paths(B) PROVE \E f \in p.fields : path = <<f[1]>>
      BY <3>2, <3>3 DEF Paths
    <3> QED BY <3>4, <3>5
  <2>5. \A path : path \in Paths(C) <=> p.entries # {} /\ path = EntryPath
    <3>1. \A e \in p.entries : <<EntryPath, "object">> \in C
      OBVIOUS
    <3>2. \A z \in C : p.entries # {} /\ z = <<EntryPath, "object">>
      OBVIOUS
    <3>3. <<EntryPath, "object">>[1] = EntryPath
      OBVIOUS
    <3> HIDE DEF C
    <3>4. ASSUME NEW path, p.entries # {}, path = EntryPath PROVE path \in Paths(C)
      BY <3>1, <3>3, <3>4 DEF Paths
    <3>5. ASSUME NEW path \in Paths(C) PROVE p.entries # {} /\ path = EntryPath
      BY <3>2, <3>3 DEF Paths
    <3> QED BY <3>4, <3>5
  <2>6. \A path : path \in Paths(D) <=> \E f \in UNION p.entries : path = E(f)
    <3> HIDE DEF E
    <3>1. \A f \in UNION p.entries : <<E(f), f[2]>> \in D
      OBVIOUS
    <3>2. \A z \in D : \E f \in UNION p.entries : z = <<E(f), f[2]>>
      OBVIOUS
    <3>3. \A f : <<E(f), f[2]>>[1] = E(f)
      OBVIOUS
    <3> HIDE DEF D
    <3>4. ASSUME NEW f \in UNION p.entries PROVE E(f) \in Paths(D)
      BY <3>1, <3>3 DEF Paths
    <3>5. ASSUME NEW path \in Paths(D) PROVE \E f \in UNION p.entries : path = E(f)
      BY <3>2, <3>3 DEF Paths
    <3> QED BY <3>4, <3>5
  <2> HIDE DEF s, A, B, C, D, E
  <2> QED BY <2>2, <2>3, <2>4, <2>5, <2>6
<1>2. EntriesPath \in {<<f>> : f \in RootFields}
  BY DriftAssumption DEF EntriesPath
<1>3. \A path : path \in UnknownFields(p) <=>
        \/ \E f \in p.fields : path = <<f[1]>> /\ f[1] \notin RootFields
        \/ \E f \in UNION p.entries : path = E(f) /\ f[1] \notin EntryFields
  BY DEF UnknownFields
<1>4. \A f : /\ E(f) # <<>> /\ E(f) # EntryPath /\ E(f) \notin {<<g>> : g \in RootFields}
             /\ Front(E(f)) = EntryPath /\ Last(E(f)) = f[1]
  BY EntryFieldPaths
<1>5. \A f : /\ <<f[1]>> # <<>> /\ <<f[1]>> # EntryPath /\ Front(<<f[1]>>) # EntryPath
             /\ <<f[1]>> \in {<<g>> : g \in RootFields} <=> f[1] \in RootFields
  BY FieldPaths
<1> HIDE DEF s, E
<1>6. \A path : path \in UnknownIn(s) <=>
        /\ path \in Paths(s) /\ path # <<>> /\ path # EntryPath
        /\ path \notin {<<f>> : f \in RootFields}
        /\ Front(path) = EntryPath => Last(path) \notin EntryFields
  BY DEF UnknownIn
<1>7. ASSUME NEW path \in UnknownIn(s) PROVE path \in UnknownFields(p)
  BY <1>1, <1>2, <1>3, <1>4, <1>5, <1>6, <1>7
<1>8. ASSUME NEW path \in UnknownFields(p) PROVE path \in UnknownIn(s)
  BY <1>1, <1>3, <1>4, <1>5, <1>6, <1>8
<1> QED BY <1>7, <1>8 DEF s

FiledIn(set, fields) == fields # {} => [type |-> "fields", of |-> fields] \in set

\* A recorder gets to the shape when its unknown fields are on file.
FieldsInv ==
  /\ \A r \in Recorders :
       /\ recorder[r].pc # "rest" => recorder[r].unknown = UnknownIn(recorder[r].shape)
       /\ recorder[r].pc \in {"read", "insert"} => FiledIn(events, recorder[r].unknown)
  /\ \A c \in Scopes : \A s \in signatures[c] : FiledIn(events, UnknownIn(s))

\* What keeps it: events stay, and what recorder q turns to or adds is on file.
LEMMA FieldsStay ==
  ASSUME FieldsInv, NEW q \in Recorders, NEW v, events \subseteq events',
         recorder'[q] = v, \A r \in Recorders \ {q} : recorder'[r] = recorder[r],
         v.pc # "rest" => v.unknown = UnknownIn(v.shape),
         v.pc \in {"read", "insert"} => FiledIn(events', v.unknown),
         \A c \in Scopes : \A s \in signatures'[c] : s \in signatures[c] \/ FiledIn(events', UnknownIn(s))
  PROVE  FieldsInv'
<1>1. \A fields : FiledIn(events, fields) => FiledIn(events', fields)
  BY DEF FiledIn
<1> QED BY <1>1 DEF FieldsInv

\* The step that inserts a shape.
LEMMA InsertsOnFile ==
  ASSUME TypeInv, FieldsInv, NEW r \in Recorders, recorder[r].pc = "insert", Upsert(r),
         events' = events
  PROVE  \A c \in Scopes : \A s \in signatures'[c] : s \in signatures[c] \/ FiledIn(events', UnknownIn(s))
<1>1. FiledIn(events', UnknownIn(recorder[r].shape))
  BY DEF FieldsInv, FiledIn
<1>2. \A c \in Scopes : \A s \in signatures'[c] : s \in signatures[c] \/ s = recorder[r].shape
  BY DEF Upsert, TypeInv
<1> QED BY <1>1, <1>2

LEMMA FieldsStep ==
  ASSUME TypeInv, FieldsInv, [DriftNext]_driftVars
  PROVE  FieldsInv'
<1>0. Resting.pc = "rest"
  BY DEF Resting
<1>1. CASE UNCHANGED driftVars
  BY <1>1 DEF driftVars, FieldsInv, FiledIn
<1>2. ASSUME NEW r \in Recorders, NEW c \in Scopes, NEW p \in Payloads, Answer(r, c, p)
      PROVE  FieldsInv'
  <2> DEFINE first == IF UnknownFields(p) # {} THEN "fields" ELSE "read"
             v == [pc |-> first, scope |-> c, shape |-> Structure(p),
                   unknown |-> UnknownFields(p), known |-> {}]
  <2>1. recorder' = [recorder EXCEPT ![r] = v] /\ events' = events /\ signatures' = signatures
    BY <1>2 DEF Answer
  <2>2. /\ v.pc = first /\ v.unknown = UnknownFields(p) /\ v.shape = Structure(p)
        /\ first = "read" => UnknownFields(p) = {}
        /\ first # "insert"
    OBVIOUS
  <2>3. recorder'[r] = v /\ \A q \in Recorders \ {r} : recorder'[q] = recorder[q]
    BY <2>1 DEF TypeInv
  <2> HIDE DEF v, first
  <2>4. v.unknown = UnknownIn(v.shape)
    BY <2>2, ShapesShowUnknown
  <2>5. v.pc \in {"read", "insert"} => FiledIn(events', v.unknown)
    BY <2>2 DEF FiledIn
  <2> QED BY <2>1, <2>3, <2>4, <2>5, FieldsStay
<1>3. ASSUME NEW r \in Recorders, RecordFields(r) PROVE FieldsInv'
  <2> DEFINE v == [recorder[r] EXCEPT !.pc = "read"]
  <2>1. recorder[r] \in Busy /\ recorder[r].pc = "fields"
    BY <1>3, BusyRecorder DEF RecordFields
  <2>2. v.pc = "read" /\ v.unknown = recorder[r].unknown /\ v.shape = recorder[r].shape
    BY <2>1 DEF Busy
  <2>3. /\ recorder' = [recorder EXCEPT ![r] = v] /\ signatures' = signatures
        /\ events' = events \cup {[type |-> "fields", of |-> recorder[r].unknown]}
    BY <1>3 DEF RecordFields, Raise, FieldsKey
  <2>4. recorder'[r] = v /\ \A q \in Recorders \ {r} : recorder'[q] = recorder[q]
    BY <2>3 DEF TypeInv
  <2> HIDE DEF v
  <2>5. v.unknown = UnknownIn(v.shape) /\ FiledIn(events', v.unknown)
    BY <2>1, <2>2, <2>3 DEF FieldsInv, FiledIn
  <2> QED BY <2>3, <2>4, <2>5, FieldsStay
<1>4. ASSUME NEW r \in Recorders, ReadKnown(r) PROVE FieldsInv'
  <2> DEFINE K == Known(recorder[r].scope, recorder[r].shape)
             v == [recorder[r] EXCEPT !.pc = "insert", !.known = K]
  <2>1. recorder[r] \in Busy /\ recorder[r].pc = "read"
    BY <1>4, BusyRecorder DEF ReadKnown
  <2>2. v.pc = "insert" /\ v.unknown = recorder[r].unknown /\ v.shape = recorder[r].shape
    BY <2>1 DEF Busy
  <2>3. recorder' = [recorder EXCEPT ![r] = v] /\ signatures' = signatures /\ events' = events
    BY <1>4 DEF ReadKnown
  <2>4. recorder'[r] = v /\ \A q \in Recorders \ {r} : recorder'[q] = recorder[q]
    BY <2>3 DEF TypeInv
  <2> HIDE DEF v
  <2>5. v.unknown = UnknownIn(v.shape) /\ FiledIn(events', v.unknown)
    BY <2>1, <2>2, <2>3 DEF FieldsInv, FiledIn
  <2> QED BY <2>3, <2>4, <2>5, FieldsStay
<1>5. ASSUME NEW r \in Recorders, InsertSignature(r) PROVE FieldsInv'
  <2> DEFINE v == IF Reports(r) THEN [recorder[r] EXCEPT !.pc = "report"] ELSE Resting
  <2>1. recorder[r] \in Busy /\ recorder[r].pc = "insert" /\ Upsert(r) /\ events' = events
    BY <1>5, BusyRecorder DEF InsertSignature
  <2>2. v.pc \in {"report", "rest"}
        /\ (v.pc = "report" => v.unknown = recorder[r].unknown /\ v.shape = recorder[r].shape)
    BY <1>0, <2>1 DEF Busy
  <2>3. recorder' = [recorder EXCEPT ![r] = v]
    BY <1>5 DEF InsertSignature
  <2>4. recorder'[r] = v /\ \A q \in Recorders \ {r} : recorder'[q] = recorder[q]
    BY <2>3 DEF TypeInv
  <2> HIDE DEF v
  <2>5. v.pc # "rest" => v.unknown = UnknownIn(v.shape)
    BY <2>1, <2>2 DEF FieldsInv
  <2> QED BY <2>1, <2>2, <2>4, <2>5, InsertsOnFile, FieldsStay
<1>6. ASSUME NEW r \in Recorders, recorder' = [recorder EXCEPT ![r] = Resting],
             events \subseteq events',
             \/ signatures' = signatures
             \/ recorder[r].pc = "insert" /\ Upsert(r) /\ events' = events
      PROVE  FieldsInv'
  <2>1. recorder'[r] = Resting /\ \A q \in Recorders \ {r} : recorder'[q] = recorder[q]
    BY <1>6 DEF TypeInv
  <2>2. \A c \in Scopes : \A s \in signatures'[c] : s \in signatures[c] \/ FiledIn(events', UnknownIn(s))
    BY <1>6, InsertsOnFile
  <2> QED BY <1>0, <1>6, <2>1, <2>2, FieldsStay
<1>7. ASSUME NEW r \in Recorders, ReportChange(r) PROVE FieldsInv'
  BY <1>6, <1>7 DEF ReportChange, Raise
<1>8. ASSUME NEW r \in Recorders, FailsBefore(r) \/ FailsAfter(r) PROVE FieldsInv'
  BY <1>6, <1>8 DEF FailsBefore, FailsAfter, Ends
<1> QED BY <1>1, <1>2, <1>3, <1>4, <1>5, <1>7, <1>8 DEF DriftNext

\* Whoever dies or fails between the statements, a field the parser does not know is on
\* file before the shape that has it, so the next answer of that shape would raise it
\* again (pipeline.ts:291-311).
THEOREM UnknownFieldsAreFiled == DriftSpec => []UnknownFieldsAreOnFile
<1>1. DriftInit => FieldsInv
  BY DEF DriftInit, FieldsInv, Resting
<1>2. IInv => TypeInv
  BY DEF IInv
<1>3. FieldsInv => UnknownFieldsAreOnFile
  BY DEF FieldsInv, UnknownFieldsAreOnFile, FiledIn, UnknownIn
<1> QED BY <1>1, <1>2, <1>3, FieldsStep, DriftInvariant, PTL DEF DriftSpec

-----------------------------------------------------------------------------
(* The types of the variables. *)

\* A shape that was compared with nothing, whose recorder was cut off, or that is
\* about to be reported is one that its scope has.
FiledShapes ==
  /\ \A y \in baselines \cup cut : \E c \in Scopes : \E s \in signatures[c] : y = <<c, s>>
  /\ \A r \in Recorders : recorder[r].pc = "report" =>
       recorder[r].shape \in signatures[recorder[r].scope]

Budgets == answers \in 0..MaxAnswers /\ driftFaults \in 0..MaxDriftFaults

DriftTypes == FiledShapes /\ Budgets

\* What is added to the two histories, and a recorder that is about to report, have a
\* shape of their scope; the other recorders stay.
LEMMA FiledStays ==
  ASSUME IInv, FiledShapes, NEW q \in Recorders,
         \A r \in Recorders \ {q} : recorder'[r] = recorder[r],
         \A c \in Scopes : signatures[c] \subseteq signatures'[c],
         \A y \in baselines' \cup cut' :
           y \in baselines \cup cut \/ \E c \in Scopes : \E s \in signatures'[c] : y = <<c, s>>,
         recorder'[q].pc = "report" => recorder'[q].shape \in signatures'[recorder'[q].scope]
  PROVE  FiledShapes'
<1>1. ASSUME NEW r \in Recorders \ {q}, recorder'[r].pc = "report"
      PROVE  recorder'[r].shape \in signatures'[recorder'[r].scope]
  <2>1. recorder[r].pc = "report" /\ recorder[r].scope \in Scopes
    BY <1>1, BusyRecorder DEF IInv, Busy
  <2> QED BY <1>1, <2>1 DEF FiledShapes
<1>2. ASSUME NEW y \in baselines' \cup cut'
      PROVE  \E c \in Scopes : \E s \in signatures'[c] : y = <<c, s>>
  <2>1. CASE y \notin baselines \cup cut
    BY <1>2, <2>1
  <2>2. CASE y \in baselines \cup cut
    <3>1. PICK c \in Scopes : \E s \in signatures[c] : y = <<c, s>>
      BY <2>2 DEF FiledShapes
    <3> QED BY <3>1
  <2> QED BY <1>2, <2>1, <2>2
<1> QED BY <1>1, <1>2 DEF FiledShapes

\* A recorder at work has its shape on file once it has inserted it.
LEMMA UpsertFiles ==
  ASSUME IInv, NEW q \in Recorders, recorder[q].pc = "insert", Upsert(q)
  PROVE  /\ \A c \in Scopes : signatures[c] \subseteq signatures'[c]
         /\ recorder[q].scope \in Scopes /\ recorder[q].shape \in signatures'[recorder[q].scope]
         /\ baselines' \subseteq baselines \cup {Shape(q)}
<1>1. recorder[q] \in Busy /\ TypeInv
  BY BusyRecorder DEF IInv
<1>2. recorder[q].scope \in Scopes
  BY <1>1 DEF Busy
<1>3. signatures' = [signatures EXCEPT ![recorder[q].scope] = @ \cup {recorder[q].shape}]
  BY DEF Upsert
<1> QED BY <1>1, <1>2, <1>3 DEF Upsert, TypeInv

LEMMA FiledStep ==
  ASSUME IInv, FiledShapes, [DriftNext]_driftVars
  PROVE  FiledShapes'
<1> DEFINE Sets(r, v) == recorder' = [recorder EXCEPT ![r] = v]
<1>0. ASSUME NEW r \in Recorders, NEW v, Sets(r, v)
      PROVE  recorder'[r] = v /\ \A q \in Recorders \ {r} : recorder'[q] = recorder[q]
  BY <1>0 DEF IInv, TypeInv
<1>1. ASSUME NEW r \in Recorders, NEW v, Sets(r, v), v.pc # "report",
             UNCHANGED <<signatures, baselines, cut>>
      PROVE  FiledShapes'
  <2>1. recorder'[r].pc # "report" /\ \A q \in Recorders \ {r} : recorder'[q] = recorder[q]
    BY <1>0, <1>1
  <2>2. /\ \A y \in baselines' \cup cut' : y \in baselines \cup cut
        /\ \A c \in Scopes : signatures[c] \subseteq signatures'[c]
    BY <1>1
  <2> HIDE DEF Sets
  <2> QED BY <2>1, <2>2, FiledStays
<1>2. ASSUME NEW r \in Recorders, NEW c \in Scopes, NEW p \in Payloads, Answer(r, c, p)
      PROVE  FiledShapes'
  <2> DEFINE at == IF UnknownFields(p) # {} THEN "fields" ELSE "read"
             v == [pc |-> at, scope |-> c, shape |-> Structure(p),
                   unknown |-> UnknownFields(p), known |-> {}]
  <2>1. v.pc # "report" /\ Sets(r, v) /\ UNCHANGED <<signatures, baselines, cut>>
    BY <1>2 DEF Answer
  <2> QED BY <1>1, <2>1
<1>3. ASSUME NEW r \in Recorders, RecordFields(r)  PROVE FiledShapes'
  <2>1. recorder[r] \in Busy
    BY <1>3, BusyRecorder DEF RecordFields, IInv
  <2>2. [recorder[r] EXCEPT !.pc = "read"].pc # "report"
    BY <2>1 DEF Busy
  <2>3. Sets(r, [recorder[r] EXCEPT !.pc = "read"])
    BY <1>3 DEF RecordFields
  <2> QED BY <1>1, <1>3, <2>2, <2>3 DEF RecordFields
<1>4. ASSUME NEW r \in Recorders, ReadKnown(r)  PROVE FiledShapes'
  <2> DEFINE k == Known(recorder[r].scope, recorder[r].shape)
             v == [recorder[r] EXCEPT !.pc = "insert", !.known = k]
  <2>1. recorder[r] \in Busy
    BY <1>4, BusyRecorder DEF ReadKnown, IInv
  <2>2. v.pc # "report"
    BY <2>1 DEF Busy
  <2>3. Sets(r, v)
    BY <1>4 DEF ReadKnown
  <2> QED BY <1>1, <1>4, <2>2, <2>3 DEF ReadKnown
<1>5. ASSUME NEW r \in Recorders, InsertSignature(r)  PROVE FiledShapes'
  <2> DEFINE v == IF Reports(r) THEN [recorder[r] EXCEPT !.pc = "report"] ELSE Resting
  <2>1. recorder[r] \in Busy /\ recorder[r].pc = "insert" /\ Upsert(r) /\ cut' = cut
    BY <1>5, BusyRecorder DEF InsertSignature, IInv
  <2>2. v.pc = "report" => v.scope = recorder[r].scope /\ v.shape = recorder[r].shape
    BY <2>1 DEF Busy, Resting
  <2>3. recorder'[r] = v /\ \A q \in Recorders \ {r} : recorder'[q] = recorder[q]
    BY <1>0, <1>5 DEF InsertSignature
  <2>4. \E c \in Scopes : \E s \in signatures'[c] : Shape(r) = <<c, s>>
    BY <2>1, UpsertFiles DEF Shape
  <2>5. \A y \in baselines' \cup cut' : y \in baselines \cup cut \/ y = Shape(r)
    BY <2>1, UpsertFiles
  <2>6. /\ \A c \in Scopes : signatures[c] \subseteq signatures'[c]
        /\ recorder[r].shape \in signatures'[recorder[r].scope]
    BY <2>1, UpsertFiles
  <2>7. recorder'[r].pc = "report" => recorder'[r].shape \in signatures'[recorder'[r].scope]
    BY <2>2, <2>3, <2>6
  <2> HIDE DEF v
  <2> QED BY <2>3, <2>4, <2>5, <2>6, <2>7, FiledStays
<1>6. ASSUME NEW r \in Recorders, ReportChange(r)  PROVE FiledShapes'
  <2>1. Sets(r, Resting) /\ Resting.pc # "report"
    BY <1>6 DEF ReportChange, Resting
  <2>2. UNCHANGED <<signatures, baselines, cut>>
    BY <1>6 DEF ReportChange
  <2> HIDE DEF Sets
  <2> QED BY <1>1, <2>1, <2>2
<1>7. ASSUME NEW r \in Recorders, FailsBefore(r)  PROVE FiledShapes'
  <2>1. recorder'[r].pc # "report" /\ \A q \in Recorders \ {r} : recorder'[q] = recorder[q]
    <3>1. Sets(r, Resting) /\ Resting.pc # "report"
      BY <1>7 DEF FailsBefore, Ends, Resting
    <3> HIDE DEF Sets
    <3> QED BY <1>0, <3>1
  <2>2. ASSUME recorder[r].pc = "report"
        PROVE  \E c \in Scopes : \E s \in signatures'[c] : Shape(r) = <<c, s>>
    <3>1. recorder[r].pc = "report"
      BY <2>2
    <3>2. recorder[r].scope \in Scopes
      BY <3>1, BusyRecorder DEF IInv, Busy
    <3> QED BY <1>7, <3>1, <3>2 DEF FiledShapes, FailsBefore, Shape
  <2>3. /\ signatures' = signatures
        /\ \A y \in baselines' \cup cut' :
             y \in baselines \cup cut \/ (recorder[r].pc = "report" /\ y = Shape(r))
    <3>1. /\ signatures' = signatures /\ baselines' = baselines
          /\ recorder[r].pc = "report" => cut' = cut \cup {Shape(r)}
          /\ recorder[r].pc # "report" => cut' = cut
      BY <1>7 DEF FailsBefore
    <3> QED BY <3>1
  <2>4. \A c \in Scopes : signatures[c] \subseteq signatures'[c]
    BY <2>3
  <2> QED BY <2>1, <2>2, <2>3, <2>4, FiledStays
<1>8. ASSUME NEW r \in Recorders, FailsAfter(r)  PROVE FiledShapes'
  <2>1. Sets(r, Resting) /\ Resting.pc # "report"
    BY <1>8 DEF FailsAfter, Ends, Resting
  <2>2. CASE UNCHANGED <<signatures, baselines, cut>>
    <3> HIDE DEF Sets
    <3> QED BY <1>1, <2>1, <2>2
  <2>3. CASE /\ recorder[r].pc = "insert" /\ Upsert(r)
             /\ cut' = IF Reports(r) THEN cut \cup {Shape(r)} ELSE cut
    <3>1. recorder'[r].pc # "report" /\ \A q \in Recorders \ {r} : recorder'[q] = recorder[q]
      BY <1>0, <2>1
    <3>2. \E c \in Scopes : \E s \in signatures'[c] : Shape(r) = <<c, s>>
      BY <2>3, UpsertFiles DEF Shape
    <3>3. \A y \in baselines' \cup cut' : y \in baselines \cup cut \/ y = Shape(r)
      BY <2>3, UpsertFiles
    <3>4. \A c \in Scopes : signatures[c] \subseteq signatures'[c]
      BY <2>3, UpsertFiles
    <3> QED BY <3>1, <3>2, <3>3, <3>4, FiledStays
  <2> QED BY <1>8, <2>2, <2>3 DEF FailsAfter
<1>9. CASE UNCHANGED driftVars
  BY <1>9 DEF driftVars, FiledShapes
<1> QED BY <1>2, <1>3, <1>4, <1>5, <1>6, <1>7, <1>8, <1>9 DEF DriftNext

\* What a recorder finds is borne out by its shape and by what it has read.
LEMMA NewsAreBorneOut ==
  ASSUME NEW K, NEW s, NEW filed, K \subseteq filed,
         \A y \in UNION K : y = <<y[1], y[2]>>
  PROVE  BorneOut(News(K, s), s, filed)
<1> DEFINE all == UNION K
           news == News(K, s)
<1>1. news.added \subseteq Paths(s)
  BY DEF News
<1>2. ASSUME NEW path \in news.removed
      PROVE  path \notin Paths(s) /\ ~Hidden(s, path) /\ \E k \in filed : path \in Paths(k)
  <2>1. path \in Paths(all) /\ path \notin Paths(s) /\ ~Hidden(s, path)
    BY <1>2 DEF News
  <2>2. \E k \in K : path \in Paths(k)
    BY <2>1 DEF Paths
  <2> QED BY <2>1, <2>2
<1>3. ASSUME NEW w \in news.widened
      PROVE  /\ w.to = Types(s, w.path) /\ w.to \ w.from # {}
             /\ \A type \in w.from : \E k \in filed : <<w.path, type>> \in k
  <2>1. PICK p : /\ w = [path |-> p, from |-> Types(all, p), to |-> Types(s, p)]
                 /\ Types(s, p) \ Types(all, p) # {}
    BY <1>3 DEF News
  <2>2. w.path = p /\ w.to = Types(s, p) /\ w.from = Types(all, p)
    BY <2>1
  <2>3. ASSUME NEW type \in Types(all, p)  PROVE \E k \in filed : <<p, type>> \in k
    <3>1. PICK y \in all : y[1] = p /\ y[2] = type
      BY <2>3 DEF Types
    <3> QED BY <3>1
  <2> QED BY <2>1, <2>2, <2>3
<1> QED BY <1>1, <1>2, <1>3 DEF BorneOut

\* Shapes that are added to those on file take nothing from what is borne out.
LEMMA StaysBorneOut ==
  ASSUME ReportsAreBorneOut, \A c \in Scopes : signatures[c] \subseteq signatures'[c],
         \A key \in events' : key.type = "change" =>
           key \in events \/ \E c \in Scopes : \E s \in signatures'[c] :
                               BorneOut(key.of, s, signatures'[c])
  PROVE  ReportsAreBorneOut'
<1>1. SUFFICES ASSUME NEW key \in events', key.type = "change", key \in events
               PROVE  \E c \in Scopes : \E s \in signatures'[c] :
                        BorneOut(key.of, s, signatures'[c])
  BY DEF ReportsAreBorneOut
<1>2. PICK c \in Scopes : \E s \in signatures[c] : BorneOut(key.of, s, signatures[c])
  BY <1>1 DEF ReportsAreBorneOut
<1>3. PICK s \in signatures[c] : BorneOut(key.of, s, signatures[c])
  BY <1>2
<1>4. s \in signatures'[c] /\ signatures[c] \subseteq signatures'[c]
  OBVIOUS
<1>5. BorneOut(key.of, s, signatures'[c])
  BY <1>3, <1>4 DEF BorneOut
<1> QED BY <1>4, <1>5

LEMMA BorneOutStep ==
  ASSUME IInv, FiledShapes, ReportsAreBorneOut, [DriftNext]_driftVars
  PROVE  ReportsAreBorneOut'
<1>1. ASSUME NEW r \in Recorders, recorder[r].pc = "report"
      PROVE  \E c \in Scopes : \E s \in signatures[c] :
               BorneOut(ChangeKey(r).of, s, signatures[c])
  <2>1. /\ recorder[r] \in Busy /\ recorder[r].known \subseteq signatures[recorder[r].scope]
        /\ recorder[r].shape \in signatures[recorder[r].scope]
    BY <1>1, BusyRecorder DEF IInv, KnownInv, FiledShapes
  <2>2. recorder[r].scope \in Scopes /\ recorder[r].known \subseteq Shapes
    BY <2>1 DEF Busy
  <2>3. \A y \in UNION recorder[r].known : y = <<y[1], y[2]>>
    BY <2>2, PairsOfShapes
  <2>4. BorneOut(NewsOf(r), recorder[r].shape, signatures[recorder[r].scope])
    BY <2>1, <2>3, NewsAreBorneOut DEF NewsOf
  <2> QED BY <2>1, <2>2, <2>4 DEF ChangeKey
<1>2. ASSUME NEW r \in Recorders, recorder[r].pc = "report",
             events' \subseteq events \cup {ChangeKey(r)}, signatures' = signatures
      PROVE  ReportsAreBorneOut'
  <2>1. ASSUME NEW key \in events', key \notin events
        PROVE  \E c \in Scopes : \E s \in signatures'[c] : BorneOut(key.of, s, signatures'[c])
    BY <1>1, <1>2, <2>1
  <2> QED BY <1>2, <2>1, StaysBorneOut
<1>3. ASSUME NEW r \in Recorders, events' \subseteq events \cup {FieldsKey(r)},
             \A c \in Scopes : signatures[c] \subseteq signatures'[c]
      PROVE  ReportsAreBorneOut'
  <2>1. FieldsKey(r).type # "change"
    BY DEF FieldsKey
  <2> QED BY <1>3, <2>1, StaysBorneOut
<1>4. ASSUME NEW r \in Recorders, NEW c \in Scopes, NEW p \in Payloads, Answer(r, c, p)
      PROVE  ReportsAreBorneOut'
  BY <1>3, <1>4 DEF Answer
<1>5. ASSUME NEW r \in Recorders, RecordFields(r) \/ ReadKnown(r)  PROVE ReportsAreBorneOut'
  BY <1>3, <1>5 DEF RecordFields, ReadKnown, Raise
<1>6. ASSUME NEW r \in Recorders, recorder[r].pc = "insert", Upsert(r), UNCHANGED events
      PROVE  ReportsAreBorneOut'
  BY <1>3, <1>6, UpsertFiles
<1>7. ASSUME NEW r \in Recorders, ReportChange(r)  PROVE ReportsAreBorneOut'
  BY <1>2, <1>7 DEF ReportChange, Raise
<1>8. ASSUME NEW r \in Recorders, FailsBefore(r)  PROVE ReportsAreBorneOut'
  BY <1>3, <1>8 DEF FailsBefore
<1>9. ASSUME NEW r \in Recorders, FailsAfter(r)  PROVE ReportsAreBorneOut'
  BY <1>2, <1>3, <1>6, <1>9 DEF FailsAfter
<1>10. CASE UNCHANGED driftVars
  BY <1>10, StaysBorneOut DEF driftVars
<1> QED
  BY <1>4, <1>5, <1>6, <1>7, <1>8, <1>9, <1>10 DEF DriftNext, InsertSignature

\* Whoever fails or runs between the statements, an event says nothing that the shapes
\* of a scope do not bear out, and never that what an empty array hides is gone
\* (hash.ts:93-106, pipeline.ts:336-364).
THEOREM EventsAreBorneOut == DriftSpec => []ReportsAreBorneOut
<1>1. DriftInit => FiledShapes /\ ReportsAreBorneOut
  BY DEF DriftInit, FiledShapes, ReportsAreBorneOut, Resting
<1>2. IInv /\ FiledShapes /\ [DriftNext]_driftVars => FiledShapes'
  BY FiledStep
<1> QED BY <1>1, <1>2, BorneOutStep, DriftInvariant, PTL DEF DriftSpec

LEMMA BudgetsStep ==
  ASSUME Budgets, [DriftNext]_driftVars
  PROVE  Budgets'
<1> USE DriftAssumption DEF Budgets
<1>1. ASSUME NEW r \in Recorders, NEW c \in Scopes, NEW p \in Payloads, Answer(r, c, p)
      PROVE  Budgets'
  BY <1>1 DEF Answer
<1>2. ASSUME NEW r \in Recorders,
             RecordFields(r) \/ ReadKnown(r) \/ InsertSignature(r) \/ ReportChange(r)
      PROVE  Budgets'
  BY <1>2 DEF RecordFields, ReadKnown, InsertSignature, ReportChange
<1>3. ASSUME NEW r \in Recorders, FailsBefore(r) \/ FailsAfter(r)  PROVE Budgets'
  BY <1>3 DEF FailsBefore, FailsAfter, Ends
<1>4. CASE UNCHANGED driftVars
  BY <1>4 DEF driftVars
<1> QED BY <1>1, <1>2, <1>3, <1>4 DEF DriftNext

LEMMA DriftTypesStep == IInv /\ DriftTypes /\ [DriftNext]_driftVars => DriftTypes'
BY FiledStep, BudgetsStep DEF DriftTypes

LEMMA DriftTypesInit == DriftInit => DriftTypes
BY DriftAssumption DEF DriftInit, DriftTypes, FiledShapes, Budgets, Resting

LEMMA DriftTyped ==
  ASSUME IInv, DriftTypes
  PROVE  DriftTypeOK
<1>1. signatures \in [Scopes -> SUBSET {Structure(p) : p \in Payloads}]
  BY DEF IInv, TypeInv, Shapes
<1>2. Range(alerts) \subseteq events
  BY DEF IInv, AlertsInv, Range
<1>3. \A r \in Recorders : recorder[r].pc \in {"rest", "fields", "read", "insert", "report"}
  BY DEF IInv, TypeInv, Busy, Resting
<1>4. baselines \cup cut \subseteq UNION {{c} \X signatures[c] : c \in Scopes}
  <2>1. ASSUME NEW y \in baselines \cup cut
        PROVE  y \in UNION {{c} \X signatures[c] : c \in Scopes}
    <3>1. PICK c \in Scopes : \E s \in signatures[c] : y = <<c, s>>
      BY DEF DriftTypes, FiledShapes
    <3>2. y \in {c} \X signatures[c]
      BY <3>1
    <3> QED BY <3>2
  <2> QED BY <2>1
<1> QED BY <1>1, <1>2, <1>3, <1>4 DEF DriftTypes, Budgets, DriftTypeOK
=============================================================================
