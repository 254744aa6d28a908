----------------------- MODULE ArchiveQueries_proofs ------------------------
(***************************************************************************)
(* That two queries agree, for every archive, any names, players and       *)
(* guilds, and any sizes of pages and of dossiers: their counts, their sums*)
(* and what the page of a rivalry folds over.                              *)
(*                                                                         *)
(* SumFunction is the value at the whole domain of a recursive function.   *)
(* That this function exists, and that a sum is taken apart at any of its  *)
(* terms, is shown with least counterexamples among the finite subsets of  *)
(* the domain; from there on a sum is what its parts give.                 *)
(***************************************************************************)
EXTENDS ArchiveQueries, FiniteSetTheorems, WellFoundedInduction, TLAPS

-----------------------------------------------------------------------------
(* The archive. *)

TypeInv ==
  /\ IsFiniteSet(archive)
  /\ \A e \in archive : /\ e \in Encounter /\ e.hunter # e.target
                        /\ e.id <= Count(archive) /\ e.at <= clock
  /\ \A e, f \in archive : e.id = f.id => e = f
  /\ clock \in 0..MaxTime /\ cycle \in Nat \cup {None}

LEMMA TypeStep == TypeInv /\ [Next]_vars => TypeInv'
<1> SUFFICES ASSUME TypeInv, [Next]_vars PROVE TypeInv'
  OBVIOUS
<1>0. Count(archive) \in Nat
  BY FS_CardinalityType DEF TypeInv, Count
<1>1. CASE UNCHANGED vars
  BY <1>1 DEF vars, TypeInv, Count
<1>2. CASE Ingest
  <2>1. PICK hunter \in Names, target \in Names, outcome \in {"KILL", "FAILED"},
             at \in {clock, IF clock = 0 THEN 0 ELSE clock - 1} :
          /\ hunter # target
          /\ archive' = archive \cup
               {[id |-> Count(archive) + 1, at |-> at, hunter |-> hunter, target |-> target,
                 outcome |-> outcome, credits |-> Count(archive) + 1]}
    BY <1>2 DEF Ingest
  <2> DEFINE new == [id |-> Count(archive) + 1, at |-> at, hunter |-> hunter, target |-> target,
                     outcome |-> outcome, credits |-> Count(archive) + 1]
  <2>2. /\ new \in Encounter /\ new.hunter # new.target /\ new.id = Count(archive) + 1
        /\ new.at <= clock /\ clock' = clock /\ cycle' = cycle
    BY <1>0, <1>2, <2>1, ConstantsAssumption DEF Ingest, TypeInv, Encounter
  <2>3. archive' = archive \cup {new}
    BY <2>1
  <2> HIDE DEF new
  <2>4. new \notin archive
    BY <1>0, <2>2 DEF TypeInv
  <2>5. IsFiniteSet(archive') /\ Count(archive') = Count(archive) + 1
    BY <2>3, <2>4, FS_AddElement DEF TypeInv, Count
  <2>6. \A e \in archive : e.id \in Nat /\ e.id <= Count(archive)
    BY DEF TypeInv, Encounter
  <2>7. \A e \in archive' : /\ e \in Encounter /\ e.hunter # e.target
                            /\ e.id <= Count(archive') /\ e.at <= clock'
    <3>1. \A e \in archive : /\ e \in Encounter /\ e.hunter # e.target
                            /\ e.id <= Count(archive) + 1 /\ e.at <= clock
      BY <1>0, <2>6 DEF TypeInv
    <3> QED BY <1>0, <2>2, <2>3, <2>5, <3>1
  <2>8. \A e, f \in archive' : e.id = f.id => e = f
    BY <1>0, <2>2, <2>3, <2>6 DEF TypeInv
  <2> QED BY <2>2, <2>5, <2>7, <2>8 DEF TypeInv
<1>3. CASE ObserveCycle
  <2>1. CycleOf(clock) \in Nat
    BY ConstantsAssumption DEF TypeInv, CycleOf
  <2> QED BY <1>3, <2>1 DEF ObserveCycle, TypeInv, Count
<1>4. CASE Tick
  <2>1. \A e \in archive : e.at \in Nat /\ e.at <= clock + 1
    BY ConstantsAssumption DEF TypeInv, Encounter
  <2> QED BY <1>4, <2>1, ConstantsAssumption DEF Tick, TypeInv, Count
<1> QED BY <1>1, <1>2, <1>3, <1>4 DEF Next

LEMMA ArchiveTyped == Spec => []TypeInv
<1>1. Init => TypeInv
  BY FS_EmptySet, ConstantsAssumption DEF Init, TypeInv
<1> QED BY <1>1, TypeStep, PTL DEF Spec

-----------------------------------------------------------------------------
(* Sums. *)

\* Among subsets of a finite set there is one that none of the others is part of.
LEMMA LeastSubset ==
  ASSUME NEW S, IsFiniteSet(S), NEW B, B \subseteq SUBSET S, B # {}
  PROVE  \E T \in B : \A U \in B : U \subseteq T => U = T
<1>1. IsWellFoundedOn(StrictSubsetOrdering(S), SUBSET S)
  BY FS_FiniteSubsetsOfFinite, FS_StrictSubsetOrderingWellFounded
<1>2. PICK T \in B : \A U \in B : ~(<<U, T>> \in StrictSubsetOrdering(S))
  <2> DEFINE R == StrictSubsetOrdering(S)  SS == SUBSET S
  <2>1. IsWellFoundedOn(R, SS) /\ B \subseteq SS
    BY <1>1
  <2> HIDE DEF R, SS
  <2>2. \E T \in B : \A U \in B : ~(<<U, T>> \in R)
    BY <2>1, WFMin
  <2> QED BY <2>2 DEF R
<1>3. \A U \in B : U \subseteq T => U = T
  <2> SUFFICES ASSUME NEW U \in B, U \subseteq T, U # T PROVE FALSE
    OBVIOUS
  <2>1. U \in SUBSET S /\ T \in SUBSET S
    OBVIOUS
  <2>2. <<U, T>> \in StrictSubsetOrdering(S)
    BY <2>1 DEF StrictSubsetOrdering
  <2> QED BY <1>2, <2>2
<1> QED BY <1>3

\* The recursive function by which the library's SumFunctionOnSet is defined.
Any(s) == CHOOSE x \in s : TRUE
Sums(f, S, it) == it = [s \in SUBSET S |-> IF s = {} THEN 0 ELSE f[Any(s)] + it[s \ {Any(s)}]]

LEMMA SumIsChosen ==
  ASSUME NEW f, NEW S
  PROVE  SumFunctionOnSet(f, S) = (CHOOSE it : Sums(f, S, it))[S]
BY Zenon DEF SumFunctionOnSet, FoldFunctionOnSet, MapThenFoldSet, Sums, Any

LEMMA SumsAt ==
  ASSUME NEW f, NEW S, NEW it, Sums(f, S, it), NEW s \in SUBSET S
  PROVE  it[s] = IF s = {} THEN 0 ELSE f[Any(s)] + it[s \ {Any(s)}]
BY DEF Sums

LEMMA AnyIn == ASSUME NEW s, s # {} PROVE Any(s) \in s
BY DEF Any

LEMMA SumsUnique ==
  ASSUME NEW f, NEW S, IsFiniteSet(S), NEW a, Sums(f, S, a), NEW R \in SUBSET S, NEW b, Sums(f, R, b)
  PROVE  \A s \in SUBSET R : a[s] = b[s]
<1> DEFINE B == {s \in SUBSET R : a[s] # b[s]}
<1> SUFFICES ASSUME B # {} PROVE FALSE
  OBVIOUS
<1>1. PICK T \in B : \A U \in B : U \subseteq T => U = T
  <2>1. B \subseteq SUBSET S
    OBVIOUS
  <2> HIDE DEF B
  <2> QED BY <2>1, LeastSubset
<1>2. CASE T = {}
  BY <1>2, SumsAt
<1>3. CASE T # {}
  <2>1. Any(T) \in T /\ T \in SUBSET R /\ a[T] # b[T]
    BY <1>3, AnyIn
  <2>2. T \ {Any(T)} \notin B
    BY <1>1, <2>1
  <2>3. a[T \ {Any(T)}] = b[T \ {Any(T)}]
    BY <2>1, <2>2
  <2>4. a[T] = f[Any(T)] + a[T \ {Any(T)}] /\ b[T] = f[Any(T)] + b[T \ {Any(T)}]
    <3>1. T \in SUBSET S /\ T \in SUBSET R
      BY <2>1
    <3>2. a[T] = IF T = {} THEN 0 ELSE f[Any(T)] + a[T \ {Any(T)}]
      BY <3>1, SumsAt
    <3>3. b[T] = IF T = {} THEN 0 ELSE f[Any(T)] + b[T \ {Any(T)}]
      BY <3>1, SumsAt
    <3> QED BY <1>3, <3>2, <3>3
  <2> QED BY <2>1, <2>3, <2>4
<1> QED BY <1>2, <1>3

LEMMA SumsExist ==
  ASSUME NEW f, NEW S, IsFiniteSet(S)
  PROVE  \E it : Sums(f, S, it)
<1> DEFINE B == {s \in SUBSET S : ~ \E it : Sums(f, s, it)}
<1> SUFFICES ASSUME B # {} PROVE FALSE
  OBVIOUS
<1>1. PICK T \in B : \A U \in B : U \subseteq T => U = T
  <2>1. B \subseteq SUBSET S
    OBVIOUS
  <2> HIDE DEF B
  <2> QED BY <2>1, LeastSubset
<1>2. T \in SUBSET S /\ IsFiniteSet(T)
  BY FS_Subset
<1> DEFINE of(s) == CHOOSE it : Sums(f, s, it)
           val(s) == IF s = {} THEN 0 ELSE f[Any(s)] + of(s \ {Any(s)})[s \ {Any(s)}]
           whole == [s \in SUBSET T |-> val(s)]
<1>3. \A U \in SUBSET T : U # T => Sums(f, U, of(U))
  <2> SUFFICES ASSUME NEW U \in SUBSET T, U # T PROVE Sums(f, U, of(U))
    OBVIOUS
  <2>1. U \notin B
    BY <1>1
  <2>2. \E it : Sums(f, U, it)
    BY <1>2, <2>1
  <2> QED BY <2>2
<1> HIDE DEF of
<1>4. \A s \in SUBSET T : s # {} => whole[s \ {Any(s)}] = of(s \ {Any(s)})[s \ {Any(s)}]
  <2> SUFFICES ASSUME NEW s \in SUBSET T, s # {}
               PROVE  whole[s \ {Any(s)}] = of(s \ {Any(s)})[s \ {Any(s)}]
    OBVIOUS
  <2> DEFINE u == s \ {Any(s)}
  <2>1. u \in SUBSET T /\ u # T /\ IsFiniteSet(u) /\ Sums(f, u, of(u))
    BY AnyIn, <1>2, <1>3, FS_Subset
  <2> SUFFICES whole[u] = of(u)[u]
    OBVIOUS
  <2> HIDE DEF u
  <2>2. CASE u = {}
    <3> DEFINE it == of(u)
    <3>1. Sums(f, u, it) /\ u \in SUBSET u
      BY <2>1
    <3> HIDE DEF it
    <3>2. it[u] = IF u = {} THEN 0 ELSE f[Any(u)] + it[u \ {Any(u)}]
      BY <3>1, SumsAt
    <3>3. whole[u] = 0
      BY <2>1, <2>2
    <3> QED BY <2>2, <3>2, <3>3 DEF it
  <2>3. CASE u # {}
    <3> DEFINE v == u \ {Any(u)}
    <3>1. v \in SUBSET u /\ v \in SUBSET T /\ v # T /\ Sums(f, v, of(v))
      BY AnyIn, <2>1, <2>3, <1>3
    <3>2. of(u)[u] = IF u = {} THEN 0 ELSE f[Any(u)] + of(u)[v]
      <4> DEFINE it == of(u)
      <4>1. Sums(f, u, it) /\ u \in SUBSET u
        BY <2>1
      <4> HIDE DEF it, u
      <4>2. it[u] = IF u = {} THEN 0 ELSE f[Any(u)] + it[u \ {Any(u)}]
        BY <4>1, SumsAt
      <4> QED BY <4>2 DEF it, u
    <3>3. of(u)[v] = of(v)[v]
      <4> HIDE DEF v
      <4> QED BY <2>1, <3>1, SumsUnique
    <3>4. whole[u] = f[Any(u)] + of(v)[v]
      BY <2>1, <2>3
    <3> HIDE DEF whole
    <3> QED BY <2>3, <3>2, <3>3, <3>4
  <2> QED BY <2>2, <2>3
<1>5. Sums(f, T, whole)
  BY <1>4 DEF Sums
<1> QED BY <1>1, <1>5

\* What SumFunctionOnSet computes, whichever elements it chooses.
LEMMA SumDef ==
  ASSUME NEW f, NEW S, IsFiniteSet(S)
  PROVE  SumFunctionOnSet(f, S) = IF S = {} THEN 0
                                  ELSE f[Any(S)] + SumFunctionOnSet(f, S \ {Any(S)})
<1> DEFINE it == CHOOSE x : Sums(f, S, x)
           u == S \ {Any(S)}
           iu == CHOOSE x : Sums(f, u, x)
<1>0. u \in SUBSET S /\ IsFiniteSet(u)
  BY FS_Subset
<1> HIDE DEF u
<1>1. Sums(f, S, it) /\ Sums(f, u, iu)
  BY <1>0, SumsExist
<1>2. SumFunctionOnSet(f, S) = it[S] /\ SumFunctionOnSet(f, u) = iu[u]
  BY SumIsChosen
<1> HIDE DEF it, iu
<1>3. it[u] = iu[u]
  BY <1>0, <1>1, SumsUnique
<1> QED BY <1>1, <1>2, <1>3, SumsAt DEF u

\* The sum of f[x] over the x of S.
Sum(f, S) == SumFunctionOnSet(f, S)

\* Induction over a finite set, for a set G of its subsets.
LEMMA FromEmpty ==
  ASSUME NEW S, IsFiniteSet(S), NEW G, {} \in G,
         \A T \in SUBSET S : T \in G => \A x \in S \ T : T \cup {x} \in G
  PROVE  S \in G
<1> DEFINE B == {T \in SUBSET S : T \notin G}
<1> SUFFICES ASSUME B # {} PROVE FALSE
  OBVIOUS
<1>1. PICK T \in B : \A U \in B : U \subseteq T => U = T
  <2>1. B \subseteq SUBSET S
    OBVIOUS
  <2> HIDE DEF B
  <2> QED BY <2>1, LeastSubset
<1>2. PICK x \in T : TRUE
  OBVIOUS
<1>3. T \ {x} \in SUBSET S /\ T \ {x} \notin B
  BY <1>1
<1>4. (T \ {x}) \cup {x} = T /\ x \in S \ (T \ {x})
  BY Zenon
<1>5. T \ {x} \in G
  BY <1>3
<1>6. (T \ {x}) \cup {x} \in G
  BY <1>3, <1>4, <1>5
<1> QED BY <1>4, <1>6

LEMMA SumEmpty == ASSUME NEW f PROVE Sum(f, {}) = 0
BY FS_EmptySet, SumDef DEF Sum

LEMMA SumType ==
  ASSUME NEW S, IsFiniteSet(S), NEW f, \A x \in S : f[x] \in Nat
  PROVE  Sum(f, S) \in Nat
<1> DEFINE B == {T \in SUBSET S : Sum(f, T) \notin Nat}
<1> SUFFICES ASSUME B # {} PROVE FALSE
  OBVIOUS
<1>1. PICK T \in B : \A U \in B : U \subseteq T => U = T
  <2>1. B \subseteq SUBSET S
    OBVIOUS
  <2> HIDE DEF B
  <2> QED BY <2>1, LeastSubset
<1>2. T # {} /\ IsFiniteSet(T)
  <2>1. Sum(f, {}) \in Nat
    BY SumEmpty
  <2>2. T \in SUBSET S /\ Sum(f, T) \notin Nat
    OBVIOUS
  <2> QED BY <2>1, <2>2, FS_Subset
<1>3. Any(T) \in T /\ T \ {Any(T)} \notin B
  BY <1>1, <1>2, AnyIn
<1>4. Sum(f, T) = f[Any(T)] + Sum(f, T \ {Any(T)})
  BY <1>2, SumDef DEF Sum
<1>5. Sum(f, T \ {Any(T)}) \in Nat /\ f[Any(T)] \in Nat
  BY <1>3
<1> QED BY <1>4, <1>5

\* The choice does not matter: any element can be taken out.
LEMMA SumTake ==
  ASSUME NEW S, IsFiniteSet(S), NEW f, \A x \in S : f[x] \in Nat, NEW y \in S
  PROVE  Sum(f, S) = f[y] + Sum(f, S \ {y})
<1> DEFINE B == {T \in SUBSET S : \E x \in T : Sum(f, T) # f[x] + Sum(f, T \ {x})}
<1> SUFFICES ASSUME B # {} PROVE FALSE
  OBVIOUS
<1>1. PICK T \in B : \A U \in B : U \subseteq T => U = T
  <2>1. B \subseteq SUBSET S
    OBVIOUS
  <2> HIDE DEF B
  <2> QED BY <2>1, LeastSubset
<1>2. PICK x \in T : Sum(f, T) # f[x] + Sum(f, T \ {x})
  OBVIOUS
<1> DEFINE p == Any(T)  rest == T \ {p, x}
<1>3. T \in SUBSET S /\ p \in T /\ IsFiniteSet(T) /\ IsFiniteSet(rest) /\ IsFiniteSet(T \ {p})
      /\ IsFiniteSet(T \ {x})
  BY <1>2, AnyIn, FS_Subset
<1>4. Sum(f, T) = f[p] + Sum(f, T \ {p})
  BY <1>2, <1>3, SumDef DEF Sum
<1>5. x # p
  BY <1>2, <1>4
<1>6. Sum(f, T \ {p}) = f[x] + Sum(f, rest)
  <2>1. T \ {p} \in SUBSET S /\ T \ {p} \notin B /\ x \in T \ {p} /\ (T \ {p}) \ {x} = rest
    BY <1>1, <1>3, <1>5
  <2> QED BY <2>1
<1>7. Sum(f, T \ {x}) = f[p] + Sum(f, rest)
  <2>1. T \ {x} \in SUBSET S /\ T \ {x} \notin B /\ p \in T \ {x} /\ (T \ {x}) \ {p} = rest
    BY <1>1, <1>2, <1>3, <1>5
  <2> QED BY <2>1
<1>8. Sum(f, rest) \in Nat /\ f[p] \in Nat /\ f[x] \in Nat
  BY <1>3, SumType
<1> HIDE DEF p, rest, B
<1> QED BY <1>2, <1>4, <1>6, <1>7, <1>8

LEMMA SumAdd ==
  ASSUME NEW S, IsFiniteSet(S), NEW y, y \notin S, NEW f, \A x \in S \cup {y} : f[x] \in Nat
  PROVE  Sum(f, S \cup {y}) = f[y] + Sum(f, S)
<1>1. IsFiniteSet(S \cup {y}) /\ (S \cup {y}) \ {y} = S /\ y \in S \cup {y}
  BY FS_AddElement
<1> QED BY <1>1, SumTake

\* Sums of two functions that a third one, over the same set, pairs off with.
LEMMA SumMap ==
  ASSUME NEW S, IsFiniteSet(S), NEW f, \A x \in S : f[x] \in Nat,
         NEW R, NEW h \in [S -> R], \A x, y \in S : h[x] = h[y] => x = y, \A z \in R : \E x \in S : h[x] = z,
         NEW g, \A x \in S : g[h[x]] = f[x]
  PROVE  IsFiniteSet(R) /\ Sum(f, S) = Sum(g, R)
<1> DEFINE To(T) == {h[x] : x \in T}
           G == {T \in SUBSET S : IsFiniteSet(To(T)) /\ Sum(f, T) = Sum(g, To(T))}
<1>1. {} \in G
  BY SumEmpty, FS_EmptySet
<1>2. ASSUME NEW T \in SUBSET S, T \in G, NEW x \in S \ T PROVE T \cup {x} \in G
  <2>1. To(T \cup {x}) = To(T) \cup {h[x]} /\ h[x] \notin To(T) /\ IsFiniteSet(T)
    BY FS_Subset
  <2>2. IsFiniteSet(To(T \cup {x}))
    <3>1. IsFiniteSet(To(T))
      BY <1>2
    <3> HIDE DEF To
    <3>2. IsFiniteSet(To(T) \cup {h[x]})
      BY <3>1, FS_AddElement
    <3> QED BY <2>1, <3>2
  <2>3. Sum(f, T \cup {x}) = f[x] + Sum(f, T)
    BY <2>1, SumAdd
  <2>4. \A z \in To(T) \cup {h[x]} : g[z] \in Nat
    OBVIOUS
  <2>5. Sum(g, To(T) \cup {h[x]}) = g[h[x]] + Sum(g, To(T))
    <3> DEFINE A == To(T)  y == h[x]
    <3>1. IsFiniteSet(A) /\ y \notin A /\ \A z \in A \cup {y} : g[z] \in Nat
      BY <1>2, <2>1, <2>4
    <3> HIDE DEF A, y
    <3>2. Sum(g, A \cup {y}) = g[y] + Sum(g, A)
      BY <3>1, SumAdd
    <3> QED BY <3>2 DEF A, y
  <2> QED BY <1>2, <2>1, <2>2, <2>3, <2>5
<1>3. S \in G
  <2> HIDE DEF G
  <2> QED BY <1>1, <1>2, FromEmpty
<1>4. To(S) = R
  OBVIOUS
<1> QED BY <1>3, <1>4

LEMMA SumSame ==
  ASSUME NEW S, IsFiniteSet(S), NEW f, NEW g, \A x \in S : f[x] \in Nat /\ g[x] = f[x]
  PROVE  Sum(f, S) = Sum(g, S)
<1> DEFINE h == [x \in S |-> x]
<1>1. h \in [S -> S] /\ \A x \in S : h[x] = x
  OBVIOUS
<1> HIDE DEF h
<1> QED BY <1>1, SumMap

\* A sum over two sets that share nothing.
LEMMA SumUnion ==
  ASSUME NEW S, IsFiniteSet(S), NEW R, IsFiniteSet(R), R \cap S = {},
         NEW f, \A x \in S \cup R : f[x] \in Nat
  PROVE  Sum(f, S \cup R) = Sum(f, S) + Sum(f, R)
<1> DEFINE G == {T \in SUBSET S : Sum(f, T \cup R) = Sum(f, T) + Sum(f, R)}
<1>0. Sum(f, R) \in Nat
  BY SumType
<1>1. {} \in G
  BY <1>0, SumEmpty
<1>2. ASSUME NEW T \in SUBSET S, T \in G, NEW x \in S \ T PROVE T \cup {x} \in G
  <2>1. /\ IsFiniteSet(T) /\ IsFiniteSet(T \cup R) /\ x \notin T \cup R
        /\ (T \cup {x}) \cup R = (T \cup R) \cup {x}
    BY FS_Subset, FS_Union
  <2>2. Sum(f, T \cup {x}) = f[x] + Sum(f, T)
    BY <2>1, SumAdd
  <2>3. Sum(f, (T \cup R) \cup {x}) = f[x] + Sum(f, T \cup R)
    <3> DEFINE A == T \cup R
    <3>1. IsFiniteSet(A) /\ x \notin A /\ \A z \in A \cup {x} : f[z] \in Nat
      BY <2>1
    <3> HIDE DEF A
    <3> QED BY <3>1, SumAdd DEF A
  <2>4. f[x] \in Nat /\ Sum(f, T) \in Nat
    BY <2>1, SumType
  <2>5. Sum(f, T \cup R) = Sum(f, T) + Sum(f, R)
    BY <1>2
  <2>6. Sum(f, (T \cup {x}) \cup R) = f[x] + Sum(f, T \cup R)
    BY <2>1, <2>3
  <2>7. Sum(f, (T \cup {x}) \cup R) = Sum(f, T \cup {x}) + Sum(f, R)
    BY <1>0, <2>2, <2>4, <2>5, <2>6
  <2> QED BY <2>7
<1>3. S \in G
  <2> HIDE DEF G
  <2> QED BY <1>1, <1>2, FromEmpty
<1> QED BY <1>3

LEMMA SumPlus ==
  ASSUME NEW S, IsFiniteSet(S), NEW f, NEW g, NEW h,
         \A x \in S : f[x] \in Nat /\ g[x] \in Nat /\ h[x] = f[x] + g[x]
  PROVE  Sum(h, S) = Sum(f, S) + Sum(g, S)
<1> DEFINE G == {T \in SUBSET S : Sum(h, T) = Sum(f, T) + Sum(g, T)}
<1>1. {} \in G
  BY SumEmpty
<1>2. ASSUME NEW T \in SUBSET S, T \in G, NEW x \in S \ T PROVE T \cup {x} \in G
  <2>1. IsFiniteSet(T) /\ \A z \in T \cup {x} : f[z] \in Nat /\ g[z] \in Nat /\ h[z] \in Nat
    BY FS_Subset
  <2>2. /\ Sum(f, T \cup {x}) = f[x] + Sum(f, T) /\ Sum(g, T \cup {x}) = g[x] + Sum(g, T)
        /\ Sum(h, T \cup {x}) = h[x] + Sum(h, T)
    BY <2>1, SumAdd
  <2>3. Sum(f, T) \in Nat /\ Sum(g, T) \in Nat /\ h[x] = f[x] + g[x] /\ f[x] \in Nat /\ g[x] \in Nat
    BY <2>1, SumType
  <2> QED BY <1>2, <2>2, <2>3
<1>3. S \in G
  <2> HIDE DEF G
  <2> QED BY <1>1, <1>2, FromEmpty
<1> QED BY <1>3

\* mu measures subsets of E, and what it measures of two that share nothing adds up.
Additive(mu, E) ==
  /\ mu[{}] = 0
  /\ \A A \in SUBSET E : mu[A] \in Nat
  /\ \A A, B \in SUBSET E : A \cap B = {} => mu[A \cup B] = mu[A] + mu[B]

\* part[k] are the members of E with the key k, for the k of K; whole are all of these.
Parted(E, key, K, part, whole) ==
  /\ \A k \in K : part[k] \in SUBSET E /\ \A e \in E : e \in part[k] <=> key[e] = k
  /\ whole \in SUBSET E /\ \A e \in E : e \in whole <=> key[e] \in K

LEMMA SumOfParts ==
  ASSUME NEW E, NEW mu, Additive(mu, E), NEW K, IsFiniteSet(K),
         NEW key, NEW part, NEW whole, Parted(E, key, K, part, whole),
         NEW sum, \A k \in K : sum[k] = mu[part[k]]
  PROVE  Sum(sum, K) = mu[whole]
<1> DEFINE In(T) == {e \in E : key[e] \in T}
           G == {T \in SUBSET K : Sum(sum, T) = mu[In(T)]}
<1>1. {} \in G
  <2>1. In({}) = {}
    OBVIOUS
  <2> QED BY <2>1, SumEmpty DEF Additive
<1>2. ASSUME NEW T \in SUBSET K, T \in G, NEW k \in K \ T PROVE T \cup {k} \in G
  <2> DEFINE new == part[k]
  <2>1. In(T \cup {k}) = In(T) \cup new /\ In(T) \cap new = {} /\ In(T) \in SUBSET E /\ new \in SUBSET E
    BY DEF Parted
  <2>2. IsFiniteSet(T) /\ sum[k] = mu[new] /\ \A x \in T \cup {k} : sum[x] \in Nat
    <3>1. \A x \in K : part[x] \in SUBSET E
      BY DEF Parted
    <3>2. \A x \in K : sum[x] = mu[part[x]] /\ mu[part[x]] \in Nat
      BY <3>1 DEF Additive
    <3> QED BY <3>2, FS_Subset
  <2>3. Sum(sum, T \cup {k}) = sum[k] + Sum(sum, T)
    BY <2>2, SumAdd
  <2>4. Sum(sum, T) = mu[In(T)]
    BY <1>2
  <2> HIDE DEF In, new
  <2>5. mu[In(T) \cup new] = mu[In(T)] + mu[new] /\ mu[In(T)] \in Nat /\ mu[new] \in Nat
    BY <2>1 DEF Additive
  <2>6. Sum(sum, T \cup {k}) = mu[In(T \cup {k})]
    <3>1. mu[In(T \cup {k})] = mu[In(T)] + mu[new]
      BY <2>1, <2>5
    <3>2. Sum(sum, T \cup {k}) = mu[new] + mu[In(T)]
      BY <2>2, <2>3, <2>4
    <3> QED BY <2>5, <3>1, <3>2
  <2>7. T \cup {k} \in SUBSET K
    OBVIOUS
  <2> QED BY <2>6, <2>7 DEF In
<1>3. K \in G
  <2> HIDE DEF G
  <2> QED BY <1>1, <1>2, FromEmpty
<1>4. In(K) = whole
  BY DEF Parted
<1> QED BY <1>3, <1>4

-----------------------------------------------------------------------------
(* Counting. *)

LEMMA CountOf ==
  ASSUME NEW S, IsFiniteSet(S), NEW T \in SUBSET S
  PROVE  IsFiniteSet(T) /\ Count(T) \in Nat /\ Count(T) <= Count(S)
BY FS_Subset, FS_CardinalityType DEF Count

\* A set in two parts.
LEMMA CountParts ==
  ASSUME NEW S, IsFiniteSet(S), NEW A, NEW B, S = A \cup B, A \cap B = {}
  PROVE  /\ Count(S) \in Nat /\ Count(A) \in Nat /\ Count(B) \in Nat
         /\ Count(S) = Count(A) + Count(B)
<1>1. A \in SUBSET S /\ B \in SUBSET S
  OBVIOUS
<1>2. IsFiniteSet(A) /\ IsFiniteSet(B) /\ Count(S) \in Nat /\ Count(A) \in Nat /\ Count(B) \in Nat
  BY <1>1, CountOf, FS_CardinalityType DEF Count
<1>3. Cardinality(A \cup B) = Cardinality(A) + Cardinality(B) - Cardinality(A \cap B)
  BY <1>2, FS_Union
<1> QED BY <1>2, <1>3, FS_EmptySet DEF Count

\* Credits are a sum over the claims.
LEMMA CreditsOf ==
  ASSUME NEW E, IsFiniteSet(E), \A e \in E : e.credits \in Nat,
         NEW c, \A e \in Kills(E) : c[e] = e.credits
  PROVE  /\ IsFiniteSet(Kills(E)) /\ \A e \in Kills(E) : c[e] \in Nat
         /\ Credits(E) = Sum(c, Kills(E)) /\ Credits(E) \in Nat
<1> DEFINE K == Kills(E)
           f == [e \in K |-> e.credits]
<1>1. K \in SUBSET E /\ IsFiniteSet(K)
  BY FS_Subset DEF Kills
<1>2. Credits(E) = Sum(f, K)
  BY DEF Credits, SumFunction, Sum
<1>3. \A e \in K : f[e] \in Nat /\ c[e] = f[e]
  BY <1>1
<1> HIDE DEF K, f
<1>4. Sum(f, K) = Sum(c, K) /\ Sum(f, K) \in Nat
  BY <1>1, <1>3, SumSame, SumType
<1> QED BY <1>1, <1>2, <1>3, <1>4 DEF K

LEMMA CreditsParts ==
  ASSUME NEW E, IsFiniteSet(E), \A e \in E : e.credits \in Nat,
         NEW A, NEW B, E = A \cup B, A \cap B = {}
  PROVE  Credits(E) = Credits(A) + Credits(B)
<1> DEFINE c == [e \in E |-> e.credits]
<1>1. \A e \in E : c[e] = e.credits
  OBVIOUS
<1> HIDE DEF c
<1>2. IsFiniteSet(A) /\ IsFiniteSet(B) /\ \A e \in A \cup B : e.credits \in Nat /\ c[e] = e.credits
  BY <1>1, FS_Subset
<1>3. /\ Kills(E) = Kills(A) \cup Kills(B) /\ Kills(B) \cap Kills(A) = {}
      /\ \A e \in Kills(A) : e \in E
      /\ \A e \in Kills(B) : e \in E
      /\ \A e \in Kills(E) : e \in E
  BY DEF Kills
<1>4. Credits(A) = Sum(c, Kills(A)) /\ IsFiniteSet(Kills(A)) /\ \A e \in Kills(A) : c[e] \in Nat
  BY <1>2, <1>3, CreditsOf
<1>5. Credits(B) = Sum(c, Kills(B)) /\ IsFiniteSet(Kills(B)) /\ \A e \in Kills(B) : c[e] \in Nat
  BY <1>2, <1>3, CreditsOf
<1>6. Credits(E) = Sum(c, Kills(E))
  BY <1>1, <1>3, CreditsOf
<1>7. Sum(c, Kills(A) \cup Kills(B)) = Sum(c, Kills(A)) + Sum(c, Kills(B))
  <2> DEFINE KA == Kills(A)  KB == Kills(B)
  <2>1. IsFiniteSet(KA) /\ IsFiniteSet(KB) /\ KB \cap KA = {} /\ \A e \in KA \cup KB : c[e] \in Nat
    BY <1>3, <1>4, <1>5
  <2> HIDE DEF KA, KB
  <2>2. Sum(c, KA \cup KB) = Sum(c, KA) + Sum(c, KB)
    BY <2>1, SumUnion
  <2> QED BY <2>2 DEF KA, KB
<1> QED BY <1>3, <1>4, <1>5, <1>6, <1>7

LEMMA MaxOf ==
  ASSUME NEW S, IsFiniteSet(S), S # {}, S \subseteq Nat
  PROVE  Max(S) \in S /\ \A x \in S : x <= Max(S)
<1> DEFINE HasMax(T) == \E m \in T : \A x \in T : m >= x
           G == {T \in SUBSET S : T = {} \/ HasMax(T)}
<1>1. ASSUME NEW T \in SUBSET S, T \in G, NEW x \in S \ T PROVE T \cup {x} \in G
  <2>1. CASE T = {}
    BY <2>1
  <2>2. CASE T # {}
    <3>1. PICK m \in T : \A y \in T : m >= y
      BY <1>1, <2>2
    <3>2. CASE m >= x
      BY <3>1, <3>2
    <3>3. CASE ~(m >= x)
      <4>1. \A y \in T \cup {x} : x >= y
        BY <3>1, <3>3
      <4> QED BY <4>1
    <3> QED BY <3>2, <3>3
  <2> QED BY <2>1, <2>2
<1>2. S \in G
  <2>1. {} \in G
    OBVIOUS
  <2> HIDE DEF G
  <2> QED BY <1>1, <2>1, FromEmpty
<1>3. \E m \in S : \A x \in S : m >= x
  BY <1>2
<1>4. Max(S) \in S /\ \A x \in S : Max(S) >= x
  BY <1>3 DEF Max
<1> QED BY <1>4

\* Among more encounters the best claim is no smaller.
LEMMA BestGrows ==
  ASSUME NEW E, IsFiniteSet(E), \A e \in E : e.credits \in Nat, NEW F \in SUBSET E
  PROVE  Best(F) <= Best(E)
<1> DEFINE C(X) == {e.credits : e \in Kills(X)}
<1>1. ASSUME NEW X \in SUBSET E PROVE IsFiniteSet(C(X)) /\ C(X) \subseteq Nat
  <2>1. IsFiniteSet(Kills(X)) /\ Kills(X) \in SUBSET E
    BY FS_Subset DEF Kills
  <2>2. IsFiniteSet({e.credits : e \in Kills(X)})
    <3> DEFINE K == Kills(X)
               f == [e \in K |-> e.credits]
               R == {e.credits : e \in K}
    <3>1. IsFiniteSet(K) /\ f \in Surjection(K, R)
      BY <2>1 DEF Surjection
    <3> HIDE DEF K, f, R
    <3>2. IsFiniteSet(R)
      BY <3>1, FS_Surjection DEF ExistsSurjection
    <3> QED BY <3>2 DEF K, R
  <2> QED BY <2>1, <2>2
<1>2. Kills(F) \subseteq Kills(E) /\ C(F) \subseteq C(E)
  BY DEF Kills
<1>3. ASSUME NEW X \in SUBSET E, Kills(X) # {} PROVE Best(X) \in C(X) /\ \A x \in C(X) : x <= Best(X)
  <2>1. Best(X) = Max(C(X)) /\ C(X) # {}
    BY <1>3 DEF Best
  <2> DEFINE D == C(X)
  <2>2. IsFiniteSet(D) /\ D # {} /\ D \subseteq Nat
    BY <1>1, <2>1
  <2> HIDE DEF D
  <2>3. Max(D) \in D /\ \A x \in D : x <= Max(D)
    BY <2>2, MaxOf
  <2> QED BY <2>1, <2>3 DEF D
<1>4. CASE Kills(F) = {}
  <2>1. Best(F) = 0
    BY <1>4 DEF Best
  <2>2. CASE Kills(E) = {}
    BY <2>1, <2>2 DEF Best
  <2>3. CASE Kills(E) # {}
    <3>1. Best(E) \in C(E) /\ C(E) \subseteq Nat
      BY <1>1, <1>3, <2>3
    <3> QED BY <2>1, <3>1
  <2> QED BY <2>2, <2>3
<1>5. CASE Kills(F) # {}
  <2>1. Kills(E) # {}
    BY <1>2, <1>5
  <2>2. Best(F) \in C(E) /\ \A x \in C(E) : x <= Best(E)
    BY <1>2, <1>3, <1>5, <2>1
  <2> QED BY <2>2
<1> QED BY <1>4, <1>5

\* What a set of encounters counts, claims, fails and earns is the sum over its parts.
LEMMA CountAdd ==
  ASSUME NEW E, IsFiniteSet(E)
  PROVE  Additive([A \in SUBSET E |-> Count(A)], E)
<1>1. Count({}) = 0 /\ \A A \in SUBSET E : Count(A) \in Nat
  <2>1. Count({}) = 0
    BY FS_EmptySet DEF Count
  <2> QED BY <2>1, CountOf
<1>2. ASSUME NEW A \in SUBSET E, NEW B \in SUBSET E, A \cap B = {}
      PROVE  Count(A \cup B) = Count(A) + Count(B)
  <2>1. IsFiniteSet(A \cup B)
    BY FS_Subset
  <2> QED BY <1>2, <2>1, CountParts
<1> QED BY <1>1, <1>2 DEF Additive

\* The claims of a set of encounters, measured.
LEMMA ClaimsAdd ==
  ASSUME NEW E, IsFiniteSet(E)
  PROVE  Additive([A \in SUBSET E |-> Count(Kills(A))], E)
<1>1. Kills({}) = {} /\ \A A \in SUBSET E : Kills(A) \in SUBSET E
  BY DEF Kills
<1>2. Count({}) = 0
  BY FS_EmptySet DEF Count
<1>3. \A A \in SUBSET E : Count(Kills(A)) \in Nat
  BY <1>1, CountOf
<1>4. ASSUME NEW A \in SUBSET E, NEW B \in SUBSET E, A \cap B = {}
      PROVE  Count(Kills(A \cup B)) = Count(Kills(A)) + Count(Kills(B))
  <2>1. IsFiniteSet(A \cup B)
    BY FS_Subset
  <2>2. IsFiniteSet(Kills(A \cup B))
    BY <2>1, FS_Subset DEF Kills
  <2>3. Kills(A) \cap Kills(B) = {} /\ Kills(A \cup B) = Kills(A) \cup Kills(B)
    BY <1>4 DEF Kills
  <2> DEFINE S == Kills(A \cup B)  X == Kills(A)  Y == Kills(B)
  <2>4. IsFiniteSet(S) /\ S = X \cup Y /\ X \cap Y = {}
    BY <2>2, <2>3
  <2> HIDE DEF S, X, Y
  <2>5. Count(S) = Count(X) + Count(Y)
    BY <2>4, CountParts
  <2> QED BY <2>5 DEF S, X, Y
<1> QED BY <1>1, <1>2, <1>3, <1>4 DEF Additive

\* The failures of a set of encounters, measured.
LEMMA FailuresAdd ==
  ASSUME NEW E, IsFiniteSet(E)
  PROVE  Additive([A \in SUBSET E |-> Count(Failures(A))], E)
<1>1. Failures({}) = {} /\ \A A \in SUBSET E : Failures(A) \in SUBSET E
  BY DEF Failures
<1>2. Count({}) = 0
  BY FS_EmptySet DEF Count
<1>3. \A A \in SUBSET E : Count(Failures(A)) \in Nat
  BY <1>1, CountOf
<1>4. ASSUME NEW A \in SUBSET E, NEW B \in SUBSET E, A \cap B = {}
      PROVE  Count(Failures(A \cup B)) = Count(Failures(A)) + Count(Failures(B))
  <2>1. IsFiniteSet(A \cup B)
    BY FS_Subset
  <2>2. IsFiniteSet(Failures(A \cup B))
    BY <2>1, FS_Subset DEF Failures
  <2>3. Failures(A) \cap Failures(B) = {} /\ Failures(A \cup B) = Failures(A) \cup Failures(B)
    BY <1>4 DEF Failures
  <2> DEFINE S == Failures(A \cup B)  X == Failures(A)  Y == Failures(B)
  <2>4. IsFiniteSet(S) /\ S = X \cup Y /\ X \cap Y = {}
    BY <2>2, <2>3
  <2> HIDE DEF S, X, Y
  <2>5. Count(S) = Count(X) + Count(Y)
    BY <2>4, CountParts
  <2> QED BY <2>5 DEF S, X, Y
<1> QED BY <1>1, <1>2, <1>3, <1>4 DEF Additive

LEMMA CreditsAdd ==
  ASSUME NEW E, IsFiniteSet(E), \A e \in E : e.credits \in Nat
  PROVE  Additive([A \in SUBSET E |-> Credits(A)], E)
<1>1. Credits({}) = 0
  <2>1. Kills({}) = {} /\ DOMAIN [e \in {} |-> e.credits] = {}
    BY DEF Kills
  <2> QED BY <2>1, SumEmpty DEF Credits, SumFunction, Sum
<1>2. ASSUME NEW A \in SUBSET E PROVE Credits(A) \in Nat
  <2> DEFINE c == [e \in E |-> e.credits]
  <2>1. IsFiniteSet(A) /\ \A e \in A : e.credits \in Nat /\ c[e] = e.credits
    BY FS_Subset
  <2>2. \A e \in Kills(A) : e \in A
    BY DEF Kills
  <2> HIDE DEF c
  <2> QED BY <2>1, <2>2, CreditsOf
<1>3. ASSUME NEW A \in SUBSET E, NEW B \in SUBSET E, A \cap B = {}
      PROVE  Credits(A \cup B) = Credits(A) + Credits(B)
  <2>1. IsFiniteSet(A \cup B) /\ \A e \in A \cup B : e.credits \in Nat
    BY FS_Subset
  <2> QED BY <1>3, <2>1, CreditsParts
<1> QED BY <1>1, <1>2, <1>3 DEF Additive

LEMMA FiguresOfParts ==
  ASSUME NEW E, IsFiniteSet(E), \A e \in E : e.credits \in Nat, NEW K, IsFiniteSet(K),
         NEW key, NEW part, NEW whole, Parted(E, key, K, part, whole), NEW sum
  PROVE  /\ (\A k \in K : sum[k] = Count(part[k])) => Sum(sum, K) = Count(whole)
         /\ (\A k \in K : sum[k] = Count(Kills(part[k]))) => Sum(sum, K) = Count(Kills(whole))
         /\ (\A k \in K : sum[k] = Count(Failures(part[k]))) => Sum(sum, K) = Count(Failures(whole))
         /\ (\A k \in K : sum[k] = Credits(part[k])) => Sum(sum, K) = Credits(whole)
<1>0. whole \in SUBSET E /\ \A k \in K : part[k] \in SUBSET E
  BY DEF Parted
<1>1. ASSUME NEW mu, Additive(mu, E), \A k \in K : sum[k] = mu[part[k]] PROVE Sum(sum, K) = mu[whole]
  BY <1>1, SumOfParts
<1> DEFINE count == [A \in SUBSET E |-> Count(A)]
           claims == [A \in SUBSET E |-> Count(Kills(A))]
           failures == [A \in SUBSET E |-> Count(Failures(A))]
           credits == [A \in SUBSET E |-> Credits(A)]
<1>2. Additive(count, E) /\ Additive(claims, E) /\ Additive(failures, E) /\ Additive(credits, E)
  BY CountAdd, ClaimsAdd, FailuresAdd, CreditsAdd
<1>3. \A A \in SUBSET E : /\ count[A] = Count(A) /\ claims[A] = Count(Kills(A))
                          /\ failures[A] = Count(Failures(A)) /\ credits[A] = Credits(A)
  OBVIOUS
<1> HIDE DEF count, claims, failures, credits
<1>4. (\A k \in K : sum[k] = Count(part[k])) => Sum(sum, K) = Count(whole)
  <2> SUFFICES ASSUME \A k \in K : sum[k] = Count(part[k]) PROVE Sum(sum, K) = Count(whole)
    OBVIOUS
  <2>1. \A k \in K : sum[k] = count[part[k]]
    BY <1>0, <1>3
  <2> QED BY <1>0, <1>1, <1>2, <1>3, <2>1
<1>5. (\A k \in K : sum[k] = Count(Kills(part[k]))) => Sum(sum, K) = Count(Kills(whole))
  <2> SUFFICES ASSUME \A k \in K : sum[k] = Count(Kills(part[k])) PROVE Sum(sum, K) = Count(Kills(whole))
    OBVIOUS
  <2>1. \A k \in K : sum[k] = claims[part[k]]
    BY <1>0, <1>3
  <2> QED BY <1>0, <1>1, <1>2, <1>3, <2>1
<1>6. (\A k \in K : sum[k] = Count(Failures(part[k]))) => Sum(sum, K) = Count(Failures(whole))
  <2> SUFFICES ASSUME \A k \in K : sum[k] = Count(Failures(part[k])) PROVE Sum(sum, K) = Count(Failures(whole))
    OBVIOUS
  <2>1. \A k \in K : sum[k] = failures[part[k]]
    BY <1>0, <1>3
  <2> QED BY <1>0, <1>1, <1>2, <1>3, <2>1
<1>7. (\A k \in K : sum[k] = Credits(part[k])) => Sum(sum, K) = Credits(whole)
  <2> SUFFICES ASSUME \A k \in K : sum[k] = Credits(part[k]) PROVE Sum(sum, K) = Credits(whole)
    OBVIOUS
  <2>1. \A k \in K : sum[k] = credits[part[k]]
    BY <1>0, <1>3
  <2> QED BY <1>0, <1>1, <1>2, <1>3, <2>1
<1> QED BY <1>4, <1>5, <1>6, <1>7

-----------------------------------------------------------------------------
(* Two guilds. *)

\* What a guild won of another, the other lost to it: an encounter of the two is won by
\* one of them, whoever of its members hunted (getGuild, rivals).
THEOREM RivalGuildsMirror == Spec => []GuildRivalsMirror
<1>1. TypeInv => GuildRivalsMirror
  <2> SUFFICES ASSUME TypeInv, NEW g \in Guilds, NEW h \in Guilds, g # h
               PROVE  /\ GuildRival(archive, g, h).encounters = GuildRival(archive, h, g).encounters
                      /\ GuildRival(archive, g, h).wins = GuildRival(archive, h, g).losses
    BY DEF GuildRivalsMirror
  <2> DEFINE M == {e \in archive : {GuildOf(e.hunter), GuildOf(e.target)} = {g, h}}
             Wins(x) == {e \in M : \/ e.outcome = "KILL" /\ GuildOf(e.hunter) = x
                                   \/ e.outcome = "FAILED" /\ GuildOf(e.target) = x}
  <2>1. M = {e \in archive : {GuildOf(e.hunter), GuildOf(e.target)} = {h, g}}
    OBVIOUS
  <2>2. GuildRival(archive, g, h) = [encounters |-> Count(M), wins |-> Count(Wins(g)),
                                     losses |-> Count(M) - Count(Wins(g))]
    BY DEF GuildRival
  <2>3. GuildRival(archive, h, g) = [encounters |-> Count(M), wins |-> Count(Wins(h)),
                                     losses |-> Count(M) - Count(Wins(h))]
    BY <2>1 DEF GuildRival
  <2>4. IsFiniteSet(M)
    BY FS_Subset DEF TypeInv
  <2>5. M = Wins(g) \cup Wins(h) /\ Wins(g) \cap Wins(h) = {}
    <3>1. \A e \in M : /\ e.outcome \in {"KILL", "FAILED"}
                       /\ \/ GuildOf(e.hunter) = g /\ GuildOf(e.target) = h
                          \/ GuildOf(e.hunter) = h /\ GuildOf(e.target) = g
      BY DEF TypeInv, Encounter
    <3> HIDE DEF M
    <3> QED BY <3>1
  <2> HIDE DEF M, Wins
  <2>6. Count(M) \in Nat /\ Count(Wins(g)) \in Nat /\ Count(M) = Count(Wins(g)) + Count(Wins(h))
        /\ Count(Wins(h)) \in Nat
    BY <2>4, <2>5, CountParts
  <2> QED BY <2>2, <2>3, <2>6
<1> QED BY <1>1, ArchiveTyped, PTL

\* What getGuildProfileData joins: the encounters of the archive with the rows of the
\* guild's members who hunted them.
Joined(g) == {j \in archive \X Players : j[2].guild = g /\ j[2].key = j[1].hunter}
Members(g) == {q \in Players : q.guild = g}
Days(g) == {j[1].at : j \in Joined(g)}
EndedOn(g, d, o) == {j \in Joined(g) : j[1].at = d /\ j[1].outcome = o}
EndedBy(k, o) == {e \in Hunted(archive, k) : e.outcome = o}

\* The joined encounters of one outcome, by member and by day.
LEMMA MembersAndDays ==
  ASSUME TypeInv, NEW g, NEW o,
         NEW byMember, \A p \in Members(g) : byMember[p] = Count(EndedBy(p.key, o)),
         NEW byDay, \A d \in Days(g) : byDay[d] = Count(EndedOn(g, d, o))
  PROVE  Sum(byMember, Members(g)) = Sum(byDay, Days(g))
<1> DEFINE J == Joined(g)
           W == {j \in J : j[1].outcome = o}
           P == Members(g)
           D == Days(g)
           at == [j \in W |-> j[1].at]
           member == [j \in W |-> j[2]]
           ofDay == [d \in D |-> {j \in W : j[1].at = d}]
           ofMember == [p \in P |-> {j \in W : j[2] = p}]
           count == [A \in SUBSET W |-> Count(A)]
<1>1. IsFiniteSet(J) /\ IsFiniteSet(W) /\ IsFiniteSet(P) /\ IsFiniteSet(archive)
  <2>1. IsFiniteSet(archive \X Players)
    BY ConstantsAssumption, FS_Product DEF TypeInv
  <2>2. J \in SUBSET (archive \X Players) /\ W \in SUBSET J /\ P \in SUBSET Players
    BY DEF Joined, Members
  <2>3. IsFiniteSet(J)
    BY <2>1, <2>2, FS_Subset
  <2> HIDE DEF J, W, P
  <2> QED BY <2>2, <2>3, ConstantsAssumption, FS_Subset DEF TypeInv
<1>2. IsFiniteSet(D)
  <2> DEFINE day == [j \in J |-> j[1].at]
  <2>1. day \in Surjection(J, D)
    BY DEF Surjection, Days
  <2> HIDE DEF J, D, day
  <2> QED BY <1>1, <2>1, FS_Surjection DEF ExistsSurjection
<1>3. Additive(count, W)
  <2> HIDE DEF W
  <2> QED BY <1>1, CountAdd
<1>4. Parted(W, at, D, ofDay, W)
  BY DEF Parted, Days
<1>5. Parted(W, member, P, ofMember, W)
  <2>1. \A j \in J : j[2] \in P
    BY DEF Joined, Members
  <2> HIDE DEF P, J
  <2> QED BY <2>1 DEF Parted
<1>6. \A d \in D : byDay[d] = count[ofDay[d]]
  <2>1. \A d \in D : EndedOn(g, d, o) = ofDay[d]
    BY DEF EndedOn
  <2>2. \A d \in D : ofDay[d] \in SUBSET W
    OBVIOUS
  <2>3. \A d \in D : byDay[d] = Count(ofDay[d])
    BY <2>1
  <2> HIDE DEF ofDay, W, D
  <2> QED BY <2>2, <2>3
<1>7. ASSUME NEW p \in P PROVE byMember[p] = count[ofMember[p]]
  <2> DEFINE E == EndedBy(p.key, o)
             F == {j \in W : j[2] = p}
             f == [e \in E |-> <<e, p>>]
  <2>1. IsFiniteSet(E)
    BY <1>1, FS_Subset DEF EndedBy, Hunted
  <2>2. f \in Bijection(E, F)
    <3>1. ASSUME NEW e \in E PROVE <<e, p>> \in F
      BY DEF EndedBy, Hunted, Joined, Members
    <3>2. ASSUME NEW j \in F PROVE j[1] \in E /\ j = <<j[1], p>>
      BY DEF EndedBy, Hunted, Joined, Members
    <3> HIDE DEF E, F
    <3> QED BY <3>1, <3>2 DEF Bijection, Injection, Surjection, IsInjective
  <2> HIDE DEF f
  <2>3. Count(E) = Count(F)
    <3> HIDE DEF E, F
    <3> QED BY <2>1, <2>2, FS_Bijection DEF Count, ExistsBijection
  <2>4. byMember[p] = Count(E) /\ ofMember[p] = F /\ F \in SUBSET W
    OBVIOUS
  <2> HIDE DEF E, F, ofMember, W
  <2> QED BY <2>3, <2>4
<1> HIDE DEF J, W, P, D, at, member, ofDay, ofMember, count
<1>8. Sum(byDay, D) = count[W]
  BY <1>2, <1>3, <1>4, <1>6, SumOfParts
<1>9. Sum(byMember, P) = count[W]
  BY <1>1, <1>3, <1>5, <1>7, SumOfParts
<1> QED BY <1>8, <1>9 DEF P, D, J

\* What a roster sums up is what its newest rows sum up, and what the replaced ones do.
LEMMA RosterParts ==
  ASSUME NEW g, NEW f, \A p \in Members(g) : f[p] \in Nat,
         NEW newest, \A p \in {q \in PlayerNames : q.guild = g} : newest[p] = f[p],
         NEW replaced, \A p \in Members(g) \ PlayerNames : replaced[p] = f[p]
  PROVE  Sum(f, Members(g)) = Sum(newest, {q \in PlayerNames : q.guild = g})
                                + Sum(replaced, Members(g) \ PlayerNames)
<1> DEFINE M == Members(g)
           N == {q \in PlayerNames : q.guild = g}
           R == M \ PlayerNames
<1>1. N \in SUBSET M /\ R \in SUBSET M /\ M = N \cup R /\ R \cap N = {}
  BY DEF Members, PlayerNames
<1>2. IsFiniteSet(N) /\ IsFiniteSet(R)
  <2>1. M \in SUBSET Players
    BY DEF Members
  <2> HIDE DEF M, N, R
  <2> QED BY <1>1, <2>1, ConstantsAssumption, FS_Subset
<1> HIDE DEF M, N, R
<1>3. \A p \in N \cup R : f[p] \in Nat
  BY <1>1 DEF M
<1>4. Sum(f, N \cup R) = Sum(f, N) + Sum(f, R)
  BY <1>1, <1>2, <1>3, SumUnion
<1>5. Sum(f, N) = Sum(newest, N)
  <2>1. \A p \in N : f[p] \in Nat /\ newest[p] = f[p]
    BY <1>3 DEF N
  <2> QED BY <1>2, <2>1, SumSame
<1>6. Sum(f, R) = Sum(replaced, R)
  <2>1. \A p \in R : f[p] \in Nat /\ replaced[p] = f[p]
    BY <1>3 DEF R, M
  <2> QED BY <1>2, <2>1, SumSame
<1> QED BY <1>1, <1>4, <1>5, <1>6 DEF M, N, R

\* The roster of a guild shows what its summary shows, and what the rows show that a newer
\* one of the same name has replaced; its wins and losses are those of its days
\* (guild_activity, getGuildProfileData).
THEOREM GuildsTell == Spec => []GuildsAgree
<1>1. ASSUME TypeInv, NEW g \in Guilds
      PROVE  LET summary == GuildSummary(archive, g).record
                 roster == GuildRoster(archive, g)
                 days == GuildActivity(archive, g)
                 R == DOMAIN roster \ PlayerNames
             IN /\ SumFunction([p \in DOMAIN roster |-> roster[p].encounters])
                      = summary.encounters + SumFunction([p \in R |-> roster[p].encounters])
                /\ SumFunction([p \in DOMAIN roster |-> roster[p].wins])
                      = summary.wins + SumFunction([p \in R |-> roster[p].wins])
                /\ SumFunction([p \in DOMAIN roster |-> roster[p].losses])
                      = summary.losses + SumFunction([p \in R |-> roster[p].losses])
                /\ SumFunction([p \in DOMAIN roster |-> roster[p].wins])
                      = SumFunction([d \in DOMAIN days |-> days[d].wins])
                /\ SumFunction([p \in DOMAIN roster |-> roster[p].losses])
                      = SumFunction([d \in DOMAIN days |-> days[d].losses])
  <2> DEFINE summary == GuildSummary(archive, g).record
             roster == GuildRoster(archive, g)
             days == GuildActivity(archive, g)
             active == MemberActivity(archive, g)
             P == Members(g)
             N == {q \in PlayerNames : q.guild = g}
             R == P \ PlayerNames
             D == Days(g)
             hunts == [p \in P |-> roster[p].encounters]
             wins == [p \in P |-> roster[p].wins]
             losses == [p \in P |-> roster[p].losses]
             dayWins == [d \in D |-> days[d].wins]
             dayLosses == [d \in D |-> days[d].losses]
             newHunts == [p \in N |-> active[p].encounters]
             newWins == [p \in N |-> active[p].wins]
             newLosses == [p \in N |-> active[p].losses]
             oldHunts == [p \in R |-> roster[p].encounters]
             oldWins == [p \in R |-> roster[p].wins]
             oldLosses == [p \in R |-> roster[p].losses]
  <2>1. /\ DOMAIN active = N
        /\ summary.encounters = SumFunction(newHunts) /\ summary.wins = SumFunction(newWins)
        /\ summary.losses = SumFunction(newLosses)
    <3>1. DOMAIN active = N
      BY DEF MemberActivity
    <3> QED BY <3>1 DEF GuildSummary
  <2>2. N \subseteq P /\ R \subseteq P
    BY DEF Members, PlayerNames
  <2>3. /\ DOMAIN roster = P
        /\ \A p \in P : /\ roster[p].encounters = Count(Hunted(archive, p.key))
                        /\ roster[p].wins = Count(Kills(Hunted(archive, p.key)))
                        /\ roster[p].losses = Count(Failures(Hunted(archive, p.key)))
    BY DEF GuildRoster, Record, Members
  <2>4. /\ DOMAIN days = D
        /\ \A d \in D :
             /\ days[d].wins = Count(EndedOn(g, d, "KILL"))
             /\ days[d].losses = Count(EndedOn(g, d, "FAILED"))
    BY DEF GuildActivity, Joined, Days, EndedOn
  <2>5. \A f : SumFunction(f) = Sum(f, DOMAIN f)
    BY DEF SumFunction, Sum
  <2>6. Sum(wins, P) = Sum(dayWins, D)
    <3>1. \A p \in P : wins[p] = Count(EndedBy(p.key, "KILL"))
      BY <2>3 DEF Kills, EndedBy
    <3>2. \A d \in D : dayWins[d] = Count(EndedOn(g, d, "KILL"))
      BY <2>4
    <3> HIDE DEF wins, dayWins, P, D
    <3> QED BY <1>1, <3>1, <3>2, MembersAndDays DEF P, D
  <2>7. Sum(losses, P) = Sum(dayLosses, D)
    <3>1. \A p \in P : losses[p] = Count(EndedBy(p.key, "FAILED"))
      BY <2>3 DEF Failures, EndedBy
    <3>2. \A d \in D : dayLosses[d] = Count(EndedOn(g, d, "FAILED"))
      BY <2>4
    <3> HIDE DEF losses, dayLosses, P, D
    <3> QED BY <1>1, <3>1, <3>2, MembersAndDays DEF P, D
  <2>8. \A p \in N : active[p] = roster[p]
    BY <2>2 DEF MemberActivity, GuildRoster, Members
  <2>9. \A p \in P : hunts[p] \in Nat /\ wins[p] \in Nat /\ losses[p] \in Nat
    <3>1. ASSUME NEW k
          PROVE  /\ Count(Hunted(archive, k)) \in Nat /\ Count(Kills(Hunted(archive, k))) \in Nat
                 /\ Count(Failures(Hunted(archive, k))) \in Nat
      <4>1. /\ Hunted(archive, k) \in SUBSET archive /\ Kills(Hunted(archive, k)) \in SUBSET archive
            /\ Failures(Hunted(archive, k)) \in SUBSET archive
        BY DEF Hunted, Kills, Failures
      <4> QED BY <1>1, <4>1, CountOf DEF TypeInv
    <3> HIDE DEF roster, P
    <3> QED BY <2>3, <3>1
  <2>10. /\ \A p \in N : /\ newHunts[p] = hunts[p] /\ newWins[p] = wins[p]
                         /\ newLosses[p] = losses[p]
         /\ \A p \in R : /\ oldHunts[p] = hunts[p] /\ oldWins[p] = wins[p]
                         /\ oldLosses[p] = losses[p]
    <3> HIDE DEF roster, active, P, N, R
    <3> QED BY <2>2, <2>8
  <2>11. /\ SumFunction(hunts) = Sum(hunts, P)
         /\ SumFunction(wins) = Sum(wins, P) /\ SumFunction(losses) = Sum(losses, P)
         /\ SumFunction(dayWins) = Sum(dayWins, D) /\ SumFunction(dayLosses) = Sum(dayLosses, D)
         /\ SumFunction(newHunts) = Sum(newHunts, N)
         /\ SumFunction(newWins) = Sum(newWins, N) /\ SumFunction(newLosses) = Sum(newLosses, N)
         /\ SumFunction(oldHunts) = Sum(oldHunts, R)
         /\ SumFunction(oldWins) = Sum(oldWins, R) /\ SumFunction(oldLosses) = Sum(oldLosses, R)
    BY <2>5
  <2> HIDE DEF summary, roster, days, active, hunts, wins, losses, dayWins, dayLosses,
               newHunts, newWins, newLosses, oldHunts, oldWins, oldLosses
  <2>12. /\ Sum(hunts, P) = Sum(newHunts, N) + Sum(oldHunts, R)
         /\ Sum(wins, P) = Sum(newWins, N) + Sum(oldWins, R)
         /\ Sum(losses, P) = Sum(newLosses, N) + Sum(oldLosses, R)
    BY <2>9, <2>10, RosterParts
  <2> HIDE DEF P, N, R, D
  <2>13. /\ SumFunction(hunts) = summary.encounters + SumFunction(oldHunts)
         /\ SumFunction(wins) = summary.wins + SumFunction(oldWins)
         /\ SumFunction(losses) = summary.losses + SumFunction(oldLosses)
         /\ SumFunction(wins) = SumFunction(dayWins) /\ SumFunction(losses) = SumFunction(dayLosses)
    BY <2>1, <2>6, <2>7, <2>11, <2>12
  <2> QED BY <2>3, <2>4, <2>13 DEF summary, roster, days, hunts, wins, losses, dayWins, dayLosses,
               oldHunts, oldWins, oldLosses, R
<1>2. TypeInv /\ GuildRivalsMirror => GuildsAgree
  BY <1>1 DEF GuildsAgree
<1> QED BY <1>2, ArchiveTyped, RivalGuildsMirror, PTL

-----------------------------------------------------------------------------
(* The two sides of a rivalry. *)

LEMMA PairOf ==
  ASSUME NEW x, NEW y, NEW a, NEW b, {x, y} = {a, b}, x # y
  PROVE  (x = a /\ y = b) \/ (x = b /\ y = a)
<1>1. x \in {a, b} /\ y \in {a, b}
  BY Zenon
<1> QED BY <1>1

\* What the list of rivalries counts for each side is what that side's dossier counts,
\* and one side's wins, claims and revenges are what the other's leave of the row's
\* (getRivalries, getHunter).
THEOREM RivalsTellAlike == Spec => []RivalrySidesAgree
<1>1. ASSUME TypeInv, NEW a \in Names, NEW b \in Names, a < b
      PROVE  LET mine == OpponentRow(archive, a, b)
                 theirs == OpponentRow(archive, b, a)
                 row == RivalryRow(archive, a, b)
             IN /\ mine.wins = row.winsA /\ mine.losses = row.winsB
                /\ theirs.wins = mine.losses /\ theirs.losses = mine.wins
                /\ mine.creditsLost = theirs.credits /\ theirs.creditsLost = mine.credits
                /\ mine.revenges + theirs.revenges = row.revenges
                /\ mine.claims + theirs.claims = row.claims
                /\ mine.wins + mine.losses = row.encounters
  <2> DEFINE M == Between(archive, a, b)
             R == Revenges(Kills(M))
  <2>1. Between(archive, b, a) = M
    BY DEF Between
  <2>2. IsFiniteSet(M) /\ M \subseteq archive
    <3>1. IsFiniteSet(archive)
      BY <1>1 DEF TypeInv
    <3>2. M \in SUBSET archive
      BY DEF Between
    <3> HIDE DEF M
    <3> QED BY <3>1, <3>2, FS_Subset
  <2>3. \A e \in M : /\ e.outcome \in {"KILL", "FAILED"}
                     /\ \/ e.hunter = a /\ e.target = b
                        \/ e.hunter = b /\ e.target = a
    <3>1. \A e \in M : {e.hunter, e.target} = {a, b}
      BY DEF Between
    <3>2. \A e \in archive : e.outcome \in {"KILL", "FAILED"} /\ e.hunter # e.target
      BY <1>1 DEF TypeInv, Encounter
    <3> HIDE DEF M
    <3> QED BY <2>2, <3>1, <3>2, PairOf
  <2>4. a # b
    BY <1>1, ConstantsAssumption
  <2>5. Kills(M) \subseteq M /\ R \subseteq M
    BY DEF Kills, Revenges
  <2>6. /\ OpponentRow(archive, a, b) =
             [encounters |-> Count(M), wins |-> Count(Won(M, a)), losses |-> Count(M) - Count(Won(M, a)),
              claims |-> Count(Kills(Hunted(M, a))), survivals |-> Count(Failures(Targeted(M, a))),
              credits |-> Credits(Hunted(M, a)), creditsLost |-> Credits(Targeted(M, a)),
              revenges |-> Count(Hunted(R, a))]
        /\ OpponentRow(archive, b, a) =
             [encounters |-> Count(M), wins |-> Count(Won(M, b)), losses |-> Count(M) - Count(Won(M, b)),
              claims |-> Count(Kills(Hunted(M, b))), survivals |-> Count(Failures(Targeted(M, b))),
              credits |-> Credits(Hunted(M, b)), creditsLost |-> Credits(Targeted(M, b)),
              revenges |-> Count(Hunted(R, b))]
    BY <2>1 DEF OpponentRow
  <2>7. RivalryRow(archive, a, b) =
          [encounters |-> Count(M), winsA |-> Count(Won(M, a)), winsB |-> Count(Won(M, b)),
           claims |-> Count(Kills(M)), credits |-> Credits(M), revenges |-> Count(R)]
    BY DEF RivalryRow
  <2> HIDE DEF M, R
  <2>8. M = Won(M, a) \cup Won(M, b) /\ Won(M, a) \cap Won(M, b) = {}
    BY <2>3, <2>4 DEF Won
  <2>9. R = Hunted(R, a) \cup Hunted(R, b) /\ Hunted(R, a) \cap Hunted(R, b) = {}
    BY <2>3, <2>4, <2>5 DEF Hunted
  <2>10. /\ Kills(M) = Kills(Hunted(M, a)) \cup Kills(Hunted(M, b))
         /\ Kills(Hunted(M, a)) \cap Kills(Hunted(M, b)) = {}
    BY <2>3, <2>4 DEF Hunted, Kills
  <2>11. Targeted(M, a) = Hunted(M, b) /\ Targeted(M, b) = Hunted(M, a)
    BY <2>3, <2>4 DEF Hunted, Targeted
  <2>12. IsFiniteSet(R) /\ IsFiniteSet(Kills(M))
    BY <2>2, <2>5, FS_Subset
  <2>13. /\ Count(M) \in Nat /\ Count(Won(M, a)) \in Nat /\ Count(Won(M, b)) \in Nat
         /\ Count(M) = Count(Won(M, a)) + Count(Won(M, b))
    BY <2>2, <2>8, CountParts
  <2>14. Count(R) = Count(Hunted(R, a)) + Count(Hunted(R, b))
    BY <2>9, <2>12, CountParts
  <2>15. Count(Kills(M)) = Count(Kills(Hunted(M, a))) + Count(Kills(Hunted(M, b)))
    BY <2>10, <2>12, CountParts
  <2> QED BY <2>6, <2>7, <2>11, <2>13, <2>14, <2>15
<1>2. TypeInv => RivalrySidesAgree
  BY <1>1 DEF RivalrySidesAgree
<1> QED BY <1>2, ArchiveTyped, PTL

-----------------------------------------------------------------------------
(* The page of a rivalry. *)

\* The recursive function by which the fold over a rivalry's encounters is defined.
Folds(k, S, it) ==
  it = [s \in SUBSET S |-> IF s = {} THEN MetricsStart
                           ELSE MetricsStep(k, it[s \ {Latest(s)}], Latest(s))]

LEMMA MetricsAreChosen ==
  ASSUME NEW E, NEW k, NEW o
  PROVE  RivalryMetrics(E, k, o) = (CHOOSE it : Folds(k, Between(E, k, o), it))[Between(E, k, o)]
BY Zenon DEF RivalryMetrics, MapThenFoldSet, Folds

\* What the fold has when the encounters of M are behind it.
Figures(k, M) ==
  [wins |-> Count(Won(M, k)), losses |-> Count(M) - Count(Won(M, k)),
   claims |-> Count(Kills(Hunted(M, k))), survivals |-> Count(Failures(Targeted(M, k))),
   credits |-> Credits(Hunted(M, k)), revenges |-> Count(Hunted(Revenges(Kills(M)), k)),
   killer |-> IF Kills(M) = {} THEN None ELSE Latest(Kills(M)).hunter]

\* Encounters are ordered, so some have a latest one.
LEMMA BeforeOrders ==
  ASSUME TypeInv
  PROVE  /\ \A x \in archive : ~Before(x, x)
         /\ \A x, y \in archive : x = y \/ Before(x, y) \/ Before(y, x)
         /\ \A x, y, z \in archive : Before(x, y) /\ Before(y, z) => Before(x, z)
<1>1. \A e \in archive : e.at \in Nat /\ e.id \in Nat
  BY ConstantsAssumption DEF TypeInv, Encounter
<1>2. \A e, f \in archive : e.id = f.id => e = f
  BY DEF TypeInv
<1>3. \A x \in archive : ~Before(x, x)
  BY <1>1 DEF Before
<1>4. \A x, y \in archive : x = y \/ Before(x, y) \/ Before(y, x)
  BY <1>1, <1>2 DEF Before
<1>5. \A x, y, z \in archive : Before(x, y) /\ Before(y, z) => Before(x, z)
  BY <1>1 DEF Before
<1> QED BY <1>3, <1>4, <1>5

LEMMA LatestIsLast ==
  ASSUME TypeInv, NEW M \in SUBSET archive, M # {}
  PROVE  Latest(M) \in M /\ \A x \in M \ {Latest(M)} : Before(x, Latest(M))
<1> DEFINE HasLast(T) == \E e \in T : \A x \in T \ {e} : Before(x, e)
           G == {T \in SUBSET M : T = {} \/ HasLast(T)}
<1>1. ASSUME NEW T \in SUBSET M, T \in G, NEW x \in M \ T PROVE T \cup {x} \in G
  <2>1. CASE T = {}
    BY <2>1
  <2>2. CASE T # {}
    <3>1. PICK e \in T : \A y \in T \ {e} : Before(y, e)
      BY <1>1, <2>2
    <3>2. x \in archive /\ e \in archive /\ T \subseteq archive /\ x # e
      OBVIOUS
    <3>3. CASE Before(x, e)
      BY <3>1, <3>3
    <3>4. CASE Before(e, x)
      <4>1. \A y \in T : Before(y, x)
        BY <3>1, <3>2, <3>4, BeforeOrders
      <4> QED BY <4>1
    <3> QED BY <3>2, <3>3, <3>4, BeforeOrders
  <2> QED BY <2>1, <2>2
<1>2. M \in G
  <2>1. {} \in G /\ IsFiniteSet(M)
    BY FS_Subset DEF TypeInv
  <2> HIDE DEF G
  <2> QED BY <1>1, <2>1, FromEmpty
<1>3. \E e \in M : \A x \in M \ {e} : Before(x, e)
  BY <1>2
<1> QED BY <1>3 DEF Latest

LEMMA OneMore ==
  ASSUME NEW N, IsFiniteSet(N), NEW x, x \notin N, NEW b \in BOOLEAN,
         NEW M, b => M = N \cup {x}, ~b => M = N
  PROVE  Count(M) = Count(N) + (IF b THEN 1 ELSE 0) /\ Count(N) \in Nat
<1>1. Count(N) \in Nat
  BY FS_CardinalityType DEF Count
<1>2. CASE b
  BY <1>1, <1>2, FS_AddElement DEF Count
<1>3. CASE ~b
  BY <1>1, <1>3
<1> QED BY <1>1, <1>2, <1>3

\* The latest encounter is a revenge if it claims whoever claimed last before it; it makes
\* no difference to the revenges before.
LEMMA LatestRevenge ==
  ASSUME TypeInv, NEW M \in SUBSET archive, NEW x \in M, \A y \in M \ {x} : Before(y, x), x.outcome = "KILL"
  PROVE  LET N == M \ {x}
             avenged == Kills(N) # {} /\ Latest(Kills(N)).hunter = x.target
         IN Revenges(Kills(M)) = Revenges(Kills(N)) \cup (IF avenged THEN {x} ELSE {})
<1> DEFINE N == M \ {x}
           K == Kills(N)
           L == Kills(M)
<1>1. L = K \cup {x} /\ x \notin K /\ K \in SUBSET archive /\ L \in SUBSET archive /\ x \in archive
      /\ \A y \in K : Before(y, x)
  BY DEF Kills
<1> HIDE DEF K, L
<1>2. \A e \in K : ~Before(x, e)
  BY <1>1, BeforeOrders
<1>3. \A e \in K : PreviousKill(L, e) = PreviousKill(K, e)
  BY <1>1, <1>2 DEF PreviousKill
<1>4. CASE K = {}
  <2>1. PreviousKill(L, x) = {}
    BY <1>1, <1>4, BeforeOrders DEF PreviousKill
  <2>2. Revenges(L) = {} /\ Revenges(K) = {}
    BY <1>1, <1>4, <2>1 DEF Revenges
  <2> QED BY <1>4, <2>2 DEF K, L
<1>5. CASE K # {}
  <2> DEFINE l == Latest(K)
  <2>1. l \in K /\ \A y \in K \ {l} : Before(y, l)
    BY <1>1, <1>5, LatestIsLast
  <2> HIDE DEF l
  <2>2. l \in PreviousKill(L, x)
    <3>1. l \in L /\ Before(l, x)
      BY <1>1, <2>1
    <3>2. \A y \in L : ~(Before(l, y) /\ Before(y, x))
      BY <1>1, <2>1, BeforeOrders
    <3> QED BY <3>1, <3>2 DEF PreviousKill
  <2>3. \A y \in PreviousKill(L, x) : y = l
    <3> SUFFICES ASSUME NEW y \in PreviousKill(L, x), y # l PROVE FALSE
      OBVIOUS
    <3>1. y \in L /\ Before(y, x) /\ ~(Before(y, l) /\ Before(l, x))
      BY <1>1, <2>1 DEF PreviousKill
    <3>2. y \in K
      BY <1>1, <3>1, BeforeOrders
    <3> QED BY <1>1, <2>1, <3>1, <3>2
  <2>4. x \in Revenges(L) <=> l.hunter = x.target
    BY <1>1, <2>2, <2>3 DEF Revenges
  <2>5. \A e \in K : e \in Revenges(L) <=> e \in Revenges(K)
    BY <1>1, <1>3 DEF Revenges
  <2>6. Revenges(L) \subseteq L /\ Revenges(K) \subseteq K
    BY DEF Revenges
  <2>7. Revenges(L) = Revenges(K) \cup (IF l.hunter = x.target THEN {x} ELSE {})
    BY <1>1, <2>4, <2>5, <2>6
  <2> QED BY <1>5, <2>7 DEF l, K, L
<1> QED BY <1>4, <1>5

\* One encounter more: what MetricsStep does to the figures of those before.
LEMMA FiguresStep ==
  ASSUME TypeInv, NEW k \in Names, NEW o \in Names, k # o,
         NEW M \in SUBSET Between(archive, k, o), M # {}
  PROVE  Figures(k, M) = MetricsStep(k, Figures(k, M \ {Latest(M)}), Latest(M))
<1> DEFINE x == Latest(M)
           N == M \ {x}
           kill == x.outcome = "KILL"
           mine == x.hunter = k
           won == kill <=> mine
           claim == kill /\ mine
           m == Figures(k, N)
           One(b) == IF b THEN 1 ELSE 0
<1>1. M \in SUBSET archive /\ IsFiniteSet(M) /\ IsFiniteSet(archive)
  <2>1. M \in SUBSET archive
    BY DEF Between
  <2> QED BY <2>1, FS_Subset DEF TypeInv
<1>2. x \in M /\ x \in archive /\ x \notin N /\ M = N \cup {x} /\ \A y \in N : Before(y, x)
  BY <1>1, LatestIsLast
<1>3. \A e \in M : /\ e.outcome \in {"KILL", "FAILED"} /\ e.credits \in Nat
                  /\ ((e.hunter = k /\ e.target = o) \/ (e.hunter = o /\ e.target = k))
  <2>1. \A e \in M : {e.hunter, e.target} = {k, o} /\ e.hunter # e.target
    BY DEF Between, TypeInv
  <2>2. \A e \in M : (e.hunter = k /\ e.target = o) \/ (e.hunter = o /\ e.target = k)
    BY <2>1, PairOf
  <2> QED BY <1>1, <2>2, ConstantsAssumption DEF TypeInv, Encounter
<1> HIDE DEF x, N
<1>4. /\ kill \in BOOLEAN /\ mine \in BOOLEAN /\ won \in BOOLEAN /\ claim \in BOOLEAN
      /\ mine => x.target = o
      /\ ~mine => x.hunter = o /\ x.target = k
      /\ ~kill => x.outcome = "FAILED"
  BY <1>2, <1>3
<1>5. IsFiniteSet(N) /\ N \in SUBSET M
  BY <1>1, <1>2, FS_Subset
<1>6. Count(M) = Count(N) + 1 /\ Count(N) \in Nat
  BY <1>2, <1>5, OneMore
<1>7. Count(Won(M, k)) = Count(Won(N, k)) + One(won) /\ Count(Won(N, k)) \in Nat
  <2>1. won => Won(M, k) = Won(N, k) \cup {x}
    BY <1>2, <1>3, <1>4 DEF Won
  <2>2. ~won => Won(M, k) = Won(N, k)
    BY <1>2, <1>3, <1>4, k # o DEF Won
  <2>3. IsFiniteSet(Won(N, k)) /\ x \notin Won(N, k)
    BY <1>2, <1>5, FS_Subset DEF Won
  <2> HIDE DEF won
  <2> QED BY <1>4, <2>1, <2>2, <2>3, OneMore
<1>8. Count(Kills(Hunted(M, k))) = Count(Kills(Hunted(N, k))) + One(claim)
  <2>1. claim => Kills(Hunted(M, k)) = Kills(Hunted(N, k)) \cup {x}
    BY <1>2 DEF Kills, Hunted
  <2>2. ~claim => Kills(Hunted(M, k)) = Kills(Hunted(N, k))
    BY <1>2 DEF Kills, Hunted
  <2>3. IsFiniteSet(Kills(Hunted(N, k))) /\ x \notin Kills(Hunted(N, k))
    BY <1>2, <1>5, FS_Subset DEF Kills, Hunted
  <2> HIDE DEF claim
  <2> QED BY <1>4, <2>1, <2>2, <2>3, OneMore
<1>9. Count(Failures(Targeted(M, k))) = Count(Failures(Targeted(N, k))) + One(~kill /\ x.target = k)
  <2> DEFINE survived == ~kill /\ x.target = k
  <2>1. survived => Failures(Targeted(M, k)) = Failures(Targeted(N, k)) \cup {x}
    BY <1>2, <1>4 DEF Failures, Targeted
  <2>2. ~survived => Failures(Targeted(M, k)) = Failures(Targeted(N, k))
    BY <1>2, <1>4 DEF Failures, Targeted
  <2>3. IsFiniteSet(Failures(Targeted(N, k))) /\ x \notin Failures(Targeted(N, k)) /\ survived \in BOOLEAN
    BY <1>2, <1>5, FS_Subset DEF Failures, Targeted
  <2> HIDE DEF survived
  <2>4. Count(Failures(Targeted(M, k))) = Count(Failures(Targeted(N, k))) + One(survived)
    BY <2>1, <2>2, <2>3, OneMore
  <2> QED BY <2>4 DEF survived
<1>10. Credits(Hunted(M, k)) = Credits(Hunted(N, k)) + (IF claim THEN x.credits ELSE 0)
  <2>1. CASE claim
    <3> DEFINE f == [e \in M |-> e.credits]
               A == Kills(Hunted(N, k))
               B == Kills(Hunted(M, k))
    <3>1. B = A \cup {x} /\ x \notin A /\ A \in SUBSET M /\ B \in SUBSET M
      BY <1>2, <2>1 DEF Kills, Hunted
    <3>2. \A X \in SUBSET M : Credits(Hunted(X, k)) = Sum(f, Kills(Hunted(X, k)))
      <4> SUFFICES ASSUME NEW X \in SUBSET M PROVE Credits(Hunted(X, k)) = Sum(f, Kills(Hunted(X, k)))
        OBVIOUS
      <4> DEFINE H == Hunted(X, k)
      <4>1. H \in SUBSET M /\ Kills(H) \in SUBSET M /\ IsFiniteSet(H)
        BY <1>1, FS_Subset DEF Hunted, Kills
      <4>2. \A e \in H : e.credits \in Nat
        BY <1>3, <4>1
      <4>3. \A e \in Kills(H) : f[e] = e.credits
        BY <4>1
      <4> HIDE DEF H, f
      <4>4. Credits(H) = Sum(f, Kills(H))
        BY <4>1, <4>2, <4>3, CreditsOf
      <4> QED BY <4>4 DEF H
    <3>3. Credits(Hunted(M, k)) = Sum(f, B) /\ Credits(Hunted(N, k)) = Sum(f, A)
      BY <1>5, <3>2
    <3>4. f[x] = x.credits /\ x.credits \in Nat /\ IsFiniteSet(A) /\ \A e \in A \cup {x} : f[e] \in Nat
      BY <1>1, <1>2, <1>3, <3>1, FS_Subset
    <3> HIDE DEF A, B, f
    <3>5. Sum(f, A \cup {x}) = f[x] + Sum(f, A) /\ Sum(f, A) \in Nat
      BY <3>1, <3>4, SumAdd, SumType
    <3> QED BY <2>1, <3>1, <3>3, <3>4, <3>5
  <2>2. CASE ~claim
    <3>1. Kills(Hunted(M, k)) = Kills(Hunted(N, k))
      BY <1>2, <2>2 DEF Kills, Hunted
    <3>2. Credits(Hunted(M, k)) = Credits(Hunted(N, k))
      BY <3>1 DEF Credits
    <3>3. Credits(Hunted(N, k)) \in Nat
      <4> DEFINE H == Hunted(N, k)
                 f == [e \in M |-> e.credits]
      <4>1. H \in SUBSET M /\ Kills(H) \in SUBSET M /\ IsFiniteSet(H)
        BY <1>1, <1>5, FS_Subset DEF Hunted, Kills
      <4>2. \A e \in H : e.credits \in Nat
        BY <1>3, <4>1
      <4>3. \A e \in Kills(H) : f[e] = e.credits
        BY <4>1
      <4> HIDE DEF H, f
      <4>4. Credits(H) \in Nat
        BY <4>1, <4>2, <4>3, CreditsOf
      <4> QED BY <4>4 DEF H
    <3> QED BY <2>2, <3>2, <3>3
  <2> HIDE DEF claim
  <2> QED BY <1>4, <2>1, <2>2
<1>11. m.killer = IF Kills(N) = {} THEN None ELSE Latest(Kills(N)).hunter
  BY DEF Figures
<1>12. Count(Hunted(Revenges(Kills(M)), k))
         = Count(Hunted(Revenges(Kills(N)), k)) + One(claim /\ m.killer = x.target)
  <2> DEFINE avenged == Kills(N) # {} /\ Latest(Kills(N)).hunter = x.target
             R(X) == Hunted(Revenges(Kills(X)), k)
  <2>1. x.target \in Nat /\ x.target # None
    BY <1>2, ConstantsAssumption DEF TypeInv, Encounter
  <2>2. m.killer = x.target <=> avenged
    BY <1>11, <2>1
  <2>3. CASE kill
    <3>1. Revenges(Kills(M)) = Revenges(Kills(N)) \cup (IF avenged THEN {x} ELSE {})
      BY <1>1, <1>2, <2>3, LatestRevenge DEF N
    <3>2. claim /\ avenged => R(M) = R(N) \cup {x}
      BY <3>1 DEF Hunted
    <3>3. ~(claim /\ avenged) => R(M) = R(N)
      BY <2>3, <3>1 DEF Hunted
    <3>4. IsFiniteSet(R(N)) /\ x \notin R(N)
      BY <1>2, <1>5, FS_Subset DEF Revenges, Kills, Hunted
    <3> DEFINE b == claim /\ avenged
    <3>5. b \in BOOLEAN /\ (b => R(M) = R(N) \cup {x}) /\ (~b => R(M) = R(N))
      BY <3>2, <3>3
    <3> HIDE DEF b, R, avenged, m, claim
    <3>6. Count(R(M)) = Count(R(N)) + One(b)
      BY <3>4, <3>5, OneMore
    <3>7. b <=> (claim /\ m.killer = x.target)
      BY <2>2 DEF b
    <3> QED BY <3>6, <3>7 DEF R
  <2>4. CASE ~kill
    <3>1. Kills(M) = Kills(N)
      BY <1>2, <2>4 DEF Kills
    <3>2. IsFiniteSet(R(N))
      BY <1>5, FS_Subset DEF Revenges, Kills, Hunted
    <3>3. Count(R(N)) \in Nat
      BY <3>2, FS_CardinalityType DEF Count
    <3> QED BY <2>4, <3>1, <3>3
  <2> QED BY <2>3, <2>4
<1>13. (IF Kills(M) = {} THEN None ELSE Latest(Kills(M)).hunter) = IF kill THEN x.hunter ELSE m.killer
  <2>1. CASE kill
    <3>1. x \in Kills(M) /\ Kills(M) \in SUBSET archive /\ \A y \in Kills(M) \ {x} : Before(y, x)
      BY <1>1, <1>2, <2>1 DEF Kills
    <3>2. Latest(Kills(M)) \in Kills(M) /\ \A y \in Kills(M) \ {Latest(Kills(M))} : Before(y, Latest(Kills(M)))
      BY <3>1, LatestIsLast
    <3>3. Latest(Kills(M)) = x
      BY <3>1, <3>2, BeforeOrders
    <3> QED BY <2>1, <3>1, <3>3
  <2>2. CASE ~kill
    <3>1. Kills(M) = Kills(N)
      BY <1>2, <2>2 DEF Kills
    <3> QED BY <1>11, <2>2, <3>1
  <2> QED BY <2>1, <2>2
<1>14. (IF kill THEN x.hunter ELSE x.target) = k <=> won
  BY <1>2, <1>3, k # o
<1>15. MetricsStep(k, m, x) =
         [wins |-> m.wins + One(won), losses |-> m.losses + One(~won), claims |-> m.claims + One(claim),
          survivals |-> m.survivals + One(~kill /\ x.target = k),
          credits |-> m.credits + (IF claim THEN x.credits ELSE 0),
          revenges |-> m.revenges + One(claim /\ m.killer = x.target),
          killer |-> IF kill THEN x.hunter ELSE m.killer]
  <2> HIDE DEF m
  <2> QED BY <1>14 DEF MetricsStep
<1>16. m = [wins |-> Count(Won(N, k)), losses |-> Count(N) - Count(Won(N, k)),
            claims |-> Count(Kills(Hunted(N, k))), survivals |-> Count(Failures(Targeted(N, k))),
            credits |-> Credits(Hunted(N, k)), revenges |-> Count(Hunted(Revenges(Kills(N)), k)),
            killer |-> m.killer]
  BY <1>11 DEF Figures
<1>17. Count(M) - Count(Won(M, k)) = m.losses + One(~won)
  <2> HIDE DEF won, m
  <2> QED BY <1>4, <1>6, <1>7, <1>16
<1>18. Figures(k, M) = MetricsStep(k, m, x)
  <2> HIDE DEF won, claim, kill, m
  <2> QED BY <1>7, <1>8, <1>9, <1>10, <1>12, <1>13, <1>15, <1>16, <1>17 DEF Figures
<1> QED BY <1>18 DEF N, x

LEMMA FiguresStart == ASSUME NEW k PROVE Figures(k, {}) = MetricsStart
<1>1. Won({}, k) = {} /\ Kills({}) = {} /\ Hunted({}, k) = {} /\ Targeted({}, k) = {} /\ Failures({}) = {}
      /\ Revenges({}) = {}
  BY DEF Won, Kills, Hunted, Targeted, Failures, Revenges
<1>2. Count({}) = 0
  BY FS_EmptySet DEF Count
<1>3. Credits({}) = 0
  BY CreditsAdd, FS_EmptySet DEF Additive
<1> QED BY <1>1, <1>2, <1>3 DEF Figures, MetricsStart

\* The fold over a rivalry has the figures of the whole rivalry at its end.
LEMMA MetricsAre ==
  ASSUME TypeInv, NEW k \in Names, NEW o \in Names, k # o
  PROVE  RivalryMetrics(archive, k, o) = Figures(k, Between(archive, k, o))
<1> DEFINE S == Between(archive, k, o)
           all == [s \in SUBSET S |-> Figures(k, s)]
           it == CHOOSE f : Folds(k, S, f)
<1>1. IsFiniteSet(S)
  BY FS_Subset DEF Between, TypeInv
<1>2. \A s \in SUBSET S : s # {} => Latest(s) \in s
  <2>1. S \in SUBSET archive
    BY DEF Between
  <2> HIDE DEF S
  <2> QED BY <2>1, LatestIsLast
<1>3. \A s \in SUBSET S : s # {} => Figures(k, s) = MetricsStep(k, Figures(k, s \ {Latest(s)}), Latest(s))
  BY FiguresStep
<1> HIDE DEF S
<1>4. Folds(k, S, all)
  <2> DEFINE next(s) == IF s = {} THEN MetricsStart ELSE MetricsStep(k, all[s \ {Latest(s)}], Latest(s))
  <2>1. ASSUME NEW s \in SUBSET S PROVE Figures(k, s) = next(s)
    <3>1. CASE s = {}
      BY <3>1, FiguresStart
    <3>2. CASE s # {}
      <4>1. all[s \ {Latest(s)}] = Figures(k, s \ {Latest(s)})
        OBVIOUS
      <4> HIDE DEF all
      <4> QED BY <1>3, <3>2, <4>1
    <3> QED BY <3>1, <3>2
  <2>2. all = [s \in SUBSET S |-> next(s)]
    <3> HIDE DEF next
    <3> QED BY <2>1
  <2> HIDE DEF all
  <2> QED BY <2>2 DEF Folds
<1>5. Folds(k, S, it)
  <2> HIDE DEF all
  <2> QED BY <1>4
<1> HIDE DEF it, all
<1>6. \A s \in SUBSET S : it[s] = IF s = {} THEN MetricsStart
                                  ELSE MetricsStep(k, it[s \ {Latest(s)}], Latest(s))
  BY <1>5 DEF Folds
<1> DEFINE B == {s \in SUBSET S : it[s] # Figures(k, s)}
<1>7. B = {}
  <2> SUFFICES ASSUME B # {} PROVE FALSE
    OBVIOUS
  <2>1. PICK s \in B : \A u \in B : u \subseteq s => u = s
    <3>1. B \subseteq SUBSET S
      OBVIOUS
    <3> HIDE DEF B
    <3> QED BY <1>1, <3>1, LeastSubset
  <2>2. s # {}
    BY <1>6, FiguresStart
  <2>3. s \in SUBSET S /\ Latest(s) \in s /\ s \ {Latest(s)} \notin B
    BY <1>2, <2>1, <2>2
  <2>4. it[s \ {Latest(s)}] = Figures(k, s \ {Latest(s)})
    BY <2>3
  <2>5. it[s] = MetricsStep(k, it[s \ {Latest(s)}], Latest(s))
    BY <1>6, <2>2, <2>3
  <2> QED BY <1>3, <2>2, <2>3, <2>4, <2>5
<1>8. it[S] = Figures(k, S)
  BY <1>7
<1> QED BY <1>8, MetricsAreChosen DEF it, S

\* A player's wins, losses, claims, survivals, credits and revenges against an opponent are
\* the same on the page of the rivalry, which folds over its encounters
\* (deriveRivalryMetrics), and in the dossier and on the list, which count in SQL.
THEOREM RivalriesTell == Spec => []RivalriesAgree
<1>1. ASSUME TypeInv, NEW a \in Names, NEW b \in Names, a # b
      PROVE  LET page == RivalryMetrics(archive, a, b)
                 mine == OpponentRow(archive, a, b)
             IN <<page.wins, page.losses, page.claims, page.survivals, page.credits, page.revenges>>
                  = <<mine.wins, mine.losses, mine.claims, mine.survivals, mine.credits, mine.revenges>>
  <2>1. RivalryMetrics(archive, a, b) = Figures(a, Between(archive, a, b))
    BY <1>1, MetricsAre
  <2> QED BY <2>1 DEF Figures, OpponentRow
<1>2. TypeInv /\ RivalrySidesAgree => RivalriesAgree
  BY <1>1, Zenon DEF RivalriesAgree
<1> QED BY <1>2, ArchiveTyped, RivalsTellAlike, PTL

-----------------------------------------------------------------------------
(* A hunter's record. *)

\* The rows of actor_events that E's rows are, for their hunter k and for their target k.
AsHunter(E, k) == {[key |-> k, hunts |-> TRUE, e |-> e] : e \in E}
AsTarget(E, k) == {[key |-> k, hunts |-> FALSE, e |-> e] : e \in E}

LEMMA ActorsCount ==
  ASSUME NEW E, IsFiniteSet(E), NEW k
  PROVE  /\ Count(AsHunter(E, k)) = Count(E) /\ IsFiniteSet(AsHunter(E, k))
         /\ Count(AsTarget(E, k)) = Count(E) /\ IsFiniteSet(AsTarget(E, k))
<1> DEFINE f == [e \in E |-> [key |-> k, hunts |-> TRUE, e |-> e]]
           g == [e \in E |-> [key |-> k, hunts |-> FALSE, e |-> e]]
<1>1. f \in Bijection(E, AsHunter(E, k)) /\ g \in Bijection(E, AsTarget(E, k))
  BY DEF AsHunter, AsTarget, Bijection, Injection, Surjection, IsInjective
<1>2. ExistsBijection(E, AsHunter(E, k)) /\ ExistsBijection(E, AsTarget(E, k))
  BY <1>1 DEF ExistsBijection
<1> QED BY <1>2, FS_Bijection DEF Count

\* What the tally counts: deaths are the contracts the hunter failed and the times the
\* hunter was killed as a target.
LEMMA TallyCounts ==
  ASSUME NEW E, IsFiniteSet(E), NEW k,
         \A e \in E : e.outcome \in {"KILL", "FAILED"} /\ e.credits \in Nat
  PROVE  LET t == Tally({a \in ActorEvents(E) : a.key = k})
         IN  /\ t.encounters = Count(Hunted(E, k))
             /\ t.kills = Count(Kills(Hunted(E, k)))
             /\ t.failures = Count(Failures(Hunted(E, k)))
             /\ t.deaths = Count(Failures(Hunted(E, k))) + Count(Kills(Targeted(E, k)))
             /\ t.credits = Credits(Hunted(E, k))
             /\ t.targeted = Count(Targeted(E, k))
             /\ t.targetDeaths = Count(Kills(Targeted(E, k)))
<1> DEFINE A == {a \in ActorEvents(E) : a.key = k}
           H == Hunted(E, k)
           T == Targeted(E, k)
           hunts == {a \in A : a.hunts}
           kills == {a \in hunts : a.e.outcome = "KILL"}
           targeted == {a \in A : ~a.hunts}
           dies == {a \in A : a.hunts = (a.e.outcome = "FAILED")}
<1>1. A = AsHunter(H, k) \cup AsTarget(T, k)
  BY DEF ActorEvents, AsHunter, AsTarget, Hunted, Targeted
<1>2. hunts = AsHunter(H, k)
  BY <1>1 DEF AsHunter, AsTarget
<1>3. kills = AsHunter(Kills(H), k)
  BY <1>2 DEF AsHunter, Kills
<1>4. hunts \ kills = AsHunter(Failures(H), k)
  BY <1>2 DEF AsHunter, Failures, Hunted
<1>5. dies = AsHunter(Failures(H), k) \cup AsTarget(Kills(T), k)
  <2>1. \A a \in AsHunter(H, k) : a.hunts = TRUE /\ a.e \in H
    BY DEF AsHunter
  <2>2. \A a \in AsTarget(T, k) : a.hunts = FALSE /\ a.e \in E
    BY DEF AsTarget, Targeted
  <2>3. \A a \in AsHunter(H, k) : a \in dies <=> a.e.outcome = "FAILED"
    BY <1>1, <2>1, Zenon
  <2>4. \A a \in AsTarget(T, k) : a \in dies <=> ~(a.e.outcome = "FAILED")
    BY <1>1, <2>2, Zenon
  <2>5. AsHunter(Failures(H), k) = {a \in AsHunter(H, k) : a.e.outcome = "FAILED"}
    BY DEF AsHunter, Failures
  <2>6. AsTarget(Kills(T), k) = {a \in AsTarget(T, k) : a.e.outcome # "FAILED"}
    BY DEF AsTarget, Kills, Targeted
  <2>7. dies \subseteq A
    OBVIOUS
  <2> HIDE DEF A, H, T, hunts, kills, dies
  <2> QED BY <1>1, <2>3, <2>4, <2>5, <2>6, <2>7
<1>6. /\ Tally(A).encounters = Count(hunts) /\ Tally(A).kills = Count(kills)
      /\ Tally(A).failures = Count(hunts \ kills) /\ Tally(A).deaths = Count(dies)
      /\ Tally(A).credits = SumFunction([a \in kills |-> a.e.credits])
      /\ Tally(A).targeted = Count(targeted)
      /\ Tally(A).targetDeaths = Count(targeted \intersect dies)
  BY DEF Tally
<1>7. IsFiniteSet(H) /\ IsFiniteSet(T) /\ IsFiniteSet(Kills(H)) /\ IsFiniteSet(Failures(H))
      /\ IsFiniteSet(Kills(T))
  BY FS_Subset DEF Hunted, Targeted, Kills, Failures
<1>8. AsHunter(Failures(H), k) \cap AsTarget(Kills(T), k) = {}
  BY DEF AsHunter, AsTarget
<1>13. SumFunction([a \in kills |-> a.e.credits]) = Credits(H)
  <2> DEFINE c == [e \in Kills(H) |-> e.credits]
             f == [a \in kills |-> a.e.credits]
             h == [e \in Kills(H) |-> [key |-> k, hunts |-> TRUE, e |-> e]]
  <2>1. SumFunction(f) = Sum(f, kills)
    BY DEF SumFunction, Sum
  <2>2. Kills(H) \in SUBSET E /\ H \in SUBSET E
    BY DEF Kills, Hunted
  <2>3. /\ h \in [Kills(H) -> kills]
        /\ \A x, y \in Kills(H) : h[x] = h[y] => x = y
        /\ \A z \in kills : \E x \in Kills(H) : h[x] = z
        /\ \A x \in Kills(H) : f[h[x]] = x.credits
    BY <1>3 DEF AsHunter
  <2>4. \A x \in Kills(H) : c[x] = x.credits
    OBVIOUS
  <2> HIDE DEF c, f, h, H, kills
  <2>5. /\ IsFiniteSet(Kills(H)) /\ \A e \in Kills(H) : c[e] \in Nat
        /\ Credits(H) = Sum(c, Kills(H))
    BY <1>7, <2>2, <2>4, CreditsOf
  <2>6. Sum(c, Kills(H)) = Sum(f, kills)
    <3> DEFINE S == Kills(H)
    <3>1. /\ IsFiniteSet(S) /\ \A e \in S : c[e] \in Nat /\ f[h[e]] = c[e]
          /\ h \in [S -> kills] /\ \A x, y \in S : h[x] = h[y] => x = y
          /\ \A z \in kills : \E x \in S : h[x] = z
      BY <2>3, <2>4, <2>5
    <3> HIDE DEF S
    <3>2. Sum(c, S) = Sum(f, kills)
      BY <3>1, SumMap, SMTT(30)
    <3> QED BY <3>2 DEF S
  <2> QED BY <2>1, <2>5, <2>6 DEF f
<1>14. targeted = AsTarget(T, k)
  BY <1>1 DEF AsHunter, AsTarget
<1>15. targeted \intersect dies = AsTarget(Kills(T), k)
  <2>1. AsTarget(Kills(T), k) \subseteq AsTarget(T, k)
    BY DEF AsTarget, Kills
  <2>2. AsTarget(T, k) \cap AsHunter(Failures(H), k) = {}
    BY DEF AsHunter, AsTarget
  <2> HIDE DEF A, H, T, targeted, dies
  <2> QED BY <1>5, <1>14, <2>1, <2>2
<1> HIDE DEF A, H, T, hunts, kills, targeted, dies
<1>9. IsFiniteSet(dies)
  BY <1>5, <1>7, ActorsCount, FS_Union
<1>10. Count(dies) = Count(AsHunter(Failures(H), k)) + Count(AsTarget(Kills(T), k))
  BY <1>5, <1>8, <1>9, CountParts
<1>11. Count(dies) = Count(Failures(H)) + Count(Kills(T))
  BY <1>7, <1>10, ActorsCount
<1>12. Count(hunts) = Count(H) /\ Count(kills) = Count(Kills(H))
       /\ Count(hunts \ kills) = Count(Failures(H))
       /\ Count(targeted) = Count(T) /\ Count(targeted \intersect dies) = Count(Kills(T))
  BY <1>2, <1>3, <1>4, <1>7, <1>14, <1>15, ActorsCount
<1> QED BY <1>6, <1>11, <1>12, <1>13 DEF A, H, T

\* A contract ends with a kill or fails.
LEMMA TargetsEnd ==
  ASSUME NEW E, IsFiniteSet(E), NEW k, \A e \in E : e.outcome \in {"KILL", "FAILED"}
  PROVE  /\ Count(Targeted(E, k)) \in Nat /\ Count(Kills(Targeted(E, k))) \in Nat
         /\ Count(Targeted(E, k)) - Count(Kills(Targeted(E, k))) = Count(Failures(Targeted(E, k)))
<1> DEFINE T == Targeted(E, k)
<1>1. T \in SUBSET E /\ Kills(T) \in SUBSET T /\ Failures(T) \in SUBSET T
      /\ T = Kills(T) \cup Failures(T) /\ Kills(T) \cap Failures(T) = {}
  BY DEF Targeted, Kills, Failures
<1>2. IsFiniteSet(T)
  BY <1>1, FS_Subset
<1> HIDE DEF T
<1>3. Count(T) = Count(Kills(T)) + Count(Failures(T))
  BY <1>1, <1>2, CountParts
<1>4. Count(Kills(T)) \in Nat /\ Count(Failures(T)) \in Nat
  BY <1>1, <1>2, FS_Subset, FS_CardinalityType DEF Count
<1> QED BY <1>3, <1>4 DEF T

\* The counts of a hunter's record are the same wherever they are told: in the actor
\* events of hunter_stats, on the site's card, in the dossier and the card of /hunter, in
\* the directory, in the history; deaths are the failed contracts on the site's card, and
\* with the times the hunter was killed as a target on the card of /hunter.
THEOREM RecordsCountAlike == Spec => []RecordCountsAgree
<1>1. ASSUME TypeInv, NEW k \in Names
      PROVE  LET directory == DirectoryMetrics(archive)
                 stats == HunterStats(archive, k).overall
                 site == SiteCard(archive, k).overall
                 card == KdCard(archive, k).overall
                 target == Dossier(archive, k).asTarget
             IN /\ card.kills = stats.kills /\ card.kills = site.kills
                /\ card.deaths = stats.deaths /\ card.deaths = site.deaths + site.killed
                /\ card.contracts = stats.encounters /\ card.contracts = site.contracts
                /\ site.targeted = target.encounters /\ site.killed = target.killed
                /\ site.survived = target.survived
                /\ k \in DOMAIN directory =>
                     /\ directory[k].wins = stats.kills /\ directory[k].losses = site.deaths
                     /\ directory[k].credits = card.credits
                /\ Count(History(archive, k, "hunter", "any")) = card.contracts
                /\ Count(History(archive, k, "hunter", "KILL")) = card.kills
                /\ Count(History(archive, k, "hunter", "FAILED")) = site.deaths
                /\ Count(History(archive, k, "target", "KILL")) = site.killed
  <2> DEFINE directory == DirectoryMetrics(archive)
             stats == HunterStats(archive, k).overall
             site == SiteCard(archive, k).overall
             card == KdCard(archive, k).overall
             target == Dossier(archive, k).asTarget
             H == Hunted(archive, k)
             T == Targeted(archive, k)
  <2>1. IsFiniteSet(archive) /\ \A e \in archive : e.outcome \in {"KILL", "FAILED"} /\ e.credits \in Nat
    BY <1>1, ConstantsAssumption DEF TypeInv, Encounter
  <2>2. stats = Tally({a \in ActorEvents(archive) : a.key = k})
    BY DEF HunterStats
  <2>3. card = [kills |-> Count(Kills(H)), deaths |-> Count(Failures(H)) + Count(Kills(T)),
                contracts |-> Count(H), credits |-> Credits(H)]
    BY DEF KdCard, Dossier
  <2>4. k \in DOMAIN directory =>
          /\ directory[k].wins = Count(Kills(H)) /\ directory[k].losses = Count(Failures(H))
          /\ directory[k].credits = Credits(H)
    BY DEF DirectoryMetrics
  <2>5. /\ History(archive, k, "hunter", "any") = H
        /\ History(archive, k, "hunter", "KILL") = Kills(H)
        /\ History(archive, k, "hunter", "FAILED") = Failures(H)
        /\ History(archive, k, "target", "KILL") = Kills(T)
    BY DEF History, Kills, Failures
  <2>6. /\ target.encounters = Count(T) /\ target.killed = Count(Kills(T))
        /\ target.survived = Count(Failures(T))
    BY DEF Dossier
  <2>7. Count(T) - Count(Kills(T)) = Count(Failures(T))
    BY <2>1, TargetsEnd
  <2>8. site = SiteFigures(stats)
    BY DEF SiteCard
  <2> HIDE DEF directory, stats, site, card, target, H, T
  <2>9. /\ stats.encounters = Count(H) /\ stats.kills = Count(Kills(H))
        /\ stats.failures = Count(Failures(H))
        /\ stats.deaths = Count(Failures(H)) + Count(Kills(T))
        /\ stats.targeted = Count(T) /\ stats.targetDeaths = Count(Kills(T))
    BY <2>1, <2>2, TallyCounts DEF H, T
  <2>10. /\ site.kills = Count(Kills(H)) /\ site.deaths = Count(Failures(H))
         /\ site.contracts = Count(H) /\ site.targeted = Count(T)
         /\ site.killed = Count(Kills(T)) /\ site.survived = Count(Failures(T))
    BY <2>7, <2>8, <2>9 DEF SiteFigures
  <2> QED BY <2>3, <2>4, <2>5, <2>6, <2>9, <2>10 DEF directory, stats, site, card, target
<1>2. TypeInv => RecordCountsAgree
  BY <1>1 DEF RecordCountsAgree
<1> QED BY <1>2, ArchiveTyped, PTL

-----------------------------------------------------------------------------
(* The pages of a history. *)

\* The page on which the row after r others stands.
LEMMA PageOf ==
  ASSUME NEW r \in Nat, NEW n \in Nat, NEW R \in Nat \ {0}, r < n
  PROVE  \E p \in 1..n : \A q \in 1..n : r \in (q - 1) * R .. q * R - 1 <=> q = p
<1> DEFINE d == r \div R
<1>1. d \in Nat /\ d * R <= r /\ r < (d + 1) * R
  OBVIOUS
<1> HIDE DEF d
<1>2. d + 1 \in 1..n
  <2>1. d <= d * R
    BY <1>1
  <2> QED BY <1>1, <2>1
<1>3. ASSUME NEW q \in 1..n, q < d + 1 PROVE q * R <= d * R
  <2>1. d - q \in Nat
    BY <1>1, <1>3
  <2>2. (d - q) * R >= 0
    BY <2>1
  <2> QED BY <1>1, <2>2
<1>4. ASSUME NEW q \in 1..n, q > d + 1 PROVE (d + 1) * R <= (q - 1) * R
  <2>1. q - 1 - (d + 1) \in Nat
    BY <1>1, <1>4
  <2>2. (q - 1 - (d + 1)) * R >= 0
    BY <2>1
  <2> QED BY <1>1, <2>2
<1>5. \A q \in 1..n : q * R \in Nat /\ (q - 1) * R \in Nat
  OBVIOUS
<1>6. d * R \in Nat /\ (d + 1) * R \in Nat /\ (d + 1) - 1 = d
  BY <1>1
<1>7. ASSUME NEW q \in 1..n PROVE r \in (q - 1) * R .. q * R - 1 <=> q = d + 1
  <2>1. CASE q < d + 1
    BY <1>1, <1>3, <1>5, <1>6, <2>1
  <2>2. CASE q > d + 1
    BY <1>1, <1>4, <1>5, <1>6, <2>2
  <2>3. CASE q = d + 1
    BY <1>1, <1>6, <2>3
  <2> QED BY <1>1, <2>1, <2>2, <2>3
<1> QED BY <1>2, <1>7

\* Each row of a player's history is on exactly one of its pages, whatever the page size:
\* rows of one time are told apart by their ids (getHunterHistory's ORDER BY and OFFSET).
THEOREM HistoriesArePaged == Spec => []HistoryIsPaged
<1>1. ASSUME TypeInv, NEW k \in Names, NEW e \in History(archive, k, "any", "any")
      PROVE  LET all == History(archive, k, "any", "any")
             IN  Count({page \in 1 .. Count(all) : e \in HistoryPage(all, page)}) = 1
  <2> DEFINE all == History(archive, k, "any", "any")
             newer == {x \in all : Before(e, x)}
             r == Count(newer)
             n == Count(all)
  <2>1. IsFiniteSet(all) /\ e \in all
    <3>1. IsFiniteSet(archive)
      BY <1>1 DEF TypeInv
    <3>2. all \in SUBSET archive
      BY DEF History, Involving, Hunted, Targeted
    <3> QED BY <1>1, <3>1, <3>2, FS_Subset
  <2>2. e.at \in Nat /\ e.id \in Nat
    <3>1. e \in archive
      BY <1>1 DEF History, Involving, Hunted, Targeted
    <3> QED BY <1>1, <3>1, ConstantsAssumption DEF TypeInv, Encounter
  <2>3. ~Before(e, e)
    BY <2>2 DEF Before
  <2> HIDE DEF all
  <2>4. newer \in SUBSET (all \ {e})
    BY <2>3
  <2>5. IsFiniteSet(all \ {e}) /\ Count(all \ {e}) = n - 1 /\ n \in Nat
    BY <2>1, FS_RemoveElement, FS_CardinalityType DEF Count
  <2>6. r \in Nat /\ r < n
    BY <2>4, <2>5, CountOf
  <2>7. PICK p \in 1..n : \A q \in 1..n :
          r \in (q - 1) * HistoryRows .. q * HistoryRows - 1 <=> q = p
    <3>1. HistoryRows \in Nat \ {0} /\ n \in Nat
      BY <2>5, ConstantsAssumption
    <3> HIDE DEF r, n
    <3> QED BY <2>6, <3>1, PageOf
  <2>8. \A q : e \in HistoryPage(all, q) <=>
                 r \in (q - 1) * HistoryRows .. q * HistoryRows - 1
    BY <2>1 DEF HistoryPage
  <2>9. {page \in 1..n : e \in HistoryPage(all, page)} = {p}
    BY <2>7, <2>8
  <2> QED BY <2>9, FS_Singleton DEF all, Count
<1>2. TypeInv => HistoryIsPaged
  BY <1>1 DEF HistoryIsPaged
<1> QED BY <1>2, ArchiveTyped, PTL

-----------------------------------------------------------------------------
(* The record of a hunter. *)

\* The part of a hunter's actor events that fall in the cycle are those of its encounters.
LEMMA CycleRecord ==
  ASSUME cycle # None, NEW E, NEW k
  PROVE  HunterStats(E, k).cycle = Tally({a \in ActorEvents(During(E, cycle)) : a.key = k})
<1> DEFINE mine == {a \in ActorEvents(E) : a.key = k}
           running == IF cycle = None THEN {} ELSE {a \in mine : a.e \in During({a.e}, cycle)}
<1>1. HunterStats(E, k).cycle = Tally(running)
  <2> DEFINE t == Tally(running)
             o == Tally(mine)
  <2>1. HunterStats(E, k) = [known |-> cycle # None, cycle |-> t, overall |-> o]
    BY Zenon DEF HunterStats
  <2> HIDE DEF t, o
  <2>2. [known |-> cycle # None, cycle |-> t, overall |-> o].cycle = t
    OBVIOUS
  <2> QED BY <2>1, <2>2, Zenon DEF t
<1>2. running = {a \in ActorEvents(During(E, cycle)) : a.key = k}
  <2>1. running = {a \in mine : a.e \in During({a.e}, cycle)}
    OBVIOUS
  <2> HIDE DEF running
  <2> QED BY <2>1 DEF ActorEvents, During
<1> QED BY <1>1, <1>2

\* A hunter's record is the same wherever it is told: his claims' credits add up to the
\* same in the actor events (attachHunterStats) as in the dossier; a card that shows the
\* cycle, or a hunter without a dossier, shows those figures (kdWindows, hunterLiteEmbed),
\* and calls deaths what the site's card splits in two (HunterStats, TargetStats).
THEOREM RecordsTold == Spec => []RecordsAgree
<1>1. ASSUME TypeInv, RecordCountsAgree, NEW k \in Names
      PROVE  LET stats == HunterStats(archive, k)
                 card == KdCard(archive, k)
                 site == SiteCard(archive, k)
                 command == HunterCommand(archive, k)
                 lite == command.card
             IN /\ card.overall.credits = stats.overall.credits
                /\ card.cycle # None =>
                     /\ card.cycle = KdFigures(stats.cycle)
                     /\ card.cycle.deaths = site.cycle.deaths + site.cycle.killed
                /\ command.kind = "lite" /\ lite.overall # None => lite.overall = card.overall
  <2> DEFINE stats == HunterStats(archive, k)
             card == KdCard(archive, k)
             site == SiteCard(archive, k)
             command == HunterCommand(archive, k)
             lite == command.card
             told == stats.overall
             shown == card.overall
             H == Hunted(archive, k)
             T == Targeted(archive, k)
             hits == Involving(SearchHits(archive, k), k)
  <2>1. IsFiniteSet(archive) /\ \A e \in archive : e.outcome \in {"KILL", "FAILED"} /\ e.credits \in Nat
    BY <1>1, ConstantsAssumption DEF TypeInv, Encounter
  <2>2. told = Tally({a \in ActorEvents(archive) : a.key = k})
    BY DEF HunterStats
  <2>3. shown = [kills |-> Count(Kills(H)), deaths |-> Count(Failures(H)) + Count(Kills(T)),
                 contracts |-> Count(H), credits |-> Credits(H)]
    BY DEF KdCard, Dossier
  <2>4. \A rows : OwnStats(archive, k, rows) # None => OwnStats(archive, k, rows) = stats
    BY DEF OwnStats
  <2>5. card.cycle # None => card.cycle = KdFigures(stats.cycle) /\ cycle # None
    <3> DEFINE own == OwnStats(archive, k, Dossier(archive, k).encounters)
    <3>1. card.cycle = IF own = None THEN None ELSE IF own.known THEN KdFigures(own.cycle) ELSE None
      BY DEF KdCard
    <3>2. own # None => own = stats
      BY <2>4
    <3>3. stats.known <=> cycle # None
      BY DEF HunterStats
    <3> HIDE DEF own, card, stats
    <3> QED BY <3>1, <3>2, <3>3
  <2>5a. ASSUME cycle # None
         PROVE  KdFigures(stats.cycle).deaths = site.cycle.deaths + site.cycle.killed
    <3> DEFINE R == During(archive, cycle)
               t == Tally({a \in ActorEvents(R) : a.key = k})
    <3>1. IsFiniteSet(R) /\ \A e \in R : e.outcome \in {"KILL", "FAILED"} /\ e.credits \in Nat
      <4>1. R \in SUBSET archive
        BY DEF During
      <4> HIDE DEF R
      <4> QED BY <2>1, <4>1, FS_Subset
    <3> HIDE DEF R
    <3>2. t.deaths = t.failures + t.targetDeaths
      BY <3>1, TallyCounts
    <3>3. stats.cycle = t
      BY <2>5a, CycleRecord DEF R
    <3>4. site.cycle = SiteFigures(stats.cycle)
      BY DEF SiteCard
    <3> HIDE DEF t, site, stats
    <3> QED BY <3>2, <3>3, <3>4 DEF SiteFigures, KdFigures
  <2>6. command.kind = "lite" => lite = LiteCard(archive, k, hits)
    BY DEF HunterCommand
  <2>7. LiteCard(archive, k, hits).overall # None => LiteCard(archive, k, hits).overall = KdFigures(told)
    <3> DEFINE own == OwnStats(archive, k, hits)
    <3>1. LiteCard(archive, k, hits).overall = IF own = None THEN None ELSE KdFigures(own.overall)
      BY DEF LiteCard
    <3>2. own # None => own = stats
      BY <2>4
    <3> HIDE DEF own, stats, hits
    <3> QED BY <3>1, <3>2
  <2> HIDE DEF told, shown, H, T, hits, command
  <2>8. /\ told.encounters = Count(H) /\ told.kills = Count(Kills(H)) /\ told.credits = Credits(H)
        /\ told.deaths = Count(Failures(H)) + Count(Kills(T))
    BY <2>1, <2>2, TallyCounts DEF H, T
  <2>9. KdFigures(told) = shown
    BY <2>3, <2>8 DEF KdFigures
  <2>10. shown.credits = told.credits
    BY <2>3, <2>8
  <2>11. command.kind = "lite" /\ lite.overall # None => lite.overall = shown
    BY <2>6, <2>7, <2>9
  <2> HIDE DEF card, site, stats, lite
  <2>12. /\ shown.credits = told.credits
         /\ card.cycle # None =>
              /\ card.cycle = KdFigures(stats.cycle)
              /\ card.cycle.deaths = site.cycle.deaths + site.cycle.killed
         /\ command.kind = "lite" /\ lite.overall # None => lite.overall = shown
    BY <2>5, <2>5a, <2>10, <2>11
  <2> QED BY <2>12 DEF shown, told, lite, card, site, stats, command
<1>2. TypeInv /\ RecordCountsAgree /\ HistoryIsPaged => RecordsAgree
  BY <1>1 DEF RecordsAgree
<1> QED BY <1>2, ArchiveTyped, RecordsCountAlike, HistoriesArePaged, PTL

-----------------------------------------------------------------------------
(* The cycle: the report and the overlay. *)

\* The weekly report's row of a hunter is the cycle record beside his encounters, its
\* credits too: both tally the same actor events.
THEOREM ReportsShowRecords == Spec => []ReportShowsRecords
<1>1. ASSUME NEW k \in DOMAIN ReportHunters(archive, cycle), cycle # None
      PROVE  ReportHunters(archive, cycle)[k] = HunterStats(archive, k).cycle
  <2>1. ReportHunters(archive, cycle)[k] =
          Tally({a \in ActorEvents(During(archive, cycle)) : a.key = k})
    BY DEF ReportHunters
  <2>2. HunterStats(archive, k).cycle =
          Tally({a \in ActorEvents(During(archive, cycle)) : a.key = k})
    BY <1>1, CycleRecord
  <2> QED BY <2>1, <2>2
<1>2. ReportShowsRecords
  BY <1>1 DEF ReportShowsRecords
<1> QED BY <1>2, PTL

\* The days of the cycle that have begun hold the encounters of the cycle.
LEMMA DaysHold ==
  ASSUME TypeInv, NEW c \in {CycleOf(day) : day \in 0 .. clock}
  PROVE  LET days == CycleStart(c) .. Min({CycleEnd(c) - 1, clock})
         IN IsFiniteSet(days) /\ \A e \in During(archive, c) : e.at \in days
<1> DEFINE end == CycleEnd(c) - 1
           last == Min({end, clock})
<1>0. clock \in Nat
  BY ConstantsAssumption DEF TypeInv
<1>1. c \in Nat
  BY <1>0, ConstantsAssumption DEF CycleOf
<1>2. CycleStart(c) \in Nat /\ CycleEnd(c) \in Nat /\ end \in Int
  <2>1. c * CycleLength \in Nat /\ (c + 1) * CycleLength \in Nat
    BY <1>1, ConstantsAssumption
  <2> QED BY <2>1 DEF CycleStart, CycleEnd
<1>3. last \in {end, clock} /\ last <= end /\ last <= clock
  <2> HIDE DEF end
  <2>1. \E x \in {end, clock} : \A y \in {end, clock} : x =< y
    <3>1. CASE end <= clock
      BY <1>0, <1>2, <3>1
    <3>2. CASE clock <= end
      BY <1>0, <1>2, <3>2
    <3> QED BY <1>0, <1>2, <3>1, <3>2
  <2>2. last \in {end, clock} /\ \A y \in {end, clock} : last =< y
    BY <2>1 DEF Min
  <2> QED BY <2>2
<1>4. \A e \in During(archive, c) : e.at \in Nat /\ CycleStart(c) <= e.at /\ e.at < CycleEnd(c) /\ e.at <= clock
  BY ConstantsAssumption DEF TypeInv, During, Encounter
<1> HIDE DEF last
<1>5. \A e \in During(archive, c) : e.at \in CycleStart(c) .. last
  BY <1>0, <1>2, <1>3, <1>4
<1>6. IsFiniteSet(CycleStart(c) .. last)
  BY <1>0, <1>2, <1>3, FS_Interval
<1> QED BY <1>5, <1>6 DEF last

\* The rows of the report's hunters, of its targets and of its days are each a partition of
\* the encounters of the heading: they count, claim, fail and earn the same in sum, and as
\* nobody is listed who did not hunt, the deaths are some of the ends that the heading
\* counts (getWeeklyReport).
THEOREM ReportTells == Spec => []ReportAddsUp
<1>1. ASSUME TypeInv, NEW c \in {CycleOf(day) : day \in 0 .. clock}
      PROVE  LET summary == ReportSummary(archive, c)
                 hunters == ReportHunters(archive, c)
                 targets == ReportTargets(archive, c)
                 days == ReportDays(archive, c)
       IN /\ summary.encounters = SumFunction([k \in DOMAIN hunters |-> hunters[k].encounters])
          /\ summary.encounters = SumFunction([d \in DOMAIN days |-> days[d].encounters])
          /\ summary.encounters = SumFunction([k \in DOMAIN targets |-> targets[k].targeted])
          /\ summary.claims = SumFunction([k \in DOMAIN hunters |-> hunters[k].kills])
          /\ summary.claims = SumFunction([d \in DOMAIN days |-> days[d].claims])
          /\ summary.claims = SumFunction([k \in DOMAIN targets |-> targets[k].killed])
          /\ summary.credits = SumFunction([k \in DOMAIN hunters |-> hunters[k].credits])
          /\ summary.credits = SumFunction([d \in DOMAIN days |-> days[d].credits])
          /\ summary.failures = SumFunction([k \in DOMAIN targets |-> targets[k].survived])
          /\ SumFunction([k \in DOMAIN hunters |-> hunters[k].deaths]) <= summary.failures + summary.claims
  <2> DEFINE R == During(archive, c)
             hunters == ReportHunters(archive, c)
             targets == ReportTargets(archive, c)
             days == ReportDays(archive, c)
             H == {e.hunter : e \in R}
             T == {e.target : e \in R}
             D == CycleStart(c) .. Min({CycleEnd(c) - 1, clock})
             hunter == [e \in R |-> e.hunter]
             target == [e \in R |-> e.target]
             at == [e \in R |-> e.at]
             ofHunter == [k \in H |-> Hunted(R, k)]
             ofTarget == [k \in T |-> Targeted(R, k)]
             asTarget == [k \in H |-> Targeted(R, k)]
             ofDay == [d \in D |-> OnDay(R, d)]
             slain == {e \in R : e.target \in H}
  <2>1. IsFiniteSet(R) /\ \A e \in R : e.outcome \in {"KILL", "FAILED"} /\ e.credits \in Nat
    BY <1>1, FS_Subset, ConstantsAssumption DEF TypeInv, Encounter, During
  <2>2. IsFiniteSet(H) /\ IsFiniteSet(T) /\ IsFiniteSet(D)
    <3>1. hunter \in Surjection(R, H) /\ target \in Surjection(R, T)
      BY DEF Surjection
    <3> HIDE DEF R, H, T, hunter, target
    <3> QED BY <1>1, <2>1, <3>1, DaysHold, FS_Surjection DEF ExistsSurjection
  <2>3. /\ Parted(R, hunter, H, ofHunter, R) /\ Parted(R, target, T, ofTarget, R)
        /\ Parted(R, target, H, asTarget, slain)
    BY DEF Parted, Hunted, Targeted
  <2>4. Parted(R, at, D, ofDay, R)
    <3>1. \A e \in R : e.at \in D
      BY <1>1, DaysHold
    <3> HIDE DEF D, R
    <3> QED BY <3>1 DEF Parted, OnDay
  <2>5. /\ DOMAIN hunters = H
        /\ \A k \in H : hunters[k] = Tally({a \in ActorEvents(R) : a.key = k})
    <3>1. {a.key : a \in {b \in ActorEvents(R) : b.hunts}} = H
      <4> DEFINE own(e) == [key |-> e.hunter, hunts |-> TRUE, e |-> e]
                 met(e) == [key |-> e.target, hunts |-> FALSE, e |-> e]
                 A == ActorEvents(R)
      <4>1. A = {own(e) : e \in R} \cup {met(e) : e \in R}
        BY DEF ActorEvents
      <4>2. \A e : own(e).hunts = TRUE /\ own(e).key = e.hunter /\ met(e).hunts = FALSE
        OBVIOUS
      <4> HIDE DEF own, met, A, R
      <4>3. \A a \in A : a.hunts => \E e \in R : a = own(e)
        BY <4>1, <4>2
      <4>4. \A e \in R : own(e) \in {b \in A : b.hunts}
        BY <4>1, <4>2, Zenon
      <4>5. {a.key : a \in {b \in A : b.hunts}} \subseteq H
        BY <4>2, <4>3
      <4>6. H \subseteq {a.key : a \in {b \in A : b.hunts}}
        BY <4>2, <4>4
      <4> QED BY <4>5, <4>6 DEF A
    <3> QED BY <3>1 DEF ReportHunters
  <2>6. \A k \in H :
          /\ hunters[k].encounters = Count(ofHunter[k]) /\ hunters[k].kills = Count(Kills(ofHunter[k]))
          /\ hunters[k].credits = Credits(ofHunter[k])
          /\ hunters[k].deaths = Count(Failures(ofHunter[k])) + Count(Kills(asTarget[k]))
    <3> SUFFICES ASSUME NEW k \in H
                 PROVE  /\ hunters[k].encounters = Count(ofHunter[k])
                        /\ hunters[k].kills = Count(Kills(ofHunter[k]))
                        /\ hunters[k].credits = Credits(ofHunter[k])
                        /\ hunters[k].deaths
                             = Count(Failures(ofHunter[k])) + Count(Kills(asTarget[k]))
      OBVIOUS
    <3>1. ofHunter[k] = Hunted(R, k) /\ asTarget[k] = Targeted(R, k)
      OBVIOUS
    <3>2. hunters[k] = Tally({a \in ActorEvents(R) : a.key = k})
      BY <2>5
    <3> HIDE DEF R, hunters, H, ofHunter, asTarget
    <3>3. LET t == Tally({a \in ActorEvents(R) : a.key = k})
          IN  /\ t.encounters = Count(Hunted(R, k)) /\ t.kills = Count(Kills(Hunted(R, k)))
              /\ t.deaths = Count(Failures(Hunted(R, k))) + Count(Kills(Targeted(R, k)))
              /\ t.credits = Credits(Hunted(R, k))
      BY <2>1, TallyCounts
    <3> QED BY <3>1, <3>2, <3>3
  <2>7. /\ DOMAIN targets = T
        /\ \A k \in T : /\ targets[k].targeted = Count(ofTarget[k])
                        /\ targets[k].killed = Count(Kills(ofTarget[k]))
                        /\ targets[k].survived = Count(Failures(ofTarget[k]))
    BY DEF ReportTargets
  <2>8. /\ DOMAIN days = D
        /\ \A d \in D : /\ days[d].encounters = Count(ofDay[d])
                        /\ days[d].claims = Count(Kills(ofDay[d]))
                        /\ days[d].credits = Credits(ofDay[d])
    BY DEF ReportDays
  <2>9. LET summary == ReportSummary(archive, c)
        IN  /\ summary.encounters = Count(R) /\ summary.claims = Count(Kills(R))
            /\ summary.failures = Count(Failures(R)) /\ summary.credits = Credits(R)
    BY DEF ReportSummary
  <2>10. \A f : SumFunction(f) = Sum(f, DOMAIN f)
    BY DEF SumFunction, Sum
  <2>11. slain \in SUBSET R
    OBVIOUS
  <2> HIDE DEF R, hunters, targets, days, H, T, D, hunter, target, at, ofHunter, ofTarget, asTarget,
               ofDay, slain
  <2>12. /\ SumFunction([k \in H |-> hunters[k].encounters]) = Count(R)
         /\ SumFunction([k \in H |-> hunters[k].kills]) = Count(Kills(R))
         /\ SumFunction([k \in H |-> hunters[k].credits]) = Credits(R)
    BY <2>1, <2>2, <2>3, <2>6, <2>10, FiguresOfParts
  <2>13. /\ SumFunction([k \in T |-> targets[k].targeted]) = Count(R)
         /\ SumFunction([k \in T |-> targets[k].killed]) = Count(Kills(R))
         /\ SumFunction([k \in T |-> targets[k].survived]) = Count(Failures(R))
    BY <2>1, <2>2, <2>3, <2>7, <2>10, FiguresOfParts
  <2>14. /\ SumFunction([d \in D |-> days[d].encounters]) = Count(R)
         /\ SumFunction([d \in D |-> days[d].claims]) = Count(Kills(R))
         /\ SumFunction([d \in D |-> days[d].credits]) = Credits(R)
    BY <2>1, <2>2, <2>4, <2>8, <2>10, FiguresOfParts
  <2>15. SumFunction([k \in H |-> hunters[k].deaths]) <= Count(Failures(R)) + Count(Kills(R))
    <3> DEFINE failed == [k \in H |-> Count(Failures(ofHunter[k]))]
               killed == [k \in H |-> Count(Kills(asTarget[k]))]
               deaths == [k \in H |-> hunters[k].deaths]
    <3>1. \A k \in H : /\ failed[k] = Count(Failures(ofHunter[k])) /\ killed[k] = Count(Kills(asTarget[k]))
                      /\ deaths[k] = failed[k] + killed[k]
      BY <2>6
    <3>2. SumFunction(deaths) = Sum(deaths, H)
      BY <2>10
    <3> HIDE DEF failed, killed, deaths
    <3>3. Sum(failed, H) = Count(Failures(R)) /\ Sum(killed, H) = Count(Kills(slain))
      BY <2>1, <2>2, <2>3, <3>1, FiguresOfParts
    <3>4. \A k \in H : failed[k] \in Nat /\ killed[k] \in Nat
      <4>1. \A k \in H : ofHunter[k] \in SUBSET R /\ asTarget[k] \in SUBSET R
        BY <2>3 DEF Parted
      <4>2. \A A \in SUBSET R : Failures(A) \in SUBSET R /\ Kills(A) \in SUBSET R
        BY DEF Failures, Kills
      <4> QED BY <2>1, <3>1, <4>1, <4>2, CountOf
    <3>5. Sum(deaths, H) = Sum(failed, H) + Sum(killed, H)
      BY <2>2, <3>1, <3>4, SumPlus
    <3>6. Count(Kills(slain)) <= Count(Kills(R)) /\ Count(Kills(slain)) \in Nat /\ Count(Kills(R)) \in Nat
          /\ Count(Failures(R)) \in Nat
      <4>1. Kills(R) \in SUBSET R /\ Failures(R) \in SUBSET R /\ Kills(slain) \in SUBSET Kills(R)
        BY <2>11 DEF Kills, Failures
      <4>2. IsFiniteSet(Kills(R))
        BY <2>1, <4>1, CountOf
      <4> QED BY <2>1, <4>1, <4>2, CountOf
    <3>7. SumFunction(deaths) <= Count(Failures(R)) + Count(Kills(R))
      BY <3>2, <3>3, <3>5, <3>6
    <3> QED BY <3>7 DEF deaths
  <2> QED BY <2>5, <2>7, <2>8, <2>9, <2>12, <2>13, <2>14, <2>15 DEF hunters, targets, days
<1>2. TypeInv /\ ReportShowsRecords => ReportAddsUp
  BY <1>1, Zenon DEF ReportAddsUp
<1> QED BY <1>2, ArchiveTyped, ReportsShowRecords, PTL

\* A dossier's rows are some of the player's, and whoever hunted one of them has a record.
LEMMA Carried ==
  ASSUME NEW E, NEW k
  PROVE  LET rows == Dossier(E, k).encounters
         IN  /\ rows \subseteq Involving(E, k)
             /\ OwnStats(E, k, rows) # None => OwnStats(E, k, rows) = HunterStats(E, k)
<1>1. Dossier(E, k).encounters = Newest(Involving(E, k), DossierRows)
  BY DEF Dossier
<1> QED BY <1>1 DEF Newest, OwnStats

\* The figures under the overlay's cycle view count the rows above them while the dossier
\* carries the cycle's encounters; the rolling view tells the same contracts and best claim
\* whatever it carries (buildOverlayModel).
THEOREM OverlaysCount == Spec => []OverlayCountsMatchRows
<1>1. ASSUME TypeInv, NEW k \in Listed, cycle # None,
             OwnStats(archive, k, Dossier(archive, k).encounters) # None
      PROVE  LET view == OverlayCycle(archive, k)
                 recent == OverlayRecent(archive, k)
                 mine == Hunted(view.rows, k)
                 carried == Dossier(archive, k).encounters
             IN /\ During(Involving(archive, k), cycle) \subseteq carried =>
                     /\ view.rows = During(Involving(archive, k), cycle)
                     /\ view.tiles.contracts = Count(mine)
                     /\ view.tiles.claimed = Count(Kills(mine))
                     /\ view.tiles.best = Best(mine)
                /\ recent.tiles.contracts = view.tiles.contracts
                /\ recent.tiles.best = view.tiles.best
  <2> DEFINE carried == Dossier(archive, k).encounters
             stats == HunterStats(archive, k)
             record == stats.cycle
             rows == During(carried, cycle)
             all == During(Involving(archive, k), cycle)
             view == OverlayCycle(archive, k)
             recent == OverlayRecent(archive, k)
  <2>1. carried \subseteq Involving(archive, k) /\ OwnStats(archive, k, carried) = stats
    BY <1>1, Carried
  <2>2. stats.known = TRUE
    BY <1>1, Zenon DEF HunterStats
  <2>3. /\ view.rows = rows /\ view.tiles.contracts = record.encounters
        /\ view.tiles.claimed = record.kills /\ view.tiles.best = Best(Hunted(rows, k))
    BY <1>1, <2>1, <2>2 DEF OverlayCycle
  <2>4. /\ recent.tiles.contracts = record.encounters
        /\ recent.tiles.best = Best(Hunted(rows, k))
    BY <1>1, <2>1, <2>2 DEF OverlayRecent
  <2>5. /\ record.encounters = Count(Hunted(During(archive, cycle), k))
        /\ record.kills = Count(Kills(Hunted(During(archive, cycle), k)))
    <3> DEFINE E == During(archive, cycle)
    <3>1. IsFiniteSet(archive)
          /\ \A e \in archive : e.outcome \in {"KILL", "FAILED"} /\ e.credits \in Nat
      BY <1>1, ConstantsAssumption DEF TypeInv, Encounter
    <3>2. E \in SUBSET archive
      BY DEF During
    <3> HIDE DEF E
    <3>3. IsFiniteSet(E) /\ \A e \in E : e.outcome \in {"KILL", "FAILED"} /\ e.credits \in Nat
      BY <3>1, <3>2, FS_Subset
    <3>4. record = Tally({a \in ActorEvents(E) : a.key = k})
      BY <1>1, CycleRecord DEF E
    <3> HIDE DEF record
    <3>5. /\ record.encounters = Count(Hunted(E, k)) /\ record.kills = Count(Kills(Hunted(E, k)))
      BY <3>3, <3>4, TallyCounts
    <3> QED BY <3>5 DEF E
  <2>6. Hunted(all, k) = Hunted(During(archive, cycle), k)
    BY DEF Hunted, During, Involving, Targeted
  <2>7. all \subseteq carried => rows = all
    <3>1. rows \subseteq all /\ (all \subseteq carried => all \subseteq rows)
      BY <2>1 DEF During
    <3> QED BY <3>1
  <2> HIDE DEF view, recent, rows, all, record, carried
  <2>8. all \subseteq carried => /\ view.rows = all /\ view.tiles.contracts = Count(Hunted(view.rows, k))
                                /\ view.tiles.claimed = Count(Kills(Hunted(view.rows, k)))
                                /\ view.tiles.best = Best(Hunted(view.rows, k))
    BY <2>3, <2>5, <2>6, <2>7
  <2> QED BY <2>3, <2>4, <2>8 DEF view, recent, all, carried
<1>2. TypeInv => OverlayCountsMatchRows
  BY <1>1 DEF OverlayCountsMatchRows
<1> QED BY <1>2, ArchiveTyped, PTL

\* Under the overlay's cycle view stand the credits of the rows it shows, and no claim of
\* the cycle is better than the best on record (buildOverlayModel).
THEOREM OverlaysTell == Spec => []OverlayTilesMatchRows
<1>1. ASSUME TypeInv, OverlayCountsMatchRows, NEW k \in Listed, cycle # None,
             OwnStats(archive, k, Dossier(archive, k).encounters) # None
      PROVE  LET view == OverlayCycle(archive, k)
                 carried == Dossier(archive, k).encounters
                 recent == OverlayRecent(archive, k)
             IN /\ During(Involving(archive, k), cycle) \subseteq carried =>
                     view.tiles.credits = Credits(Hunted(view.rows, k))
                /\ recent.tiles.best <= recent.tiles.record
  <2> DEFINE carried == Dossier(archive, k).encounters
             stats == HunterStats(archive, k)
             record == stats.cycle
             rows == During(carried, cycle)
             all == During(Involving(archive, k), cycle)
             view == OverlayCycle(archive, k)
             recent == OverlayRecent(archive, k)
  <2>1. carried \subseteq Involving(archive, k) /\ OwnStats(archive, k, carried) = stats
    BY <1>1, Carried
  <2>2. stats.known = TRUE
    BY <1>1, Zenon DEF HunterStats
  <2>3. view.tiles.credits = record.credits /\ view.rows = rows
    BY <1>1, <2>1, <2>2 DEF OverlayCycle
  <2>4. /\ recent.tiles.best = Best(Hunted(rows, k))
        /\ recent.tiles.record = Dossier(archive, k).summary.highest
    BY <1>1, <2>1, <2>2 DEF OverlayRecent
  <2>5. Dossier(archive, k).summary.highest = Best(Hunted(archive, k))
    BY DEF Dossier
  <2>6. IsFiniteSet(archive) /\ \A e \in archive : e.outcome \in {"KILL", "FAILED"} /\ e.credits \in Nat
    BY <1>1, ConstantsAssumption DEF TypeInv, Encounter
  <2>7. record.credits = Credits(Hunted(During(archive, cycle), k))
    <3> DEFINE E == During(archive, cycle)
    <3>1. E \in SUBSET archive
      BY DEF During
    <3>2. record = Tally({a \in ActorEvents(E) : a.key = k})
      BY <1>1, CycleRecord
    <3> HIDE DEF E, record
    <3>3. IsFiniteSet(E) /\ \A e \in E : e.outcome \in {"KILL", "FAILED"} /\ e.credits \in Nat
      BY <2>6, <3>1, FS_Subset
    <3>4. record.credits = Credits(Hunted(E, k))
      BY <3>2, <3>3, TallyCounts
    <3> QED BY <3>4 DEF E
  <2>8. Hunted(all, k) = Hunted(During(archive, cycle), k)
    BY DEF Hunted, During, Involving, Targeted
  <2>9. all \subseteq carried => rows = all
    <3>1. rows \subseteq all /\ (all \subseteq carried => all \subseteq rows)
      BY <2>1 DEF During
    <3> QED BY <3>1
  <2>10. Hunted(rows, k) \subseteq Hunted(archive, k) /\ Hunted(archive, k) \in SUBSET archive
    <3>1. rows \subseteq archive
      BY <2>1 DEF During, Involving, Hunted, Targeted
    <3> HIDE DEF rows
    <3> QED BY <3>1 DEF Hunted
  <2> HIDE DEF view, recent, rows, all, record, carried
  <2>11. Best(Hunted(rows, k)) <= Best(Hunted(archive, k))
    <3> DEFINE E == Hunted(archive, k)  F == Hunted(rows, k)
    <3>1. IsFiniteSet(E) /\ F \in SUBSET E /\ \A e \in E : e.credits \in Nat
      BY <2>6, <2>10, FS_Subset
    <3> HIDE DEF E, F
    <3>2. Best(F) <= Best(E)
      BY <3>1, BestGrows
    <3> QED BY <3>2 DEF E, F
  <2>12. /\ all \subseteq carried => view.tiles.credits = Credits(Hunted(view.rows, k))
         /\ recent.tiles.best <= recent.tiles.record
    BY <2>3, <2>4, <2>5, <2>7, <2>8, <2>9, <2>11
  <2> QED BY <2>12 DEF view, recent, all, carried
<1>2. TypeInv /\ OverlayCountsMatchRows => OverlayTilesMatchRows
  BY <1>1 DEF OverlayTilesMatchRows
<1> QED BY <1>2, ArchiveTyped, OverlaysCount, PTL
=============================================================================
