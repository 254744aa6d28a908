--------------------------- MODULE Services_proofs ----------------------------
(***************************************************************************)
(* Theorems about Services: the weekly post, the overlay's images and the  *)
(* accounts, and the types of all four, for any constants.  What is proved *)
(* of the record of the answers' shapes is in SchemaDrift_proofs.          *)
(***************************************************************************)
EXTENDS Services, SchemaDrift_proofs, FiniteSetTheorems, WellFoundedInduction

\* A step of the whole is a step of a part or leaves it alone.
LEMMA StepsOfParts ==
  ASSUME [Next]_<<part, weeklyVars, imageVars, accountVars, driftVars>>
  PROVE  [WeeklyNext]_weeklyVars /\ [ImagesNext]_imageVars /\ [AccountsNext]_accountVars
BY DEF Next, Weekly, Images, SignIn, Drift

-----------------------------------------------------------------------------
(* The overlay's images. *)

ImagesInv ==
  /\ inflight \subseteq Panels
  /\ browsers \in [Panels -> Nat]
  /\ RendersAreShared

LEMMA ImagesStep ==
  ASSUME ImagesInv, [ImagesNext]_imageVars
  PROVE  ImagesInv'
<1> USE DEF ImagesInv, RendersAreShared
<1>1. ASSUME NEW k \in Panels, Launch(k)  PROVE ImagesInv'
  BY <1>1 DEF Launch
<1>2. ASSUME NEW k \in Panels, Rendered(k)  PROVE ImagesInv'
  BY <1>2 DEF Rendered
<1>3. ASSUME NEW k \in Panels, RenderFails(k)  PROVE ImagesInv'
  BY <1>3 DEF RenderFails
<1>4. CASE SecondsPass
  BY <1>4 DEF SecondsPass
<1>5. CASE UNCHANGED imageVars
  BY <1>5 DEF imageVars
<1>6. QED
  BY <1>1, <1>2, <1>3, <1>4, <1>5 DEF ImagesNext

\* Whatever requests come and whatever renders fail, a panel is rendered by one
\* browser, and nobody waits for one that has ended (render.ts:117-141).
THEOREM OneBrowserPerPanel == Spec => []RendersAreShared
<1>1. Init => ImagesInv
  BY DEF Init, ImagesInit, ImagesInv, RendersAreShared
<1>2. ImagesInv /\ [Next]_<<part, weeklyVars, imageVars, accountVars, driftVars>> => ImagesInv'
  BY StepsOfParts, ImagesStep
<1>3. ImagesInv => RendersAreShared
  BY DEF ImagesInv
<1>4. QED
  BY <1>1, <1>2, <1>3, PTL DEF Spec

\* While no more panels were rendered than the Map holds, it has an image of each, in
\* one place and as old as the panel's last render.  What the sweep leaves beyond that
\* is of no account: panels are never unrendered.
CacheInv ==
  /\ now \in Nat /\ MaxEntries \in Nat
  /\ IsFiniteSet(rendered)
  /\ paid \in [Panels -> Nat]
  /\ \A k \in Panels \ rendered : paid[k] = 0
  /\ \/ Cardinality(rendered) > MaxEntries
     \/ /\ cache \in Seq([panel : Panels, expires : Nat])
        /\ \A i, j \in DOMAIN cache : cache[i].panel = cache[j].panel => i = j
        /\ \A i \in DOMAIN cache : cache[i].panel \in rendered
        /\ \A k \in rendered : \E i \in DOMAIN cache : cache[i] = [panel |-> k, expires |-> paid[k]]

\* A Map whose keys are rendered panels has no more entries than panels were rendered.
LEMMA EntriesArePanels ==
  ASSUME NEW map, NEW S, map \in Seq([panel : Panels, expires : Nat]), IsFiniteSet(S),
         \A i, j \in DOMAIN map : map[i].panel = map[j].panel => i = j,
         \A i \in DOMAIN map : map[i].panel \in S
  PROVE  Len(map) <= Cardinality(S)
<1> DEFINE P == {map[i].panel : i \in 1..Len(map)}
           f == [i \in 1..Len(map) |-> map[i].panel]
<1>1. Len(map) \in Nat /\ DOMAIN map = 1..Len(map)
  OBVIOUS
<1>2. f \in Bijection(1..Len(map), P)
  BY <1>1 DEF Bijection, Injection, Surjection, IsInjective
<1>3. Cardinality(P) = Len(map)
  BY <1>1, <1>2, FS_CountingElements DEF ExistsBijection
<1>4. P \in SUBSET S
  BY <1>1
<1> HIDE DEF P
<1> QED BY <1>3, <1>4, FS_Subset

LEMMA RenderKeepsCache ==
  ASSUME CacheInv, NEW k \in Panels, Rendered(k)
  PROVE  CacheInv'
<1> DEFINE e == [panel |-> k, expires |-> now + TTL]
<1>0. TTL \in Nat /\ now + TTL \in Nat /\ e \in [panel : Panels, expires : Nat]
      /\ e.panel = k /\ e.expires = now + TTL
  BY ImagesAssumption DEF CacheInv
<1>1. /\ now' = now /\ rendered' = rendered \cup {k} /\ paid' = [paid EXCEPT ![k] = now + TTL]
      /\ cache' = Swept(Entered(k))
  BY DEF Rendered
<1>2. /\ IsFiniteSet(rendered') /\ Cardinality(rendered') \in Nat /\ Cardinality(rendered) \in Nat
      /\ Cardinality(rendered) <= Cardinality(rendered')
  <2>1. IsFiniteSet(rendered)
    BY DEF CacheInv
  <2>2. IsFiniteSet(rendered') /\ Cardinality(rendered) \in Nat
    BY <1>1, <2>1, FS_AddElement, FS_CardinalityType
  <2>3. rendered \in SUBSET rendered'
    BY <1>1
  <2> QED BY <2>1, <2>2, <2>3, FS_Subset, FS_CardinalityType
<1>3. paid' \in [Panels -> Nat] /\ \A j \in Panels \ rendered' : paid'[j] = 0
  BY <1>0, <1>1 DEF CacheInv
<1>4. CASE Cardinality(rendered) > MaxEntries
  BY <1>1, <1>2, <1>3, <1>4 DEF CacheInv
<1>5. CASE ~(Cardinality(rendered) > MaxEntries)
  <2> DEFINE map == Entered(k)
             in == \E i \in DOMAIN cache : cache[i].panel = k
  <2>0. /\ cache \in Seq([panel : Panels, expires : Nat])
        /\ \A i, j \in DOMAIN cache : cache[i].panel = cache[j].panel => i = j
        /\ \A i \in DOMAIN cache : cache[i].panel \in rendered
        /\ \A j \in rendered : \E i \in DOMAIN cache : cache[i] = [panel |-> j, expires |-> paid[j]]
    BY <1>5 DEF CacheInv
  <2> DEFINE Fits == /\ map \in Seq([panel : Panels, expires : Nat])
                     /\ \A i, j \in DOMAIN map : map[i].panel = map[j].panel => i = j
                     /\ \A i \in DOMAIN map : map[i].panel \in rendered'
                     /\ \A j \in rendered' : \E i \in DOMAIN map : map[i] = [panel |-> j, expires |-> paid'[j]]
  <2>1. ASSUME in PROVE Fits
    <3>1. map = [i \in DOMAIN cache |-> IF cache[i].panel = k THEN e ELSE cache[i]]
      BY <2>1 DEF Entered
    <3> HIDE DEF map
    <3>2. map \in Seq([panel : Panels, expires : Nat]) /\ DOMAIN map = DOMAIN cache
      BY <1>0, <2>0, <3>1
    <3>3. \A i \in DOMAIN map : map[i].panel = cache[i].panel
      BY <1>0, <3>1
    <3>4. ASSUME NEW j \in rendered'
          PROVE  \E i \in DOMAIN map : map[i] = [panel |-> j, expires |-> paid'[j]]
      <4>1. CASE j = k
        BY <1>1, <2>1, <3>1, <4>1 DEF CacheInv
      <4>2. CASE j # k
        <5>1. PICK i \in DOMAIN cache : cache[i] = [panel |-> j, expires |-> paid[j]]
          BY <1>1, <2>0, <3>4, <4>2
        <5> QED BY <1>1, <3>1, <4>2, <5>1 DEF CacheInv
      <4> QED BY <4>1, <4>2
    <3> QED BY <1>1, <2>0, <3>2, <3>3, <3>4
  <2>2. ASSUME ~in PROVE Fits
    <3>1. map = Append(cache, e)
      BY <2>2 DEF Entered
    <3> HIDE DEF map
    <3>2. /\ map \in Seq([panel : Panels, expires : Nat])
          /\ DOMAIN map = 1..(Len(cache) + 1) /\ DOMAIN cache = 1..Len(cache) /\ Len(cache) \in Nat
          /\ map[Len(cache) + 1] = e /\ \A i \in 1..Len(cache) : map[i] = cache[i]
      <4> HIDE DEF e
      <4> QED BY <1>0, <2>0, <3>1
    <3>3. k \notin rendered
      BY <2>0, <2>2
    <3>4. ASSUME NEW j \in rendered'
          PROVE  \E i \in DOMAIN map : map[i] = [panel |-> j, expires |-> paid'[j]]
      <4>1. CASE j = k
        BY <1>1, <3>2, <4>1 DEF CacheInv
      <4>2. CASE j # k
        <5>1. PICK i \in DOMAIN cache : cache[i] = [panel |-> j, expires |-> paid[j]]
          BY <1>1, <2>0, <3>4, <4>2
        <5>2. paid'[j] = paid[j]
          BY <1>1, <4>2 DEF CacheInv
        <5> QED BY <3>2, <5>1, <5>2
      <4> QED BY <4>1, <4>2
    <3>5. \A i, j \in DOMAIN map : map[i].panel = map[j].panel => i = j
      BY <1>0, <2>0, <2>2, <3>2, SMTT(30)
    <3>6. \A i \in DOMAIN map : map[i].panel \in rendered'
      BY <1>0, <1>1, <2>0, <3>2, SMTT(30)
    <3> QED BY <3>2, <3>4, <3>5, <3>6
  <2>3. Fits
    BY <2>1, <2>2
  <2>4. Len(map) <= Cardinality(rendered')
    <3> HIDE DEF map
    <3> QED BY <1>2, <2>3, EntriesArePanels
  <2>5. CASE Len(map) <= MaxEntries
    <3>1. cache' = map
      BY <1>1, <2>5 DEF Swept
    <3> HIDE DEF map
    <3> QED BY <1>1, <1>2, <1>3, <2>3, <3>1 DEF CacheInv
  <2>6. CASE ~(Len(map) <= MaxEntries)
    <3> HIDE DEF map
    <3>1. Len(map) \in Nat
      BY <2>3
    <3> QED BY <1>1, <1>2, <1>3, <2>4, <2>6, <3>1 DEF CacheInv
  <2> QED BY <2>5, <2>6
<1> QED BY <1>4, <1>5

LEMMA CacheStep ==
  ASSUME CacheInv, [ImagesNext]_imageVars
  PROVE  CacheInv'
<1>1. ASSUME NEW k \in Panels, Launch(k) \/ RenderFails(k)  PROVE CacheInv'
  BY <1>1 DEF Launch, RenderFails, CacheInv
<1>2. CASE SecondsPass
  BY <1>2 DEF SecondsPass, CacheInv
<1>3. CASE UNCHANGED imageVars
  BY <1>3 DEF imageVars, CacheInv
<1> QED BY <1>1, <1>2, <1>3, RenderKeepsCache DEF ImagesNext

\* render.ts:8-10: a panel costs one launch of a browser per TTL, for any number of
\* panels and failures, as long as no more of them were rendered than the Map holds.
THEOREM LaunchesAreRare == Spec => OneLaunchPerTTL
<1>1. Init => CacheInv
  <2> SUFFICES ASSUME Init PROVE CacheInv
    OBVIOUS
  <2>1. cache = <<>> /\ rendered = {} /\ now = 0 /\ paid = [k \in Panels |-> 0]
    BY DEF Init, ImagesInit
  <2> QED BY <2>1, FS_EmptySet, ImagesAssumption DEF CacheInv
<1>2. CacheInv /\ [Next]_<<part, weeklyVars, imageVars, accountVars, driftVars>> => CacheInv'
  BY StepsOfParts, CacheStep
<1>3. CacheInv => [\A k \in Panels :
        Launch(k) /\ now < paid[k] => Cardinality(rendered) > MaxEntries]_imageVars
  <2> SUFFICES ASSUME CacheInv, NEW k \in Panels, Launch(k), now < paid[k]
               PROVE  Cardinality(rendered) > MaxEntries
    OBVIOUS
  <2>1. k \in rendered
    BY DEF CacheInv
  <2>2. ASSUME NEW i \in DOMAIN cache, cache[i] = [panel |-> k, expires |-> paid[k]]
        PROVE  FALSE
    BY <2>2 DEF Launch, Hit, CacheInv
  <2> QED BY <2>1, <2>2 DEF CacheInv
<1> QED BY <1>1, <1>2, <1>3, PTL DEF Spec, OneLaunchPerTTL

-----------------------------------------------------------------------------
(* The accounts. *)

AccountsType ==
  /\ day \in Nat
  /\ started \in 0..MaxSignIns /\ pending \subseteq 1..started
  /\ client \in [SignIns -> Clients \cup {None}]
  /\ expires \in [SignIns -> Nat \cup {None}]
  /\ token \in [Clients -> SignIns \cup {None}]
  /\ cookieEnds \in [Websites -> Nat]
  /\ lastUse \in [Clients -> Nat \cup {None}]

\* A sign-in that was started belongs to a client, and the token that a client
\* holds was minted by a sign-in of its own: no two clients hold the same.
OwnTokens ==
  /\ \A s \in 1..started : client[s] \in Clients
  /\ \A c \in Clients : token[c] # None => token[c] \in 1..started /\ client[token[c]] = c

\* Who was answered as signed in, and has not signed out, holds a token that
\* serves for a lifetime from then.
UseExtends ==
  \A c \in Clients : lastUse[c] # None =>
    /\ token[c] # None /\ expires[token[c]] # None
    /\ expires[token[c]] >= lastUse[c] + Lifetime

AccountsInv == AccountsType /\ OwnTokens /\ UseExtends

LEMMA NoneIsNoNumber == None \notin Nat /\ None \notin SignIns /\ SignIns \subseteq Nat
                          /\ Lifetime \in Nat /\ MaxSignIns \in Nat
BY AccountsAssumption DEF SignIns

LEMMA StepStartSignIn ==
  ASSUME AccountsInv, NEW c \in Clients, StartSignIn(c)
  PROVE  AccountsInv'
<1>1. started + 1 \in SignIns /\ started' = started + 1
        /\ client' = [client EXCEPT ![started + 1] = c]
  BY NoneIsNoNumber DEF AccountsInv, AccountsType, StartSignIn, SignIns
<1>2. AccountsType'
  BY <1>1, NoneIsNoNumber DEF AccountsInv, AccountsType, StartSignIn, SignIns
<1>3. OwnTokens'
  BY <1>1, NoneIsNoNumber DEF AccountsInv, AccountsType, OwnTokens, StartSignIn, SignIns
<1>4. UseExtends'
  BY DEF AccountsInv, UseExtends, StartSignIn
<1>5. QED
  BY <1>2, <1>3, <1>4 DEF AccountsInv

LEMMA StepCallback ==
  ASSUME AccountsInv, NEW s \in SignIns, Callback(s)
  PROVE  AccountsInv'
<1>1. /\ s \in pending /\ pending' = pending \ {s} /\ UNCHANGED <<day, started, client>>
      /\ Opens(s) \/ UNCHANGED <<expires, token, cookieEnds, lastUse>>
  BY DEF Callback
<1>2. client[s] \in Clients /\ s \in 1..started
  BY <1>1 DEF AccountsInv, AccountsType, OwnTokens
<1>3. CASE Opens(s)
  <2>1. /\ expires' = [expires EXCEPT ![s] = day + Lifetime]
        /\ token' = [token EXCEPT ![client[s]] = s]
        /\ lastUse' = [lastUse EXCEPT ![client[s]] = day]
        /\ cookieEnds' \in [Websites -> Nat]
    BY <1>3, NoneIsNoNumber DEF Opens, AccountsInv, AccountsType
  <2>2. AccountsType'
    BY <1>1, <1>2, <2>1, NoneIsNoNumber DEF AccountsInv, AccountsType
  <2>3. OwnTokens'
    BY <1>1, <1>2, <2>1 DEF AccountsInv, AccountsType, OwnTokens
  <2>4. ASSUME NEW c \in Clients, lastUse'[c] # None
        PROVE  /\ token'[c] # None /\ expires'[token'[c]] # None
               /\ expires'[token'[c]] >= lastUse'[c] + Lifetime
    <3>1. CASE c = client[s]
      BY <1>2, <2>1, <3>1, NoneIsNoNumber DEF AccountsInv, AccountsType
    <3>2. CASE c # client[s]
      <4>1. token'[c] = token[c] /\ lastUse'[c] = lastUse[c]
        BY <1>2, <2>1, <3>2 DEF AccountsInv, AccountsType
      <4>2. token[c] # None /\ token[c] # s
        BY <2>4, <3>2, <4>1 DEF AccountsInv, OwnTokens, UseExtends
      <4>3. expires'[token[c]] = expires[token[c]]
        BY <2>1, <4>2 DEF AccountsInv, AccountsType
      <4>4. QED
        BY <2>4, <4>1, <4>3 DEF AccountsInv, UseExtends
    <3>3. QED
      BY <3>1, <3>2
  <2>5. QED
    BY <2>2, <2>3, <2>4 DEF AccountsInv, UseExtends
<1>4. CASE UNCHANGED <<expires, token, cookieEnds, lastUse>>
  BY <1>1, <1>4 DEF AccountsInv, AccountsType, OwnTokens, UseExtends
<1>5. QED
  BY <1>1, <1>3, <1>4

LEMMA StepUse ==
  ASSUME AccountsInv, NEW c \in Clients, Use(c)
  PROVE  AccountsInv'
<1> DEFINE t == token[c]
<1>1. t \in SignIns /\ t # None /\ expires[t] \in Nat
  BY NoneIsNoNumber DEF Use, Authorised, Sent, AccountsInv, AccountsType
<1> DEFINE n == IF expires[t] < day + Lifetime THEN day + Lifetime ELSE expires[t]
<1>2. /\ n \in Nat /\ n >= expires[t] /\ n >= day + Lifetime
      /\ expires' = [expires EXCEPT ![t] = n]
  <2>1. day \in Nat /\ Lifetime \in Nat
    BY NoneIsNoNumber DEF AccountsInv, AccountsType
  <2>2. expires' = [expires EXCEPT ![t] = n]
    BY DEF Use
  <2>3. QED
    BY <1>1, <2>1, <2>2
<1> HIDE DEF n
<1>3. lastUse' = [lastUse EXCEPT ![c] = day]
        /\ UNCHANGED <<day, started, client, pending, token, cookieEnds>>
  BY DEF Use
<1>4. AccountsType'
  BY <1>2, <1>3 DEF AccountsInv, AccountsType
<1>5. OwnTokens'
  BY <1>3 DEF AccountsInv, OwnTokens
<1>6. ASSUME NEW d \in Clients, lastUse'[d] # None
      PROVE  /\ token'[d] # None /\ expires'[token'[d]] # None
             /\ expires'[token'[d]] >= lastUse'[d] + Lifetime
  <2>1. CASE d = c
    BY <1>1, <1>2, <1>3, <2>1, NoneIsNoNumber DEF AccountsInv, AccountsType
  <2>2. CASE d # c
    <3>1. token'[d] = token[d] /\ lastUse'[d] = lastUse[d]
      BY <1>3, <2>2 DEF AccountsInv, AccountsType
    <3>2. token[d] # None /\ token[d] # t
      BY <1>1, <1>6, <2>2, <3>1 DEF AccountsInv, OwnTokens, UseExtends
    <3>3. expires'[token[d]] = expires[token[d]]
      BY <1>2, <3>2 DEF AccountsInv, AccountsType
    <3>4. QED
      BY <1>6, <3>1, <3>3 DEF AccountsInv, UseExtends
  <2>3. QED
    BY <2>1, <2>2
<1>7. QED
  BY <1>4, <1>5, <1>6 DEF AccountsInv, UseExtends

LEMMA StepSignOut ==
  ASSUME AccountsInv, NEW c \in Clients, SignOut(c)
  PROVE  AccountsInv'
<1> DEFINE t == token[c]
<1>1. /\ t \in SignIns /\ t # None
      /\ expires' = [expires EXCEPT ![t] = None]
      /\ token' = [token EXCEPT ![c] = None]
      /\ lastUse' = [lastUse EXCEPT ![c] = None]
      /\ UNCHANGED <<day, started, client, pending, cookieEnds>>
  BY NoneIsNoNumber DEF SignOut, Sent, AccountsInv, AccountsType
<1>2. AccountsType'
  BY <1>1 DEF AccountsInv, AccountsType
<1>3. OwnTokens'
  BY <1>1 DEF AccountsInv, AccountsType, OwnTokens
<1>4. ASSUME NEW d \in Clients, lastUse'[d] # None
      PROVE  /\ token'[d] # None /\ expires'[token'[d]] # None
             /\ expires'[token'[d]] >= lastUse'[d] + Lifetime
  <2>1. d # c /\ token'[d] = token[d] /\ lastUse'[d] = lastUse[d]
    BY <1>1, <1>4 DEF AccountsInv, AccountsType
  <2>2. token[d] # None /\ token[d] # t
    BY <1>1, <1>4, <2>1 DEF AccountsInv, OwnTokens, UseExtends
  <2>3. expires'[token[d]] = expires[token[d]]
    BY <1>1, <2>2 DEF AccountsInv, AccountsType
  <2>4. QED
    BY <1>4, <2>1, <2>3 DEF AccountsInv, UseExtends
<1>5. QED
  BY <1>2, <1>3, <1>4 DEF AccountsInv, UseExtends

LEMMA AccountsStep ==
  ASSUME AccountsInv, [AccountsNext]_accountVars
  PROVE  AccountsInv'
<1>1. CASE DaysPass
  BY <1>1 DEF DaysPass, AccountsInv, AccountsType, OwnTokens, UseExtends
<1>2. CASE UNCHANGED accountVars
  BY <1>2 DEF accountVars, AccountsInv, AccountsType, OwnTokens, UseExtends
<1>3. QED
  BY <1>1, <1>2, StepStartSignIn, StepUse, StepSignOut, StepCallback DEF AccountsNext

\* Whatever the user's other clients do, who was used within a session's lifetime
\* is signed in (session.ts:26-58, docs/accounts.md:28).
THEOREM ActiveClientsStay == Spec => []ActiveStaysSignedIn
<1>1. Init => AccountsInv
  BY NoneIsNoNumber DEF Init, AccountsInit, AccountsInv, AccountsType, OwnTokens, UseExtends
<1>2. AccountsInv /\ [Next]_<<part, weeklyVars, imageVars, accountVars, driftVars>> => AccountsInv'
  BY StepsOfParts, AccountsStep
<1>3. AccountsInv => ActiveStaysSignedIn
  <2>1. SUFFICES ASSUME AccountsInv, NEW c \in Clients, lastUse[c] # None,
                        day < lastUse[c] + Lifetime, c \in Websites => day < cookieEnds[c]
                 PROVE  Authorised(c)
    BY DEF ActiveStaysSignedIn
  <2>2. Sent(c) = token[c]
    BY <2>1 DEF Sent, AccountsInv, AccountsType
  <2>3. token[c] # None /\ token[c] \in SignIns /\ expires[token[c]] \in Nat
          /\ expires[token[c]] >= lastUse[c] + Lifetime /\ expires[token[c]] # None
          /\ lastUse[c] \in Nat /\ day \in Nat
    BY <2>1 DEF AccountsInv, AccountsType, UseExtends
  <2>4. expires[token[c]] > day
    BY <2>1, <2>3, NoneIsNoNumber
  <2>5. QED
    BY <2>2, <2>3, <2>4 DEF Authorised
<1>4. QED
  BY <1>1, <1>2, <1>3, PTL DEF Spec

-----------------------------------------------------------------------------
(* The weekly post. *)

Row == [event : Nat, seen : Nat]
Jobs == [at : {"idle", "render", "send", "record"}, week : Weeks, card : SUBSET Row]

WeeklyType ==
  /\ clock \in 0..WeekEnd
  /\ periods \subseteq Weeks
  /\ rows \subseteq Row
  /\ sent \in [Weeks -> Nat]
  /\ cards \subseteq [week : Weeks, rows : SUBSET Row]
  /\ job \in [Publishers -> Jobs]

Holds(w, k) == job[w].at # "idle" /\ job[w].week = k

\* Of a week that is not in doubt one process at most is on its way to show it; it
\* has not been shown before, and when it has, its row follows or is there.
ShownOnce ==
  \A k \in Weeks \ doubtful :
    /\ \A v, w \in Publishers : Holds(v, k) /\ Holds(w, k) => v = w
    /\ sent[k] <= 1
    /\ sent[k] > 0 => k \in posts \/ \E w \in Publishers : Holds(w, k) /\ job[w].at = "record"
    /\ \A w \in Publishers : Holds(w, k) /\ job[w].at \in {"render", "send"} => sent[k] = 0

\* What is rendered was settled when it was decided.
Settled(k) == clock >= EndOf(k) + Settle
Final(k, card) == \A e \in RowsOf(k) : e.seen < EndOf(k) + Settle => e \in card

RenderedLate ==
  /\ \A w \in Publishers : job[w].at \in {"render", "send"} => Settled(job[w].week)
  /\ \A w \in Publishers : job[w].at = "send" => Final(job[w].week, job[w].card)
  /\ \A c \in cards : Settled(c.week) /\ Final(c.week, c.rows)

WeeklyInv == WeeklyType /\ ShownOnce /\ RenderedLate

\* Numbers below a bound have a greatest one.
LEMMA GreatestExists ==
  ASSUME NEW S, S # {}, NEW N \in Int, S \subseteq 0..N
  PROVE  \E k \in S : \A l \in S : l <= k
<1> DEFINE Above(k) == {l \in S : l > k}
           T == {Above(k) : k \in S}
           R == StrictSubsetOrdering(S)
<1>1. IsFiniteSet(S)
  <2>1. IsFiniteSet(0..N) /\ S \in SUBSET (0..N)
    BY FS_Interval
  <2>2. QED
    BY <2>1, FS_Subset
<1>2. T \subseteq SUBSET S /\ T # {}
  OBVIOUS
<1>3. IsWellFoundedOn(R, SUBSET S)
  BY <1>1, FS_FiniteSubsetsOfFinite, FS_StrictSubsetOrderingWellFounded
<1>4. \E U \in T : \A V \in T : ~(<<V, U>> \in R)
  <2> HIDE DEF T, R
  <2>1. QED
    BY <1>2, <1>3, WFMin
<1>5. PICK k \in S : \A V \in T : ~(<<V, Above(k)>> \in R)
  BY <1>4
<1>6. ASSUME NEW l \in S, l > k  PROVE FALSE
  <2>1. Above(l) \in T /\ Above(l) \subseteq S /\ Above(k) \subseteq S
    OBVIOUS
  <2>2. Above(l) \subseteq Above(k)
    <3>1. ASSUME NEW m \in S, m > l  PROVE m > k
      <4>1. m \in Int /\ l \in Int /\ k \in Int
        OBVIOUS
      <4>2. QED
        BY <1>6, <3>1, <4>1
    <3>2. QED
      BY <3>1
  <2>3. Above(l) # Above(k)
    <3>1. l \in Int /\ ~(l > l)
      OBVIOUS
    <3>2. l \in Above(k)
      BY <1>6
    <3>3. l \notin Above(l)
      BY <3>1
    <3>4. QED
      BY <3>2, <3>3
  <2>4. <<Above(l), Above(k)>> \in R
    BY <2>1, <2>2, <2>3 DEF StrictSubsetOrdering
  <2>5. QED
    BY <1>5, <2>1, <2>4
<1>7. QED
  BY <1>6

LEMMA WeeksAreNumbers ==
  /\ WeekLength \in Nat /\ WeekLength > 0 /\ Settle \in Nat /\ Weeks \subseteq Nat
  /\ \E N \in Int : Weeks = 0..N /\ 0 \in Weeks
<1>1. WeekEnd \in Nat /\ WeekLength \in Nat /\ WeekLength > 0 /\ Settle \in Nat
  BY WeeklyAssumption
<1>2. WeekEnd \div WeekLength \in Nat
  BY <1>1
<1>3. Weeks = 0..(WeekEnd \div WeekLength)
  BY DEF Weeks
<1>4. QED
  BY <1>1, <1>2, <1>3

\* The week that is due is one of the weeks, and began before the running one.
LEMMA DueIsSettled ==
  ASSUME WeeklyInv, Due
  PROVE  Previous \in Weeks /\ Settled(Previous) /\ Previous \notin posts
<1>1. PICK N \in Int : Weeks = 0..N
  BY WeeksAreNumbers
<1>2. IsFiniteSet(periods) /\ Cardinality(periods) >= 2
  <2>1. IsFiniteSet(0..N) /\ periods \in SUBSET (0..N)
    BY <1>1, FS_Interval DEF WeeklyInv, WeeklyType
  <2>2. QED
    BY <2>1, FS_Subset DEF Due
<1>3. periods # {}
  BY <1>2, FS_EmptySet
<1>4. Running \in periods /\ \A l \in periods : l <= Running
  <2>1. \E k \in periods : \A l \in periods : l <= k
    BY <1>1, <1>3, GreatestExists DEF WeeklyInv, WeeklyType
  <2>2. QED
    BY <2>1 DEF Running, Newest
<1>5. periods \ {Running} # {}
  <2>1. SUFFICES ASSUME periods = {Running}  PROVE FALSE
    BY <1>4
  <2>2. Cardinality(periods) = 1
    BY <2>1, FS_Singleton
  <2>3. QED
    BY <1>2, <2>2
<1>6. Previous \in periods /\ Previous # Running
  <2>1. \E k \in periods \ {Running} : \A l \in periods \ {Running} : l <= k
    BY <1>1, <1>5, GreatestExists DEF WeeklyInv, WeeklyType
  <2>2. QED
    BY <2>1 DEF Previous, Newest
<1>7. Previous \in Nat /\ Running \in Nat /\ Previous + 1 <= Running
  BY <1>4, <1>6, WeeksAreNumbers DEF WeeklyInv, WeeklyType
<1>8. (Previous + 1) * WeekLength <= Running * WeekLength
  BY <1>7, WeeksAreNumbers
<1>9. clock >= Running * WeekLength + Settle
  <2>1. clock - Running * WeekLength >= Settle /\ clock \in Nat
    BY DEF Due, StartOf, WeeklyInv, WeeklyType
  <2>2. Running * WeekLength \in Nat
    BY <1>7, WeeksAreNumbers
  <2>3. QED
    BY <2>1, <2>2, WeeksAreNumbers
<1>10. Settled(Previous)
  <2>1. (Previous + 1) * WeekLength \in Nat /\ Running * WeekLength \in Nat
    BY <1>7, WeeksAreNumbers
  <2> DEFINE a == (Previous + 1) * WeekLength
             b == Running * WeekLength
  <2>2. a <= b /\ clock >= b + Settle /\ a \in Nat /\ b \in Nat /\ clock \in Nat
    BY <1>8, <1>9, <2>1 DEF WeeklyInv, WeeklyType
  <2>3. clock >= a + Settle
    <3> HIDE DEF a, b
    <3>1. QED
      BY <2>2, WeeksAreNumbers
  <2>4. QED
    BY <2>3 DEF Settled, EndOf
<1>11. QED
  BY <1>6, <1>10 DEF WeeklyInv, WeeklyType, Due

LEMMA RestingJob ==
  NoJob \in Jobs /\ NoJob.at = "idle"
BY WeeksAreNumbers DEF NoJob, Jobs

LEMMA StepDecide ==
  ASSUME WeeklyInv, NEW w \in Publishers, Decide(w)
  PROVE  WeeklyInv'
<1> USE DEF WeeklyInv
<1>1. PICK p \in Weeks : p = Previous /\ Settled(p) /\ job[w].at = "idle" /\ p \notin posts
  BY DueIsSettled DEF Decide
<1> DEFINE j == [NoJob EXCEPT !.at = "render", !.week = p]
<1>2. /\ job' = [job EXCEPT ![w] = j]
      /\ doubtful' = IF \E v \in Publishers : Holds(v, p) THEN doubtful \cup {p} ELSE doubtful
      /\ UNCHANGED <<clock, periods, rows, posts, cards, sent, mishaps>>
  BY <1>1 DEF Decide, Holds
<1>3. j \in Jobs /\ j.at = "render" /\ j.week = p
  BY <1>1, RestingJob DEF Jobs
<1> HIDE DEF j
<1>4. /\ job'[w] = j /\ j.at = "render" /\ j.week = p
      /\ \A v \in Publishers \ {w} : job'[v] = job[v]
  BY <1>2, <1>3 DEF WeeklyType
<1>5. WeeklyType'
  BY <1>2, <1>3 DEF WeeklyType
<1>6. ShownOnce'
  <2>1. ASSUME NEW k \in Weeks \ doubtful', k # p
        PROVE  \A v \in Publishers : /\ Holds(v, k)' <=> Holds(v, k)
                                     /\ Holds(v, k) => job'[v] = job[v]
    BY <1>1, <1>4, <2>1 DEF Holds
  <2>2. ASSUME p \notin doubtful'
        PROVE  /\ p \notin doubtful /\ sent[p] = 0
               /\ \A v \in Publishers : ~Holds(v, p)
    BY <1>1, <1>2, <2>2 DEF ShownOnce, WeeklyType
  <2>3. ASSUME p \notin doubtful'
        PROVE  \A v \in Publishers : Holds(v, p)' => v = w
    BY <1>4, <2>2, <2>3 DEF Holds
  <2>4. SUFFICES ASSUME NEW k \in Weeks \ doubtful'
        PROVE  /\ \A u, v \in Publishers : Holds(u, k)' /\ Holds(v, k)' => u = v
               /\ sent'[k] <= 1
               /\ sent'[k] > 0 => \/ k \in posts'
                                  \/ \E v \in Publishers : Holds(v, k)' /\ job'[v].at = "record"
               /\ \A v \in Publishers :
                    Holds(v, k)' /\ job'[v].at \in {"render", "send"} => sent'[k] = 0
    BY DEF ShownOnce
  <2>5. CASE k = p
    BY <1>2, <2>2, <2>3, <2>4, <2>5
  <2>6. CASE k # p
    BY <1>2, <2>1, <2>4, <2>6 DEF ShownOnce
  <2>7. QED
    BY <2>5, <2>6
<1>7. RenderedLate'
  BY <1>1, <1>2, <1>4 DEF RenderedLate, Settled, Final, RowsOf
<1>8. QED
  BY <1>5, <1>6, <1>7

\* A process that moves on with its week, or lets go of it.
LEMMA JobChanges ==
  ASSUME WeeklyInv, NEW w \in Publishers,
         NEW j \in Jobs,
         job' = [job EXCEPT ![w] = j]
  PROVE  /\ job' \in [Publishers -> Jobs]
         /\ job'[w] = j
         /\ \A v \in Publishers \ {w} : job'[v] = job[v]
BY DEF WeeklyInv, WeeklyType

LEMMA StepRender ==
  ASSUME WeeklyInv, NEW w \in Publishers, Render(w)
  PROVE  WeeklyInv'
<1> USE DEF WeeklyInv
<1> DEFINE j == [job[w] EXCEPT !.at = "send", !.card = RowsOf(job[w].week)]
<1>1. job[w] \in Jobs
        /\ RowsOf(job[w].week) \subseteq Row
  BY DEF WeeklyType, RowsOf
<1>2. /\ j \in Jobs
      /\ j.at = "send" /\ j.week = job[w].week /\ j.card = RowsOf(job[w].week)
  BY <1>1 DEF Jobs
<1>3. /\ job[w].at = "render" /\ job' = [job EXCEPT ![w] = j]
      /\ UNCHANGED <<clock, periods, rows, posts, cards, sent, mishaps, doubtful>>
  BY DEF Render
<1> HIDE DEF j
<1>4. /\ job' \in [Publishers -> Jobs]
      /\ job'[w] = j /\ \A v \in Publishers \ {w} : job'[v] = job[v]
  BY <1>2, <1>3, JobChanges
<1>5. WeeklyType'
  BY <1>3, <1>4 DEF WeeklyType
<1>6. ShownOnce'
  <2>1. \A v \in Publishers, k \in Weeks :
          /\ Holds(v, k)' <=> Holds(v, k)
          /\ job'[v].at = "record" <=> job[v].at = "record"
          /\ job'[v].at \in {"render", "send"} <=> job[v].at \in {"render", "send"}
    BY <1>2, <1>3, <1>4 DEF Holds
  <2>2. QED
    BY <1>3, <2>1 DEF ShownOnce
<1>7. RenderedLate'
  BY <1>2, <1>3, <1>4 DEF RenderedLate, Settled, Final, RowsOf
<1>8. QED
  BY <1>5, <1>6, <1>7

\* The card is shown: its process records next, or never does and the week is in
\* doubt.
LEMMA Shown ==
  ASSUME WeeklyInv, NEW w \in Publishers, Show(w),
         NEW j \in Jobs,
         job' = [job EXCEPT ![w] = j], UNCHANGED <<clock, periods, rows, posts>>,
         \/ j.at = "record" /\ j.week = job[w].week /\ doubtful' = doubtful
         \/ j.at = "idle" /\ doubtful' = doubtful \cup {job[w].week}
  PROVE  WeeklyInv'
<1> USE DEF WeeklyInv
<1> DEFINE p == job[w].week
<1>1. /\ p \in Weeks /\ job[w].at = "send" /\ Holds(w, p)
      /\ sent' = [sent EXCEPT ![p] = @ + 1]
      /\ cards' = cards \cup {[week |-> p, rows |-> job[w].card]}
  BY DEF Show, WeeklyType, Holds, Jobs
<1> HIDE DEF p
<1>2. /\ job' \in [Publishers -> Jobs]
      /\ job'[w] = j /\ \A v \in Publishers \ {w} : job'[v] = job[v]
  BY JobChanges
<1>3. WeeklyType'
  <2>1. [week |-> p, rows |-> job[w].card] \in [week : Weeks, rows : SUBSET Row]
    BY <1>1 DEF WeeklyType, Jobs
  <2>2. QED
    BY <1>1, <1>2, <2>1 DEF WeeklyType
<1>4. ShownOnce'
  <2>1. SUFFICES ASSUME NEW k \in Weeks \ doubtful'
        PROVE  /\ \A u, v \in Publishers : Holds(u, k)' /\ Holds(v, k)' => u = v
               /\ sent'[k] <= 1
               /\ sent'[k] > 0 => \/ k \in posts'
                                  \/ \E v \in Publishers : Holds(v, k)' /\ job'[v].at = "record"
               /\ \A v \in Publishers :
                    Holds(v, k)' /\ job'[v].at \in {"render", "send"} => sent'[k] = 0
    BY DEF ShownOnce
  <2>2. k \in Weeks \ doubtful
    BY <2>1
  <2>3. \A v \in Publishers : Holds(v, k)' => Holds(v, k)
    BY <1>1, <1>2 DEF Holds, p
  <2>4. CASE k = p
    <3>1. j.at = "record" /\ j.week = p /\ sent[k] = 0 /\ sent'[k] = 1
      BY <1>1, <2>1, <2>2, <2>4 DEF ShownOnce, WeeklyType, p
    <3>2. \A v \in Publishers : Holds(v, k)' => v = w
      BY <1>1, <2>2, <2>3, <2>4 DEF ShownOnce
    <3>3. Holds(w, k)' /\ job'[w].at = "record"
      BY <1>2, <2>4, <3>1 DEF Holds
    <3>4. QED
      BY <3>1, <3>2, <3>3
  <2>5. CASE k # p
    <3>1. sent'[k] = sent[k]
      BY <1>1, <2>5 DEF WeeklyType
    <3>2. \A v \in Publishers : Holds(v, k) => v # w /\ job'[v] = job[v]
      BY <1>1, <1>2, <2>5 DEF Holds, p
    <3>3. \A v \in Publishers : Holds(v, k)' <=> Holds(v, k)
      BY <2>3, <3>2 DEF Holds
    <3>4. QED
      BY <2>2, <3>1, <3>2, <3>3 DEF ShownOnce
  <2>6. QED
    BY <2>4, <2>5
<1>5. RenderedLate'
  <2>1. Settled(p) /\ Final(p, job[w].card)
    BY <1>1 DEF RenderedLate, p
  <2>2. \A k, c : (Settled(k) => Settled(k)') /\ (Final(k, c) => Final(k, c)')
    BY DEF Settled, Final, RowsOf
  <2>3. \A c \in cards' : Settled(c.week)' /\ Final(c.week, c.rows)'
    BY <1>1, <2>1, <2>2 DEF RenderedLate
  <2>4. \A v \in Publishers : job'[v].at \in {"render", "send"} => v # w /\ job'[v] = job[v]
    BY <1>2
  <2>5. QED
    BY <2>2, <2>3, <2>4 DEF RenderedLate
<1>6. QED
  BY <1>3, <1>4, <1>5

LEMMA StepSend ==
  ASSUME WeeklyInv, NEW w \in Publishers, Send(w)
  PROVE  WeeklyInv'
<1> DEFINE j == [job[w] EXCEPT !.at = "record"]
<1>1. j \in Jobs
        /\ j.at = "record" /\ j.week = job[w].week
  BY DEF WeeklyInv, WeeklyType, Jobs
<1>2. Show(w) /\ job' = [job EXCEPT ![w] = j]
        /\ UNCHANGED <<clock, periods, rows, posts, doubtful>>
  BY DEF Send
<1> HIDE DEF j
<1>3. QED
  BY <1>1, <1>2, Shown

LEMMA StepAnswerVanishes ==
  ASSUME WeeklyInv, NEW w \in Publishers, AnswerVanishes(w)
  PROVE  WeeklyInv'
BY RestingJob, Shown DEF AnswerVanishes

\* A process that lets go of its week: its row is there, or the week was not shown,
\* or it is in doubt.
LEMMA LetsGo ==
  ASSUME WeeklyInv, NEW w \in Publishers, job' = [job EXCEPT ![w] = NoJob],
         UNCHANGED <<clock, periods, rows, cards, sent>>,
         posts \subseteq posts', doubtful \subseteq doubtful',
         job[w].at = "record" => job[w].week \in posts' \cup doubtful'
  PROVE  WeeklyInv'
<1> USE DEF WeeklyInv
<1>1. /\ job' \in [Publishers -> Jobs]
      /\ job'[w] = NoJob /\ \A v \in Publishers \ {w} : job'[v] = job[v]
  BY RestingJob, JobChanges
<1>2. WeeklyType'
  BY <1>1 DEF WeeklyType
<1>3. ShownOnce'
  <2>1. SUFFICES ASSUME NEW k \in Weeks \ doubtful'
        PROVE  /\ \A u, v \in Publishers : Holds(u, k)' /\ Holds(v, k)' => u = v
               /\ sent'[k] <= 1
               /\ sent'[k] > 0 => \/ k \in posts'
                                  \/ \E v \in Publishers : Holds(v, k)' /\ job'[v].at = "record"
               /\ \A v \in Publishers :
                    Holds(v, k)' /\ job'[v].at \in {"render", "send"} => sent'[k] = 0
    BY DEF ShownOnce
  <2>2. k \in Weeks \ doubtful
    BY <2>1
  <2>3. \A v \in Publishers : Holds(v, k)' => Holds(v, k) /\ v # w /\ job'[v] = job[v]
    BY <1>1, RestingJob DEF Holds
  <2>4. \A v \in Publishers : Holds(v, k) /\ v # w => Holds(v, k)' /\ job'[v] = job[v]
    BY <1>1 DEF Holds
  <2>5. sent'[k] > 0 => k \in posts' \/ \E v \in Publishers : Holds(v, k)' /\ job'[v].at = "record"
    BY <2>1, <2>2, <2>4 DEF ShownOnce, Holds
  <2>6. QED
    BY <2>2, <2>3, <2>5 DEF ShownOnce
<1>4. RenderedLate'
  <2>1. \A k, c : (Settled(k) => Settled(k)') /\ (Final(k, c) => Final(k, c)')
    BY DEF Settled, Final, RowsOf
  <2>2. \A v \in Publishers : job'[v].at \in {"render", "send"} => job'[v] = job[v]
    BY <1>1, RestingJob
  <2>3. QED
    BY <2>1, <2>2 DEF RenderedLate
<1>5. QED
  BY <1>2, <1>3, <1>4

LEMMA StepRecord ==
  ASSUME WeeklyInv, NEW w \in Publishers, Record(w)
  PROVE  WeeklyInv'
<1>1. /\ job' = [job EXCEPT ![w] = NoJob] /\ posts' = posts \cup {job[w].week}
      /\ UNCHANGED <<clock, periods, rows, cards, sent, doubtful>>
  BY DEF Record
<1>2. QED
  BY <1>1, LetsGo

LEMMA StepGivesUp ==
  ASSUME WeeklyInv, NEW w \in Publishers, GivesUp(w)
  PROVE  WeeklyInv'
<1>1. /\ job' = [job EXCEPT ![w] = NoJob]
      /\ doubtful' = IF job[w].at = "record" THEN doubtful \cup {job[w].week} ELSE doubtful
      /\ UNCHANGED <<clock, periods, rows, posts, cards, sent>>
  BY DEF GivesUp
<1>2. QED
  BY <1>1, LetsGo

\* What is archived now was not seen before a week settled.
LEMMA StepArchiveRow ==
  ASSUME WeeklyInv, ArchiveRow
  PROVE  WeeklyInv'
<1> USE DEF WeeklyInv
<1>1. PICK t \in 0..clock : rows' = rows \cup {[event |-> t, seen |-> clock]}
  BY DEF ArchiveRow
<1>2. UNCHANGED <<clock, periods, posts, cards, sent, job, mishaps, doubtful>>
  BY DEF ArchiveRow
<1>3. [event |-> t, seen |-> clock] \in Row
  BY DEF Row, WeeklyType
<1>4. WeeklyType'
  BY <1>1, <1>2, <1>3 DEF WeeklyType
<1>5. ShownOnce'
  BY <1>2 DEF ShownOnce, Holds
<1>6. ASSUME NEW k \in Weeks, NEW card, Settled(k), Final(k, card)
      PROVE  Settled(k)' /\ Final(k, card)'
  <2>1. Settled(k)'
    BY <1>2, <1>6 DEF Settled, EndOf
  <2>2. ASSUME NEW e \in RowsOf(k)', e.seen < EndOf(k) + Settle  PROVE e \in card
    <3>1. CASE e \in rows
      BY <1>6, <2>2, <3>1 DEF Final, RowsOf
    <3>2. CASE e = [event |-> t, seen |-> clock]
      <4>1. e.seen = clock /\ clock \in Nat /\ k \in Nat
        BY <3>2, WeeksAreNumbers DEF WeeklyType
      <4>2. (k + 1) * WeekLength \in Nat
        BY <4>1, WeeksAreNumbers
      <4>3. EndOf(k) + Settle \in Nat
        BY <4>2, WeeksAreNumbers DEF EndOf
      <4>4. QED
        BY <1>6, <2>2, <4>1, <4>3 DEF Settled
    <3>3. QED
      BY <1>1, <2>2, <3>1, <3>2 DEF RowsOf
  <2>3. QED
    BY <2>1, <2>2 DEF Final
<1>7. RenderedLate'
  <2>1. \A v \in Publishers : job[v].week \in Weeks
    BY DEF WeeklyType, Jobs
  <2>2. \A c \in cards : c.week \in Weeks
    BY DEF WeeklyType
  <2>3. \A k : Settled(k)' = Settled(k)
    BY <1>2 DEF Settled, EndOf
  <2>4. QED
    BY <1>2, <1>6, <2>1, <2>2, <2>3 DEF RenderedLate
<1>8. QED
  BY <1>4, <1>5, <1>7

\* A week that has a row has begun, and so lies within the weeks that are followed.
LEMMA StepArchivePeriod ==
  ASSUME WeeklyInv, ArchivePeriod
  PROVE  WeeklyInv'
<1> USE DEF WeeklyInv
<1>1. PICK k \in 0..(clock \div WeekLength) : periods' = periods \cup {k}
  BY DEF ArchivePeriod
<1>2. UNCHANGED <<clock, rows, posts, cards, sent, job, mishaps, doubtful>>
  BY DEF ArchivePeriod
<1>3. k \in Weeks
  <2> DEFINE a == clock \div WeekLength
             b == WeekEnd \div WeekLength
  <2>1. clock \in Nat /\ WeekEnd \in Nat /\ clock <= WeekEnd
        /\ WeekLength \in Nat /\ WeekLength > 0
    BY WeeklyAssumption DEF WeeklyType
  <2>2. a \in Nat /\ b \in Nat
    BY <2>1
  <2>3. a * WeekLength <= clock /\ WeekEnd < (b + 1) * WeekLength
    BY <2>1
  <2>4. a * WeekLength < (b + 1) * WeekLength
    <3>1. a * WeekLength \in Nat /\ (b + 1) * WeekLength \in Nat
      BY <2>1, <2>2
    <3> HIDE DEF a, b
    <3>2. QED
      BY <2>1, <2>3, <3>1
  <2>5. a < b + 1
    <3> HIDE DEF a, b
    <3>1. SUFFICES ASSUME b + 1 <= a  PROVE FALSE
      BY <2>2
    <3>2. (b + 1) * WeekLength <= a * WeekLength
      BY <2>1, <2>2, <3>1
    <3>3. a * WeekLength \in Nat /\ (b + 1) * WeekLength \in Nat
      BY <2>1, <2>2
    <3>4. QED
      BY <2>4, <3>2, <3>3
  <2>6. k \in 0..a
    BY <1>1
  <2>7. k \in 0..b
    <3> HIDE DEF a, b
    <3>1. QED
      BY <2>2, <2>5, <2>6
  <2>8. QED
    BY <2>7 DEF Weeks
<1>4. WeeklyType'
  BY <1>1, <1>2, <1>3 DEF WeeklyType
<1>5. ShownOnce'
  BY <1>2 DEF ShownOnce, Holds
<1>6. RenderedLate'
  BY <1>2 DEF RenderedLate, Settled, Final, RowsOf
<1>7. QED
  BY <1>4, <1>5, <1>6

\* A week that has settled stays so.
LEMMA StepHoursPass ==
  ASSUME WeeklyInv, HoursPass
  PROVE  WeeklyInv'
<1> USE DEF WeeklyInv
<1>1. /\ clock < WeekEnd /\ clock' = clock + 1
      /\ UNCHANGED <<periods, rows, posts, cards, sent, job, mishaps, doubtful>>
  BY DEF HoursPass
<1>2. WeeklyType'
  BY <1>1, WeeklyAssumption DEF WeeklyType
<1>3. ShownOnce'
  BY <1>1 DEF ShownOnce, Holds
<1>4. ASSUME NEW k \in Weeks, Settled(k)  PROVE Settled(k)'
  <2>1. k \in Nat /\ clock \in Nat
    BY WeeksAreNumbers DEF WeeklyType
  <2>2. (k + 1) * WeekLength \in Nat
    BY <2>1, WeeksAreNumbers
  <2>3. EndOf(k) + Settle \in Nat
    BY <2>2, WeeksAreNumbers DEF EndOf
  <2>4. clock + 1 >= EndOf(k) + Settle
    BY <1>4, <2>1, <2>3 DEF Settled
  <2>5. QED
    BY <1>1, <2>4 DEF Settled, EndOf
<1>5. RenderedLate'
  <2>1. \A v \in Publishers : job[v].week \in Weeks
    BY DEF WeeklyType, Jobs
  <2>2. \A c \in cards : c.week \in Weeks
    BY DEF WeeklyType
  <2>3. \A k, card : Final(k, card)' = Final(k, card)
    BY <1>1 DEF Final, RowsOf, StartOf, EndOf
  <2>4. QED
    BY <1>1, <1>4, <2>1, <2>2, <2>3 DEF RenderedLate
<1>6. QED
  BY <1>2, <1>3, <1>5

LEMMA WeeklyStep ==
  ASSUME WeeklyInv, [WeeklyNext]_weeklyVars
  PROVE  WeeklyInv'
<1>1. ASSUME NEW w \in Publishers, Publisher(w)  PROVE WeeklyInv'
  BY <1>1, StepDecide, StepRender, StepSend, StepRecord, StepAnswerVanishes, StepGivesUp
     DEF Publisher
<1>2. CASE UNCHANGED weeklyVars
  <2> USE <1>2 DEF weeklyVars
  <2>1. WeeklyType' /\ ShownOnce' /\ RenderedLate'
    BY DEF WeeklyInv, WeeklyType, ShownOnce, Holds, RenderedLate, Settled, Final, RowsOf
  <2>2. QED
    BY <2>1 DEF WeeklyInv
<1>3. QED
  BY <1>1, <1>2, StepArchiveRow, StepArchivePeriod, StepHoursPass DEF WeeklyNext

LEMMA WeeklyBegins == WeeklyInit => WeeklyInv
<1> SUFFICES ASSUME WeeklyInit  PROVE WeeklyInv
  OBVIOUS
<1>1. WeeklyType
  BY RestingJob, WeeklyAssumption DEF WeeklyInit, WeeklyType
<1>2. \A w \in Publishers : job[w].at = "idle"
  BY RestingJob DEF WeeklyInit
<1>3. ShownOnce
  BY <1>2 DEF WeeklyInit, ShownOnce, Holds
<1>4. RenderedLate
  BY <1>2 DEF WeeklyInit, RenderedLate
<1>5. QED
  BY <1>1, <1>3, <1>4 DEF WeeklyInv

\* A week is posted twice only if a process that had posted it never recorded it,
\* or a second one had decided for it before the first did: nothing else, no late
\* archive and no failed render, makes decideWeeklyPost choose it again
\* (weekly-post.ts:44-78).
THEOREM PostsRepeatOnlyInDoubt == Spec => []RepeatedOnlyInDoubt
<1>1. Init => WeeklyInv
  BY WeeklyBegins DEF Init
<1>2. WeeklyInv /\ [Next]_<<part, weeklyVars, imageVars, accountVars, driftVars>> => WeeklyInv'
  BY StepsOfParts, WeeklyStep
<1>3. WeeklyInv => RepeatedOnlyInDoubt
  <2>1. SUFFICES ASSUME WeeklyInv, NEW k \in Weeks, sent[k] > 1  PROVE k \in doubtful
    BY DEF RepeatedOnlyInDoubt
  <2>2. sent[k] \in Nat /\ ~(sent[k] <= 1)
    BY <2>1 DEF WeeklyInv, WeeklyType
  <2>3. QED
    BY <2>1, <2>2 DEF WeeklyInv, ShownOnce
<1>4. QED
  BY <1>1, <1>2, <1>3, PTL DEF Spec

\* Every card shows whatever was archived before its week had settled, also when a
\* week between has no row, and when the render or the post comes late
\* (weekly-post.ts:21-78).
THEOREM PostsAreSettled == Spec => []CardsAreSettled
<1>1. Init => WeeklyInv
  BY WeeklyBegins DEF Init
<1>2. WeeklyInv /\ [Next]_<<part, weeklyVars, imageVars, accountVars, driftVars>> => WeeklyInv'
  BY StepsOfParts, WeeklyStep
<1>3. WeeklyInv => CardsAreSettled
  BY DEF WeeklyInv, RenderedLate, Final, CardsAreSettled
<1>4. QED
  BY <1>1, <1>2, <1>3, PTL DEF Spec

-----------------------------------------------------------------------------
(* The types of all four. *)

Entry == [panel : Panels, expires : Nat]

\* Each panel has one place in the Map.
OnePlace(map) == \A i, j \in DOMAIN map : map[i].panel = map[j].panel => i = j

\* The places that are kept, numbered by how many of them reach up to each.
LEMMA Ranks ==
  ASSUME NEW N \in Nat, NEW I, I \subseteq 1..N
  PROVE  /\ IsFiniteSet(I) /\ Cardinality(I) \in 0..N
         /\ \A n \in 1..Cardinality(I) : \E i \in I : Cardinality({j \in I : j <= i}) = n
<1> DEFINE UpTo(i) == {j \in I : j <= i}
<1>1. IsFiniteSet(1..N) /\ Cardinality(1..N) = N
  BY FS_Interval
<1>2. IsFiniteSet(I) /\ Cardinality(I) <= N /\ Cardinality(I) \in Nat
  BY <1>1, FS_Subset, FS_CardinalityType
<1>3. \A i : IsFiniteSet(UpTo(i)) /\ Cardinality(UpTo(i)) \in Nat
  <2>1. \A i : UpTo(i) \in SUBSET I
    OBVIOUS
  <2> HIDE DEF UpTo
  <2> QED BY <1>2, <2>1, FS_Subset, FS_CardinalityType
<1>0. N \in Int /\ \A j \in I : j \in Int /\ 1 <= j /\ j <= N
  OBVIOUS
<1>4. ASSUME NEW n \in 1..Cardinality(I)
      PROVE  \E i \in I : Cardinality(UpTo(i)) = n
  <2> DEFINE Reach == {i \in 0..N : Cardinality(UpTo(i)) >= n}
             Below == {N - i : i \in Reach}
  <2>1. N \in Reach
    <3>1. UpTo(N) = I
      BY <1>0
    <3> QED BY <1>2, <3>1
  <2>2. Below \subseteq 0..N /\ Below # {}
    <3> HIDE DEF UpTo
    <3> QED BY <2>1
  <2>3. PICK b \in Below : \A c \in Below : c <= b
    <3>1. \E k \in Below : \A l \in Below : l <= k
      <4> HIDE DEF Below
      <4> QED BY <1>0, <2>2, GreatestExists, Zenon
    <3> QED BY <3>1
  <2>4. PICK i \in Reach : \A j \in Reach : i <= j
    <3>1. PICK i \in Reach : b = N - i
      BY <2>3
    <3>2. ASSUME NEW j \in Reach PROVE i <= j
      <4>1. N - j \in Below
        OBVIOUS
      <4>2. N - j <= N - i
        BY <2>3, <3>1, <4>1
      <4>3. i \in Int /\ j \in Int
        OBVIOUS
      <4> QED BY <4>2, <4>3
    <3> QED BY <3>2
  <2>5. i # 0
    <3>1. UpTo(0) = {}
      <4>1. \A j \in I : ~(j <= 0)
        BY <1>0
      <4> QED BY <4>1
    <3>2. Cardinality(UpTo(0)) = 0
      BY <3>1, FS_EmptySet
    <3> HIDE DEF UpTo
    <3> QED BY <1>2, <3>2
  <2>6. i - 1 \notin Reach /\ i - 1 \in 0..N /\ i \in 1..N
    <3> HIDE DEF UpTo
    <3>1. i \in 0..N
      OBVIOUS
    <3> HIDE DEF Reach
    <3> QED BY <2>4, <2>5, <3>1
  <2>7. Cardinality(UpTo(i - 1)) < n /\ Cardinality(UpTo(i)) >= n
    <3> HIDE DEF UpTo
    <3> QED BY <1>3, <2>6
  <2>8. UpTo(i) = IF i \in I THEN UpTo(i - 1) \cup {i} ELSE UpTo(i - 1)
    <3>1. \A j \in I : j <= i <=> (j <= i - 1 \/ j = i)
      BY <1>0, <2>6
    <3> QED BY <3>1
  <2>9. i \in I
    <3> HIDE DEF UpTo, Reach
    <3> QED BY <1>3, <2>7, <2>8
  <2>10. Cardinality(UpTo(i)) = Cardinality(UpTo(i - 1)) + 1
    <3>1. i \notin UpTo(i - 1)
      BY <2>6
    <3> HIDE DEF UpTo, Reach
    <3> QED BY <1>3, <2>8, <2>9, <3>1, FS_AddElement
  <2> HIDE DEF UpTo, Reach
  <2> QED BY <1>3, <2>7, <2>9, <2>10
<1> QED BY <1>2, <1>4

LEMMA KeptIsPart ==
  ASSUME NEW map, map \in Seq(Entry), OnePlace(map)
  PROVE  Kept(map) \in Seq(Entry) /\ Len(Kept(map)) <= Len(map) /\ OnePlace(Kept(map))
<1> DEFINE I == {i \in DOMAIN map : map[i].expires > now}
           At(n) == CHOOSE i \in I : Cardinality({j \in I : j <= i}) = n
           K == Cardinality(I)
<1>1. Len(map) \in Nat /\ DOMAIN map = 1..Len(map) /\ I \subseteq 1..Len(map)
  OBVIOUS
<1>2. Kept(map) = [n \in 1..K |-> map[At(n)]]
  BY DEF Kept
<1> HIDE DEF I
<1>3. /\ K \in 0..Len(map)
      /\ \A n \in 1..K : \E i \in I : Cardinality({j \in I : j <= i}) = n
  BY <1>1, Ranks
<1>4. \A n \in 1..K : At(n) \in I /\ Cardinality({j \in I : j <= At(n)}) = n
  BY <1>3
<1> HIDE DEF At, K
<1>5. ASSUME NEW n \in 1..K PROVE map[At(n)] \in Entry
  <2>1. At(n) \in 1..Len(map)
    BY <1>1, <1>4
  <2> QED BY <2>1
<1>6. Kept(map) \in Seq(Entry) /\ Len(Kept(map)) = K /\ DOMAIN Kept(map) = 1..K
  BY <1>1, <1>2, <1>3, <1>5
<1>7. ASSUME NEW m \in 1..K, NEW n \in 1..K, Kept(map)[m].panel = Kept(map)[n].panel
      PROVE  m = n
  <2>1. map[At(m)].panel = map[At(n)].panel /\ At(m) \in DOMAIN map /\ At(n) \in DOMAIN map
    BY <1>1, <1>2, <1>4, <1>7
  <2>2. At(m) = At(n)
    BY <2>1 DEF OnePlace
  <2> QED BY <1>4, <2>2
<1> QED BY <1>1, <1>3, <1>6, <1>7 DEF OnePlace

\* A render puts its panel in one place, in the Map that holds no more than it may.
LEMMA SweptIsPart ==
  ASSUME NEW k \in Panels, now \in Nat,
         cache \in Seq(Entry), Len(cache) <= MaxEntries, OnePlace(cache)
  PROVE  LET map == Swept(Entered(k))
         IN  map \in Seq(Entry) /\ Len(map) <= MaxEntries /\ OnePlace(map)
<1> DEFINE e == [panel |-> k, expires |-> now + TTL]
           map == Entered(k)
           in == \E i \in DOMAIN cache : cache[i].panel = k
<1>1. e \in Entry /\ e.panel = k /\ MaxEntries \in Nat /\ MaxEntries > 0
  BY ImagesAssumption DEF Entry
<1>2. Len(cache) \in Nat /\ DOMAIN cache = 1..Len(cache)
  OBVIOUS
<1>3. map \in Seq(Entry) /\ OnePlace(map) /\ Len(map) <= Len(cache) + 1
  <2>1. CASE in
    <3>1. map = [i \in DOMAIN cache |-> IF cache[i].panel = k THEN e ELSE cache[i]]
      BY <2>1 DEF Entered
    <3> HIDE DEF map, e
    <3>2. map \in Seq(Entry) /\ Len(map) = Len(cache) /\ DOMAIN map = DOMAIN cache
      BY <1>1, <1>2, <3>1
    <3>3. \A i \in DOMAIN map : map[i].panel = cache[i].panel
      BY <1>1, <1>2, <3>1, <3>2
    <3> QED BY <1>2, <3>2, <3>3 DEF OnePlace
  <2>2. CASE ~in
    <3>1. map = Append(cache, e)
      BY <2>2 DEF Entered
    <3> HIDE DEF map, e
    <3>2. /\ map \in Seq(Entry) /\ Len(map) = Len(cache) + 1 /\ DOMAIN map = 1..(Len(cache) + 1)
          /\ map[Len(cache) + 1] = e /\ \A i \in 1..Len(cache) : map[i] = cache[i]
      BY <1>1, <1>2, <3>1
    <3> QED BY <1>1, <1>2, <2>2, <3>2 DEF OnePlace
  <2> QED BY <2>1, <2>2
<1> HIDE DEF map, e
<1>4. CASE Len(map) <= MaxEntries
  BY <1>3, <1>4 DEF Swept, map
<1>5. CASE ~(Len(map) <= MaxEntries)
  <2>1. Len(map) \in Nat /\ Len(map) > 0
    BY <1>1, <1>3, <1>5
  <2>2. /\ Tail(map) \in Seq(Entry) /\ Len(Tail(map)) = Len(map) - 1
        /\ DOMAIN Tail(map) = 1..(Len(map) - 1)
        /\ \A i \in 1..(Len(map) - 1) : Tail(map)[i] = map[i + 1]
    BY <1>3, <2>1
  <2>3. OnePlace(Tail(map))
    <3>1. ASSUME NEW i \in 1..(Len(map) - 1), NEW j \in 1..(Len(map) - 1),
                 Tail(map)[i].panel = Tail(map)[j].panel
          PROVE  i = j
      <4>1. i + 1 \in DOMAIN map /\ j + 1 \in DOMAIN map
        BY <1>3, <2>1
      <4>2. i + 1 = j + 1
        BY <1>3, <2>2, <3>1, <4>1 DEF OnePlace
      <4> QED BY <4>2
    <3> QED BY <2>2, <3>1 DEF OnePlace
  <2>4. Swept(map) = Kept(Tail(map))
    BY <1>5 DEF Swept
  <2>5. /\ Kept(Tail(map)) \in Seq(Entry) /\ Len(Kept(Tail(map))) <= Len(Tail(map))
        /\ OnePlace(Kept(Tail(map)))
    BY <2>2, <2>3, KeptIsPart
  <2>6. Len(Kept(Tail(map))) \in Nat
    BY <2>5
  <2>7. Len(Tail(map)) <= MaxEntries
    BY <1>1, <1>2, <1>3, <2>1, <2>2
  <2>8. Len(Kept(Tail(map))) <= MaxEntries
    BY <1>1, <2>1, <2>2, <2>5, <2>6, <2>7
  <2> QED BY <2>4, <2>5, <2>8 DEF map
<1> QED BY <1>4, <1>5

ImagesTypes ==
  /\ now \in 0..MaxNow /\ failures \in 0..MaxFailures
  /\ cache \in Seq(Entry) /\ Len(cache) <= MaxEntries /\ OnePlace(cache)
  /\ rendered \subseteq Panels
  /\ paid \in [Panels -> Nat]

LEMMA ImagesTypesStep ==
  ASSUME ImagesTypes, [ImagesNext]_imageVars
  PROVE  ImagesTypes'
<1> USE ImagesAssumption DEF ImagesTypes
<1>1. ASSUME NEW k \in Panels, Launch(k) \/ RenderFails(k)  PROVE ImagesTypes'
  BY <1>1 DEF Launch, RenderFails, OnePlace
<1>2. ASSUME NEW k \in Panels, Rendered(k)  PROVE ImagesTypes'
  <2>1. /\ now' = now /\ failures' = failures /\ cache' = Swept(Entered(k))
        /\ paid' = [paid EXCEPT ![k] = now + TTL] /\ rendered' = rendered \cup {k}
    BY <1>2 DEF Rendered
  <2>2. now \in Nat /\ now + TTL \in Nat
    OBVIOUS
  <2>3. cache' \in Seq(Entry) /\ Len(cache') <= MaxEntries /\ OnePlace(cache')
    BY <2>1, <2>2, SweptIsPart
  <2> QED BY <2>1, <2>2, <2>3 DEF OnePlace
<1>3. CASE SecondsPass
  BY <1>3 DEF SecondsPass, OnePlace
<1>4. CASE UNCHANGED imageVars
  BY <1>4 DEF imageVars, OnePlace
<1> QED BY <1>1, <1>2, <1>3, <1>4 DEF ImagesNext

AccountsTypes ==
  /\ day \in 0..MaxDays
  /\ state \in [Websites -> SignIns \cup {None}]

LEMMA AccountsTypesStep ==
  ASSUME AccountsInv, AccountsTypes, [AccountsNext]_accountVars
  PROVE  AccountsTypes'
<1> USE AccountsAssumption DEF AccountsTypes
<1>1. ASSUME NEW c \in Clients, StartSignIn(c)  PROVE AccountsTypes'
  <2>1. started + 1 \in SignIns
    BY <1>1, NoneIsNoNumber DEF StartSignIn, AccountsInv, AccountsType, SignIns
  <2> QED BY <1>1, <2>1 DEF StartSignIn
<1>2. ASSUME NEW c \in Clients, Use(c) \/ SignOut(c)  PROVE AccountsTypes'
  BY <1>2 DEF Use, SignOut
<1>3. ASSUME NEW s \in SignIns, Callback(s)  PROVE AccountsTypes'
  BY <1>3 DEF Callback
<1>4. CASE DaysPass
  BY <1>4 DEF DaysPass
<1>5. CASE UNCHANGED accountVars
  BY <1>5 DEF accountVars
<1> QED BY <1>1, <1>2, <1>3, <1>4, <1>5 DEF AccountsNext

\* What is on a card, or is to be, was archived.
WeeklyTypes ==
  /\ posts \subseteq Weeks /\ doubtful \subseteq Weeks
  /\ rows \subseteq [event : 0..WeekEnd, seen : 0..WeekEnd]
  /\ \A c \in cards : c.rows \subseteq rows
  /\ \A w \in Publishers : job[w].card \subseteq rows
  /\ mishaps \in 0..MaxWeeklyFaults

\* A process's next place, with a card of what is archived.
LEMMA CardStays ==
  ASSUME WeeklyInv, WeeklyTypes, NEW w \in Publishers, NEW j \in Jobs,
         job' = [job EXCEPT ![w] = j], j.card \subseteq rows
  PROVE  \A v \in Publishers : job'[v].card \subseteq rows
<1>1. job'[w] = j /\ \A v \in Publishers \ {w} : job'[v] = job[v]
  BY JobChanges
<1> QED BY <1>1 DEF WeeklyTypes

LEMMA PublisherTypes ==
  ASSUME WeeklyInv, WeeklyTypes, NEW w \in Publishers, Publisher(w)
  PROVE  WeeklyTypes'
<1> USE DEF WeeklyTypes
<1>1. /\ job[w] \in Jobs /\ job[w].week \in Weeks /\ job[w].card \subseteq rows
      /\ NoJob \in Jobs /\ NoJob.card = {}
  BY RestingJob DEF WeeklyInv, WeeklyType, Jobs, NoJob
<1>2. rows' = rows
  BY DEF Publisher, Decide, Render, Send, Record, AnswerVanishes, GivesUp
<1>3. CASE Decide(w)
  <2> DEFINE j == [NoJob EXCEPT !.at = "render", !.week = Previous]
  <2>1. Previous \in Weeks
    BY <1>3, DueIsSettled DEF Decide
  <2>2. j \in Jobs /\ j.card \subseteq rows /\ job' = [job EXCEPT ![w] = j]
    BY <1>1, <1>3, <2>1 DEF Decide, Jobs, NoJob
  <2>3. \A v \in Publishers : job'[v].card \subseteq rows
    <3> HIDE DEF j
    <3> QED BY <2>2, CardStays
  <2>4. doubtful' \subseteq Weeks
    BY <1>3, <2>1 DEF Decide
  <2> QED BY <1>3, <2>3, <2>4 DEF Decide
<1>4. CASE Render(w)
  <2> DEFINE j == [job[w] EXCEPT !.at = "send", !.card = RowsOf(job[w].week)]
  <2>1. RowsOf(job[w].week) \subseteq rows /\ RowsOf(job[w].week) \subseteq Row
    BY DEF RowsOf, WeeklyInv, WeeklyType
  <2>2. j \in Jobs /\ j.card \subseteq rows /\ job' = [job EXCEPT ![w] = j]
    BY <1>1, <1>4, <2>1 DEF Render, Jobs
  <2>3. \A v \in Publishers : job'[v].card \subseteq rows
    <3> HIDE DEF j
    <3> QED BY <2>2, CardStays
  <2> QED BY <1>4, <2>3 DEF Render
<1>5. CASE Send(w)
  <2> DEFINE j == [job[w] EXCEPT !.at = "record"]
  <2>1. j \in Jobs /\ j.card \subseteq rows /\ job' = [job EXCEPT ![w] = j]
    BY <1>1, <1>5 DEF Send, Jobs
  <2>2. \A v \in Publishers : job'[v].card \subseteq rows
    <3> HIDE DEF j
    <3> QED BY <2>1, CardStays
  <2> QED BY <1>1, <1>5, <2>2 DEF Send, Show
<1>6. CASE Record(w)
  <2>1. \A v \in Publishers : job'[v].card \subseteq rows
    BY <1>1, <1>6, CardStays DEF Record
  <2> QED BY <1>1, <1>6, <2>1 DEF Record
<1>7. ASSUME Mishap PROVE mishaps' \in 0..MaxWeeklyFaults
  BY <1>7, WeeklyAssumption DEF Mishap
<1>8. CASE AnswerVanishes(w)
  <2>1. \A v \in Publishers : job'[v].card \subseteq rows
    BY <1>1, <1>8, CardStays DEF AnswerVanishes
  <2> QED BY <1>1, <1>7, <1>8, <2>1 DEF AnswerVanishes, Show
<1>9. CASE GivesUp(w)
  <2>1. \A v \in Publishers : job'[v].card \subseteq rows
    BY <1>1, <1>9, CardStays DEF GivesUp
  <2> QED BY <1>1, <1>7, <1>9, <2>1 DEF GivesUp
<1> QED BY <1>3, <1>4, <1>5, <1>6, <1>8, <1>9 DEF Publisher

LEMMA WeeklyTypesStep ==
  ASSUME WeeklyInv, WeeklyTypes, [WeeklyNext]_weeklyVars
  PROVE  WeeklyTypes'
<1> USE DEF WeeklyTypes
<1>1. CASE ArchiveRow
  <2>1. PICK t \in 0..clock : rows' = rows \cup {[event |-> t, seen |-> clock]}
    BY <1>1 DEF ArchiveRow
  <2>2. [event |-> t, seen |-> clock] \in [event : 0..WeekEnd, seen : 0..WeekEnd]
    BY WeeklyAssumption DEF WeeklyInv, WeeklyType
  <2>3. rows \subseteq rows'
    BY <2>1
  <2> QED BY <1>1, <2>1, <2>2, <2>3 DEF ArchiveRow
<1>2. CASE ArchivePeriod \/ HoursPass
  BY <1>2 DEF ArchivePeriod, HoursPass
<1>3. CASE UNCHANGED weeklyVars
  BY <1>3 DEF weeklyVars
<1> QED BY <1>1, <1>2, <1>3, PublisherTypes DEF WeeklyNext

\* The invariants of the parts with the types that they leave out.
ServicesInv ==
  /\ WeeklyInv /\ WeeklyTypes /\ ImagesInv /\ ImagesTypes
  /\ AccountsInv /\ AccountsTypes /\ IInv /\ DriftTypes

LEMMA ServicesStep ==
  ASSUME ServicesInv, [Next]_<<part, weeklyVars, imageVars, accountVars, driftVars>>
  PROVE  ServicesInv'
<1>1. /\ [WeeklyNext]_weeklyVars /\ [ImagesNext]_imageVars /\ [AccountsNext]_accountVars
      /\ [DriftNext]_driftVars
  BY DEF Next, Weekly, Images, SignIn, Drift
<1>2. WeeklyInv' /\ WeeklyTypes'
  BY <1>1, WeeklyStep, WeeklyTypesStep DEF ServicesInv
<1>3. ImagesInv' /\ ImagesTypes'
  BY <1>1, ImagesStep, ImagesTypesStep DEF ServicesInv
<1>4. AccountsInv' /\ AccountsTypes'
  BY <1>1, AccountsStep, AccountsTypesStep DEF ServicesInv
<1>5. IInv' /\ DriftTypes'
  BY <1>1, Inductive, DriftTypesStep DEF ServicesInv
<1> QED BY <1>2, <1>3, <1>4, <1>5 DEF ServicesInv

LEMMA ServicesBegin == Init => ServicesInv
<1> SUFFICES ASSUME WeeklyInit, ImagesInit, AccountsInit, DriftInit  PROVE ServicesInv
  BY DEF Init
<1>1. WeeklyInv /\ WeeklyTypes
  <2>1. \A w \in Publishers : job[w].card = {}
    BY DEF WeeklyInit, NoJob
  <2> QED BY <2>1, WeeklyBegins, WeeklyAssumption DEF WeeklyInit, WeeklyTypes
<1>2. ImagesInv /\ ImagesTypes
  <2>1. /\ now = 0 /\ cache = <<>> /\ failures = 0 /\ rendered = {}
        /\ paid = [k \in Panels |-> 0]
    BY DEF ImagesInit
  <2>2. ImagesTypes
    BY <2>1, ImagesAssumption DEF ImagesTypes, OnePlace
  <2> QED BY <2>2 DEF ImagesInit, ImagesInv, RendersAreShared
<1>3. AccountsInv
  BY NoneIsNoNumber DEF AccountsInit, AccountsInv, AccountsType, OwnTokens, UseExtends
<1>4. AccountsTypes
  BY AccountsAssumption DEF AccountsInit, AccountsTypes
<1> QED BY <1>1, <1>2, <1>3, <1>4, InitInv, DriftTypesInit DEF ServicesInv

LEMMA ServicesTyped == ServicesInv => TypeOK
<1> SUFFICES ASSUME ServicesInv  PROVE TypeOK
  OBVIOUS
<1>1. WeeklyTypeOK
  <2>1. \A w \in Publishers : job[w] \in Jobs
    BY DEF ServicesInv, WeeklyInv, WeeklyType
  <2>2. \A w \in Publishers : /\ job[w].at \in {"idle", "render", "send", "record"}
                              /\ job[w].week \in Weeks
    BY <2>1 DEF Jobs
  <2> QED BY <2>2 DEF ServicesInv, WeeklyInv, WeeklyType, WeeklyTypes, WeeklyTypeOK
<1>2. ImagesTypeOK
  BY DEF ServicesInv, ImagesInv, ImagesTypes, OnePlace, Entry, ImagesTypeOK
<1>3. AccountsTypeOK
  BY DEF ServicesInv, AccountsInv, AccountsType, AccountsTypes, AccountsTypeOK
<1>4. DriftTypeOK
  BY DriftTyped DEF ServicesInv
<1> QED BY <1>1, <1>2, <1>3, <1>4 DEF TypeOK

\* The overlay's Map is never above its limit and has no key twice (render.ts:121-126),
\* a session's token is of a sign-in that was started, a card shows archived rows, and
\* a shape that was compared with nothing is on file: the types of the four parts.
THEOREM ServicesAreTyped == Spec => []TypeOK
BY ServicesBegin, ServicesStep, ServicesTyped, PTL DEF Spec
=============================================================================
