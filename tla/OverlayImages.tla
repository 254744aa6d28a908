---------------------------- MODULE OverlayImages ----------------------------
(***************************************************************************)
(* The overlay as a PNG (lib/overlay/render.ts, api/overlay/image): one    *)
(* Node process renders the panel with a headless browser, keeps the       *)
(* images in a Map for a while, and lets the requests that come while a    *)
(* panel is rendered wait for the same promise.  JavaScript runs a callback*)
(* to its end, so an action is what happens between two awaits.            *)
(***************************************************************************)
EXTENDS Integers, Sequences, FiniteSets

CONSTANTS
  Panels,       \* clamped parameter sets: the keys of the Maps
  TTL,          \* TTL_MS
  MaxEntries,   \* MAX_CACHE_ENTRIES
  MaxNow,       \* bound: clock
  MaxFailures   \* bound: failing renders

ASSUME ImagesAssumption ==
  /\ TTL \in Nat \ {0} /\ MaxEntries \in Nat \ {0}
  /\ MaxNow \in Nat /\ MaxFailures \in Nat

VARIABLES
  now,
  cache,      \* __overlayPngCache in its insertion order: [panel, expires]
  inflight,   \* __overlayPngInflight: the panels whose promise is pending
  browsers,   \* how many browsers are at work on each panel
  failures,   \* the budget used
  paid,       \* history: until when the last render of a panel should serve
  rendered    \* history: the panels that were ever rendered

imageVars == <<now, cache, inflight, browsers, failures, paid, rendered>>

ImagesInit ==
  /\ now = 0
  /\ cache = <<>> /\ inflight = {} /\ rendered = {}
  /\ browsers = [k \in Panels |-> 0]
  /\ failures = 0
  /\ paid = [k \in Panels |-> 0]

-----------------------------------------------------------------------------
Hit(k) == \E i \in DOMAIN cache : cache[i].panel = k /\ cache[i].expires > now

\* A request that finds no fresh image and no promise starts a browser.  One
\* that finds an image is answered, one that finds a promise awaits it, and
\* neither changes anything.
Launch(k) ==
  /\ ~Hit(k)
  /\ k \notin inflight
  /\ inflight' = inflight \cup {k}
  /\ browsers' = [browsers EXCEPT ![k] = @ + 1]
  /\ UNCHANGED <<now, cache, failures, paid, rendered>>

\* Map.set: a key that is there keeps its place.
Entered(k) ==
  LET entry == [panel |-> k, expires |-> now + TTL]
  IN  IF \E i \in DOMAIN cache : cache[i].panel = k
      THEN [i \in DOMAIN cache |-> IF cache[i].panel = k THEN entry ELSE cache[i]]
      ELSE Append(cache, entry)

\* What has not expired, in its order: the n-th entry is the one that n of them
\* reach up to.
Kept(map) ==
  LET fresh == {i \in DOMAIN map : map[i].expires > now}
  IN  [n \in 1..Cardinality(fresh) |->
         map[CHOOSE i \in fresh : Cardinality({j \in fresh : j <= i}) = n]]

\* As a bug: the last place is never used.
SweptEarly(map) == IF Len(map) < MaxEntries THEN map ELSE Kept(Tail(map))

\* As a bug: only what has expired is dropped.
SweptExpired(map) == IF Len(map) <= MaxEntries THEN map ELSE Kept(map)

\* Above the limit the sweep drops the first key, which brings the Map back to
\* the limit, and then what has expired.
Swept(map) == IF Len(map) <= MaxEntries THEN map ELSE Kept(Tail(map))

Rendered(k) ==
  /\ browsers[k] > 0
  /\ cache' = Swept(Entered(k))
  /\ inflight' = inflight \ {k}
  /\ browsers' = [browsers EXCEPT ![k] = @ - 1]
  /\ paid' = [paid EXCEPT ![k] = now + TTL]
  /\ rendered' = rendered \cup {k}
  /\ UNCHANGED <<now, failures>>

\* As a bug: the promise is forgotten only when the image arrives.
RenderFailsHeld(k) ==
  /\ browsers[k] > 0
  /\ failures < MaxFailures
  /\ failures' = failures + 1
  /\ browsers' = [browsers EXCEPT ![k] = @ - 1]
  /\ UNCHANGED <<now, cache, inflight, paid, rendered>>

\* No browser, no page in time, no screenshot: everyone who waits gets a 503.
RenderFails(k) ==
  /\ browsers[k] > 0
  /\ failures < MaxFailures
  /\ failures' = failures + 1
  /\ inflight' = inflight \ {k}
  /\ browsers' = [browsers EXCEPT ![k] = @ - 1]
  /\ UNCHANGED <<now, cache, paid, rendered>>

SecondsPass ==
  /\ now < MaxNow
  /\ now' = now + 1
  /\ UNCHANGED <<cache, inflight, browsers, failures, paid, rendered>>

ImagesNext ==
  \/ \E k \in Panels : Launch(k) \/ Rendered(k) \/ RenderFails(k)
  \/ SecondsPass

-----------------------------------------------------------------------------
ImagesTypeOK ==
  /\ now \in 0..MaxNow
  /\ cache \in Seq([panel : Panels, expires : Nat]) /\ Len(cache) <= MaxEntries
  /\ \A i, j \in DOMAIN cache : cache[i].panel = cache[j].panel => i = j
  /\ inflight \subseteq Panels /\ rendered \subseteq Panels
  /\ browsers \in [Panels -> Nat]
  /\ failures \in 0..MaxFailures
  /\ paid \in [Panels -> Nat]

\* A pending promise has its one browser: requests for a panel never start two,
\* and none waits for a render that has ended, however it ended.
RendersAreShared ==
  \A k \in Panels : browsers[k] = IF k \in inflight THEN 1 ELSE 0

\* render.ts:8-10, "a busy stream widget or Discord unfurl costs one Chromium
\* launch per TTL, not one per request": as long as no more panels were
\* rendered than the Map holds.  Beyond that a panel may be dropped right after
\* its render, because a second render leaves its key in the old place.
OneLaunchPerTTL ==
  [][\A k \in Panels :
       Launch(k) /\ now < paid[k] => Cardinality(rendered) > MaxEntries]_imageVars
=============================================================================
