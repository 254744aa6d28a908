------------------------------ MODULE Accounts ------------------------------
(***************************************************************************)
(* Sign-in through Discord and the sessions that follow it                 *)
(* (api/auth/discord/start and callback, api/auth/logout, lib/auth).  One  *)
(* user signs in on several clients.  The website keeps the token in a     *)
(* cookie of the browser, the app in its keychain; the app's sign-in runs  *)
(* in a browser too.  The state of the sign-in under way is one cookie of  *)
(* a browser, so a second sign-in overwrites the first.                    *)
(***************************************************************************)
EXTENDS Integers, FiniteSets

CONSTANTS
  None,
  Websites, Apps,   \* browsers, and app installations
  BrowserOf,        \* the browser in which a client's sign-in runs
  Lifetime,         \* SESSION_DAYS
  MaxDays,          \* bound: clock
  MaxSignIns        \* bound: sign-ins started

Clients == Websites \cup Apps
SignIns == 1..MaxSignIns

ASSUME AccountsAssumption ==
  /\ Websites \cap Apps = {} /\ BrowserOf \in [Clients -> Websites]
  /\ None \notin Nat
  /\ Lifetime \in Nat \ {0} /\ MaxDays \in Nat /\ MaxSignIns \in Nat

VARIABLES
  day,
  started,    \* how many sign-ins were started
  client,     \* who started each: the part of the state before the dot
  pending,    \* sign-ins at Discord
  state,      \* each browser's jt_oauth_state
  expires,    \* sessions.expires_at of the token that a sign-in minted, or None
  token,      \* the sign-in whose token each client holds, or None
  cookieEnds, \* when a browser drops the session cookie
  lastUse     \* history: the last time a client was answered as signed in, or None

accountVars == <<day, started, client, pending, state, expires, token, cookieEnds, lastUse>>

AccountsInit ==
  /\ day = 0
  /\ started = 0 /\ pending = {}
  /\ client = [s \in SignIns |-> None]
  /\ state = [b \in Websites |-> None]
  /\ expires = [s \in SignIns |-> None]
  /\ token = [c \in Clients |-> None]
  /\ cookieEnds = [b \in Websites |-> 0]
  /\ lastUse = [c \in Clients |-> None]

-----------------------------------------------------------------------------
\* GET /api/auth/discord/start: the cookie is that of the latest start.
StartSignIn(c) ==
  /\ started < MaxSignIns
  /\ started' = started + 1
  /\ client' = [client EXCEPT ![started + 1] = c]
  /\ pending' = pending \cup {started + 1}
  /\ state' = [state EXCEPT ![BrowserOf[c]] = started + 1]
  /\ UNCHANGED <<day, expires, token, cookieEnds, lastUse>>

\* createSession, and what the client does with the token.
Opens(s) ==
  /\ expires' = [expires EXCEPT ![s] = day + Lifetime]
  /\ token' = [token EXCEPT ![client[s]] = s]
  /\ lastUse' = [lastUse EXCEPT ![client[s]] = day]
  /\ IF client[s] \in Websites
     THEN cookieEnds' = [cookieEnds EXCEPT ![client[s]] = day + Lifetime]
     ELSE UNCHANGED cookieEnds

\* GET /api/auth/discord/callback: the state cookie goes whatever it held.  A
\* callback of another sign-in, and one whose code Discord does not exchange,
\* leave everything else alone.
Callback(s) ==
  LET b == BrowserOf[client[s]]
  IN  /\ s \in pending
      /\ pending' = pending \ {s}
      /\ state' = [state EXCEPT ![b] = None]
      /\ \/ state[b] = s /\ Opens(s)
         \/ UNCHANGED <<expires, token, cookieEnds, lastUse>>
      /\ UNCHANGED <<day, started, client>>

Sent(c) == IF c \in Websites /\ cookieEnds[c] <= day THEN None ELSE token[c]

\* userForSessionToken finds the row.
Authorised(c) ==
  /\ Sent(c) # None
  /\ expires[Sent(c)] # None /\ expires[Sent(c)] > day

\* As a bug: the expiry does not slide.
UseWithoutSliding(c) ==
  /\ Authorised(c)
  /\ lastUse' = [lastUse EXCEPT ![c] = day]
  /\ UNCHANGED <<day, started, client, pending, state, expires, token, cookieEnds>>

\* Any signed-in request: expires_at = GREATEST(expires_at, now() + 180 days).
Use(c) ==
  /\ Authorised(c)
  /\ expires' = [expires EXCEPT ![token[c]] = IF @ < day + Lifetime THEN day + Lifetime ELSE @]
  /\ lastUse' = [lastUse EXCEPT ![c] = day]
  /\ UNCHANGED <<day, started, client, pending, state, token, cookieEnds>>

\* POST /api/auth/logout: the row of this client's token goes, and the token.
SignOut(c) ==
  /\ Sent(c) # None
  /\ expires' = [expires EXCEPT ![Sent(c)] = None]
  /\ token' = [token EXCEPT ![c] = None]
  /\ lastUse' = [lastUse EXCEPT ![c] = None]
  /\ UNCHANGED <<day, started, client, pending, state, cookieEnds>>

\* A state cookie lives for ten minutes.
DaysPass ==
  /\ day < MaxDays
  /\ day' = day + 1
  /\ state' = [b \in Websites |-> None]
  /\ UNCHANGED <<started, client, pending, expires, token, cookieEnds, lastUse>>

AccountsNext ==
  \/ \E c \in Clients : StartSignIn(c) \/ Use(c) \/ SignOut(c)
  \/ \E s \in SignIns : Callback(s)
  \/ DaysPass

-----------------------------------------------------------------------------
AccountsTypeOK ==
  /\ day \in 0..MaxDays
  /\ started \in 0..MaxSignIns /\ pending \subseteq 1..started
  /\ client \in [SignIns -> Clients \cup {None}]
  /\ state \in [Websites -> SignIns \cup {None}]
  /\ expires \in [SignIns -> Nat \cup {None}]
  /\ token \in [Clients -> SignIns \cup {None}]
  /\ cookieEnds \in [Websites -> Nat]
  /\ lastUse \in [Clients -> Nat \cup {None}]

\* docs/accounts.md:28, "Sessions last 180 days and slide on every use": a client
\* that was used within the lifetime and not signed out is still signed in,
\* whatever the other clients of its user do meanwhile.  (Of a browser this
\* holds while it keeps the cookie, which ends 180 days after the sign-in.)
ActiveStaysSignedIn ==
  \A c \in Clients :
    /\ lastUse[c] # None /\ day < lastUse[c] + Lifetime
    /\ c \in Websites => day < cookieEnds[c]
    => Authorised(c)
=============================================================================
