----------------------------- MODULE RateLimiter -----------------------------
(***************************************************************************)
(* The per-device request budget (RateLimiter.check in auth.py), for one   *)
(* key.  check is called by require_device, which the framework runs in    *)
(* worker threads, and takes no lock: it reads the clock, builds a new     *)
(* list from the stored one, and stores the new list, and another thread   *)
(* may run between any two of these.                                       *)
(*                                                                         *)
(* Requests are numbered as they arrive.  A list of moments is the set of  *)
(* the requests that were made at them: check never uses the order.        *)
(***************************************************************************)
EXTENDS Integers, FiniteSets

CONSTANTS
    Callers,       \* threads running check
    Limit,         \* rate_limit_requests
    Window,        \* rate_limit_window_seconds, in clock steps
    MaxTime,       \* bound: clock steps
    MaxRequests    \* bound: requests

ASSUME LimiterAssumption ==
    /\ Limit \in Nat
    /\ Window \in Nat \ {0}
    /\ MaxTime \in Nat
    /\ MaxRequests \in Nat

Times == 0..MaxTime
Requests == 1..MaxRequests

VARIABLES
    now,
    asked,       \* how many requests have arrived
    moment,      \* when each of them did
    hits,        \* _hits[key]
    call,        \* each caller's call of check: its step, request and list
    admitted,    \* history: requests let through
    refused,     \* history: requests answered 429
    raced        \* history: two calls of check have overlapped

limiterVars == <<now, asked, moment, hits, call, admitted, refused, raced>>

Busy == {w \in Callers : call[w].step # "idle"}

NoCall == [step |-> "idle", request |-> 0, hits |-> {}]

\* Those later than the cutoff of a request made at m.
Since(requests, m) == {r \in requests : moment[r] > m - Window}

LimiterInit ==
    /\ now = 0
    /\ asked = 0
    /\ moment = [r \in Requests |-> 0]
    /\ hits = {}
    /\ call = [w \in Callers |-> NoCall]
    /\ admitted = {}
    /\ refused = {}
    /\ raced = FALSE

Tick ==
    /\ now < MaxTime
    /\ now' = now + 1
    /\ UNCHANGED <<asked, moment, hits, call, admitted, refused, raced>>

\* A request arrives: moment = time.monotonic().
Request(w) ==
    /\ call[w].step = "idle"
    /\ asked < MaxRequests
    /\ asked' = asked + 1
    /\ moment' = [moment EXCEPT ![asked + 1] = now]
    /\ call' = [call EXCEPT ![w] = [step |-> "read", request |-> asked + 1, hits |-> {}]]
    /\ raced' = (raced \/ Busy # {})
    /\ UNCHANGED <<now, hits, admitted, refused>>

\* Mutant: expired hits are kept.
ReadHitsAll(w) ==
    /\ call[w].step = "read"
    /\ call' = [call EXCEPT ![w].step = "write", ![w].hits = hits]
    /\ UNCHANGED <<now, asked, moment, hits, admitted, refused, raced>>

\* The hits later than the cutoff, as a new list.
ReadHits(w) ==
    /\ call[w].step = "read"
    /\ call' = [call EXCEPT ![w].step = "write",
                            ![w].hits = Since(hits, moment[call[w].request])]
    /\ UNCHANGED <<now, asked, moment, hits, admitted, refused, raced>>

\* Mutant: one request too many.
StoreHitsOffByOne(w) ==
    /\ call[w].step = "write"
    /\ LET c == call[w]
       IN  /\ hits' = c.hits \cup {c.request}
           /\ IF Cardinality(c.hits) > Limit
              THEN refused' = refused \cup {c.request} /\ UNCHANGED admitted
              ELSE admitted' = admitted \cup {c.request} /\ UNCHANGED refused
    /\ call' = [call EXCEPT ![w] = NoCall]
    /\ UNCHANGED <<now, asked, moment, raced>>

\* Mutant: the error is caught, and the refused request goes on to be served.
StoreHitsFallsThrough(w) ==
    /\ call[w].step = "write"
    /\ LET c == call[w]
       IN  /\ hits' = c.hits \cup {c.request}
           /\ refused' = IF Cardinality(c.hits) >= Limit THEN refused \cup {c.request}
                                                         ELSE refused
           /\ admitted' = admitted \cup {c.request}
    /\ call' = [call EXCEPT ![w] = NoCall]
    /\ UNCHANGED <<now, asked, moment, raced>>

\* The request is appended to the list, refused or not, and the list stored.
StoreHits(w) ==
    /\ call[w].step = "write"
    /\ LET c == call[w]
       IN  /\ hits' = c.hits \cup {c.request}
           /\ IF Cardinality(c.hits) >= Limit
              THEN refused' = refused \cup {c.request} /\ UNCHANGED admitted
              ELSE admitted' = admitted \cup {c.request} /\ UNCHANGED refused
    /\ call' = [call EXCEPT ![w] = NoCall]
    /\ UNCHANGED <<now, asked, moment, raced>>

\* The bounds stop the model.
LimiterDone ==
    /\ now = MaxTime
    /\ asked = MaxRequests
    /\ Busy = {}
    /\ UNCHANGED limiterVars

LimiterNext ==
    \/ Tick
    \/ \E w \in Callers : Request(w) \/ ReadHits(w) \/ StoreHits(w)
    \/ LimiterDone

LimiterSpec == LimiterInit /\ [][LimiterNext]_limiterVars

-----------------------------------------------------------------------------
(* Properties *)

\* The requests of the window that ends at m.
InWindow(requests, m) == {r \in requests : moment[r] <= m /\ moment[r] > m - Window}

\* Types of the state; a request is answered once.
LimiterTypeOK ==
    /\ now \in Times
    /\ asked \in 0..MaxRequests
    /\ moment \in [Requests -> Times]
    /\ hits \subseteq 1..asked
    /\ call \in [Callers -> [step : {"idle", "read", "write"},
                             request : 0..asked, hits : SUBSET (1..asked)]]
    /\ admitted \subseteq 1..asked
    /\ refused \subseteq 1..asked
    /\ admitted \cap refused = {}
    /\ raced \in BOOLEAN

\* While no two calls have overlapped, no window of any position admits more
\* than Limit requests (auth.py, check).
UnracedWithinLimit ==
    raced \/ \A t \in Times : Cardinality(InWindow(admitted, t)) <= Limit

\* A request is refused only when more than Limit requests, with itself, were
\* made since its window began (the text of the error): lost updates forget
\* hits and never invent or keep one.
RefusalsJustified ==
    [][\A r \in refused' \ refused :
          Cardinality(Since(admitted' \cup refused', moment[r])) > Limit]_limiterVars
=============================================================================
