------------------------------ MODULE RateLimit ------------------------------
(***************************************************************************)
(* The rate limiter of the public endpoints, for one client address        *)
(* (shared/rate_limiting/service.py, decorators.py).  The counter of an    *)
(* address lives in the cache.  A request reads it, computes, and writes   *)
(* it: the cache is asked up to four times, and requests interleave        *)
(* between the calls.  All endpoints share the counter of an address, each *)
(* with a limit and a period of its own.                                   *)
(***************************************************************************)
EXTENDS Integers

CONSTANTS Callers,    \* requests of the address being served at the same time
          Endpoints,  \* the limits and periods of endpoints: [limit, period]
          MaxTime, MaxHits  \* bounds: the clock, requests

ASSUME RateLimitConstants ==
    /\ MaxTime \in Nat /\ MaxHits \in Nat
    /\ Endpoints # {} /\ \A e \in Endpoints : e.limit \in Nat /\ e.period \in Nat \ {0}

VARIABLES time,
          entry,     \* the cache entry: count, reset_time, and when it goes
          caller,    \* caller[c]: where the request is and what it has read
          served,    \* history: requests counted since the counter last began at 1
          forgotten, \* history: how far stale writes have put the counter back since then
          broken,    \* history: a request was admitted beyond its limit and what was forgotten
          hits       \* requests that may still come

limitVars == <<time, entry, caller, served, forgotten, broken, hits>>

NoEntry == [count |-> 0, reset |-> 0, until |-> 0]
Caller == [pc : {"idle", "add", "look", "addagain", "lookagain", "force", "decide", "over", "count"},
           now : 0..MaxTime,  \* current_time, read at the start
           endpoint : Endpoints, count : Nat, reset : Nat]
Calm == [pc |-> "idle", now |-> 0, endpoint |-> CHOOSE e \in Endpoints : TRUE,
         count |-> 0, reset |-> 0]

LimitInit == /\ time = 0 /\ entry = NoEntry /\ hits = MaxHits
             /\ caller = [c \in Callers |-> Calm]
             /\ served = 0 /\ forgotten = 0 /\ broken = FALSE

Cached == time < entry.until
Is(c, pc) == caller[c].pc = pc
Step(c, pc) == caller' = [caller EXCEPT ![c].pc = pc]
End(c) == caller' = [caller EXCEPT ![c] = Calm]
\* The data of the entry goes into the request.
Copied(c, pc) == caller' = [caller EXCEPT ![c].pc = pc, ![c].count = entry.count, ![c].reset = entry.reset]

\* cache.get: found, the request decides; not found, it goes on to miss.
Look(c, miss) == IF Cached THEN Copied(c, "decide") ELSE Step(c, miss)

\* The counter begins at 1: cache.add of a missing key, or cache.set.
StartWindow(c) ==
    /\ LET reset == caller[c].now + caller[c].endpoint.period IN
         entry' = [count |-> 1, reset |-> reset,
                   until |-> time + caller[c].endpoint.period]
    /\ served' = 1 /\ forgotten' = 0
    /\ End(c)
    /\ UNCHANGED <<time, broken, hits>>

Arrive(c, e) ==
    /\ Is(c, "idle") /\ hits > 0 /\ hits' = hits - 1
    /\ LET x == [Calm EXCEPT !.now = time, !.endpoint = e] IN
         caller' = [caller EXCEPT ![c] =
             IF Cached THEN [x EXCEPT !.pc = "decide", !.count = entry.count, !.reset = entry.reset]
             ELSE [x EXCEPT !.pc = "add"]]
    /\ UNCHANGED <<time, entry, served, forgotten, broken>>

\* add succeeds only while the key is missing.
Add(c) == /\ caller[c].pc \in {"add", "addagain"} /\ ~Cached
          /\ StartWindow(c)
AddFails(c) == /\ caller[c].pc \in {"add", "addagain"} /\ Cached
               /\ Step(c, IF Is(c, "add") THEN "look" ELSE "lookagain")
               /\ UNCHANGED <<time, entry, served, forgotten, broken, hits>>

\* Somebody else's entry, if it is still there.
LookAgain(c) == /\ caller[c].pc \in {"look", "lookagain"}
                /\ Look(c, IF Is(c, "look") THEN "addagain" ELSE "force")
                /\ UNCHANGED <<time, entry, served, forgotten, broken, hits>>

\* The window of the entry is over, or the cache has lost it twice: set.
Restart(c) == /\ \/ Is(c, "force")
                 \/ Is(c, "decide") /\ caller[c].now >= caller[c].reset
              /\ StartWindow(c)

(* Variant: the limit is checked before the request is counted. *)
CountAfterCheck(c) ==
    LET n == caller[c].count + 1
        e == caller[c].endpoint
        back == IF entry.count > caller[c].count THEN entry.count - caller[c].count ELSE 0
    IN /\ Is(c, "decide") /\ caller[c].now < caller[c].reset
       /\ entry' = [count |-> n, reset |-> caller[c].reset,
                    until |-> time + caller[c].reset - caller[c].now]
       /\ served' = served + 1
       /\ forgotten' = forgotten + back
       /\ broken' = (broken \/ (n - 1 <= e.limit /\ served' > e.limit + forgotten'))
       /\ End(c)
       /\ UNCHANGED <<time, hits>>

\* The count of the copy plus one is set, over whatever is there by now.  The
\* request is admitted when that count is within its endpoint's limit.
Count(c) ==
    LET n == caller[c].count + 1
        e == caller[c].endpoint
        back == IF entry.count > caller[c].count THEN entry.count - caller[c].count ELSE 0
    IN /\ Is(c, "decide") /\ caller[c].now < caller[c].reset
       /\ entry' = [count |-> n, reset |-> caller[c].reset,
                    until |-> time + caller[c].reset - caller[c].now]
       /\ served' = served + 1
       /\ forgotten' = forgotten + back
       /\ broken' = (broken \/ (n <= e.limit /\ served' > e.limit + forgotten'))
       /\ End(c)
       /\ UNCHANGED <<time, hits>>

Advance == /\ time < MaxTime /\ time' = time + 1
           /\ UNCHANGED <<entry, caller, served, forgotten, broken, hits>>

\* reset_rate_limit, or the cache evicts the key.
Evict == /\ Cached
         /\ entry' = [entry EXCEPT !.until = time]
         /\ UNCHANGED <<time, caller, served, forgotten, broken, hits>>

LimitNext == \/ \E c \in Callers : \/ \E e \in Endpoints : Arrive(c, e)
                                   \/ Add(c) \/ AddFails(c) \/ LookAgain(c) \/ Restart(c) \/ Count(c)
             \/ Advance \/ Evict
LimitSpec == LimitInit /\ [][LimitNext]_limitVars
-----------------------------------------------------------------------------
LimitType == /\ time \in 0..MaxTime /\ hits \in 0..MaxHits
             /\ entry \in [count : Nat, reset : Nat, until : Nat]
             /\ caller \in [Callers -> Caller]
             /\ served \in Nat /\ forgotten \in Nat /\ broken \in BOOLEAN

\* The entry has counted every request since it began, but for those that a
\* stale write has taken back.
CounterHonest == served <= entry.count + forgotten

\* A request is admitted only while the requests counted since the counter
\* began are within the limit of its endpoint, but for those that a stale write
\* has taken back (rate_limiting/service.py:66).
WithinLimit == ~broken
=============================================================================
