---------------------------- MODULE RateLimiter ----------------------------
(***************************************************************************)
(* The Redis rate limiter of one gateway key, and the requests that use    *)
(* it: the Lua scripts of RedisRateLimitService, which Redis runs one at a *)
(* time, and the calls the gateways make around a request.                 *)
(*                                                                         *)
(* Redis may be down, and its answer may be lost after a script has run.   *)
(* A limit of 0 is no limit.  Time advances in ticks; the workers and      *)
(* Redis share a clock.                                                    *)
(***************************************************************************)
EXTENDS Integers, FiniteSets, Totals

CONSTANTS
    Request,            \* request ids of one key
    Streaming,          \* those with stream=true: they send heartbeats
    Tokens,             \* per request: its estimated tokens
    RequestLimit,       \* requests_per_minute
    TokenLimit,         \* tokens_per_minute
    ConcurrencyLimit,   \* concurrent_requests
    Window,             \* window_seconds
    TTL,                \* concurrency_ttl_seconds
    Heartbeat,          \* concurrency_heartbeat_seconds
    Grace,              \* concurrency_ttl_grace_seconds
    MaxTime             \* the bound on time

ASSUME RequestType == /\ IsFiniteSet(Request)
                      /\ Streaming \subseteq Request
                      /\ Tokens \in [Request -> Nat]
ASSUME LimitType == {RequestLimit, TokenLimit, ConcurrencyLimit, MaxTime}
                        \subseteq Nat
\* _validate_inputs and _validate_concurrency_timing
ASSUME TimingType == /\ {Window, TTL, Heartbeat, Grace} \subseteq Nat \ {0}
                     /\ Heartbeat < TTL

VARIABLES
    failClosed, \* RATE_LIMIT_FAIL_CLOSED
    now,        \* the clock, in ticks
    slots,      \* Redis: the sorted set of slots, per request its expiry or 0
    slotsEnd,   \* Redis: when the sorted set expires as a whole
    hits,       \* Redis: per window, the request counter and its expiry
    spent,      \* Redis: per window, the token counter and its expiry
    place,      \* per request: where its handler is
    beat,       \* per request: when its next heartbeat is due
    granted,    \* history: per request, when Redis let it in, or NoTime
    fresh,      \* history: per request, when its slot was last confirmed
    missed,     \* history: requests with a heartbeat that was not confirmed
    ended       \* history: per request, when its handler ended, or NoTime

redisVars == <<slots, slotsEnd, hits, spent>>

vars == <<failClosed, now, redisVars, place, beat, granted, fresh, missed, ended>>

NoTime == -1

Windows == 0 .. (MaxTime \div Window)

Init ==
    /\ failClosed \in BOOLEAN
    /\ now = 0
    /\ slots = [r \in Request |-> 0]
    /\ slotsEnd = 0
    /\ hits = [w \in Windows |-> [n |-> 0, end |-> 0]]
    /\ spent = hits
    /\ place = [r \in Request |-> "idle"]
    /\ beat = [r \in Request |-> 0]
    /\ granted = [r \in Request |-> NoTime]
    /\ fresh = granted
    /\ missed = {}
    /\ ended = granted

-----------------------------------------------------------------------------
(* Redis *)

\* The window of a moment, which is part of the names of the counters.
WindowOf(t) == t \div Window

\* GET, of a counter that may have expired.
Get(counter) == LET c == counter[WindowOf(now)] IN IF c.end > now THEN c.n ELSE 0

\* INCRBY and EXPIRE
Incr(counter, by) ==
    [counter EXCEPT ![WindowOf(now)] = [n |-> Get(counter) + by,
                                        end |-> now + Window]]

\* The sorted set after ZREMRANGEBYSCORE -inf now.
Purged == [r \in Request |-> IF slotsEnd > now /\ slots[r] > now
                             THEN slots[r] ELSE 0]

InUse == {r \in Request : Purged[r] > 0}

\* Mutant: off by one.
SlotFreeOffByOne(r) ==
    ConcurrencyLimit > 0 =>
        r \in InUse \/ Cardinality(InUse) <= ConcurrencyLimit

SlotFree(r) ==
    ConcurrencyLimit > 0 =>
        r \in InUse \/ Cardinality(InUse) < ConcurrencyLimit

\* Mutant: the tokens of the request itself do not count.
RateFreeOfUsed(r) ==
    /\ RequestLimit > 0 => Get(hits) + 1 <= RequestLimit
    /\ TokenLimit > 0 => Get(spent) < TokenLimit

RateFree(r) ==
    /\ RequestLimit > 0 => Get(hits) + 1 <= RequestLimit
    /\ TokenLimit > 0 => Get(spent) + Tokens[r] <= TokenLimit

\* ZADD with a fresh expiry, and EXPIRE
Occupy(r) ==
    /\ slots' = [Purged EXCEPT ![r] = now + TTL]
    /\ slotsEnd' = now + TTL + Grace

\* _RESERVE_SCRIPT
ReserveScript(r) ==
    IF SlotFree(r) /\ RateFree(r)
    THEN /\ hits' = IF RequestLimit > 0 THEN Incr(hits, 1) ELSE hits
         /\ spent' = IF TokenLimit > 0 THEN Incr(spent, Tokens[r]) ELSE spent
         /\ IF ConcurrencyLimit > 0 THEN Occupy(r)
                                    ELSE UNCHANGED <<slots, slotsEnd>>
    ELSE /\ slots' = IF ConcurrencyLimit > 0 THEN Purged ELSE slots
         /\ UNCHANGED <<slotsEnd, hits, spent>>

\* Mutant: the expiry of the slot is not moved.
HeartbeatScriptIdle(r) ==
    /\ slots' = Purged
    /\ slotsEnd' = IF r \in InUse THEN now + TTL + Grace ELSE slotsEnd
    /\ UNCHANGED <<hits, spent>>

\* _HEARTBEAT_SCRIPT: it refreshes a slot and never makes one.
HeartbeatScript(r) ==
    /\ IF r \in InUse THEN Occupy(r)
                      ELSE slots' = Purged /\ UNCHANGED slotsEnd
    /\ UNCHANGED <<hits, spent>>

\* ZREM
ReleaseScript(r) ==
    /\ slots' = [slots EXCEPT ![r] = 0]
    /\ UNCHANGED <<slotsEnd, hits, spent>>

-----------------------------------------------------------------------------
(* The gateway *)

Run(r) ==
    /\ place' = [place EXCEPT ![r] = "running"]
    /\ beat' = [beat EXCEPT ![r] = now + Heartbeat]
    /\ UNCHANGED ended

End(r) ==
    /\ place' = [place EXCEPT ![r] = "over"]
    /\ ended' = [ended EXCEPT ![r] = now]
    /\ UNCHANGED beat

\* check_and_reserve, answered: the request runs or gets a 429.
Reserve(r) ==
    /\ place[r] = "idle"
    /\ ReserveScript(r)
    /\ IF SlotFree(r) /\ RateFree(r)
       THEN /\ Run(r)
            /\ granted' = [granted EXCEPT ![r] = now]
            /\ fresh' = [fresh EXCEPT ![r] = now]
       ELSE End(r) /\ UNCHANGED <<granted, fresh>>
    /\ UNCHANGED <<failClosed, now, missed>>

\* check_and_reserve and _handle_unavailable: Redis was not reached, or ran
\* the script and its answer was lost.
ReserveUnanswered(r) ==
    /\ place[r] = "idle"
    /\ ReserveScript(r) \/ UNCHANGED redisVars
    /\ IF failClosed THEN End(r) ELSE Run(r)
    /\ UNCHANGED <<failClosed, now, granted, fresh, missed>>

\* The heartbeat of a stream is due.
Beats(r) == r \in Streaming /\ place[r] = "running" /\ beat[r] = now

\* One round of _heartbeat_rate_limit_concurrency_loop.  A slot that is gone
\* is counted as a failure and the loop goes on.
HeartbeatRound(r) ==
    /\ Beats(r)
    /\ ConcurrencyLimit > 0
    /\ beat' = [beat EXCEPT ![r] = now + Heartbeat]
    /\ \/ /\ HeartbeatScript(r)
          /\ IF r \in InUse
             THEN fresh' = [fresh EXCEPT ![r] = now] /\ UNCHANGED missed
             ELSE missed' = missed \cup {r} /\ UNCHANGED fresh
       \/ /\ HeartbeatScript(r) \/ UNCHANGED redisVars
          /\ missed' = missed \cup {r}
          /\ UNCHANGED fresh
    /\ UNCHANGED <<failClosed, now, place, granted, ended>>

\* _release_rate_limit_concurrency, when the handler is done and its
\* heartbeat task has been cancelled and awaited.  The release may fail.
Finish(r) ==
    /\ place[r] = "running"
    /\ End(r)
    /\ ReleaseScript(r) \/ UNCHANGED redisVars
    /\ UNCHANGED <<failClosed, now, granted, fresh, missed>>

\* The process dies; or a handler that does not stream is cancelled, which
\* its `except Exception` does not catch; or a stream is never iterated.
Abandon(r) ==
    /\ place[r] = "running"
    /\ End(r)
    /\ UNCHANGED <<failClosed, now, redisVars, granted, fresh, missed>>

\* Time passes; the event loop serves heartbeats when they are due.
Tick ==
    /\ now < MaxTime
    /\ ConcurrencyLimit > 0 => \A r \in Request : ~Beats(r)
    /\ now' = now + 1
    /\ UNCHANGED <<failClosed, redisVars, place, beat, granted, fresh, missed,
                   ended>>

Next ==
    \/ \E r \in Request : \/ Reserve(r)
                          \/ ReserveUnanswered(r)
                          \/ HeartbeatRound(r)
                          \/ Finish(r)
                          \/ Abandon(r)
    \/ Tick

LimiterSpec == Init /\ [][Next]_vars

-----------------------------------------------------------------------------
(* Properties *)

\* The requests that run, were let in by Redis, and whose slot was confirmed
\* less than its TTL ago.
Confirmed == {r \in Request : /\ place[r] = "running"
                              /\ fresh[r] # NoTime
                              /\ now < fresh[r] + TTL}

\* A stream whose heartbeats get through keeps its slot however long it is
\* ("heartbeated while the stream remains open").
StreamKeepsSlot ==
    ConcurrencyLimit > 0 =>
        \A r \in Streaming :
            place[r] = "running" /\ granted[r] # NoTime /\ r \notin missed =>
                r \in Confirmed /\ r \in InUse

\* No more than concurrent_requests run at a time, as long as their slots are
\* confirmed within the TTL; and in no window are more requests or estimated
\* tokens let in than the limits say.  No purge and no EXPIRE takes away the
\* slot of a confirmed request, or a counter before its window is over; an
\* ended request blocks others for at most the TTL ("TTL cleanup for crash
\* recovery").
LimitsHold ==
    /\ ConcurrencyLimit > 0 => Cardinality(Confirmed) <= ConcurrencyLimit
    /\ \A w \in Windows :
          LET letIn == {r \in Request : granted[r] # NoTime /\ WindowOf(granted[r]) = w}
          IN  /\ RequestLimit > 0 => Cardinality(letIn) <= RequestLimit
              /\ TokenLimit > 0 => Total(letIn, Tokens) <= TokenLimit
    /\ \A r \in Request : r \in InUse /\ place[r] = "over" => now < ended[r] + TTL

=============================================================================
