------------------------------- MODULE RateLimit -------------------------------
(***************************************************************************)
(* checkRateLimit: a sliding window in Redis, and a serialisable count in  *)
(* the database whenever Redis gives no answer.  Between reading the clock *)
(* and using it a call may be held up, by at most MaxDelay.                *)
(*                                                                         *)
(* A key is <<limit, signal, subject>>: the limit of a route itself, or    *)
(* the adaptive one of an identifier together with a device.               *)
(* The Upstash backend, an external service, is taken as not configured.   *)
(***************************************************************************)
EXTENDS Integers, FiniteSets, Sequences

CONSTANTS
    Slots,              \* calls that can be under way
    None,
    Max, Window,        \* of each limit of a route
    AdaptiveEnabled,    \* AUTH_ADAPTIVE_RATE_LIMIT_ENABLED
    AdaptiveMax,        \* of an identifier on one device
    AdaptiveWindow,
    \* bounds of the model
    MaxDelay, MaxTime, MaxFaults

ASSUME RateLimitAssumption ==
    /\ MaxDelay \in Nat /\ MaxTime \in Nat /\ MaxFaults \in Nat
    /\ AdaptiveEnabled \in BOOLEAN
    /\ AdaptiveMax \in Nat \ {0} /\ AdaptiveWindow \in Nat
    /\ \A l \in DOMAIN Window :
          Window[l] \in Nat /\ MaxDelay < Window[l] /\ Max[l] \in Nat \ {0}
    /\ None \notin {"redis", "db"}

VARIABLES
    now,
    attempts,   \* every attempt counted: members in Redis and rows of RateLimitAttempt
    redis,      \* is a Redis configured
    call,       \* the checks of a request: those left and how far the first one is
    faults

limitVars == <<now, attempts, redis, call, faults>>

Limit(k) == IF k[2] = "plain" THEN Max[k[1]] ELSE AdaptiveMax
Span(k)  == IF k[2] = "plain" \/ Window[k[1]] > AdaptiveWindow
            THEN Window[k[1]] ELSE AdaptiveWindow

\* Every request has a fingerprint, if only that of two empty headers.  All
\* those of one identifier are taken to come from one device.
AdaptiveChecks(limit, id) ==
    IF AdaptiveEnabled THEN <<<<limit, "id-device", id>>>> ELSE <<>>

\* Faulty: the adaptive limit is to take the place of the plain one.
AdaptiveInstead(limit, id) == IF AdaptiveEnabled THEN <<>> ELSE <<<<limit, "plain", id>>>>

IdentifierChecks(limit, id) == <<<<limit, "plain", id>>>> \o AdaptiveChecks(limit, id)

-----------------------------------------------------------------------------
NoCall == [checks |-> <<>>, step |-> "none", clock |-> 0, retried |-> FALSE,
           store |-> None, at |-> 0]

LimitInit ==
    /\ redis \in BOOLEAN
    /\ now = 0 /\ attempts = {} /\ faults = 0
    /\ call = [s \in Slots |-> NoCall]

Fault == faults < MaxFaults /\ faults' = faults + 1

Begin(s, keys) == call' = [call EXCEPT ![s] = [NoCall EXCEPT !.checks = keys, !.step = "redis"]]
Goto(s, step)  == call' = [call EXCEPT ![s].step = step]
Denied(s)      == Goto(s, "denied")

\* The next check, if any.  store and at tell where and when the first one of
\* the request was counted.
Allowed(s, store) ==
    LET c == call[s] IN
    call' = [call EXCEPT ![s] = [c EXCEPT
        !.checks = Tail(c.checks), !.retried = FALSE, !.clock = 0,
        !.step   = IF Len(c.checks) = 1 THEN "allowed" ELSE "redis",
        !.store  = IF c.store = None THEN store ELSE c.store,
        !.at     = IF c.store = None THEN now ELSE c.at]]

\* n tells attempts of one instant apart.
Attempt(s, store) ==
    LET k == Head(call[s].checks) IN
    [key |-> k, store |-> store, at |-> now, kept |-> TRUE,
     score |-> IF store = "redis" THEN call[s].clock ELSE 0,
     n |-> Cardinality({a \in attempts : a.key = k /\ a.store = store /\ a.at = now})]

-----------------------------------------------------------------------------
(* Redis *)

Members(k) == {a \in attempts : a.key = k /\ a.store = "redis" /\ a.kept}

\* Each ZADD sets the key to expire a window later.
Alive(k) == \E a \in Members(k) : now < a.at + Span(k)

\* What ZREMRANGEBYSCORE leaves of it
Remaining(k, clock) ==
    {a \in Members(k) : Alive(k) /\ a.score > clock - Span(k)}

Trimmed(k, clock) ==
    {IF a \in Members(k) \ Remaining(k, clock)
     THEN [a EXCEPT !.kept = FALSE, !.score = 0] ELSE a : a \in attempts}

\* The database counts instead, from a clock reading of its own.
ToDatabase(s) == call' = [call EXCEPT ![s].step = "insert", ![s].clock = now]

\* Redis may not be configured, or be out of reach.
GetLocalRedisClient(s) ==
    /\ call[s].step = "redis"
    /\ \/ /\ redis
          /\ call' = [call EXCEPT ![s].step = "eval", ![s].clock = now]
          /\ UNCHANGED faults
       \/ ToDatabase(s) /\ (IF redis THEN Fault ELSE UNCHANGED faults)
    /\ UNCHANGED <<now, attempts, redis>>

\* Faulty: the window is cut at the wrong end.
EvalKeepingOne(s) ==
    LET k == Head(call[s].checks) IN
    /\ call[s].step = "eval"
    /\ IF Cardinality(Remaining(k, call[s].clock)) > Limit(k)
       THEN Denied(s) /\ attempts' = Trimmed(k, call[s].clock)
       ELSE /\ attempts' = Trimmed(k, call[s].clock) \cup {Attempt(s, "redis")}
            /\ Allowed(s, "redis")
    /\ UNCHANGED <<now, redis, faults>>

\* The script is atomic.  Its reply, or the call itself, may be lost.
CheckLocalRedis(s) ==
    LET k     == Head(call[s].checks)
        clock == call[s].clock
        full  == Cardinality(Remaining(k, clock)) >= Limit(k) IN
    /\ call[s].step = "eval"
    /\ \/ /\ attempts' = Trimmed(k, clock) \cup (IF full THEN {} ELSE {Attempt(s, "redis")})
          /\ \/ UNCHANGED faults /\ IF full THEN Denied(s) ELSE Allowed(s, "redis")
             \/ Fault /\ ToDatabase(s)
       \/ UNCHANGED attempts /\ Fault /\ ToDatabase(s)
    /\ UNCHANGED <<now, redis>>

-----------------------------------------------------------------------------
(* The database *)

Rows(k, from) == {a \in attempts : a.key = k /\ a.store = "db" /\ a.at >= from}

\* Faulty: each transaction counts what was there when it began.
CountAtOnce(s) ==
    LET k    == Head(call[s].checks)
        full == Cardinality({a \in Rows(k, call[s].clock - Span(k)) :
                    a.at < call[s].clock}) >= Limit(k) IN
    /\ call[s].step = "insert"
    /\ IF full THEN Denied(s) /\ UNCHANGED attempts
               ELSE Allowed(s, "db") /\ attempts' = attempts \cup {Attempt(s, "db")}
    /\ UNCHANGED <<now, redis, faults>>

\* The transaction counts and inserts as if alone.  It may be aborted for a
\* conflict, and is tried twice; any other error refuses the request.
CheckPrismaFallback(s) ==
    LET k    == Head(call[s].checks)
        full == Cardinality(Rows(k, call[s].clock - Span(k))) >= Limit(k) IN
    /\ call[s].step = "insert"
    /\ \/ full /\ Denied(s) /\ UNCHANGED <<attempts, faults>>
       \/ /\ ~full /\ Allowed(s, "db")
          /\ attempts' = attempts \cup {Attempt(s, "db")}
          /\ UNCHANGED faults
       \/ /\ ~call[s].retried /\ Fault
          /\ call' = [call EXCEPT ![s].clock = now, ![s].retried = TRUE]
          /\ UNCHANGED attempts
       \/ Denied(s) /\ Fault /\ UNCHANGED attempts
    /\ UNCHANGED <<now, redis>>

-----------------------------------------------------------------------------
CheckRateLimit(s) ==
    \/ GetLocalRedisClient(s)
    \/ CheckLocalRedis(s)
    \/ CheckPrismaFallback(s)

\* No call holds a clock reading for longer than MaxDelay.
Tick ==
    /\ now < MaxTime
    /\ \A s \in Slots : call[s].step \in {"eval", "insert"} => now < call[s].clock + MaxDelay
    /\ now' = now + 1
    /\ UNCHANGED <<attempts, redis, call, faults>>

-----------------------------------------------------------------------------
(* Properties *)

LimitTypeOK ==
    /\ now \in 0..MaxTime /\ faults \in 0..MaxFaults
    /\ \A s \in Slots :
          /\ call[s].step \in {"none", "redis", "eval", "insert", "allowed", "denied"}
          /\ call[s].clock \in 0..now /\ call[s].at \in 0..now
          /\ call[s].step \in {"redis", "eval", "insert"} => call[s].checks # <<>>
    /\ \A a \in attempts : a.score <= a.at /\ a.at <= now

\* However calls overlap and whichever replies are lost, each of the two
\* counters keeps its limit: Redis over any stretch shorter than the window by
\* the delay of a call, the database over every window (checkRateLimit).
AdmissionsBounded ==
    \A a \in attempts :
        LET Near(b) == /\ b.key = a.key /\ b.store = a.store
                       /\ a.at <= b.at
                       /\ IF a.store = "redis" THEN b.at < a.at + Span(a.key) - MaxDelay
                                               ELSE b.at <= a.at + Span(a.key)
        IN  Cardinality({b \in attempts : Near(b)}) <= Limit(a.key)
=============================================================================
